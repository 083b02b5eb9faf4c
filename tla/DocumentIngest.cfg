\* Three calls for a file that has two chunks or none; one failure or crash.
CONSTANTS
  c1 = c1  c2 = c2  c3 = c3  empty = empty  full = full
  None = None
  Calls <- MCCalls
  Contents = {empty, full}
  Size <- MCSize
  MaxFailures = 1
SYMMETRY MCAlike
SPECIFICATION Spec
INVARIANTS QueuedAreStored LatestIngestSurvives UndisturbedReplaces
