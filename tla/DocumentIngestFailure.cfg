\* Two calls, one failure or crash.
CONSTANTS
  c1 = c1  c2 = c2  c3 = c3  empty = empty  full = full
  None = None
  Calls <- MCTwoCalls
  Contents = {empty, full}
  Size <- MCSize
  MaxFailures = 1
SPECIFICATION Spec
INVARIANT LiveMatchesHash
