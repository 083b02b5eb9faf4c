\* Two turns of one session, one of them a version of a memory, and one place
\* in the Observation worker's queue.
CONSTANTS
  t1 = t1  t2 = t2  s1 = s1
  None = None  NoItem = NoItem
  Calls <- MCTurns
  Items <- MCTurns
  Retrievals <- MCRetrievals
  Sessions <- MCSessions
  SessionOf <- MCSessionOf
  Keyed <- MCKeyed
  Tokens <- MCTokens
  Kind <- MCKind
  Window = 2
  MaxFailures = 1
  ObsMax = 1
  ObservationsOn = TRUE
  SideBranch = FALSE
SPECIFICATION FairPipeline
\* Every turn is sent once.
CHECK_DEADLOCK FALSE
INVARIANTS AnsweredAreSettled LoopFollowsTheChain
PROPERTY CaptureNeverWaitsForTheLoop
