\* Three user turns, one more than fit in the Observation worker and its queue,
\* an answer and an extract of a document.
CONSTANTS
  u1 = u1  u2 = u2  u3 = u3  a1 = a1  x1 = x1
  NoItem = NoItem
  Items <- MCItems
  Kind <- MCKind
  ObsMax = 1
  ObservationsOn = TRUE
  SideBranch = TRUE
SPECIFICATION FairWorkers
\* Every item is put once.
CHECK_DEADLOCK FALSE
INVARIANT PollIsHonest
PROPERTIES SettleWaitEnds LoopNeverWaitsForObservations
