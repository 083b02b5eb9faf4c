\* Three calls, each a turn or a retrieval, over two nodes; one failure or crash.
CONSTANTS
  c1 = c1  c2 = c2  c3 = c3  n1 = n1  n2 = n2
  RepoQuest = RepoQuest
  None = None
  Calls <- MCCalls
  Nodes <- MCNodes
  Scores = {80}
  MaxWarmNodes = 1
  MaxFailures = 1
SYMMETRY MCAlike
SPECIFICATION MCSpec
\* Every call is made once, so a run ends when all have ended.
CHECK_DEADLOCK FALSE
INVARIANTS SequentialTurnsShareAQuest FrontierOfOneTurn ConsolidatedIsConfident HitsCountLoads
PROPERTY SequentialRoutingStrengthens
