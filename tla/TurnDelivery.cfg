\* Adapters of one user and their turns, against a daemon that comes and goes.
CONSTANTS
  c1 = c1  c2 = c2  c3 = c3  t1 = t1  t2 = t2  a1 = a1  a2 = a2
  None = None
  Other = Other
  Calls <- MCCalls
  Turns <- MCTurns
  Adapters <- MCAdapters
  Large <- MCLarge
  Steps = 3
  MaxFailures = 2
SPECIFICATION MCSpec
INVARIANTS ToldIsTrue PlanIsAllOrNothing RetriesShareAPlan
PROPERTIES AdapterAnswers
CHECK_DEADLOCK FALSE
