\* Three turns of one session, or two and a retrieval; the first two are
\* versions of one memory.
CONSTANTS
  t1 = t1  t2 = t2  t3 = t3  r1 = r1  s1 = s1
  None = None
  Calls <- MCCalls
  Retrievals <- MCRetrievals
  Sessions <- MCSessions
  SessionOf <- MCSessionOf
  Keyed <- MCKeyed
  Tokens <- MCTokens
  Window = 2
  MaxFailures = 0
SPECIFICATION MCSpec
\* Every call is made once.
CHECK_DEADLOCK FALSE
INVARIANT FollowedByGoesForward
