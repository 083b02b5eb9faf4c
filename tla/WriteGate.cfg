\* Three writes, two handlers' writes and a read, on two threads.
CONSTANTS
  w1 = w1  w2 = w2  w3 = w3  h1 = h1  h2 = h2  q1 = q1
  None = None
  Writers <- MCWriters
  Handlers <- MCHandlers
  Embedded <- MCEmbedded
  Many <- MCMany
  Readers <- MCReaders
  PoolSize = 2
SPECIFICATION MCSpec
\* Every call is made once, so a run ends when all are answered.
CHECK_DEADLOCK FALSE
INVARIANTS OverlapsOnlyAbandoned AckedIsStored
PROPERTIES ImplementsWriteService ImplementsWriteQueue EveryWriteReturns ReadsReturnWhilePoolHasRoom
