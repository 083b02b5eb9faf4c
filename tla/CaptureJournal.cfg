\* Two connectors, three files, three events a scan at most; see the module.
SPECIFICATION MCSpec
CONSTANTS
  k1 = k1  k2 = k2  f1 = f1  f2 = f2  f3 = f3  None = None
  Connectors <- MCConnectors
  Files <- MCFiles
  Owner <- MCOwner
  PerLine <- MCPerLine
  Undated <- MCUndated
  MaxEvents = 3
  MaxSeen = 3
  Backfill = 1
  BackfillFiles = 1
  MaxLines = 2
  MaxVersions = 1
  MaxFailures = 2
INVARIANTS PassedIsIngested JournalledOnce
