\* Three requests over four workspaces with room for two clients.
CONSTANTS
  local = local  wa = wa  wb = wb  bad = bad
  r1 = r1  r2 = r2  r3 = r3  b1 = b1
  None = None
  Workspaces <- MCWorkspaces
  Rejected <- MCRejected
  Local = local
  Requests <- MCRequests3
  Workers <- MCWorkers
  Handles <- MCHandles
  SelfDb = 0
  MaxOpen = 2
SPECIFICATION MCSpec
INVARIANTS TypeOK BorrowsMatchUsers BusyClientStaysOpen OneClientPerDirectory NoClientLeaks
PROPERTIES CacheBounded EvictsLeastRecentIdle WaitingEnds
