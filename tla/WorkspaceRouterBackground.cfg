\* One request stream fills the cache while a background coroutine works.
CONSTANTS
  local = local  wa = wa  wb = wb  bad = bad
  r1 = r1  r2 = r2  r3 = r3  b1 = b1
  None = None
  Workspaces <- MCWorkspaces
  Rejected <- MCRejected
  Local = local
  Requests <- MCRequests2
  Workers <- MCWorkers
  Handles <- MCHandles
  SelfDb = 0
  MaxOpen = 2
SPECIFICATION FairSpec
PROPERTY EvictionSparesBackground
