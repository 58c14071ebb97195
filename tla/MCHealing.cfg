CONSTANTS
  c1 = c1
  c2 = c2
  i1 = i1
  f1 = f1
  x1 = x1
  x2 = x2
  Clients <- MCClients
  Incidents <- MCIncidents
  Files <- MCFiles
  Contents <- MCContents
  None = None
  MaxNow = 1
  MaxPatches = 2
  MaxPushes = 1
  MaxFaults = 1
  MaxDeletions = 1
SPECIFICATION Spec
INVARIANTS TypeOK LinkedPatchIsProposed HealedHasRecord
PROPERTY PublishedAtomically
CHECK_DEADLOCK FALSE
