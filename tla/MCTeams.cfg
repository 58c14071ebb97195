CONSTANTS
  tree1 = tree1
  manager1 = manager1
  manager2 = manager2
  u1 = u1
  Nobody = Nobody
  Users <- MCUsers
  Sessions <- MCSessions
  TreeAdmins <- MCTree
  Movers <- MCManagers
  MemberAdmins <- MCManagers
  MaxTeams = 3
  MaxFaults = 1
  MaxRequests = 4
SYMMETRY Managers
SPECIFICATION Spec
INVARIANTS  OptOutHonoured
PROPERTY DirectKept
CHECK_DEADLOCK FALSE
