CONSTANTS
  a1 = a1
  a2 = a2
  v1 = v1
  Paths <- MCPaths
  Values <- MCValues
  Shipped <- MCShipped
  Admins <- MCAdmins
  Views <- MCViews
  AutoReload = TRUE
  MaxRequests = 3
  MaxFaults = 1
  Alerts <- MCAlerts
  Keys <- MCKeys
  TriggerOn <- MCTriggerOn
  Canvas <- MCCanvas
  Routings <- MCRoutings
SPECIFICATION Spec
\* no property tells the administrators apart
SYMMETRY AdminSymmetry
INVARIANTS  PlanIsRun SentWhereRouted
