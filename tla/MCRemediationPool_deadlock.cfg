CONSTANTS
  c1 = c1
  c2 = c2
  s1 = s1
  s2 = s2
  a1 = a1
  a2 = a2
  a3 = a3
  a4 = a4
  Callers <- MCCallers
  Slots <- MCSlots
  Alerts <- MCAlerts
  Mode <- AllFan
  Matches <- AllFanMatches
  QueueSize = 1
  None = None
SPECIFICATION FairSpec
PROPERTY EveryJobRuns
\* the alerts are finite, so the pool may run out of work
CHECK_DEADLOCK FALSE
