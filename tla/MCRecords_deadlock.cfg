SPECIFICATION Spec
CONSTANTS
  Files <- MCNewFile
  MaxStarts = 1
  MaxFaults = 0
  Uploads = {u1}
  FileName <- MCFileName
  Refusable = {}
  Posts = {p1, p2}
  Projects = {"shop"}
  Times <- MCTimes
  Connections = 2
  MaxIncidents = 1
  MaxBegun = 5
PROPERTY CorrelationEnds
CHECK_DEADLOCK FALSE
