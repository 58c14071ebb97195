SPECIFICATION Spec
CONSTANTS
  Files <- MCFiles
  MaxStarts = 3
  MaxFaults = 1
  Uploads = {u1, u2}
  FileName <- MCFileName
  Refusable = {}
  Posts = {p1}
  Projects = {"shop"}
  Times <- MCTimes
  Connections = 2
  MaxIncidents = 2
  MaxBegun = 5
SYMMETRY UploadSymmetry
INVARIANTS CleanStartRepairs ShownAsUploaded
CHECK_DEADLOCK FALSE
