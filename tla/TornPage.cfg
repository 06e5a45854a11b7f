CONSTANTS
  p1 = p1
  p2 = p2
  Projects = {p1, p2}
  MaxSnapshot = 2
  Requests = {r1}
  TablesOf <- SomeTables
  CommitFaults = FALSE
SPECIFICATION SurfaceSpec
CHECK_DEADLOCK FALSE
PROPERTIES PageIsOneSnapshot
