CONSTANTS
  worker = worker
  other = other
  Clients = {worker, other}
  p1 = p1
  Projects = {p1}
  MaxSnapshot = 2
  Called <- Roles
  StoreFaults = TRUE
SPECIFICATION Spec
INVARIANTS TypeOK   FreshIdsAreEmpty
PROPERTIES  StatusNeverReverts
