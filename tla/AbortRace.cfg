CONSTANTS
  Main = main
  Scheduler = scheduler
  Initial = initialRefresh
  Tools = {tool}
  p1 = p1
  Workers = {scheduler, initialRefresh, tool}
  Clients = {main, scheduler, initialRefresh, tool}
  Projects = {p1}
  MaxSnapshot = 2
  Called <- ThreadCalls
  Refreshes = {"full"}
  GitLabFaults = {}
  StoreFaults = FALSE
SPECIFICATION LifecycleSpec
INVARIANTS CurrentCompleted
