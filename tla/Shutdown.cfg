CONSTANTS
  Main = main
  Scheduler = scheduler
  Initial = initialRefresh
  Tools = {tool}
  p1 = p1
  Workers = {scheduler, initialRefresh, tool}
  Clients = {main, scheduler, initialRefresh, tool}
  Projects = {p1}
  MaxSnapshot = 1
  Called <- ThreadCalls
  Refreshes = {"full"}
  GitLabFaults = {"gitlab", "other"}
  StoreFaults = TRUE
SPECIFICATION FairLifecycleSpec
PROPERTIES ShutdownCompletes
