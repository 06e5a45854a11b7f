CONSTANTS
  p1 = p1
  p2 = p2
  Projects = {p1, p2}
  MaxSnapshot = 2
  Requests = {r1}
  TablesOf <- SomeTables
  CommitFaults = TRUE
  Words <- Vocabulary
  Singular <- SingularOf
  Stopwords = {"the"}
  Phrases = {"is responsible for"}
  Positive = {"owns", "is responsible for"}
  Negative = {"delegates"}
  MarkerTokens = {"owns", "delegates", "responsible"}
  Unknown = unknown
  ProfileIds = {1, 2, 3}
  Summaries <- SomeSummaries
  MaxProfiles = 3
  MaxProject = 4
  PerPage = 2
  SortedPaths <- TreePaths
  MaxFiles = 3
  PoolSize = 2
  GroupChanges = {"created", "deleted"}
  Failures = {"unauthorized", "server_error", "not_found"}
  RepoPaths <- SomeRepoPaths
  MayRaise = {"purpose", "abstract_io", "external_services", "database_tables", "assembly"}
  Alphabet <- Characters
  Letters = {"struct", "x"}
  Digits = {"0"}
  Keywords = {"struct"}
  Operators <- OperatorAtoms
  Texts <- SomeTexts
  Leads <- SomeLeads
  Codes <- SomeCodes
  TableRepositories <- SomeTableRepositories
  Unqualified <- Bare
  WithoutPlaceholder <- Plain
  Acceptable = {"USERS", "s.USERS", "ORDERS"}
  AcceptableProcedures = {"USERS", "s.USERS", "ORDERS", "app"}
  ServiceRepositories <- SomeServiceRepositories
  LocalHosts = {"localhost"}
  HostKind <- Hosts
  GoService <- ServicePaths
  Environments <- SomeEnvironments
SPECIFICATION ComponentsSpec
CHECK_DEADLOCK FALSE
INVARIANTS  FetchIsSequential  ConflictsAreExact TextIsConsumed TokensAreExact PageDrawsItsCatalog SectionsAreIsolated DegradationIsReported  TablesAreExact ServicesAreExact FailedStartIsClean
PROPERTIES  WalkGetsOn RequestsAreAnswered
