------------------------------ MODULE MCComponents ------------------------------
(* The components that share no state with one another, one of them at a     *)
(* time: a behaviour picks a component, and the others keep one state of     *)
(* their own.                                                                *)
EXTENDS MCReadSurfaces, MCConflictDetector, MCGitLabConnector,
        MCProjectAnalyzer, MCGoTokenizer, MCGoRecognizer, MCTableDetectors,
        MCServiceDetectors, MCStartup

VARIABLE part   \* the component at work

Parts ==
  {"surfaces", "detector", "connector", "analyzer", "tokenizer", "recognizer",
   "tables", "services", "startup"}

Idle(component) ==
  CASE component = "surfaces" ->
         /\ views = << >> /\ current = NoSnapshot
         /\ request = [r \in Requests |->
              [kind |-> "index", project |-> p1, at |-> "answered",
               seen |-> <<FALSE>>, answer |-> "no_snapshot"]]
         /\ uncommitted = FALSE /\ before = NoSnapshot
    [] component = "detector" -> profiles = << >> /\ DetectorInit
    [] component = "connector" ->
         /\ lastId = 0 /\ tree = {} /\ links = FALSE /\ at = "group"
         /\ ConnectorInit
    [] component = "analyzer" ->
         /\ contents = [p \in DOMAIN RepoPaths |-> "absent"]
         /\ description = FALSE /\ AnalyzerInit
    [] component = "tokenizer" -> text = << >> /\ TokenizerInit
    [] component = "recognizer" ->
         /\ lead = << >> /\ code = << >> /\ RecognizerInit
    [] component = "tables" ->
         /\ tableRepo = CHOOSE r \in TableRepositories : r.language = "go"
         /\ TablesInit
    [] component = "services" ->
         /\ serviceRepo = CHOOSE r \in ServiceRepositories : r.language = "go"
         /\ ServicesInit
    [] component = "startup" ->
         /\ environment = [e \in Range(Fields) |-> "valid"]
         /\ StartupInit

Begin(component) ==
  CASE component = "surfaces" -> SurfaceInit
    [] component = "detector" -> DetectorInit
    [] component = "connector" -> ConnectorInit
    [] component = "analyzer" -> AnalyzerInit
    [] component = "tokenizer" -> TokenizerInit
    [] component = "recognizer" -> RecognizerInit
    [] component = "tables" -> TablesInit
    [] component = "services" -> ServicesInit
    [] component = "startup" -> StartupInit

ComponentsInit ==
  \E p \in Parts :
    /\ part = p
    /\ \A other \in Parts \ {p} : Idle(other)
    /\ Begin(p)

ComponentsNext ==
  /\ \/ /\ part = "surfaces" /\ SurfaceNext
        /\ UNCHANGED <<detectorVars, connectorVars, analyzerVars,
             tokenizerVars, recognizerVars, tableVars, serviceVars, startupVars>>
     \/ /\ part = "detector" /\ DetectorNext
        /\ UNCHANGED <<surfaceVars, connectorVars, analyzerVars,
             tokenizerVars, recognizerVars, tableVars, serviceVars, startupVars>>
     \/ /\ part = "connector" /\ ConnectorNext
        /\ UNCHANGED <<surfaceVars, detectorVars, analyzerVars,
             tokenizerVars, recognizerVars, tableVars, serviceVars, startupVars>>
     \/ /\ part = "analyzer" /\ AnalyzerNext
        /\ UNCHANGED <<surfaceVars, detectorVars, connectorVars,
             tokenizerVars, recognizerVars, tableVars, serviceVars, startupVars>>
     \/ /\ part = "tokenizer" /\ TokenizerNext
        /\ UNCHANGED <<surfaceVars, detectorVars, connectorVars, analyzerVars,
             recognizerVars, tableVars, serviceVars, startupVars>>
     \/ /\ part = "recognizer" /\ RecognizerNext
        /\ UNCHANGED <<surfaceVars, detectorVars, connectorVars, analyzerVars,
             tokenizerVars, tableVars, serviceVars, startupVars>>
     \/ /\ part = "tables" /\ TablesNext
        /\ UNCHANGED <<surfaceVars, detectorVars, connectorVars, analyzerVars,
             tokenizerVars, recognizerVars, serviceVars, startupVars>>
     \/ /\ part = "services" /\ ServicesNext
        /\ UNCHANGED <<surfaceVars, detectorVars, connectorVars, analyzerVars,
             tokenizerVars, recognizerVars, tableVars, startupVars>>
     \/ /\ part = "startup" /\ StartupNext
        /\ UNCHANGED <<surfaceVars, detectorVars, connectorVars, analyzerVars,
             tokenizerVars, recognizerVars, tableVars, serviceVars>>
  /\ UNCHANGED part

componentVars ==
  <<part, surfaceVars, detectorVars, connectorVars, analyzerVars,
    tokenizerVars, recognizerVars, tableVars, serviceVars, startupVars>>

ComponentsSpec ==
  ComponentsInit /\ [][ComponentsNext]_componentVars /\ SurfaceFairness
=============================================================================
