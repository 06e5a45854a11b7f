---------------------------- MODULE ProjectAnalyzer ----------------------------
(***************************************************************************)
(* analyze (project_analyzer/__init__.py): one profile from the contents   *)
(* of one repository.  The Go files are parsed once, then four sections    *)
(* run one after the other, each shielded from the failures of the others. *)
(*                                                                         *)
(* A file is known by its kind, and by its body: whether the detectors     *)
(* that read it find something there, and whether it can be parsed.        *)
(***************************************************************************)
EXTENDS Ordering, SequencesExt

CONSTANTS
  RepoPaths,    \* the paths of a repository in sort order, each by its kind
  MayRaise      \* what may raise: sections, and "assembly"

SectionNames ==
  <<"purpose", "abstract_io", "external_services", "database_tables">>

(* "gomod" is the go.mod of the root, "main" a main package's file at the    *)
(* root or in cmd/, "adapter" internal/adapter/x_adapter.go, "repository"    *)
(* internal/repository/x_repo.go, "vendored" a .go file under vendor/.       *)
FileKinds == {"readme", "manifest", "script", "gomod", "main", "adapter",
              "repository", "vendored"}

(* "unparsable": a build constraint, import "C", or a tokenization error;    *)
(* "deep": the recognizer exceeds the recursion limit of the interpreter.    *)
Bodies == {"absent", "plain", "rich", "unparsable", "deep"}

ASSUME RepoAssumption ==
  /\ RepoPaths \in Seq(FileKinds)
  /\ MayRaise \subseteq Range(SectionNames) \cup {"assembly"}

VARIABLES
  contents,     \* the body of each path
  description,  \* whether GitLab has a description of the project
  doing,        \* where analyze is
  unparsed,     \* the paths with a SkipFileEvent
  recognized,   \* the paths with other events
  purpose,      \* where the summary is from
  results,      \* of the other sections: what was found, where and by whom
  degraded,     \* the entries: a section, and the path skipped or 0
  broken        \* ghost: the sections that raised

analyzerVars == <<contents, description, doing, unparsed, recognized, purpose,
                  results, degraded, broken>>

RepoFiles == {p \in DOMAIN RepoPaths : contents[p] # "absent"}

IsKind(p, kinds) == p \in RepoFiles /\ RepoPaths[p] \in kinds

GoKinds == {"main", "adapter", "repository"}

(* has_go_artefacts.                                                         *)
GoRepository == \E p \in RepoFiles : IsKind(p, GoKinds \cup {"gomod"})

(* Mutant of View: the detectors see the vendored files.                     *)
ViewUnfiltered == RepoFiles

(* _view_without_vendored_go_files.                                          *)
View == {p \in RepoFiles : ~IsKind(p, {"vendored"})}

FindsIn(p) == contents[p] \in {"rich", "unparsable"}

NoResults == [s \in Range(SectionNames) \ {"purpose"} |-> {}]

AnalyzerInit ==
  /\ contents \in {c \in [DOMAIN RepoPaths -> Bodies] :
       \A p \in DOMAIN RepoPaths :
         /\ c[p] = "unparsable" => RepoPaths[p] \in GoKinds
         /\ c[p] = "deep" => RepoPaths[p] = "main"
         /\ c[p] = "plain" => RepoPaths[p] \in {"readme", "gomod"} }
  /\ description \in BOOLEAN
  /\ doing = "parse"
  /\ unparsed = {} /\ recognized = {}
  /\ purpose = "none" /\ results = NoResults
  /\ degraded = << >> /\ broken = {}

-----------------------------------------------------------------------------
(* parse_repo, outside of any try block.                                    *)
ParseRepo ==
  /\ doing = "parse"
  /\ \A p \in RepoFiles : contents[p] # "deep"
  /\ unparsed' = {p \in RepoFiles : contents[p] = "unparsable"}
  /\ recognized' = {p \in RepoFiles : IsKind(p, GoKinds \cup {"gomod"})
                                        /\ contents[p] = "rich"}
  /\ doing' = "purpose"
  /\ UNCHANGED <<contents, description, purpose, results, degraded, broken>>

ParseRaises ==
  /\ doing = "parse"
  /\ \E p \in RepoFiles : contents[p] = "deep"
  /\ doing' = "raised"
  /\ UNCHANGED <<contents, description, unparsed, recognized, purpose,
                 results, degraded, broken>>

(* _file_level_skip_entries, in path order.                                  *)
SkipEntries(section, paths) ==
  LET skipped == paths \cap unparsed
  IN [i \in 1..Cardinality(skipped) |->
        [section |-> section, path |-> Nth(skipped, i)]]

Failed(section) == [section |-> section, path |-> 0]

NextSection(section) ==
  CASE section = "purpose" -> "abstract_io"
    [] section = "abstract_io" -> "external_services"
    [] section = "external_services" -> "database_tables"
    [] section = "database_tables" -> "assembly"

(* The sources of a summary, in the order of their priorities.               *)
SummarySources ==
  <<"readme", "gitlab_description", "gomod", "manifest", "docstring",
    "package_doc">>

Candidate(kind) == \E p \in View : IsKind(p, {kind}) /\ contents[p] = "rich"

Parsed(kind) == \E p \in recognized : IsKind(p, {kind})

Offers(source) ==
  \/ source = "readme" /\ Candidate("readme")
  \/ source = "gitlab_description" /\ description
  \/ source = "gomod" /\ Parsed("gomod")
  \/ source = "manifest" /\ Candidate("manifest")
  \/ source = "docstring" /\ Candidate("script")
  \/ source = "package_doc" /\ Parsed("main")

SummarySource ==
  LET offered == {n \in DOMAIN SummarySources : Offers(SummarySources[n])}
  IN IF offered = {} THEN "unknown" ELSE SummarySources[Nth(offered, 1)]

(* _safe_purpose: skipped files are reported if it would have read them.     *)
SummarizePurpose ==
  /\ doing = "purpose"
  /\ purpose' = SummarySource
  /\ degraded' = degraded \o
       SkipEntries("purpose", {p \in unparsed : IsKind(p, {"main"})})
  /\ doing' = NextSection(doing)
  /\ UNCHANGED <<contents, description, unparsed, recognized, results, broken>>

FoundBy(detector, paths) == {[by |-> detector, path |-> p] : p \in paths}

(* The generic extractors over the view; what Go detectors find by events,   *)
(* or by the text of files of certain names.                                 *)
GenericPaths(section) ==
  {p \in View : FindsIn(p) /\
     RepoPaths[p] \in
       CASE section = "abstract_io" -> {"manifest", "script"}
         [] section = "external_services" -> FileKinds \ {"readme"}
         [] section = "database_tables" -> FileKinds \ {"readme"}}

GoPaths(section) ==
  CASE section = "abstract_io" -> {p \in recognized : IsKind(p, GoKinds)}
    [] section = "external_services" ->
         {p \in RepoFiles : IsKind(p, {"adapter"}) /\ FindsIn(p)}
    [] section = "database_tables" ->
         {p \in RepoFiles : IsKind(p, {"repository"}) /\ FindsIn(p)}

(* _safe_io merges both; the two dependency sections use one detector.       *)
SectionFinds(section) ==
  CASE section = "abstract_io" ->
         FoundBy("generic", GenericPaths(section))
           \cup (IF GoRepository THEN FoundBy("go", GoPaths(section)) ELSE {})
    [] section # "abstract_io" ->
         IF GoRepository THEN FoundBy("go", GoPaths(section))
         ELSE FoundBy("generic", GenericPaths(section))

(* _safe_io, _safe_external_services, _safe_database_tables.                 *)
RunSection ==
  /\ doing \in DOMAIN NoResults
  /\ results' = [results EXCEPT ![doing] = SectionFinds(doing)]
  /\ degraded' = degraded \o
       (IF GoRepository THEN SkipEntries(doing, RepoFiles) ELSE << >>)
  /\ doing' = NextSection(doing)
  /\ UNCHANGED <<contents, description, unparsed, recognized, purpose, broken>>

(* except Exception of the four: before anything is recorded.                *)
SectionRaises ==
  /\ doing \in MayRaise \cap Range(SectionNames)
  /\ degraded' = Append(degraded, Failed(doing))
  /\ broken' = broken \cup {doing}
  /\ purpose' = IF doing = "purpose" THEN "unknown" ELSE purpose
  /\ doing' = NextSection(doing)
  /\ UNCHANGED <<contents, description, unparsed, recognized, results>>

(* _build_profile.                                                           *)
BuildProfile ==
  /\ doing = "assembly"
  /\ doing' = "done"
  /\ UNCHANGED <<contents, description, unparsed, recognized, purpose,
                 results, degraded, broken>>

Reported(section) == \E i \in DOMAIN degraded : degraded[i] = Failed(section)

(* Mutant of AllSections: sections that have failed are named again.         *)
AllSectionsAgain == [i \in DOMAIN SectionNames |-> Failed(SectionNames[i])]

AllSections ==
  LET new == {n \in DOMAIN SectionNames : ~Reported(SectionNames[n])}
  IN [i \in 1..Cardinality(new) |-> Failed(SectionNames[Nth(new, i)])]

(* The model rejects the profile: everything degrades.                       *)
AssemblyFails ==
  /\ doing = "assembly" /\ "assembly" \in MayRaise
  /\ degraded' = degraded \o AllSections
  /\ broken' = broken \cup Range(SectionNames)
  /\ purpose' = "unknown" /\ results' = NoResults
  /\ doing' = "done"
  /\ UNCHANGED <<contents, description, unparsed, recognized>>

AnalyzerNext ==
  \/ ParseRepo
  \/ ParseRaises
  \/ SummarizePurpose
  \/ RunSection
  \/ SectionRaises
  \/ BuildProfile
  \/ AssemblyFails

AnalyzerSpec == AnalyzerInit /\ [][AnalyzerNext]_analyzerVars

-----------------------------------------------------------------------------
(* What analyze promises.                                                   *)

(* A section's failure costs that section only: whatever else raised, a     *)
(* section that did not raise has found what its own detectors find in the  *)
(* files that are no vendored Go code, and the summary is from the first    *)
(* source that offers one (_safe_purpose ... _safe_database_tables).        *)
SectionsAreIsolated ==
  LET Rich(kinds) == {p \in RepoFiles : IsKind(p, kinds) /\ contents[p] = "rich"}
      Text(kinds) == {p \in RepoFiles : IsKind(p, kinds) /\ FindsIn(p)}
      go == GoRepository
  IN doing = "done" =>
     /\ "abstract_io" \notin broken => results["abstract_io"] =
          FoundBy("generic", Rich({"manifest", "script"}))
            \cup FoundBy("go", Rich(GoKinds))
     /\ "external_services" \notin broken => results["external_services"] =
          IF go THEN FoundBy("go", Text({"adapter"}))
          ELSE FoundBy("generic", Rich({"manifest", "script"}))
     /\ "database_tables" \notin broken => results["database_tables"] =
          IF go THEN FoundBy("go", Text({"repository"}))
          ELSE FoundBy("generic", Rich({"manifest", "script"}))
     /\ purpose = "manifest" => Rich({"readme", "gomod"}) = {} /\ ~description
     /\ "purpose" \notin broken =>
          (purpose = "unknown" <=>
             Rich({"readme", "gomod", "manifest", "script", "main"}) = {}
               /\ ~description)

(* The profile says what is missing from it: a section that raised, or that *)
(* an unbuildable profile took with it, is named once and is empty; one     *)
(* that ran reports each file the parser skipped once, in path order, and   *)
(* the purpose those it would have read.                                    *)
DegradationIsReported == doing = "done" =>
  LET skips(s) == {i \in DOMAIN degraded :
                     degraded[i].section = s /\ degraded[i].path # 0}
      read(s) == {p \in RepoFiles : contents[p] = "unparsable"
                    /\ (s = "purpose" => IsKind(p, {"main"}))}
      named(s) == \E i \in DOMAIN degraded :
                    degraded[i] = [section |-> s, path |-> 0]
  IN /\ \A i, j \in DOMAIN degraded : i < j => degraded[i] # degraded[j]
     /\ \A s \in Range(SectionNames) :
          /\ s \in broken <=> named(s)
          /\ \A i, j \in skips(s) : i < j => degraded[i].path < degraded[j].path
          /\ s \notin broken => {degraded[i].path : i \in skips(s)} = read(s)
          /\ s \in broken =>
               IF s = "purpose" THEN purpose = "unknown" ELSE results[s] = {}
=============================================================================
