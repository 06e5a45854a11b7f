----------------------------- MODULE ReadSurfaces -----------------------------
(***************************************************************************)
(* The two read surfaces over the store: the pages of the                  *)
(* Visualization_Server and the query tools of the MCP_Server.  Handlers   *)
(* run on one event loop and do not yield between their reads, but every   *)
(* read asks the store for the pointer anew, and refreshing threads        *)
(* publish in between.  All threads share one connection: a reader sees    *)
(* the pointer of a commit_snapshot whose COMMIT has yet to succeed.       *)
(***************************************************************************)
EXTENDS ShownView, DependencyGraph, Sequences

CONSTANTS
  Requests,    \* requests, each served once
  TablesOf     \* [Projects -> [Ids -> what that version's profile uses]]

(* A store holds finitely much.                                              *)
ASSUME FiniteAssumption ==
  /\ MaxSnapshot \in Nat
  /\ IsFiniteSet(Projects)
  /\ IsFiniteSet(UNION {DOMAIN TablesOf[p][n] : p \in Projects, n \in Ids})

VARIABLE request  \* what each request is and how far it has come

surfaceVars == <<shownVars, request>>

Pages == {"index", "project_page", "dependencies"}
QueryTools == {"list_projects", "get_project", "list_purpose_conflicts"}
Misdirected == {"other_path", "other_method", "unknown_tool", "bad_arguments"}
Kinds == Pages \cup QueryTools \cup Misdirected
Http == Pages \cup {"other_path", "other_method"}

(* The reads of each handler, in order.                                      *)
IndexReads == <<"pointer", "catalog">>
ProjectReads == <<"scope", "profile">>
DependenciesReads == <<"pointer", "catalog", "profiles">>

(* get_project stands for the four tools of one project.                     *)
ToolReads(tool) ==
  CASE tool = "list_projects" -> <<"catalog">>
    [] tool = "get_project" -> <<"scope", "profile">>
    [] tool = "list_purpose_conflicts" -> <<"profiles">>

ReadsOf(kind) ==
  CASE kind = "index" -> IndexReads
    [] kind = "project_page" -> ProjectReads
    [] kind = "dependencies" -> DependenciesReads
    [] kind \in QueryTools -> ToolReads(kind)

(* Snapshot n as the connection shows it: the empty view if there is none.   *)
ViewOf(n) ==
  IF n = NoSnapshot
    THEN [catalog |-> {}, profile |-> [p \in Projects |-> NoSnapshot]]
    ELSE views[n]

(* What a read about project p finds in snapshot n.                          *)
Found(read, p, n) ==
  CASE read = "pointer" -> n # NoSnapshot
    [] read = "catalog" -> ViewOf(n).catalog
    [] read = "scope" -> p \in ViewOf(n).catalog
    [] read = "profile" -> ViewOf(n).profile[p]
    [] read = "profiles" -> ViewOf(n).profile

Queued(kind, p) ==
  [kind |-> kind, project |-> p, at |-> "queued", seen |-> << >>,
   answer |-> "none"]

SurfaceInit ==
  /\ ShownInit
  /\ request \in [Requests -> {Queued(k, p) : k \in Kinds, p \in Projects}]

-----------------------------------------------------------------------------
(* The handlers.                                                            *)

(* One handler has the event loop until it answers.                          *)
LoopIsFree == \A r \in Requests : request[r].at # "handling"

Answered(r, answer) ==
  request' = [request EXCEPT ![r].at = "answered", ![r].answer = answer]

(* Routing, and the checks of _dispatch_tool_call.                           *)
PageRefusal(kind) ==
  IF kind = "other_path" THEN "not_found" ELSE "method_not_allowed"

ToolRefusal(kind) ==
  IF kind = "unknown_tool" THEN "MethodNotFound" ELSE "InvalidParams"

Refuse(r) ==
  /\ LoopIsFree
  /\ request[r].at = "queued"
  /\ request[r].kind \in Misdirected
  /\ Answered(r, IF request[r].kind \in Http THEN PageRefusal(request[r].kind)
                 ELSE ToolRefusal(request[r].kind))
  /\ UNCHANGED shownVars

Handle(r) ==
  /\ LoopIsFree
  /\ request[r].at = "queued"
  /\ request[r].kind \notin Misdirected
  /\ request' = [request EXCEPT ![r].at = "handling"]
  /\ UNCHANGED shownVars

(* The middleware's deadline passes where the request awaits: before its     *)
(* handler has run.                                                          *)
DeadlinePasses(r) ==
  /\ request[r].at = "queued"
  /\ request[r].kind \in Http
  /\ Answered(r, "deadline_exceeded")
  /\ UNCHANGED shownVars

(* An early return of the handler after a read, or "none".                   *)
EarlyAnswer(read, found) ==
  CASE read = "pointer" /\ ~found -> "no_snapshot"
    [] read = "scope" /\ ~found -> "not_in_scope"
    [] read = "profile" /\ found = NoSnapshot -> "not_yet_analyzed"
    [] OTHER -> "none"

Read(r) ==
  LET q == request[r]
      read == ReadsOf(q.kind)[Len(q.seen) + 1]
      found == Found(read, q.project, current)
      seen == Append(q.seen, found)
      early == EarlyAnswer(read, found)
      answer == IF early # "none" THEN early
                ELSE IF Len(seen) = Len(ReadsOf(q.kind)) THEN "content"
                ELSE "none"
  IN /\ q.at = "handling"
     /\ request' = [request EXCEPT
          ![r] = [q EXCEPT !.seen = seen, !.answer = answer,
                           !.at = IF answer = "none" THEN "handling"
                                  ELSE "answered"]]
     /\ UNCHANGED shownVars

(* The exception handlers of the application, and the catch-all of the       *)
(* dispatcher.                                                               *)
PageFailure(unavailable) ==
  IF unavailable THEN "store_unavailable" ELSE "internal_error"

ToolFailure == "tool_error"

FailureAnswer(kind, unavailable) ==
  IF kind \in Http THEN PageFailure(unavailable) ELSE ToolFailure

(* Mutant of ReadFails: a failing store reads as an empty one.               *)
ReadFailsAsEmpty(r) ==
  /\ request[r].at = "handling"
  /\ Answered(r, "no_snapshot")
  /\ UNCHANGED shownVars

(* Mutant of ReadFails: only the store's own exception is caught.            *)
ReadFailsUncaught(r) ==
  \E unavailable \in BOOLEAN :
    /\ request[r].at = "handling"
    /\ IF unavailable THEN Answered(r, FailureAnswer(request[r].kind, TRUE))
       ELSE request' = [request EXCEPT ![r].at = "dropped"]
    /\ UNCHANGED shownVars

(* SQLite raises in a read (_ReadGuard makes it "unavailable"), or something *)
(* else does: a closed store, an id wider than 64 bits.                      *)
ReadFails(r) ==
  \E unavailable \in BOOLEAN :
    /\ request[r].at = "handling"
    /\ Answered(r, FailureAnswer(request[r].kind, unavailable))
    /\ UNCHANGED shownVars

HandlerStep(r) == Refuse(r) \/ Handle(r) \/ Read(r) \/ ReadFails(r)

SurfaceNext ==
  \/ ShownNext /\ UNCHANGED request
  \/ \E r \in Requests : HandlerStep(r) \/ DeadlinePasses(r)

(* The event loop runs its handlers.  Nothing obliges the writers.           *)
SurfaceFairness == WF_surfaceVars(\E r \in Requests : HandlerStep(r))

SurfaceSpec == SurfaceInit /\ [][SurfaceNext]_surfaceVars /\ SurfaceFairness

-----------------------------------------------------------------------------
(* What the surfaces promise.                                               *)

Tables(profile) ==
  [p \in {q \in Projects : profile[q] # NoSnapshot} |->
     TablesOf[p][profile[p]]]

UsesTable(p, profile, t) ==
  profile[p] # NoSnapshot /\ t \in DOMAIN TablesOf[p][profile[p]]

TableNames == UNION {DOMAIN TablesOf[p][n] : p \in Projects, n \in Ids}

Served(kind) ==
  {q \in {request[r] : r \in Requests} : q.kind = kind /\ q.answer = "content"}

(* The dependency page draws its catalog and nothing else, although its     *)
(* profiles may be another snapshot's: an edge is drawn exactly between two *)
(* projects of the catalog whose profiles use the same table, a node        *)
(* exactly where an edge ends, the two forms of the graph agree, and "no    *)
(* shared dependencies" stands where no edge does                           *)
(* (_build_dependencies_route, render_dependency_graph).                    *)
PageDrawsItsCatalog ==
  \A q \in Served("dependencies") :
    LET catalog == q.seen[2]
        profile == q.seen[3]
        page == DependencyPage(catalog, Tables(profile))
    IN /\ page.data.nodes = page.source.nodes
       /\ page.data.edges = page.source.edges
       /\ page.data.nodes = UNION {e.ends : e \in page.data.edges}
       /\ page.data.edges = {} <=> "no shared dependencies" \in page.messages
       /\ \A a, b \in Projects, t \in TableNames :
            (\E e \in page.data.edges : e.ends = {a, b} /\ e.table = t)
              <=> /\ a # b /\ {a, b} \subseteq catalog
                  /\ UsesTable(a, profile, t) /\ UsesTable(b, profile, t)
       /\ \A e \in page.data.edges :
            e.unknown <=> \E p \in e.ends :
                            TablesOf[p][profile[p]][e.table] = "unknown"

(* Emptiness is never a failure in disguise, nor a memory: a surface says   *)
(* that there is no snapshot, no such project or no profile only when that  *)
(* is so of the snapshot that is current as it says it; no reader caches,   *)
(* and a read that raises becomes an error (the early returns of the        *)
(* handlers, _ReadGuard).                                                   *)
EmptinessIsTrue ==
  [][\A r \in Requests :
       LET q == request'[r]
           p == q.project
       IN q # request[r] =>
            /\ q.answer = "no_snapshot" => current = NoSnapshot
            /\ q.answer = "not_in_scope" => p \notin ViewOf(current).catalog
            /\ q.answer = "not_yet_analyzed" =>
                 ViewOf(current).profile[p] = NoSnapshot]_surfaceVars

(* Every request is answered, whatever is published, undone or raised while *)
(* it is handled: with content, an empty state or an error.                 *)
RequestsAreAnswered ==
  \A r \in Requests : <>(request[r].at = "answered")

(* The catalog and the profiles of the dependency page are one snapshot's:  *)
(* _build_dependencies_route documents that "the catalog and profile reads  *)
(* observe a single consistent snapshot even though they are issued         *)
(* sequentially".                                                           *)
PageIsOneSnapshot ==
  [][\A r \in Requests :
       LET q == request'[r]
       IN q.kind = "dependencies" /\ q.answer = "content" /\ q # request[r] =>
            \E n \in DOMAIN views :
              q.seen[2] = views[n].catalog /\ q.seen[3] = views[n].profile]_surfaceVars
=============================================================================
