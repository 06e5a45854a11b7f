------------------------ MODULE IngestionCoordinator ------------------------
(***************************************************************************)
(* The Ingestion_Coordinator (ingestion_coordinator.py): the single-flight *)
(* slot, start_full_refresh and start_single_project_refresh, run by the   *)
(* threads that call them (the scheduler, the initial refresh, the workers *)
(* of the two refresh tools), over the statements of KnowledgeStore.tla.   *)
(*                                                                         *)
(* A store call of a worker is its record in `call'; a worker's next       *)
(* action waits for that call to return or raise.  GitLab is the           *)
(* environment: each enumeration finds any set of projects, any of them    *)
(* without the analysis branch, and any request may fail.                  *)
(***************************************************************************)
EXTENDS KnowledgeStore, FiniteSets

CONSTANTS
  Workers,      \* the clients that run refreshes
  Refreshes,    \* the kinds of refresh they are asked for
  GitLabFaults  \* failures of a GitLab request or of the analyzer

ASSUME WorkersAssumption == Workers \subseteq Clients

(* The methods of the store that refreshes call.                             *)
ASSUME CalledAssumption == \A w \in Workers :
  {"begin_snapshot", "write_profile", "record_skip", "abort_snapshot",
   "commit_snapshot", "populate_in_scope", "get_current_snapshot_id",
   "is_in_scope"} \subseteq Called[w]

VARIABLES
  running,  \* snapshot_id of the JobHandle that holds the slot, or none
  job       \* what each worker's refresh call has reached

coordinatorVars == <<running, job>>
vars == <<storeVars, coordinatorVars>>

Triggers == {"full", "single_project"}

(* "gitlab": GitLabAuthError or GitLabGroupNotFoundError, the two exceptions *)
(* the jobs catch.  "other": anything else (an HTTP 5xx, a timeout, a bug in *)
(* an analyzer).                                                             *)
FaultKinds == {"gitlab", "other"}

(* From try_start's success to _release.                                     *)
BodySteps == {"enumerating", "populating", "analyzing", "writing",
              "committing", "aborting"}
JobSteps == {"idle", "reading_current", "checking_scope", "opening",
             "rejecting"} \cup BodySteps

(* What the refresh call reported: a return, or the exception it raised.     *)
Results == {"none", "ok", "in_progress", "not_in_scope", "gitlab_error",
            "error"}

(* target: {p} of a single-project refresh.  todo: enumerated projects not   *)
(* analyzed yet, missing: those of them without the analysis branch.         *)
Jobs == [at : JobSteps, trigger : Triggers, target : SUBSET Projects,
         parent : OptIds, snap : OptIds, todo : SUBSET Projects,
         missing : SUBSET Projects, result : Results]

NoJob == [at |-> "idle", trigger |-> "full", target |-> {},
          parent |-> NoSnapshot, snap |-> NoSnapshot, todo |-> {},
          missing |-> {}, result |-> "none"]

CoordinatorTypeOK ==
  /\ TypeOK
  /\ running \in OptIds
  /\ job \in [Workers -> Jobs]

CoordinatorInit ==
  /\ Init
  /\ running = NoSnapshot
  /\ job = [w \in Workers |-> NoJob]

-----------------------------------------------------------------------------
Returned(w) == call[w].at = "returned"
Raised(w) == call[w].at = "raised"

(* Worker w moves to step s of its job and calls the store.                  *)
CallFrom(w, s, k) ==
  /\ job' = [job EXCEPT ![w].at = s]
  /\ call' = [call EXCEPT ![w] = k]

(* The refresh call of worker w ends with a result for its caller.           *)
End(w, result) ==
  /\ job' = [job EXCEPT ![w] = [NoJob EXCEPT !.snap = job[w].snap,
                                             !.result = result]]
  /\ call' = [call EXCEPT ![w] = NoCall]

(* JobHandle.complete / abort: _release clears the slot only if this handle  *)
(* still holds it.                                                           *)
Release(w) ==
  running' = IF running = job[w].snap THEN NoSnapshot ELSE running

(* Mutants of WriterCall: another row's id; an id that was never set.        *)
WriterCallNextRow(op, s) == NewCall(op, s + 1, NoSnapshot, {})
WriterCallUnset(op, s) ==
  NewCall(op, IF s \in Ids THEN NoSnapshot ELSE s, NoSnapshot, {})

WriterCall(op, s) == NewCall(op, s, NoSnapshot, {})

-----------------------------------------------------------------------------
(* Starting a refresh.                                                       *)

(* Bound: no refresh starts that could need an id above MaxSnapshot.         *)
RoomForSnapshot ==
  Cardinality({s \in Ids : db.status[s] # "absent"})
    + Cardinality({w \in Workers : job[w].at \in {"reading_current",
                                           "checking_scope", "opening"}})
      < MaxSnapshot

(* start_full_refresh opens its snapshot before it asks for the slot.        *)
StartFullRefresh(w) ==
  /\ job[w].at = "idle"
  /\ "full" \in Refreshes
  /\ RoomForSnapshot
  /\ job' = [job EXCEPT ![w] = [NoJob EXCEPT !.at = "opening"]]
  /\ call' = [call EXCEPT
                ![w] = NewCall("begin_snapshot", NoSnapshot, NoSnapshot, {})]
  /\ NoStatement
  /\ UNCHANGED running

(* start_single_project_refresh first reads the pointer: its parent.         *)
StartSingleProjectRefresh(w, p) ==
  /\ job[w].at = "idle"
  /\ "single_project" \in Refreshes
  /\ RoomForSnapshot
  /\ job' = [job EXCEPT ![w] = [NoJob EXCEPT !.at = "reading_current",
                                             !.trigger = "single_project",
                                             !.target = {p}]]
  /\ call' = [call EXCEPT ![w] = NewCall("get_current_snapshot_id",
                                         NoSnapshot, NoSnapshot, {})]
  /\ NoStatement
  /\ UNCHANGED running

(* The parent is this pointer; is_in_scope reads the pointer again.          *)
CheckScope(w) ==
  /\ job[w].at = "reading_current"
  /\ Returned(w)
  /\ IF call[w].snap = NoSnapshot
       THEN End(w, "not_in_scope")
       ELSE /\ job' = [job EXCEPT ![w].at = "checking_scope",
                                  ![w].parent = call[w].snap]
            /\ call' = [call EXCEPT ![w] = NewCall("is_in_scope",
                          NoSnapshot, NoSnapshot, job[w].target)]
  /\ NoStatement
  /\ UNCHANGED running

OpenSingleSnapshot(w) ==
  /\ job[w].at = "checking_scope"
  /\ Returned(w)
  /\ IF call[w].projs = {}
       THEN End(w, "not_in_scope")
       ELSE CallFrom(w, "opening", NewCall("begin_snapshot", NoSnapshot,
                                           job[w].parent, {}))
  /\ NoStatement
  /\ UNCHANGED running

(* Mutants of TryStart: no compare before the set; a rejected start aborts   *)
(* the snapshot that holds the slot; a start waits until the slot is free.   *)
TryStartUnchecked(w) ==
  /\ job[w].at = "opening"
  /\ Returned(w)
  /\ running' = call[w].snap
  /\ job' = [job EXCEPT ![w].at = "enumerating", ![w].snap = call[w].snap]
  /\ call' = [call EXCEPT ![w] = NoCall]
  /\ NoStatement

TryStartAbortsRunning(w) ==
  /\ job[w].at = "opening"
  /\ Returned(w)
  /\ IF running = NoSnapshot
       THEN /\ running' = call[w].snap
            /\ job' = [job EXCEPT ![w].at = "enumerating",
                                  ![w].snap = call[w].snap]
            /\ call' = [call EXCEPT ![w] = NoCall]
       ELSE /\ job' = [job EXCEPT ![w].at = "rejecting",
                                  ![w].snap = call[w].snap]
            /\ call' = [call EXCEPT
                          ![w] = WriterCall("abort_snapshot", running)]
            /\ UNCHANGED running
  /\ NoStatement

TryStartWaits(w) == running = NoSnapshot /\ TryStartUnchecked(w)

(* try_start: compare-and-set under the coordinator's lock.  A rejected      *)
(* start aborts the snapshot it has just opened.                             *)
TryStart(w) ==
  /\ job[w].at = "opening"
  /\ Returned(w)
  /\ IF running = NoSnapshot
       THEN /\ running' = call[w].snap
            /\ job' = [job EXCEPT ![w].at = "enumerating",
                                  ![w].snap = call[w].snap]
            /\ call' = [call EXCEPT ![w] = NoCall]
       ELSE /\ job' = [job EXCEPT ![w].at = "rejecting",
                                  ![w].snap = call[w].snap]
            /\ call' = [call EXCEPT
                          ![w] = WriterCall("abort_snapshot", call[w].snap)]
            /\ UNCHANGED running
  /\ NoStatement

RejectStart(w) ==
  /\ job[w].at = "rejecting"
  /\ Returned(w)
  /\ End(w, "in_progress")
  /\ NoStatement
  /\ UNCHANGED running

(* A store call before try_start, or the abort of a rejected start, raised.  *)
StartRaises(w) ==
  /\ job[w].at \in {"reading_current", "checking_scope", "opening",
                    "rejecting"}
  /\ Raised(w)
  /\ End(w, "error")
  /\ NoStatement
  /\ UNCHANGED running

-----------------------------------------------------------------------------
(* The body of a job.                                                        *)

(* Mutant of AbortJob: the slot is released, the snapshot not aborted.       *)
AbortJobOnlyReleases(w, result) ==
  /\ job' = [job EXCEPT ![w].at = "aborting", ![w].result = result]
  /\ call' = [call EXCEPT ![w] = [NoCall EXCEPT !.at = "returned"]]

(* abort_snapshot, then handle.abort() in the finally arm.                   *)
AbortJob(w, result) ==
  /\ job' = [job EXCEPT ![w].at = "aborting", ![w].result = result]
  /\ call' = [call EXCEPT ![w] = WriterCall("abort_snapshot", job[w].snap)]

(* An exception the job does not catch: the slot stays taken, the snapshot   *)
(* stays in progress.                                                        *)
Uncaught(w) == End(w, "error")

EnumerateForFull(w, found, missing) ==
  /\ job[w].trigger = "full"
  /\ job' = [job EXCEPT ![w].at = "populating", ![w].todo = found,
                        ![w].missing = missing]
  /\ call' = [call EXCEPT ![w] = NewCall("populate_in_scope", job[w].snap,
                                         NoSnapshot, found)]

EnumerateForSingle(w, found, missing) ==
  /\ job[w].trigger = "single_project"
  /\ job[w].target \subseteq found
  /\ job' = [job EXCEPT ![w].at = "analyzing", ![w].todo = job[w].target,
                        ![w].missing = missing \cap job[w].target]
  /\ UNCHANGED call

(* The project has left the group since the scope check.                     *)
TargetDisappeared(w, found) ==
  /\ job[w].trigger = "single_project"
  /\ ~ job[w].target \subseteq found
  /\ AbortJob(w, "not_in_scope")

EnumerateProjects(w) ==
  /\ job[w].at = "enumerating"
  /\ \E found \in SUBSET Projects :
       \/ \E missing \in SUBSET found :
            EnumerateForFull(w, found, missing)
              \/ EnumerateForSingle(w, found, missing)
       \/ TargetDisappeared(w, found)
  /\ NoStatement
  /\ UNCHANGED running

CatalogPopulated(w) ==
  /\ job[w].at = "populating"
  /\ Returned(w)
  /\ job' = [job EXCEPT ![w].at = "analyzing"]
  /\ call' = [call EXCEPT ![w] = NoCall]
  /\ NoStatement
  /\ UNCHANGED running

(* Mutant of WriteProject: a missing branch is passed over in silence.       *)
WriteProjectUnlessMissing(w, p) ==
  /\ job[w].at = "analyzing"
  /\ p \in job[w].todo
  /\ IF p \in job[w].missing
       THEN job' = [job EXCEPT ![w].todo = @ \ {p}] /\ UNCHANGED call
       ELSE /\ job' = [job EXCEPT ![w].at = "writing", ![w].todo = @ \ {p}]
            /\ call' = [call EXCEPT ![w] = NewCall("write_profile",
                                         job[w].snap, NoSnapshot, {p})]
  /\ NoStatement
  /\ UNCHANGED running

(* A project without the analysis branch gets a skip row; any other is       *)
(* fetched, analyzed, and its profile written.                               *)
WriteProject(w, p) ==
  /\ job[w].at = "analyzing"
  /\ p \in job[w].todo
  /\ job' = [job EXCEPT ![w].at = "writing", ![w].todo = @ \ {p}]
  /\ call' = [call EXCEPT
                ![w] = NewCall(IF p \in job[w].missing THEN "record_skip"
                                                       ELSE "write_profile",
                               job[w].snap, NoSnapshot, {p})]
  /\ NoStatement
  /\ UNCHANGED running

ProjectWritten(w) ==
  /\ job[w].at = "writing"
  /\ Returned(w)
  /\ job' = [job EXCEPT ![w].at = "analyzing"]
  /\ call' = [call EXCEPT ![w] = NoCall]
  /\ NoStatement
  /\ UNCHANGED running

(* Enumeration, a fetch or an analysis fails.                                *)
GitLabRequestFails(w) ==
  /\ \/ job[w].at = "enumerating"
     \/ job[w].at = "analyzing" /\ job[w].todo \ job[w].missing # {}
  /\ \/ "gitlab" \in GitLabFaults /\ AbortJob(w, "gitlab_error")
     \/ "other" \in GitLabFaults /\ Uncaught(w)
  /\ NoStatement
  /\ UNCHANGED running

(* Mutant of CommitJob: the handle is completed before commit_snapshot.      *)
CommitJobReleasesFirst(w) ==
  /\ job[w].at = "analyzing"
  /\ job[w].todo = {}
  /\ CallFrom(w, "committing", WriterCall("commit_snapshot", job[w].snap))
  /\ Release(w)
  /\ NoStatement

CommitJob(w) ==
  /\ job[w].at = "analyzing"
  /\ job[w].todo = {}
  /\ CallFrom(w, "committing", WriterCall("commit_snapshot", job[w].snap))
  /\ NoStatement
  /\ UNCHANGED running

(* Mutant of CompleteJob: an exception of commit_snapshot is swallowed.      *)
CompleteJobAnyway(w) ==
  /\ job[w].at = "committing"
  /\ Returned(w) \/ Raised(w)
  /\ Release(w)
  /\ End(w, "ok")
  /\ NoStatement

CompleteJob(w) ==
  /\ job[w].at = "committing"
  /\ Returned(w)
  /\ Release(w)
  /\ End(w, "ok")
  /\ NoStatement

(* Mutant of AbortEnds: the finally arm does not call handle.abort().        *)
AbortEndsKeepsSlot(w) ==
  /\ job[w].at = "aborting"
  /\ Returned(w) \/ Raised(w)
  /\ End(w, IF Raised(w) THEN "error" ELSE job[w].result)
  /\ NoStatement
  /\ UNCHANGED running

(* Whether or not abort_snapshot raised, the finally arm frees the slot.     *)
AbortEnds(w) ==
  /\ job[w].at = "aborting"
  /\ Returned(w) \/ Raised(w)
  /\ Release(w)
  /\ End(w, IF Raised(w) THEN "error" ELSE job[w].result)
  /\ NoStatement

(* populate, write_profile, record_skip or commit_snapshot raised.           *)
BodyRaises(w) ==
  /\ job[w].at \in {"populating", "writing", "committing"}
  /\ Raised(w)
  /\ Uncaught(w)
  /\ NoStatement
  /\ UNCHANGED running

-----------------------------------------------------------------------------
StartRefresh(w) ==
  \/ StartFullRefresh(w)
  \/ \E p \in Projects : StartSingleProjectRefresh(w, p)

(* The worker's own code between two store statements.                       *)
JobStep(w) ==
  \/ CheckScope(w)
  \/ OpenSingleSnapshot(w)
  \/ TryStart(w)
  \/ RejectStart(w)
  \/ StartRaises(w)
  \/ EnumerateProjects(w)
  \/ CatalogPopulated(w)
  \/ \E p \in Projects : WriteProject(w, p)
  \/ ProjectWritten(w)
  \/ GitLabRequestFails(w)
  \/ CommitJob(w)
  \/ CompleteJob(w)
  \/ AbortEnds(w)
  \/ BodyRaises(w)

StatementStep(c) == StoreStep(c) /\ UNCHANGED coordinatorVars

(* The process dies, or exits, and starts again on the same file.            *)
Restart ==
  /\ RestartStore
  /\ running' = NoSnapshot
  /\ job' = [w \in Workers |-> NoJob]

CoordinatorNext ==
  \/ \E w \in Workers : StartRefresh(w) \/ JobStep(w)
  \/ \E c \in Clients : StatementStep(c)
  \/ Restart

CoordinatorSpec == CoordinatorInit /\ [][CoordinatorNext]_vars

(* A thread that is inside a refresh keeps executing: no statement and no    *)
(* lock of the program blocks.  Nothing obliges anyone to ask for a refresh, *)
(* and nothing restarts the process.                                         *)
Fairness ==
  /\ \A w \in Workers : WF_vars(JobStep(w))
  /\ \A c \in Clients : WF_vars(StatementStep(c))

FairCoordinatorSpec == CoordinatorSpec /\ Fairness

-----------------------------------------------------------------------------
(* What refreshes promise.                                                  *)

InBody(w) == job[w].at \in BodySteps

(* At most one job is between try_start and its release, and the slot names *)
(* its snapshot: a job always still owns the slot it will release, also     *)
(* when an earlier job leaked the slot or when ids of rolled-back snapshots *)
(* are used again (try_start, _release).                                    *)
SingleFlight ==
  /\ \A w \in Workers : InBody(w) => running = job[w].snap
  /\ \A v, w \in Workers : InBody(v) /\ InBody(w) => v = w

(* The snapshot readers are pointed to is completed, also in the            *)
(* uncommitted tables they really read (commit_snapshot flips the status    *)
(* before it moves the pointer).                                            *)
CurrentCompleted ==
  /\ db.current # NoSnapshot => db.status[db.current] = "completed"
  /\ disk.current # NoSnapshot => disk.status[disk.current] = "completed"

Published(s) == disk.status[s] = "completed"

(* Once published, a snapshot's rows never change: no late write_profile,   *)
(* populate_in_scope or retry of another job reaches them, so a reader that *)
(* took the pointer and then selects still reads one snapshot.              *)
PublishedRowsImmutable ==
  [][\A s \in Ids : Published(s) =>
       /\ Published(s)'
       /\ disk'.profile[s] = disk.profile[s]
       /\ disk'.catalog[s] = disk.catalog[s]
       /\ disk'.skips[s] = disk.skips[s]]_disk

(* What readers see changes only by the commit of the job that holds the    *)
(* slot: rejected, aborted and failing refreshes and restarts leave it.     *)
OnlyRunningJobPublishes ==
  [][disk'.current # disk.current => disk'.current = running]_disk

(* What a refresh call reports is what happened to its snapshot: "ok" means *)
(* published; any exception, the uncaught ones included, means that no      *)
(* reader will ever be shown it.                                            *)
ReportedOutcomeHolds ==
  \A w \in Workers : job[w].at = "idle" /\ job[w].snap # NoSnapshot =>
    (job[w].result = "ok") = Published(job[w].snap)

(* Every project a published snapshot lists has a profile in it, or a skip  *)
(* row, or (in a single-project refresh, which copies profiles but no skip  *)
(* rows) was already without a profile in its published parent.             *)
EveryProjectAccountedFor ==
  \A s \in Ids : Published(s) => \A p \in disk.catalog[s] :
    \/ disk.profile[s][p] # NoSnapshot
    \/ p \in disk.skips[s]
    \/ /\ disk.parent[s] # NoSnapshot
       /\ Published(disk.parent[s])
       /\ p \in disk.catalog[disk.parent[s]]
       /\ disk.profile[disk.parent[s]][p] = NoSnapshot

(* A published profile belongs to a project the snapshot's catalog lists,   *)
(* as is_in_scope gates every lookup of it.                                 *)
ProfilesInScope ==
  \A s \in Ids : Published(s) => \A p \in Projects :
    disk.profile[s][p] # NoSnapshot => p \in disk.catalog[s]

(* A single-project refresh replaces one profile of the view it publishes   *)
(* over: every other project keeps the profile readers had.                 *)
SingleRefreshIsIncremental ==
  [][\A w \in Workers :
       /\ disk'.current # disk.current
       /\ disk'.current = job[w].snap
       /\ job[w].at = "committing"
       /\ job[w].trigger = "single_project"
       => \A p \in Projects \ job[w].target :
            disk'.profile[disk'.current][p] = disk.profile[disk.current][p]]_vars

(* A refresh that ended by itself leaves no snapshot in progress.           *)
NoOrphanedSnapshot ==
  \A w \in Workers : job[w].at = "idle" /\ job[w].snap # NoSnapshot =>
    disk.status[job[w].snap] # "in_progress"

(* Every refresh call comes back to its caller, whatever fails under it and *)
(* whoever else is refreshing.                                              *)
RefreshReturns ==
  \A w \in Workers : job[w].at # "idle" ~> job[w].at = "idle"

(* A concurrent start attempt leaves the running job alone: with nothing    *)
(* else failing, no job that got the slot ends in an exception.             *)
RunningJobUndisturbed ==
  \A w \in Workers :
    job[w].result = "error" => job[w].snap = NoSnapshot

(* The slot is never kept for good: after each job the next one can start.  *)
SlotIsFreed == running # NoSnapshot ~> running = NoSnapshot

(* The abstract view of the committed tables.                               *)
View ==
  INSTANCE SnapshotView WITH
    views <- [s \in {t \in Ids : disk.status[t] = "completed"} |->
                [catalog |-> disk.catalog[s], profile |-> disk.profile[s]]],
    current <- disk.current

(* What is committed changes only as SnapshotView allows: every interleaving *)
(* of refreshes, rejections, failures and restarts publishes whole, final    *)
(* snapshots, each a full refresh or a copy with one profile replaced.       *)
ImplementsSnapshotView == View!Spec

(* What the tables show on the connection, while a commit_snapshot is under  *)
(* way and otherwise.                                                        *)
PointerMoved == db.current # disk.current

Shown ==
  INSTANCE ShownView WITH
    views <- [s \in {t \in Ids : \/ disk.status[t] = "completed"
                                 \/ PointerMoved /\ t = db.current} |->
                [catalog |-> db.catalog[s], profile |-> db.profile[s]]],
    current <- db.current,
    uncommitted <- PointerMoved,
    before <- IF PointerMoved THEN disk.current ELSE NoSnapshot,
    CommitFaults <- TRUE

(* What readers are shown changes only as ShownView allows: whatever the     *)
(* threads execute inside one another's transactions, no reader sees half a  *)
(* snapshot, and a pointer that is undone leaves what was there before       *)
(* (commit_snapshot, get_current_snapshot_id).                               *)
ImplementsShownView == Shown!ShownSpec

(* The coordinator calls the store within what KnowledgeStore.tla's callers  *)
(* may do, so the store's promises to arbitrary callers hold here too.       *)
ImplementsKnowledgeStore == Spec
=============================================================================
