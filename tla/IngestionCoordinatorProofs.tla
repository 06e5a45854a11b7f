---------------------- MODULE IngestionCoordinatorProofs ----------------------
(***************************************************************************)
(* Proofs, for every set of workers and projects, every bound and every    *)
(* kind of fault, of what refreshes promise (IngestionCoordinator.tla).    *)
(* The store's lemmas apply because every step of the coordinator is a     *)
(* step that KnowledgeStore.tla allows its callers.  For the readers the   *)
(* argument is ownership: a snapshots row has at most one refresh that     *)
(* writes it, and that refresh writes it no more once it is published.     *)
(***************************************************************************)
EXTENDS IngestionCoordinator, KnowledgeStoreProofs

(* The statements of begin_snapshot.                                         *)
BeginSteps == {"begin", "insert", "copy_profiles", "copy_catalog", "commit"}

Exists(t, s) == t.status[s] # "absent"

(* What a worker knows at each point before its job owns a snapshot, and     *)
(* which of its store calls it waits for.                                    *)
BetweenCalls(w) ==
  job[w].at \in {"idle", "enumerating", "analyzing"} => call[w].at \in Ended

SnapshotKnown(w) == InBody(w) \/ job[w].at = "rejecting" => job[w].snap \in Ids

TargetKnown(w) ==
  job[w].at \in {"reading_current", "checking_scope"} =>
    \E p \in Projects : job[w].target = {p}

ReadsPointer(w) ==
  job[w].at = "reading_current" =>
    /\ call[w].at \in Steps =>
         call[w].at = "read_pointer" /\ call[w].op = "get_current_snapshot_id"
    /\ call[w].at = "returned" /\ call[w].snap # NoSnapshot =>
         Exists(disk, call[w].snap)

ParentExists(w) ==
  job[w].at = "checking_scope" =>
    job[w].parent \in Ids /\ Exists(disk, job[w].parent)

OpensSnapshot(w) ==
  job[w].at = "opening" =>
    /\ call[w].at \in Steps =>
         call[w].at \in BeginSteps /\ call[w].op = "begin_snapshot"
    /\ call[w].at \in {"commit", "returned"} => call[w].snap \in Ids

WorkerInv(w) ==
  /\ BetweenCalls(w)
  /\ SnapshotKnown(w)
  /\ TargetKnown(w)
  /\ ReadsPointer(w)
  /\ ParentExists(w)
  /\ OpensSnapshot(w)

JobInv == /\ PointerInv
          /\ running \in OptIds
          /\ job \in [Workers -> Jobs]
          /\ \A w \in Workers : WorkerInv(w)

LEMMA WorkersAreClients ==
  ASSUME NEW w \in Workers
  PROVE  w \in Clients
  BY WorkersAssumption

LEMMA NoJobTyped == NoJob \in Jobs /\ NoJob.at = "idle"
  BY DEF NoJob, Jobs, JobSteps, Triggers, OptIds, Results

LEMMA InitJob == CoordinatorInit => JobInv
<1> SUFFICES ASSUME CoordinatorInit
             PROVE  JobInv
  OBVIOUS
<1>1. PointerInv
  BY InitPointer DEF CoordinatorInit
<1>2. running \in OptIds /\ job \in [Workers -> Jobs]
  BY NoJobTyped DEF CoordinatorInit, OptIds
<1>3. ASSUME NEW w \in Workers
      PROVE  WorkerInv(w)
  <2>1. job[w].at = "idle" /\ call[w] = NoCall
    BY NoJobTyped, WorkersAreClients DEF CoordinatorInit, Init
  <2>2. QED
    BY <2>1
    DEF WorkerInv, BetweenCalls, SnapshotKnown, TargetKnown, ReadsPointer,
        ParentExists, OpensSnapshot, InBody, BodySteps, NoCall, Ended
<1>4. QED
  BY <1>1, <1>2, <1>3 DEF JobInv

-----------------------------------------------------------------------------
(* Every step of the coordinator is a step of the store's callers.           *)

Legal(w, k) == k \in LegalCalls /\ k.op \in Called[w]

(* A worker that is not inside a statement calls the store, or goes on.      *)
LEMMA WorkerInvokes ==
  ASSUME NEW w \in Workers, call[w].at \in Ended, NoStatement,
         NEW k, k = NoCall \/ Legal(w, k),
         call' = [call EXCEPT ![w] = k]
  PROVE  Next
<1>1. Invoke(w)
  BY DEF Invoke, Legal
<1>2. QED
  BY <1>1, WorkersAreClients DEF Next

(* The store calls that refreshes make are legal ones.                       *)
LEMMA JobCallsLegal ==
  ASSUME NEW w \in Workers
  PROVE  /\ \A b \in {NoSnapshot} \cup {s \in Ids : Exists(disk, s)} :
              Legal(w, NewCall("begin_snapshot", NoSnapshot, b, {}))
         /\ Legal(w, NewCall("get_current_snapshot_id", NoSnapshot,
                             NoSnapshot, {}))
         /\ \A p \in Projects :
              Legal(w, NewCall("is_in_scope", NoSnapshot, NoSnapshot, {p}))
         /\ \A s \in Ids, op \in {"abort_snapshot", "commit_snapshot"} :
              Legal(w, WriterCall(op, s))
         /\ \A s \in Ids, e \in SUBSET Projects :
              Legal(w, NewCall("populate_in_scope", s, NoSnapshot, e))
         /\ \A s \in Ids, p \in Projects,
               op \in {"write_profile", "record_skip"} :
              Legal(w, NewCall(op, s, NoSnapshot, {p}))
<1>0. \A op, s, b, e : NewCall(op, s, b, e).op = op
  BY DEF NewCall
<1>1. ASSUME NEW b \in {NoSnapshot} \cup {s \in Ids : Exists(disk, s)}
      PROVE  Legal(w, NewCall("begin_snapshot", NoSnapshot, b, {}))
  BY <1>0, CalledAssumption DEF LegalCalls, Exists, Legal
<1>2. Legal(w, NewCall("get_current_snapshot_id", NoSnapshot, NoSnapshot, {}))
  BY <1>0, CalledAssumption DEF LegalCalls, Legal
<1>3. ASSUME NEW e \in OneProject
      PROVE  Legal(w, NewCall("is_in_scope", NoSnapshot, NoSnapshot, e))
  BY <1>0, CalledAssumption DEF LegalCalls, Legal
<1>4. ASSUME NEW s \in Ids, NEW op \in {"abort_snapshot", "commit_snapshot"}
      PROVE  Legal(w, WriterCall(op, s))
  BY <1>0, CalledAssumption DEF LegalCalls, Legal, WriterCall
<1>5. ASSUME NEW s \in Ids, NEW e \in SUBSET Projects
      PROVE  Legal(w, NewCall("populate_in_scope", s, NoSnapshot, e))
  BY <1>0, CalledAssumption DEF LegalCalls, Legal
<1>6. ASSUME NEW s \in Ids, NEW e \in OneProject,
             NEW op \in {"write_profile", "record_skip"}
      PROVE  Legal(w, NewCall(op, s, NoSnapshot, e))
  BY <1>0, CalledAssumption DEF LegalCalls, Legal
<1>7. \A p \in Projects : {p} \in OneProject
  BY DEF OneProject
<1>8. QED
  BY <1>1, <1>2, <1>3, <1>4, <1>5, <1>6, <1>7

LEMMA StartIsInvoke ==
  ASSUME JobInv, NEW w \in Workers, StartRefresh(w)
  PROVE  Next
<1>0. job[w].at = "idle" /\ call[w].at \in Ended /\ NoStatement
  BY DEF StartRefresh, StartFullRefresh, StartSingleProjectRefresh, JobInv,
     WorkerInv, BetweenCalls
<1>1. CASE StartFullRefresh(w)
  <2> DEFINE k == NewCall("begin_snapshot", NoSnapshot, NoSnapshot, {})
  <2>1. Legal(w, k)
    BY JobCallsLegal
  <2>2. call' = [call EXCEPT ![w] = k]
    BY <1>1 DEF StartFullRefresh
  <2> HIDE DEF k
  <2>3. QED
    BY <1>0, <2>1, <2>2, WorkerInvokes
<1>2. ASSUME NEW p \in Projects, StartSingleProjectRefresh(w, p)
      PROVE  Next
  <2> DEFINE k == NewCall("get_current_snapshot_id", NoSnapshot, NoSnapshot,
                          {})
  <2>1. Legal(w, k)
    BY JobCallsLegal
  <2>2. call' = [call EXCEPT ![w] = k]
    BY <1>2 DEF StartSingleProjectRefresh
  <2> HIDE DEF k
  <2>3. QED
    BY <1>0, <2>1, <2>2, WorkerInvokes
<1>3. QED
  BY <1>1, <1>2 DEF StartRefresh

LEMMA JobStepIsInvoke ==
  ASSUME JobInv, NEW w \in Workers, JobStep(w)
  PROVE  [Next]_storeVars
<1> USE DEF Returned, Raised, End, JobInv
<1>0. WorkerInv(w)
  OBVIOUS
<1>1. NoStatement
  BY DEF JobStep, CheckScope, OpenSingleSnapshot, TryStart, RejectStart,
     StartRaises, EnumerateProjects, CatalogPopulated, WriteProject,
     ProjectWritten, GitLabRequestFails, CommitJob, CompleteJob, AbortEnds,
     BodyRaises
<1>2. call[w].at \in Ended
  BY <1>0
  DEF JobStep, CheckScope, OpenSingleSnapshot, TryStart, RejectStart,
      StartRaises, EnumerateProjects, CatalogPopulated, WriteProject,
      ProjectWritten, GitLabRequestFails, CommitJob, CompleteJob, AbortEnds,
      BodyRaises, WorkerInv, BetweenCalls, Ended
<1>3. ASSUME NEW k, call' = [call EXCEPT ![w] = k], k = NoCall \/ Legal(w, k)
      PROVE  Next
  BY <1>1, <1>2, <1>3, WorkerInvokes
<1>4. InBody(w) \/ job[w].at = "rejecting" => job[w].snap \in Ids
  BY <1>0 DEF WorkerInv, SnapshotKnown
<1>5. ASSUME NEW result, AbortJob(w, result), InBody(w)
      PROVE  Next
  BY <1>3, <1>4, <1>5, JobCallsLegal DEF AbortJob
<1>6. CASE CheckScope(w)
  <2>1. CASE call' = [call EXCEPT ![w] = NoCall]
    BY <1>3, <2>1
  <2>2. CASE call' = [call EXCEPT ![w] = NewCall("is_in_scope", NoSnapshot,
                                                 NoSnapshot, job[w].target)]
    <3>1. PICK p \in Projects : job[w].target = {p}
      BY <1>0, <1>6 DEF WorkerInv, TargetKnown, CheckScope
    <3>2. Legal(w, NewCall("is_in_scope", NoSnapshot, NoSnapshot,
                           job[w].target))
      BY <3>1, JobCallsLegal
    <3>3. QED
      BY <1>3, <2>2, <3>2
  <2>3. QED
    BY <1>6, <2>1, <2>2 DEF CheckScope
<1>7. CASE OpenSingleSnapshot(w)
  <2>1. CASE call' = [call EXCEPT ![w] = NoCall]
    BY <1>3, <2>1
  <2>2. CASE CallFrom(w, "opening", NewCall("begin_snapshot", NoSnapshot,
                                            job[w].parent, {}))
    <3>1. job[w].parent \in Ids /\ Exists(disk, job[w].parent)
      BY <1>0, <1>7 DEF WorkerInv, ParentExists, OpenSingleSnapshot
    <3>2. Legal(w, NewCall("begin_snapshot", NoSnapshot, job[w].parent, {}))
      BY <3>1, JobCallsLegal
    <3>3. QED
      BY <1>3, <2>2, <3>2 DEF CallFrom
  <2>3. QED
    BY <1>7, <2>1, <2>2 DEF OpenSingleSnapshot
<1>8. CASE TryStart(w)
  <2>1. call[w].snap \in Ids
    BY <1>0, <1>8 DEF WorkerInv, OpensSnapshot, TryStart
  <2>2. QED
    BY <1>3, <1>8, <2>1, JobCallsLegal DEF TryStart
<1>9. CASE \/ RejectStart(w) \/ StartRaises(w) \/ CatalogPopulated(w)
           \/ ProjectWritten(w) \/ CompleteJob(w) \/ AbortEnds(w)
           \/ BodyRaises(w)
  <2>1. call' = [call EXCEPT ![w] = NoCall]
    BY <1>9 DEF RejectStart, StartRaises, CatalogPopulated, ProjectWritten,
       CompleteJob, AbortEnds, BodyRaises, Uncaught
  <2>2. QED
    BY <1>3, <2>1
<1>10. CASE EnumerateProjects(w)
  <2>0. InBody(w)
    BY <1>10 DEF EnumerateProjects, InBody, BodySteps
  <2>1. ASSUME NEW found \in SUBSET Projects, NEW missing \in SUBSET found,
               EnumerateForFull(w, found, missing)
        PROVE  Next
    BY <1>3, <1>4, <2>0, <2>1, JobCallsLegal DEF EnumerateForFull
  <2>2. ASSUME NEW found \in SUBSET Projects, NEW missing \in SUBSET found,
               EnumerateForSingle(w, found, missing)
        PROVE  UNCHANGED storeVars
    BY <1>1, <2>2 DEF EnumerateForSingle, NoStatement, storeVars
  <2>3. ASSUME NEW found \in SUBSET Projects, TargetDisappeared(w, found)
        PROVE  Next
    BY <1>5, <2>0, <2>3 DEF TargetDisappeared
  <2>4. QED
    BY <1>10, <2>1, <2>2, <2>3 DEF EnumerateProjects
<1>11. ASSUME NEW p \in Projects, WriteProject(w, p)
       PROVE  Next
  <2> DEFINE k == NewCall(IF p \in job[w].missing THEN "record_skip"
                                                  ELSE "write_profile",
                          job[w].snap, NoSnapshot, {p})
  <2>1. job[w].snap \in Ids
    BY <1>4, <1>11 DEF WriteProject, InBody, BodySteps
  <2>2. Legal(w, k)
    BY <2>1, JobCallsLegal
  <2>3. call' = [call EXCEPT ![w] = k]
    BY <1>11 DEF WriteProject
  <2> HIDE DEF k
  <2>4. QED
    BY <1>3, <2>2, <2>3
<1>12. CASE GitLabRequestFails(w)
  <2>0. InBody(w)
    BY <1>12 DEF GitLabRequestFails, InBody, BodySteps
  <2>1. QED
    BY <1>3, <1>5, <1>12, <2>0 DEF GitLabRequestFails, Uncaught
<1>13. CASE CommitJob(w)
  <2>1. job[w].snap \in Ids
    BY <1>4, <1>13 DEF CommitJob, InBody, BodySteps
  <2>2. QED
    BY <1>3, <1>13, <2>1, JobCallsLegal DEF CommitJob, CallFrom
<1>14. QED
  BY <1>6, <1>7, <1>8, <1>9, <1>10, <1>11, <1>12, <1>13 DEF JobStep

LEMMA CoordinatorStepIsStoreStep ==
  ASSUME JobInv, [CoordinatorNext]_vars
  PROVE  [Next]_storeVars
<1>1. ASSUME NEW w \in Workers, StartRefresh(w) \/ JobStep(w)
      PROVE  [Next]_storeVars
  BY <1>1, StartIsInvoke, JobStepIsInvoke
<1>2. ASSUME NEW c \in Clients, StatementStep(c)
      PROVE  Next
  BY <1>2 DEF StatementStep, Next
<1>3. CASE Restart
  BY <1>3 DEF Restart, Next
<1>4. CASE UNCHANGED vars
  BY <1>4 DEF vars
<1>5. QED
  BY <1>1, <1>2, <1>3, <1>4 DEF CoordinatorNext

-----------------------------------------------------------------------------
(* What a statement does to the worker that waits for it.                    *)

LEMMA StatementProgress ==
  ASSUME PointerInv, NEW c \in Clients, StoreStep(c)
  PROVE  /\ call[c].at \in Steps
         /\ \A d \in Clients : d # c => call'[d] = call[d]
         /\ call'[c].at \in Steps \cup {"returned", "raised"}
<1> USE DEF PointerInv, TxnInv, Typed, TypeOK, At, Goto, Return, Raise, Steps,
    TxnSteps, AutoSteps
<1>1. CASE RequireInProgress(c) \/ BeginTransaction(c)
  <2>1. CASE Raise(c)
    BY <1>1, <2>1, OutcomeTyped DEF RequireInProgress, BeginTransaction
  <2>2. CASE Goto(c, AfterCheck(call[c].op)) \/ Goto(c, AfterBegin(call[c].op))
    BY <1>1, <2>2
    DEF RequireInProgress, BeginTransaction, AfterCheck, AfterBegin, Calls
  <2>3. QED
    BY <1>1, <2>1, <2>2 DEF RequireInProgress, BeginTransaction
<1>2. CASE Commit(c) \/ InsertSnapshot(c) \/ InsertSnapshotFails(c)
  BY <1>2, OutcomeTyped
  DEF Commit, InsertSnapshot, InsertSnapshotFails, Calls
<1>3. CASE CopyProfiles(c) \/ CopyCatalog(c) \/ UpsertCatalog(c)
             \/ FlipCompleted(c) \/ MovePointer(c)
  BY <1>3
  DEF CopyProfiles, CopyCatalog, UpsertCatalog, FlipCompleted, MovePointer,
      Calls
<1>4. CASE UpsertProfile(c) \/ InsertSkip(c) \/ MarkFailed(c)
  BY <1>4, OutcomeTyped DEF UpsertProfile, InsertSkip, MarkFailed
<1>5. CASE ForeignKeyFails(c) \/ FlipRefused(c) \/ StatementFails(c)
             \/ ClosedRaises(c)
  BY <1>5, OutcomeTyped
  DEF ForeignKeyFails, FlipRefused, StatementFails, ClosedRaises
<1>6. CASE ReadPointer(c) \/ SelectCatalog(c) \/ SelectProfiles(c)
  <2>1. /\ call[c].at \in Steps
        /\ \A d \in Clients : d # c => call'[d] = call[d]
    BY <1>6 DEF ReadPointer, SelectCatalog, SelectProfiles
  <2>2. ReadPointer(c) => call'[c].at \in {"returned", "select"}
    BY DEF ReadPointer, NoCall
  <2>3. SelectCatalog(c) => call'[c].at = "returned"
    BY DEF SelectCatalog, NoCall
  <2>4. SelectProfiles(c) => call'[c].at = "returned"
    BY DEF SelectProfiles, NoCall
  <2>5. QED
    BY <1>6, <2>1, <2>2, <2>3, <2>4
<1>7. QED
  BY <1>1, <1>2, <1>3, <1>4, <1>5, <1>6 DEF StoreStep

(* begin_snapshot runs its own statements only and returns the id that it    *)
(* inserted.                                                                 *)
LEMMA BeginSnapshotProgress ==
  ASSUME PointerInv, NEW c \in Clients, StoreStep(c),
         call[c].op = "begin_snapshot", call[c].at \in BeginSteps
  PROVE  /\ call'[c].at \in Steps =>
              call'[c].at \in BeginSteps /\ call'[c].op = "begin_snapshot"
         /\ call'[c].at = "returned" =>
              call[c].at = "commit" /\ call'[c].snap = call[c].snap
         /\ call'[c].at = "commit" => call'[c].snap \in Ids
<1> USE DEF PointerInv, TxnInv, Typed, TypeOK, At, Goto, Return, Raise, Steps,
    TxnSteps, AutoSteps, BeginSteps
<1>a. CallShape(call[c])
  BY DEF CallsOK
<1>1. CASE Raise(c)
  BY <1>1, OutcomeTyped
<1>2. CASE BeginTransaction(c)
  BY <1>1, <1>2 DEF BeginTransaction, AfterBegin, Calls
<1>3. CASE Commit(c)
  BY <1>3 DEF Commit, ReturnValue, NoCall, Calls
<1>4. CASE InsertSnapshot(c)
  BY <1>4 DEF InsertSnapshot, Calls
<1>5. CASE CopyProfiles(c) \/ CopyCatalog(c)
  BY <1>a, <1>5 DEF CopyProfiles, CopyCatalog, Calls, CallShape
<1>6. QED
  BY <1>1, <1>2, <1>3, <1>4, <1>5
  DEF StoreStep, RequireInProgress, InsertSnapshotFails, UpsertProfile,
      InsertSkip, UpsertCatalog, ForeignKeyFails, MarkFailed, FlipCompleted,
      FlipRefused, MovePointer, ReadPointer, SelectCatalog, SelectProfiles,
      StatementFails, ClosedRaises

(* The pointer that a statement reads, committed or not, names a committed   *)
(* snapshots row.                                                            *)
LEMMA PointedRowExists ==
  ASSUME PointerInv, db.current # NoSnapshot
  PROVE  Exists(disk, db.current)
<1>1. CASE db.current = disk.current
  BY <1>1 DEF PointerInv, CurrentWasCompleted, Exists
<1>2. CASE db.current # disk.current
  BY <1>2 DEF PointerInv, MovedPointerOwned, PromotesOpenRows, Exists
<1>3. QED
  BY <1>1, <1>2

LEMMA ReadPointerProgress ==
  ASSUME PointerInv, NEW c \in Clients, StoreStep(c),
         call[c].op = "get_current_snapshot_id", call[c].at = "read_pointer"
  PROVE  /\ call'[c].at \notin Steps
         /\ call'[c].at = "returned" /\ call'[c].snap # NoSnapshot =>
              Exists(disk', call'[c].snap)
<1> USE DEF PointerInv, TxnInv, Typed, TypeOK, At, Raise, Steps, TxnSteps,
    AutoSteps
<1>1. CASE Raise(c)
  BY <1>1, OutcomeTyped
<1>2. CASE ReadPointer(c)
  <2>1. call'[c] = [NoCall EXCEPT !.at = "returned", !.snap = db.current]
    BY <1>2 DEF ReadPointer
  <2>2. disk' = disk
    BY <1>2 DEF ReadPointer, NoStatement
  <2>3. QED
    BY <2>1, <2>2, PointedRowExists DEF NoCall, Exists
<1>3. QED
  BY <1>1, <1>2
  DEF StoreStep, RequireInProgress, BeginTransaction, Commit, InsertSnapshot,
      InsertSnapshotFails, CopyProfiles, CopyCatalog, UpsertProfile,
      InsertSkip, UpsertCatalog, ForeignKeyFails, MarkFailed, FlipCompleted,
      FlipRefused, MovePointer, SelectCatalog, SelectProfiles, StatementFails,
      ClosedRaises

-----------------------------------------------------------------------------
(* The invariant of the jobs.                                                *)

LEMMA RowsStayCommitted ==
  ASSUME PointerInv, [Next]_storeVars, NEW s \in Ids, Exists(disk, s)
  PROVE  Exists(disk', s)
  BY StatusStep DEF Exists, MayBecome

(* A worker whose job and call do not change keeps what it knows.            *)
LEMMA WorkerFrame ==
  ASSUME JobInv, [Next]_storeVars, NEW w \in Workers,
         job'[w] = job[w], call'[w] = call[w]
  PROVE  WorkerInv(w)'
<1>0. WorkerInv(w) /\ job[w] \in Jobs /\ call[w] \in Calls
  BY WorkersAreClients DEF JobInv, PointerInv, TxnInv, Typed, TypeOK
<1>1. BetweenCalls(w)' /\ SnapshotKnown(w)' /\ TargetKnown(w)'
                       /\ OpensSnapshot(w)'
  BY <1>0
  DEF WorkerInv, BetweenCalls, SnapshotKnown, TargetKnown, OpensSnapshot,
      InBody
<1>2. ReadsPointer(w)'
  <2>1. call[w].snap # NoSnapshot => call[w].snap \in Ids
    BY <1>0 DEF Calls, OptIds
  <2>2. QED
    BY <1>0, <2>1, RowsStayCommitted DEF WorkerInv, ReadsPointer, JobInv
<1>3. ParentExists(w)'
  BY <1>0, RowsStayCommitted DEF WorkerInv, ParentExists, JobInv
<1>4. QED
  BY <1>1, <1>2, <1>3 DEF WorkerInv

(* The worker that waits for the statement executed.                         *)
LEMMA WaitingWorker ==
  ASSUME JobInv, NEW w \in Workers, StatementStep(w)
  PROVE  WorkerInv(w)'
<1> USE DEF JobInv
<1>0. /\ WorkerInv(w)
      /\ job' = job
      /\ w \in Clients
      /\ StoreStep(w)
      /\ [Next]_storeVars
  BY WorkersAreClients DEF StatementStep, coordinatorVars, Next
<1>1. /\ call[w].at \in Steps
      /\ call[w].at \notin Ended
      /\ call'[w].at \in Steps \cup {"returned", "raised"}
  BY <1>0, StatementProgress DEF Ended, Steps, TxnSteps, AutoSteps
<1>2. BetweenCalls(w)' /\ SnapshotKnown(w)' /\ TargetKnown(w)'
  BY <1>0, <1>1
  DEF WorkerInv, BetweenCalls, SnapshotKnown, TargetKnown, InBody
<1>3. ReadsPointer(w)'
  BY <1>0, <1>1, ReadPointerProgress DEF WorkerInv, ReadsPointer
<1>4. ParentExists(w)'
  BY <1>0, RowsStayCommitted DEF WorkerInv, ParentExists
<1>5. OpensSnapshot(w)'
  <2>1. CASE job[w].at = "opening"
    <3>1. call[w].at \in BeginSteps /\ call[w].op = "begin_snapshot"
      BY <1>0, <1>1, <2>1 DEF WorkerInv, OpensSnapshot
    <3>2. call'[w].at = "returned" => call'[w].snap \in Ids
      BY <1>0, <2>1, <3>1, BeginSnapshotProgress DEF WorkerInv, OpensSnapshot
    <3>3. QED
      BY <1>0, <3>1, <3>2, BeginSnapshotProgress DEF OpensSnapshot
  <2>2. QED
    BY <1>0, <2>1 DEF OpensSnapshot
<1>6. QED
  BY <1>2, <1>3, <1>4, <1>5 DEF WorkerInv

(* A worker's own step: every case leaves it between two calls, with a job   *)
(* that knows what its next step needs.                                      *)
LEMMA StartKnows ==
  ASSUME JobInv, NEW w \in Workers, StartRefresh(w)
  PROVE  /\ job' \in [Workers -> Jobs]
         /\ WorkerInv(w)'
         /\ running' = running
<1> USE DEF JobInv
<1>0. NoJob \in Jobs
  BY NoJobTyped
<1>a. call \in [Clients -> Calls] /\ w \in Clients
  BY WorkersAreClients DEF PointerInv, TxnInv, Typed, TypeOK
<1>1. CASE StartFullRefresh(w)
  <2>1. /\ job' = [job EXCEPT ![w] = [NoJob EXCEPT !.at = "opening"]]
        /\ call'[w].op = "begin_snapshot"
        /\ call'[w].at = "begin"
    BY <1>a, <1>1 DEF StartFullRefresh, NewCall, FirstStep, Readers
  <2>2. [NoJob EXCEPT !.at = "opening"] \in Jobs /\ job'[w].at = "opening"
    BY <1>0, <2>1 DEF Jobs, JobSteps
  <2>3. QED
    BY <1>1, <2>1, <2>2
    DEF StartFullRefresh, WorkerInv, BetweenCalls, SnapshotKnown, TargetKnown,
        ReadsPointer, ParentExists, OpensSnapshot, InBody, BodySteps,
        BeginSteps
<1>2. ASSUME NEW p \in Projects, StartSingleProjectRefresh(w, p)
      PROVE  /\ job' \in [Workers -> Jobs]
             /\ WorkerInv(w)'
             /\ running' = running
  <2> DEFINE j == [NoJob EXCEPT !.at = "reading_current",
                                !.trigger = "single_project",
                                !.target = {p}]
  <2>1. /\ job' = [job EXCEPT ![w] = j]
        /\ call'[w].op = "get_current_snapshot_id"
        /\ call'[w].at = "read_pointer"
    BY <1>a, <1>2 DEF StartSingleProjectRefresh, NewCall, FirstStep, Readers
  <2>2. j \in Jobs /\ job'[w].at = "reading_current" /\ job'[w].target = {p}
    BY <1>0, <2>1 DEF Jobs, JobSteps, Triggers
  <2>3. QED
    BY <1>2, <2>1, <2>2
    DEF StartSingleProjectRefresh, WorkerInv, BetweenCalls, SnapshotKnown,
        TargetKnown, ReadsPointer, ParentExists, OpensSnapshot, InBody,
        BodySteps, BeginSteps
<1>3. QED
  BY <1>1, <1>2 DEF StartRefresh

LEMMA JobStepKnows ==
  ASSUME JobInv, NEW w \in Workers, JobStep(w)
  PROVE  /\ job' \in [Workers -> Jobs]
         /\ \A v \in Workers : v # w => job'[v] = job[v] /\ call'[v] = call[v]
         /\ WorkerInv(w)'
         /\ running' \in OptIds
<1> USE DEF JobInv
<1>0. WorkerInv(w) /\ NoJob \in Jobs /\ job[w] \in Jobs
  BY NoJobTyped
<1>a. call \in [Clients -> Calls] /\ w \in Clients /\ Workers \subseteq Clients
  BY WorkersAreClients DEF PointerInv, TxnInv, Typed, TypeOK
<1>b. NoStatement /\ call[w] \in Calls /\ NoSnapshot \in OptIds
  BY <1>a
  DEF JobStep, CheckScope, OpenSingleSnapshot, TryStart, RejectStart,
      StartRaises, EnumerateProjects, CatalogPopulated, WriteProject,
      ProjectWritten, GitLabRequestFails, CommitJob, CompleteJob, AbortEnds,
      BodyRaises, OptIds
<1> DEFINE Goal == /\ job' \in [Workers -> Jobs]
                   /\ \A v \in Workers : v # w => job'[v] = job[v]
                                                  /\ call'[v] = call[v]
                   /\ WorkerInv(w)'
                   /\ running' \in OptIds
<1>1. ASSUME NEW j \in Jobs, NEW k,
             job' = [job EXCEPT ![w] = j],
             call' = [call EXCEPT ![w] = k],
             running' \in OptIds,
             j.at \in {"idle", "enumerating", "analyzing"} => k.at \in Ended,
             j.at \in BodySteps \cup {"rejecting"} => j.snap \in Ids,
             j.at \notin {"reading_current", "checking_scope", "opening"}
      PROVE  Goal
  <2>1. job'[w] = j /\ call'[w] = k
    BY <1>1, <1>a
  <2>2. WorkerInv(w)'
    BY <1>1, <2>1
    DEF WorkerInv, BetweenCalls, SnapshotKnown, TargetKnown, ReadsPointer,
        ParentExists, OpensSnapshot, InBody
  <2>3. QED
    BY <1>1, <1>a, <2>2
<1>2. ASSUME NEW result \in Results, End(w, result), running' \in OptIds
      PROVE  Goal
  <2> DEFINE j == [NoJob EXCEPT !.snap = job[w].snap, !.result = result]
  <2>1. j \in Jobs /\ j.at = "idle"
    BY <1>0 DEF Jobs, NoJob
  <2>2. job' = [job EXCEPT ![w] = j] /\ call' = [call EXCEPT ![w] = NoCall]
    BY <1>2 DEF End
  <2>3. NoCall.at \in Ended
    BY DEF NoCall, Ended
  <2> HIDE DEF j
  <2>4. QED
    BY <1>1, <1>2, <2>1, <2>2, <2>3 DEF BodySteps
<1>3. running \in OptIds /\ (Release(w) => running' \in OptIds)
  BY <1>b DEF Release
<1>4. ASSUME NEW result \in Results, AbortJob(w, result), InBody(w),
             running' = running
      PROVE  Goal
  <2> DEFINE j == [job[w] EXCEPT !.at = "aborting", !.result = result]
  <2>1. j \in Jobs /\ j.at = "aborting" /\ j.snap \in Ids
    BY <1>0, <1>4 DEF Jobs, JobSteps, BodySteps, WorkerInv, SnapshotKnown
  <2>2. job' = [job EXCEPT ![w] = j]
    BY <1>0, <1>4 DEF AbortJob
  <2>3. call' = [call EXCEPT ![w] = WriterCall("abort_snapshot", job[w].snap)]
    BY <1>4 DEF AbortJob
  <2> HIDE DEF j
  <2>4. QED
    BY <1>1, <1>3, <1>4, <2>1, <2>2, <2>3 DEF BodySteps
<1>5. CASE CheckScope(w)
  <2>1. CASE End(w, "not_in_scope")
    BY <1>2, <1>3, <1>5, <2>1 DEF CheckScope, Results
  <2>2. CASE ~ End(w, "not_in_scope")
    <3> DEFINE j == [job[w] EXCEPT !.at = "checking_scope",
                                   !.parent = call[w].snap]
    <3>1. call[w].snap \in Ids /\ Exists(disk, call[w].snap)
      BY <1>0, <1>b, <1>5, <2>2
      DEF CheckScope, WorkerInv, ReadsPointer, Returned, Calls, OptIds
    <3>2. j \in Jobs /\ j.at = "checking_scope"
      BY <1>0, <1>b DEF Jobs, JobSteps, Calls
    <3>3. /\ job' = [job EXCEPT ![w] = j]
          /\ \A v \in Clients : v # w => call'[v] = call[v]
      BY <1>a, <1>5, <2>2 DEF CheckScope
    <3>4. /\ job'[w].at = "checking_scope"
          /\ job'[w].parent = call[w].snap
          /\ job'[w].target = job[w].target
      BY <3>3
    <3>5. disk' = disk
      BY <1>b DEF NoStatement
    <3>6. WorkerInv(w)'
      BY <1>0, <1>5, <3>1, <3>4, <3>5
      DEF CheckScope, WorkerInv, BetweenCalls, SnapshotKnown, TargetKnown,
          ReadsPointer, ParentExists, OpensSnapshot, InBody, BodySteps, Exists
    <3>7. QED
      BY <1>3, <1>a, <1>5, <3>2, <3>3, <3>6 DEF CheckScope
  <2>3. QED
    BY <2>1, <2>2
<1>6. CASE OpenSingleSnapshot(w)
  <2>1. CASE End(w, "not_in_scope")
    BY <1>2, <1>3, <1>6, <2>1 DEF OpenSingleSnapshot, Results
  <2>2. CASE ~ End(w, "not_in_scope")
    <3> DEFINE j == [job[w] EXCEPT !.at = "opening"]
    <3>1. j \in Jobs /\ j.at = "opening"
      BY <1>0 DEF Jobs, JobSteps
    <3>2. /\ job' = [job EXCEPT ![w] = j]
          /\ call' = [call EXCEPT ![w] = NewCall("begin_snapshot", NoSnapshot,
                                                 job[w].parent, {})]
      BY <1>6, <2>2 DEF OpenSingleSnapshot, CallFrom
    <3>3. /\ job'[w].at = "opening"
          /\ call'[w].at = "begin"
          /\ call'[w].op = "begin_snapshot"
      BY <1>a, <3>2 DEF NewCall, FirstStep, Readers
    <3>4. WorkerInv(w)'
      BY <3>3
      DEF WorkerInv, BetweenCalls, SnapshotKnown, TargetKnown, ReadsPointer,
          ParentExists, OpensSnapshot, InBody, BodySteps, BeginSteps
    <3>5. QED
      BY <1>3, <1>a, <1>6, <3>1, <3>2, <3>4 DEF OpenSingleSnapshot
  <2>3. QED
    BY <2>1, <2>2
<1>7. CASE TryStart(w)
  <2>0. call[w].snap \in Ids
    BY <1>0, <1>7 DEF WorkerInv, OpensSnapshot, TryStart, Returned
  <2>1. CASE running = NoSnapshot
    <3> DEFINE j == [job[w] EXCEPT !.at = "enumerating", !.snap = call[w].snap]
    <3>1. j \in Jobs /\ j.at = "enumerating" /\ j.snap \in Ids
      BY <1>0, <2>0 DEF Jobs, JobSteps, BodySteps, OptIds
    <3>2. /\ job' = [job EXCEPT ![w] = j]
          /\ call' = [call EXCEPT ![w] = NoCall]
          /\ running' \in OptIds
      BY <1>7, <2>0, <2>1 DEF TryStart, OptIds
    <3>3. NoCall.at \in Ended
      BY DEF NoCall, Ended
    <3> HIDE DEF j
    <3>4. QED
      BY <1>1, <3>1, <3>2, <3>3
  <2>2. CASE running # NoSnapshot
    <3> DEFINE j == [job[w] EXCEPT !.at = "rejecting", !.snap = call[w].snap]
    <3>1. j \in Jobs /\ j.at = "rejecting" /\ j.snap \in Ids
      BY <1>0, <2>0 DEF Jobs, JobSteps, OptIds
    <3>2. /\ job' = [job EXCEPT ![w] = j]
          /\ call' = [call EXCEPT
                        ![w] = WriterCall("abort_snapshot", call[w].snap)]
          /\ running' \in OptIds
      BY <1>3, <1>7, <2>2 DEF TryStart
    <3> HIDE DEF j
    <3>3. QED
      BY <1>1, <3>1, <3>2
  <2>3. QED
    BY <2>1, <2>2
<1>8. CASE RejectStart(w) \/ StartRaises(w) \/ BodyRaises(w)
  BY <1>2, <1>3, <1>8 DEF RejectStart, StartRaises, BodyRaises, Uncaught,
     Results
<1>9. CASE EnumerateProjects(w)
  <2>0. /\ InBody(w)
        /\ running' = running
        /\ job[w].snap \in Ids
        /\ job[w].at = "enumerating"
        /\ call[w].at \in Ended
    BY <1>0, <1>9
    DEF EnumerateProjects, InBody, BodySteps, WorkerInv, SnapshotKnown,
        BetweenCalls
  <2>1. ASSUME NEW found \in SUBSET Projects, NEW missing \in SUBSET found,
               EnumerateForFull(w, found, missing)
        PROVE  Goal
    <3> DEFINE j == [job[w] EXCEPT !.at = "populating", !.todo = found,
                                   !.missing = missing]
    <3>1. j \in Jobs /\ j.at = "populating" /\ j.snap \in Ids
      BY <1>0, <2>0 DEF Jobs, JobSteps, BodySteps
    <3>2. /\ job' = [job EXCEPT ![w] = j]
          /\ call' = [call EXCEPT ![w] = NewCall("populate_in_scope",
                        job[w].snap, NoSnapshot, found)]
      BY <2>1 DEF EnumerateForFull
    <3> HIDE DEF j
    <3>3. QED
      BY <1>1, <1>3, <2>0, <3>1, <3>2
  <2>2. ASSUME NEW found \in SUBSET Projects, NEW missing \in SUBSET found,
               EnumerateForSingle(w, found, missing)
        PROVE  Goal
    <3> DEFINE j == [job[w] EXCEPT !.at = "analyzing", !.todo = job[w].target,
                                   !.missing = missing \cap job[w].target]
    <3>1. j \in Jobs /\ j.at = "analyzing" /\ j.snap \in Ids
      BY <1>0, <2>0 DEF Jobs, JobSteps, BodySteps
    <3>2. /\ job' = [job EXCEPT ![w] = j]
          /\ call' = [call EXCEPT ![w] = call[w]]
      BY <1>a, <2>2 DEF EnumerateForSingle
    <3> HIDE DEF j
    <3>3. QED
      BY <1>1, <1>3, <2>0, <3>1, <3>2
  <2>3. ASSUME NEW found \in SUBSET Projects, TargetDisappeared(w, found)
        PROVE  Goal
    BY <1>4, <2>0, <2>3 DEF TargetDisappeared, Results
  <2>4. QED
    BY <1>9, <2>1, <2>2, <2>3 DEF EnumerateProjects
<1>10. CASE CatalogPopulated(w) \/ ProjectWritten(w)
  <2> DEFINE j == [job[w] EXCEPT !.at = "analyzing"]
  <2>1. j \in Jobs /\ j.at = "analyzing" /\ j.snap \in Ids
    BY <1>0, <1>10
    DEF Jobs, JobSteps, BodySteps, WorkerInv, SnapshotKnown, InBody,
        CatalogPopulated, ProjectWritten
  <2>2. /\ job' = [job EXCEPT ![w] = j]
        /\ call' = [call EXCEPT ![w] = NoCall]
        /\ running' = running
    BY <1>10 DEF CatalogPopulated, ProjectWritten
  <2>3. NoCall.at \in Ended
    BY DEF NoCall, Ended
  <2> HIDE DEF j
  <2>4. QED
    BY <1>1, <1>3, <2>1, <2>2, <2>3
<1>11. ASSUME NEW p \in Projects, WriteProject(w, p)
       PROVE  Goal
  <2> DEFINE j == [job[w] EXCEPT !.at = "writing", !.todo = @ \ {p}]
             k == NewCall(IF p \in job[w].missing THEN "record_skip"
                                                  ELSE "write_profile",
                          job[w].snap, NoSnapshot, {p})
  <2>1. j \in Jobs /\ j.at = "writing" /\ j.snap \in Ids
    BY <1>0, <1>11
    DEF Jobs, JobSteps, BodySteps, WorkerInv, SnapshotKnown, InBody,
        WriteProject
  <2>2. /\ job' = [job EXCEPT ![w] = j]
        /\ call' = [call EXCEPT ![w] = k]
        /\ running' = running
    BY <1>11 DEF WriteProject
  <2> HIDE DEF j, k
  <2>3. QED
    BY <1>1, <1>3, <2>1, <2>2
<1>12. CASE GitLabRequestFails(w)
  <2>0. InBody(w) /\ running' = running
    BY <1>12 DEF GitLabRequestFails, InBody, BodySteps
  <2>1. QED
    BY <1>2, <1>3, <1>4, <1>12, <2>0
    DEF GitLabRequestFails, Uncaught, Results
<1>13. CASE CommitJob(w)
  <2> DEFINE j == [job[w] EXCEPT !.at = "committing"]
  <2>1. j \in Jobs /\ j.at = "committing" /\ j.snap \in Ids
    BY <1>0, <1>13
    DEF Jobs, JobSteps, BodySteps, WorkerInv, SnapshotKnown, InBody, CommitJob
  <2>2. /\ job' = [job EXCEPT ![w] = j]
        /\ call' = [call EXCEPT
                      ![w] = WriterCall("commit_snapshot", job[w].snap)]
        /\ running' = running
    BY <1>13 DEF CommitJob, CallFrom
  <2> HIDE DEF j
  <2>3. QED
    BY <1>1, <1>3, <2>1, <2>2
<1>14. CASE CompleteJob(w)
  BY <1>2, <1>3, <1>14 DEF CompleteJob, Results
<1>15. CASE AbortEnds(w)
  <2> DEFINE r == IF Raised(w) THEN "error" ELSE job[w].result
  <2>1. r \in Results /\ End(w, r)
    BY <1>0, <1>15 DEF AbortEnds, Results, Jobs
  <2> HIDE DEF r
  <2>2. QED
    BY <1>2, <1>3, <1>15, <2>1 DEF AbortEnds
<1>16. QED
  BY <1>5, <1>6, <1>7, <1>8, <1>9, <1>10, <1>11, <1>12, <1>13, <1>14, <1>15
  DEF JobStep

LEMMA NextJob == JobInv /\ [CoordinatorNext]_vars => JobInv'
<1> SUFFICES ASSUME JobInv, [CoordinatorNext]_vars
             PROVE  JobInv'
  OBVIOUS
<1> USE DEF JobInv
<1>1. [Next]_storeVars /\ PointerInv'
  BY CoordinatorStepIsStoreStep, NextPointer
<1>2. ASSUME NEW w \in Workers, StartRefresh(w)
      PROVE  JobInv'
  <2>1. \A v \in Workers : v # w => job'[v] = job[v] /\ call'[v] = call[v]
    BY <1>2, WorkersAreClients
    DEF StartRefresh, StartFullRefresh, StartSingleProjectRefresh, PointerInv,
        TxnInv, Typed, TypeOK
  <2>2. QED
    BY <1>1, <1>2, <2>1, StartKnows, WorkerFrame
<1>3. ASSUME NEW w \in Workers, JobStep(w)
      PROVE  JobInv'
  BY <1>1, <1>3, JobStepKnows, WorkerFrame
<1>4. ASSUME NEW c \in Clients, StatementStep(c)
      PROVE  JobInv'
  <2>1. job' = job /\ running' = running /\ StoreStep(c)
    BY <1>4 DEF StatementStep, coordinatorVars
  <2>2. ASSUME NEW w \in Workers
        PROVE  WorkerInv(w)'
    <3>1. CASE w = c
      BY <1>4, <3>1, WaitingWorker
    <3>2. CASE w # c
      BY <1>1, <2>1, <3>2, WorkersAreClients, StatementProgress, WorkerFrame
    <3>3. QED
      BY <3>1, <3>2
  <2>3. QED
    BY <1>1, <2>1, <2>2
<1>5. CASE Restart
  <2>1. /\ job' = [w \in Workers |-> NoJob]
        /\ call' = [c \in Clients |-> NoCall]
        /\ running' = NoSnapshot
    BY <1>5 DEF Restart, RestartStore
  <2>2. ASSUME NEW w \in Workers
        PROVE  WorkerInv(w)'
    <3>1. job'[w].at = "idle" /\ call'[w] = NoCall
      BY <2>1, NoJobTyped, WorkersAreClients
    <3>2. QED
      BY <3>1
      DEF WorkerInv, BetweenCalls, SnapshotKnown, TargetKnown, ReadsPointer,
          ParentExists, OpensSnapshot, InBody, BodySteps, NoCall, Ended
  <2>3. QED
    BY <1>1, <2>1, <2>2, NoJobTyped DEF OptIds
<1>6. CASE UNCHANGED vars
  BY <1>1, <1>6, WorkerFrame DEF vars, coordinatorVars, storeVars
<1>7. QED
  BY <1>2, <1>3, <1>4, <1>5, <1>6 DEF CoordinatorNext

(* The coordinator calls the store only as the store's specification lets    *)
(* its callers do: try_start, the jobs' bodies and their failure paths never *)
(* pass an id, a parent or a set of projects outside LegalCalls, so whatever *)
(* is proved of arbitrary callers holds of the program's refreshes.          *)
THEOREM CoordinatorImplementsStore ==
  CoordinatorSpec => ImplementsKnowledgeStore
<1>1. CoordinatorInit => Init
  BY DEF CoordinatorInit
<1>2. JobInv /\ [CoordinatorNext]_vars => [Next]_storeVars
  BY CoordinatorStepIsStoreStep
<1>3. QED
  BY <1>1, <1>2, InitJob, NextJob, PTL
  DEF CoordinatorSpec, ImplementsKnowledgeStore, Spec

(* Types of the slot and of every job.                                       *)
THEOREM CoordinatorTypeCorrect == CoordinatorSpec => []CoordinatorTypeOK
<1>1. JobInv => CoordinatorTypeOK
  BY DEF JobInv, PointerInv, TxnInv, Typed, CoordinatorTypeOK
<1>2. QED
  BY <1>1, InitJob, NextJob, PTL DEF CoordinatorSpec

-----------------------------------------------------------------------------
(* The single-flight slot.                                                   *)

(* A job's step takes a free slot, or gives up one that it holds, or leaves  *)
(* it alone.                                                                 *)
TakesSlot(w) ==
  /\ running = NoSnapshot
  /\ ~ InBody(w)
  /\ running' = job'[w].snap

KeepsSlot(w) ==
  /\ InBody(w)' => InBody(w) /\ job'[w].snap = job[w].snap
  /\ running' # running => InBody(w) /\ ~ InBody(w)'

LEMMA SlotStep ==
  ASSUME JobInv, NEW w \in Workers, JobStep(w)
  PROVE  TakesSlot(w) \/ KeepsSlot(w)
<1> USE DEF JobInv
<1>0. job[w] \in Jobs /\ w \in Workers
  OBVIOUS
<1>1. ASSUME NEW r, End(w, r), running' = running \/ InBody(w)
      PROVE  KeepsSlot(w)
  <2>1. job'[w].at = "idle"
    BY <1>1 DEF End, NoJob
  <2>2. QED
    BY <1>1, <2>1 DEF KeepsSlot, InBody, BodySteps
<1>2. ASSUME NEW r, AbortJob(w, r), running' = running, InBody(w)
      PROVE  KeepsSlot(w)
  <2>1. job'[w].snap = job[w].snap
    BY <1>0, <1>2 DEF AbortJob, Jobs
  <2>2. QED
    BY <1>2, <2>1 DEF KeepsSlot
<1>3. CASE CheckScope(w) \/ OpenSingleSnapshot(w)
  <2>1. running' = running
    BY <1>3 DEF CheckScope, OpenSingleSnapshot
  <2>2. CASE End(w, "not_in_scope")
    BY <1>1, <2>1, <2>2
  <2>3. CASE job'[w].at \in {"checking_scope", "opening"}
    BY <2>1, <2>3 DEF KeepsSlot, InBody, BodySteps
  <2>4. End(w, "not_in_scope") \/ job'[w].at \in {"checking_scope", "opening"}
    BY <1>0, <1>3 DEF CheckScope, OpenSingleSnapshot, CallFrom, Jobs
  <2>5. QED
    BY <2>2, <2>3, <2>4
<1>4. CASE TryStart(w)
  <2>1. CASE running = NoSnapshot
    <3>1. job'[w].snap = call[w].snap
      BY <1>0, <1>4, <2>1 DEF TryStart, Jobs
    <3>2. QED
      BY <1>4, <2>1, <3>1 DEF TryStart, TakesSlot, InBody, BodySteps
  <2>2. CASE running # NoSnapshot
    <3>1. job'[w].at = "rejecting" /\ running' = running
      BY <1>0, <1>4, <2>2 DEF TryStart, Jobs
    <3>2. QED
      BY <3>1 DEF KeepsSlot, InBody, BodySteps
  <2>3. QED
    BY <2>1, <2>2
<1>5. CASE RejectStart(w) \/ StartRaises(w) \/ BodyRaises(w)
  BY <1>1, <1>5 DEF RejectStart, StartRaises, BodyRaises, Uncaught
<1>6. CASE EnumerateProjects(w)
  <2>0. running' = running /\ InBody(w)
    BY <1>6 DEF EnumerateProjects, InBody, BodySteps
  <2>1. ASSUME NEW found, NEW missing,
               EnumerateForFull(w, found, missing)
                 \/ EnumerateForSingle(w, found, missing)
        PROVE  KeepsSlot(w)
    <3>1. job'[w].snap = job[w].snap
      BY <1>0, <2>1 DEF EnumerateForFull, EnumerateForSingle, Jobs
    <3>2. QED
      BY <2>0, <3>1 DEF KeepsSlot
  <2>2. ASSUME NEW found, TargetDisappeared(w, found)
        PROVE  KeepsSlot(w)
    BY <1>2, <2>0, <2>2 DEF TargetDisappeared
  <2>3. QED
    BY <1>6, <2>1, <2>2 DEF EnumerateProjects
<1>7. CASE \/ CatalogPopulated(w) \/ ProjectWritten(w) \/ CommitJob(w)
           \/ \E p \in Projects : WriteProject(w, p)
  <2>1. running' = running /\ InBody(w)
    BY <1>7 DEF CatalogPopulated, ProjectWritten, CommitJob, WriteProject,
       InBody, BodySteps
  <2>2. CASE CatalogPopulated(w) \/ ProjectWritten(w) \/ CommitJob(w)
    <3>1. job'[w].snap = job[w].snap
      BY <1>0, <2>2
      DEF CatalogPopulated, ProjectWritten, CommitJob, CallFrom, Jobs
    <3>2. QED
      BY <2>1, <3>1 DEF KeepsSlot
  <2>3. ASSUME NEW p \in Projects, WriteProject(w, p)
        PROVE  KeepsSlot(w)
    <3>1. job'[w].snap = job[w].snap
      BY <1>0, <2>3 DEF WriteProject, Jobs
    <3>2. QED
      BY <2>1, <3>1 DEF KeepsSlot
  <2>4. QED
    BY <1>7, <2>2, <2>3
<1>8. CASE GitLabRequestFails(w)
  <2>1. running' = running /\ InBody(w)
    BY <1>8 DEF GitLabRequestFails, InBody, BodySteps
  <2>2. QED
    BY <1>1, <1>2, <1>8, <2>1 DEF GitLabRequestFails, Uncaught
<1>9. CASE CompleteJob(w) \/ AbortEnds(w)
  <2>1. InBody(w)
    BY <1>9 DEF CompleteJob, AbortEnds, InBody, BodySteps
  <2>2. QED
    BY <1>1, <1>9, <2>1 DEF CompleteJob, AbortEnds
<1>10. QED
  BY <1>3, <1>4, <1>5, <1>6, <1>7, <1>8, <1>9 DEF JobStep

SlotInv == JobInv /\ SingleFlight

LEMMA NextSlot == SlotInv /\ [CoordinatorNext]_vars => SlotInv'
<1> SUFFICES ASSUME SlotInv, [CoordinatorNext]_vars
             PROVE  SingleFlight'
  BY NextJob DEF SlotInv
<1> USE DEF SlotInv
<1>1. ASSUME NEW w \in Workers, StartRefresh(w)
      PROVE  SingleFlight'
  <2>1. /\ ~ InBody(w)'
        /\ \A v \in Workers : v # w => job'[v] = job[v]
        /\ running' = running
    BY <1>1
    DEF StartRefresh, StartFullRefresh, StartSingleProjectRefresh, JobInv,
        InBody, BodySteps, NoJob
  <2>2. QED
    BY <2>1 DEF SingleFlight, InBody
<1>2. ASSUME NEW w \in Workers, JobStep(w)
      PROVE  SingleFlight'
  <2>0. \A v \in Workers : v # w => job'[v] = job[v] /\ (InBody(v)' <=> InBody(v))
    BY <1>2, JobStepKnows DEF InBody
  <2>1. CASE TakesSlot(w)
    <3>1. ASSUME NEW v \in Workers, InBody(v)
          PROVE  FALSE
      <4>1. running \in Ids
        BY <3>1 DEF SingleFlight, JobInv, WorkerInv, SnapshotKnown
      <4>2. QED
        BY <2>1, <4>1, BoundAssumption DEF TakesSlot, Ids, NoSnapshot
    <3>2. QED
      BY <2>0, <2>1, <3>1 DEF SingleFlight, TakesSlot
  <2>2. CASE KeepsSlot(w)
    BY <2>0, <2>2 DEF SingleFlight, KeepsSlot
  <2>3. QED
    BY <1>2, <2>1, <2>2, SlotStep
<1>3. CASE \E c \in Clients : StatementStep(c)
  BY <1>3 DEF StatementStep, coordinatorVars, SingleFlight, InBody
<1>4. CASE Restart
  BY <1>4, NoJobTyped DEF Restart, SingleFlight, InBody, BodySteps
<1>5. CASE UNCHANGED vars
  BY <1>5 DEF vars, coordinatorVars, SingleFlight, InBody
<1>6. QED
  BY <1>1, <1>2, <1>3, <1>4, <1>5 DEF CoordinatorNext

LEMMA InitSlot == CoordinatorInit => SlotInv
  BY InitJob, NoJobTyped
  DEF SlotInv, SingleFlight, InBody, BodySteps, CoordinatorInit

(* At most one refresh is between try_start and its release, and it holds    *)
(* the slot under its own snapshot's id, whatever fails, leaks or restarts.  *)
THEOREM OneRefresh == CoordinatorSpec => []SingleFlight
<1>1. SlotInv => SingleFlight
  BY DEF SlotInv
<1>2. QED
  BY <1>1, InitSlot, NextSlot, PTL DEF CoordinatorSpec

-----------------------------------------------------------------------------
(* What one statement does to the snapshots table.                           *)

(* Inside a transaction the disk changes at the COMMIT only.                 *)
LEMMA DiskChange ==
  ASSUME PointerInv, NEW c \in Clients, StoreStep(c), disk' # disk
  PROVE  disk' = db' /\ (~inTxn \/ Commit(c))
  BY DEF StoreStep, RequireInProgress, BeginTransaction, InsertSnapshot,
     InsertSnapshotFails, CopyProfiles, CopyCatalog, UpsertProfile,
     InsertSkip, UpsertCatalog, ForeignKeyFails, MarkFailed, FlipCompleted,
     FlipRefused, MovePointer, ReadPointer, SelectCatalog, SelectProfiles,
     StatementFails, ClosedRaises, Execute, Rollback, NoStatement, Commit

(* The three statements that change a status, and the rollback.              *)
LEMMA StatusChange ==
  ASSUME PointerInv, NEW c \in Clients, StoreStep(c),
         db'.status # db.status
  PROVE  \/ InsertSnapshot(c) \/ MarkFailed(c) \/ FlipCompleted(c)
         \/ Rollback /\ Raise(c) /\ call[c].at \in TxnSteps
<1> USE DEF PointerInv, TxnInv, Typed, TypeOK, Tables
<1>1. CASE RequireInProgress(c) \/ BeginTransaction(c) \/ Commit(c)
  BY <1>1 DEF RequireInProgress, BeginTransaction, Commit, NoStatement
<1>2. CASE InsertSnapshotFails(c) \/ FlipRefused(c)
  BY <1>2 DEF InsertSnapshotFails, FlipRefused, At, TxnSteps
<1>3. CASE CopyProfiles(c) \/ CopyCatalog(c) \/ UpsertProfile(c)
             \/ InsertSkip(c) \/ UpsertCatalog(c) \/ MovePointer(c)
  BY <1>3 DEF CopyProfiles, CopyCatalog, UpsertProfile, InsertSkip,
     UpsertCatalog, MovePointer, Execute
<1>4. CASE ForeignKeyFails(c) \/ StatementFails(c) \/ ClosedRaises(c)
  BY <1>4 DEF ForeignKeyFails, StatementFails, ClosedRaises, NoStatement
<1>5. CASE ReadPointer(c) \/ SelectCatalog(c) \/ SelectProfiles(c)
  BY <1>5 DEF ReadPointer, SelectCatalog, SelectProfiles, NoStatement
<1>6. QED
  BY <1>1, <1>2, <1>3, <1>4, <1>5 DEF StoreStep

(* The call in flight stays the same call, on the same snapshot.             *)
LEMMA CallContinues ==
  ASSUME PointerInv, NEW c \in Clients, StoreStep(c), call'[c].at \in Steps
  PROVE  /\ call'[c].op = call[c].op
         /\ call[c].op \in Writers => call'[c].snap = call[c].snap
<1> USE DEF PointerInv, TxnInv, Typed, TypeOK, At, Goto, Return, Raise, Steps,
    TxnSteps, AutoSteps, Calls
<1>0. CallShape(call[c])
  BY DEF CallsOK
<1>1. ~ Raise(c) /\ ~ Return(c)
  BY OutcomeTyped
<1>2. CASE RequireInProgress(c) \/ BeginTransaction(c)
  BY <1>1, <1>2 DEF RequireInProgress, BeginTransaction
<1>3. CASE InsertSnapshot(c)
  BY <1>0, <1>3 DEF InsertSnapshot, CallShape, Writers
<1>4. CASE CopyProfiles(c) \/ CopyCatalog(c) \/ UpsertCatalog(c)
             \/ FlipCompleted(c) \/ MovePointer(c)
  BY <1>4
  DEF CopyProfiles, CopyCatalog, UpsertCatalog, FlipCompleted, MovePointer
<1>5. CASE ReadPointer(c)
  <2>1. call'[c].at = "select" =>
          /\ call' = [call EXCEPT ![c] = [call[c] EXCEPT !.at = "select",
                                                         !.snap = db.current]]
    BY <1>5 DEF ReadPointer, NoCall
  <2>2. call'[c].at = "select"
    BY <1>5 DEF ReadPointer, NoCall
  <2>3. QED
    BY <1>0, <1>5, <2>1, <2>2 DEF ReadPointer, CallShape, Readers, Writers
<1>6. CASE SelectCatalog(c)
  <2>1. call'[c].at = "returned"
    BY <1>6 DEF SelectCatalog, NoCall
  <2>2. QED
    BY <2>1
<1>7. CASE SelectProfiles(c)
  <2>1. call'[c].at = "returned"
    BY <1>7 DEF SelectProfiles, NoCall
  <2>2. QED
    BY <2>1
<1>8. QED
  BY <1>1, <1>2, <1>3, <1>4, <1>5, <1>6, <1>7
  DEF StoreStep, Commit, InsertSnapshotFails, UpsertProfile, InsertSkip,
      ForeignKeyFails, MarkFailed, FlipRefused, StatementFails, ClosedRaises

(* commit_snapshot enters its promoting stretch with the status flip and     *)
(* leaves it with the COMMIT or an exception.                                *)
LEMMA PromotingStep ==
  ASSUME PointerInv, NEW c \in Clients, StoreStep(c)
  PROVE  /\ Promoting(c)' => MovePointer(c) \/ FlipCompleted(c)
         /\ Promoting(c) => MovePointer(c) \/ Commit(c) \/ Raise(c)
<1> USE DEF PointerInv, TxnInv, Typed, TypeOK, At, Goto, Return, Raise, Calls,
    Promoting
<1>0. CallShape(call[c])
  BY DEF CallsOK
<1>1. ASSUME Promoting(c)'
      PROVE  MovePointer(c) \/ FlipCompleted(c)
  <2>0. /\ call'[c].at \in {"move_pointer", "commit"}
        /\ call'[c].op = "commit_snapshot"
        /\ call[c].op = "commit_snapshot"
    BY <1>1, CallContinues DEF Steps, TxnSteps, PointerInv, TxnInv
  <2>1. ~ Raise(c) /\ ~ Return(c)
    BY <2>0, OutcomeTyped
  <2>2. ~ RequireInProgress(c)
    BY <2>0, <2>1 DEF RequireInProgress, AfterCheck
  <2>3. ~ BeginTransaction(c)
    BY <2>0, <2>1 DEF BeginTransaction, AfterBegin
  <2>4. ~ InsertSnapshot(c) /\ ~ CopyProfiles(c) /\ ~ CopyCatalog(c)
          /\ ~ UpsertCatalog(c)
    BY <1>0, <2>0 DEF InsertSnapshot, CopyProfiles, CopyCatalog,
       UpsertCatalog, CallShape
  <2>5. ~ ReadPointer(c) /\ ~ SelectCatalog(c) /\ ~ SelectProfiles(c)
    BY <1>0, <2>0 DEF ReadPointer, SelectCatalog, SelectProfiles, CallShape,
       Readers
  <2>6. QED
    BY <2>1, <2>2, <2>3, <2>4, <2>5
    DEF StoreStep, Commit, InsertSnapshotFails, UpsertProfile, InsertSkip,
        ForeignKeyFails, MarkFailed, FlipRefused, StatementFails, ClosedRaises
<1>2. ASSUME Promoting(c)
      PROVE  MovePointer(c) \/ Commit(c) \/ Raise(c)
  BY <1>2
  DEF StoreStep, RequireInProgress, BeginTransaction, InsertSnapshot,
      InsertSnapshotFails, CopyProfiles, CopyCatalog, UpsertProfile,
      InsertSkip, UpsertCatalog, ForeignKeyFails, MarkFailed, FlipCompleted,
      FlipRefused, ReadPointer, SelectCatalog, SelectProfiles,
      StatementFails, ClosedRaises
<1>3. QED
  BY <1>1, <1>2

-----------------------------------------------------------------------------
(* Who owns which row.                                                       *)

(* The snapshot of worker w's refresh, from the return of begin_snapshot to  *)
(* the end of the refresh.                                                   *)
Own(w) == IF job[w].at = "opening" THEN call[w].snap ELSE job[w].snap

Holds(w) ==
  \/ InBody(w)
  \/ job[w].at = "rejecting"
  \/ job[w].at = "opening" /\ call[w].at = "returned"

(* begin_snapshot has inserted the row and not committed it.                 *)
Creating(w) ==
  /\ job[w].at = "opening"
  /\ call[w].at \in {"copy_profiles", "copy_catalog", "commit"}

(* The last store call of the refresh has ended.                             *)
Finished(w) ==
  /\ job[w].at \in {"committing", "aborting", "rejecting"}
  /\ call[w].at \in Ended

(* Which store call each step of a job waits for.                            *)
CallOfJob(w) ==
  call[w].at \in Steps =>
    \/ /\ job[w].at = "reading_current"
       /\ call[w].op = "get_current_snapshot_id"
    \/ job[w].at = "checking_scope" /\ call[w].op = "is_in_scope"
    \/ job[w].at = "opening" /\ call[w].op = "begin_snapshot"
    \/ /\ call[w].snap = job[w].snap
       /\ \/ job[w].at = "populating" /\ call[w].op = "populate_in_scope"
          \/ /\ job[w].at = "writing"
             /\ call[w].op \in {"write_profile", "record_skip"}
          \/ job[w].at = "committing" /\ call[w].op = "commit_snapshot"
          \/ /\ job[w].at \in {"aborting", "rejecting"}
             /\ call[w].op = "abort_snapshot"

CreatesRow(w) ==
  Creating(w) =>
    ~ Exists(disk, Own(w)) /\ db.status[Own(w)] = "in_progress"

HoldsRow(w) == Holds(w) => Exists(disk, Own(w))

(* Until its last call ends, the refresh's row is in progress; only its own  *)
(* commit_snapshot may have flipped it, and not yet on disk.                 *)
OpenRow(w) ==
  Holds(w) /\ ~Finished(w) =>
    /\ disk.status[Own(w)] = "in_progress"
    /\ db.status[Own(w)] = IF Promoting(w) THEN "completed" ELSE "in_progress"

RowInv(w) == CallOfJob(w) /\ CreatesRow(w) /\ HoldsRow(w) /\ OpenRow(w)

OneOwner ==
  \A v, w \in Workers : Holds(v) /\ Holds(w) /\ Own(v) = Own(w) => v = w

OnlyWorkersCall == \A c \in Clients \ Workers : call[c].at \in Ended

OwnInv ==
  /\ SlotInv
  /\ ~closed
  /\ OnlyWorkersCall
  /\ \A w \in Workers : RowInv(w)
  /\ OneOwner

LEMMA OwnIsId ==
  ASSUME OwnInv, NEW w \in Workers, Holds(w) \/ Creating(w)
  PROVE  Own(w) \in Ids
<1>1. WorkerInv(w) /\ CallShape(call[w])
  BY WorkersAreClients DEF OwnInv, SlotInv, JobInv, PointerInv, TxnInv, Typed,
     CallsOK
<1>2. QED
  BY <1>1 DEF Own, Holds, Creating, WorkerInv, SnapshotKnown, OpensSnapshot,
     CallShape, InBody, BodySteps

LEMMA StepsNotEnded == Steps \cap Ended = {}
  BY DEF Steps, TxnSteps, AutoSteps, Ended

(* A client that executes a statement is a worker, and a statement on a      *)
(* snapshot is executed for its owner, whose row is still in progress.       *)
LEMMA ExecutorOwns ==
  ASSUME OwnInv, NEW c \in Clients, call[c].at \in Steps
  PROVE  /\ c \in Workers
         /\ call[c].op \in Writers =>
              Holds(c) /\ ~Finished(c) /\ Own(c) = call[c].snap
<1>1. c \in Workers
  BY StepsNotEnded DEF OwnInv, OnlyWorkersCall
<1>2. QED
  BY <1>1, StepsNotEnded
  DEF OwnInv, RowInv, CallOfJob, Writers, Holds, Finished, Own, InBody,
      BodySteps

-----------------------------------------------------------------------------
(* A statement executed for another worker leaves a worker's row alone.      *)

LEMMA OthersRow ==
  ASSUME OwnInv, NEW c \in Clients, StoreStep(c), NEW w \in Workers, w # c,
         (Holds(w) /\ ~Finished(w)) \/ Creating(w)
  PROVE  \/ db'.status[Own(w)] = db.status[Own(w)]
         \/ Rollback /\ call[c].at \in TxnSteps
<1> USE DEF OwnInv, SlotInv, JobInv, PointerInv, TxnInv, Typed, TypeOK
<1>0. /\ Own(w) \in Ids
      /\ db.status[Own(w)] # "absent"
      /\ CallShape(call[c])
      /\ call[c].at \in Steps
      /\ w \in Clients
  BY OwnIsId, WorkersAreClients, StatementProgress
  DEF RowInv, CreatesRow, OpenRow, CallsOK
<1>1. ASSUME call[c].op \in {"abort_snapshot", "commit_snapshot"}
      PROVE  call[c].snap # Own(w) /\ call[c].snap \in Ids
  <2>1. c \in Workers /\ Holds(c) /\ Own(c) = call[c].snap
    BY <1>0, <1>1, ExecutorOwns DEF Writers
  <2>2. CASE Holds(w)
    BY <2>1, <2>2, OwnIsId DEF OneOwner
  <2>3. CASE Creating(w)
    BY <2>1, <2>3, OwnIsId DEF RowInv, CreatesRow, HoldsRow
  <2>4. QED
    BY <2>2, <2>3
<1>2. CASE InsertSnapshot(c)
  BY <1>0, <1>2 DEF InsertSnapshot, IsNextId, Execute, Tables
<1>3. CASE MarkFailed(c)
  BY <1>0, <1>1, <1>3 DEF MarkFailed, At, CallShape, Execute, Tables
<1>4. CASE FlipCompleted(c)
  BY <1>0, <1>1, <1>4 DEF FlipCompleted, At, CallShape, Execute, Tables
<1>5. QED
  BY <1>2, <1>3, <1>4, StatusChange

LEMMA OthersRowInv ==
  ASSUME OwnInv, NEW c \in Clients, StatementStep(c), NEW w \in Workers, w # c
  PROVE  RowInv(w)'
<1> USE DEF OwnInv, SlotInv, JobInv, PointerInv, TxnInv, Typed, TypeOK
<1>0. /\ StoreStep(c)
      /\ job'[w] = job[w]
      /\ call'[w] = call[w]
      /\ closed' = closed
      /\ [Next]_storeVars
      /\ w \in Clients
      /\ RowInv(w)
  <2>1. StoreStep(c) /\ job' = job
    BY DEF StatementStep, coordinatorVars
  <2>2. closed' = closed
    BY <2>1
    DEF StoreStep, RequireInProgress, BeginTransaction, Commit, InsertSnapshot,
        InsertSnapshotFails, CopyProfiles, CopyCatalog, UpsertProfile,
        InsertSkip, UpsertCatalog, ForeignKeyFails, MarkFailed, FlipCompleted,
        FlipRefused, MovePointer, ReadPointer, SelectCatalog, SelectProfiles,
        StatementFails, ClosedRaises, Execute, Rollback, NoStatement
  <2>3. QED
    BY <2>1, <2>2, WorkersAreClients, StatementProgress DEF Next
<1>1. /\ Own(w)' = Own(w)
      /\ Holds(w)' <=> Holds(w)
      /\ Creating(w)' <=> Creating(w)
      /\ Finished(w)' <=> Finished(w)
      /\ Promoting(w)' <=> Promoting(w)
  BY <1>0 DEF Own, Holds, Creating, Finished, Promoting, InBody
<1>2. CallOfJob(w)'
  BY <1>0 DEF RowInv, CallOfJob
<1>3. HoldsRow(w)'
  BY <1>0, <1>1, OwnIsId, RowsStayCommitted DEF RowInv, HoldsRow, Exists
<1>4. inTxn /\ call[w].at \in TxnSteps => call[c].at \notin TxnSteps
  BY <1>0 DEF TransactionOwned
<1>5. CreatesRow(w)'
  <2>1. CASE Creating(w)
    <3>1. call[w].at \in TxnSteps /\ inTxn
      BY <1>0, <2>1 DEF Creating, TxnSteps, TransactionOwned
    <3>2. disk' = disk
      BY <1>0, <1>4, <3>1, DiskChange DEF Commit, At, TxnSteps
    <3>3. db'.status[Own(w)] = db.status[Own(w)]
      BY <1>0, <1>4, <2>1, <3>1, OthersRow
    <3>4. QED
      BY <1>0, <1>1, <2>1, <3>2, <3>3 DEF RowInv, CreatesRow, Exists
  <2>2. QED
    BY <1>1, <2>1 DEF CreatesRow
<1>6. OpenRow(w)'
  <2>1. CASE Holds(w) /\ ~Finished(w)
    <3>1. /\ disk.status[Own(w)] = "in_progress"
          /\ db.status[Own(w)] = IF Promoting(w) THEN "completed"
                                                 ELSE "in_progress"
      BY <1>0, <2>1 DEF RowInv, OpenRow
    <3>2. Promoting(w) => call[c].at \notin TxnSteps /\ inTxn
      BY <1>0, <1>4 DEF Promoting, TxnSteps, TransactionOwned
    <3>3. db'.status[Own(w)] = db.status[Own(w)]
      BY <1>0, <2>1, <3>1, <3>2, OthersRow DEF Rollback
    <3>4. disk'.status[Own(w)] = "in_progress"
      BY <1>0, <3>1, <3>2, <3>3, DiskChange DEF Commit, At, TxnSteps
    <3>5. QED
      BY <1>1, <3>1, <3>3, <3>4 DEF OpenRow
  <2>2. QED
    BY <1>1, <2>1 DEF OpenRow
<1>7. QED
  BY <1>2, <1>3, <1>5, <1>6 DEF RowInv

-----------------------------------------------------------------------------
(* A statement executed for the worker itself.                               *)

LEMMA CallOfJobContinues ==
  ASSUME OwnInv, NEW w \in Workers, StatementStep(w)
  PROVE  CallOfJob(w)'
<1> USE DEF OwnInv, SlotInv, JobInv
<1>1. job'[w] = job[w] /\ StoreStep(w) /\ w \in Clients /\ CallOfJob(w)
  BY WorkersAreClients DEF StatementStep, coordinatorVars, RowInv
<1>2. call[w].at \in Steps
  BY <1>1, StatementProgress
<1>3. QED
  BY <1>1, <1>2, CallContinues DEF CallOfJob, Writers

(* begin_snapshot inserts a row that no committed table has, and only its    *)
(* COMMIT puts it there.                                                     *)
LEMMA InsertedRow ==
  ASSUME JobInv, NEW w \in Workers, CreatesRow(w), StatementStep(w),
         job[w].at = "opening"
  PROVE  /\ CreatesRow(w)'
         /\ Holds(w)' => /\ Creating(w)
                         /\ Own(w)' = Own(w)
                         /\ disk'.status[Own(w)] = "in_progress"
                         /\ db'.status[Own(w)] = "in_progress"
<1> USE DEF JobInv, PointerInv, TxnInv, Typed, TypeOK
<1>0. /\ job'[w] = job[w]
      /\ StoreStep(w)
      /\ w \in Clients
      /\ call[w].op = "begin_snapshot"
      /\ call[w].at \in BeginSteps
      /\ CallShape(call[w])
      /\ CreatesRow(w)
  <2>1. job'[w] = job[w] /\ StoreStep(w) /\ w \in Clients /\ WorkerInv(w)
    BY WorkersAreClients DEF StatementStep, coordinatorVars
  <2>2. call[w].at \in Steps
    BY <2>1, StatementProgress
  <2>3. QED
    BY <2>1, <2>2 DEF WorkerInv, OpensSnapshot, CallsOK
<1>1. CASE Raise(w)
  <2>1. call'[w].at = "raised"
    BY <1>0, <1>1, OutcomeTyped DEF Raise
  <2>2. QED
    BY <1>0, <2>1 DEF CreatesRow, Creating, Holds, InBody, BodySteps
<1>2. CASE BeginTransaction(w)
  <2>1. call'[w].at \in {"raised", "insert"}
    BY <1>0, <1>2, OutcomeTyped
    DEF BeginTransaction, AfterBegin, Goto, Raise, Calls
  <2>2. QED
    BY <1>0, <2>1 DEF CreatesRow, Creating, Holds, InBody, BodySteps
<1>3. CASE Commit(w)
  <2>1. Creating(w) /\ disk' = db /\ db' = db
    BY <1>0, <1>3 DEF Commit, At, Creating
  <2>2. /\ call'[w].at = "returned"
        /\ call'[w].snap = call[w].snap
    BY <1>0, <1>3 DEF Commit, Return, ReturnValue, NoCall, Calls
  <2>3. QED
    BY <1>0, <2>1, <2>2 DEF CreatesRow, Creating, Own
<1>4. CASE InsertSnapshot(w)
  <2>0. inTxn
    BY <1>0, <1>4 DEF InsertSnapshot, At, TxnSteps, TransactionOwned
  <2>1. PICK n \in Ids :
          /\ db.status[n] = "absent"
          /\ db' = [db EXCEPT !.status[n] = "in_progress",
                              !.parent[n] = call[w].base]
          /\ disk' = disk
          /\ call' = [call EXCEPT
                        ![w].snap = n,
                        ![w].at = IF call[w].base = NoSnapshot
                                    THEN "commit" ELSE "copy_profiles"]
    BY <1>4, <2>0 DEF InsertSnapshot, IsNextId, Execute
  <2>2. call'[w].snap = n /\ call'[w].at \in {"commit", "copy_profiles"}
    BY <1>0, <2>1 DEF Calls
  <2>3. db'.status[n] = "in_progress"
    BY <2>1 DEF Tables
  <2>4. disk.status[n] = "absent"
    BY <2>1 DEF PendingStatuses, MayBecome
  <2>5. QED
    BY <1>0, <2>1, <2>2, <2>3, <2>4
    DEF CreatesRow, Own, Exists, Holds, InBody, BodySteps
<1>5. CASE CopyProfiles(w) \/ CopyCatalog(w)
  <2>0. inTxn /\ Creating(w)
    BY <1>0, <1>5 DEF CopyProfiles, CopyCatalog, At, TxnSteps,
       TransactionOwned, Creating
  <2>1. db'.status = db.status /\ disk' = disk
    BY <1>5, <2>0 DEF CopyProfiles, CopyCatalog, Execute, Tables
  <2>2. /\ call'[w].snap = call[w].snap
        /\ call'[w].at \in {"copy_catalog", "commit"}
    BY <1>0, <1>5 DEF CopyProfiles, CopyCatalog, Goto, Calls
  <2>3. QED
    BY <1>0, <2>0, <2>1, <2>2
    DEF CreatesRow, Own, Exists, Holds, InBody, BodySteps
<1>6. QED
  BY <1>0, <1>1, <1>2, <1>3, <1>4, <1>5
  DEF StoreStep, RequireInProgress, InsertSnapshotFails, UpsertProfile,
      InsertSkip, UpsertCatalog, ForeignKeyFails, MarkFailed, FlipCompleted,
      FlipRefused, MovePointer, ReadPointer, SelectCatalog, SelectProfiles,
      StatementFails, ClosedRaises, At, BeginSteps

LEMMA CreatedRow ==
  ASSUME OwnInv, NEW w \in Workers, StatementStep(w), job[w].at = "opening"
  PROVE  /\ CreatesRow(w)'
         /\ Holds(w)' => /\ Creating(w)
                         /\ Own(w)' = Own(w)
                         /\ disk'.status[Own(w)] = "in_progress"
                         /\ db'.status[Own(w)] = "in_progress"
  BY InsertedRow DEF OwnInv, SlotInv, RowInv

(* The writers' statements, up to the end of the call.                       *)
LEMMA WrittenRow ==
  ASSUME OwnInv, NEW w \in Workers, StatementStep(w), job[w].at # "opening"
  PROVE  OpenRow(w)'
<1> USE DEF OwnInv, SlotInv, JobInv, PointerInv, TxnInv, Typed, TypeOK
<1> SUFFICES ASSUME Holds(w)', ~Finished(w)'
             PROVE  /\ disk'.status[Own(w)'] = "in_progress"
                    /\ db'.status[Own(w)'] = IF Promoting(w)'
                                               THEN "completed"
                                               ELSE "in_progress"
  BY DEF OpenRow
<1>0. /\ job'[w] = job[w]
      /\ StoreStep(w)
      /\ w \in Clients
      /\ call[w].at \in Steps
      /\ CallShape(call[w])
      /\ Own(w)' = Own(w)
      /\ Holds(w)
      /\ ~Finished(w)
  <2>1. job'[w] = job[w] /\ StoreStep(w) /\ w \in Clients
    BY WorkersAreClients DEF StatementStep, coordinatorVars
  <2>2. call[w].at \in Steps
    BY <2>1, StatementProgress
  <2>3. QED
    BY <2>1, <2>2, StepsNotEnded
    DEF Own, Holds, Finished, InBody, BodySteps, CallsOK
<1>1. /\ Own(w) \in Ids
      /\ disk.status[Own(w)] = "in_progress"
      /\ db.status[Own(w)] = IF Promoting(w) THEN "completed"
                                             ELSE "in_progress"
  BY <1>0, OwnIsId DEF RowInv, OpenRow
<1>2. call[w].op \in Writers /\ Own(w) = call[w].snap
  BY <1>0 DEF RowInv, CallOfJob, Holds, InBody, BodySteps, Own, Writers
<1>3. call'[w].at \in Ended =>
        job[w].at \notin {"committing", "aborting", "rejecting"}
  BY <1>0 DEF Finished
<1>4. CASE InsertSnapshot(w)
  BY <1>0, <1>2, <1>4 DEF InsertSnapshot, At, CallShape, Writers
<1>5. CASE MarkFailed(w)
  <2>1. call'[w].at \in Ended /\ call[w].op = "abort_snapshot"
    BY <1>0, <1>5, OutcomeTyped
    DEF MarkFailed, Return, At, CallShape, Ended
  <2>2. QED
    BY <1>0, <1>3, <2>1 DEF RowInv, CallOfJob
<1>6. CASE FlipCompleted(w)
  <2>1. inTxn /\ call[w].op = "commit_snapshot"
    BY <1>0, <1>6 DEF FlipCompleted, At, TxnSteps, TransactionOwned, CallShape
  <2>2. disk' = disk /\ db'.status[Own(w)] = "completed" /\ closed' = closed
    BY <1>1, <1>2, <1>6, <2>1 DEF FlipCompleted, Execute, Tables
  <2>3. Promoting(w)'
    BY <1>0, <1>6, <2>1, <2>2 DEF FlipCompleted, Goto, Promoting, Calls
  <2>4. QED
    BY <1>0, <1>1, <2>2, <2>3
<1>7. CASE Raise(w)
  <2>0. call'[w].at = "raised"
    BY <1>0, <1>7, OutcomeTyped DEF Raise
  <2>1. call[w].op \notin {"commit_snapshot", "abort_snapshot"}
    BY <1>0, <1>3, <2>0 DEF RowInv, CallOfJob, Ended
  <2>2. ~Promoting(w) /\ ~Promoting(w)'
    BY <2>0, <2>1 DEF Promoting
  <2>3. db'.status = db.status \/ db' = disk
    <3>1. ~InsertSnapshot(w) /\ ~MarkFailed(w) /\ ~FlipCompleted(w)
      BY <1>0, <1>2, <2>1 DEF InsertSnapshot, MarkFailed, FlipCompleted, At,
         CallShape, Writers
    <3>2. QED
      BY <1>0, <3>1, StatusChange DEF Rollback
  <2>4. disk' = disk \/ disk' = db'
    BY <1>0, DiskChange
  <2>5. QED
    BY <1>0, <1>1, <2>2, <2>3, <2>4
<1>8. CASE /\ ~InsertSnapshot(w) /\ ~MarkFailed(w) /\ ~FlipCompleted(w)
           /\ ~Raise(w)
  <2>1. db'.status = db.status
    BY <1>0, <1>8, StatusChange
  <2>2. CASE Commit(w)
    <3>1. call'[w].at = "returned"
      BY <1>0, <2>2, OutcomeTyped DEF Commit, Return
    <3>2. call[w].op # "commit_snapshot"
      BY <1>0, <1>3, <3>1 DEF RowInv, CallOfJob, Ended
    <3>3. ~Promoting(w) /\ ~Promoting(w)' /\ disk' = db
      BY <2>2, <3>1, <3>2 DEF Promoting, Commit
    <3>4. QED
      BY <1>0, <1>1, <2>1, <3>3
  <2>3. CASE MovePointer(w)
    <3>1. inTxn /\ disk' = disk /\ closed' = closed
      BY <1>0, <2>3 DEF MovePointer, At, TxnSteps, TransactionOwned, Execute
    <3>2. Promoting(w) /\ Promoting(w)'
      BY <1>0, <2>3, <3>1 DEF MovePointer, At, Goto, Promoting, CallShape,
         Calls
    <3>3. QED
      BY <1>0, <1>1, <2>1, <3>1, <3>2
  <2>4. CASE ~Commit(w) /\ ~MovePointer(w)
    <3>1. ~Promoting(w) /\ ~Promoting(w)'
      BY <1>0, <1>8, <2>4, PromotingStep
    <3>2. disk' = disk \/ disk' = db'
      BY <1>0, DiskChange
    <3>3. QED
      BY <1>0, <1>1, <2>1, <3>1, <3>2
  <2>5. QED
    BY <2>2, <2>3, <2>4
<1>9. QED
  BY <1>4, <1>5, <1>6, <1>7, <1>8

-----------------------------------------------------------------------------
(* A worker's own step passes its row on to the next call, or lets it go.    *)

(* What a new call k has to do with job state j.                             *)
CallMatches(j, k) ==
  \/ k = NoCall
  \/ /\ k.snap = j.snap
     /\ k.at = "check"
     /\ \/ j.at = "populating" /\ k.op = "populate_in_scope"
        \/ j.at = "writing" /\ k.op \in {"write_profile", "record_skip"}
        \/ j.at = "committing" /\ k.op = "commit_snapshot"
        \/ j.at \in {"aborting", "rejecting"} /\ k.op = "abort_snapshot"
  \/ j.at = "checking_scope" /\ k.op = "is_in_scope" /\ k.at = "read_pointer"
  \/ j.at = "opening" /\ k.op = "begin_snapshot" /\ k.at = "begin"

LEMMA WriterCallChecks ==
  ASSUME NEW op \in Writers, NEW s, NEW e
  PROVE  LET k == NewCall(op, s, NoSnapshot, e)
         IN  k.at = "check" /\ k.op = op /\ k.snap = s
  BY DEF NewCall, FirstStep, Writers, Readers

LEMMA JobStepPassesRow ==
  ASSUME JobInv, NEW w \in Workers, JobStep(w)
  PROVE  /\ Holds(w)' => Holds(w) /\ ~Finished(w) /\ Own(w)' = Own(w)
         /\ ~Creating(w)'
         /\ ~Promoting(w) /\ ~Promoting(w)'
         /\ CallOfJob(w)'
         /\ NoStatement
<1> USE DEF JobInv
<1>0. job[w] \in Jobs /\ job \in [Workers -> Jobs] /\ WorkerInv(w)
  OBVIOUS
<1>a. call \in [Clients -> Calls] /\ w \in Clients
  BY WorkersAreClients DEF PointerInv, TxnInv, Typed, TypeOK
<1>b. NoStatement
  BY DEF JobStep, CheckScope, OpenSingleSnapshot, TryStart, RejectStart,
     StartRaises, EnumerateProjects, CatalogPopulated, WriteProject,
     ProjectWritten, GitLabRequestFails, CommitJob, CompleteJob, AbortEnds,
     BodyRaises
<1>c. call[w].at \in Ended
  BY <1>0
  DEF JobStep, CheckScope, OpenSingleSnapshot, TryStart, RejectStart,
      StartRaises, EnumerateProjects, CatalogPopulated, WriteProject,
      ProjectWritten, GitLabRequestFails, CommitJob, CompleteJob, AbortEnds,
      BodyRaises, WorkerInv, BetweenCalls, Ended, Returned, Raised
<1> DEFINE Goal == /\ Holds(w)' => /\ Holds(w)
                                   /\ ~Finished(w)
                                   /\ Own(w)' = Own(w)
                   /\ ~Creating(w)'
                   /\ ~Promoting(w) /\ ~Promoting(w)'
                   /\ CallOfJob(w)'
                   /\ NoStatement
<1>d. ~Promoting(w)
  BY <1>c DEF Promoting, Ended
<1>1. ASSUME NEW j, NEW k,
             job' = [job EXCEPT ![w] = j],
             call' = [call EXCEPT ![w] = k],
             CallMatches(j, k),
             j.at \in BodySteps \cup {"rejecting"} =>
               Holds(w) /\ ~Finished(w) /\ j.snap = Own(w)
      PROVE  Goal
  <2>1. job'[w] = j /\ call'[w] = k
    BY <1>0, <1>1, <1>a
  <2>2. /\ k.at \notin {"returned", "copy_profiles", "copy_catalog", "commit",
                        "move_pointer"}
        /\ k.at \in Steps => k # NoCall
    BY <1>1 DEF CallMatches, NoCall, Steps, TxnSteps, AutoSteps
  <2>3. CallOfJob(w)'
    BY <1>1, <2>1, <2>2 DEF CallMatches, CallOfJob
  <2>4. ~Creating(w)' /\ ~Promoting(w)'
    BY <2>1, <2>2 DEF Creating, Promoting
  <2>5. Holds(w)' => Holds(w) /\ ~Finished(w) /\ Own(w)' = Own(w)
    BY <1>1, <2>1, <2>2 DEF Holds, Own, InBody, BodySteps
  <2>6. QED
    BY <1>b, <1>d, <2>3, <2>4, <2>5
<1>2. ASSUME NEW result, End(w, result)
      PROVE  Goal
  <2> DEFINE j == [NoJob EXCEPT !.snap = job[w].snap, !.result = result]
  <2>1. j.at = "idle"
    BY DEF NoJob
  <2>2. job' = [job EXCEPT ![w] = j] /\ call' = [call EXCEPT ![w] = NoCall]
    BY <1>2 DEF End
  <2> HIDE DEF j
  <2>3. QED
    BY <1>1, <2>1, <2>2 DEF BodySteps, CallMatches
<1>3. ASSUME job[w].at \in {"enumerating", "populating", "analyzing", "writing"}
      PROVE  Holds(w) /\ ~Finished(w) /\ Own(w) = job[w].snap
  BY <1>3 DEF Holds, Finished, Own, InBody, BodySteps
<1>4. ASSUME NEW result, AbortJob(w, result),
             job[w].at \in {"enumerating", "analyzing"}
      PROVE  Goal
  <2> DEFINE j == [job[w] EXCEPT !.at = "aborting", !.result = result]
             k == WriterCall("abort_snapshot", job[w].snap)
  <2>1. j.snap = job[w].snap /\ j.at = "aborting"
    BY <1>0 DEF Jobs
  <2>2. CallMatches(j, k)
    BY <2>1, WriterCallChecks DEF CallMatches, WriterCall, Writers
  <2>3. job' = [job EXCEPT ![w] = j] /\ call' = [call EXCEPT ![w] = k]
    BY <1>0, <1>4 DEF AbortJob
  <2> HIDE DEF j, k
  <2>4. QED
    BY <1>1, <1>3, <1>4, <2>1, <2>2, <2>3
<1>5. CASE CheckScope(w)
  <2>1. CASE End(w, "not_in_scope")
    BY <1>2, <2>1
  <2>2. CASE ~ End(w, "not_in_scope")
    <3> DEFINE j == [job[w] EXCEPT !.at = "checking_scope",
                                   !.parent = call[w].snap]
               k == NewCall("is_in_scope", NoSnapshot, NoSnapshot,
                            job[w].target)
    <3>1. j.at = "checking_scope"
      BY <1>0 DEF Jobs
    <3>2. CallMatches(j, k)
      BY <3>1 DEF CallMatches, NewCall, FirstStep, Readers
    <3>3. job' = [job EXCEPT ![w] = j] /\ call' = [call EXCEPT ![w] = k]
      BY <1>5, <2>2 DEF CheckScope
    <3> HIDE DEF j, k
    <3>4. QED
      BY <1>1, <3>1, <3>2, <3>3 DEF BodySteps
  <2>3. QED
    BY <2>1, <2>2
<1>6. CASE OpenSingleSnapshot(w)
  <2>1. CASE End(w, "not_in_scope")
    BY <1>2, <2>1
  <2>2. CASE ~ End(w, "not_in_scope")
    <3> DEFINE j == [job[w] EXCEPT !.at = "opening"]
               k == NewCall("begin_snapshot", NoSnapshot, job[w].parent, {})
    <3>1. j.at = "opening"
      BY <1>0 DEF Jobs
    <3>2. CallMatches(j, k)
      BY <3>1 DEF CallMatches, NewCall, FirstStep, Readers
    <3>3. job' = [job EXCEPT ![w] = j] /\ call' = [call EXCEPT ![w] = k]
      BY <1>6, <2>2 DEF OpenSingleSnapshot, CallFrom
    <3> HIDE DEF j, k
    <3>4. QED
      BY <1>1, <3>1, <3>2, <3>3 DEF BodySteps
  <2>3. QED
    BY <2>1, <2>2
<1>7. CASE TryStart(w)
  <2>0. Holds(w) /\ ~Finished(w) /\ Own(w) = call[w].snap
    BY <1>7 DEF TryStart, Returned, Holds, Finished, Own
  <2>1. CASE running = NoSnapshot
    <3> DEFINE j == [job[w] EXCEPT !.at = "enumerating", !.snap = call[w].snap]
    <3>1. j.snap = call[w].snap
      BY <1>0 DEF Jobs
    <3>2. job' = [job EXCEPT ![w] = j] /\ call' = [call EXCEPT ![w] = NoCall]
      BY <1>7, <2>1 DEF TryStart
    <3> HIDE DEF j
    <3>3. QED
      BY <1>1, <2>0, <3>1, <3>2 DEF CallMatches
  <2>2. CASE running # NoSnapshot
    <3> DEFINE j == [job[w] EXCEPT !.at = "rejecting", !.snap = call[w].snap]
               k == WriterCall("abort_snapshot", call[w].snap)
    <3>1. j.snap = call[w].snap /\ j.at = "rejecting"
      BY <1>0 DEF Jobs
    <3>2. CallMatches(j, k)
      BY <3>1, WriterCallChecks DEF CallMatches, WriterCall, Writers
    <3>3. job' = [job EXCEPT ![w] = j] /\ call' = [call EXCEPT ![w] = k]
      BY <1>7, <2>2 DEF TryStart
    <3> HIDE DEF j, k
    <3>4. QED
      BY <1>1, <2>0, <3>1, <3>2, <3>3
  <2>3. QED
    BY <2>1, <2>2
<1>8. CASE RejectStart(w) \/ StartRaises(w) \/ BodyRaises(w)
             \/ CompleteJob(w) \/ AbortEnds(w)
  BY <1>2, <1>8 DEF RejectStart, StartRaises, BodyRaises, CompleteJob,
     AbortEnds, Uncaught
<1>9. CASE EnumerateProjects(w)
  <2>0. job[w].at = "enumerating"
    BY <1>9 DEF EnumerateProjects
  <2>1. ASSUME NEW found \in SUBSET Projects, NEW missing \in SUBSET found,
               EnumerateForFull(w, found, missing)
        PROVE  Goal
    <3> DEFINE j == [job[w] EXCEPT !.at = "populating", !.todo = found,
                                   !.missing = missing]
               k == NewCall("populate_in_scope", job[w].snap, NoSnapshot,
                            found)
    <3>1. j.snap = job[w].snap /\ j.at = "populating"
      BY <1>0 DEF Jobs
    <3>2. CallMatches(j, k)
      BY <3>1, WriterCallChecks DEF CallMatches, Writers
    <3>3. job' = [job EXCEPT ![w] = j] /\ call' = [call EXCEPT ![w] = k]
      BY <2>1 DEF EnumerateForFull
    <3> HIDE DEF j, k
    <3>4. QED
      BY <1>1, <1>3, <2>0, <3>1, <3>2, <3>3
  <2>2. ASSUME NEW found \in SUBSET Projects, NEW missing \in SUBSET found,
               EnumerateForSingle(w, found, missing)
        PROVE  Goal
    <3>1. /\ job'[w].snap = job[w].snap
          /\ job'[w].at = "analyzing"
          /\ call' = call
      BY <1>0, <2>2 DEF EnumerateForSingle, Jobs
    <3>2. Holds(w)' => Holds(w) /\ ~Finished(w) /\ Own(w)' = Own(w)
      BY <1>3, <2>0, <3>1 DEF Own
    <3>3. ~Creating(w)' /\ ~Promoting(w)' /\ CallOfJob(w)'
      BY <1>c, <3>1, StepsNotEnded DEF Creating, Promoting, CallOfJob, Ended
    <3>4. QED
      BY <1>b, <1>d, <3>2, <3>3
  <2>3. ASSUME NEW found \in SUBSET Projects, TargetDisappeared(w, found)
        PROVE  Goal
    BY <1>4, <2>0, <2>3 DEF TargetDisappeared
  <2>4. QED
    BY <1>9, <2>1, <2>2, <2>3 DEF EnumerateProjects
<1>10. CASE CatalogPopulated(w) \/ ProjectWritten(w)
  <2> DEFINE j == [job[w] EXCEPT !.at = "analyzing"]
  <2>1. j.snap = job[w].snap
    BY <1>0 DEF Jobs
  <2>2. job' = [job EXCEPT ![w] = j] /\ call' = [call EXCEPT ![w] = NoCall]
    BY <1>10 DEF CatalogPopulated, ProjectWritten
  <2>3. job[w].at \in {"populating", "writing"}
    BY <1>10 DEF CatalogPopulated, ProjectWritten
  <2> HIDE DEF j
  <2>4. QED
    BY <1>1, <1>3, <2>1, <2>2, <2>3 DEF CallMatches
<1>11. ASSUME NEW p \in Projects, WriteProject(w, p)
       PROVE  Goal
  <2> DEFINE o == IF p \in job[w].missing THEN "record_skip"
                                          ELSE "write_profile"
             j == [job[w] EXCEPT !.at = "writing", !.todo = @ \ {p}]
             k == NewCall(o, job[w].snap, NoSnapshot, {p})
  <2>1. j.snap = job[w].snap /\ j.at = "writing"
    BY <1>0 DEF Jobs
  <2>2. /\ o \in Writers
        /\ o \in {"record_skip", "write_profile"}
    BY DEF Writers
  <2>3. job' = [job EXCEPT ![w] = j] /\ call' = [call EXCEPT ![w] = k]
    BY <1>11 DEF WriteProject
  <2> HIDE DEF j, o
  <2>4. CallMatches(j, k)
    BY <2>1, <2>2, WriterCallChecks DEF CallMatches
  <2> HIDE DEF k
  <2>5. QED
    BY <1>1, <1>3, <1>11, <2>1, <2>3, <2>4 DEF WriteProject
<1>12. CASE GitLabRequestFails(w)
  BY <1>2, <1>4, <1>12 DEF GitLabRequestFails, Uncaught
<1>13. CASE CommitJob(w)
  <2> DEFINE j == [job[w] EXCEPT !.at = "committing"]
             k == WriterCall("commit_snapshot", job[w].snap)
  <2>1. j.snap = job[w].snap /\ j.at = "committing"
    BY <1>0 DEF Jobs
  <2>2. CallMatches(j, k)
    BY <2>1, WriterCallChecks DEF CallMatches, WriterCall, Writers
  <2>3. job' = [job EXCEPT ![w] = j] /\ call' = [call EXCEPT ![w] = k]
    BY <1>13 DEF CommitJob, CallFrom
  <2> HIDE DEF j, k
  <2>4. QED
    BY <1>1, <1>3, <1>13, <2>1, <2>2, <2>3 DEF CommitJob
<1>14. QED
  BY <1>5, <1>6, <1>7, <1>8, <1>9, <1>10, <1>11, <1>12, <1>13 DEF JobStep

-----------------------------------------------------------------------------
(* The ownership invariant.                                                  *)

LEMMA ClosedStays ==
  ASSUME NEW c \in Clients, StoreStep(c)
  PROVE  closed' = closed
  BY DEF StoreStep, RequireInProgress, BeginTransaction, Commit,
     InsertSnapshot, InsertSnapshotFails, CopyProfiles, CopyCatalog,
     UpsertProfile, InsertSkip, UpsertCatalog, ForeignKeyFails, MarkFailed,
     FlipCompleted, FlipRefused, MovePointer, ReadPointer, SelectCatalog,
     SelectProfiles, StatementFails, ClosedRaises, Execute, Rollback,
     NoStatement

LEMMA StatementKeepsRows ==
  ASSUME OwnInv, NEW c \in Clients, StatementStep(c)
  PROVE  ~closed' /\ OnlyWorkersCall' /\ OneOwner'
           /\ \A w \in Workers : RowInv(w)'
<1> USE DEF OwnInv, SlotInv, JobInv
<1>0. /\ StoreStep(c)
      /\ job' = job
      /\ c \in Workers
      /\ [Next]_storeVars
      /\ \A d \in Clients : d # c => call'[d] = call[d]
  <2>1. StoreStep(c) /\ job' = job
    BY DEF StatementStep, coordinatorVars
  <2>2. QED
    BY <2>1, StatementProgress, ExecutorOwns DEF Next
<1>1. ~closed' /\ OnlyWorkersCall'
  BY <1>0, ClosedStays DEF OnlyWorkersCall
<1>2. RowInv(c)
  BY <1>0
<1>3. ASSUME Holds(c)'
      PROVE  /\ Own(c)' = Own(c)
             /\ Holds(c) \/ Creating(c)
             /\ Holds(c) \/ disk'.status[Own(c)] = "in_progress"
  <2>1. CASE job[c].at = "opening"
    BY <1>0, <1>3, <2>1, CreatedRow
  <2>2. CASE job[c].at # "opening"
    BY <1>0, <1>3, <2>2 DEF Holds, Own, InBody
  <2>3. QED
    BY <2>1, <2>2
<1>4. RowInv(c)'
  <2>1. CallOfJob(c)'
    BY <1>0, CallOfJobContinues
  <2>2. CreatesRow(c)'
    BY <1>0, CreatedRow DEF CreatesRow, Creating
  <2>3. HoldsRow(c)'
    <3>1. CASE Holds(c)' /\ Holds(c)
      BY <1>0, <1>2, <1>3, <3>1, OwnIsId, RowsStayCommitted
      DEF RowInv, HoldsRow, Exists
    <3>2. CASE Holds(c)' /\ ~Holds(c)
      BY <1>3, <3>2 DEF HoldsRow, Exists
    <3>3. QED
      BY <3>1, <3>2 DEF HoldsRow
  <2>4. OpenRow(c)'
    <3>1. CASE job[c].at # "opening"
      BY <1>0, <3>1, WrittenRow
    <3>2. CASE job[c].at = "opening"
      <4>1. Holds(c)' => call'[c].at = "returned"
        BY <1>0, <3>2 DEF Holds, InBody, BodySteps
      <4>2. Holds(c)' => ~Promoting(c)'
        BY <4>1 DEF Promoting
      <4>3. QED
        BY <1>0, <3>2, <4>2, CreatedRow DEF OpenRow
    <3>3. QED
      BY <3>1, <3>2
  <2>5. QED
    BY <2>1, <2>2, <2>3, <2>4 DEF RowInv
<1>5. \A w \in Workers : RowInv(w)'
  BY <1>0, <1>4, OthersRowInv
<1>6. OneOwner'
  <2> SUFFICES ASSUME NEW v \in Workers, NEW w \in Workers, Holds(v)',
                      Holds(w)', Own(v)' = Own(w)', v # w
               PROVE  FALSE
    BY DEF OneOwner
  <2>1. \A u \in Workers : u # c => /\ Holds(u)' <=> Holds(u)
                                    /\ Own(u)' = Own(u)
    BY <1>0, WorkersAreClients DEF Holds, Own, InBody
  <2>2. ASSUME NEW u \in Workers, u # c, Holds(u)', Holds(c)',
               Own(u)' = Own(c)'
        PROVE  FALSE
    <3>1. Own(u) = Own(c) /\ Holds(u)
      BY <1>3, <2>1, <2>2
    <3>2. ~Holds(c) /\ Creating(c)
      BY <1>0, <1>3, <2>2, <3>1 DEF OneOwner
    <3>3. QED
      BY <1>2, <2>2, <3>1, <3>2 DEF RowInv, CreatesRow, HoldsRow
  <2>3. QED
    BY <2>1, <2>2 DEF OneOwner
<1>7. QED
  BY <1>1, <1>5, <1>6

(* A worker's own step moves no row and gives nobody else's away.            *)
LEMMA PassingKeepsRows ==
  ASSUME OwnInv, NEW w \in Workers, NoStatement,
         \A c \in Clients : c # w => call'[c] = call[c],
         \A v \in Workers : v # w => job'[v] = job[v],
         Holds(w)' => Holds(w) /\ ~Finished(w) /\ Own(w)' = Own(w),
         ~Creating(w)', ~Promoting(w), ~Promoting(w)', CallOfJob(w)'
  PROVE  ~closed' /\ OnlyWorkersCall' /\ OneOwner'
           /\ \A v \in Workers : RowInv(v)'
<1> USE DEF OwnInv, NoStatement
<1>1. ~closed' /\ OnlyWorkersCall'
  BY DEF OnlyWorkersCall
<1>2. \A v \in Workers : v # w => /\ Holds(v)' <=> Holds(v)
                                  /\ Creating(v)' <=> Creating(v)
                                  /\ Finished(v)' <=> Finished(v)
                                  /\ Promoting(v)' <=> Promoting(v)
                                  /\ Own(v)' = Own(v)
                                  /\ CallOfJob(v)' <=> CallOfJob(v)
  BY WorkersAreClients
  DEF Holds, Creating, Finished, Promoting, Own, CallOfJob, InBody
<1>3. OneOwner'
  BY <1>2 DEF OneOwner
<1>4. ASSUME NEW v \in Workers
      PROVE  RowInv(v)'
  <2>1. CASE v = w
    BY <2>1 DEF RowInv, CreatesRow, HoldsRow, OpenRow, Exists
  <2>2. CASE v # w
    BY <1>2, <2>2 DEF RowInv, CreatesRow, HoldsRow, OpenRow, Exists
  <2>3. QED
    BY <2>1, <2>2
<1>5. QED
  BY <1>1, <1>3, <1>4

LEMMA StartHoldsNothing ==
  ASSUME JobInv, NEW w \in Workers, StartRefresh(w)
  PROVE  /\ NoStatement
         /\ \A c \in Clients : c # w => call'[c] = call[c]
         /\ \A v \in Workers : v # w => job'[v] = job[v]
         /\ ~Holds(w)' /\ ~Creating(w)' /\ ~Promoting(w) /\ ~Promoting(w)'
         /\ CallOfJob(w)'
<1> USE DEF JobInv, PointerInv, TxnInv, Typed, TypeOK
<1>0. /\ w \in Clients
      /\ call[w].at \in Ended
  BY WorkersAreClients
  DEF StartRefresh, StartFullRefresh, StartSingleProjectRefresh, WorkerInv,
      BetweenCalls
<1>1. CASE StartFullRefresh(w)
  <2>1. /\ job'[w].at = "opening"
        /\ call'[w].at = "begin"
        /\ call'[w].op = "begin_snapshot"
    BY <1>0, <1>1 DEF StartFullRefresh, NewCall, FirstStep, Readers, NoJob
  <2>2. QED
    BY <1>0, <1>1, <2>1
    DEF StartFullRefresh, Holds, InBody, BodySteps, Creating, Promoting,
        CallOfJob, Ended
<1>2. ASSUME NEW p \in Projects, StartSingleProjectRefresh(w, p)
      PROVE  /\ NoStatement
             /\ \A c \in Clients : c # w => call'[c] = call[c]
             /\ \A v \in Workers : v # w => job'[v] = job[v]
             /\ ~Holds(w)' /\ ~Creating(w)' /\ ~Promoting(w) /\ ~Promoting(w)'
             /\ CallOfJob(w)'
  <2>1. /\ job'[w].at = "reading_current"
        /\ call'[w].at = "read_pointer"
        /\ call'[w].op = "get_current_snapshot_id"
    BY <1>0, <1>2
    DEF StartSingleProjectRefresh, NewCall, FirstStep, Readers, NoJob
  <2>2. QED
    BY <1>0, <1>2, <2>1
    DEF StartSingleProjectRefresh, Holds, InBody, BodySteps, Creating,
        Promoting, CallOfJob, Ended
<1>3. QED
  BY <1>1, <1>2 DEF StartRefresh

LEMMA IdleRows ==
  ASSUME NEW w \in Workers, job[w].at = "idle", call[w] = NoCall
  PROVE  RowInv(w) /\ ~Holds(w)
  BY DEF RowInv, CallOfJob, CreatesRow, Creating, HoldsRow, OpenRow, Holds,
     InBody, BodySteps, NoCall, Steps, TxnSteps, AutoSteps

LEMMA InitOwn == CoordinatorInit => OwnInv
<1> SUFFICES ASSUME CoordinatorInit
             PROVE  OwnInv
  OBVIOUS
<1>1. \A w \in Workers : job[w].at = "idle" /\ call[w] = NoCall
  BY NoJobTyped, WorkersAreClients DEF CoordinatorInit, Init
<1>2. \A w \in Workers : RowInv(w) /\ ~Holds(w)
  BY <1>1, IdleRows
<1>3. ~closed /\ OnlyWorkersCall
  BY DEF CoordinatorInit, Init, OnlyWorkersCall, NoCall, Ended
<1>4. QED
  BY <1>2, <1>3, InitSlot DEF OwnInv, OneOwner

LEMMA JobStepCalls ==
  ASSUME JobInv, NEW w \in Workers, JobStep(w)
  PROVE  \A c \in Clients : c # w => call'[c] = call[c]
<1>1. call \in [Clients -> Calls]
  BY DEF JobInv, PointerInv, TxnInv, Typed, TypeOK
<1>2. QED
  BY <1>1
  DEF JobStep, CheckScope, OpenSingleSnapshot, TryStart, RejectStart,
      StartRaises, EnumerateProjects, CatalogPopulated, WriteProject,
      ProjectWritten, GitLabRequestFails, CommitJob, CompleteJob, AbortEnds,
      BodyRaises, EnumerateForFull, EnumerateForSingle, TargetDisappeared,
      AbortJob, Uncaught, End, CallFrom

LEMMA NextOwn == OwnInv /\ [CoordinatorNext]_vars => OwnInv'
<1> SUFFICES ASSUME OwnInv, [CoordinatorNext]_vars
             PROVE  ~closed' /\ OnlyWorkersCall' /\ OneOwner'
                      /\ \A w \in Workers : RowInv(w)'
  BY NextSlot DEF OwnInv
<1>1. ASSUME NEW c \in Clients, StatementStep(c)
      PROVE  ~closed' /\ OnlyWorkersCall' /\ OneOwner'
               /\ \A w \in Workers : RowInv(w)'
  BY <1>1, StatementKeepsRows
<1>2. ASSUME NEW w \in Workers, StartRefresh(w)
      PROVE  ~closed' /\ OnlyWorkersCall' /\ OneOwner'
               /\ \A v \in Workers : RowInv(v)'
  BY <1>2, StartHoldsNothing, PassingKeepsRows DEF OwnInv, SlotInv
<1>3. ASSUME NEW w \in Workers, JobStep(w)
      PROVE  ~closed' /\ OnlyWorkersCall' /\ OneOwner'
               /\ \A v \in Workers : RowInv(v)'
  <2>1. /\ \A v \in Workers : v # w => job'[v] = job[v]
        /\ \A c \in Clients : c # w => call'[c] = call[c]
    <3>1. \A v \in Workers : v # w => job'[v] = job[v]
      BY <1>3, JobStepKnows DEF OwnInv, SlotInv
    <3>2. \A c \in Clients : c # w => call'[c] = call[c]
      BY <1>3, JobStepCalls DEF OwnInv, SlotInv
    <3>3. QED
      BY <3>1, <3>2
  <2>2. QED
    BY <1>3, <2>1, JobStepPassesRow, PassingKeepsRows DEF OwnInv, SlotInv
<1>4. CASE Restart
  <2>1. /\ \A w \in Workers : job'[w].at = "idle" /\ call'[w] = NoCall
        /\ \A c \in Clients : call'[c] = NoCall
        /\ ~closed'
    BY <1>4, NoJobTyped, WorkersAreClients DEF Restart, RestartStore
  <2>2. \A w \in Workers : RowInv(w)' /\ ~Holds(w)'
    BY <2>1
    DEF RowInv, CallOfJob, CreatesRow, Creating, HoldsRow, OpenRow, Holds,
        InBody, BodySteps, NoCall, Steps, TxnSteps, AutoSteps
  <2>3. OnlyWorkersCall'
    BY <2>1 DEF OnlyWorkersCall, NoCall, Ended
  <2>4. QED
    BY <2>1, <2>2, <2>3 DEF OneOwner
<1>5. CASE UNCHANGED vars
  BY <1>5
  DEF vars, coordinatorVars, storeVars, OwnInv, OnlyWorkersCall, OneOwner,
      RowInv, CallOfJob, CreatesRow, HoldsRow, OpenRow, Holds, Creating,
      Finished, Promoting, Own, InBody, Exists
<1>6. QED
  BY <1>1, <1>2, <1>3, <1>4, <1>5 DEF CoordinatorNext

-----------------------------------------------------------------------------
(* The pointer names a completed snapshot.                                   *)

CurrentInv == OwnInv /\ CurrentCompleted

CurrentDone(t) == t.current # NoSnapshot => t.status[t.current] = "completed"

LEMMA StatementKeepsCurrent ==
  ASSUME CurrentInv, NEW c \in Clients, StatementStep(c)
  PROVE  CurrentDone(db')
<1> USE DEF CurrentInv, OwnInv, SlotInv, JobInv, PointerInv, TxnInv, Typed,
    TypeOK
<1>0. /\ StoreStep(c)
      /\ call[c].at \in Steps
      /\ CallShape(call[c])
      /\ c \in Workers
      /\ CurrentDone(db) /\ CurrentDone(disk)
      /\ db.current \in Ids \cup {NoSnapshot}
  BY StatementProgress, ExecutorOwns
  DEF StatementStep, CallsOK, CurrentCompleted, CurrentDone, Tables, OptIds
<1>1. ASSUME call[c].op \in {"abort_snapshot", "commit_snapshot"}
      PROVE  /\ call[c].snap \in Ids
             /\ db.status[call[c].snap] = IF Promoting(c) THEN "completed"
                                                          ELSE "in_progress"
  <2>1. Holds(c) /\ ~Finished(c) /\ Own(c) = call[c].snap
    BY <1>0, <1>1, ExecutorOwns DEF Writers
  <2>2. QED
    BY <1>0, <2>1, OwnIsId DEF RowInv, OpenRow
<1>2. CASE InsertSnapshot(c)
  <2>1. PICK n \in Ids :
          /\ db.status[n] = "absent"
          /\ db' = [db EXCEPT !.status[n] = "in_progress",
                              !.parent[n] = call[c].base]
    BY <1>2 DEF InsertSnapshot, IsNextId, Execute
  <2>2. QED
    BY <1>0, <2>1 DEF CurrentDone, Tables
<1>3. CASE MarkFailed(c)
  <2>1. call[c].op = "abort_snapshot" /\ ~Promoting(c)
    BY <1>0, <1>3 DEF MarkFailed, At, CallShape, Promoting
  <2>2. db.status[call[c].snap] = "in_progress"
    BY <1>1, <2>1
  <2>3. /\ db'.current = db.current
        /\ \A s \in Ids : s # call[c].snap => db'.status[s] = db.status[s]
    BY <1>3 DEF MarkFailed, Execute, Tables
  <2>4. QED
    BY <1>0, <2>2, <2>3 DEF CurrentDone
<1>4. CASE FlipCompleted(c)
  <2>1. call[c].op = "commit_snapshot"
    BY <1>0, <1>4 DEF FlipCompleted, At, CallShape
  <2>2. /\ db'.current = db.current
        /\ \A s \in Ids : db'.status[s] \in {db.status[s], "completed"}
    BY <1>4 DEF FlipCompleted, Execute, Tables
  <2>3. QED
    BY <1>0, <2>2 DEF CurrentDone
<1>5. CASE MovePointer(c)
  <2>1. call[c].op = "commit_snapshot" /\ Promoting(c)
    BY <1>0, <1>5 DEF MovePointer, At, CallShape, Promoting
  <2>2. db'.current = call[c].snap /\ db'.status = db.status
    BY <1>5 DEF MovePointer, Execute, Tables
  <2>3. QED
    BY <1>1, <2>1, <2>2 DEF CurrentDone
<1>6. CASE /\ ~InsertSnapshot(c) /\ ~MarkFailed(c) /\ ~FlipCompleted(c)
           /\ ~MovePointer(c)
  <2>1. db'.status = db.status \/ db' = disk
    BY <1>0, <1>6, StatusChange DEF Rollback
  <2>2. db'.current = db.current \/ db' = disk
    BY <1>0, <1>6
    DEF StoreStep, RequireInProgress, BeginTransaction, Commit,
        InsertSnapshotFails, CopyProfiles, CopyCatalog, UpsertProfile,
        InsertSkip, UpsertCatalog, ForeignKeyFails, FlipRefused, ReadPointer,
        SelectCatalog, SelectProfiles, StatementFails, ClosedRaises, Execute,
        Rollback, NoStatement, Tables
  <2>3. QED
    BY <1>0, <2>1, <2>2 DEF CurrentDone
<1>7. QED
  BY <1>2, <1>3, <1>4, <1>5, <1>6

LEMMA NextCurrent == CurrentInv /\ [CoordinatorNext]_vars => CurrentInv'
<1> SUFFICES ASSUME CurrentInv, [CoordinatorNext]_vars
             PROVE  CurrentDone(db)' /\ CurrentDone(disk)'
  BY NextOwn DEF CurrentInv, CurrentCompleted, CurrentDone
<1>0. CurrentDone(db) /\ CurrentDone(disk)
  BY DEF CurrentInv, CurrentCompleted, CurrentDone
<1>1. ASSUME NEW c \in Clients, StatementStep(c)
      PROVE  CurrentDone(db)' /\ CurrentDone(disk)'
  <2>1. CurrentDone(db)'
    BY <1>1, StatementKeepsCurrent DEF CurrentDone
  <2>2. disk' = disk \/ disk' = db'
    BY <1>1, DiskChange DEF StatementStep, CurrentInv, OwnInv, SlotInv, JobInv
  <2>3. QED
    BY <1>0, <2>1, <2>2 DEF CurrentDone
<1>2. ASSUME NEW w \in Workers, StartRefresh(w) \/ JobStep(w)
      PROVE  CurrentDone(db)' /\ CurrentDone(disk)'
  <2>1. NoStatement
    BY <1>2, StartHoldsNothing, JobStepPassesRow
    DEF CurrentInv, OwnInv, SlotInv
  <2>2. QED
    BY <1>0, <2>1 DEF NoStatement, CurrentDone
<1>3. CASE Restart
  BY <1>0, <1>3 DEF Restart, RestartStore, CurrentDone
<1>4. CASE UNCHANGED vars
  BY <1>0, <1>4 DEF vars, storeVars, CurrentDone
<1>5. QED
  BY <1>1, <1>2, <1>3, <1>4 DEF CoordinatorNext

LEMMA InitCurrent == CoordinatorInit => CurrentInv
  BY InitOwn
  DEF CurrentInv, CurrentCompleted, CoordinatorInit, Init, EmptyTables

(* Readers are never pointed to a snapshot that is in progress, failed or    *)
(* undone, in the uncommitted tables either, whoever refreshes and whatever  *)
(* fails: abort_snapshot's unconditional UPDATE only ever reaches the row of *)
(* the refresh that calls it.                                                *)
THEOREM CurrentSafe == CoordinatorSpec => []CurrentCompleted
<1>1. CurrentInv => CurrentCompleted
  BY DEF CurrentInv
<1>2. QED
  BY <1>1, InitCurrent, NextCurrent, PTL DEF CoordinatorSpec

(* The committed pointer moves only for the job that holds the slot: a       *)
(* rejected, aborted or failing refresh publishes nothing.                   *)
THEOREM PublisherSafe == CoordinatorSpec => OnlyRunningJobPublishes
<1> DEFINE A == disk'.current # disk.current => disk'.current = running
<1>1. OwnInv /\ [CoordinatorNext]_vars => [A]_disk
  <2> SUFFICES ASSUME OwnInv, [CoordinatorNext]_vars,
                      disk'.current # disk.current
               PROVE  disk'.current = running
    OBVIOUS
  <2> USE DEF OwnInv, SlotInv, JobInv, PointerInv, TxnInv
  <2>1. ASSUME NEW w \in Workers, StartRefresh(w) \/ JobStep(w)
        PROVE  FALSE
    BY <2>1, StartHoldsNothing, JobStepPassesRow DEF NoStatement
  <2>2. ASSUME NEW c \in Clients, StatementStep(c)
        PROVE  disk'.current = running
    <3>0. StoreStep(c) /\ disk' = db' /\ (~inTxn \/ Commit(c))
      BY <2>2, DiskChange DEF StatementStep
    <3>1. db' = db \/ db = disk
      BY <3>0 DEF Commit, TransactionOwned
    <3>2. CASE db'.current = db.current
      <4>1. PICK d \in Clients : /\ Promoting(d)
                                /\ call[d].at = "commit"
                                /\ call[d].snap = db.current
        BY <3>0, <3>2 DEF MovedPointerOwned
      <4>2. call[d].at \in Steps /\ call[d].op = "commit_snapshot"
        BY <4>1 DEF Promoting, Steps, TxnSteps
      <4>3. d \in Workers
        BY <4>2, ExecutorOwns
      <4>4. job[d].at = "committing" /\ call[d].snap = job[d].snap
        BY <4>2, <4>3 DEF RowInv, CallOfJob
      <4>5. QED
        BY <3>0, <3>2, <4>1, <4>3, <4>4 DEF SingleFlight, InBody, BodySteps
    <3>3. CASE db'.current # db.current
      <4>1. ~inTxn /\ db = disk
        BY <3>0, <3>3 DEF Commit, TransactionOwned
      <4>2. MovePointer(c)
        BY <3>0, <3>3, <4>1
        DEF StoreStep, RequireInProgress, BeginTransaction, Commit,
            InsertSnapshot, InsertSnapshotFails, CopyProfiles, CopyCatalog,
            UpsertProfile, InsertSkip, UpsertCatalog, ForeignKeyFails,
            MarkFailed, FlipCompleted, FlipRefused, ReadPointer,
            SelectCatalog, SelectProfiles, StatementFails, ClosedRaises,
            Execute, Rollback, NoStatement, Typed, TypeOK, Tables
      <4>3. QED
        BY <4>1, <4>2 DEF MovePointer, At, TxnSteps, TransactionOwned
    <3>4. QED
      BY <3>2, <3>3
  <2>3. CASE Restart \/ UNCHANGED vars
    BY <2>3 DEF Restart, RestartStore, vars, storeVars
  <2>4. QED
    BY <2>1, <2>2, <2>3 DEF CoordinatorNext
<1>2. QED
  BY <1>1, InitOwn, NextOwn, PTL DEF CoordinatorSpec, OnlyRunningJobPublishes

-----------------------------------------------------------------------------
(* Published snapshots never change.                                         *)

SameRows(t, u, s) ==
  /\ t.status[s] = u.status[s]
  /\ t.profile[s] = u.profile[s]
  /\ t.catalog[s] = u.catalog[s]
  /\ t.skips[s] = u.skips[s]

(* Nothing uncommitted touches a published snapshot.                         *)
PublishedInv ==
  /\ OwnInv
  /\ \A s \in Ids : Published(s) => SameRows(db, disk, s)

(* A statement changes rows of the snapshot it names, of the one it inserts, *)
(* or rolls back.                                                            *)
LEMMA RowsWritten ==
  ASSUME PointerInv, NEW c \in Clients, StoreStep(c), NEW s \in Ids,
         db.status[s] # "absent",
         call[c].op \in Writers \/ call[c].op = "begin_snapshot" =>
           s # call[c].snap
  PROVE  SameRows(db', db, s) \/ db' = disk
<1> USE DEF PointerInv, TxnInv, Typed, TypeOK, Tables, At, SameRows, Writers
<1>0. CallShape(call[c])
  BY DEF CallsOK
<1>1. CASE InsertSnapshot(c)
  <2>1. PICK n \in Ids :
          /\ db.status[n] = "absent"
          /\ db' = [db EXCEPT !.status[n] = "in_progress",
                              !.parent[n] = call[c].base]
    BY <1>1 DEF InsertSnapshot, IsNextId, Execute
  <2>2. QED
    BY <2>1
<1>2. CASE CopyProfiles(c) \/ CopyCatalog(c)
  BY <1>0, <1>2 DEF CopyProfiles, CopyCatalog, CallShape, Execute
<1>3. CASE UpsertProfile(c)
  <2>1. call[c].snap # s
    BY <1>0, <1>3 DEF UpsertProfile, CallShape
  <2>2. QED
    BY <1>3, <2>1 DEF UpsertProfile, Execute
<1>4. CASE InsertSkip(c) \/ UpsertCatalog(c)
  BY <1>0, <1>4 DEF InsertSkip, UpsertCatalog, CallShape, Execute
<1>5. CASE MarkFailed(c) \/ FlipCompleted(c)
  BY <1>0, <1>5 DEF MarkFailed, FlipCompleted, CallShape, Execute
<1>6. CASE MovePointer(c)
  BY <1>6 DEF MovePointer, Execute
<1>7. QED
  BY <1>1, <1>2, <1>3, <1>4, <1>5, <1>6
  DEF StoreStep, RequireInProgress, BeginTransaction, Commit,
      InsertSnapshotFails, ForeignKeyFails, FlipRefused, ReadPointer,
      SelectCatalog, SelectProfiles, StatementFails, ClosedRaises, Rollback,
      NoStatement

LEMMA PublishedRowsKept ==
  ASSUME PublishedInv, NEW c \in Clients, StatementStep(c), NEW s \in Ids,
         Published(s)
  PROVE  SameRows(db', disk, s)
<1> USE DEF PublishedInv, OwnInv, SlotInv, JobInv
<1>0. /\ StoreStep(c)
      /\ call[c].at \in Steps
      /\ c \in Workers
      /\ SameRows(db, disk, s)
  BY StatementProgress, ExecutorOwns DEF StatementStep
<1>1. CASE call[c].op \in Writers
  <2>1. s # call[c].snap
    <3>1. Holds(c) /\ ~Finished(c) /\ Own(c) = call[c].snap
      BY <1>0, <1>1, ExecutorOwns
    <3>2. QED
      BY <1>0, <3>1 DEF RowInv, OpenRow, Published
  <2>2. call[c].op # "begin_snapshot"
    BY <1>1 DEF Writers
  <2>3. QED
    BY <1>0, <2>1, <2>2, RowsWritten DEF SameRows, Published
<1>2. CASE call[c].op = "begin_snapshot"
  <2>1. CASE Creating(c)
    <3>1. s # call[c].snap
      BY <1>0, <2>1 DEF RowInv, CreatesRow, Creating, Own, Exists, Published
    <3>2. QED
      BY <1>0, <1>2, <3>1, RowsWritten DEF SameRows, Published, Writers
  <2>2. CASE ~Creating(c)
    <3>1. job[c].at = "opening"
      BY <1>0, <1>2 DEF RowInv, CallOfJob
    <3>2. call[c].at \in {"begin", "insert"}
      BY <1>0, <2>2, <3>1
      DEF WorkerInv, OpensSnapshot, BeginSteps, Creating
    <3>3. CASE InsertSnapshot(c)
      <4>1. PICK n \in Ids :
              /\ db.status[n] = "absent"
              /\ db' = [db EXCEPT !.status[n] = "in_progress",
                                  !.parent[n] = call[c].base]
        BY <3>3 DEF InsertSnapshot, IsNextId, Execute
      <4>2. QED
        BY <1>0, <4>1 DEF SameRows, Published, PointerInv, TxnInv, Typed,
           TypeOK, Tables
    <3>4. CASE ~InsertSnapshot(c)
      <4>1. db' = db \/ db' = disk
        BY <1>0, <3>2, <3>4
        DEF StoreStep, RequireInProgress, BeginTransaction, Commit,
            InsertSnapshotFails, CopyProfiles, CopyCatalog, UpsertProfile,
            InsertSkip, UpsertCatalog, ForeignKeyFails, MarkFailed,
            FlipCompleted, FlipRefused, MovePointer, ReadPointer,
            SelectCatalog, SelectProfiles, StatementFails, ClosedRaises, At,
            Rollback, NoStatement
      <4>2. QED
        BY <1>0, <4>1 DEF SameRows
    <3>5. QED
      BY <3>3, <3>4
  <2>3. QED
    BY <2>1, <2>2
<1>3. CASE call[c].op \notin Writers /\ call[c].op # "begin_snapshot"
  BY <1>0, <1>3, RowsWritten DEF SameRows, Published
<1>4. QED
  BY <1>1, <1>2, <1>3

LEMMA NextPublished == PublishedInv /\ [CoordinatorNext]_vars => PublishedInv'
<1> SUFFICES ASSUME PublishedInv, [CoordinatorNext]_vars, NEW s \in Ids,
                    Published(s)'
             PROVE  SameRows(db, disk, s)'
  BY NextOwn DEF PublishedInv
<1> USE DEF PublishedInv, OwnInv, SlotInv, JobInv
<1>1. ASSUME NEW c \in Clients, StatementStep(c)
      PROVE  SameRows(db, disk, s)'
  <2>1. CASE disk' = db'
    BY <2>1 DEF SameRows
  <2>2. CASE disk' # db'
    <3>1. disk' = disk
      BY <1>1, <2>2, DiskChange DEF StatementStep
    <3>2. SameRows(db', disk, s)
      BY <1>1, <3>1, PublishedRowsKept DEF Published
    <3>3. QED
      BY <3>1, <3>2 DEF SameRows
  <2>3. QED
    BY <2>1, <2>2
<1>2. ASSUME NEW w \in Workers, StartRefresh(w) \/ JobStep(w)
      PROVE  SameRows(db, disk, s)'
  <2>1. NoStatement
    BY <1>2, StartHoldsNothing, JobStepPassesRow
  <2>2. QED
    BY <2>1 DEF NoStatement, SameRows, Published
<1>3. CASE Restart
  BY <1>3 DEF Restart, RestartStore, SameRows
<1>4. CASE UNCHANGED vars
  BY <1>4 DEF vars, storeVars, SameRows, Published
<1>5. QED
  BY <1>1, <1>2, <1>3, <1>4 DEF CoordinatorNext

LEMMA InitPublished == CoordinatorInit => PublishedInv
  BY InitOwn DEF PublishedInv, CoordinatorInit, Init, SameRows

(* Once a snapshot is published, no late write, retry, rollback or abort of  *)
(* any refresh changes its rows or its status: what a reader selects after   *)
(* it took the pointer is one whole snapshot.                                *)
THEOREM PublishedSafe == CoordinatorSpec => PublishedRowsImmutable
<1> DEFINE A == \A s \in Ids : Published(s) =>
                  /\ Published(s)'
                  /\ disk'.profile[s] = disk.profile[s]
                  /\ disk'.catalog[s] = disk.catalog[s]
                  /\ disk'.skips[s] = disk.skips[s]
<1>1. PublishedInv /\ [CoordinatorNext]_vars => [A]_disk
  <2> SUFFICES ASSUME PublishedInv, [CoordinatorNext]_vars, disk' # disk,
                      NEW s \in Ids, Published(s)
               PROVE  SameRows(disk', disk, s)
    BY DEF SameRows, Published
  <2>1. ASSUME NEW c \in Clients, StatementStep(c)
        PROVE  SameRows(disk', disk, s)
    <3>1. disk' = db'
      BY <2>1, DiskChange
      DEF StatementStep, PublishedInv, OwnInv, SlotInv, JobInv
    <3>2. QED
      BY <2>1, <3>1, PublishedRowsKept
  <2>2. ASSUME NEW w \in Workers, StartRefresh(w) \/ JobStep(w)
        PROVE  FALSE
    BY <2>2, StartHoldsNothing, JobStepPassesRow
    DEF NoStatement, PublishedInv, OwnInv, SlotInv
  <2>3. CASE Restart \/ UNCHANGED vars
    BY <2>3 DEF Restart, RestartStore, vars, storeVars
  <2>4. QED
    BY <2>1, <2>2, <2>3 DEF CoordinatorNext
<1>2. QED
  BY <1>1, InitPublished, NextPublished, PTL
  DEF CoordinatorSpec, PublishedRowsImmutable

-----------------------------------------------------------------------------
(* What a refresh reports is what happened.                                  *)

(* No store call of worker w's refresh will touch its snapshot any more.     *)
Settled(w) ==
  \/ job[w].at = "idle" /\ job[w].snap # NoSnapshot
  \/ Holds(w) /\ Finished(w)

Succeeded(w) ==
  IF job[w].at = "idle" THEN job[w].result = "ok"
  ELSE job[w].at = "committing" /\ call[w].at = "returned"

StatusesOf(s) == {db.status[s], disk.status[s]}

SettledRow(w) ==
  Settled(w) =>
    /\ Own(w) \in Ids
    /\ Exists(disk, Own(w))
    /\ \A v \in Workers : v # w /\ Holds(v) => Own(v) # Own(w)
    /\ IF Succeeded(w) THEN StatusesOf(Own(w)) = {"completed"}
                       ELSE "completed" \notin StatusesOf(Own(w))

(* A refresh that has no snapshot yet has none to report on, and one that is *)
(* aborting will not report success.                                         *)
ReportsLater(w) ==
  /\ job[w].at \in {"reading_current", "checking_scope", "opening"} =>
       job[w].snap = NoSnapshot
  /\ job[w].at = "aborting" => job[w].result # "ok"

OutcomeInv ==
  /\ OwnInv
  /\ \A w \in Workers : SettledRow(w) /\ ReportsLater(w)

(* A statement of somebody else leaves the status of a row alone.            *)
LEMMA ForeignStatement ==
  ASSUME OwnInv, NEW c \in Clients, StatementStep(c), NEW s \in Ids,
         Exists(disk, s), Holds(c) => Own(c) # s
  PROVE  db'.status[s] \in StatusesOf(s) /\ disk'.status[s] \in StatusesOf(s)
<1> USE DEF OwnInv, SlotInv, JobInv, PointerInv, TxnInv, Typed, TypeOK
<1>0. /\ StoreStep(c)
      /\ CallShape(call[c])
      /\ call[c].at \in Steps
      /\ db.status[s] # "absent"
  BY StatementProgress
  DEF StatementStep, CallsOK, Exists, PendingStatuses, MayBecome
<1>1. call[c].op \in Writers => call[c].snap # s
  BY <1>0, ExecutorOwns
<1>2. db'.status[s] \in StatusesOf(s)
  <2>1. CASE InsertSnapshot(c)
    BY <1>0, <2>1 DEF InsertSnapshot, IsNextId, Execute, Tables, StatusesOf
  <2>2. CASE MarkFailed(c) \/ FlipCompleted(c)
    BY <1>0, <1>1, <2>2 DEF MarkFailed, FlipCompleted, At, CallShape, Execute,
       Tables, Writers, StatusesOf
  <2>3. QED
    BY <1>0, <2>1, <2>2, StatusChange DEF Rollback, StatusesOf
<1>3. disk' = disk \/ disk' = db'
  BY <1>0, DiskChange
<1>4. QED
  BY <1>2, <1>3 DEF StatusesOf

(* The statement that ends the last call of a refresh settles its row.       *)
LEMMA LastStatement ==
  ASSUME OwnInv, NEW w \in Workers, StatementStep(w), Settled(w)',
         job[w].at \in {"committing", "aborting", "rejecting"}
  PROVE  IF Succeeded(w)' THEN StatusesOf(Own(w))' = {"completed"}
                          ELSE "completed" \notin StatusesOf(Own(w))'
<1> USE DEF OwnInv, SlotInv, JobInv, PointerInv, TxnInv, Typed, TypeOK
<1>0. /\ StoreStep(w)
      /\ job'[w] = job[w]
      /\ w \in Clients
      /\ call[w].at \in Steps
      /\ CallShape(call[w])
      /\ Own(w)' = Own(w)
      /\ Own(w) = job[w].snap
      /\ Holds(w) /\ ~Finished(w)
      /\ call'[w].at \in Ended
  <2>1. StoreStep(w) /\ job'[w] = job[w] /\ w \in Clients
    BY WorkersAreClients DEF StatementStep, coordinatorVars
  <2>2. call[w].at \in Steps
    BY <2>1, StatementProgress
  <2>3. QED
    BY <2>1, <2>2, StepsNotEnded
    DEF Own, Holds, Finished, InBody, BodySteps, CallsOK, Settled
<1>1. /\ Own(w) \in Ids
      /\ Own(w) = call[w].snap
      /\ call[w].op \in {"commit_snapshot", "abort_snapshot"}
      /\ disk.status[Own(w)] = "in_progress"
      /\ db.status[Own(w)] = IF Promoting(w) THEN "completed"
                                             ELSE "in_progress"
      /\ job[w].at = "committing" <=> call[w].op = "commit_snapshot"
  BY <1>0, OwnIsId DEF RowInv, CallOfJob, OpenRow
<1>2. disk' = disk \/ disk' = db'
  BY <1>0, DiskChange
<1>3. Succeeded(w)' <=> job[w].at = "committing" /\ call'[w].at = "returned"
  BY <1>0 DEF Succeeded
<1>4. CASE Raise(w)
  <2>1. ~Succeeded(w)'
    BY <1>0, <1>3, <1>4, OutcomeTyped DEF Raise
  <2>2. db'.status[Own(w)] # "completed"
    <3>1. ~InsertSnapshot(w)
      BY <1>0, <1>1 DEF InsertSnapshot, At, CallShape
    <3>2. ~MarkFailed(w)
      BY <1>0, <1>4, OutcomeTyped DEF MarkFailed, Return, Raise
    <3>3. ~FlipCompleted(w)
      BY <1>0, StepsNotEnded DEF FlipCompleted, Goto, Calls, Ended
    <3>4. CASE Promoting(w)
      <4>1. Rollback
        BY <1>0, <1>4, <3>4, OutcomeTyped
        DEF StoreStep, RequireInProgress, BeginTransaction, Commit,
            InsertSnapshot, InsertSnapshotFails, CopyProfiles, CopyCatalog,
            UpsertProfile, InsertSkip, UpsertCatalog, ForeignKeyFails,
            MarkFailed, FlipCompleted, FlipRefused, MovePointer, ReadPointer,
            SelectCatalog, SelectProfiles, StatementFails, ClosedRaises, At,
            Promoting, Return, Raise, Goto, TxnSteps, Calls
      <4>2. QED
        BY <1>1, <4>1 DEF Rollback
    <3>5. CASE ~Promoting(w)
      BY <1>0, <1>1, <3>1, <3>2, <3>3, <3>5, StatusChange DEF Rollback
    <3>6. QED
      BY <3>4, <3>5
  <2>3. QED
    BY <1>0, <1>1, <1>2, <2>1, <2>2 DEF StatusesOf
<1>5. CASE Commit(w)
  <2>1. call[w].op = "commit_snapshot" /\ call'[w].at = "returned"
    BY <1>0, <1>1, <1>5, OutcomeTyped DEF Commit, At, CallShape, Return
  <2>2. Promoting(w) /\ db' = db /\ disk' = db
    BY <1>5, <2>1 DEF Commit, At, Promoting
  <2>3. QED
    BY <1>0, <1>1, <1>3, <2>1, <2>2 DEF StatusesOf
<1>6. CASE MarkFailed(w)
  <2>1. call[w].op = "abort_snapshot"
    BY <1>0, <1>6 DEF MarkFailed, At, CallShape
  <2>2. db'.status[Own(w)] # "completed"
    BY <1>1, <1>6, <2>1 DEF MarkFailed, Execute, Tables
  <2>3. QED
    BY <1>0, <1>1, <1>2, <1>3, <2>1, <2>2 DEF StatusesOf
<1>7. Raise(w) \/ Commit(w) \/ MarkFailed(w)
  <2>1. ~ RequireInProgress(w) \/ Raise(w)
    BY <1>0, <1>1 DEF RequireInProgress, AfterCheck, Goto, Ended, Calls
  <2>2. ~ BeginTransaction(w) \/ Raise(w)
    BY <1>0, <1>1 DEF BeginTransaction, AfterBegin, Goto, Ended, Calls
  <2>3. ~ FlipCompleted(w) /\ ~ MovePointer(w) /\ ~ UpsertCatalog(w)
    BY <1>0 DEF FlipCompleted, MovePointer, UpsertCatalog, Goto, Ended, Calls
  <2>4. /\ ~ InsertSnapshot(w) /\ ~ CopyProfiles(w) /\ ~ CopyCatalog(w)
        /\ ~ UpsertProfile(w) /\ ~ InsertSkip(w)
        /\ ~ ReadPointer(w) /\ ~ SelectCatalog(w) /\ ~ SelectProfiles(w)
    BY <1>0, <1>1
    DEF InsertSnapshot, CopyProfiles, CopyCatalog, UpsertProfile, InsertSkip,
        ReadPointer, SelectCatalog, SelectProfiles, At, CallShape, Readers
  <2>5. QED
    BY <1>0, <2>1, <2>2, <2>3, <2>4
    DEF StoreStep, InsertSnapshotFails, ForeignKeyFails, FlipRefused,
        StatementFails, ClosedRaises
<1>8. QED
  BY <1>4, <1>5, <1>6, <1>7

(* Somebody else's refresh never comes to hold the row of a settled one.     *)
LEMMA SettledAlone ==
  ASSUME OutcomeInv, NEW c \in Clients, StatementStep(c),
         NEW w \in Workers, NEW v \in Workers, v # w, Settled(w), Holds(v)'
  PROVE  Own(v)' # Own(w)
<1> USE DEF OutcomeInv, OwnInv, SlotInv, JobInv
<1>0. /\ job'[v] = job[v]
      /\ \A d \in Clients : d # c => call'[d] = call[d]
      /\ v \in Clients /\ w \in Clients
      /\ Exists(disk, Own(w))
      /\ Holds(v) => Own(v) # Own(w)
  BY StatementProgress, WorkersAreClients
  DEF StatementStep, coordinatorVars, SettledRow
<1>1. CASE Holds(v) /\ job[v].at # "opening"
  BY <1>0, <1>1 DEF Own
<1>2. CASE v # c
  <2>1. call'[v] = call[v]
    BY <1>0, <1>2
  <2>2. QED
    BY <1>0, <2>1 DEF Own, Holds, InBody
<1>3. CASE v = c /\ job[v].at = "opening"
  <2>1. Creating(v) /\ Own(v)' = Own(v)
    BY <1>3, CreatedRow
  <2>2. QED
    BY <1>0, <2>1 DEF RowInv, CreatesRow
<1>4. QED
  BY <1>0, <1>1, <1>2, <1>3 DEF Holds, InBody

LEMMA StatementOutcome ==
  ASSUME OutcomeInv, NEW c \in Clients, StatementStep(c), NEW w \in Workers
  PROVE  SettledRow(w)' /\ ReportsLater(w)'
<1> USE DEF OutcomeInv, OwnInv, SlotInv, JobInv
<1>0. /\ StoreStep(c)
      /\ job'[w] = job[w]
      /\ \A d \in Clients : d # c => call'[d] = call[d]
      /\ c \in Workers /\ w \in Clients
      /\ call[c].at \in Steps
      /\ [Next]_storeVars
      /\ OneOwner'
      /\ RowInv(w)'
  <2>1. StoreStep(c) /\ job' = job
    BY DEF StatementStep, coordinatorVars
  <2>2. call[c].at \in Steps
    BY <2>1, StatementProgress
  <2>3. QED
    BY <2>1, <2>2, StatementProgress, ExecutorOwns, WorkersAreClients,
       StatementKeepsRows DEF Next
<1>1. ReportsLater(w)'
  BY <1>0 DEF ReportsLater
<1>2. ASSUME Settled(w)'
      PROVE  SettledRow(w)'
  <2>1. CASE Settled(w) /\ w # c
    <3>1. /\ Own(w)' = Own(w)
          /\ Succeeded(w)' <=> Succeeded(w)
      BY <1>0, <2>1 DEF Own, Succeeded
    <3>2. /\ Own(w) \in Ids
          /\ Exists(disk, Own(w))
          /\ Holds(c) => Own(c) # Own(w)
          /\ IF Succeeded(w) THEN StatusesOf(Own(w)) = {"completed"}
                             ELSE "completed" \notin StatusesOf(Own(w))
      BY <1>0, <2>1 DEF SettledRow
    <3>3. Exists(disk', Own(w))
      BY <1>0, <3>2, RowsStayCommitted
    <3>4. /\ db'.status[Own(w)] \in StatusesOf(Own(w))
          /\ disk'.status[Own(w)] \in StatusesOf(Own(w))
      BY <3>2, ForeignStatement
    <3>5. \A v \in Workers : v # w /\ Holds(v)' => Own(v)' # Own(w)'
      BY <2>1, <3>1, SettledAlone
    <3>6. IF Succeeded(w)' THEN StatusesOf(Own(w))' = {"completed"}
                           ELSE "completed" \notin StatusesOf(Own(w))'
      BY <3>1, <3>2, <3>4 DEF StatusesOf
    <3>7. QED
      BY <3>1, <3>2, <3>3, <3>5, <3>6 DEF SettledRow, Exists
  <2>2. CASE w = c
    <3>1. job[w].at # "idle"
      BY <1>0, <2>2, StepsNotEnded DEF WorkerInv, BetweenCalls
    <3>2. Holds(w)' /\ Finished(w)'
      BY <1>0, <1>2, <3>1 DEF Settled
    <3>3. job[w].at \in {"committing", "aborting", "rejecting"}
      BY <1>0, <3>2 DEF Finished
    <3>4. Own(w)' = Own(w) /\ Holds(w)
      BY <1>0, <3>3 DEF Own, Holds, InBody, BodySteps
    <3>5. Own(w)' \in Ids
      BY <3>4, OwnIsId
    <3>6. Exists(disk, Own(w))'
      BY <1>0, <3>2 DEF RowInv, HoldsRow
    <3>7. \A v \in Workers : v # w /\ Holds(v)' => Own(v)' # Own(w)'
      BY <1>0, <3>2 DEF OneOwner
    <3>8. IF Succeeded(w)' THEN StatusesOf(Own(w))' = {"completed"}
                           ELSE "completed" \notin StatusesOf(Own(w))'
      BY <1>2, <2>2, <3>3, LastStatement
    <3>9. QED
      BY <3>5, <3>6, <3>7, <3>8 DEF SettledRow
  <2>3. CASE ~Settled(w) /\ w # c
    BY <1>0, <1>2, <2>3 DEF Settled, Holds, Finished, InBody
  <2>4. QED
    BY <2>1, <2>2, <2>3
<1>3. QED
  BY <1>1, <1>2 DEF SettledRow

(* How a refresh ends: with a result that says whether its last store call   *)
(* succeeded, or early, its snapshot left in progress.                       *)
EndsWith(w, result) ==
  /\ End(w, result)
  /\ job[w].snap # NoSnapshot =>
       /\ job[w].at # "opening"
       /\ Holds(w)
       /\ \/ Finished(w) /\ (result = "ok" <=> Succeeded(w))
          \/ ~Finished(w) /\ result # "ok"

LEMMA JobStepSettles ==
  ASSUME JobInv, NEW w \in Workers, ReportsLater(w), JobStep(w)
  PROVE  \/ \E r : EndsWith(w, r)
         \/ ~Settled(w)' /\ ReportsLater(w)'
<1> USE DEF JobInv
<1>0. /\ job[w] \in Jobs
      /\ job \in [Workers -> Jobs]
      /\ call \in [Clients -> Calls]
      /\ w \in Clients
      /\ ReportsLater(w)
  BY WorkersAreClients DEF PointerInv, TxnInv, Typed, TypeOK
<1>1. CASE CheckScope(w) \/ OpenSingleSnapshot(w)
  <2>1. ASSUME End(w, "not_in_scope"),
               job[w].at \in {"reading_current", "checking_scope"}
        PROVE  EndsWith(w, "not_in_scope")
    BY <1>0, <2>1 DEF EndsWith, ReportsLater
  <2>2. ASSUME job'[w].at \in {"checking_scope", "opening"},
               job'[w].snap = NoSnapshot, call'[w].at \notin Ended
        PROVE  ~Settled(w)' /\ ReportsLater(w)'
    BY <2>2 DEF Settled, ReportsLater, Finished
  <2>3. CASE CheckScope(w)
    <3>1. CASE End(w, "not_in_scope")
      BY <1>1, <2>1, <2>3, <3>1 DEF CheckScope
    <3>2. CASE ~End(w, "not_in_scope")
      <4> DEFINE k == NewCall("is_in_scope", NoSnapshot, NoSnapshot,
                              job[w].target)
      <4>1. k.at \notin Ended
        BY DEF NewCall, FirstStep, Readers, Ended
      <4> HIDE DEF k
      <4>2. job'[w].at = "checking_scope" /\ job'[w].snap = job[w].snap
              /\ call'[w] = k
        BY <1>0, <2>3, <3>2 DEF CheckScope, k, Jobs
      <4>3. QED
        BY <1>0, <2>2, <2>3, <4>1, <4>2 DEF CheckScope, ReportsLater
    <3>3. QED
      BY <3>1, <3>2
  <2>4. CASE OpenSingleSnapshot(w)
    <3>1. CASE End(w, "not_in_scope")
      BY <1>1, <2>1, <2>4, <3>1 DEF OpenSingleSnapshot
    <3>2. CASE ~End(w, "not_in_scope")
      <4> DEFINE k == NewCall("begin_snapshot", NoSnapshot, job[w].parent, {})
      <4>1. k.at \notin Ended
        BY DEF NewCall, FirstStep, Readers, Writers, Ended
      <4> HIDE DEF k
      <4>2. job'[w].at = "opening" /\ job'[w].snap = job[w].snap
              /\ call'[w] = k
        BY <1>0, <2>4, <3>2 DEF OpenSingleSnapshot, CallFrom, k, Jobs
      <4>3. QED
        BY <1>0, <2>2, <2>4, <4>1, <4>2 DEF OpenSingleSnapshot, ReportsLater
    <3>3. QED
      BY <3>1, <3>2
  <2>5. QED
    BY <1>1, <2>3, <2>4
(* Steps into the part of a job that no end follows at once.                 *)
<1>2. ASSUME \/ job'[w].at \in {"enumerating", "populating", "analyzing",
                                "writing"}
             \/ /\ job'[w].at \in {"committing", "aborting", "rejecting"}
                /\ call'[w].at = "check",
             job'[w].at = "aborting" => job'[w].result # "ok"
      PROVE  ~Settled(w)' /\ ReportsLater(w)'
  BY <1>2 DEF Settled, ReportsLater, Finished, Ended
<1>3. ASSUME NEW r, AbortJob(w, r), r # "ok"
      PROVE  ~Settled(w)' /\ ReportsLater(w)'
  <2>1. call'[w].at = "check"
    BY <1>0, <1>3, WriterCallChecks DEF AbortJob, WriterCall, Writers
  <2>2. job'[w].at = "aborting" /\ job'[w].result = r
    BY <1>0, <1>3 DEF AbortJob, Jobs
  <2>3. QED
    BY <1>2, <1>3, <2>1, <2>2
<1>4. CASE TryStart(w)
  <2>1. WriterCall("abort_snapshot", call[w].snap).at = "check"
    BY WriterCallChecks DEF WriterCall, Writers
  <2>2. \/ job'[w].at = "enumerating"
        \/ job'[w].at = "rejecting" /\ call'[w].at = "check"
    BY <1>0, <1>4, <2>1 DEF TryStart, Jobs
  <2>3. QED
    BY <1>2, <2>2
<1>5. CASE EnumerateProjects(w)
  <2>1. \/ job'[w].at \in {"populating", "analyzing"}
        \/ AbortJob(w, "not_in_scope")
    BY <1>0, <1>5
    DEF EnumerateProjects, EnumerateForFull, EnumerateForSingle,
        TargetDisappeared, Jobs
  <2>2. QED
    BY <1>2, <1>3, <2>1
<1>6. CASE \/ CatalogPopulated(w) \/ ProjectWritten(w)
           \/ \E p \in Projects : WriteProject(w, p)
  <2>1. ASSUME NEW p \in Projects, WriteProject(w, p)
        PROVE  job'[w].at = "writing"
    <3>1. job' = [job EXCEPT ![w].at = "writing", ![w].todo = @ \ {p}]
      BY <2>1 DEF WriteProject
    <3>2. QED
      BY <1>0, <3>1 DEF Jobs
  <2>2. ASSUME CatalogPopulated(w) \/ ProjectWritten(w)
        PROVE  job'[w].at = "analyzing"
    BY <1>0, <2>2 DEF CatalogPopulated, ProjectWritten, Jobs
  <2>3. QED
    BY <1>2, <1>6, <2>1, <2>2
<1>7. CASE CommitJob(w)
  <2>1. WriterCall("commit_snapshot", job[w].snap).at = "check"
    BY WriterCallChecks DEF WriterCall, Writers
  <2>2. job'[w].at = "committing" /\ call'[w].at = "check"
    BY <1>0, <1>7, <2>1 DEF CommitJob, CallFrom, Jobs
  <2>3. QED
    BY <1>2, <2>2
<1>8. CASE RejectStart(w)
  BY <1>8
  DEF RejectStart, Returned, EndsWith, Holds, Finished, Succeeded, Ended
<1>9. CASE StartRaises(w)
  BY <1>0, <1>9
  DEF StartRaises, Raised, EndsWith, Holds, Finished, Succeeded, Ended,
      ReportsLater
<1>10. CASE GitLabRequestFails(w)
  <2>1. CASE Uncaught(w)
    BY <1>10, <2>1
    DEF GitLabRequestFails, Uncaught, EndsWith, Holds, Finished, InBody,
        BodySteps
  <2>2. CASE AbortJob(w, "gitlab_error")
    BY <1>3, <2>2
  <2>3. QED
    BY <1>10, <2>1, <2>2 DEF GitLabRequestFails
<1>11. CASE CompleteJob(w)
  BY <1>11
  DEF CompleteJob, Returned, EndsWith, Holds, Finished, Succeeded, Ended,
      InBody, BodySteps
<1>12. CASE AbortEnds(w)
  <2> DEFINE r == IF Raised(w) THEN "error" ELSE job[w].result
  <2>1. r # "ok" /\ End(w, r)
    BY <1>0, <1>12 DEF AbortEnds, ReportsLater
  <2> HIDE DEF r
  <2>2. EndsWith(w, r)
    BY <1>12, <2>1
    DEF AbortEnds, Returned, Raised, EndsWith, Holds, Finished, Succeeded,
        Ended, InBody, BodySteps
  <2>3. QED
    BY <2>2
<1>13. CASE BodyRaises(w)
  BY <1>13
  DEF BodyRaises, Uncaught, Raised, EndsWith, Holds, Finished, Succeeded,
      Ended, InBody, BodySteps
<1>14. QED
  BY <1>1, <1>4, <1>5, <1>6, <1>7, <1>8, <1>9, <1>10, <1>11, <1>12, <1>13
  DEF JobStep

(* A refresh that ends reports truly.                                        *)
LEMMA EndSettles ==
  ASSUME OutcomeInv, NEW w \in Workers, JobStep(w), NEW r, EndsWith(w, r)
  PROVE  SettledRow(w)' /\ ReportsLater(w)'
<1> USE DEF OutcomeInv, OwnInv, SlotInv, JobInv
<1>0. /\ job'[w].at = "idle"
      /\ job'[w].snap = job[w].snap
      /\ job'[w].result = r
  BY DEF EndsWith, End, NoJob
<1>1. NoStatement /\ ~Promoting(w)
  BY JobStepPassesRow
<1>2. \A v \in Workers : v # w => job'[v] = job[v] /\ call'[v] = call[v]
  BY JobStepKnows
<1>3. ASSUME job[w].snap # NoSnapshot
      PROVE  SettledRow(w)'
  <2>1. /\ Own(w) = job[w].snap
        /\ Own(w)' = Own(w)
        /\ Holds(w)
        /\ Succeeded(w)' <=> r = "ok"
    BY <1>0, <1>3 DEF EndsWith, Own, Succeeded
  <2>2. Own(w) \in Ids /\ Exists(disk, Own(w))
    BY <2>1, OwnIsId DEF RowInv, HoldsRow
  <2>3. \A v \in Workers : v # w /\ Holds(v) => Own(v) # Own(w)
    BY <2>1 DEF OneOwner
  <2>4. IF r = "ok" THEN StatusesOf(Own(w)) = {"completed"}
                    ELSE "completed" \notin StatusesOf(Own(w))
    <3>1. CASE Finished(w)
      BY <1>3, <2>1, <3>1 DEF EndsWith, SettledRow, Settled
    <3>2. CASE ~Finished(w)
      BY <1>1, <1>3, <2>1, <3>2 DEF EndsWith, RowInv, OpenRow, StatusesOf
    <3>3. QED
      BY <3>1, <3>2
  <2>5. \A v \in Workers : v # w /\ Holds(v)' => Own(v)' # Own(w)'
    BY <1>2, <2>1, <2>3 DEF Own, Holds, InBody
  <2>6. /\ Exists(disk', Own(w))
        /\ StatusesOf(Own(w))' = StatusesOf(Own(w))
    BY <1>1, <2>1, <2>2 DEF NoStatement, StatusesOf, Exists
  <2>7. IF Succeeded(w)' THEN StatusesOf(Own(w))' = {"completed"}
                         ELSE "completed" \notin StatusesOf(Own(w))'
    BY <2>1, <2>4, <2>6
  <2>8. Own(w)' \in Ids /\ Exists(disk, Own(w))'
    BY <2>1, <2>2, <2>6 DEF Exists
  <2>9. QED
    BY <2>5, <2>7, <2>8 DEF SettledRow
<1>4. ASSUME job[w].snap = NoSnapshot
      PROVE  SettledRow(w)'
  <2>1. ~Settled(w)'
    BY <1>0, <1>4 DEF Settled, Holds, InBody, BodySteps
  <2>2. QED
    BY <2>1 DEF SettledRow
<1>5. ReportsLater(w)'
  BY <1>0 DEF ReportsLater
<1>6. QED
  BY <1>3, <1>4, <1>5

(* The step of one refresh leaves the others' reports true.                  *)
LEMMA PassingOutcome ==
  ASSUME OutcomeInv, NEW w \in Workers, NEW v \in Workers, v # w, NoStatement,
         \A u \in Workers : u # w => job'[u] = job[u] /\ call'[u] = call[u],
         Holds(w)' => Holds(w) /\ Own(w)' = Own(w)
  PROVE  SettledRow(v)' /\ ReportsLater(v)'
<1> USE DEF OutcomeInv
<1>1. \A u \in Workers : u # w => /\ Holds(u)' <=> Holds(u)
                                  /\ Own(u)' = Own(u)
  BY DEF Holds, Own, InBody
<1>2. /\ Settled(v)' <=> Settled(v)
      /\ Succeeded(v)' <=> Succeeded(v)
      /\ StatusesOf(Own(v))' = StatusesOf(Own(v))
  BY <1>1 DEF Settled, Succeeded, Finished, NoStatement, StatusesOf
<1>3. \A u \in Workers : Holds(u)' => Holds(u) /\ Own(u)' = Own(u)
  BY <1>1
<1>4. SettledRow(v)'
  BY <1>1, <1>2, <1>3 DEF SettledRow, NoStatement, Exists
<1>5. QED
  BY <1>4 DEF ReportsLater

LEMMA StartReportsLater ==
  ASSUME OutcomeInv, NEW w \in Workers, StartRefresh(w)
  PROVE  SettledRow(w)' /\ ReportsLater(w)'
<1>1. /\ job \in [Workers -> Jobs]
      /\ ~Holds(w)'
  BY StartHoldsNothing DEF OutcomeInv, OwnInv, SlotInv, JobInv
<1>2. /\ job'[w].at \in {"opening", "reading_current"}
      /\ job'[w].snap = NoSnapshot
  BY <1>1
  DEF StartRefresh, StartFullRefresh, StartSingleProjectRefresh, NoJob
<1>3. QED
  BY <1>1, <1>2 DEF SettledRow, Settled, ReportsLater

LEMMA NextOutcome == OutcomeInv /\ [CoordinatorNext]_vars => OutcomeInv'
<1> SUFFICES ASSUME OutcomeInv, [CoordinatorNext]_vars, NEW w \in Workers
             PROVE  SettledRow(w)' /\ ReportsLater(w)'
  BY NextOwn DEF OutcomeInv
<1> USE DEF OutcomeInv, OwnInv, SlotInv, JobInv
<1>1. ASSUME NEW c \in Clients, StatementStep(c)
      PROVE  SettledRow(w)' /\ ReportsLater(w)'
  BY <1>1, StatementOutcome
<1>2. ASSUME NEW v \in Workers, StartRefresh(v)
      PROVE  SettledRow(w)' /\ ReportsLater(w)'
  <2>1. CASE w = v
    BY <1>2, <2>1, StartReportsLater
  <2>2. CASE w # v
    <3>1. \A u \in Workers : u # v => job'[u] = job[u] /\ call'[u] = call[u]
      BY <1>2, StartHoldsNothing, WorkersAreClients
    <3>2. QED
      BY <1>2, <2>2, <3>1, StartHoldsNothing, PassingOutcome
  <2>3. QED
    BY <2>1, <2>2
<1>3. ASSUME NEW v \in Workers, JobStep(v)
      PROVE  SettledRow(w)' /\ ReportsLater(w)'
  <2>1. CASE w = v
    BY <1>3, <2>1, JobStepSettles, EndSettles DEF SettledRow
  <2>2. CASE w # v
    <3>1. \A u \in Workers : u # v => job'[u] = job[u] /\ call'[u] = call[u]
      BY <1>3, JobStepKnows
    <3>2. QED
      BY <1>3, <2>2, <3>1, JobStepPassesRow, PassingOutcome
  <2>3. QED
    BY <2>1, <2>2
<1>4. CASE Restart
  <2>1. job'[w] = NoJob
    BY <1>4 DEF Restart
  <2>2. QED
    BY <2>1 DEF NoJob, SettledRow, Settled, ReportsLater, Holds, InBody,
       BodySteps
<1>5. CASE UNCHANGED vars
  BY <1>5 DEF vars, storeVars, coordinatorVars, SettledRow, Settled,
     ReportsLater, Holds, Finished, Own, Succeeded, StatusesOf, InBody
<1>6. QED
  BY <1>1, <1>2, <1>3, <1>4, <1>5 DEF CoordinatorNext

LEMMA InitOutcome == CoordinatorInit => OutcomeInv
<1> SUFFICES ASSUME CoordinatorInit, NEW w \in Workers
             PROVE  SettledRow(w) /\ ReportsLater(w)
  BY InitOwn DEF OutcomeInv
<1>1. job[w] = NoJob
  BY DEF CoordinatorInit
<1>2. QED
  BY <1>1 DEF NoJob, SettledRow, Settled, ReportsLater, Holds, InBody,
     BodySteps

(* What a refresh call tells its caller is what happened: "ok" means that    *)
(* its snapshot is published, any other end that no reader is ever shown it, *)
(* the exceptions that no arm of the job catches included.                   *)
THEOREM OutcomeSafe == CoordinatorSpec => []ReportedOutcomeHolds
<1>1. OutcomeInv => ReportedOutcomeHolds
  <2> SUFFICES ASSUME OutcomeInv, NEW w \in Workers, job[w].at = "idle",
                      job[w].snap # NoSnapshot
               PROVE  (job[w].result = "ok") = Published(job[w].snap)
    BY DEF ReportedOutcomeHolds
  <2>1. /\ Settled(w)
        /\ Own(w) = job[w].snap
        /\ Succeeded(w) <=> job[w].result = "ok"
    BY DEF Settled, Own, Succeeded
  <2>2. IF job[w].result = "ok"
          THEN disk.status[job[w].snap] = "completed"
          ELSE disk.status[job[w].snap] # "completed"
    BY <2>1 DEF OutcomeInv, SettledRow, StatusesOf
  <2>3. QED
    BY <2>2 DEF Published
<1>2. QED
  BY <1>1, InitOutcome, NextOutcome, PTL DEF CoordinatorSpec
=============================================================================
