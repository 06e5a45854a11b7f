----------------------------- MODULE ProcessProofs -----------------------------
(***************************************************************************)
(* Proofs of what the process promises.                                    *)
(*                                                                         *)
(* While it serves and until it has ended (ServerLifecycle.tla), for any   *)
(* number of refresh tools, every set of projects, every bound and every   *)
(* kind of fault.  The store may be closed under a refresh here, and the   *)
(* main thread's abort_snapshot executes its statements among those of the *)
(* refresh whose snapshot it fails, so less is true of a row than in       *)
(* IngestionCoordinatorProofs.tla: its refresh may find it failed.         *)
(*                                                                         *)
(* When it starts (Startup.tla), in every environment: an invariant says   *)
(* what is held, reported and announced at each step of main, and what the *)
(* finally is left with.                                                   *)
(***************************************************************************)
EXTENDS ServerLifecycle, Startup, IngestionCoordinatorProofs

(* The main thread's one call, on a snapshot that is on disk.                *)
MainCalls ==
  call[Main].at \in Steps =>
    /\ phase = "aborting"
    /\ call[Main].op = "abort_snapshot"
    /\ call[Main].snap \in Ids
    /\ Exists(disk, call[Main].snap)

SlotNamesRow == running # NoSnapshot => Exists(disk, running)

(* The snapshot of a refresh, or of the last one of an idle thread.          *)
Keeps(w) ==
  \/ Holds(w)
  \/ job[w].at = "idle" /\ job[w].snap # NoSnapshot

Unpublished(t, s) == t.status[s] # "completed" /\ t.current # s

(* A row that begin_snapshot has inserted: the COMMIT that puts it on disk   *)
(* is to come, or the connection has been closed and will execute none.      *)
NewRow(w) ==
  Creating(w) =>
    /\ ~Exists(disk, Own(w))
    /\ ~closed => db.status[Own(w)] = "in_progress"

(* Only its own commit_snapshot publishes a refresh's row, and the refresh   *)
(* knows whether it has.                                                     *)
KeptRow(w) ==
  Keeps(w) =>
    /\ Own(w) \in Ids
    /\ Exists(disk, Own(w))
    /\ IF Succeeded(w)
         THEN disk.status[Own(w)] \in {"completed", "failed"}
         ELSE /\ Unpublished(disk, Own(w))
              /\ Promoting(w) \/ Unpublished(db, Own(w))

ThreadRow(w) == CallOfJob(w) /\ ReportsLater(w) /\ NewRow(w) /\ KeptRow(w)

OneKeeper ==
  \A v, w \in Workers : Keeps(v) /\ Keeps(w) /\ Own(v) = Own(w) => v = w

LifecycleInv ==
  /\ SlotInv
  /\ phase \in Phases /\ tick \in Ticks /\ initial \in BOOLEAN
  /\ MainCalls
  /\ SlotNamesRow
  /\ \A w \in Workers : ThreadRow(w)
  /\ OneKeeper

(* tick is what the scheduler thread is doing.                               *)
TickTold == tick # "refreshing" => job[Scheduler].at = "idle"
-----------------------------------------------------------------------------
(* Who executes which statement.                                             *)

LEMMA ThreadsTold ==
  /\ Main \in Clients
  /\ Main \notin Workers
  /\ \A c \in Clients : c = Main \/ c \in Workers
  BY ThreadsAssumption

LEMMA ThreadWrites ==
  ASSUME LifecycleInv, NEW w \in Workers, call[w].at \in Steps,
         call[w].op \in Writers
  PROVE  Holds(w) /\ ~Finished(w) /\ Own(w) = call[w].snap
  BY StepsNotEnded
  DEF LifecycleInv, ThreadRow, CallOfJob, Writers, Holds, Finished, Own,
      InBody, BodySteps

LEMMA MainOnlyAborts ==
  ASSUME LifecycleInv, NEW c \in Clients, call[c].at \in Steps,
         call[c].op \in {"begin_snapshot", "commit_snapshot"}
  PROVE  c \in Workers
  BY ThreadsTold DEF LifecycleInv, MainCalls

(* Nothing executes on a closed connection.                                  *)
LEMMA ClosedExecutesNothing ==
  ASSUME closed, NEW c \in Clients, StoreStep(c)
  PROVE  NoStatement /\ Raise(c)
  BY DEF StoreStep, RequireInProgress, BeginTransaction, Commit,
     InsertSnapshot, InsertSnapshotFails, CopyProfiles, CopyCatalog,
     UpsertProfile, InsertSkip, UpsertCatalog, ForeignKeyFails, MarkFailed,
     FlipCompleted, FlipRefused, MovePointer, ReadPointer, SelectCatalog,
     SelectProfiles, StatementFails, ClosedRaises, At

(* The one statement that moves the pointer, and the rollback.               *)
LEMMA CurrentChange ==
  ASSUME PointerInv, NEW c \in Clients, StoreStep(c),
         db'.current # db.current
  PROVE  MovePointer(c) \/ (Rollback /\ call[c].at \in TxnSteps)
<1> USE DEF PointerInv, TxnInv, Typed, TypeOK, Tables
<1>1. CASE RequireInProgress(c) \/ BeginTransaction(c) \/ Commit(c)
  BY <1>1 DEF RequireInProgress, BeginTransaction, Commit, NoStatement
<1>2. CASE InsertSnapshotFails(c) \/ FlipRefused(c)
  BY <1>2 DEF InsertSnapshotFails, FlipRefused, At, TxnSteps
<1>3. CASE InsertSnapshot(c) \/ MarkFailed(c) \/ FlipCompleted(c)
             \/ CopyProfiles(c) \/ CopyCatalog(c) \/ UpsertProfile(c)
             \/ InsertSkip(c) \/ UpsertCatalog(c)
  BY <1>3 DEF InsertSnapshot, MarkFailed, FlipCompleted, CopyProfiles,
     CopyCatalog, UpsertProfile, InsertSkip, UpsertCatalog, Execute
<1>4. CASE ForeignKeyFails(c) \/ StatementFails(c) \/ ClosedRaises(c)
  BY <1>4 DEF ForeignKeyFails, StatementFails, ClosedRaises, NoStatement
<1>5. CASE ReadPointer(c) \/ SelectCatalog(c) \/ SelectProfiles(c)
  BY <1>5 DEF ReadPointer, SelectCatalog, SelectProfiles, NoStatement
<1>6. QED
  BY <1>1, <1>2, <1>3, <1>4, <1>5 DEF StoreStep

(* A statement publishes the snapshot of the refresh that executes it only.  *)
LEMMA ForeignRowUnpublished ==
  ASSUME LifecycleInv, NEW c \in Clients, StoreStep(c), NEW s \in Ids,
         Exists(disk, s), Unpublished(disk, s), Unpublished(db, s),
         c \in Workers /\ Keeps(c) => Own(c) # s
  PROVE  Unpublished(disk', s) /\ Unpublished(db', s)
<1> USE DEF SlotInv, JobInv, PointerInv, TxnInv, Typed, TypeOK
<1>0. /\ PointerInv
      /\ CallShape(call[c])
      /\ call[c].at \in Steps
      /\ db.status[s] # "absent"
  BY StatementProgress
  DEF LifecycleInv, CallsOK, Exists, PendingStatuses, MayBecome
<1>1. call[c].op = "commit_snapshot" => call[c].snap # s
  BY <1>0, MainOnlyAborts, ThreadWrites DEF Keeps, Writers
<1>2. db'.status[s] # "completed"
  <2>1. CASE InsertSnapshot(c)
    BY <1>0, <2>1
    DEF InsertSnapshot, IsNextId, Execute, Tables, Unpublished
  <2>2. CASE MarkFailed(c)
    BY <1>0, <2>2 DEF MarkFailed, Execute, Tables, Unpublished
  <2>3. CASE FlipCompleted(c)
    BY <1>0, <1>1, <2>3
    DEF FlipCompleted, At, CallShape, Execute, Tables, Unpublished
  <2>4. QED
    BY <1>0, <2>1, <2>2, <2>3, StatusChange DEF Rollback, Unpublished
<1>3. db'.current # s
  <2>1. CASE MovePointer(c)
    BY <1>0, <1>1, <2>1 DEF MovePointer, At, CallShape, Execute, Tables
  <2>2. QED
    BY <1>0, <2>1, CurrentChange DEF Rollback, Unpublished
<1>4. disk' = disk \/ disk' = db'
  BY <1>0, DiskChange
<1>5. QED
  BY <1>2, <1>3, <1>4 DEF Unpublished

-----------------------------------------------------------------------------
(* A statement executed for somebody else.                                   *)

LEMMA ForeignThreadFrame ==
  ASSUME LifecycleInv, NEW c \in Clients, StatementStep(c),
         NEW w \in Workers, w # c
  PROVE  /\ StoreStep(c) /\ [Next]_storeVars
         /\ job'[w] = job[w] /\ call'[w] = call[w] /\ closed' = closed
         /\ Own(w)' = Own(w)
         /\ Holds(w)' <=> Holds(w)
         /\ Keeps(w)' <=> Keeps(w)
         /\ Creating(w)' <=> Creating(w)
         /\ Promoting(w)' <=> Promoting(w)
         /\ Succeeded(w)' <=> Succeeded(w)
<1>1. StoreStep(c) /\ job' = job
  BY DEF StatementStep, coordinatorVars
<1>2. call'[w] = call[w] /\ closed' = closed
  BY <1>1, WorkersAreClients, StatementProgress, ClosedStays
  DEF LifecycleInv, SlotInv, JobInv
<1>3. QED
  BY <1>1, <1>2
  DEF Next, Own, Holds, Keeps, Creating, Promoting, Succeeded, InBody

LEMMA ForeignThreadRow ==
  ASSUME LifecycleInv, NEW c \in Clients, StatementStep(c),
         NEW w \in Workers, w # c
  PROVE  ThreadRow(w)'
<1> USE DEF SlotInv, JobInv, PointerInv, TxnInv, Typed, TypeOK
<1>0. /\ StoreStep(c) /\ [Next]_storeVars
      /\ job'[w] = job[w] /\ call'[w] = call[w] /\ closed' = closed
      /\ Own(w)' = Own(w)
      /\ Keeps(w)' <=> Keeps(w)
      /\ Creating(w)' <=> Creating(w)
      /\ Promoting(w)' <=> Promoting(w)
      /\ Succeeded(w)' <=> Succeeded(w)
  BY ForeignThreadFrame
<1>1. /\ PointerInv /\ w \in Clients /\ ThreadRow(w)
      /\ CallShape(call[c]) /\ call[c].at \in Steps
  BY <1>0, WorkersAreClients, StatementProgress DEF LifecycleInv, CallsOK
<1>2. CallOfJob(w)' /\ ReportsLater(w)'
  BY <1>0, <1>1 DEF ThreadRow, CallOfJob, ReportsLater
<1>3. ~closed /\ call[w].at \in TxnSteps =>
        inTxn /\ call[c].at \notin TxnSteps
  BY <1>1 DEF TransactionOwned
<1>4. ~closed /\ call[w].at \in TxnSteps => disk' = disk
  BY <1>0, <1>1, <1>3, DiskChange DEF Commit, At, TxnSteps
<1>5. NewRow(w)'
  <2> SUFFICES ASSUME Creating(w)
               PROVE  /\ ~Exists(disk', Own(w))
                      /\ ~closed => db'.status[Own(w)] = "in_progress"
    BY <1>0 DEF NewRow
  <2>1. /\ call[w].at \in TxnSteps
        /\ ~Exists(disk, Own(w))
        /\ ~closed => db.status[Own(w)] = "in_progress"
        /\ Own(w) \in Ids
    <3>1. WorkerInv(w) /\ CallShape(call[w])
      BY <1>1 DEF LifecycleInv, CallsOK
    <3>2. Own(w) \in Ids
      BY <3>1 DEF Own, Creating, WorkerInv, OpensSnapshot, CallShape
    <3>3. QED
      BY <1>1, <3>2 DEF Creating, TxnSteps, ThreadRow, NewRow
  <2>2. CASE closed
    BY <1>0, <2>1, <2>2, ClosedExecutesNothing DEF NoStatement
  <2>3. CASE ~closed
    <3>1. disk' = disk
      BY <1>4, <2>1, <2>3
    <3>2. call[c].at \notin TxnSteps
      BY <1>3, <2>1, <2>3
    <3>3. CASE MarkFailed(c)
      <4>1. call[c].snap \in Ids /\ call[c].op = "abort_snapshot"
        BY <1>1, <3>3 DEF MarkFailed, At, CallShape
      <4>2. Exists(disk, call[c].snap)
        <5>1. CASE c = Main
          BY <1>1, <5>1 DEF LifecycleInv, MainCalls
        <5>2. CASE c \in Workers
          <6>1. Holds(c) /\ Own(c) = call[c].snap
            BY <1>1, <4>1, <5>2, ThreadWrites DEF Writers
          <6>2. QED
            BY <5>2, <6>1 DEF LifecycleInv, ThreadRow, KeptRow, Keeps
        <5>3. QED
          BY <5>1, <5>2, ThreadsTold
      <4>3. QED
        BY <2>1, <2>3, <3>1, <3>3, <4>1, <4>2
        DEF MarkFailed, Execute, Tables
    <3>4. CASE InsertSnapshot(c) \/ FlipCompleted(c)
      BY <3>2, <3>4 DEF InsertSnapshot, FlipCompleted, At, TxnSteps
    <3>5. QED
      BY <1>0, <1>1, <2>1, <3>1, <3>2, <3>3, <3>4, StatusChange
  <2>4. QED
    BY <2>2, <2>3
<1>6. KeptRow(w)'
  <2> SUFFICES ASSUME Keeps(w)
               PROVE  /\ Own(w) \in Ids
                      /\ Exists(disk', Own(w))
                      /\ IF Succeeded(w)
                           THEN disk'.status[Own(w)] \in {"completed", "failed"}
                           ELSE /\ Unpublished(disk', Own(w))
                                /\ Promoting(w) \/ Unpublished(db', Own(w))
    BY <1>0 DEF KeptRow, Exists, Unpublished
  <2>1. /\ Own(w) \in Ids
        /\ Exists(disk, Own(w))
        /\ IF Succeeded(w)
             THEN disk.status[Own(w)] \in {"completed", "failed"}
             ELSE /\ Unpublished(disk, Own(w))
                  /\ Promoting(w) \/ Unpublished(db, Own(w))
    BY <1>1 DEF ThreadRow, KeptRow
  <2>2. /\ Exists(disk', Own(w))
        /\ MayBecome(disk.status[Own(w)], disk'.status[Own(w)])
    BY <1>0, <1>1, <2>1, RowsStayCommitted, StatusStep
  <2>3. CASE Succeeded(w)
    BY <2>1, <2>2, <2>3 DEF MayBecome
  <2>4. CASE ~Succeeded(w) /\ Promoting(w)
    <3>1. disk' = disk
      BY <1>4, <2>4 DEF Promoting, TxnSteps
    <3>2. QED
      BY <2>1, <2>2, <2>4, <3>1
  <2>5. CASE ~Succeeded(w) /\ ~Promoting(w)
    <3>1. c \in Workers /\ Keeps(c) => Own(c) # Own(w)
      BY DEF LifecycleInv, OneKeeper
    <3>2. Unpublished(disk', Own(w)) /\ Unpublished(db', Own(w))
      BY <1>0, <2>1, <2>5, <3>1, ForeignRowUnpublished
    <3>3. QED
      BY <2>1, <2>2, <2>5, <3>2
  <2>6. QED
    BY <2>3, <2>4, <2>5
<1>7. QED
  BY <1>2, <1>5, <1>6 DEF ThreadRow
-----------------------------------------------------------------------------
(* A statement executed for the thread itself.                               *)

(* begin_snapshot returns a row that nothing has published.                  *)
LEMMA OpenedThreadRow ==
  ASSUME LifecycleInv, NEW w \in Workers, StatementStep(w),
         job[w].at = "opening"
  PROVE  NewRow(w)' /\ KeptRow(w)'
<1> USE DEF SlotInv, JobInv, PointerInv, TxnInv, Typed, TypeOK
<1>0. /\ StoreStep(w) /\ w \in Clients /\ job'[w] = job[w]
      /\ WorkerInv(w) /\ NewRow(w) /\ JobInv /\ PointerInv
      /\ CallShape(call[w]) /\ call[w].at \in Steps /\ closed' = closed
  <2>1. StoreStep(w) /\ w \in Clients /\ job' = job
    BY WorkersAreClients DEF StatementStep, coordinatorVars
  <2>2. QED
    BY <2>1, StatementProgress, ClosedStays
    DEF LifecycleInv, ThreadRow, CallsOK
<1>1. CASE closed
  <2>1. call'[w].at = "raised"
    BY <1>0, <1>1, ClosedExecutesNothing, OutcomeTyped DEF Raise
  <2>2. ~Creating(w)' /\ ~Keeps(w)'
    BY <1>0, <2>1 DEF Creating, Keeps, Holds, InBody, BodySteps
  <2>3. QED
    BY <2>2 DEF NewRow, KeptRow
<1>2. CASE ~closed
  <2>1. CreatesRow(w)
    BY <1>0, <1>2 DEF NewRow, CreatesRow
  <2>2. CreatesRow(w)'
    BY <1>0, <2>1, InsertedRow
  <2>3. NewRow(w)'
    BY <1>0, <1>2, <2>2 DEF NewRow, CreatesRow
  <2>4. ASSUME Keeps(w)'
        PROVE  KeptRow(w)'
    <3>1. Holds(w)' /\ ~Succeeded(w)'
      BY <1>0, <2>4 DEF Keeps, Succeeded
    <3>2. /\ Creating(w)
          /\ Own(w)' = Own(w)
          /\ disk'.status[Own(w)] = "in_progress"
          /\ db'.status[Own(w)] = "in_progress"
      BY <1>0, <2>1, <3>1, InsertedRow
    <3>3. Own(w) \in Ids /\ Own(w) # NoSnapshot
      BY <1>0, <3>2, BoundAssumption
      DEF Own, Creating, WorkerInv, OpensSnapshot, CallShape, Ids, NoSnapshot
    <3>4. disk.current # Own(w) /\ db.current # Own(w)
      BY <1>0, <2>1, <3>2, <3>3, PointedRowExists
      DEF CreatesRow, Exists, CurrentWasCompleted
    <3>5. ~MovePointer(w)
      BY <1>0, <3>2 DEF MovePointer, At, Creating
    <3>6. db'.current # Own(w)
      BY <1>0, <3>4, <3>5, CurrentChange DEF Rollback
    <3>7. disk'.current # Own(w)
      BY <1>0, <3>4, <3>6, DiskChange
    <3>8. Unpublished(disk, Own(w))' /\ Unpublished(db, Own(w))'
      BY <3>2, <3>6, <3>7 DEF Unpublished
    <3>9. Own(w)' \in Ids /\ Exists(disk, Own(w))'
      BY <3>2, <3>3 DEF Exists
    <3>10. QED
      BY <3>1, <3>8, <3>9 DEF KeptRow
  <2>5. QED
    BY <2>3, <2>4 DEF KeptRow
<1>3. QED
  BY <1>1, <1>2

(* Only the COMMIT of its commit_snapshot publishes a refresh's row, and the *)
(* call returns.                                                             *)
LEMMA WrittenThreadRow ==
  ASSUME LifecycleInv, NEW w \in Workers, StatementStep(w), Holds(w),
         job[w].at # "opening"
  PROVE  KeptRow(w)'
<1> USE DEF SlotInv, JobInv, PointerInv, TxnInv, Typed, TypeOK
<1>0. /\ StoreStep(w) /\ w \in Clients /\ job'[w] = job[w]
      /\ PointerInv /\ ThreadRow(w) /\ [Next]_storeVars
      /\ CallShape(call[w]) /\ call[w].at \in Steps /\ closed' = closed
  <2>1. StoreStep(w) /\ w \in Clients /\ job' = job
    BY WorkersAreClients DEF StatementStep, coordinatorVars
  <2>2. QED
    BY <2>1, StatementProgress, ClosedStays DEF LifecycleInv, CallsOK, Next
<1>1. /\ Own(w) = job[w].snap /\ Own(w)' = Own(w)
      /\ job[w].at # "idle" /\ call[w].at \notin Ended
  BY <1>0, StepsNotEnded DEF Own, Holds, InBody, BodySteps
<1>2. call[w].op \in Writers /\ call[w].snap = Own(w)
  BY <1>0, <1>1 DEF ThreadRow, CallOfJob, Holds, InBody, BodySteps, Writers
<1>3. /\ Own(w) \in Ids
      /\ Exists(disk, Own(w))
      /\ Unpublished(disk, Own(w))
      /\ Promoting(w) \/ Unpublished(db, Own(w))
  BY <1>0, <1>1 DEF ThreadRow, KeptRow, Keeps, Succeeded, Ended
<1>4. Exists(disk', Own(w))
  BY <1>0, <1>3, RowsStayCommitted
<1>5. disk' = disk \/ disk' = db'
  BY <1>0, DiskChange
<1>6. Succeeded(w)' <=> job[w].at = "committing" /\ call'[w].at = "returned"
  BY <1>0, <1>1 DEF Succeeded
<1> DEFINE Goal == IF Succeeded(w)'
                     THEN disk'.status[Own(w)] \in {"completed", "failed"}
                     ELSE /\ Unpublished(disk', Own(w))
                          /\ Promoting(w)' \/ Unpublished(db', Own(w))
<1>7. ASSUME Promoting(w)
      PROVE  Goal
  <2>1. CASE MovePointer(w)
    <3>1. inTxn /\ disk' = disk
      BY <1>0, <2>1 DEF MovePointer, At, TxnSteps, TransactionOwned, Execute
    <3>2. Promoting(w)' /\ call'[w].at = "commit"
      BY <1>0, <1>7, <2>1 DEF MovePointer, Goto, Promoting, Calls
    <3>3. QED
      BY <1>3, <1>6, <3>1, <3>2
  <2>2. CASE Commit(w)
    <3>1. disk' = db /\ call'[w].at = "returned"
      BY <1>0, <2>2, OutcomeTyped DEF Commit, Return
    <3>2. job[w].at = "committing"
      BY <1>0, <1>1, <1>7 DEF ThreadRow, CallOfJob, Promoting
    <3>3. db.status[Own(w)] \in {"completed", "failed"}
      BY <1>0, <1>2, <1>7 DEF PromotesOpenRows
    <3>4. QED
      BY <1>6, <3>1, <3>2, <3>3
  <2>3. CASE Raise(w)
    <3>1. call'[w].at = "raised"
      BY <1>0, <2>3, OutcomeTyped DEF Raise
    <3>2. Rollback
      BY <1>0, <1>7, <3>1, OutcomeTyped
      DEF StoreStep, RequireInProgress, BeginTransaction, Commit,
          InsertSnapshot, InsertSnapshotFails, CopyProfiles, CopyCatalog,
          UpsertProfile, InsertSkip, UpsertCatalog, ForeignKeyFails,
          MarkFailed, FlipCompleted, FlipRefused, MovePointer, ReadPointer,
          SelectCatalog, SelectProfiles, StatementFails, ClosedRaises, At,
          Promoting, Return, Goto, TxnSteps, Calls
    <3>3. QED
      BY <1>3, <1>6, <3>1, <3>2 DEF Rollback
  <2>4. QED
    BY <1>0, <1>7, <2>1, <2>2, <2>3, PromotingStep
<1>8. ASSUME ~Promoting(w)
      PROVE  Goal
  <2>1. CASE FlipCompleted(w)
    <3>1. inTxn /\ disk' = disk /\ call[w].op = "commit_snapshot" /\ ~closed
      BY <1>0, <2>1
      DEF FlipCompleted, At, TxnSteps, TransactionOwned, Execute, CallShape
    <3>2. Promoting(w)' /\ call'[w].at = "move_pointer"
      BY <1>0, <2>1, <3>1 DEF FlipCompleted, Goto, Promoting, Calls
    <3>3. QED
      BY <1>3, <1>6, <3>1, <3>2
  <2>2. CASE ~FlipCompleted(w)
    <3>1. ~MovePointer(w) /\ ~InsertSnapshot(w)
      BY <1>0, <1>2, <1>8
      DEF MovePointer, InsertSnapshot, At, CallShape, Promoting, Writers
    <3>2. db'.status[Own(w)] # "completed"
      <4>1. CASE MarkFailed(w)
        BY <1>0, <1>2, <1>3, <4>1 DEF MarkFailed, Execute, Tables
      <4>2. QED
        BY <1>0, <1>3, <1>8, <2>2, <3>1, <4>1, StatusChange
        DEF Rollback, Unpublished
    <3>3. db'.current # Own(w)
      BY <1>0, <1>3, <1>8, <3>1, CurrentChange DEF Rollback, Unpublished
    <3>4. Unpublished(disk', Own(w)) /\ Unpublished(db', Own(w))
      BY <1>3, <1>5, <3>2, <3>3 DEF Unpublished
    <3>5. ~Succeeded(w)'
      <4>1. ASSUME job[w].at = "committing", call'[w].at = "returned"
            PROVE  FALSE
        <5>1. call[w].op = "commit_snapshot"
          BY <1>0, <1>1, <4>1 DEF ThreadRow, CallOfJob
        <5>2. ~Commit(w)
          BY <1>8, <5>1 DEF Commit, At, Promoting
        <5>3. ~Raise(w)
          BY <1>0, <4>1, OutcomeTyped DEF Raise
        <5>4. ~RequireInProgress(w) /\ ~BeginTransaction(w)
          BY <1>0, <4>1, <5>1, <5>3
          DEF RequireInProgress, BeginTransaction, Goto, AfterCheck,
              AfterBegin, Calls
        <5>5. QED
          BY <1>0, <2>2, <3>1, <5>1, <5>2, <5>3, <5>4
          DEF StoreStep, InsertSnapshotFails, CopyProfiles, CopyCatalog,
              UpsertProfile, InsertSkip, UpsertCatalog, ForeignKeyFails,
              MarkFailed, FlipRefused, ReadPointer, SelectCatalog,
              SelectProfiles, StatementFails, ClosedRaises, At, CallShape,
              Readers
      <4>2. QED
        BY <1>6, <4>1
    <3>6. QED
      BY <3>4, <3>5
  <2>3. QED
    BY <2>1, <2>2
<1>9. QED
  BY <1>1, <1>3, <1>4, <1>7, <1>8 DEF KeptRow, Exists, Unpublished

LEMMA OwnThreadRow ==
  ASSUME LifecycleInv, NEW w \in Workers, StatementStep(w)
  PROVE  ThreadRow(w)'
<1>0. /\ StoreStep(w) /\ w \in Clients /\ job'[w] = job[w]
      /\ PointerInv /\ ThreadRow(w) /\ WorkerInv(w)
      /\ call[w].at \in Steps /\ call[w].at \notin Ended
  <2>1. StoreStep(w) /\ w \in Clients /\ job' = job
    BY WorkersAreClients DEF StatementStep, coordinatorVars
  <2>2. QED
    BY <2>1, StatementProgress, StepsNotEnded
    DEF LifecycleInv, SlotInv, JobInv
<1>1. CallOfJob(w)'
  BY <1>0, CallContinues DEF ThreadRow, CallOfJob, Writers
<1>2. ReportsLater(w)'
  BY <1>0 DEF ThreadRow, ReportsLater
<1>3. NewRow(w)' /\ KeptRow(w)'
  <2>1. CASE job[w].at = "opening"
    BY <2>1, OpenedThreadRow
  <2>2. CASE job[w].at # "opening"
    <3>1. ~Creating(w)'
      BY <1>0, <2>2 DEF Creating
    <3>2. Keeps(w)' => Holds(w)
      BY <1>0, <2>2
      DEF Keeps, Holds, InBody, WorkerInv, BetweenCalls
    <3>3. QED
      BY <2>2, <3>1, <3>2, WrittenThreadRow DEF NewRow, KeptRow
  <2>3. QED
    BY <2>1, <2>2
<1>4. QED
  BY <1>1, <1>2, <1>3 DEF ThreadRow

LEMMA ExecutingKeeps ==
  ASSUME LifecycleInv, NEW c \in Clients, Executing(c)
  PROVE  LifecycleInv'
<1> USE DEF Executing, lifecycleVars
<1>0. /\ StatementStep(c) /\ StoreStep(c) /\ [Next]_storeVars
      /\ job' = job /\ running' = running /\ PointerInv /\ SlotInv
      /\ running \in OptIds /\ call[c].at \in Steps
      /\ \A d \in Clients : d # c => call'[d] = call[d]
  <2>1. StatementStep(c) /\ StoreStep(c) /\ job' = job /\ running' = running
    BY DEF StatementStep, coordinatorVars
  <2>2. QED
    BY <2>1, StatementProgress DEF LifecycleInv, SlotInv, JobInv, Next
<1>1. SlotInv'
  BY <1>0, NextSlot DEF CoordinatorNext
<1>2. \A w \in Workers : ThreadRow(w)'
  BY <1>0, OwnThreadRow, ForeignThreadRow
<1>3. MainCalls'
  <2> SUFFICES ASSUME call'[Main].at \in Steps
               PROVE  /\ phase = "aborting"
                      /\ call'[Main].op = "abort_snapshot"
                      /\ call'[Main].snap \in Ids
                      /\ Exists(disk', call'[Main].snap)
    BY DEF MainCalls, Exists
  <2>1. /\ call[Main].at \in Steps
        /\ call'[Main].op = call[Main].op
        /\ call[Main].op \in Writers => call'[Main].snap = call[Main].snap
    BY <1>0, ThreadsTold, CallContinues
  <2>2. QED
    BY <1>0, <2>1, RowsStayCommitted DEF LifecycleInv, MainCalls, Writers
<1>4. SlotNamesRow'
  <2>1. running # NoSnapshot => running \in Ids /\ Exists(disk, running)
    BY <1>0 DEF OptIds, LifecycleInv, SlotNamesRow
  <2>2. QED
    BY <1>0, <2>1, RowsStayCommitted DEF SlotNamesRow, Exists
<1>5. OneKeeper'
  <2>1. ASSUME NEW v \in Workers, Keeps(v)'
        PROVE  /\ Own(v)' = Own(v)
               /\ \/ Keeps(v)
                  \/ v = c /\ Creating(v) /\ ~Exists(disk, Own(v))
    <3>1. CASE v # c
      BY <1>0, <2>1, <3>1, ForeignThreadFrame
    <3>2. CASE v = c /\ job[v].at # "opening"
      BY <1>0, <2>1, <3>2 DEF Keeps, Holds, Own, InBody
    <3>3. CASE v = c /\ job[v].at = "opening"
      <4>1. Holds(v)'
        BY <1>0, <2>1, <3>3 DEF Keeps
      <4>2. ~closed
        <5>1. ASSUME closed
              PROVE  FALSE
          <6>1. call'[v].at = "raised"
            BY <1>0, <3>3, <5>1, ClosedExecutesNothing, OutcomeTyped
            DEF Raise, PointerInv, TxnInv, Typed, TypeOK
          <6>2. QED
            BY <1>0, <3>3, <4>1, <6>1 DEF Holds, InBody, BodySteps
        <5>2. QED
          BY <5>1
      <4>3. CreatesRow(v)
        BY <4>2 DEF LifecycleInv, ThreadRow, NewRow, CreatesRow
      <4>4. QED
        BY <1>0, <3>3, <4>1, <4>3, InsertedRow DEF SlotInv, CreatesRow
    <3>4. QED
      BY <3>1, <3>2, <3>3
  <2>2. ASSUME NEW v \in Workers, NEW w \in Workers, v # w,
               Keeps(v)', Keeps(w)', Own(v)' = Own(w)'
        PROVE  FALSE
    <3>1. ASSUME NEW u \in Workers, Keeps(u)
          PROVE  Exists(disk, Own(u))
      BY <3>1 DEF LifecycleInv, ThreadRow, KeptRow
    <3>2. QED
      BY <2>1, <2>2, <3>1 DEF LifecycleInv, OneKeeper
  <2>3. QED
    BY <2>2 DEF OneKeeper
<1>6. QED
  BY <1>1, <1>2, <1>3, <1>4, <1>5 DEF LifecycleInv

-----------------------------------------------------------------------------
(* A step of a refresh between two statements.                               *)

LEMMA EndedThreadRow ==
  ASSUME LifecycleInv, NEW w \in Workers, NEW r, EndsWith(w, r), NoStatement,
         ~Promoting(w)
  PROVE  /\ ThreadRow(w)'
         /\ Keeps(w)' => Keeps(w) /\ Own(w)' = Own(w)
<1>0. /\ w \in Clients /\ call \in [Clients -> Calls]
      /\ job \in [Workers -> Jobs] /\ KeptRow(w)
  BY WorkersAreClients
  DEF LifecycleInv, SlotInv, JobInv, PointerInv, TxnInv, Typed, TypeOK,
      ThreadRow
<1>1. /\ job'[w].at = "idle"
      /\ job'[w].snap = job[w].snap
      /\ job'[w].result = r
      /\ call'[w] = NoCall
  BY <1>0 DEF EndsWith, End, NoJob
<1>2. CallOfJob(w)' /\ ReportsLater(w)' /\ NewRow(w)'
  BY <1>1
  DEF CallOfJob, ReportsLater, NewRow, Creating, NoCall, Steps, TxnSteps,
      AutoSteps
<1>3. Keeps(w)' =>
        /\ Keeps(w) /\ Own(w)' = Own(w)
        /\ Succeeded(w)' <=> Succeeded(w)
  <2> SUFFICES ASSUME Keeps(w)'
               PROVE  /\ Keeps(w) /\ Own(w)' = Own(w)
                      /\ Succeeded(w)' <=> Succeeded(w)
    OBVIOUS
  <2>1. job[w].snap # NoSnapshot
    BY <1>1 DEF Keeps, Holds, InBody, BodySteps
  <2>2. Holds(w) /\ job[w].at # "opening"
    BY <2>1 DEF EndsWith
  <2>3. Own(w)' = Own(w)
    BY <1>1, <2>2 DEF Own
  <2>4. Succeeded(w) => Finished(w)
    BY <2>2
    DEF Succeeded, Finished, Holds, InBody, BodySteps, Ended
  <2>5. Succeeded(w)' <=> Succeeded(w)
    BY <1>1, <2>1, <2>4 DEF EndsWith, Succeeded
  <2>6. QED
    BY <2>2, <2>3, <2>5 DEF Keeps
<1>4. KeptRow(w)'
  BY <1>0, <1>3 DEF KeptRow, NoStatement, Exists, Unpublished
<1>5. QED
  BY <1>2, <1>3, <1>4 DEF ThreadRow

LEMMA JobStepThreadRow ==
  ASSUME LifecycleInv, NEW w \in Workers, JobStep(w)
  PROVE  /\ ThreadRow(w)'
         /\ Keeps(w)' => Keeps(w) /\ Own(w)' = Own(w)
<1>0. JobInv /\ ThreadRow(w)
  BY DEF LifecycleInv, SlotInv
<1>1. /\ Holds(w)' => Holds(w) /\ ~Finished(w) /\ Own(w)' = Own(w)
      /\ ~Creating(w)'
      /\ ~Promoting(w)
      /\ CallOfJob(w)'
      /\ NoStatement
  BY <1>0, JobStepPassesRow
<1>2. CASE \E r : EndsWith(w, r)
  BY <1>1, <1>2, EndedThreadRow
<1>3. ASSUME ~Settled(w)', ReportsLater(w)'
      PROVE  /\ ThreadRow(w)'
             /\ Keeps(w)' => Keeps(w) /\ Own(w)' = Own(w)
  <2>1. Keeps(w)' =>
          /\ Keeps(w) /\ Own(w)' = Own(w)
          /\ ~Succeeded(w) /\ ~Succeeded(w)'
    <3> SUFFICES ASSUME Keeps(w)'
                 PROVE  /\ Keeps(w) /\ Own(w)' = Own(w)
                        /\ ~Succeeded(w) /\ ~Succeeded(w)'
      OBVIOUS
    <3>1. Holds(w)' /\ ~Finished(w)'
      BY <1>3 DEF Keeps, Settled
    <3>2. Holds(w) /\ ~Finished(w) /\ Own(w)' = Own(w)
      BY <1>1, <3>1
    <3>3. ~Succeeded(w)'
      BY <3>1 DEF Succeeded, Finished, Holds, InBody, BodySteps, Ended
    <3>4. ~Succeeded(w)
      BY <3>2 DEF Succeeded, Finished, Holds, InBody, BodySteps, Ended
    <3>5. QED
      BY <3>2, <3>3, <3>4 DEF Keeps
  <2>2. KeptRow(w)'
    BY <1>0, <1>1, <2>1
    DEF ThreadRow, KeptRow, NoStatement, Exists, Unpublished
  <2>3. NewRow(w)'
    BY <1>1 DEF NewRow
  <2>4. QED
    BY <1>1, <1>3, <2>1, <2>2, <2>3 DEF ThreadRow
<1>4. QED
  BY <1>0, <1>2, <1>3, JobStepSettles DEF ThreadRow

LEMMA StartThreadRow ==
  ASSUME LifecycleInv, NEW w \in Workers, StartRefresh(w)
  PROVE  ThreadRow(w)' /\ ~Keeps(w)'
<1>0. JobInv /\ job \in [Workers -> Jobs]
  BY DEF LifecycleInv, SlotInv, JobInv
<1>1. ~Holds(w)' /\ ~Creating(w)' /\ CallOfJob(w)'
  BY <1>0, StartHoldsNothing
<1>2. /\ job'[w].at \in {"opening", "reading_current"}
      /\ job'[w].snap = NoSnapshot
  BY <1>0
  DEF StartRefresh, StartFullRefresh, StartSingleProjectRefresh, NoJob
<1>3. ~Keeps(w)'
  BY <1>1, <1>2 DEF Keeps
<1>4. QED
  BY <1>1, <1>2, <1>3 DEF ThreadRow, NewRow, KeptRow, ReportsLater

(* A thread that does not move keeps its row, also when the connection is    *)
(* closed under it.                                                          *)
LEMMA UnmovedThread ==
  ASSUME NEW v \in Workers, ThreadRow(v),
         job'[v] = job[v], call'[v] = call[v], disk' = disk,
         \/ db' = db /\ closed' = closed
         \/ db' = disk /\ closed'
  PROVE  /\ ThreadRow(v)'
         /\ Keeps(v)' <=> Keeps(v)
         /\ Own(v)' = Own(v)
<1>1. /\ Own(v)' = Own(v)
      /\ Keeps(v)' <=> Keeps(v)
      /\ Creating(v)' <=> Creating(v)
      /\ Succeeded(v)' <=> Succeeded(v)
  <2>1. Own(v)' = Own(v)
    BY DEF Own
  <2>2. Holds(v)' <=> Holds(v)
    BY DEF Holds, InBody
  <2>3. Keeps(v)' <=> Keeps(v)
    BY <2>2 DEF Keeps
  <2>4. Creating(v)' <=> Creating(v)
    BY DEF Creating
  <2>5. Succeeded(v)' <=> Succeeded(v)
    BY DEF Succeeded
  <2>6. QED
    BY <2>1, <2>3, <2>4, <2>5
<1>2. CallOfJob(v)' /\ ReportsLater(v)'
  BY DEF ThreadRow, CallOfJob, ReportsLater
<1>3. NewRow(v)'
  BY <1>1 DEF ThreadRow, NewRow, Exists
<1>4. KeptRow(v)'
  <2>1. CASE db' = db /\ closed' = closed
    <3>1. Promoting(v)' <=> Promoting(v)
      BY <2>1 DEF Promoting
    <3>2. QED
      BY <1>1, <2>1, <3>1 DEF ThreadRow, KeptRow, Exists, Unpublished
  <2>2. CASE db' = disk /\ closed'
    BY <1>1, <2>2 DEF ThreadRow, KeptRow, Exists, Unpublished
  <2>3. QED
    BY <2>1, <2>2
<1>5. QED
  BY <1>1, <1>2, <1>3, <1>4 DEF ThreadRow

LEMMA StillOneKeeper ==
  ASSUME OneKeeper,
         \A v \in Workers : Keeps(v)' => Keeps(v) /\ Own(v)' = Own(v)
  PROVE  OneKeeper'
  BY DEF OneKeeper

(* A step of thread w between two statements.                                *)
LEMMA PassingThread ==
  ASSUME LifecycleInv, NEW w \in Workers, NoStatement,
         \A v \in Workers : v # w => job'[v] = job[v] /\ call'[v] = call[v],
         call'[Main] = call[Main], phase' = phase,
         tick' \in Ticks, initial' \in BOOLEAN,
         SlotInv', SlotNamesRow', ThreadRow(w)',
         Keeps(w)' => Keeps(w) /\ Own(w)' = Own(w)
  PROVE  LifecycleInv'
<1>1. \A v \in Workers : v # w => /\ ThreadRow(v)'
                                  /\ Keeps(v)' <=> Keeps(v)
                                  /\ Own(v)' = Own(v)
  BY UnmovedThread DEF LifecycleInv, NoStatement
<1>2. OneKeeper'
  BY <1>1, StillOneKeeper DEF LifecycleInv
<1>3. MainCalls'
  BY DEF LifecycleInv, MainCalls, NoStatement, Exists
<1>4. QED
  BY <1>1, <1>2, <1>3 DEF LifecycleInv

-----------------------------------------------------------------------------
(* The steps of the process, one lemma for each kind.                        *)

(* A step between two statements frees the slot, takes it for the snapshot   *)
(* that begin_snapshot returned, or leaves it alone.                         *)
LEMMA SlotAfterJobStep ==
  ASSUME NEW w \in Workers, JobStep(w)
  PROVE  \/ running' \in {running, NoSnapshot}
         \/ TryStart(w) /\ running' = call[w].snap
  BY DEF JobStep, CheckScope, OpenSingleSnapshot, TryStart, RejectStart,
     StartRaises, EnumerateProjects, CatalogPopulated, WriteProject,
     ProjectWritten, GitLabRequestFails, CommitJob, CompleteJob, AbortEnds,
     BodyRaises, Release

LEMMA WorkingKeeps ==
  ASSUME LifecycleInv, NEW w \in Workers, Working(w)
  PROVE  LifecycleInv'
<1>0. /\ JobStep(w) /\ JobInv /\ SlotInv
      /\ phase' = phase /\ tick' = tick /\ initial' = initial
  BY DEF Working, lifecycleVars, LifecycleInv, SlotInv
<1>1. NoStatement
  BY <1>0, JobStepPassesRow
<1>2. SlotInv'
  BY <1>0, NextSlot DEF CoordinatorNext
<1>3. \A v \in Workers : v # w => job'[v] = job[v] /\ call'[v] = call[v]
  BY <1>0, JobStepKnows
<1>4. call'[Main] = call[Main]
  BY <1>0, ThreadsTold, JobStepCalls
<1>5. SlotNamesRow'
  <2>1. CASE running' \in {running, NoSnapshot}
    BY <1>1, <2>1 DEF LifecycleInv, SlotNamesRow, NoStatement, Exists
  <2>2. CASE TryStart(w) /\ running' = call[w].snap
    <3>1. Keeps(w) /\ Own(w) = call[w].snap
      BY <2>2 DEF TryStart, Returned, Keeps, Holds, Own
    <3>2. Exists(disk, call[w].snap)
      BY <3>1 DEF LifecycleInv, ThreadRow, KeptRow
    <3>3. QED
      BY <1>1, <2>2, <3>2 DEF SlotNamesRow, NoStatement, Exists
  <2>3. QED
    BY <1>0, <2>1, <2>2, SlotAfterJobStep
<1>6. tick' \in Ticks /\ initial' \in BOOLEAN
  BY <1>0 DEF LifecycleInv
<1>7. QED
  BY <1>0, <1>1, <1>2, <1>3, <1>4, <1>5, <1>6, JobStepThreadRow,
     PassingThread

LEMMA StartKeeps ==
  ASSUME LifecycleInv, NEW w \in Workers, StartRefresh(w), phase' = phase,
         tick' \in Ticks, initial' \in BOOLEAN
  PROVE  LifecycleInv'
<1>0. JobInv /\ SlotInv
  BY DEF LifecycleInv, SlotInv
<1>1. /\ NoStatement
      /\ \A c \in Clients : c # w => call'[c] = call[c]
      /\ \A v \in Workers : v # w => job'[v] = job[v]
  BY <1>0, StartHoldsNothing
<1>2. SlotInv'
  BY <1>0, NextSlot DEF CoordinatorNext
<1>3. call'[Main] = call[Main]
  BY <1>1, ThreadsTold
<1>4. SlotNamesRow'
  BY <1>0, <1>1, StartKnows
  DEF LifecycleInv, SlotNamesRow, NoStatement, Exists
<1>5. QED
  BY <1>1, <1>2, <1>3, <1>4, WorkersAreClients, StartThreadRow, PassingThread

(* A request on the closed connector ends the refresh with its snapshot in   *)
(* progress and the slot taken.                                              *)
LEMMA ClosedConnectorKeeps ==
  ASSUME LifecycleInv, NEW w \in Workers, RequestOnClosedConnector(w)
  PROVE  LifecycleInv' /\ [Next]_storeVars
<1>0. /\ End(w, "error") /\ NoStatement /\ running' = running
      /\ phase' = phase /\ tick' = tick /\ initial' = initial
      /\ JobInv /\ SlotInv /\ WorkerInv(w) /\ w \in Clients
      /\ job \in [Workers -> Jobs] /\ call \in [Clients -> Calls]
      /\ job[w].at \in {"enumerating", "analyzing"}
  BY WorkersAreClients
  DEF RequestOnClosedConnector, Uncaught, lifecycleVars, LifecycleInv, SlotInv,
      JobInv, PointerInv, TxnInv, Typed, TypeOK
<1>1. call[w].at \in Ended
  BY <1>0 DEF WorkerInv, BetweenCalls
<1>2. /\ call' = [call EXCEPT ![w] = NoCall]
      /\ \A v \in Workers : v # w => job'[v] = job[v] /\ call'[v] = call[v]
      /\ call'[Main] = call[Main]
      /\ call'[w] = NoCall
      /\ job'[w].at = "idle"
  BY <1>0, WorkersAreClients, ThreadsTold DEF End, NoJob
<1>3. [Next]_storeVars /\ PointerInv'
  BY <1>0, <1>1, <1>2, WorkerInvokes, NextPointer DEF JobInv
<1>4. JobInv'
  <2>1. job' \in [Workers -> Jobs]
    <3> DEFINE j == [NoJob EXCEPT !.snap = job[w].snap, !.result = "error"]
    <3>1. j \in Jobs
      BY <1>0, NoJobTyped DEF Jobs, Results
    <3>2. job' = [job EXCEPT ![w] = j]
      BY <1>0 DEF End
    <3> HIDE DEF j
    <3>3. QED
      BY <1>0, <3>1, <3>2
  <2>2. WorkerInv(w)'
    BY <1>2
    DEF WorkerInv, BetweenCalls, SnapshotKnown, TargetKnown, ReadsPointer,
        ParentExists, OpensSnapshot, InBody, BodySteps, NoCall, Ended
  <2>3. ASSUME NEW v \in Workers, v # w
        PROVE  WorkerInv(v)'
    BY <1>0, <1>2, <1>3, <2>3, WorkerFrame
  <2>4. QED
    BY <1>0, <1>3, <2>1, <2>2, <2>3 DEF JobInv
<1>5. SlotInv'
  <2>1. ~InBody(w)' /\ \A v \in Workers : v # w => (InBody(v)' <=> InBody(v))
    BY <1>2 DEF InBody, BodySteps
  <2>2. SingleFlight'
    BY <1>0, <1>2, <2>1 DEF SlotInv, SingleFlight
  <2>3. QED
    BY <1>4, <2>2 DEF SlotInv
<1>6. EndsWith(w, "error") /\ ~Promoting(w)
  BY <1>0, <1>1
  DEF EndsWith, Holds, Finished, InBody, BodySteps, Promoting, Ended
<1>7. SlotNamesRow'
  BY <1>0 DEF LifecycleInv, SlotNamesRow, NoStatement, Exists
<1>8. tick' \in Ticks /\ initial' \in BOOLEAN
  BY <1>0 DEF LifecycleInv
<1>9. QED
  BY <1>0, <1>2, <1>3, <1>5, <1>6, <1>7, <1>8, EndedThreadRow, PassingThread

(* The main thread's abort_snapshot, on the snapshot that holds the slot.    *)
LEMMA AbortKeeps ==
  ASSUME LifecycleInv, AbortInFlight
  PROVE  LifecycleInv' /\ [Next]_storeVars
<1> DEFINE k == WriterCall("abort_snapshot", running)
<1>0. /\ running # NoSnapshot /\ NoStatement
      /\ job' = job /\ running' = running
      /\ phase = "stdio_closed" /\ phase' = "aborting"
      /\ tick' = tick /\ initial' = initial
      /\ call' = [call EXCEPT ![Main] = k]
      /\ JobInv /\ SlotInv /\ Main \in Clients
      /\ call \in [Clients -> Calls]
  BY ThreadsTold
  DEF AbortInFlight, Advance, coordinatorVars, LifecycleInv, SlotInv, JobInv,
      PointerInv, TxnInv, Typed, TypeOK
<1>1. running \in Ids /\ Exists(disk, running)
  BY <1>0 DEF LifecycleInv, SlotNamesRow, JobInv, OptIds
<1>2. k.at = "check" /\ k.op = "abort_snapshot" /\ k.snap = running
  BY WriterCallChecks DEF WriterCall, Writers
<1>3. call[Main].at \in Ended
  BY <1>0 DEF LifecycleInv, MainCalls, Calls
<1>4. Legal(Main, k)
  BY <1>1, <1>2, ThreadsAssumption DEF Legal, LegalCalls, WriterCall
<1> HIDE DEF k
<1>5. /\ call'[Main] = k
      /\ \A w \in Workers : job'[w] = job[w] /\ call'[w] = call[w]
  BY <1>0, WorkersAreClients, ThreadsTold
<1>6. [Next]_storeVars /\ PointerInv'
  <2>1. Invoke(Main)
    BY <1>0, <1>3, <1>4 DEF Invoke, Legal
  <2>2. QED
    BY <1>0, <2>1, NextPointer DEF Next, JobInv
<1>7. SlotInv'
  BY <1>0, <1>5, <1>6, WorkerFrame DEF SlotInv, JobInv, SingleFlight, InBody
<1>8. \A w \in Workers : /\ ThreadRow(w)'
                         /\ Keeps(w)' <=> Keeps(w)
                         /\ Own(w)' = Own(w)
  BY <1>0, <1>5, UnmovedThread DEF LifecycleInv, NoStatement
<1>9. MainCalls' /\ SlotNamesRow'
  BY <1>0, <1>1, <1>2, <1>5 DEF MainCalls, SlotNamesRow, NoStatement, Exists
<1>10. OneKeeper'
  BY <1>8, StillOneKeeper DEF LifecycleInv
<1>11. phase' \in Phases /\ tick' \in Ticks /\ initial' \in BOOLEAN
  BY <1>0 DEF LifecycleInv, Phases
<1>12. QED
  BY <1>6, <1>7, <1>8, <1>9, <1>10, <1>11 DEF LifecycleInv

LEMMA CloseKeeps ==
  ASSUME LifecycleInv, CloseKnowledgeStore
  PROVE  LifecycleInv'
<1>0. /\ CloseStore /\ db' = disk /\ disk' = disk /\ closed'
      /\ call' = call /\ job' = job /\ running' = running
      /\ phase = "connector_closed" /\ phase' = "store_closed"
      /\ tick' = tick /\ initial' = initial /\ JobInv
  BY DEF CloseKnowledgeStore, Advance, CloseStore, coordinatorVars,
     LifecycleInv, SlotInv
<1>1. [Next]_storeVars /\ PointerInv'
  BY <1>0, NextPointer DEF Next, JobInv
<1>2. SlotInv'
  BY <1>0, <1>1, WorkerFrame
  DEF LifecycleInv, SlotInv, JobInv, SingleFlight, InBody
<1>3. \A w \in Workers : /\ ThreadRow(w)'
                         /\ Keeps(w)' <=> Keeps(w)
                         /\ Own(w)' = Own(w)
  BY <1>0, UnmovedThread DEF LifecycleInv
<1>4. MainCalls' /\ SlotNamesRow'
  BY <1>0 DEF LifecycleInv, MainCalls, SlotNamesRow, Exists
<1>5. OneKeeper'
  BY <1>3, StillOneKeeper DEF LifecycleInv
<1>6. phase' \in Phases /\ tick' \in Ticks /\ initial' \in BOOLEAN
  BY <1>0 DEF LifecycleInv, Phases
<1>7. QED
  BY <1>2, <1>3, <1>4, <1>5, <1>6 DEF LifecycleInv

(* The steps that no refresh and no store call notices.                      *)
LEMMA AdvanceKeeps ==
  ASSUME LifecycleInv, UNCHANGED vars, phase' \in Phases, tick' \in Ticks,
         initial' \in BOOLEAN, phase' = phase \/ call[Main].at \notin Steps
  PROVE  LifecycleInv'
<1>0. /\ db' = db /\ disk' = disk /\ closed' = closed /\ call' = call
      /\ job' = job /\ running' = running /\ SlotInv'
  BY NextSlot DEF vars, storeVars, coordinatorVars, LifecycleInv
<1>1. \A w \in Workers : /\ ThreadRow(w)'
                         /\ Keeps(w)' <=> Keeps(w)
                         /\ Own(w)' = Own(w)
  BY <1>0, UnmovedThread DEF LifecycleInv
<1>2. MainCalls' /\ SlotNamesRow'
  BY <1>0 DEF LifecycleInv, MainCalls, SlotNamesRow, Exists
<1>3. OneKeeper'
  BY <1>1, StillOneKeeper DEF LifecycleInv
<1>4. QED
  BY <1>0, <1>1, <1>2, <1>3 DEF LifecycleInv

LEMMA IdleThread ==
  ASSUME NEW w \in Workers, job[w] = NoJob, call[w] = NoCall
  PROVE  ThreadRow(w) /\ ~Keeps(w)
  BY DEF ThreadRow, Keeps, CallOfJob, ReportsLater, NewRow, KeptRow, Creating,
     Holds, InBody, BodySteps, NoJob, NoCall, Steps, TxnSteps, AutoSteps

LEMMA RestartKeeps ==
  ASSUME LifecycleInv, RestartServer
  PROVE  LifecycleInv'
<1>0. /\ SlotInv' /\ running' = NoSnapshot
      /\ job' = [w \in Workers |-> NoJob]
      /\ call' = [c \in Clients |-> NoCall]
      /\ phase' = "serving" /\ tick' = "sleeping" /\ initial' = TRUE
  BY NextSlot
  DEF RestartServer, Restart, RestartStore, CoordinatorNext, LifecycleInv
<1>1. ASSUME NEW w \in Workers
      PROVE  ThreadRow(w)' /\ ~Keeps(w)'
  <2>1. job'[w] = NoJob /\ call'[w] = NoCall
    BY <1>0, WorkersAreClients
  <2>2. QED
    BY <2>1
    DEF ThreadRow, Keeps, CallOfJob, ReportsLater, NewRow, KeptRow, Creating,
        Holds, InBody, BodySteps, NoJob, NoCall, Steps, TxnSteps, AutoSteps
<1>2. MainCalls' /\ SlotNamesRow' /\ OneKeeper'
  BY <1>0, <1>1, ThreadsTold
  DEF MainCalls, SlotNamesRow, OneKeeper, NoCall, Steps, TxnSteps, AutoSteps
<1>3. QED
  BY <1>0, <1>1, <1>2 DEF LifecycleInv, Phases, Ticks

LEMMA InitLifecycle == LifecycleInit => LifecycleInv
<1> SUFFICES ASSUME LifecycleInit
             PROVE  LifecycleInv
  OBVIOUS
<1>0. /\ SlotInv /\ running = NoSnapshot
      /\ job = [w \in Workers |-> NoJob]
      /\ call = [c \in Clients |-> NoCall]
  BY InitSlot DEF LifecycleInit, CoordinatorInit, Init
<1>1. \A w \in Workers : ThreadRow(w) /\ ~Keeps(w)
  BY <1>0, WorkersAreClients, IdleThread
<1>2. MainCalls /\ SlotNamesRow /\ OneKeeper
  BY <1>0, <1>1, ThreadsTold
  DEF MainCalls, SlotNamesRow, OneKeeper, NoCall, Steps, TxnSteps, AutoSteps
<1>3. QED
  BY <1>0, <1>1, <1>2 DEF LifecycleInv, LifecycleInit, Phases, Ticks

LEMMA NextLifecycle ==
  LifecycleInv /\ [LifecycleNext]_allVars => LifecycleInv'
<1> SUFFICES ASSUME LifecycleInv, [LifecycleNext]_allVars
             PROVE  LifecycleInv'
  OBVIOUS
<1>0. /\ phase \in Phases /\ tick \in Ticks /\ initial \in BOOLEAN
      /\ phase # "aborting" => call[Main].at \notin Steps
      /\ Scheduler \in Workers /\ Initial \in Workers /\ Tools \subseteq Workers
  BY ThreadsAssumption DEF LifecycleInv, MainCalls
<1>1. CASE SchedulerWakes \/ TickEnds
  BY <1>0, <1>1, AdvanceKeeps DEF SchedulerWakes, TickEnds, Ticks
<1>2. CASE SchedulerTick
  BY <1>0, <1>2, StartKeeps DEF SchedulerTick, StartRefresh, Ticks
<1>3. CASE InitialRefresh
  BY <1>0, <1>3, StartKeeps DEF InitialRefresh, StartRefresh
<1>4. ASSUME NEW w \in Tools, ToolRefresh(w)
      PROVE  LifecycleInv'
  BY <1>0, <1>4, StartKeeps DEF ToolRefresh, lifecycleVars
<1>5. ASSUME NEW w \in Workers, Working(w) \/ RequestOnClosedConnector(w)
      PROVE  LifecycleInv'
  BY <1>5, WorkingKeeps, ClosedConnectorKeeps
<1>6. ASSUME NEW c \in Clients, Executing(c)
      PROVE  LifecycleInv'
  BY <1>6, ExecutingKeeps
<1>7. CASE BeginShutdown \/ CloseStdio \/ NothingToAbort \/ CloseConnector
             \/ Exit
  BY <1>0, <1>7, AdvanceKeeps
  DEF BeginShutdown, CloseStdio, NothingToAbort, CloseConnector, Exit,
      Advance, Phases
<1>8. CASE AbortReturns
  <2>1. call[Main].at \notin Steps
    BY <1>8 DEF AbortReturns, Steps, TxnSteps, AutoSteps
  <2>2. QED
    BY <1>0, <1>8, <2>1, AdvanceKeeps DEF AbortReturns, Advance, Phases
<1>9. CASE AbortInFlight \/ CloseKnowledgeStore
  BY <1>9, AbortKeeps, CloseKeeps
<1>10. CASE RestartServer
  BY <1>10, RestartKeeps
<1>11. CASE UNCHANGED allVars
  BY <1>0, <1>11, AdvanceKeeps DEF allVars, lifecycleVars
<1>12. QED
  BY <1>1, <1>2, <1>3, <1>4, <1>5, <1>6, <1>7, <1>8, <1>9, <1>10, <1>11
  DEF LifecycleNext, ShutdownStep

-----------------------------------------------------------------------------
(* Types of the store, of every refresh, of the shutdown and of the threads  *)
(* it stops, through any shutdown, crash and restart.                        *)
THEOREM LifecycleTypeCorrect == LifecycleSpec => []LifecycleTypeOK
<1>1. LifecycleInv => LifecycleTypeOK
  BY DEF LifecycleInv, SlotInv, JobInv, PointerInv, TxnInv, Typed,
     LifecycleTypeOK, CoordinatorTypeOK
<1>2. QED
  BY <1>1, InitLifecycle, NextLifecycle, PTL DEF LifecycleSpec

(* What a refresh told its caller stays true while the main thread aborts    *)
(* its snapshot and closes the connector and the store under it: a "ok" is   *)
(* of a snapshot that was committed, and a snapshot whose refresh ended with *)
(* anything else never becomes the one readers are shown.                    *)
THEOREM ShutdownOutcomeSafe == LifecycleSpec => []OutcomeSurvivesShutdown
<1>1. LifecycleInv => OutcomeSurvivesShutdown
  <2> SUFFICES ASSUME LifecycleInv, NEW w \in Workers, job[w].at = "idle",
                      job[w].snap # NoSnapshot
               PROVE  IF job[w].result = "ok"
                        THEN disk.status[job[w].snap]
                               \in {"completed", "failed"}
                        ELSE disk.status[job[w].snap] # "completed"
                               /\ disk.current # job[w].snap
    BY DEF OutcomeSurvivesShutdown
  <2>1. /\ Keeps(w)
        /\ Own(w) = job[w].snap
        /\ Succeeded(w) <=> job[w].result = "ok"
    BY DEF Keeps, Own, Succeeded
  <2>2. QED
    BY <2>1 DEF LifecycleInv, ThreadRow, KeptRow, Unpublished
<1>2. QED
  BY <1>1, InitLifecycle, NextLifecycle, PTL DEF LifecycleSpec

(* While a shutdown and the refreshes under it interleave, at most one       *)
(* refresh holds the slot.                                                   *)
THEOREM ShutdownOneRefresh == LifecycleSpec => []SingleFlight
<1>1. LifecycleInv => SingleFlight
  BY DEF LifecycleInv, SlotInv
<1>2. QED
  BY <1>1, InitLifecycle, NextLifecycle, PTL DEF LifecycleSpec

-----------------------------------------------------------------------------
(* The whole process as a caller of the store.                               *)

LEMMA LifecycleStepIsStoreStep ==
  ASSUME LifecycleInv, [LifecycleNext]_allVars
  PROVE  [Next]_storeVars
<1>0. JobInv /\ Scheduler \in Workers /\ Initial \in Workers
        /\ Tools \subseteq Workers
  BY ThreadsAssumption DEF LifecycleInv, SlotInv
<1>1. CASE SchedulerTick \/ InitialRefresh \/ \E w \in Tools : ToolRefresh(w)
  BY <1>0, <1>1, StartIsInvoke
  DEF SchedulerTick, InitialRefresh, ToolRefresh, StartRefresh
<1>2. ASSUME NEW w \in Workers, Working(w) \/ RequestOnClosedConnector(w)
      PROVE  [Next]_storeVars
  BY <1>0, <1>2, JobStepIsInvoke, ClosedConnectorKeeps DEF Working
<1>3. CASE \E c \in Clients : Executing(c)
  BY <1>3 DEF Executing, StatementStep, Next
<1>4. CASE AbortInFlight \/ CloseKnowledgeStore \/ RestartServer
  BY <1>4, AbortKeeps
  DEF CloseKnowledgeStore, RestartServer, Restart, Next
<1>5. CASE \/ SchedulerWakes \/ TickEnds \/ BeginShutdown \/ CloseStdio
           \/ NothingToAbort \/ AbortReturns \/ CloseConnector \/ Exit
           \/ UNCHANGED allVars
  BY <1>5
  DEF SchedulerWakes, TickEnds, BeginShutdown, CloseStdio, NothingToAbort,
      AbortReturns, CloseConnector, Exit, allVars, vars
<1>6. QED
  BY <1>1, <1>2, <1>3, <1>4, <1>5 DEF LifecycleNext, ShutdownStep

(* The main thread's abort_snapshot and close, under running refreshes, and  *)
(* the refreshes themselves call the store only as its specification lets    *)
(* its callers do: what is proved of arbitrary callers holds of the process. *)
THEOREM LifecycleImplementsStore == LifecycleSpec => ImplementsKnowledgeStore
<1>1. LifecycleInit => Init
  BY DEF LifecycleInit, CoordinatorInit
<1>2. QED
  BY <1>1, InitLifecycle, NextLifecycle, LifecycleStepIsStoreStep, PTL
  DEF LifecycleSpec, ImplementsKnowledgeStore, Spec

-----------------------------------------------------------------------------
(* The cadence.                                                              *)

CadenceInv == LifecycleInv /\ TickTold

LEMMA NextCadence == CadenceInv /\ [LifecycleNext]_allVars => CadenceInv'
<1> SUFFICES ASSUME CadenceInv, [LifecycleNext]_allVars
             PROVE  TickTold'
  BY NextLifecycle DEF CadenceInv
<1> USE DEF CadenceInv
<1>0. /\ JobInv /\ job \in [Workers -> Jobs] /\ TickTold
      /\ Scheduler \in Workers /\ Initial \in Workers /\ Tools \subseteq Workers
      /\ Scheduler # Initial /\ Scheduler \notin Tools
  BY ThreadsAssumption DEF LifecycleInv, SlotInv, JobInv
<1>1. CASE SchedulerWakes \/ TickEnds
  BY <1>0, <1>1
  DEF SchedulerWakes, TickEnds, vars, coordinatorVars, TickTold
<1>2. CASE SchedulerTick
  BY <1>2 DEF SchedulerTick, TickTold
<1>3. CASE InitialRefresh \/ \E w \in Tools : ToolRefresh(w)
  <2>1. PICK w \in Workers : w # Scheduler /\ StartRefresh(w) /\ tick' = tick
    BY <1>0, <1>3 DEF InitialRefresh, ToolRefresh, StartRefresh, lifecycleVars
  <2>2. job'[Scheduler] = job[Scheduler]
    BY <1>0, <2>1, StartHoldsNothing
  <2>3. QED
    BY <1>0, <2>1, <2>2 DEF TickTold
<1>4. ASSUME NEW w \in Workers, Working(w) \/ RequestOnClosedConnector(w)
      PROVE  TickTold'
  <2>1. tick' = tick
    BY <1>4 DEF Working, RequestOnClosedConnector, lifecycleVars
  <2>2. CASE w = Scheduler
    <3>1. job[w].at # "idle"
      BY <1>4
      DEF Working, RequestOnClosedConnector, JobStep, CheckScope,
          OpenSingleSnapshot, TryStart, RejectStart, StartRaises,
          EnumerateProjects, CatalogPopulated, WriteProject, ProjectWritten,
          GitLabRequestFails, CommitJob, CompleteJob, AbortEnds, BodyRaises
    <3>2. QED
      BY <1>0, <2>1, <2>2, <3>1 DEF TickTold
  <2>3. CASE w # Scheduler
    <3>1. job'[Scheduler] = job[Scheduler]
      <4>1. CASE Working(w)
        BY <1>0, <2>3, <4>1, JobStepKnows DEF Working
      <4>2. CASE RequestOnClosedConnector(w)
        BY <1>0, <2>3, <4>2 DEF RequestOnClosedConnector, Uncaught, End
      <4>3. QED
        BY <1>4, <4>1, <4>2
    <3>2. QED
      BY <1>0, <2>1, <3>1 DEF TickTold
  <2>4. QED
    BY <2>2, <2>3
<1>5. CASE \E c \in Clients : Executing(c)
  BY <1>0, <1>5
  DEF Executing, StatementStep, coordinatorVars, lifecycleVars, TickTold
<1>6. CASE BeginShutdown \/ ShutdownStep
  BY <1>0, <1>6
  DEF BeginShutdown, ShutdownStep, CloseStdio, NothingToAbort, AbortInFlight,
      AbortReturns, CloseConnector, CloseKnowledgeStore, Exit, Advance, vars,
      coordinatorVars, TickTold
<1>7. CASE RestartServer
  BY <1>0, <1>7, NoJobTyped DEF RestartServer, Restart, TickTold
<1>8. CASE UNCHANGED allVars
  BY <1>0, <1>8 DEF allVars, vars, coordinatorVars, lifecycleVars, TickTold
<1>9. QED
  BY <1>1, <1>2, <1>3, <1>4, <1>5, <1>6, <1>7, <1>8 DEF LifecycleNext

LEMMA InitCadence == LifecycleInit => CadenceInv
<1> SUFFICES ASSUME LifecycleInit
             PROVE  CadenceInv
  OBVIOUS
<1>1. Scheduler \in Workers /\ job = [w \in Workers |-> NoJob]
  BY ThreadsAssumption DEF LifecycleInit, CoordinatorInit
<1>2. QED
  BY <1>1, InitLifecycle, NoJobTyped DEF CadenceInv, TickTold

(* scheduler.stop() sets the stop event and waits for nothing: from then on  *)
(* a scheduled refresh begins only if its sleep had timed out before, so one *)
(* at most, and no thread is in a scheduled refresh while the scheduler      *)
(* sleeps or after it has exited.                                            *)
THEOREM CadenceEnds == LifecycleSpec => StopEndsCadence
<1>1. ASSUME CadenceInv, LifecycleNext, StopEventSet,
             tick \in {"sleeping", "exited"}
      PROVE  tick' \in {"sleeping", "exited"} /\ job[Scheduler].at = "idle"
  <2>1. job[Scheduler].at = "idle"
    BY <1>1 DEF CadenceInv, TickTold
  <2>2. tick' \in {"sleeping", "exited"}
    BY <1>1
    DEF LifecycleNext, SchedulerWakes, SchedulerTick, TickEnds, InitialRefresh,
        ToolRefresh, Working, RequestOnClosedConnector, Executing,
        BeginShutdown, ShutdownStep, CloseStdio, NothingToAbort,
        AbortInFlight, AbortReturns, CloseConnector, CloseKnowledgeStore, Exit,
        RestartServer, Advance, lifecycleVars, StopEventSet
  <2>3. QED
    BY <2>1, <2>2
<1>2. QED
  BY <1>1, InitCadence, NextCadence, PTL DEF LifecycleSpec, StopEndsCadence

-----------------------------------------------------------------------------
(* The start of the process.                                                *)

Starting == {"connector", "ipv4", "ipv6", "ready"}
Started == {"servers", "scheduler", "initial", "serving"}
Ending == {"stop_scheduler", "stop_scheduler_ok", "close", "close_ok"}

Resources == {"store", "connector", "scheduler"} \cup Sockets

(* What a line on stderr is about.                                           *)
Reports == {"base_url", "group_path", "access_token", "verify_ssl", "branch",
            "refresh_interval", "port", "store", "bind"}

StartupTypeOK ==
  /\ step \in {"config"} \cup Starting \cup Started \cup Ending
  /\ field \in 1..(Len(Fields) + 1)
  /\ held \subseteq Resources
  /\ attempted \in Seq(Sockets)
  /\ lines \in Seq(Reports)
  /\ ready \in BOOLEAN
  /\ exit \in {0, 1, NotYet}

(* The validators before the current one were satisfied.                     *)
FieldsChecked ==
  /\ \A i \in 1..(field - 1) : Verdict(Fields[i], environment[Fields[i]]) = "ok"
  /\ step # "config" => field = Len(Fields) + 1

(* In the configuration nothing is held, and an error ends the process.      *)
InConfig == step = "config" =>
  /\ held = {} /\ attempted = << >> /\ ~ready
  /\ exit \in {1, NotYet}
  /\ exit = NotYet => lines = << >>
  /\ Len(lines) <= 1
  /\ lines # << >> /\ field <= Len(Fields) => lines = <<Fields[field]>>

(* What is held grows by a resource for each step.                           *)
InStart == step \in Starting =>
  /\ ~ready /\ exit = NotYet /\ lines = << >>
  /\ held = CASE step = "connector" -> {"store"}
              [] step = "ipv4" -> {"store", "connector"}
              [] step = "ipv6" -> {"store", "connector", "ipv4"}
              [] step = "ready" -> {"store", "connector"} \cup Sockets
  /\ step \in {"connector", "ipv4"} => attempted = << >>
  /\ step = "ipv6" => attempted = <<"ipv4">>
  /\ step = "ready" => Len(attempted) = 2

(* From the line "ready" on main knows both sockets.                         *)
InService == step \in Started =>
  /\ ready /\ exit = NotYet /\ lines = << >>
  /\ Len(attempted) = 2
  /\ {"store", "connector"} \cup Sockets \subseteq held

(* The finally finds what it knows how to release, and the scheduler only if *)
(* the server was started; a clean end has been ready.                       *)
InFinally == step \in Ending =>
  /\ Len(lines) <= 1
  /\ ready => Len(attempted) = 2
  /\ ~ready => held \subseteq {"store", "connector"}
  /\ step \in {"stop_scheduler_ok", "close_ok"} => ready
  /\ exit = NotYet \/ (exit = ExitStatus /\ step \in {"close", "close_ok"})
  /\ exit # NotYet => held \subseteq (IF ready THEN {"scheduler"} ELSE {})

StartupInv ==
  /\ StartupTypeOK
  /\ FieldsChecked
  /\ InConfig
  /\ InStart
  /\ InService
  /\ InFinally

-----------------------------------------------------------------------------
LEMMA FieldsAreStrings == Len(Fields) = 7 /\ \A i \in 1..7 : Fields[i] \in Reports
<1>1. Len(Fields) = 7
  BY DEF Fields
<1>2. ASSUME NEW i \in 1..7
      PROVE  Fields[i] \in Reports
  <2>1. i \in {1, 2, 3, 4, 5, 6, 7}
    OBVIOUS
  <2> QED BY <2>1 DEF Fields, Reports
<1> QED BY <1>1, <1>2

LEMMA RangeOfAttempted == Range(<< >>) = {} /\ Range(<<"ipv4">>) = {"ipv4"}
BY DEF Range

LEMMA StartupInitInv == StartupInit => StartupInv
<1> SUFFICES ASSUME StartupInit PROVE StartupInv
  OBVIOUS
<1>1. StartupTypeOK
  <2>1. << >> \in Seq(Sockets) /\ << >> \in Seq(Reports)
    OBVIOUS
  <2>2. field \in 1..(Len(Fields) + 1)
    BY FieldsAreStrings DEF StartupInit
  <2>3. ready \in BOOLEAN
    BY DEF StartupInit
  <2> QED BY <2>1, <2>2, <2>3 DEF StartupInit, StartupTypeOK
<1>2. FieldsChecked /\ InConfig
  BY DEF StartupInit, FieldsChecked, InConfig, NotYet
<1>3. InStart /\ InService /\ InFinally
  BY DEF StartupInit, InStart, InService, InFinally, Starting, Started, Ending
<1> QED BY <1>1, <1>2, <1>3 DEF StartupInv

-----------------------------------------------------------------------------
(* The configuration and the store.                                         *)

LEMMA ValidFieldInv ==
  ASSUME StartupInv, ValidField
  PROVE  StartupInv'
<1> USE FieldsAreStrings DEF StartupInv
<1>1. step = "config" /\ step' = step /\ field' = field + 1 /\ field <= 7
      /\ UNCHANGED <<environment, held, attempted, lines, ready, exit>>
      /\ Verdict(Fields[field], environment[Fields[field]]) = "ok"
      /\ exit = NotYet
  BY DEF ValidField, Going
<1>2. StartupTypeOK'
  BY <1>1 DEF StartupTypeOK
<1>3. FieldsChecked'
  <2>1. ASSUME NEW i \in 1..(field' - 1)
        PROVE  i \in 1..(field - 1) \/ i = field
    BY <1>1 DEF StartupTypeOK
  <2> QED BY <1>1, <2>1 DEF FieldsChecked
<1>4. InConfig'
  BY <1>1 DEF InConfig
<1>5. InStart' /\ InService' /\ InFinally'
  BY <1>1 DEF InStart, InService, InFinally, Starting, Started, Ending
<1> QED BY <1>2, <1>3, <1>4, <1>5

LEMMA ExitAtOnceInv ==
  ASSUME StartupInv, Going("config"), NEW line \in Seq(Reports), ExitAtOnce(line),
         Len(line) <= 1,
         line # << >> /\ field <= Len(Fields) => line = <<Fields[field]>>
  PROVE  StartupInv'
<1> USE FieldsAreStrings DEF StartupInv
<1>1. /\ step = "config" /\ exit' = 1 /\ exit = NotYet /\ lines = << >>
      /\ UNCHANGED <<environment, step, field, held, attempted, ready>>
  BY DEF ExitAtOnce, Going, InConfig
<1>2. lines' = line
  BY <1>1 DEF ExitAtOnce
<1>3. StartupTypeOK'
  BY <1>1, <1>2 DEF StartupTypeOK
<1>4. FieldsChecked' /\ InConfig'
  BY <1>1, <1>2 DEF FieldsChecked, InConfig, NotYet
<1>5. InStart' /\ InService' /\ InFinally'
  BY <1>1 DEF InStart, InService, InFinally, Starting, Started, Ending
<1> QED BY <1>3, <1>4, <1>5

LEMMA InvalidFieldInv ==
  ASSUME StartupInv, InvalidField
  PROVE  StartupInv'
<1>1. Going("config") /\ field <= Len(Fields) /\ field \in 1..7
  BY FieldsAreStrings DEF InvalidField, StartupInv, StartupTypeOK
<1>2. CASE ExitAtOnce(<< >>)
  <2>1. << >> \in Seq(Reports) /\ Len(<< >>) <= 1
    OBVIOUS
  <2> QED BY <1>1, <1>2, <2>1, ExitAtOnceInv
<1>3. CASE ExitAtOnce(<<Fields[field]>>)
  <2>1. Fields[field] \in Reports
    BY <1>1, FieldsAreStrings
  <2>2. <<Fields[field]>> \in Seq(Reports) /\ Len(<<Fields[field]>>) <= 1
    BY <2>1
  <2> QED BY <1>1, <1>3, <2>2, ExitAtOnceInv
<1> QED BY <1>2, <1>3 DEF InvalidField

LEMMA StoreUnusableInv ==
  ASSUME StartupInv, StoreUnusable
  PROVE  StartupInv'
<1>1. Going("config") /\ ~(field <= Len(Fields)) /\ ExitAtOnce(<<"store">>)
  BY FieldsAreStrings DEF StoreUnusable, StartupInv, StartupTypeOK
<1>2. <<"store">> \in Seq(Reports) /\ Len(<<"store">>) <= 1
  BY DEF Reports
<1> QED BY <1>1, <1>2, ExitAtOnceInv

LEMMA OpenStoreInv ==
  ASSUME StartupInv, OpenStore
  PROVE  StartupInv'
<1> USE FieldsAreStrings DEF StartupInv
<1>1. /\ step = "config" /\ step' = "connector" /\ field = 8 /\ field' = field
      /\ held' = {"store"} /\ exit = NotYet /\ lines = << >>
      /\ ~ready /\ attempted = << >>
      /\ UNCHANGED <<environment, lines, exit, attempted, ready>>
  BY DEF OpenStore, Going, Reach, InConfig, StartupTypeOK
<1>2. StartupTypeOK'
  BY <1>1 DEF StartupTypeOK, Starting, Resources
<1>3. FieldsChecked' /\ InConfig'
  BY <1>1 DEF FieldsChecked, InConfig
<1>4. InStart' /\ InService' /\ InFinally'
  BY <1>1 DEF InStart, InService, InFinally, Starting, Started, Ending
<1> QED BY <1>2, <1>3, <1>4

-----------------------------------------------------------------------------
(* The steps up to the event loop.                                          *)

LEMMA ConnectorAndBindInv ==
  ASSUME StartupInv, MakeConnector \/ Bind("ipv4", "ipv6") \/ Bind("ipv6", "ready")
  PROVE  StartupInv'
<1> USE DEF StartupInv
<1>1. /\ step \in {"connector", "ipv4", "ipv6"} /\ exit = NotYet
      /\ UNCHANGED <<environment, field, lines, exit, ready>>
  BY DEF MakeConnector, Bind, Going, Reach
<1>2. /\ ~ready /\ lines = << >> /\ step \in Starting
  BY <1>1 DEF InStart, Starting
<1>3. CASE MakeConnector
  <2>1. /\ step = "connector" /\ step' = "ipv4" /\ held' = {"store", "connector"}
        /\ attempted' = << >>
    BY <1>1, <1>2, <1>3 DEF MakeConnector, Going, Reach, InStart
  <2>2. InStart' /\ InService' /\ InFinally' /\ InConfig'
    BY <1>1, <1>2, <2>1 DEF InStart, InService, InFinally, InConfig, Starting, Started, Ending
  <2> QED BY <1>1, <1>2, <2>1, <2>2 DEF StartupTypeOK, FieldsChecked, Starting, Resources
<1>4. CASE Bind("ipv4", "ipv6")
  <2>1. /\ step = "ipv4" /\ step' = "ipv6" /\ held' = {"store", "connector", "ipv4"}
        /\ attempted' = <<"ipv4">>
    BY <1>1, <1>2, <1>4 DEF Bind, Going, Reach, InStart
  <2>2. InStart' /\ InService' /\ InFinally' /\ InConfig'
    BY <1>1, <1>2, <2>1 DEF InStart, InService, InFinally, InConfig, Starting, Started, Ending
  <2>3. attempted' \in Seq(Sockets)
    BY <2>1 DEF Sockets
  <2> QED BY <1>1, <1>2, <2>1, <2>2, <2>3
            DEF StartupTypeOK, FieldsChecked, Starting, Resources, Sockets
<1>5. CASE Bind("ipv6", "ready")
  <2>1. /\ step = "ipv6" /\ step' = "ready"
        /\ held' = {"store", "connector"} \cup Sockets
        /\ attempted = <<"ipv4">> /\ attempted' = Append(attempted, "ipv6")
    <3>1. /\ step = "ipv6" /\ step' = "ready"
          /\ held = {"store", "connector", "ipv4"} /\ held' = held \cup {"ipv6"}
          /\ attempted = <<"ipv4">> /\ attempted' = Append(attempted, "ipv6")
      BY <1>1, <1>2, <1>5 DEF Bind, Going, Reach, InStart
    <3>2. held' = {"store", "connector"} \cup Sockets
      BY <3>1 DEF Sockets
    <3> QED BY <3>1, <3>2
  <2>2. attempted' \in Seq(Sockets) /\ Len(attempted') = 2
    BY <2>1 DEF Sockets, StartupTypeOK
  <2>3. InStart' /\ InService' /\ InFinally' /\ InConfig'
    BY <1>1, <1>2, <2>1, <2>2 DEF InStart, InService, InFinally, InConfig, Starting, Started, Ending
  <2> QED BY <1>1, <1>2, <2>1, <2>2, <2>3 DEF StartupTypeOK, FieldsChecked, Starting, Resources
<1> QED BY <1>3, <1>4, <1>5

(* The sockets made so far are closed by bind_or_exit itself: main is left   *)
(* with the store and the connector.                                         *)
LEMMA BindFailsInv ==
  ASSUME StartupInv, BindFails
  PROVE  StartupInv'
<1> USE DEF StartupInv
<1>1. PICK family \in Sockets :
        /\ step = family /\ exit = NotYet
        /\ held' = held \ ({family} \cup Range(attempted))
        /\ lines' = Append(lines, "bind")
        /\ step' = "stop_scheduler"
        /\ UNCHANGED <<environment, field, attempted, ready, exit>>
  BY DEF BindFails, Going, Sockets
<1>2. step \in Starting /\ ~ready /\ lines = << >>
  BY <1>1 DEF InStart, Starting, Sockets
<1>3. lines' = <<"bind">>
  BY <1>1, <1>2
<1>4. held' = {"store", "connector"}
  BY <1>1, <1>2, RangeOfAttempted DEF InStart, Sockets
<1>5. InFinally' /\ InConfig' /\ InStart' /\ InService'
  BY <1>1, <1>2, <1>3, <1>4 DEF InFinally, InConfig, InStart, InService, Starting, Started, Ending
<1>6. StartupTypeOK' /\ FieldsChecked'
  BY <1>1, <1>2, <1>3, <1>4 DEF StartupTypeOK, FieldsChecked, Starting, Ending, Resources, Reports
<1> QED BY <1>5, <1>6

LEMMA LogReadyInv ==
  ASSUME StartupInv, LogReady
  PROVE  StartupInv'
<1> USE DEF StartupInv
<1>1. /\ step = "ready" /\ step' = "servers" /\ ready' /\ ready' \in BOOLEAN /\ exit = NotYet
      /\ UNCHANGED <<environment, field, lines, exit, held, attempted>>
  BY DEF LogReady, Going, Reach
<1>2. /\ lines = << >> /\ held = {"store", "connector"} \cup Sockets
      /\ Len(attempted) = 2
  BY <1>1 DEF InStart, Starting
<1>3. InService'
  BY <1>1, <1>2 DEF InService
<1>4. InFinally' /\ InConfig' /\ InStart'
  BY <1>1 DEF InFinally, InConfig, InStart, Starting, Ending
<1>5. StartupTypeOK' /\ FieldsChecked'
  BY <1>1, <1>2 DEF StartupTypeOK, FieldsChecked, Started
<1> QED BY <1>3, <1>4, <1>5

(* BuildServers, StartScheduler and FireInitialRefresh give nothing up.      *)
LEMMA ServiceStepInv ==
  ASSUME StartupInv, step \in Started, exit = NotYet, step' \in Started,
         held' = held \/ held' = held \cup {"scheduler"},
         UNCHANGED <<environment, field, lines, exit, attempted, ready>>
  PROVE  StartupInv'
<1> USE DEF StartupInv
<1>1. InService'
  BY DEF InService
<1>2. InFinally' /\ InConfig' /\ InStart'
  BY DEF InFinally, InConfig, InStart, Started, Starting, Ending
<1>3. StartupTypeOK' /\ FieldsChecked'
  BY DEF StartupTypeOK, FieldsChecked, Started, Resources
<1> QED BY <1>1, <1>2, <1>3

LEMMA ServersInv ==
  ASSUME StartupInv, BuildServers \/ StartScheduler \/ FireInitialRefresh
  PROVE  StartupInv'
<1>1. /\ step \in Started /\ exit = NotYet /\ step' \in Started
      /\ held' = held \/ held' = held \cup {"scheduler"}
      /\ UNCHANGED <<environment, field, lines, exit, attempted, ready>>
  BY DEF BuildServers, StartScheduler, FireInitialRefresh, Going, Reach, Started
<1> QED BY <1>1, ServiceStepInv

LEMMA ConstructionRaisesInv ==
  ASSUME StartupInv, ConstructionRaises
  PROVE  StartupInv'
<1> USE DEF StartupInv
<1>1. /\ step \in {"connector"} \cup Started /\ exit = NotYet
      /\ step' = "stop_scheduler"
      /\ UNCHANGED <<environment, field, lines, exit, held, attempted, ready>>
  BY DEF ConstructionRaises, Reach, Started
<1>2. /\ lines = << >>
      /\ ready => Len(attempted) = 2
      /\ ~ready => held \subseteq {"store", "connector"}
  BY <1>1 DEF InStart, InService, Starting
<1>3. InFinally' /\ InConfig' /\ InStart' /\ InService'
  BY <1>1, <1>2 DEF InFinally, InConfig, InStart, InService, Starting, Started, Ending
<1>4. StartupTypeOK' /\ FieldsChecked'
  BY <1>1 DEF StartupTypeOK, FieldsChecked, Started, Ending
<1> QED BY <1>3, <1>4

-----------------------------------------------------------------------------
(* The end.                                                                 *)

LEMMA LoopEndsInv ==
  ASSUME StartupInv, LoopEnds
  PROVE  StartupInv'
<1> USE DEF StartupInv
<1>1. /\ step = "serving" /\ exit = NotYet /\ held' \subseteq held
      /\ step' \in {"stop_scheduler", "stop_scheduler_ok"}
      /\ UNCHANGED <<environment, field, attempted, lines, ready, exit>>
  BY DEF LoopEnds, Going
<1>2. ready /\ lines = << >> /\ Len(attempted) = 2
  BY <1>1 DEF InService, Started
<1>3. InFinally' /\ InConfig' /\ InStart' /\ InService'
  BY <1>1, <1>2 DEF InFinally, InConfig, InStart, InService, Starting, Started, Ending
<1>4. StartupTypeOK' /\ FieldsChecked'
  BY <1>1 DEF StartupTypeOK, FieldsChecked, Ending
<1> QED BY <1>3, <1>4

LEMMA StopSchedulerInv ==
  ASSUME StartupInv, StopScheduler
  PROVE  StartupInv'
<1> USE DEF StartupInv
<1>1. /\ step \in {"stop_scheduler", "stop_scheduler_ok"} /\ exit = NotYet
      /\ held' \subseteq held
      /\ step' = IF step = "stop_scheduler" THEN "close" ELSE "close_ok"
      /\ UNCHANGED <<environment, field, attempted, lines, ready, exit>>
  BY DEF StopScheduler, Reach, ExitStatus
<1>2. InFinally'
  BY <1>1 DEF InFinally, Ending
<1>3. InConfig' /\ InStart' /\ InService'
  BY <1>1 DEF InConfig, InStart, InService, Starting, Started
<1>4. StartupTypeOK' /\ FieldsChecked'
  BY <1>1 DEF StartupTypeOK, FieldsChecked, Ending
<1> QED BY <1>2, <1>3, <1>4

(* The lists agree: the finally closes the sockets exactly if bind_or_exit   *)
(* has returned them, and otherwise there are none.                          *)
LEMMA ReleaseInv ==
  ASSUME StartupInv, CloseAll
  PROVE  StartupInv'
<1> USE DEF StartupInv
<1>1. /\ step \in {"close", "close_ok"} /\ exit = NotYet
      /\ exit' = ExitStatus /\ ExitStatus \in {0, 1}
      /\ UNCHANGED <<environment, step, field, attempted, lines, ready>>
  BY DEF CloseAll, ExitStatus
<1>2. held' \subseteq (IF ready THEN {"scheduler"} ELSE {})
  <2>1. CASE ready
    <3>1. Len(attempted) = 2
      BY <1>1, <2>1 DEF InFinally, Ending
    <3>2. held' = held \ ({"connector", "store"} \cup Sockets)
      BY <3>1 DEF CloseAll
    <3> QED BY <2>1, <3>2 DEF StartupTypeOK, Resources
  <2>2. CASE ~ready
    <3>1. held \subseteq {"store", "connector"}
      BY <1>1, <2>2 DEF InFinally, Ending
    <3> QED BY <2>2, <3>1 DEF CloseAll
  <2> QED BY <2>1, <2>2
<1>3. InFinally'
  BY <1>1, <1>2 DEF InFinally, Ending, ExitStatus
<1>4. InConfig' /\ InStart' /\ InService'
  BY <1>1 DEF InConfig, InStart, InService, Starting, Started
<1>5. held' \subseteq held
  BY DEF CloseAll
<1>6. StartupTypeOK' /\ FieldsChecked'
  BY <1>1, <1>5 DEF StartupTypeOK, FieldsChecked
<1> QED BY <1>3, <1>4, <1>6

-----------------------------------------------------------------------------
LEMMA StartupInvHolds == StartupSpec => []StartupInv
<1>1. StartupInv /\ [StartupNext]_startupVars => StartupInv'
  <2> SUFFICES ASSUME StartupInv, [StartupNext]_startupVars PROVE StartupInv'
    OBVIOUS
  <2>1. CASE ValidField \/ InvalidField \/ OpenStore \/ StoreUnusable
    BY <2>1, ValidFieldInv, InvalidFieldInv, OpenStoreInv, StoreUnusableInv
  <2>2. CASE MakeConnector \/ Bind("ipv4", "ipv6") \/ Bind("ipv6", "ready") \/ BindFails
    BY <2>2, ConnectorAndBindInv, BindFailsInv
  <2>3. CASE LogReady \/ BuildServers \/ StartScheduler \/ FireInitialRefresh \/ ConstructionRaises
    BY <2>3, LogReadyInv, ServersInv, ConstructionRaisesInv
  <2>4. CASE LoopEnds \/ StopScheduler \/ CloseAll
    BY <2>4, LoopEndsInv, StopSchedulerInv, ReleaseInv
  <2>5. CASE UNCHANGED startupVars
    BY <2>5 DEF startupVars, StartupInv, StartupTypeOK, FieldsChecked, InConfig,
      InStart, InService, InFinally, ExitStatus
  <2> QED BY <2>1, <2>2, <2>3, <2>4, <2>5 DEF StartupNext
<1> QED BY StartupInitInv, <1>1, PTL DEF StartupSpec

LEMMA InvIsClean == StartupInv => FailedStartIsClean
<1> SUFFICES ASSUME StartupInv PROVE FailedStartIsClean
  OBVIOUS
<1> USE FieldsAreStrings DEF StartupInv
<1>1. step = "config" \/ step \in Starting \/ step \in Started \/ step \in Ending
  BY DEF StartupTypeOK
<1>2. exit # NotYet => held \subseteq (IF ready THEN {"scheduler"} ELSE {})
  BY <1>1 DEF InConfig, InStart, InService, InFinally
<1>3. exit = 0 => ready
  BY <1>1 DEF InConfig, InStart, InService, InFinally, ExitStatus, NotYet, Ending
<1>4. Len(lines) <= 1
  BY <1>1 DEF InConfig, InStart, InService, InFinally
<1>5. lines # << >> /\ ~ready => exit = 1 \/ held \cap Sockets = {}
  BY <1>1 DEF InConfig, InStart, InService, InFinally, NotYet, Sockets
<1>6. lines # << >> /\ field <= Len(Fields) => lines = <<Fields[field]>>
  BY DEF InConfig, FieldsChecked
<1>7. /\ step \in Started => {"store", "connector"} \cup Sockets \subseteq held
      /\ step = "serving" => ready
  BY DEF InService, Started
<1> QED BY <1>2, <1>3, <1>4, <1>5, <1>6, <1>7 DEF FailedStartIsClean, FieldsChecked, Started

(* main: in every environment, and wherever the start or the server fails,   *)
(* the process exits with nothing open that it could close, an honest status *)
(* and at most one line that names the first thing wrong.                    *)
THEOREM StartIsClean == StartupSpec => []FailedStartIsClean
BY StartupInvHolds, InvIsClean, PTL
=============================================================================
