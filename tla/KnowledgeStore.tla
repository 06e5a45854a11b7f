---------------------------- MODULE KnowledgeStore ----------------------------
(***************************************************************************)
(* The Knowledge_Store (knowledge_store.py) and the Project_Catalog that   *)
(* shares its connection (project_catalog.py), statement by statement.     *)
(*                                                                         *)
(* Every thread of the process uses ONE sqlite3.Connection, opened with    *)
(* check_same_thread=False and isolation_level=None: a statement outside a *)
(* BEGIN commits by itself, a statement executed by ANY thread while some  *)
(* thread's transaction is open belongs to that transaction, a second      *)
(* BEGIN raises, and every thread reads the uncommitted rows.  `db' is     *)
(* what statements on the connection see, `disk' what is committed.        *)
(*                                                                         *)
(* A method call in flight is a record in `call': one action per SQL       *)
(* statement it executes, so that calls of several threads interleave      *)
(* between their statements.  Here the calls are arbitrary: Spec is what   *)
(* the store promises whoever calls it.  IngestionCoordinator.tla issues   *)
(* the calls that the program issues.                                      *)
(***************************************************************************)
EXTENDS Naturals

CONSTANTS
  Clients,      \* threads that call the store's methods
  Projects,     \* GitLab project ids
  MaxSnapshot,  \* bound: an INSERT beyond this id fails as on a full disk
  Called,       \* the methods that each client calls
  StoreFaults   \* TRUE: any statement may fail with a sqlite3.Error

ASSUME BoundAssumption == MaxSnapshot \in Nat \ {0}
ASSUME FaultsAssumption == StoreFaults \in BOOLEAN

Ids == 1..MaxSnapshot
NoSnapshot == 0
OptIds == {NoSnapshot} \cup Ids

-----------------------------------------------------------------------------
(* The tables.  A profile row is abstracted to the snapshot whose job       *)
(* analyzed it (NoSnapshot: no row), which is what tells two versions of a  *)
(* profile apart; a skip row to its project.                                *)

Statuses == {"absent", "in_progress", "completed", "failed"}
Rows == [Projects -> OptIds]
NoRows == [p \in Projects |-> NoSnapshot]

Tables ==
  [status  : [Ids -> Statuses],
   parent  : [Ids -> OptIds],
   profile : [Ids -> Rows],
   catalog : [Ids -> SUBSET Projects],
   skips   : [Ids -> SUBSET Projects],
   current : OptIds]

EmptyTables ==
  [status  |-> [s \in Ids |-> "absent"],
   parent  |-> [s \in Ids |-> NoSnapshot],
   profile |-> [s \in Ids |-> NoRows],
   catalog |-> [s \in Ids |-> {}],
   skips   |-> [s \in Ids |-> {}],
   current |-> NoSnapshot]

(* INTEGER PRIMARY KEY: the next row id is one above the largest.  Rows of  *)
(* `snapshots' are never deleted, so that is the first absent id.           *)
IsNextId(t, n) ==
  /\ t.status[n] = "absent"
  /\ \A m \in Ids : m < n => t.status[m] # "absent"

-----------------------------------------------------------------------------
VARIABLES
  db,      \* the tables as statements on the connection see them
  disk,    \* the committed tables
  inTxn,   \* a BEGIN is open on the connection
  closed,  \* KnowledgeStore.close() has run
  call     \* the method call each client has in flight, or its outcome

storeVars == <<db, disk, inTxn, closed, call>>

Readers == {"get_current_snapshot_id", "is_in_scope", "list_in_scope",
            "get_profile", "list_profiles"}
Writers == {"write_profile", "record_skip", "abort_snapshot",
            "commit_snapshot", "populate_in_scope"}
Methods == Readers \cup Writers \cup {"begin_snapshot"}

TxnSteps == {"insert", "copy_profiles", "copy_catalog", "upsert_catalog",
             "flip", "move_pointer", "commit"}
AutoSteps == {"read_pointer", "select", "check", "begin", "upsert_profile",
              "insert_skip", "mark_failed"}
Steps == TxnSteps \cup AutoSteps
Ended == {"idle", "returned", "raised"}

(* snap: the snapshot argument, the id begin_snapshot created, or the       *)
(* pointer a reader read.  base: parent_snapshot_id.  projs: the projects   *)
(* written or asked for.  A call that has ended holds its result only: in   *)
(* snap, in projs (catalog rows read) or in rows (profiles read).           *)
Calls == [op : Methods \cup {"none"}, at : Steps \cup Ended, snap : OptIds,
          base : OptIds, projs : SUBSET Projects, rows : Rows]

NoCall == [op |-> "none", at |-> "idle", snap |-> NoSnapshot,
           base |-> NoSnapshot, projs |-> {}, rows |-> NoRows]

TypeOK ==
  /\ db \in Tables
  /\ disk \in Tables
  /\ inTxn \in BOOLEAN
  /\ closed \in BOOLEAN
  /\ call \in [Clients -> Calls]

Init ==
  /\ db = EmptyTables
  /\ disk = EmptyTables
  /\ inTxn = FALSE
  /\ closed = FALSE
  /\ call = [c \in Clients |-> NoCall]

-----------------------------------------------------------------------------
(* Executing statements on the shared connection.                           *)

(* Client c is about to execute statement s and the connection is open.     *)
At(c, s) == call[c].at = s /\ ~closed

(* A data statement: committed at once unless a transaction is open.        *)
Execute(tables) ==
  /\ db' = tables
  /\ disk' = IF inTxn THEN disk ELSE tables
  /\ UNCHANGED <<inTxn, closed>>

Rollback ==
  /\ db' = disk
  /\ inTxn' = FALSE
  /\ UNCHANGED <<disk, closed>>

NoStatement == UNCHANGED <<db, disk, inTxn, closed>>

Goto(c, s) == call' = [call EXCEPT ![c].at = s]

(* The call ends: what is left of it is what the caller gets.               *)
ReturnValue(c) ==
  [NoCall EXCEPT
     !.at = "returned",
     !.snap = IF call[c].op = "begin_snapshot" THEN call[c].snap
                                               ELSE NoSnapshot]
Exception == [NoCall EXCEPT !.at = "raised"]

Return(c) == call' = [call EXCEPT ![c] = ReturnValue(c)]
Raise(c) == call' = [call EXCEPT ![c] = Exception]

-----------------------------------------------------------------------------
(* Statements the writers share.                                            *)

AfterCheck(op) ==
  IF op = "write_profile" THEN "upsert_profile"
  ELSE IF op = "record_skip" THEN "insert_skip"
  ELSE IF op = "abort_snapshot" THEN "mark_failed"
  ELSE "begin"

(* _require_in_progress: the SELECT that precedes every write.              *)
RequireInProgress(c) ==
  /\ At(c, "check")
  /\ IF /\ call[c].snap \in Ids
        /\ db.status[call[c].snap] = "in_progress"
       THEN Goto(c, AfterCheck(call[c].op))
       ELSE Raise(c)
  /\ NoStatement

(* Mutant of AfterBegin: the pointer is moved and committed first.           *)
AfterBeginPointerFirst(op) ==
  IF op = "begin_snapshot" THEN "insert"
  ELSE IF op = "populate_in_scope" THEN "upsert_catalog"
  ELSE "move_pointer"

AfterBegin(op) ==
  IF op = "begin_snapshot" THEN "insert"
  ELSE IF op = "populate_in_scope" THEN "upsert_catalog"
  ELSE "flip"

(* Mutant of BeginTransaction: BEGIN inside the try block that rolls back.   *)
BeginTransactionInsideTry(c) ==
  /\ At(c, "begin")
  /\ IF inTxn
       THEN Raise(c) /\ Rollback
       ELSE /\ inTxn' = TRUE
            /\ Goto(c, AfterBegin(call[c].op))
            /\ UNCHANGED <<db, disk, closed>>

(* BEGIN IMMEDIATE stands before the try block: when another thread's       *)
(* transaction is open it raises, and nothing is rolled back.               *)
BeginTransaction(c) ==
  /\ At(c, "begin")
  /\ IF inTxn
       THEN Raise(c) /\ NoStatement
       ELSE /\ inTxn' = TRUE
            /\ Goto(c, AfterBegin(call[c].op))
            /\ UNCHANGED <<db, disk, closed>>

Commit(c) ==
  /\ At(c, "commit")
  /\ disk' = db
  /\ inTxn' = FALSE
  /\ Return(c)
  /\ UNCHANGED <<db, closed>>

-----------------------------------------------------------------------------
(* begin_snapshot                                                           *)

(* The new row; a single-project snapshot (base # NoSnapshot) then copies   *)
(* its parent's rows.                                                       *)
InsertSnapshot(c) ==
  /\ At(c, "insert")
  /\ \E n \in Ids :
       /\ IsNextId(db, n)
       /\ Execute([db EXCEPT !.status[n] = "in_progress",
                             !.parent[n] = call[c].base])
       /\ call' = [call EXCEPT
                     ![c].snap = n,
                     ![c].at = IF call[c].base = NoSnapshot
                                 THEN "commit" ELSE "copy_profiles"]

(* No id is left: the INSERT raises inside the try block, which rolls back. *)
InsertSnapshotFails(c) ==
  /\ At(c, "insert")
  /\ \A n \in Ids : db.status[n] # "absent"
  /\ Rollback
  /\ Raise(c)

(* Mutant of CopyProfiles: the parent's profiles are not copied.             *)
CopyProfilesForgotten(c) ==
  /\ At(c, "copy_profiles")
  /\ Goto(c, "copy_catalog")
  /\ NoStatement

CopyProfiles(c) ==
  /\ At(c, "copy_profiles")
  /\ Execute([db EXCEPT !.profile[call[c].snap] = db.profile[call[c].base]])
  /\ Goto(c, "copy_catalog")

(* Mutant of CopyCatalog: the parent's catalog rows are not copied.          *)
CopyCatalogForgotten(c) ==
  /\ At(c, "copy_catalog")
  /\ Goto(c, "commit")
  /\ NoStatement

CopyCatalog(c) ==
  /\ At(c, "copy_catalog")
  /\ Execute([db EXCEPT !.catalog[call[c].snap] = db.catalog[call[c].base]])
  /\ Goto(c, "commit")

-----------------------------------------------------------------------------
(* write_profile, record_skip, populate_in_scope                            *)

(* Mutant of SnapshotExists: PRAGMA foreign_keys left off.                   *)
SnapshotExistsUnchecked(c) == call[c].snap \in Ids

(* The foreign key of every row table: its snapshots row must exist (it may *)
(* have been rolled back by its creator since the check).                   *)
SnapshotExists(c) == db.status[call[c].snap] # "absent"

UpsertProfile(c) ==
  /\ At(c, "upsert_profile")
  /\ SnapshotExists(c)
  /\ LET s == call[c].snap IN
       Execute([db EXCEPT !.profile[s] =
                  [p \in Projects |->
                     IF p \in call[c].projs THEN s ELSE db.profile[s][p]]])
  /\ Return(c)

InsertSkip(c) ==
  /\ At(c, "insert_skip")
  /\ SnapshotExists(c)
  /\ LET s == call[c].snap IN
       Execute([db EXCEPT !.skips[s] = db.skips[s] \cup call[c].projs])
  /\ Return(c)

(* The upserts add rows and replace paths; they never delete a row.         *)
UpsertCatalog(c) ==
  /\ At(c, "upsert_catalog")
  /\ SnapshotExists(c)
  /\ LET s == call[c].snap IN
       Execute([db EXCEPT !.catalog[s] = db.catalog[s] \cup call[c].projs])
  /\ Goto(c, "commit")

ForeignKeyFails(c) ==
  /\ \/ At(c, "upsert_profile") \/ At(c, "insert_skip")
     \/ At(c, "upsert_catalog")
  /\ ~ SnapshotExists(c)
  /\ IF call[c].at \in TxnSteps THEN Rollback ELSE NoStatement
  /\ Raise(c)

-----------------------------------------------------------------------------
(* abort_snapshot and commit_snapshot                                       *)

(* Mutant of MarkFailed: a status the schema's CHECK does not know.          *)
MarkFailedMisspelled(c) ==
  /\ At(c, "mark_failed")
  /\ Execute([db EXCEPT !.status[call[c].snap] = "aborted"])
  /\ Return(c)

(* The UPDATE has no status condition: it relies on the earlier check.      *)
MarkFailed(c) ==
  /\ At(c, "mark_failed")
  /\ Execute([db EXCEPT !.status[call[c].snap] =
                          IF @ = "absent" THEN @ ELSE "failed"])
  /\ Return(c)

(* Mutant of FlipCompleted: the UPDATE without its status condition.         *)
FlipCompletedUnconditional(c) ==
  /\ At(c, "flip")
  /\ Execute([db EXCEPT !.status[call[c].snap] = "completed"])
  /\ Goto(c, "move_pointer")

FlipCompleted(c) ==
  /\ At(c, "flip")
  /\ db.status[call[c].snap] = "in_progress"
  /\ Execute([db EXCEPT !.status[call[c].snap] = "completed"])
  /\ Goto(c, "move_pointer")

(* Mutant of FlipRefused: rowcount is not looked at.                         *)
FlipRefusedIgnored(c) ==
  /\ At(c, "flip")
  /\ db.status[call[c].snap] # "in_progress"
  /\ Goto(c, "move_pointer")
  /\ NoStatement

(* rowcount # 1: somebody else ended the snapshot since the check.          *)
FlipRefused(c) ==
  /\ At(c, "flip")
  /\ db.status[call[c].snap] # "in_progress"
  /\ Rollback
  /\ Raise(c)

MovePointer(c) ==
  /\ At(c, "move_pointer")
  /\ Execute([db EXCEPT !.current = call[c].snap])
  /\ Goto(c, "commit")

-----------------------------------------------------------------------------
(* Readers: the pointer, then one SELECT on the snapshot it named.          *)

ReadPointer(c) ==
  /\ At(c, "read_pointer")
  /\ call' = [call EXCEPT ![c] =
                IF \/ db.current = NoSnapshot
                   \/ call[c].op = "get_current_snapshot_id"
                  THEN [NoCall EXCEPT !.at = "returned", !.snap = db.current]
                  ELSE [call[c] EXCEPT !.at = "select", !.snap = db.current]]
  /\ NoStatement

SelectCatalog(c) ==
  /\ At(c, "select")
  /\ call[c].op \in {"is_in_scope", "list_in_scope"}
  /\ call' = [call EXCEPT ![c] =
                [NoCall EXCEPT
                   !.at = "returned",
                   !.projs = call[c].projs \cap db.catalog[call[c].snap]]]
  /\ NoStatement

SelectProfiles(c) ==
  /\ At(c, "select")
  /\ call[c].op \in {"get_profile", "list_profiles"}
  /\ call' = [call EXCEPT ![c] =
                [NoCall EXCEPT
                   !.at = "returned",
                   !.rows = [p \in Projects |->
                               IF p \in call[c].projs
                                 THEN db.profile[call[c].snap][p]
                                 ELSE NoSnapshot]]]
  /\ NoStatement

-----------------------------------------------------------------------------
(* Failures, close and restart.                                             *)

(* A statement fails (disk full, I/O error, file locked by another          *)
(* process).  Inside the try block of a transaction the method rolls back;  *)
(* a COMMIT that fails this way is rolled back by SQLite itself.            *)
StatementFails(c) ==
  /\ StoreFaults
  /\ ~closed
  /\ call[c].at \in Steps
  /\ IF call[c].at \in TxnSteps THEN Rollback ELSE NoStatement
  /\ Raise(c)

(* A call that reaches a statement after close(): the connection property   *)
(* or the connection itself raises.                                         *)
ClosedRaises(c) ==
  /\ closed
  /\ call[c].at \in Steps
  /\ Raise(c)
  /\ NoStatement

(* Closing the connection discards an open transaction.                     *)
CloseStore ==
  /\ ~closed
  /\ closed' = TRUE
  /\ inTxn' = FALSE
  /\ db' = disk
  /\ UNCHANGED <<disk, call>>

(* The process dies at any point, or exits, and a new one opens the file.   *)
(* open() creates what is missing and repairs nothing.                      *)
RestartStore ==
  /\ db' = disk
  /\ inTxn' = FALSE
  /\ closed' = FALSE
  /\ call' = [c \in Clients |-> NoCall]
  /\ UNCHANGED disk

-----------------------------------------------------------------------------
(* Calling a method.                                                        *)

FirstStep(op) ==
  IF op \in Readers THEN "read_pointer"
  ELSE IF op = "begin_snapshot" THEN "begin"
  ELSE "check"

NewCall(op, snap, base, projs) ==
  [op |-> op, at |-> FirstStep(op), snap |-> snap, base |-> base,
   projs |-> projs, rows |-> NoRows]

(* write_profile, record_skip and the single-project readers name one.     *)
OneProject == {{p} : p \in Projects}

(* Arguments the signatures allow: begin_snapshot takes an existing parent  *)
(* or none; write_profile, record_skip, is_in_scope and get_profile one     *)
(* project; populate_in_scope any set; the list readers range over all.     *)
LegalCalls ==
  {NewCall("begin_snapshot", NoSnapshot, b, {}) :
     b \in {NoSnapshot} \cup {s \in Ids : disk.status[s] # "absent"}}
  \cup {NewCall(op, s, NoSnapshot, e) :
          op \in {"write_profile", "record_skip"}, s \in Ids, e \in OneProject}
  \cup {NewCall(op, s, NoSnapshot, {}) :
          op \in {"abort_snapshot", "commit_snapshot"}, s \in Ids}
  \cup {NewCall("populate_in_scope", s, NoSnapshot, e) :
          s \in Ids, e \in SUBSET Projects}
  \cup {NewCall("get_current_snapshot_id", NoSnapshot, NoSnapshot, {})}
  \cup {NewCall(op, NoSnapshot, NoSnapshot, e) :
          op \in {"is_in_scope", "get_profile"}, e \in OneProject}
  \cup {NewCall(op, NoSnapshot, NoSnapshot, Projects) :
          op \in {"list_in_scope", "list_profiles"}}

(* The client calls a method, or goes on with the outcome of its last call. *)
Invoke(c) ==
  /\ call[c].at \in Ended
  /\ \E k \in {NoCall} \cup {l \in LegalCalls : l.op \in Called[c]} :
       call' = [call EXCEPT ![c] = k]
  /\ NoStatement

(* One statement of the call client c has in flight.                        *)
StoreStep(c) ==
  \/ RequireInProgress(c)
  \/ BeginTransaction(c)
  \/ Commit(c)
  \/ InsertSnapshot(c)
  \/ InsertSnapshotFails(c)
  \/ CopyProfiles(c)
  \/ CopyCatalog(c)
  \/ UpsertProfile(c)
  \/ InsertSkip(c)
  \/ UpsertCatalog(c)
  \/ ForeignKeyFails(c)
  \/ MarkFailed(c)
  \/ FlipCompleted(c)
  \/ FlipRefused(c)
  \/ MovePointer(c)
  \/ ReadPointer(c)
  \/ SelectCatalog(c)
  \/ SelectProfiles(c)
  \/ StatementFails(c)
  \/ ClosedRaises(c)

Next ==
  \/ \E c \in Clients : Invoke(c) \/ StoreStep(c)
  \/ CloseStore
  \/ RestartStore

Spec == Init /\ [][Next]_storeVars

-----------------------------------------------------------------------------
(* What the store promises, whoever calls it.                               *)

(* A transaction open on the shared connection has exactly one owner, the   *)
(* thread between its BEGIN and its COMMIT: no thread ever commits, rolls   *)
(* back or runs its transactional statements in another thread's            *)
(* transaction, and outside a transaction everything is committed           *)
(* (begin_snapshot, commit_snapshot and populate_in_scope racing).          *)
TransactionOwned ==
  /\ ~inTxn => db = disk
  /\ inTxn => \E c \in Clients : call[c].at \in TxnSteps
  /\ \A c, d \in Clients :
       call[c].at \in TxnSteps /\ ~closed =>
         inTxn /\ (call[d].at \in TxnSteps => c = d)

(* The committed pointer never names a snapshot that is still being written *)
(* or does not exist: the status flip of commit_snapshot precedes the       *)
(* pointer move and both reach the disk together, whatever crashes.         *)
CurrentWasCompleted ==
  disk.current # NoSnapshot =>
    disk.status[disk.current] \in {"completed", "failed"}

(* Only a snapshot that was in progress up to its COMMIT becomes current: a *)
(* snapshot somebody aborted, or one committed before, is never promoted,   *)
(* however the calls of two threads overlap (commit_snapshot's re-check).   *)
OnlyOpenSnapshotsPromoted ==
  [][disk'.current # disk.current =>
       /\ disk'.current # NoSnapshot
       /\ disk.status[disk'.current] = "in_progress"]_disk

(* A snapshot id that no row carries has no rows in any other table: ids    *)
(* are reused after a rollback, and the next job to get one must not find   *)
(* rows of the begin_snapshot that was undone.                              *)
FreshIdsAreEmpty ==
  \A s \in Ids : disk.status[s] = "absent" =>
    /\ disk.profile[s] = NoRows
    /\ disk.catalog[s] = {}
    /\ disk.skips[s] = {}

(* The life of a snapshots row: in_progress, then completed or failed.  The *)
(* unconditional UPDATE of abort_snapshot may still fail a completed row.   *)
MayBecome(old, new) ==
  \/ new = old
  \/ old = "absent"
  \/ old = "in_progress" /\ new # "absent"
  \/ old = "completed" /\ new = "failed"

(* A snapshot that ended never reopens, and a failed one stays failed, over *)
(* every interleaving of check-then-write calls and across restarts.        *)
StatusNeverReverts ==
  [][\A s \in Ids : MayBecome(disk.status[s], disk'.status[s])]_disk
=============================================================================
