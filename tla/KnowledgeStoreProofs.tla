------------------------- MODULE KnowledgeStoreProofs -------------------------
(***************************************************************************)
(* Proofs, for every set of clients and projects and every bound, of what  *)
(* KnowledgeStore.tla promises to arbitrary callers.                       *)
(***************************************************************************)
EXTENDS KnowledgeStore, TLAPS

(* Where a call may stand, given its method, and which of its arguments are  *)
(* snapshot ids by then.                                                     *)
CallShape(k) ==
  /\ k.at = "check" => k.op \in Writers
  /\ k.at = "begin" =>
       k.op \in {"begin_snapshot", "populate_in_scope", "commit_snapshot"}
  /\ k.at \in {"insert", "copy_profiles", "copy_catalog"} =>
       k.op = "begin_snapshot"
  /\ k.at = "upsert_catalog" => k.op = "populate_in_scope"
  /\ k.at = "upsert_profile" => k.op = "write_profile"
  /\ k.at = "insert_skip" => k.op = "record_skip"
  /\ k.at = "mark_failed" => k.op = "abort_snapshot"
  /\ k.at \in {"read_pointer", "select"} => k.op \in Readers
  /\ k.at \in {"flip", "move_pointer"} => k.op = "commit_snapshot"
  /\ k.at = "commit" =>
       k.op \in {"begin_snapshot", "populate_in_scope", "commit_snapshot"}
  /\ k.at \in {"begin", "commit"} /\ k.op # "begin_snapshot" => k.snap \in Ids
  /\ k.at \in {"flip", "move_pointer", "upsert_catalog", "upsert_profile",
               "insert_skip", "mark_failed", "select", "copy_profiles",
               "copy_catalog"} => k.snap \in Ids
  /\ k.at \in {"copy_profiles", "copy_catalog"} => k.base \in Ids

CallsOK == \A c \in Clients : CallShape(call[c])

Typed == TypeOK /\ CallsOK

(* Every call that a client may make is a well-formed one.                   *)
LEMMA LegalCallsTyped ==
  ASSUME NEW k \in LegalCalls
  PROVE  k \in Calls /\ CallShape(k)
<1>1. NoRows \in Rows
  BY DEF NoRows, Rows, OptIds
<1>2. OneProject \subseteq SUBSET Projects
  BY DEF OneProject
<1>3. QED
  BY <1>1, <1>2 DEF LegalCalls, NewCall, Calls, CallShape, FirstStep, OptIds, Ids,
     Methods, Readers, Writers, Steps, TxnSteps, AutoSteps, Ended, NoSnapshot

LEMMA InitTyped == Init => Typed
<1>1. NoRows \in Rows
  BY DEF NoRows, Rows, OptIds
<1>2. EmptyTables \in Tables
  BY <1>1 DEF EmptyTables, Tables, Statuses, OptIds
<1>3. NoCall \in Calls /\ CallShape(NoCall)
  BY <1>1 DEF NoCall, Calls, CallShape, OptIds, Ended
<1>4. QED
  BY <1>2, <1>3 DEF Init, Typed, TypeOK, CallsOK

-----------------------------------------------------------------------------
(* Type correctness.                                                         *)

LEMMA GotoTyped ==
  ASSUME call \in [Clients -> Calls], CallsOK, NEW c \in Clients,
         NEW s \in Steps \cup Ended, Goto(c, s),
         CallShape([call[c] EXCEPT !.at = s])
  PROVE  call' \in [Clients -> Calls] /\ CallsOK'
<1>1. call' = [call EXCEPT ![c] = [call[c] EXCEPT !.at = s]]
  BY DEF Goto
<1>2. [call[c] EXCEPT !.at = s] \in Calls
  BY DEF Calls
<1>3. QED
  BY <1>1, <1>2 DEF CallsOK

LEMMA OutcomeTyped ==
  ASSUME call \in [Clients -> Calls], NEW c \in Clients
  PROVE  /\ ReturnValue(c) \in Calls
         /\ CallShape(ReturnValue(c))
         /\ ReturnValue(c).at = "returned"
         /\ Exception \in Calls
         /\ CallShape(Exception)
         /\ Exception.at = "raised"
<1>1. call[c].snap \in OptIds /\ NoSnapshot \in OptIds /\ NoRows \in Rows
  BY DEF Calls, NoRows, Rows, OptIds
<1>2. QED
  BY <1>1 DEF ReturnValue, Exception, NoCall, CallShape, Ended, Calls

LEMMA EndTyped ==
  ASSUME call \in [Clients -> Calls], CallsOK, NEW c \in Clients,
         Return(c) \/ Raise(c)
  PROVE  call' \in [Clients -> Calls] /\ CallsOK'
<1>1. CASE Return(c)
  BY <1>1, OutcomeTyped DEF Return, CallsOK
<1>2. CASE Raise(c)
  BY <1>2, OutcomeTyped DEF Raise, CallsOK
<1>3. QED
  BY <1>1, <1>2

LEMMA ExecuteTyped ==
  ASSUME db \in Tables, disk \in Tables, inTxn \in BOOLEAN,
         closed \in BOOLEAN, NEW t \in Tables, Execute(t)
  PROVE  /\ db' \in Tables
         /\ disk' \in Tables
         /\ inTxn' \in BOOLEAN
         /\ closed' \in BOOLEAN
  BY DEF Execute

LEMMA StoreStepTyped ==
  ASSUME Typed, NEW c \in Clients, StoreStep(c)
  PROVE  Typed'
<1> USE DEF Typed, TypeOK
<1>0. /\ call[c] \in Calls
      /\ CallShape(call[c])
  BY DEF CallsOK
<1>1. CASE RequireInProgress(c)
  <2>1. CASE Goto(c, AfterCheck(call[c].op)) /\ call[c].snap \in Ids
    <3>1. AfterCheck(call[c].op) \in Steps
      BY DEF AfterCheck, Steps, AutoSteps
    <3>2. CallShape([call[c] EXCEPT !.at = AfterCheck(call[c].op)])
      BY <1>0, <1>1, <2>1 DEF CallShape, AfterCheck, Calls, Writers,
         RequireInProgress, At
    <3>3. QED
      BY <1>1, <2>1, <3>1, <3>2, GotoTyped DEF RequireInProgress, NoStatement
  <2>2. CASE Raise(c)
    BY <1>1, <2>2, EndTyped DEF RequireInProgress, NoStatement
  <2>3. QED
    BY <1>1, <2>1, <2>2 DEF RequireInProgress
<1>2. CASE BeginTransaction(c)
  <2>1. CASE inTxn
    BY <1>2, <2>1, EndTyped DEF BeginTransaction, NoStatement
  <2>2. CASE ~inTxn
    <3>1. AfterBegin(call[c].op) \in Steps
      BY DEF AfterBegin, Steps, TxnSteps
    <3>2. CallShape([call[c] EXCEPT !.at = AfterBegin(call[c].op)])
      BY <1>0, <1>2 DEF CallShape, AfterBegin, Calls, BeginTransaction, At
    <3>3. QED
      BY <1>2, <2>2, <3>1, <3>2, GotoTyped DEF BeginTransaction
  <2>3. QED
    BY <2>1, <2>2
<1>3. CASE Commit(c)
  BY <1>3, EndTyped DEF Commit
<1>4. CASE InsertSnapshot(c)
  <2> PICK n \in Ids :
        /\ Execute([db EXCEPT !.status[n] = "in_progress",
                              !.parent[n] = call[c].base])
        /\ call' = [call EXCEPT
                      ![c].snap = n,
                      ![c].at = IF call[c].base = NoSnapshot
                                  THEN "commit" ELSE "copy_profiles"]
    BY <1>4 DEF InsertSnapshot
  <2> DEFINE k == [call[c] EXCEPT !.snap = n,
                                  !.at = IF call[c].base = NoSnapshot
                                           THEN "commit" ELSE "copy_profiles"]
  <2>1. [db EXCEPT !.status[n] = "in_progress",
                   !.parent[n] = call[c].base] \in Tables
    BY <1>0 DEF Tables, Statuses, Calls
  <2>2. k \in Calls /\ CallShape(k)
    BY <1>0, <1>4 DEF Calls, CallShape, Steps, TxnSteps, OptIds, At,
       InsertSnapshot
  <2>3. call' = [call EXCEPT ![c] = k]
    OBVIOUS
  <2>4. call' \in [Clients -> Calls] /\ CallsOK'
    BY <2>2, <2>3 DEF CallsOK
  <2>5. QED
    BY <2>1, <2>4, ExecuteTyped
<1>5. CASE InsertSnapshotFails(c)
  BY <1>5, EndTyped DEF InsertSnapshotFails, Rollback
<1>6. CASE CopyProfiles(c)
  <2>1. [db EXCEPT !.profile[call[c].snap] = db.profile[call[c].base]]
          \in Tables
    BY <1>0, <1>6 DEF CopyProfiles, At, CallShape, Tables
  <2>2. CallShape([call[c] EXCEPT !.at = "copy_catalog"])
    BY <1>0, <1>6 DEF CopyProfiles, At, CallShape, Calls
  <2>3. QED
    BY <1>6, <2>1, <2>2, ExecuteTyped, GotoTyped
    DEF CopyProfiles, Steps, TxnSteps
<1>7. CASE CopyCatalog(c)
  <2>1. [db EXCEPT !.catalog[call[c].snap] = db.catalog[call[c].base]]
          \in Tables
    BY <1>0, <1>7 DEF CopyCatalog, At, CallShape, Tables
  <2>2. CallShape([call[c] EXCEPT !.at = "commit"])
    BY <1>0, <1>7 DEF CopyCatalog, At, CallShape, Calls
  <2>3. QED
    BY <1>7, <2>1, <2>2, ExecuteTyped, GotoTyped
    DEF CopyCatalog, Steps, TxnSteps
<1>8. CASE UpsertProfile(c)
  <2> DEFINE s == call[c].snap
             t == [db EXCEPT !.profile[s] =
                     [p \in Projects |->
                        IF p \in call[c].projs THEN s ELSE db.profile[s][p]]]
  <2>1. s \in Ids
    BY <1>0, <1>8 DEF UpsertProfile, At, CallShape
  <2>2. [p \in Projects |-> IF p \in call[c].projs THEN s
                                                  ELSE db.profile[s][p]]
          \in Rows
    BY <2>1 DEF Tables, Rows, OptIds
  <2>3. t \in Tables
    BY <2>2 DEF Tables
  <2>4. Execute(t)
    BY <1>8 DEF UpsertProfile
  <2>5. QED
    BY <1>8, <2>3, <2>4, ExecuteTyped, EndTyped DEF UpsertProfile
<1>9. CASE InsertSkip(c)
  <2> DEFINE s == call[c].snap
             t == [db EXCEPT !.skips[s] = db.skips[s] \cup call[c].projs]
  <2>1. t \in Tables
    BY <1>0, <1>9 DEF InsertSkip, At, CallShape, Tables, Calls
  <2>2. QED
    BY <1>9, <2>1, ExecuteTyped, EndTyped DEF InsertSkip
<1>10. CASE UpsertCatalog(c)
  <2> DEFINE s == call[c].snap
             t == [db EXCEPT !.catalog[s] = db.catalog[s] \cup call[c].projs]
  <2>1. t \in Tables
    BY <1>0, <1>10 DEF UpsertCatalog, At, CallShape, Tables, Calls
  <2>2. CallShape([call[c] EXCEPT !.at = "commit"])
    BY <1>0, <1>10 DEF UpsertCatalog, At, CallShape, Calls
  <2>3. QED
    BY <1>10, <2>1, <2>2, ExecuteTyped, GotoTyped
    DEF UpsertCatalog, Steps, TxnSteps
<1>11. CASE ForeignKeyFails(c)
  BY <1>11, EndTyped DEF ForeignKeyFails, Rollback, NoStatement
<1>12. CASE MarkFailed(c)
  <2> DEFINE t == [db EXCEPT !.status[call[c].snap] =
                                IF @ = "absent" THEN @ ELSE "failed"]
  <2>1. t \in Tables
    BY <1>0, <1>12 DEF MarkFailed, At, CallShape, Tables, Statuses
  <2>2. QED
    BY <1>12, <2>1, ExecuteTyped, EndTyped DEF MarkFailed
<1>13. CASE FlipCompleted(c)
  <2>1. [db EXCEPT !.status[call[c].snap] = "completed"] \in Tables
    BY DEF Tables, Statuses
  <2>2. CallShape([call[c] EXCEPT !.at = "move_pointer"])
    BY <1>0, <1>13 DEF FlipCompleted, At, CallShape, Calls
  <2>3. QED
    BY <1>13, <2>1, <2>2, ExecuteTyped, GotoTyped
    DEF FlipCompleted, Steps, TxnSteps
<1>14. CASE FlipRefused(c)
  BY <1>14, EndTyped DEF FlipRefused, Rollback
<1>15. CASE MovePointer(c)
  <2>1. [db EXCEPT !.current = call[c].snap] \in Tables
    BY <1>0 DEF Tables, Calls
  <2>2. CallShape([call[c] EXCEPT !.at = "commit"])
    BY <1>0, <1>15 DEF MovePointer, At, CallShape, Calls
  <2>3. QED
    BY <1>15, <2>1, <2>2, ExecuteTyped, GotoTyped
    DEF MovePointer, Steps, TxnSteps
<1>16. CASE ReadPointer(c)
  <2> DEFINE k == IF \/ db.current = NoSnapshot
                     \/ call[c].op = "get_current_snapshot_id"
                    THEN [NoCall EXCEPT !.at = "returned",
                                        !.snap = db.current]
                    ELSE [call[c] EXCEPT !.at = "select", !.snap = db.current]
  <2>1. NoCall \in Calls /\ db.current \in OptIds
    BY InitTyped DEF NoCall, Calls, OptIds, Ended, NoRows, Rows, Tables
  <2>2. k \in Calls /\ CallShape(k)
    BY <1>0, <1>16, <2>1
    DEF NoCall, Calls, CallShape, Steps, AutoSteps, Ended, OptIds, ReadPointer,
        At
  <2>3. call' = [call EXCEPT ![c] = k]
    BY <1>16 DEF ReadPointer
  <2>4. QED
    BY <1>16, <2>2, <2>3 DEF CallsOK, ReadPointer, NoStatement
<1>17. CASE SelectCatalog(c)
  <2> DEFINE k == [NoCall EXCEPT
                     !.at = "returned",
                     !.projs = call[c].projs \cap db.catalog[call[c].snap]]
  <2>1. NoRows \in Rows
    BY DEF NoRows, Rows, OptIds
  <2>2. k \in Calls /\ CallShape(k)
    BY <1>0, <2>1 DEF NoCall, Calls, CallShape, Ended, OptIds
  <2>3. call' = [call EXCEPT ![c] = k]
    BY <1>17 DEF SelectCatalog
  <2>4. QED
    BY <1>17, <2>2, <2>3 DEF CallsOK, SelectCatalog, NoStatement
<1>18. CASE SelectProfiles(c)
  <2> DEFINE r == [p \in Projects |-> IF p \in call[c].projs
                                        THEN db.profile[call[c].snap][p]
                                        ELSE NoSnapshot]
             k == [NoCall EXCEPT !.at = "returned", !.rows = r]
  <2>1. r \in Rows
    BY <1>0, <1>18 DEF SelectProfiles, At, CallShape, Tables, Rows, OptIds
  <2>2. k \in Calls /\ CallShape(k)
    BY <2>1 DEF NoCall, Calls, CallShape, Ended, OptIds
  <2>3. call' = [call EXCEPT ![c] = k]
    BY <1>18 DEF SelectProfiles
  <2>4. QED
    BY <1>18, <2>2, <2>3 DEF CallsOK, SelectProfiles, NoStatement
<1>19. CASE StatementFails(c)
  BY <1>19, EndTyped DEF StatementFails, Rollback, NoStatement
<1>20. CASE ClosedRaises(c)
  BY <1>20, EndTyped DEF ClosedRaises, NoStatement
<1>21. QED
  BY <1>1, <1>2, <1>3, <1>4, <1>5, <1>6, <1>7, <1>8, <1>9, <1>10, <1>11,
     <1>12, <1>13, <1>14, <1>15, <1>16, <1>17, <1>18, <1>19, <1>20
  DEF StoreStep

-----------------------------------------------------------------------------
(* One transaction at a time.                                                *)

TxnInv == Typed /\ TransactionOwned /\ (closed => ~inTxn)

LEMMA StoreStepTxn ==
  ASSUME TxnInv, NEW c \in Clients, StoreStep(c)
  PROVE  TxnInv'
<1>0. Typed'
  BY StoreStepTyped DEF TxnInv
<1> USE <1>0 DEF TxnInv, Typed, TypeOK, TransactionOwned, At, Execute,
    Rollback, NoStatement, Goto, Return, Raise, ReturnValue, Exception, NoCall
<1>1. CASE RequireInProgress(c)
  BY <1>1 DEF RequireInProgress, AfterCheck, TxnSteps, Calls
<1>2. CASE BeginTransaction(c)
  BY <1>2 DEF BeginTransaction, AfterBegin, TxnSteps, Calls
<1>3. CASE Commit(c)
  BY <1>3 DEF Commit, TxnSteps, Calls
<1>4. CASE InsertSnapshot(c)
  BY <1>4 DEF InsertSnapshot, TxnSteps, Calls
<1>5. CASE InsertSnapshotFails(c)
  BY <1>5 DEF InsertSnapshotFails, TxnSteps, Calls
<1>6. CASE CopyProfiles(c)
  BY <1>6 DEF CopyProfiles, TxnSteps, Calls
<1>7. CASE CopyCatalog(c)
  BY <1>7 DEF CopyCatalog, TxnSteps, Calls
<1>8. CASE UpsertProfile(c)
  BY <1>8 DEF UpsertProfile, TxnSteps, Calls
<1>9. CASE InsertSkip(c)
  BY <1>9 DEF InsertSkip, TxnSteps, Calls
<1>10. CASE UpsertCatalog(c)
  BY <1>10 DEF UpsertCatalog, TxnSteps, Calls
<1>11. CASE ForeignKeyFails(c)
  BY <1>11 DEF ForeignKeyFails, TxnSteps, Calls
<1>12. CASE MarkFailed(c)
  BY <1>12 DEF MarkFailed, TxnSteps, Calls
<1>13. CASE FlipCompleted(c)
  BY <1>13 DEF FlipCompleted, TxnSteps, Calls
<1>14. CASE FlipRefused(c)
  BY <1>14 DEF FlipRefused, TxnSteps, Calls
<1>15. CASE MovePointer(c)
  BY <1>15 DEF MovePointer, TxnSteps, Calls
<1>16. CASE ReadPointer(c)
  BY <1>16 DEF ReadPointer, TxnSteps, Calls
<1>17. CASE SelectCatalog(c)
  BY <1>17 DEF SelectCatalog, TxnSteps, Calls
<1>18. CASE SelectProfiles(c)
  BY <1>18 DEF SelectProfiles, TxnSteps, Calls
<1>19. CASE StatementFails(c)
  BY <1>19 DEF StatementFails, TxnSteps, Calls
<1>20. CASE ClosedRaises(c)
  BY <1>20 DEF ClosedRaises, TxnSteps, Calls
<1>21. QED
  BY <1>1, <1>2, <1>3, <1>4, <1>5, <1>6, <1>7, <1>8, <1>9, <1>10, <1>11,
     <1>12, <1>13, <1>14, <1>15, <1>16, <1>17, <1>18, <1>19, <1>20
  DEF StoreStep

LEMMA NextTyped == Typed /\ [Next]_storeVars => Typed'
<1> SUFFICES ASSUME Typed, [Next]_storeVars
             PROVE  Typed'
  OBVIOUS
<1> USE DEF Typed, TypeOK
<1>0. NoCall \in Calls /\ CallShape(NoCall)
  BY DEF NoCall, Calls, CallShape, OptIds, Ended, NoRows, Rows
<1>1. ASSUME NEW c \in Clients, Invoke(c)
      PROVE  Typed'
  <2>1. PICK k \in {NoCall} \cup LegalCalls : call' = [call EXCEPT ![c] = k]
    BY <1>1 DEF Invoke
  <2>2. k \in Calls /\ CallShape(k)
    BY <1>0, LegalCallsTyped
  <2>3. QED
    BY <1>1, <2>1, <2>2 DEF CallsOK, Invoke, NoStatement
<1>2. ASSUME NEW c \in Clients, StoreStep(c)
      PROVE  Typed'
  BY <1>2, StoreStepTyped
<1>3. CASE CloseStore
  BY <1>3 DEF CloseStore, CallsOK
<1>4. CASE RestartStore
  BY <1>0, <1>4 DEF RestartStore, CallsOK
<1>5. CASE UNCHANGED storeVars
  BY <1>5 DEF storeVars, CallsOK
<1>6. QED
  BY <1>1, <1>2, <1>3, <1>4, <1>5 DEF Next

(* The tables, the connection and every call keep the types they were given, *)
(* whoever calls the store and however the calls interleave.                 *)
THEOREM TypeCorrect == Spec => []TypeOK
<1>1. Init => Typed
  BY InitTyped
<1>2. Typed /\ [Next]_storeVars => Typed'
  BY NextTyped
<1>3. Typed => TypeOK
  BY DEF Typed
<1>4. QED
  BY <1>1, <1>2, <1>3, PTL DEF Spec

LEMMA NextTxn == TxnInv /\ [Next]_storeVars => TxnInv'
<1> SUFFICES ASSUME TxnInv, [Next]_storeVars
             PROVE  TxnInv'
  OBVIOUS
<1>0. Typed'
  BY NextTyped DEF TxnInv
<1> USE <1>0 DEF TxnInv, Typed, TypeOK, TransactionOwned
<1>1. ASSUME NEW c \in Clients, Invoke(c)
      PROVE  TxnInv'
  <2>1. PICK k \in {NoCall} \cup LegalCalls : call' = [call EXCEPT ![c] = k]
    BY <1>1 DEF Invoke
  <2>2. k.at \notin TxnSteps
    BY DEF NoCall, LegalCalls, NewCall, FirstStep, TxnSteps
  <2>3. call[c].at \notin TxnSteps
    BY <1>1 DEF Invoke, Ended, TxnSteps
  <2>4. QED
    BY <1>1, <2>1, <2>2, <2>3 DEF Invoke, NoStatement
<1>2. ASSUME NEW c \in Clients, StoreStep(c)
      PROVE  TxnInv'
  BY <1>2, StoreStepTxn
<1>3. CASE CloseStore
  BY <1>3 DEF CloseStore
<1>4. CASE RestartStore
  BY <1>4 DEF RestartStore, NoCall, TxnSteps
<1>5. CASE UNCHANGED storeVars
  BY <1>5 DEF storeVars
<1>6. QED
  BY <1>1, <1>2, <1>3, <1>4, <1>5 DEF Next

(* No thread ever works in another thread's transaction, for every number of *)
(* threads: the BEGIN outside the try block is what this rests on.           *)
THEOREM OneTransaction == Spec => []TransactionOwned
<1>1. Init => TxnInv
  <2>1. Init => Typed
    BY InitTyped
  <2>2. QED
    BY <2>1 DEF TxnInv, TransactionOwned, Init, NoCall, TxnSteps
<1>2. TxnInv /\ [Next]_storeVars => TxnInv'
  BY NextTxn
<1>3. TxnInv => TransactionOwned
  BY DEF TxnInv
<1>4. QED
  BY <1>1, <1>2, <1>3, PTL DEF Spec

-----------------------------------------------------------------------------
(* The pointer.                                                              *)

(* Client c has flipped its snapshot's status and not committed yet.         *)
Promoting(c) ==
  /\ ~closed
  /\ call[c].op = "commit_snapshot"
  /\ call[c].at \in {"move_pointer", "commit"}

(* What is uncommitted is a legal continuation of what is committed; a       *)
(* commit_snapshot that has flipped found its snapshot in progress on disk;  *)
(* a moved pointer belongs to a commit_snapshot about to COMMIT.             *)
PendingStatuses ==
  \A s \in Ids : MayBecome(disk.status[s], db.status[s])

FlipsCommittedRows ==
  \A c \in Clients : ~closed /\ call[c].at = "flip" =>
    \A s \in Ids : db.status[s] = "in_progress" =>
                      disk.status[s] = "in_progress"

PromotesOpenRows ==
  \A c \in Clients : Promoting(c) =>
    /\ disk.status[call[c].snap] = "in_progress"
    /\ db.status[call[c].snap] \in {"completed", "failed"}
    /\ call[c].at = "commit" => db.current = call[c].snap

MovedPointerOwned ==
  db.current # disk.current =>
    \E c \in Clients : /\ Promoting(c)
                       /\ call[c].at = "commit"
                       /\ call[c].snap = db.current

PointerInv == /\ TxnInv
              /\ PendingStatuses
              /\ FlipsCommittedRows
              /\ PromotesOpenRows
              /\ MovedPointerOwned
              /\ CurrentWasCompleted

(* A step that touches neither statuses nor pointer and does not end a       *)
(* COMMIT of its client.                                                     *)
LEMMA PointerFrame ==
  ASSUME PointerInv, TxnInv', NEW c \in Clients, NEW k,
         call' = [call EXCEPT ![c] = k],
         k.at \notin {"flip", "move_pointer"},
         ~ (k.at = "commit" /\ k.op = "commit_snapshot"),
         closed \/ call[c].at # "commit",
         closed' = closed,
         db'.status = db.status, db'.current = db.current,
         disk'.status = disk.status, disk'.current = disk.current
  PROVE  PointerInv'
<1> USE DEF PointerInv, TxnInv, Typed, TypeOK
<1>1. PendingStatuses'
  BY DEF PendingStatuses, MayBecome
<1>2. FlipsCommittedRows'
  BY DEF FlipsCommittedRows
<1>3. PromotesOpenRows'
  BY DEF PromotesOpenRows, Promoting
<1>4. MovedPointerOwned'
  BY DEF MovedPointerOwned, Promoting
<1>5. CurrentWasCompleted'
  BY DEF CurrentWasCompleted
<1>6. QED
  BY <1>1, <1>2, <1>3, <1>4, <1>5

(* The two ways a step is one of those: it executes nothing, or a statement  *)
(* on the row tables.                                                        *)
LEMMA PointerNoStatement ==
  ASSUME PointerInv, TxnInv', NEW c \in Clients, NEW k, NoStatement,
         call' = [call EXCEPT ![c] = k],
         k.at \notin {"flip", "move_pointer", "commit"},
         closed \/ call[c].at # "commit"
  PROVE  PointerInv'
  BY PointerFrame DEF NoStatement

LEMMA PointerWrite ==
  ASSUME PointerInv, TxnInv', NEW c \in Clients, NEW k, NEW t, Execute(t),
         call' = [call EXCEPT ![c] = k],
         k.at \notin {"flip", "move_pointer"},
         ~ (k.at = "commit" /\ k.op = "commit_snapshot"),
         call[c].at # "commit",
         t.status = db.status, t.current = db.current
  PROVE  PointerInv'
<1>1. ~inTxn => disk = db
  BY DEF PointerInv, TxnInv, TransactionOwned
<1>2. QED
  BY <1>1, PointerFrame DEF Execute

LEMMA PointerRaise ==
  ASSUME PointerInv, TxnInv', NEW c \in Clients, NoStatement, Raise(c),
         closed \/ call[c].at # "commit"
  PROVE  PointerInv'
<1>1. call' = [call EXCEPT ![c] = Exception] /\ Exception.at = "raised"
  BY OutcomeTyped DEF Raise, PointerInv, TxnInv, Typed, TypeOK
<1>2. QED
  BY <1>1, PointerNoStatement

(* A transaction is rolled back by its owner.                                *)
LEMMA PointerRollback ==
  ASSUME PointerInv, TxnInv', NEW c \in Clients, Rollback, Raise(c),
         ~closed, call[c].at \in TxnSteps
  PROVE  PointerInv'
<1> USE DEF PointerInv, TxnInv, Typed, TypeOK, Rollback
<1>1. PendingStatuses'
  BY DEF PendingStatuses, MayBecome
<1>2. \A d \in Clients : call'[d].at \notin TxnSteps
  BY DEF Raise, Goto, TransactionOwned, TxnSteps, Calls
<1>3. FlipsCommittedRows' /\ PromotesOpenRows' /\ MovedPointerOwned'
  BY <1>2 DEF FlipsCommittedRows, PromotesOpenRows, MovedPointerOwned,
     Promoting, TxnSteps
<1>4. CurrentWasCompleted'
  BY DEF CurrentWasCompleted
<1>5. QED
  BY <1>1, <1>3, <1>4

LEMMA StoreStepPointer ==
  ASSUME PointerInv, NEW c \in Clients, StoreStep(c)
  PROVE  PointerInv'
<1>0. TxnInv'
  BY StoreStepTxn DEF PointerInv
<1> USE <1>0 DEF PointerInv, TxnInv, Typed, TypeOK, At, Execute, NoStatement,
    Goto, Return, Raise, Calls
<1>a. CallShape(call[c])
  BY DEF CallsOK
<1>b. call[c].at \in TxnSteps /\ ~closed => inTxn
  BY DEF TransactionOwned
<1>c. ~inTxn => db = disk
  BY DEF TransactionOwned
<1>1. CASE RequireInProgress(c)
  <2>1. CASE Raise(c)
    BY <1>1, <2>1, PointerRaise DEF RequireInProgress
  <2>2. CASE ~ Raise(c)
    BY <1>1, <2>2, PointerFrame DEF RequireInProgress, AfterCheck
  <2>3. QED
    BY <2>1, <2>2
<1>2. CASE BeginTransaction(c)
  <2>1. CASE inTxn
    BY <1>2, <2>1, PointerRaise DEF BeginTransaction
  <2>2. CASE ~inTxn
    <3>1. db = disk
      BY <2>2 DEF TransactionOwned
    <3>2. \A d \in Clients : d # c => call'[d] = call[d]
      BY <1>2, <2>2 DEF BeginTransaction
    <3>3. call'[c].at \notin {"move_pointer", "commit"}
      BY <1>2, <2>2 DEF BeginTransaction, AfterBegin
    <3>4. PendingStatuses' /\ FlipsCommittedRows' /\ CurrentWasCompleted'
      BY <1>2, <2>2, <3>1
      DEF BeginTransaction, PendingStatuses, MayBecome, FlipsCommittedRows,
          CurrentWasCompleted
    <3>5. PromotesOpenRows'
      BY <1>2, <2>2, <3>2, <3>3
      DEF BeginTransaction, PromotesOpenRows, Promoting
    <3>6. MovedPointerOwned'
      BY <1>2, <2>2, <3>1 DEF BeginTransaction, MovedPointerOwned
    <3>7. QED
      BY <3>4, <3>5, <3>6
  <2>3. QED
    BY <2>1, <2>2
<1>3. CASE Commit(c)
  <2>1. \A d \in Clients : call'[d].at \notin TxnSteps
    BY <1>3 DEF Commit, TransactionOwned, TxnSteps
  <2>2. PendingStatuses' /\ MovedPointerOwned'
    BY <1>3 DEF Commit, PendingStatuses, MayBecome, MovedPointerOwned
  <2>3. FlipsCommittedRows' /\ PromotesOpenRows'
    BY <2>1 DEF FlipsCommittedRows, PromotesOpenRows, Promoting, TxnSteps
  <2>4. CurrentWasCompleted'
    <3>1. CASE db.current = disk.current
      <4>1. db.current # NoSnapshot => db.current \in Ids
        BY DEF Tables, OptIds
      <4>2. QED
        BY <1>3, <3>1, <4>1
        DEF Commit, CurrentWasCompleted, PendingStatuses, MayBecome
    <3>2. CASE db.current # disk.current
      BY <1>3, <3>2
      DEF Commit, CurrentWasCompleted, MovedPointerOwned, PromotesOpenRows
    <3>3. QED
      BY <3>1, <3>2
  <2>5. QED
    BY <2>2, <2>3, <2>4
<1>4. CASE InsertSnapshot(c)
  <2>0. inTxn /\ ~closed /\ call[c].op = "begin_snapshot"
    BY <1>a, <1>b, <1>4 DEF InsertSnapshot, CallShape, TxnSteps
  <2>1. PICK n \in Ids :
          /\ db.status[n] = "absent"
          /\ db' = [db EXCEPT !.status[n] = "in_progress",
                              !.parent[n] = call[c].base]
    BY <1>4 DEF InsertSnapshot, IsNextId
  <2>2. /\ \A d \in Clients : d # c =>
              call'[d] = call[d] /\ call[d].at \notin TxnSteps
        /\ call'[c].op = "begin_snapshot"
        /\ call'[c].at \in {"commit", "copy_profiles"}
    BY <1>4, <2>0 DEF InsertSnapshot, TransactionOwned, TxnSteps
  <2>3. disk' = disk /\ closed' = closed
    BY <1>4, <2>0 DEF InsertSnapshot
  <2>4. PendingStatuses'
    BY <2>1, <2>3 DEF PendingStatuses, MayBecome, Tables
  <2>5. FlipsCommittedRows' /\ PromotesOpenRows'
    BY <2>2 DEF FlipsCommittedRows, PromotesOpenRows, Promoting, TxnSteps
  <2>6. db.current = disk.current
    BY <1>4, <2>2 DEF InsertSnapshot, MovedPointerOwned, Promoting, TxnSteps
  <2>7. MovedPointerOwned' /\ CurrentWasCompleted'
    BY <2>1, <2>3, <2>6 DEF MovedPointerOwned, CurrentWasCompleted, Tables
  <2>8. QED
    BY <2>4, <2>5, <2>7
<1>5. CASE InsertSnapshotFails(c)
  BY <1>5, PointerRollback DEF InsertSnapshotFails, TxnSteps
<1>6. CASE CopyProfiles(c)
  <2> DEFINE s == call[c].snap
             k == [call[c] EXCEPT !.at = "copy_catalog"]
             t == [db EXCEPT !.profile[s] = db.profile[call[c].base]]
  <2>1. call' = [call EXCEPT ![c] = k] /\ k.at = "copy_catalog"
    BY <1>6 DEF CopyProfiles
  <2>2. t.status = db.status /\ t.current = db.current
    BY DEF Tables
  <2>3. Execute(t) /\ call[c].at # "commit"
    BY <1>6 DEF CopyProfiles
  <2> HIDE DEF t, k
  <2>4. QED
    BY <2>1, <2>2, <2>3, PointerWrite
<1>7. CASE CopyCatalog(c)
  <2> DEFINE s == call[c].snap
             k == [call[c] EXCEPT !.at = "commit"]
             t == [db EXCEPT !.catalog[s] = db.catalog[call[c].base]]
  <2>1. call' = [call EXCEPT ![c] = k] /\ k.at = "commit" /\ k.op = "begin_snapshot"
    BY <1>a, <1>7 DEF CopyCatalog, CallShape
  <2>2. t.status = db.status /\ t.current = db.current
    BY DEF Tables
  <2>3. Execute(t) /\ call[c].at # "commit"
    BY <1>7 DEF CopyCatalog
  <2> HIDE DEF t, k
  <2>4. QED
    BY <2>1, <2>2, <2>3, PointerWrite
<1>8. CASE UpsertProfile(c)
  <2> DEFINE s == call[c].snap
             k == ReturnValue(c)
             t == [db EXCEPT !.profile[s] =
                     [p \in Projects |->
                        IF p \in call[c].projs THEN s ELSE db.profile[s][p]]]
  <2>1. call' = [call EXCEPT ![c] = k] /\ k.at = "returned"
    BY <1>8, OutcomeTyped DEF UpsertProfile
  <2>2. t.status = db.status /\ t.current = db.current
    BY DEF Tables
  <2>3. Execute(t) /\ call[c].at # "commit"
    BY <1>8 DEF UpsertProfile
  <2> HIDE DEF t, k
  <2>4. QED
    BY <2>1, <2>2, <2>3, PointerWrite
<1>9. CASE InsertSkip(c)
  <2> DEFINE s == call[c].snap
             k == ReturnValue(c)
             t == [db EXCEPT !.skips[s] = db.skips[s] \cup call[c].projs]
  <2>1. call' = [call EXCEPT ![c] = k] /\ k.at = "returned"
    BY <1>9, OutcomeTyped DEF InsertSkip
  <2>2. t.status = db.status /\ t.current = db.current
    BY DEF Tables
  <2>3. Execute(t) /\ call[c].at # "commit"
    BY <1>9 DEF InsertSkip
  <2> HIDE DEF t, k
  <2>4. QED
    BY <2>1, <2>2, <2>3, PointerWrite
<1>10. CASE UpsertCatalog(c)
  <2> DEFINE s == call[c].snap
             k == [call[c] EXCEPT !.at = "commit"]
             t == [db EXCEPT !.catalog[s] = db.catalog[s] \cup call[c].projs]
  <2>1. call' = [call EXCEPT ![c] = k] /\ k.at = "commit" /\ k.op = "populate_in_scope"
    BY <1>a, <1>10 DEF UpsertCatalog, CallShape
  <2>2. t.status = db.status /\ t.current = db.current
    BY DEF Tables
  <2>3. Execute(t) /\ call[c].at # "commit"
    BY <1>10 DEF UpsertCatalog
  <2> HIDE DEF t, k
  <2>4. QED
    BY <2>1, <2>2, <2>3, PointerWrite
<1>11. CASE ForeignKeyFails(c)
  <2>1. CASE call[c].at \in TxnSteps
    BY <1>11, <2>1, PointerRollback DEF ForeignKeyFails
  <2>2. CASE call[c].at \notin TxnSteps
    BY <1>11, <2>2, PointerRaise DEF ForeignKeyFails
  <2>3. QED
    BY <2>1, <2>2
<1>12. CASE MarkFailed(c)
  <2> DEFINE s == call[c].snap
  <2>0. s \in Ids /\ ~closed /\ closed' = closed
    BY <1>a, <1>12 DEF MarkFailed, CallShape
  <2>1. /\ \A r \in Ids : r # s => db'.status[r] = db.status[r]
        /\ db'.status[s] = IF db.status[s] = "absent" THEN "absent"
                                                     ELSE "failed"
        /\ db'.current = db.current
    BY <1>12, <2>0 DEF MarkFailed, Tables
  <2>2. /\ \A d \in Clients : d # c => call'[d] = call[d]
        /\ call'[c].at = "returned"
        /\ call[c].at = "mark_failed"
    BY <1>12, OutcomeTyped DEF MarkFailed
  <2>3. CASE inTxn
    <3>1. disk' = disk
      BY <1>12, <2>3 DEF MarkFailed
    <3>2. PendingStatuses'
      BY <2>1, <3>1 DEF PendingStatuses, MayBecome, Tables, Statuses
    <3>3. FlipsCommittedRows'
      BY <2>0, <2>1, <2>2, <3>1 DEF FlipsCommittedRows
    <3>4. PromotesOpenRows'
      <4> SUFFICES ASSUME NEW d \in Clients, Promoting(d)'
                   PROVE  /\ disk'.status[call'[d].snap] = "in_progress"
                          /\ db'.status[call'[d].snap] \in
                               {"completed", "failed"}
                          /\ call'[d].at = "commit" =>
                               db'.current = call'[d].snap
        BY DEF PromotesOpenRows
      <4>1. d # c /\ Promoting(d) /\ call'[d] = call[d]
        BY <2>0, <2>2 DEF Promoting
      <4>2. call[d].snap \in Ids
        BY <4>1 DEF CallsOK, CallShape, Promoting
      <4>3. QED
        BY <2>1, <3>1, <4>1, <4>2 DEF PromotesOpenRows
    <3>5. MovedPointerOwned'
      BY <2>0, <2>1, <2>2, <3>1 DEF MovedPointerOwned, Promoting
    <3>6. QED
      BY <3>1, <3>2, <3>3, <3>4, <3>5 DEF CurrentWasCompleted
  <2>4. CASE ~inTxn
    <3>1. db = disk /\ db' = disk'
      BY <1>12, <2>4 DEF MarkFailed, TransactionOwned
    <3>2. \A d \in Clients : call'[d].at \notin TxnSteps
      BY <2>0, <2>2, <2>4 DEF TransactionOwned, TxnSteps
    <3>3. PendingStatuses' /\ MovedPointerOwned'
      BY <3>1 DEF PendingStatuses, MayBecome, MovedPointerOwned
    <3>4. FlipsCommittedRows' /\ PromotesOpenRows'
      BY <3>2 DEF FlipsCommittedRows, PromotesOpenRows, Promoting, TxnSteps
    <3>5. CurrentWasCompleted'
      BY <2>1, <3>1 DEF CurrentWasCompleted, Tables, OptIds
    <3>6. QED
      BY <3>3, <3>4, <3>5
  <2>5. QED
    BY <2>3, <2>4
<1>13. CASE FlipCompleted(c)
  <2> DEFINE s == call[c].snap
  <2>0. /\ s \in Ids /\ ~closed /\ closed' = closed /\ inTxn
        /\ db.status[s] = "in_progress"
    BY <1>a, <1>b, <1>13 DEF FlipCompleted, CallShape, TxnSteps
  <2>1. disk.status[s] = "in_progress"
    BY <1>13, <2>0 DEF FlipCompleted, FlipsCommittedRows
  <2>2. /\ \A r \in Ids : r # s => db'.status[r] = db.status[r]
        /\ db'.status[s] = "completed"
        /\ db'.current = db.current
        /\ disk' = disk
    BY <1>13, <2>0 DEF FlipCompleted, Tables
  <2>3. /\ \A d \in Clients : d # c =>
              call'[d] = call[d] /\ call[d].at \notin TxnSteps
        /\ call'[c].at = "move_pointer"
        /\ call'[c].snap = s
        /\ call[c].at = "flip"
    BY <1>13, <2>0 DEF FlipCompleted, TransactionOwned, TxnSteps
  <2>4. PendingStatuses'
    BY <2>1, <2>2 DEF PendingStatuses, MayBecome
  <2>5. FlipsCommittedRows' /\ PromotesOpenRows'
    BY <2>0, <2>1, <2>2, <2>3
    DEF FlipsCommittedRows, PromotesOpenRows, Promoting, TxnSteps
  <2>6. MovedPointerOwned' /\ CurrentWasCompleted'
    BY <2>2, <2>3
    DEF MovedPointerOwned, Promoting, TxnSteps, CurrentWasCompleted
  <2>7. QED
    BY <2>4, <2>5, <2>6
<1>14. CASE FlipRefused(c)
  BY <1>14, PointerRollback DEF FlipRefused, TxnSteps
<1>15. CASE MovePointer(c)
  <2> DEFINE s == call[c].snap
  <2>0. /\ s \in Ids /\ ~closed /\ closed' = closed /\ inTxn
        /\ call[c].op = "commit_snapshot"
    BY <1>a, <1>b, <1>15 DEF MovePointer, CallShape, TxnSteps
  <2>1. /\ db'.status = db.status
        /\ db'.current = s
        /\ disk' = disk
    BY <1>15, <2>0 DEF MovePointer, Tables
  <2>2. /\ \A d \in Clients : d # c =>
              call'[d] = call[d] /\ call[d].at \notin TxnSteps
        /\ call'[c].at = "commit"
        /\ call'[c].op = "commit_snapshot"
        /\ call'[c].snap = s
        /\ call[c].at = "move_pointer"
    BY <1>15, <2>0 DEF MovePointer, TransactionOwned, TxnSteps
  <2>3. PendingStatuses' /\ CurrentWasCompleted'
    BY <2>1 DEF PendingStatuses, CurrentWasCompleted
  <2>4. FlipsCommittedRows' /\ PromotesOpenRows'
    BY <2>0, <2>1, <2>2
    DEF FlipsCommittedRows, PromotesOpenRows, Promoting, TxnSteps
  <2>5. MovedPointerOwned'
    BY <2>0, <2>1, <2>2 DEF MovedPointerOwned, Promoting
  <2>6. QED
    BY <2>3, <2>4, <2>5
<1>16. CASE ReadPointer(c)
  <2> DEFINE k == IF \/ db.current = NoSnapshot
                     \/ call[c].op = "get_current_snapshot_id"
                    THEN [NoCall EXCEPT !.at = "returned",
                                        !.snap = db.current]
                    ELSE [call[c] EXCEPT !.at = "select", !.snap = db.current]
  <2>1. k.at \in {"returned", "select"} /\ call[c].at # "commit"
    BY <1>16 DEF ReadPointer, NoCall
  <2>2. call' = [call EXCEPT ![c] = k] /\ NoStatement
    BY <1>16 DEF ReadPointer
  <2> HIDE DEF k
  <2>3. QED
    BY <2>1, <2>2, PointerNoStatement
<1>17. CASE SelectCatalog(c)
  <2> DEFINE k == [NoCall EXCEPT
                     !.at = "returned",
                     !.projs = call[c].projs \cap db.catalog[call[c].snap]]
  <2>1. k.at = "returned" /\ call[c].at # "commit"
    BY <1>17 DEF SelectCatalog, NoCall
  <2>2. call' = [call EXCEPT ![c] = k] /\ NoStatement
    BY <1>17 DEF SelectCatalog
  <2> HIDE DEF k
  <2>3. QED
    BY <2>1, <2>2, PointerNoStatement
<1>18. CASE SelectProfiles(c)
  <2> DEFINE r == [p \in Projects |-> IF p \in call[c].projs
                                        THEN db.profile[call[c].snap][p]
                                        ELSE NoSnapshot]
             k == [NoCall EXCEPT !.at = "returned", !.rows = r]
  <2>1. k.at = "returned" /\ call[c].at # "commit"
    BY <1>18 DEF SelectProfiles, NoCall
  <2>2. call' = [call EXCEPT ![c] = k] /\ NoStatement
    BY <1>18 DEF SelectProfiles
  <2> HIDE DEF k
  <2>3. QED
    BY <2>1, <2>2, PointerNoStatement
<1>19. CASE StatementFails(c)
  <2>1. CASE call[c].at \in TxnSteps
    BY <1>19, <2>1, PointerRollback DEF StatementFails
  <2>2. CASE call[c].at \notin TxnSteps
    BY <1>19, <2>2, PointerRaise DEF StatementFails, TxnSteps
  <2>3. QED
    BY <2>1, <2>2
<1>20. CASE ClosedRaises(c)
  BY <1>20, PointerRaise DEF ClosedRaises
<1>21. QED
  BY <1>1, <1>2, <1>3, <1>4, <1>5, <1>6, <1>7, <1>8, <1>9, <1>10, <1>11,
     <1>12, <1>13, <1>14, <1>15, <1>16, <1>17, <1>18, <1>19, <1>20
  DEF StoreStep

LEMMA InitPointer == Init => PointerInv
<1>1. Init => Typed
  BY InitTyped
<1>2. Init => TxnInv
  BY <1>1 DEF TxnInv, TransactionOwned, Init, NoCall, TxnSteps
<1>3. QED
  BY <1>2
  DEF PointerInv, PendingStatuses, MayBecome, FlipsCommittedRows,
      PromotesOpenRows, MovedPointerOwned, Promoting, CurrentWasCompleted,
      Init, EmptyTables, NoCall

LEMMA NextPointer == PointerInv /\ [Next]_storeVars => PointerInv'
<1> SUFFICES ASSUME PointerInv, [Next]_storeVars
             PROVE  PointerInv'
  OBVIOUS
<1>0. TxnInv'
  BY NextTxn DEF PointerInv
<1> USE DEF PointerInv, TxnInv, Typed, TypeOK
<1>1. ASSUME NEW c \in Clients, Invoke(c)
      PROVE  PointerInv'
  <2>1. PICK k \in {NoCall} \cup LegalCalls : call' = [call EXCEPT ![c] = k]
    BY <1>1 DEF Invoke
  <2>2. k.at \notin {"flip", "move_pointer", "commit"}
    BY DEF NoCall, LegalCalls, NewCall, FirstStep
  <2>3. call[c].at # "commit"
    BY <1>1 DEF Invoke, Ended
  <2>4. QED
    BY <1>0, <1>1, <2>1, <2>2, <2>3, PointerNoStatement DEF Invoke
<1>2. ASSUME NEW c \in Clients, StoreStep(c)
      PROVE  PointerInv'
  BY <1>2, StoreStepPointer
<1>3. CASE CloseStore \/ RestartStore
  <2>1. /\ db' = disk
        /\ disk' = disk
        /\ closed' \/ \A c \in Clients : call'[c] = NoCall
    BY <1>3 DEF CloseStore, RestartStore
  <2>2. PendingStatuses' /\ MovedPointerOwned' /\ CurrentWasCompleted'
    BY <2>1 DEF PendingStatuses, MayBecome, MovedPointerOwned,
       CurrentWasCompleted
  <2>3. FlipsCommittedRows' /\ PromotesOpenRows'
    BY <2>1 DEF FlipsCommittedRows, PromotesOpenRows, Promoting, NoCall
  <2>4. QED
    BY <1>0, <2>2, <2>3
<1>4. CASE UNCHANGED storeVars
  BY <1>0, <1>4
  DEF storeVars, PendingStatuses, FlipsCommittedRows, PromotesOpenRows,
      MovedPointerOwned, Promoting, CurrentWasCompleted
<1>5. QED
  BY <1>1, <1>2, <1>3, <1>4 DEF Next

(* Whatever the callers do and whenever the process dies, the committed      *)
(* pointer names a snapshot that commit_snapshot completed.                  *)
THEOREM PointerSafe == Spec => []CurrentWasCompleted
<1>1. PointerInv => CurrentWasCompleted
  BY DEF PointerInv
<1>2. QED
  BY <1>1, InitPointer, NextPointer, PTL DEF Spec

(* What reaches the disk in one step.                                        *)
LEMMA DiskStep ==
  ASSUME PointerInv, [Next]_storeVars
  PROVE  disk' = disk \/ disk' = db \/ (~inTxn /\ disk' = db')
<1>1. ASSUME NEW c \in Clients, StoreStep(c)
      PROVE  disk' = disk \/ disk' = db \/ (~inTxn /\ disk' = db')
  BY <1>1
  DEF StoreStep, RequireInProgress, BeginTransaction, Commit, InsertSnapshot,
      InsertSnapshotFails, CopyProfiles, CopyCatalog, UpsertProfile,
      InsertSkip, UpsertCatalog, ForeignKeyFails, MarkFailed, FlipCompleted,
      FlipRefused, MovePointer, ReadPointer, SelectCatalog, SelectProfiles,
      StatementFails, ClosedRaises, Execute, Rollback, NoStatement
<1>2. QED
  BY <1>1 DEF Next, Invoke, CloseStore, RestartStore, NoStatement, storeVars

(* However two commits, or a commit and an abort, overlap: only a snapshot   *)
(* that was in progress up to the COMMIT becomes current.                    *)
THEOREM PromotionSafe == Spec => OnlyOpenSnapshotsPromoted
<1> DEFINE A == disk'.current # disk.current =>
                  /\ disk'.current # NoSnapshot
                  /\ disk.status[disk'.current] = "in_progress"
<1>1. PointerInv /\ [Next]_storeVars => [A]_disk
  <2> SUFFICES ASSUME PointerInv, [Next]_storeVars,
                      disk'.current # disk.current
               PROVE  /\ disk'.current # NoSnapshot
                      /\ disk.status[disk'.current] = "in_progress"
    OBVIOUS
  <2>1. \A s \in Ids : s # NoSnapshot
    BY BoundAssumption DEF Ids, NoSnapshot
  <2>2. CASE disk' = db
    <3>1. PICK c \in Clients : /\ Promoting(c)
                              /\ call[c].at = "commit"
                              /\ call[c].snap = db.current
      BY <2>2 DEF PointerInv, MovedPointerOwned
    <3>2. call[c].snap \in Ids
      BY <3>1 DEF PointerInv, TxnInv, Typed, CallsOK, CallShape, Promoting
    <3>3. QED
      BY <2>1, <2>2, <3>1, <3>2 DEF PointerInv, PromotesOpenRows
  <2>3. CASE ~inTxn /\ disk' = db'
    <3>1. db = disk
      BY <2>3 DEF PointerInv, TxnInv, TransactionOwned
    <3>2. db'.current = db.current
      <4>1. ASSUME NEW c \in Clients, StoreStep(c)
            PROVE  db'.current = db.current
        <5>1. call[c].at \in TxnSteps => closed
          BY <2>3 DEF PointerInv, TxnInv, TransactionOwned
        <5>2. ~ MovePointer(c)
          BY <5>1 DEF MovePointer, At, TxnSteps
        <5>3. QED
          BY <2>3, <3>1, <4>1, <5>2
          DEF StoreStep, RequireInProgress, BeginTransaction, Commit,
              InsertSnapshot, InsertSnapshotFails, CopyProfiles, CopyCatalog,
              UpsertProfile, InsertSkip, UpsertCatalog, ForeignKeyFails,
              MarkFailed, FlipCompleted, FlipRefused, ReadPointer,
              SelectCatalog, SelectProfiles, StatementFails, ClosedRaises,
              Execute, Rollback, NoStatement, PointerInv, TxnInv, Typed,
              TypeOK, Tables
      <4>2. QED
        BY <3>1, <4>1
        DEF Next, Invoke, CloseStore, RestartStore, NoStatement, storeVars
    <3>3. QED
      BY <2>3, <3>1, <3>2
  <2>4. QED
    BY <2>2, <2>3, DiskStep
<1>2. QED
  BY <1>1, InitPointer, NextPointer, PTL DEF Spec, OnlyOpenSnapshotsPromoted

(* A statement outside a transaction may only fail a row.                    *)
LEMMA AutocommitStatuses ==
  ASSUME PointerInv, [Next]_storeVars, ~inTxn, disk' = db', NEW s \in Ids
  PROVE  MayBecome(disk.status[s], disk'.status[s])
<1> USE DEF PointerInv, TxnInv, Typed, TypeOK
<1>0. db = disk
  BY DEF TransactionOwned
<1>1. ASSUME NEW c \in Clients, StoreStep(c)
      PROVE  MayBecome(db.status[s], db'.status[s])
  <2>1. closed \/ call[c].at \notin TxnSteps
    BY DEF TransactionOwned
  <2>2. ~ InsertSnapshot(c) /\ ~ FlipCompleted(c)
    BY <2>1 DEF InsertSnapshot, FlipCompleted, At, TxnSteps
  <2>3. CASE MarkFailed(c)
    BY <2>3 DEF MarkFailed, Execute, MayBecome, Tables, Statuses
  <2>4. CASE ~ MarkFailed(c)
    <3>1. db'.status = db.status
      BY <1>0, <1>1, <2>2, <2>4
      DEF StoreStep, RequireInProgress, BeginTransaction, Commit,
          InsertSnapshotFails, CopyProfiles, CopyCatalog, UpsertProfile,
          InsertSkip, UpsertCatalog, ForeignKeyFails, FlipRefused,
          MovePointer, ReadPointer, SelectCatalog, SelectProfiles,
          StatementFails, ClosedRaises, Execute, Rollback, NoStatement, Tables
    <3>2. QED
      BY <3>1 DEF MayBecome
  <2>5. QED
    BY <2>3, <2>4
<1>2. QED
  BY <1>0, <1>1
  DEF Next, Invoke, CloseStore, RestartStore, NoStatement, storeVars,
      MayBecome

LEMMA StatusStep ==
  ASSUME PointerInv, [Next]_storeVars, NEW s \in Ids
  PROVE  MayBecome(disk.status[s], disk'.status[s])
  BY DiskStep, AutocommitStatuses DEF PointerInv, PendingStatuses, MayBecome

(* A snapshot that ended never reopens: the UPDATE of abort_snapshot, with   *)
(* no condition of its own, can only ever turn a row to failed.              *)
THEOREM StatusesSafe == Spec => StatusNeverReverts
<1> DEFINE A == \A s \in Ids : MayBecome(disk.status[s], disk'.status[s])
<1>1. PointerInv /\ [Next]_storeVars => [A]_disk
  BY StatusStep
<1>2. QED
  BY <1>1, InitPointer, NextPointer, PTL DEF Spec, StatusNeverReverts

-----------------------------------------------------------------------------
(* Rows of snapshots that do not exist.                                      *)

EmptyIfAbsent(t) ==
  \A s \in Ids : t.status[s] = "absent" =>
    /\ t.profile[s] = NoRows
    /\ t.catalog[s] = {}
    /\ t.skips[s] = {}

(* begin_snapshot copies rows under a snapshot that its transaction holds.   *)
CopiesIntoOwnRow ==
  \A c \in Clients :
    ~closed /\ call[c].at \in {"copy_profiles", "copy_catalog"} =>
      db.status[call[c].snap] # "absent"

RowsInv == /\ TxnInv
           /\ EmptyIfAbsent(db)
           /\ EmptyIfAbsent(disk)
           /\ CopiesIntoOwnRow

(* A statement that inserts rows under an existing snapshot.                 *)
LEMMA RowsWrite ==
  ASSUME RowsInv, TxnInv', NEW c \in Clients, NEW k, NEW t, Execute(t),
         call' = [call EXCEPT ![c] = k], k.at # "copy_profiles",
         k.at = "copy_catalog" => call[c].at = "copy_profiles",
         k.at = "copy_catalog" => k.snap = call[c].snap, ~closed,
         EmptyIfAbsent(t), t.status = db.status
  PROVE  RowsInv'
<1> USE DEF RowsInv, TxnInv, Typed, TypeOK, Execute
<1>1. EmptyIfAbsent(db)' /\ EmptyIfAbsent(disk)'
  BY DEF EmptyIfAbsent
<1>2. CopiesIntoOwnRow'
  BY DEF CopiesIntoOwnRow
<1>3. QED
  BY <1>1, <1>2

LEMMA StoreStepRows ==
  ASSUME RowsInv, NEW c \in Clients, StoreStep(c)
  PROVE  RowsInv'
<1>0. TxnInv'
  BY StoreStepTxn DEF RowsInv
<1> USE <1>0 DEF RowsInv, TxnInv, Typed, TypeOK, At, Goto, Return, Raise,
    Calls
<1>a. CallShape(call[c])
  BY DEF CallsOK
<1>1. ASSUME NEW k, call' = [call EXCEPT ![c] = k],
             k.at \notin {"copy_profiles", "copy_catalog"},
             db'.status = db.status, db'.profile = db.profile,
             db'.catalog = db.catalog, db'.skips = db.skips,
             disk' \in {disk, db, db'}, closed' = closed
      PROVE  RowsInv'
  <2>1. EmptyIfAbsent(db)' /\ EmptyIfAbsent(disk)'
    BY <1>1 DEF EmptyIfAbsent
  <2>2. CopiesIntoOwnRow'
    BY <1>1 DEF CopiesIntoOwnRow
  <2>3. QED
    BY <2>1, <2>2
<1>2. ASSUME Rollback, Raise(c), ~closed, call[c].at \in TxnSteps
      PROVE  RowsInv'
  <2>1. \A d \in Clients : call'[d].at \notin TxnSteps
    BY <1>2, OutcomeTyped DEF TransactionOwned, TxnSteps
  <2>2. CopiesIntoOwnRow'
    BY <2>1 DEF CopiesIntoOwnRow, TxnSteps
  <2>3. QED
    BY <1>2, <2>2 DEF Rollback, EmptyIfAbsent
<1>3. CASE NoStatement /\ Raise(c)
  <2> DEFINE k == Exception
  <2>1. call' = [call EXCEPT ![c] = k] /\ k.at = "raised"
    BY <1>3, OutcomeTyped
  <2> HIDE DEF k
  <2>2. QED
    BY <1>1, <1>3, <2>1 DEF NoStatement
<1>4. CASE RequireInProgress(c)
  <2> DEFINE k == [call[c] EXCEPT !.at = AfterCheck(call[c].op)]
  <2>1. CASE Raise(c)
    BY <1>3, <1>4, <2>1 DEF RequireInProgress
  <2>2. CASE call' = [call EXCEPT ![c] = k]
    <3>1. k.at \notin {"copy_profiles", "copy_catalog"}
      BY DEF AfterCheck
    <3> HIDE DEF k
    <3>2. QED
      BY <1>1, <1>4, <2>2, <3>1 DEF RequireInProgress, NoStatement
  <2>3. QED
    BY <1>4, <2>1, <2>2 DEF RequireInProgress
<1>5. CASE BeginTransaction(c)
  <2> DEFINE k == [call[c] EXCEPT !.at = AfterBegin(call[c].op)]
  <2>1. CASE inTxn
    BY <1>3, <1>5, <2>1 DEF BeginTransaction
  <2>2. CASE ~inTxn
    <3>1. k.at \notin {"copy_profiles", "copy_catalog"}
      BY DEF AfterBegin
    <3>2. call' = [call EXCEPT ![c] = k]
      BY <1>5, <2>2 DEF BeginTransaction
    <3> HIDE DEF k
    <3>3. QED
      BY <1>1, <1>5, <2>2, <3>1, <3>2 DEF BeginTransaction
  <2>3. QED
    BY <2>1, <2>2
<1>6. CASE Commit(c)
  <2> DEFINE k == ReturnValue(c)
  <2>1. call' = [call EXCEPT ![c] = k] /\ k.at = "returned"
    BY <1>6, OutcomeTyped DEF Commit
  <2> HIDE DEF k
  <2>2. QED
    BY <1>1, <1>6, <2>1 DEF Commit
<1>7. CASE InsertSnapshot(c)
  <2>0. inTxn /\ ~closed
    BY <1>7 DEF InsertSnapshot, TransactionOwned, TxnSteps
  <2>1. PICK n \in Ids :
          /\ db.status[n] = "absent"
          /\ db' = [db EXCEPT !.status[n] = "in_progress",
                              !.parent[n] = call[c].base]
          /\ disk' = disk
          /\ closed' = closed
          /\ call'[c].snap = n
    <3>1. PICK n \in Ids :
            /\ IsNextId(db, n)
            /\ Execute([db EXCEPT !.status[n] = "in_progress",
                                  !.parent[n] = call[c].base])
            /\ call' = [call EXCEPT
                          ![c].snap = n,
                          ![c].at = IF call[c].base = NoSnapshot
                                      THEN "commit" ELSE "copy_profiles"]
      BY <1>7 DEF InsertSnapshot
    <3>2. call'[c].snap = n
      BY <3>1
    <3>3. disk' = disk /\ closed' = closed
      BY <2>0, <3>1 DEF Execute
    <3>4. QED
      BY <3>1, <3>2, <3>3 DEF Execute, IsNextId
  <2>2. \A d \in Clients : d # c => call'[d] = call[d]
                                    /\ call[d].at \notin TxnSteps
    BY <1>7, <2>0 DEF InsertSnapshot, TransactionOwned, TxnSteps
  <2>3. db'.status[n] = "in_progress"
    BY <2>1 DEF Tables
  <2>4. EmptyIfAbsent(db)'
    BY <2>1 DEF EmptyIfAbsent, Tables
  <2>5. CopiesIntoOwnRow'
    BY <2>1, <2>2, <2>3 DEF CopiesIntoOwnRow, TxnSteps
  <2>6. QED
    BY <2>1, <2>4, <2>5 DEF EmptyIfAbsent
<1>8. CASE InsertSnapshotFails(c)
  BY <1>2, <1>8 DEF InsertSnapshotFails, TxnSteps
<1>9. CASE CopyProfiles(c)
  <2> DEFINE s == call[c].snap
             k == [call[c] EXCEPT !.at = "copy_catalog"]
             t == [db EXCEPT !.profile[s] = db.profile[call[c].base]]
  <2>1. /\ call' = [call EXCEPT ![c] = k]
        /\ k.at = "copy_catalog"
        /\ k.snap = call[c].snap
    BY <1>9 DEF CopyProfiles
  <2>2. t.status = db.status /\ s \in Ids /\ db.status[s] # "absent"
    BY <1>a, <1>9 DEF CopyProfiles, Tables, CallShape, CopiesIntoOwnRow
  <2>3. EmptyIfAbsent(t)
    BY <2>2 DEF EmptyIfAbsent, Tables
  <2>4. Execute(t) /\ ~closed /\ (k.at = "copy_catalog" =>
                                    call[c].at = "copy_profiles")
    BY <1>9 DEF CopyProfiles
  <2> HIDE DEF t, k
  <2>5. QED
    BY <2>1, <2>2, <2>3, <2>4, RowsWrite
<1>10. CASE CopyCatalog(c)
  <2> DEFINE s == call[c].snap
             k == [call[c] EXCEPT !.at = "commit"]
             t == [db EXCEPT !.catalog[s] = db.catalog[call[c].base]]
  <2>1. /\ call' = [call EXCEPT ![c] = k]
        /\ k.at = "commit"
    BY <1>10 DEF CopyCatalog
  <2>2. t.status = db.status /\ s \in Ids /\ db.status[s] # "absent"
    BY <1>a, <1>10 DEF CopyCatalog, Tables, CallShape, CopiesIntoOwnRow
  <2>3. EmptyIfAbsent(t)
    BY <2>2 DEF EmptyIfAbsent, Tables
  <2>4. Execute(t) /\ ~closed /\ (k.at = "copy_catalog" =>
                                    call[c].at = "copy_profiles")
    BY <1>10 DEF CopyCatalog
  <2> HIDE DEF t, k
  <2>5. QED
    BY <2>1, <2>2, <2>3, <2>4, RowsWrite
<1>11. CASE UpsertProfile(c)
  <2> DEFINE s == call[c].snap
             k == ReturnValue(c)
             t == [db EXCEPT !.profile[s] =
                     [p \in Projects |->
                        IF p \in call[c].projs THEN s ELSE db.profile[s][p]]]
  <2>1. /\ call' = [call EXCEPT ![c] = k]
        /\ k.at = "returned"
    BY <1>11, OutcomeTyped DEF UpsertProfile
  <2>2. t.status = db.status /\ s \in Ids /\ db.status[s] # "absent"
    BY <1>a, <1>11 DEF UpsertProfile, Tables, CallShape, SnapshotExists
  <2>3. EmptyIfAbsent(t)
    BY <2>2 DEF EmptyIfAbsent, Tables
  <2>4. Execute(t) /\ ~closed /\ (k.at = "copy_catalog" =>
                                    call[c].at = "copy_profiles")
    BY <1>11, <2>1 DEF UpsertProfile
  <2> HIDE DEF t, k
  <2>5. QED
    BY <2>1, <2>2, <2>3, <2>4, RowsWrite
<1>12. CASE InsertSkip(c)
  <2> DEFINE s == call[c].snap
             k == ReturnValue(c)
             t == [db EXCEPT !.skips[s] = db.skips[s] \cup call[c].projs]
  <2>1. /\ call' = [call EXCEPT ![c] = k]
        /\ k.at = "returned"
    BY <1>12, OutcomeTyped DEF InsertSkip
  <2>2. t.status = db.status /\ s \in Ids /\ db.status[s] # "absent"
    BY <1>a, <1>12 DEF InsertSkip, Tables, CallShape, SnapshotExists
  <2>3. EmptyIfAbsent(t)
    BY <2>2 DEF EmptyIfAbsent, Tables
  <2>4. Execute(t) /\ ~closed /\ (k.at = "copy_catalog" =>
                                    call[c].at = "copy_profiles")
    BY <1>12, <2>1 DEF InsertSkip
  <2> HIDE DEF t, k
  <2>5. QED
    BY <2>1, <2>2, <2>3, <2>4, RowsWrite
<1>13. CASE UpsertCatalog(c)
  <2> DEFINE s == call[c].snap
             k == [call[c] EXCEPT !.at = "commit"]
             t == [db EXCEPT !.catalog[s] = db.catalog[s] \cup call[c].projs]
  <2>1. /\ call' = [call EXCEPT ![c] = k]
        /\ k.at = "commit"
    BY <1>13 DEF UpsertCatalog
  <2>2. t.status = db.status /\ s \in Ids /\ db.status[s] # "absent"
    BY <1>a, <1>13 DEF UpsertCatalog, Tables, CallShape, SnapshotExists
  <2>3. EmptyIfAbsent(t)
    BY <2>2 DEF EmptyIfAbsent, Tables
  <2>4. Execute(t) /\ ~closed /\ (k.at = "copy_catalog" =>
                                    call[c].at = "copy_profiles")
    BY <1>13 DEF UpsertCatalog
  <2> HIDE DEF t, k
  <2>5. QED
    BY <2>1, <2>2, <2>3, <2>4, RowsWrite
<1>14. CASE ForeignKeyFails(c)
  BY <1>2, <1>3, <1>14 DEF ForeignKeyFails
<1>15. CASE MarkFailed(c)
  <2> DEFINE k == ReturnValue(c)
  <2>1. call' = [call EXCEPT ![c] = k] /\ k.at = "returned"
    BY <1>15, OutcomeTyped DEF MarkFailed
  <2>2. /\ \A s \in Ids : db'.status[s] = "absent" <=>
                            db.status[s] = "absent"
        /\ db'.profile = db.profile
        /\ db'.catalog = db.catalog
        /\ db'.skips = db.skips
        /\ disk' \in {disk, db'}
        /\ closed' = closed
    BY <1>15 DEF MarkFailed, Execute, Tables
  <2> HIDE DEF k
  <2>3. EmptyIfAbsent(db)' /\ EmptyIfAbsent(disk)'
    BY <2>2 DEF EmptyIfAbsent
  <2>4. CopiesIntoOwnRow'
    BY <2>1, <2>2 DEF CopiesIntoOwnRow, CallsOK, CallShape
  <2>5. QED
    BY <2>3, <2>4
<1>16. CASE FlipCompleted(c)
  <2> DEFINE k == [call[c] EXCEPT !.at = "move_pointer"]
  <2>0. inTxn /\ ~closed
    BY <1>16 DEF FlipCompleted, TransactionOwned, TxnSteps
  <2>1. call' = [call EXCEPT ![c] = k] /\ k.at = "move_pointer"
    BY <1>16 DEF FlipCompleted
  <2>2. /\ \A s \in Ids : db'.status[s] = "absent" => db.status[s] = "absent"
        /\ db'.profile = db.profile
        /\ db'.catalog = db.catalog
        /\ db'.skips = db.skips
        /\ disk' = disk
    BY <1>16, <2>0 DEF FlipCompleted, Execute, Tables
  <2>3. \A d \in Clients : call'[d].at \notin {"copy_profiles", "copy_catalog"}
    BY <1>16, <2>0, <2>1 DEF FlipCompleted, TransactionOwned, TxnSteps
  <2>4. QED
    BY <2>2, <2>3 DEF EmptyIfAbsent, CopiesIntoOwnRow
<1>17. CASE FlipRefused(c)
  BY <1>2, <1>17 DEF FlipRefused, TxnSteps
<1>18. CASE MovePointer(c)
  <2> DEFINE k == [call[c] EXCEPT !.at = "commit"]
  <2>1. call' = [call EXCEPT ![c] = k] /\ k.at = "commit"
    BY <1>18 DEF MovePointer
  <2> HIDE DEF k
  <2>2. QED
    BY <1>1, <1>18, <2>1 DEF MovePointer, Execute, Tables
<1>19. CASE ReadPointer(c) \/ SelectCatalog(c) \/ SelectProfiles(c)
  <2> DEFINE k == call'[c]
  <2>1. /\ call' = [call EXCEPT ![c] = k]
        /\ k.at \in {"returned", "select"}
    <3>1. CASE ReadPointer(c)
      BY <3>1 DEF ReadPointer, NoCall
    <3>2. CASE SelectCatalog(c)
      BY <3>2 DEF SelectCatalog, NoCall
    <3>3. CASE SelectProfiles(c)
      BY <3>3 DEF SelectProfiles, NoCall
    <3>4. QED
      BY <1>19, <3>1, <3>2, <3>3
  <2>2. NoStatement
    BY <1>19 DEF ReadPointer, SelectCatalog, SelectProfiles
  <2> HIDE DEF k
  <2>3. QED
    BY <1>1, <2>1, <2>2 DEF NoStatement
<1>20. CASE StatementFails(c)
  BY <1>2, <1>3, <1>20 DEF StatementFails
<1>21. CASE ClosedRaises(c)
  BY <1>3, <1>21 DEF ClosedRaises
<1>22. QED
  BY <1>4, <1>5, <1>6, <1>7, <1>8, <1>9, <1>10, <1>11, <1>12, <1>13, <1>14,
     <1>15, <1>16, <1>17, <1>18, <1>19, <1>20, <1>21
  DEF StoreStep

LEMMA InitRows == Init => RowsInv
<1>1. Init => Typed
  BY InitTyped
<1>2. QED
  BY <1>1
  DEF RowsInv, TxnInv, TransactionOwned, EmptyIfAbsent, CopiesIntoOwnRow,
      Init, EmptyTables, NoCall, TxnSteps

LEMMA NextRows == RowsInv /\ [Next]_storeVars => RowsInv'
<1> SUFFICES ASSUME RowsInv, [Next]_storeVars
             PROVE  RowsInv'
  OBVIOUS
<1>0. TxnInv'
  BY NextTxn DEF RowsInv
<1> USE DEF RowsInv, TxnInv, Typed, TypeOK
<1>1. ASSUME NEW c \in Clients, Invoke(c)
      PROVE  RowsInv'
  <2>1. PICK k \in {NoCall} \cup LegalCalls :
               call' = [call EXCEPT ![c] = k]
    BY <1>1 DEF Invoke
  <2>2. k.at \notin {"copy_profiles", "copy_catalog"}
    BY DEF NoCall, LegalCalls, NewCall, FirstStep
  <2>3. QED
    BY <1>0, <1>1, <2>1, <2>2
    DEF Invoke, NoStatement, EmptyIfAbsent, CopiesIntoOwnRow
<1>2. ASSUME NEW c \in Clients, StoreStep(c)
      PROVE  RowsInv'
  BY <1>2, StoreStepRows
<1>3. CASE CloseStore \/ RestartStore
  <2>1. /\ db' = disk
        /\ disk' = disk
        /\ closed' \/ \A c \in Clients : call'[c] = NoCall
    BY <1>3 DEF CloseStore, RestartStore
  <2>2. QED
    BY <1>0, <2>1 DEF EmptyIfAbsent, CopiesIntoOwnRow, NoCall
<1>4. CASE UNCHANGED storeVars
  BY <1>0, <1>4 DEF storeVars, EmptyIfAbsent, CopiesIntoOwnRow
<1>5. QED
  BY <1>1, <1>2, <1>3, <1>4 DEF Next

(* No row outlives the snapshot it was written under, so the next job to get *)
(* the id of a begin_snapshot that was rolled back starts from nothing.      *)
THEOREM FreshIdsSafe == Spec => []FreshIdsAreEmpty
<1>1. RowsInv => FreshIdsAreEmpty
  BY DEF RowsInv, EmptyIfAbsent, FreshIdsAreEmpty
<1>2. QED
  BY <1>1, InitRows, NextRows, PTL DEF Spec
=============================================================================
