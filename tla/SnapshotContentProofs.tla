------------------------- MODULE SnapshotContentProofs -------------------------
(***************************************************************************)
(* Proofs of what a published snapshot consists of.  They follow each      *)
(* snapshot's rows from the parent pointer that a refresh reads, through   *)
(* begin_snapshot's copies and the writes of the job, to the COMMIT that   *)
(* publishes them.  One case is delicate: a refresh may take its parent    *)
(* from a pointer that another refresh has moved and not committed yet.    *)
(* When that COMMIT fails, the failing refresh has leaked the slot (no arm *)
(* of its job catches the exception), so the refresh that copied the       *)
(* undone parent can never start: LostSlot.                                *)
(***************************************************************************)
EXTENDS IngestionCoordinatorProofs, FiniteSetTheorems

(* The rows of snapshot s but its status.                                    *)
SameContent(t, u, s) ==
  /\ t.parent[s] = u.parent[s]
  /\ t.profile[s] = u.profile[s]
  /\ t.catalog[s] = u.catalog[s]
  /\ t.skips[s] = u.skips[s]

(* The snapshot that holds the slot for good: no job will release it.        *)
LostSlot ==
  IF \A d \in Workers : InBody(d) =>
       job[d].at = "committing" /\ call[d].at = "raised"
    THEN running ELSE NoSnapshot

Promoted(s) == \E d \in Workers : Promoting(d) /\ call[d].snap = s

(* What a pointer that some refresh has read still names.                    *)
Readable(s) == s \in Ids /\ (Published(s) \/ Promoted(s) \/ s = LostSlot)

(* The row of a full refresh: nothing copied, its own profiles only.         *)
FullRow(t, s) ==
  /\ t.parent[s] = NoSnapshot
  /\ \A p \in Projects : \/ t.profile[s][p] = NoSnapshot
                         \/ t.profile[s][p] = s /\ p \in t.catalog[s]

(* Snapshot s of t is snapshot b of u but for the profiles of projects e.    *)
Copies(t, s, u, b, e) ==
  /\ t.catalog[s] = u.catalog[b]
  /\ \A p \in Projects : \/ t.profile[s][p] = u.profile[b][p]
                         \/ p \in e /\ t.profile[s][p] = s

(* The row of a single-project refresh of the projects e, over the committed *)
(* tables u, when the slot is lost to snapshot lost.                         *)
SingleRow(t, s, e, u, lost) ==
  /\ t.parent[s] \in Ids
  /\ \/ t.parent[s] = lost
     \/ /\ u.status[t.parent[s]] = "completed"
        /\ Copies(t, s, u, t.parent[s], e)

RefreshRow(trigger, e, t, s, u, lost) ==
  IF trigger = "full" THEN FullRow(t, s) ELSE SingleRow(t, s, e, u, lost)

RowOf(w, t) ==
  RefreshRow(job[w].trigger, job[w].target, t, Own(w), disk, LostSlot)

(* The projects that worker w's refresh may write profiles of, by tables t.  *)
Writable(trigger, e, t, s) == IF trigger = "full" THEN t.catalog[s] ELSE e

InScopeNow(w, e) ==
  /\ e \subseteq Writable(job[w].trigger, job[w].target, db, Own(w))
  /\ e \subseteq Writable(job[w].trigger, job[w].target, disk, Own(w))

-----------------------------------------------------------------------------
(* What is known of a worker's refresh.                                      *)

JobKind(w) ==
  /\ job[w].at \in {"reading_current", "checking_scope"} =>
       job[w].trigger = "single_project"
  /\ job[w].at = "populating" => job[w].trigger = "full"
  /\ job[w].trigger = "single_project" =>
       \E p \in Projects : job[w].target = {p}

ParentRead(w) ==
  /\ job[w].at = "reading_current" /\ call[w].at = "returned"
       /\ call[w].snap # NoSnapshot => Readable(call[w].snap)
  /\ job[w].at = "checking_scope" => Readable(job[w].parent)
  /\ job[w].at = "opening" /\ call[w].at \in Steps =>
       IF job[w].trigger = "full" THEN call[w].base = NoSnapshot
                                  ELSE Readable(call[w].base)

(* The statements of begin_snapshot, one by one.                             *)
CreatedContent(w) ==
  Creating(w) =>
    /\ db.parent[Own(w)] = call[w].base
    /\ call[w].at = "copy_catalog" =>
         \/ call[w].base = LostSlot
         \/ db.profile[Own(w)] = disk.profile[call[w].base]
    /\ call[w].at = "commit" => RowOf(w, db)

HeldContent(w) == Holds(w) => RowOf(w, db) /\ RowOf(w, disk)

(* What is still to be written is in the snapshot's catalog.                 *)
ToWrite(w) ==
  /\ job[w].at = "populating" /\ call[w].at \in Steps =>
       call[w].projs = job[w].todo
  /\ job[w].at = "populating" /\ call[w].at = "commit" =>
       job[w].todo \subseteq db.catalog[Own(w)]
  /\ \/ job[w].at \in {"analyzing", "writing"}
     \/ (job[w].at = "populating" /\ call[w].at = "returned")
     => InScopeNow(w, job[w].todo)
  /\ job[w].at = "writing" /\ call[w].at \in Steps =>
       InScopeNow(w, call[w].projs)

WorkerContent(w) ==
  /\ JobKind(w)
  /\ ParentRead(w)
  /\ CreatedContent(w)
  /\ HeldContent(w)
  /\ ToWrite(w)

ParentsAgree ==
  \A s \in Ids : Exists(disk, s) => db.parent[s] = disk.parent[s]

CompletedShown ==
  \A s \in Ids : db.status[s] = "completed" => Published(s) \/ Promoted(s)

ContentInv ==
  /\ PublishedInv
  /\ CurrentCompleted
  /\ RowsInv
  /\ ParentsAgree
  /\ CompletedShown
  /\ \A w \in Workers : WorkerContent(w)

-----------------------------------------------------------------------------
(* What a statement does to the rows.                                        *)

Rewrites == {"copy_profiles", "copy_catalog", "upsert_profile", "insert_skip",
             "upsert_catalog"}

(* A statement changes the content of the snapshot it names, or of the one   *)
(* it inserts, or is the rollback of its own transaction.                    *)
LEMMA ContentWritten ==
  ASSUME PointerInv, NEW c \in Clients, StoreStep(c), NEW s \in Ids
  PROVE  \/ SameContent(db', db, s)
         \/ InsertSnapshot(c) /\ db.status[s] = "absent"
         \/ call[c].at \in Rewrites /\ call[c].snap = s
         \/ Rollback /\ Raise(c) /\ call[c].at \in TxnSteps
<1> USE DEF PointerInv, TxnInv, Typed, TypeOK, Tables, At, SameContent,
    Rewrites
<1>0. CallShape(call[c])
  BY DEF CallsOK
<1>1. CASE InsertSnapshot(c)
  <2>1. PICK n \in Ids :
          /\ db.status[n] = "absent"
          /\ db' = [db EXCEPT !.status[n] = "in_progress",
                              !.parent[n] = call[c].base]
    BY <1>1 DEF InsertSnapshot, IsNextId, Execute
  <2>2. QED
    BY <1>1, <2>1
<1>2. CASE CopyProfiles(c) \/ CopyCatalog(c)
  BY <1>0, <1>2 DEF CopyProfiles, CopyCatalog, CallShape, Execute
<1>3. CASE UpsertProfile(c)
  <2>1. CASE call[c].snap = s
    BY <1>3, <2>1 DEF UpsertProfile
  <2>2. CASE call[c].snap # s
    BY <1>3, <2>2 DEF UpsertProfile, Execute
  <2>3. QED
    BY <2>1, <2>2
<1>4. CASE InsertSkip(c) \/ UpsertCatalog(c)
  BY <1>0, <1>4 DEF InsertSkip, UpsertCatalog, CallShape, Execute
<1>5. CASE MarkFailed(c) \/ FlipCompleted(c)
  BY <1>0, <1>5 DEF MarkFailed, FlipCompleted, CallShape, Execute
<1>6. CASE MovePointer(c)
  BY <1>6 DEF MovePointer, Execute
<1>7. CASE InsertSnapshotFails(c) \/ FlipRefused(c)
  BY <1>7 DEF InsertSnapshotFails, FlipRefused, TxnSteps
<1>8. QED
  BY <1>1, <1>2, <1>3, <1>4, <1>5, <1>6, <1>7
  DEF StoreStep, RequireInProgress, BeginTransaction, Commit,
      ForeignKeyFails, ReadPointer, SelectCatalog, SelectProfiles,
      StatementFails, ClosedRaises, NoStatement

(* The parent and the projects of a call in flight stay the same.            *)
LEMMA ArgumentsContinue ==
  ASSUME PointerInv, NEW c \in Clients, StoreStep(c), call'[c].at \in Steps
  PROVE  call'[c].base = call[c].base /\ call'[c].projs = call[c].projs
<1> USE DEF PointerInv, TxnInv, Typed, TypeOK, At, Goto, Return, Raise, Steps,
    TxnSteps, AutoSteps, Calls
<1>1. ~ Raise(c) /\ ~ Return(c)
  BY OutcomeTyped
<1>2. CASE RequireInProgress(c) \/ BeginTransaction(c)
  BY <1>1, <1>2 DEF RequireInProgress, BeginTransaction
<1>3. CASE InsertSnapshot(c)
  BY <1>3 DEF InsertSnapshot
<1>4. CASE CopyProfiles(c) \/ CopyCatalog(c) \/ UpsertCatalog(c)
             \/ FlipCompleted(c) \/ MovePointer(c)
  BY <1>4
  DEF CopyProfiles, CopyCatalog, UpsertCatalog, FlipCompleted, MovePointer
<1>5. CASE ReadPointer(c)
  <2>1. call' = [call EXCEPT ![c] = [call[c] EXCEPT !.at = "select",
                                                    !.snap = db.current]]
    BY <1>5 DEF ReadPointer, NoCall
  <2>2. QED
    BY <2>1
<1>6. CASE SelectCatalog(c)
  <2>1. call'[c].at = "returned"
    BY <1>6 DEF SelectCatalog, NoCall
  <2>2. QED
    BY <2>1
<1>7. CASE SelectProfiles(c)
  <2>1. call'[c].at = "returned"
    BY <1>7 DEF SelectProfiles, NoCall
  <2>2. QED
    BY <2>1
<1>8. QED
  BY <1>1, <1>2, <1>3, <1>4, <1>5, <1>6, <1>7
  DEF StoreStep, Commit, InsertSnapshotFails, UpsertProfile, InsertSkip,
      ForeignKeyFails, MarkFailed, FlipRefused, StatementFails, ClosedRaises

(* Row s gets nothing but projects of a full refresh and profiles of its own. *)
RowGrows(g, e, t2, t, s) ==
  /\ t2.parent[s] = t.parent[s]
  /\ t.catalog[s] \subseteq t2.catalog[s]
  /\ g # "full" => t2.catalog[s] = t.catalog[s]
  /\ \A p \in Projects :
       \/ t2.profile[s][p] = t.profile[s][p]
       \/ t2.profile[s][p] = s /\ p \in Writable(g, e, t, s)

LEMMA SameGrows ==
  ASSUME NEW g, NEW e, NEW t, NEW t2, NEW s, SameContent(t2, t, s)
  PROVE  RowGrows(g, e, t2, t, s)
  BY DEF SameContent, RowGrows

(* A row keeps its form while it grows, if published rows stay and a lost    *)
(* slot stays lost.                                                          *)
LEMMA RowKept ==
  ASSUME NEW g, NEW e, NEW t, NEW t2, NEW u, NEW u2, NEW s, NEW l, NEW l2,
         RowGrows(g, e, t2, t, s),
         \A b \in Ids : u.status[b] = "completed" =>
           u2.status[b] = "completed" /\ SameContent(u2, u, b),
         l \in Ids => l2 = l,
         RefreshRow(g, e, t, s, u, l)
  PROVE  RefreshRow(g, e, t2, s, u2, l2)
<1>1. CASE g = "full"
  BY <1>1 DEF RefreshRow, FullRow, RowGrows, Writable
<1>2. CASE g # "full"
  <2>1. CASE t.parent[s] = l
    BY <1>2, <2>1 DEF RefreshRow, SingleRow, RowGrows
  <2>2. CASE /\ u.status[t.parent[s]] = "completed"
             /\ Copies(t, s, u, t.parent[s], e)
    <3> DEFINE b == t.parent[s]
    <3>1. b \in Ids /\ t2.parent[s] = b
      BY <1>2 DEF RefreshRow, SingleRow, RowGrows
    <3>2. u2.status[b] = "completed" /\ SameContent(u2, u, b)
      BY <2>2, <3>1
    <3>3. Copies(t2, s, u2, b, e)
      BY <1>2, <2>2, <3>2 DEF Copies, SameContent, RowGrows, Writable
    <3>4. QED
      BY <1>2, <3>1, <3>2, <3>3 DEF RefreshRow, SingleRow
  <2>3. QED
    BY <1>2, <2>1, <2>2 DEF RefreshRow, SingleRow
<1>3. QED
  BY <1>1, <1>2

(* Only the INSERT of begin_snapshot gives a row its parent.                 *)
LEMMA ParentWritten ==
  ASSUME PointerInv, NEW c \in Clients, StoreStep(c), NEW s \in Ids,
         db.status[s] # "absent"
  PROVE  db'.parent[s] = db.parent[s] \/ db' = disk
<1> USE DEF PointerInv, TxnInv, Typed, TypeOK, Tables, Execute
<1>1. CASE InsertSnapshot(c)
  <2>1. PICK n \in Ids :
          /\ db.status[n] = "absent"
          /\ db' = [db EXCEPT !.status[n] = "in_progress",
                              !.parent[n] = call[c].base]
    BY <1>1 DEF InsertSnapshot, IsNextId
  <2>2. QED
    BY <2>1
<1>2. CASE CopyProfiles(c) \/ CopyCatalog(c) \/ UpsertProfile(c)
             \/ InsertSkip(c) \/ UpsertCatalog(c) \/ MarkFailed(c)
             \/ FlipCompleted(c) \/ MovePointer(c)
  BY <1>2 DEF CopyProfiles, CopyCatalog, UpsertProfile, InsertSkip,
     UpsertCatalog, MarkFailed, FlipCompleted, MovePointer
<1>3. QED
  BY <1>1, <1>2
  DEF StoreStep, RequireInProgress, BeginTransaction, Commit,
      InsertSnapshotFails, ForeignKeyFails, FlipRefused, ReadPointer,
      SelectCatalog, SelectProfiles, StatementFails, ClosedRaises, Rollback,
      NoStatement

(* The facts about a statement that most steps below need.                   *)
LEMMA StatementFacts ==
  ASSUME OwnInv, NEW c \in Clients, StatementStep(c)
  PROVE  /\ StoreStep(c)
         /\ PointerInv
         /\ call[c].at \in Steps /\ call[c].at \notin Ended
         /\ c \in Workers
         /\ CallShape(call[c])
         /\ job' = job /\ running' = running
         /\ ~closed /\ ~closed'
         /\ \A d \in Clients : d # c => call'[d] = call[d]
         /\ call'[c].at \in Steps \cup {"returned", "raised"}
         /\ disk' = disk \/ (disk' = db' /\ (~inTxn \/ Commit(c)))
<1>1. StoreStep(c) /\ PointerInv
  BY DEF StatementStep, OwnInv, SlotInv, JobInv
<1>2. call[c].at \in Steps /\ call[c].at \notin Ended
  BY <1>1, StatementProgress, StepsNotEnded
<1>3. CallShape(call[c])
  BY <1>1 DEF PointerInv, TxnInv, Typed, CallsOK
<1>4. job' = job /\ running' = running
  BY DEF StatementStep, coordinatorVars
<1>5. ASSUME disk' # disk
      PROVE  disk' = db' /\ (~inTxn \/ Commit(c))
  BY <1>1, <1>5, DiskChange
<1>6. ~closed /\ ~closed'
  BY <1>1, ClosedStays DEF OwnInv
<1>7. /\ c \in Workers
      /\ \A d \in Clients : d # c => call'[d] = call[d]
      /\ call'[c].at \in Steps \cup {"returned", "raised"}
  BY <1>1, <1>2, ExecutorOwns, StatementProgress
<1>8. QED
  BY <1>1, <1>2, <1>3, <1>4, <1>5, <1>6, <1>7

LEMMA PublishedContent ==
  ASSUME ContentInv, NEW s \in Ids, Published(s)
  PROVE  SameContent(db, disk, s) /\ db.status[s] = "completed"
  BY DEF ContentInv, PublishedInv, ParentsAgree, SameRows, SameContent,
     Published, Exists

(* A step leaves what can be read readable.                                  *)
KeepsView ==
  /\ \A s \in Ids : Published(s) =>
       Published(s)' /\ SameContent(disk', disk, s)
  /\ LostSlot \in Ids => LostSlot' = LostSlot
  /\ \A s \in Ids : Promoted(s) => Readable(s)'

LEMMA KeepsReadable ==
  ASSUME KeepsView, NEW s, Readable(s)
  PROVE  Readable(s)'
  BY DEF KeepsView, Readable

(* An exception inside the promoting stretch rolls back.                     *)
LEMMA PromotingRaise ==
  ASSUME PointerInv, NEW c \in Clients, StoreStep(c), Promoting(c), Raise(c)
  PROVE  Rollback
<1> USE DEF PointerInv, TxnInv, Typed, TypeOK
<1>1. QED
  BY OutcomeTyped
  DEF StoreStep, RequireInProgress, BeginTransaction, Commit,
      InsertSnapshot, InsertSnapshotFails, CopyProfiles, CopyCatalog,
      UpsertProfile, InsertSkip, UpsertCatalog, ForeignKeyFails,
      MarkFailed, FlipCompleted, FlipRefused, MovePointer, ReadPointer,
      SelectCatalog, SelectProfiles, StatementFails, ClosedRaises, At,
      Promoting, Return, Raise, Goto, TxnSteps, Calls

LEMMA StatementKeepsPublished ==
  ASSUME ContentInv, NEW c \in Clients, StatementStep(c), NEW s \in Ids,
         Published(s)
  PROVE  Published(s)' /\ SameContent(disk', disk, s)
<1> USE DEF ContentInv, PublishedInv
<1>1. SameRows(db', disk, s)
  BY PublishedRowsKept
<1>2. SameContent(db, disk, s) /\ db.status[s] # "absent"
  BY PublishedContent
<1>3. db'.parent[s] = disk.parent[s]
  BY <1>2, StatementFacts, ParentWritten DEF SameContent
<1>4. QED
  BY <1>1, <1>3, StatementFacts DEF SameRows, SameContent, Published

(* The one who promotes is committing the snapshot that holds the slot.      *)
LEMMA PromoterCommits ==
  ASSUME OwnInv, NEW d \in Workers, Promoting(d)
  PROVE  /\ job[d].at = "committing"
         /\ running = call[d].snap
         /\ call[d].snap = job[d].snap
         /\ call[d].snap \in Ids
         /\ Holds(d) /\ ~Finished(d) /\ Own(d) = call[d].snap
         /\ inTxn /\ call[d].at \in TxnSteps
         /\ \A v \in Workers : InBody(v) => v = d
<1> USE DEF OwnInv, SlotInv, JobInv
<1>1. call[d].at \in TxnSteps /\ call[d].at \in Steps
        /\ call[d].op = "commit_snapshot"
  BY DEF Promoting, TxnSteps, Steps
<1>2. job[d].at = "committing" /\ call[d].snap = job[d].snap
  BY <1>1 DEF RowInv, CallOfJob
<1>3. InBody(d)
  BY <1>2 DEF InBody, BodySteps
<1>4. inTxn
  BY <1>1, WorkersAreClients DEF PointerInv, TxnInv, TransactionOwned
<1>5. Holds(d) /\ ~Finished(d) /\ Own(d) = job[d].snap
  BY <1>1, <1>2, <1>3, StepsNotEnded DEF Holds, Finished, Own
<1>6. QED
  BY <1>1, <1>2, <1>3, <1>4, <1>5, OwnIsId DEF SingleFlight

LEMMA StatementKeepsView ==
  ASSUME ContentInv, NEW c \in Clients, StatementStep(c)
  PROVE  KeepsView
<1> USE DEF ContentInv, PublishedInv
<1>0. /\ StoreStep(c) /\ PointerInv
      /\ c \in Workers
      /\ job' = job /\ running' = running /\ ~closed'
      /\ \A d \in Clients : d # c => call'[d] = call[d]
      /\ call[c].at \notin Ended
      /\ OwnInv
  BY StatementFacts
<1>1. \A s \in Ids : Published(s) =>
        Published(s)' /\ SameContent(disk', disk, s)
  BY StatementKeepsPublished
<1>2. LostSlot \in Ids => LostSlot' = LostSlot
  <2> SUFFICES ASSUME LostSlot \in Ids
               PROVE  LostSlot' = LostSlot
    OBVIOUS
  <2>1. \A d \in Workers : InBody(d) =>
          job[d].at = "committing" /\ call[d].at = "raised"
    BY BoundAssumption DEF LostSlot, Ids, NoSnapshot
  <2>2. \A d \in Workers : InBody(d) => d # c
    BY <1>0, <2>1 DEF Ended
  <2>3. \A d \in Workers : InBody(d)' =>
          job'[d].at = "committing" /\ call'[d].at = "raised"
    BY <1>0, <2>1, <2>2, WorkersAreClients DEF InBody
  <2>4. QED
    BY <1>0, <2>1, <2>3 DEF LostSlot
<1>3. ASSUME NEW s \in Ids, NEW d \in Workers, Promoting(d), call[d].snap = s
      PROVE  Readable(s)'
  <2>1. CASE d # c
    <3>1. Promoting(d)' /\ call'[d].snap = s
      BY <1>0, <1>3, <2>1, WorkersAreClients DEF Promoting
    <3>2. QED
      BY <3>1 DEF Readable, Promoted
  <2>2. CASE d = c /\ MovePointer(c)
    <3>1. Promoting(c)' /\ call'[c].snap = s
      BY <1>0, <1>3, <2>2
      DEF MovePointer, Goto, Promoting, PointerInv, TxnInv, Typed, TypeOK,
          Calls
    <3>2. QED
      BY <1>0, <3>1 DEF Readable, Promoted
  <2>3. CASE d = c /\ Commit(c)
    <3>1. db.status[s] = "completed" /\ disk' = db
      BY <1>0, <1>3, <2>3, PromoterCommits DEF RowInv, OpenRow, OwnInv, Commit
    <3>2. QED
      BY <3>1 DEF Readable, Published
  <2>4. CASE d = c /\ Raise(c)
    <3>1. call'[c].at = "raised"
      BY <1>0, <2>4, OutcomeTyped
      DEF Raise, PointerInv, TxnInv, Typed, TypeOK
    <3>2. /\ running' = s
          /\ \A v \in Workers : InBody(v)' =>
               job'[v].at = "committing" /\ call'[v].at = "raised"
      BY <1>0, <1>3, <2>4, <3>1, PromoterCommits DEF InBody
    <3>3. LostSlot' = s
      BY <3>2 DEF LostSlot
    <3>4. QED
      BY <3>3 DEF Readable
  <2>5. QED
    BY <1>0, <1>3, <2>1, <2>2, <2>3, <2>4, PromotingStep
<1>4. QED
  BY <1>1, <1>2, <1>3 DEF KeepsView, Promoted

(* A worker's own step executes no statement and takes no lost slot.         *)
LEMMA RaisedCommitEnds ==
  ASSUME NEW w \in Workers, JobStep(w), job[w].at = "committing",
         call[w].at = "raised"
  PROVE  running' = running /\ (JobInv => ~InBody(w)')
<1>1. BodyRaises(w)
  BY DEF JobStep, CheckScope, OpenSingleSnapshot, TryStart, RejectStart,
     StartRaises, EnumerateProjects, CatalogPopulated, WriteProject,
     ProjectWritten, GitLabRequestFails, CommitJob, CompleteJob, AbortEnds,
     Returned
<1>2. JobInv => job'[w].at = "idle"
  BY <1>1, NoJobTyped DEF BodyRaises, Uncaught, End, JobInv, NoJob
<1>3. QED
  BY <1>1, <1>2 DEF BodyRaises, InBody, BodySteps

LEMMA PassingKeepsView ==
  ASSUME ContentInv, NEW w \in Workers, StartRefresh(w) \/ JobStep(w)
  PROVE  KeepsView
<1> USE DEF ContentInv, PublishedInv, OwnInv, SlotInv
<1>0. /\ NoStatement
      /\ ~Promoting(w)
      /\ \A v \in Workers : v # w => job'[v] = job[v] /\ call'[v] = call[v]
  <2>1. CASE StartRefresh(w)
    BY <2>1, StartHoldsNothing, WorkersAreClients
  <2>2. CASE JobStep(w)
    BY <2>2, JobStepPassesRow, JobStepKnows
  <2>3. QED
    BY <2>1, <2>2
<1>1. \A s \in Ids : Published(s) =>
        Published(s)' /\ SameContent(disk', disk, s)
  BY <1>0 DEF NoStatement, Published, SameContent
<1>2. ASSUME LostSlot \in Ids
      PROVE  LostSlot' = LostSlot
  <2>1. /\ \A d \in Workers : InBody(d) =>
             job[d].at = "committing" /\ call[d].at = "raised"
        /\ LostSlot = running
        /\ running # NoSnapshot
    BY <1>2, BoundAssumption DEF LostSlot, Ids, NoSnapshot
  <2>2. running' = running /\ ~InBody(w)'
    <3>1. CASE StartRefresh(w)
      BY <3>1, StartKnows, StartHoldsNothing DEF Holds
    <3>2. CASE JobStep(w) /\ InBody(w)
      BY <2>1, <3>2, RaisedCommitEnds
    <3>3. CASE JobStep(w) /\ ~InBody(w)
      BY <2>1, <3>3, SlotStep DEF TakesSlot, KeepsSlot
    <3>4. QED
      BY <3>1, <3>2, <3>3
  <2>3. \A d \in Workers : InBody(d)' =>
          job'[d].at = "committing" /\ call'[d].at = "raised"
    BY <1>0, <2>1, <2>2 DEF InBody
  <2>4. QED
    BY <2>1, <2>2, <2>3 DEF LostSlot
<1>3. ASSUME NEW s \in Ids, NEW d \in Workers, Promoting(d), call[d].snap = s
      PROVE  Readable(s)'
  <2>1. Promoting(d)' /\ call'[d].snap = s
    BY <1>0, <1>3 DEF NoStatement, Promoting
  <2>2. QED
    BY <2>1 DEF Readable, Promoted
<1>4. QED
  BY <1>1, <1>2, <1>3 DEF KeepsView, Promoted

-----------------------------------------------------------------------------
(* The parts of the invariant that name no worker.                           *)

LEMMA StatementKeepsParents ==
  ASSUME ContentInv, NEW c \in Clients, StatementStep(c)
  PROVE  ParentsAgree'
<1> SUFFICES ASSUME NEW s \in Ids, Exists(disk, s)', disk' # db'
             PROVE  db'.parent[s] = disk'.parent[s]
  BY DEF ParentsAgree
<1>1. StoreStep(c) /\ PointerInv /\ disk' = disk
  BY StatementFacts DEF ContentInv, PublishedInv
<1>2. Exists(disk, s) /\ db.status[s] # "absent"
  BY <1>1 DEF Exists, PointerInv, PendingStatuses, MayBecome
<1>3. QED
  BY <1>1, <1>2, ParentWritten DEF ContentInv, ParentsAgree

LEMMA StatementShowsCompleted ==
  ASSUME ContentInv, NEW c \in Clients, StatementStep(c)
  PROVE  CompletedShown'
<1> SUFFICES ASSUME NEW s \in Ids, db'.status[s] = "completed", disk' # db'
             PROVE  Published(s)' \/ Promoted(s)'
  BY DEF CompletedShown, Published
<1> USE DEF PointerInv, TxnInv, Typed, TypeOK, Tables
<1>0. /\ StoreStep(c) /\ PointerInv /\ disk' = disk /\ OwnInv
      /\ c \in Workers /\ CallShape(call[c]) /\ ~closed'
      /\ call'[c].at \in Steps \cup {"returned", "raised"}
      /\ \A d \in Clients : d # c => call'[d] = call[d]
  BY StatementFacts DEF ContentInv, PublishedInv
<1>1. CASE db.status[s] = "completed"
  <2>1. CASE Published(s)
    BY <1>0, <2>1 DEF Published
  <2>2. ASSUME NEW d \in Workers, Promoting(d), call[d].snap = s
        PROVE  Published(s)' \/ Promoted(s)'
    <3>1. CASE d # c
      BY <1>0, <2>2, <3>1, WorkersAreClients DEF Promoting, Promoted
    <3>2. CASE d = c /\ MovePointer(c)
      <4>1. Promoting(c)' /\ call'[c].snap = s
        BY <1>0, <2>2, <3>2 DEF MovePointer, Goto, Promoting, Calls
      <4>2. QED
        BY <1>0, <4>1 DEF Promoted
    <3>3. CASE d = c /\ Commit(c)
      BY <1>0, <3>3 DEF Commit
    <3>4. CASE d = c /\ Raise(c)
      BY <1>0, <2>2, <3>4, PromotingRaise DEF Rollback, Published
    <3>5. QED
      BY <1>0, <2>2, <3>1, <3>2, <3>3, <3>4, PromotingStep
  <2>3. QED
    BY <1>1, <2>1, <2>2 DEF ContentInv, CompletedShown, Promoted
<1>2. CASE db.status[s] # "completed"
  <2>1. db'.status # db.status
    BY <1>2
  <2>2. ~InsertSnapshot(c)
    <3> SUFFICES ASSUME InsertSnapshot(c)
                 PROVE  FALSE
      OBVIOUS
    <3>1. PICK n \in Ids :
            db' = [db EXCEPT !.status[n] = "in_progress",
                             !.parent[n] = call[c].base]
      BY DEF InsertSnapshot, Execute
    <3>2. QED
      BY <1>2, <3>1
  <2>3. ~MarkFailed(c)
    <3> SUFFICES ASSUME MarkFailed(c)
                 PROVE  FALSE
      OBVIOUS
    <3>1. /\ call[c].snap \in Ids
          /\ db' = [db EXCEPT !.status[call[c].snap] =
                                IF @ = "absent" THEN @ ELSE "failed"]
      BY <1>0 DEF MarkFailed, Execute, At, CallShape
    <3>2. QED
      BY <1>2, <3>1
  <2>4. CASE FlipCompleted(c)
    <3>1. s = call[c].snap /\ call[c].op = "commit_snapshot"
      BY <1>0, <1>2, <2>4 DEF FlipCompleted, Execute, At, CallShape
    <3>2. Promoting(c)' /\ call'[c].snap = s
      BY <1>0, <2>4, <3>1 DEF FlipCompleted, Goto, Promoting, Calls
    <3>3. QED
      BY <1>0, <3>2 DEF Promoted
  <2>5. CASE Rollback
    BY <1>0, <2>5 DEF Rollback, Published
  <2>6. QED
    BY <1>0, <2>1, <2>2, <2>3, <2>4, <2>5, StatusChange
<1>3. QED
  BY <1>1, <1>2

-----------------------------------------------------------------------------
(* A worker whose job and call stay as they are keeps what it knows, also    *)
(* when another transaction rolls back or a statement commits by itself.     *)

RowStands(w) ==
  Holds(w) \/ Creating(w) =>
    /\ \/ SameContent(db', db, Own(w))
       \/ db' = disk /\ call[w].at \notin TxnSteps
    /\ \/ disk' = disk
       \/ disk' = db' /\ call[w].at \notin TxnSteps

RowMoves(w) ==
  /\ \/ RowGrows(job[w].trigger, job[w].target, db', db, Own(w))
     \/ db' = disk
  /\ disk' = disk \/ disk' = db'

LEMMA HeldFrame ==
  ASSUME KeepsView, NEW w \in Workers, RowMoves(w), Holds(w),
         job'[w].trigger = job[w].trigger, job'[w].target = job[w].target,
         Own(w)' = Own(w), RowOf(w, db), RowOf(w, disk)
  PROVE  RowOf(w, db)' /\ RowOf(w, disk)'
<1> DEFINE g == job[w].trigger
           e == job[w].target
           s == Own(w)
<1>1. ASSUME NEW t, NEW t2, RowGrows(g, e, t2, t, s),
             RefreshRow(g, e, t, s, disk, LostSlot)
      PROVE  RefreshRow(g, e, t2, s, disk', LostSlot')
  <2>1. \A b \in Ids : disk.status[b] = "completed" =>
          disk'.status[b] = "completed" /\ SameContent(disk', disk, b)
    BY DEF KeepsView, Published
  <2>2. LostSlot \in Ids => LostSlot' = LostSlot
    BY DEF KeepsView
  <2> HIDE DEF g, e, s
  <2>3. QED
    BY <1>1, <2>1, <2>2, RowKept
<1>2. RowGrows(g, e, disk, disk, s)
  BY DEF RowGrows
<1>3. RefreshRow(g, e, db, s, disk, LostSlot)
        /\ RefreshRow(g, e, disk, s, disk, LostSlot)
  BY DEF RowOf
<1>4. RefreshRow(g, e, db', s, disk', LostSlot')
  <2>1. CASE RowGrows(g, e, db', db, s)
    BY <1>1, <1>3, <2>1
  <2>2. CASE db' = disk
    BY <1>1, <1>2, <1>3, <2>2
  <2>3. QED
    BY <2>1, <2>2 DEF RowMoves
<1>5. RefreshRow(g, e, disk', s, disk', LostSlot')
  <2>1. CASE disk' = disk
    BY <1>1, <1>2, <1>3, <2>1
  <2>2. CASE disk' = db'
    BY <1>4, <2>2
  <2>3. QED
    BY <2>1, <2>2 DEF RowMoves
<1>6. QED
  BY <1>4, <1>5 DEF RowOf

(* What may be written stays writable.                                       *)
LEMMA ScopeFrame ==
  ASSUME NEW w \in Workers, RowMoves(w), Holds(w),
         job'[w].trigger = job[w].trigger, job'[w].target = job[w].target,
         Own(w)' = Own(w), NEW e, InScopeNow(w, e)
  PROVE  /\ e \subseteq Writable(job'[w].trigger, job'[w].target, db', Own(w)')
         /\ e \subseteq Writable(job'[w].trigger, job'[w].target, disk',
                                 Own(w)')
  BY DEF RowMoves, InScopeNow, Writable, RowGrows

LEMMA ContentFrame ==
  ASSUME ContentInv, KeepsView, NEW w \in Workers, RowStands(w),
         job'[w] = job[w], call'[w] = call[w]
  PROVE  WorkerContent(w)'
<1> USE DEF ContentInv, PublishedInv
<1>0. /\ Own(w)' = Own(w)
      /\ Holds(w)' <=> Holds(w)
      /\ Creating(w)' <=> Creating(w)
      /\ WorkerContent(w)
      /\ Holds(w) => RowMoves(w)
  BY SameGrows DEF Own, Holds, Creating, InBody, RowStands, RowMoves
<1>1. JobKind(w)'
  BY <1>0 DEF WorkerContent, JobKind
<1>2. ParentRead(w)'
  BY <1>0, KeepsReadable DEF WorkerContent, ParentRead
<1>3. CreatedContent(w)'
  <2> SUFFICES ASSUME Creating(w)
               PROVE  CreatedContent(w)'
    BY <1>0 DEF CreatedContent
  <2>1. call[w].at \in TxnSteps
    BY DEF Creating, TxnSteps
  <2>2. SameContent(db', db, Own(w)) /\ disk' = disk
    BY <2>1 DEF RowStands
  <2>3. db.parent[Own(w)] = call[w].base
    BY <1>0 DEF WorkerContent, CreatedContent
  <2>4. db'.parent[Own(w)] = call[w].base
    BY <2>2, <2>3 DEF SameContent
  <2>5. ASSUME call[w].at = "copy_catalog"
        PROVE  \/ call[w].base = LostSlot'
               \/ db'.profile[Own(w)] = disk'.profile[call[w].base]
    <3>1. call[w].base \in Ids
      BY <2>5, WorkersAreClients
      DEF CallsOK, CallShape, OwnInv, SlotInv, JobInv, PointerInv, TxnInv,
          Typed
    <3>2. \/ call[w].base = LostSlot
          \/ db.profile[Own(w)] = disk.profile[call[w].base]
      BY <1>0, <2>5 DEF WorkerContent, CreatedContent
    <3>3. QED
      BY <2>2, <3>1, <3>2 DEF SameContent, KeepsView
  <2>6. ASSUME call[w].at = "commit"
        PROVE  RowOf(w, db)'
    <3>1. RowOf(w, db)
      BY <1>0, <2>6 DEF WorkerContent, CreatedContent
    <3>2. \A b \in Ids : disk.status[b] = "completed" =>
            disk'.status[b] = "completed" /\ SameContent(disk', disk, b)
      BY DEF KeepsView, Published
    <3>3. LostSlot \in Ids => LostSlot' = LostSlot
      BY DEF KeepsView
    <3>4. RefreshRow(job[w].trigger, job[w].target, db', Own(w), disk',
                     LostSlot')
      BY <2>2, <3>1, <3>2, <3>3, RowKept, SameGrows DEF RowOf
    <3>5. QED
      BY <1>0, <3>4 DEF RowOf
  <2>7. QED
    BY <1>0, <2>4, <2>5, <2>6 DEF CreatedContent
<1>4. HeldContent(w)'
  BY <1>0, HeldFrame DEF WorkerContent, HeldContent
<1>5. ToWrite(w)'
  <2>1. ASSUME NEW e, InScopeNow(w, e), Holds(w)
        PROVE  InScopeNow(w, e)'
    BY <1>0, <2>1, ScopeFrame DEF InScopeNow
  <2>2. job[w].at \in {"populating", "analyzing", "writing"} => Holds(w)
    BY DEF Holds, InBody, BodySteps
  <2>3. ASSUME job[w].at = "populating", call[w].at = "commit"
        PROVE  job[w].todo \subseteq db'.catalog[Own(w)]
    <3>1. SameContent(db', db, Own(w))
      BY <2>2, <2>3 DEF RowStands, TxnSteps
    <3>2. QED
      BY <1>0, <2>3, <3>1 DEF WorkerContent, ToWrite, SameContent
  <2>4. QED
    BY <1>0, <2>1, <2>2, <2>3 DEF WorkerContent, ToWrite
<1>6. QED
  BY <1>1, <1>2, <1>3, <1>4, <1>5 DEF WorkerContent

(* A statement executed for another worker.                                  *)
LEMMA ForeignContent ==
  ASSUME ContentInv, NEW c \in Clients, StatementStep(c), NEW w \in Workers,
         w # c, Holds(w) \/ Creating(w)
  PROVE  /\ \/ SameContent(db', db, Own(w))
            \/ Rollback /\ Raise(c) /\ call[c].at \in TxnSteps
         /\ call[w].at \in TxnSteps => inTxn /\ call[c].at \notin TxnSteps
<1> USE DEF ContentInv, PublishedInv
<1>0. /\ StoreStep(c) /\ PointerInv /\ OwnInv
      /\ c \in Workers /\ ~closed
      /\ call[c].at \in Steps
      /\ CallShape(call[c])
  BY StatementFacts
<1>1. Own(w) \in Ids
  BY OwnIsId
<1>2. call[w].at \in TxnSteps => inTxn /\ call[c].at \notin TxnSteps
  BY <1>0, WorkersAreClients DEF PointerInv, TxnInv, TransactionOwned
<1>3. db.status[Own(w)] # "absent"
  <2>1. CASE Creating(w)
    BY <2>1 DEF OwnInv, RowInv, CreatesRow
  <2>2. CASE Holds(w)
    BY <1>1, <2>2
    DEF OwnInv, RowInv, HoldsRow, Exists, PointerInv, PendingStatuses,
        MayBecome, SlotInv, JobInv
  <2>3. QED
    BY <2>1, <2>2
<1>4. ~ (call[c].at \in Rewrites /\ call[c].snap = Own(w))
  <2> SUFFICES ASSUME call[c].at \in Rewrites, call[c].snap = Own(w)
               PROVE  FALSE
    OBVIOUS
  <2>1. CASE call[c].at \in {"copy_profiles", "copy_catalog"}
    <3>1. Creating(c) /\ Own(c) = Own(w)
      BY <1>0, <2>1
      DEF Creating, Own, CallShape, OwnInv, RowInv, CallOfJob, Writers
    <3>2. ~Exists(disk, Own(w)) /\ call[c].at \in TxnSteps
      BY <1>0, <3>1, <2>1 DEF OwnInv, RowInv, CreatesRow, TxnSteps
    <3>3. Creating(w)
      BY <3>2 DEF OwnInv, RowInv, HoldsRow
    <3>4. call[w].at \in TxnSteps
      BY <3>3 DEF Creating, TxnSteps
    <3>5. QED
      BY <1>2, <3>2, <3>4
  <2>2. CASE call[c].at \in {"upsert_profile", "insert_skip",
                            "upsert_catalog"}
    <3>1. Holds(c) /\ Own(c) = Own(w)
      BY <1>0, <2>2, ExecutorOwns DEF CallShape, Writers
    <3>2. Exists(disk, Own(w))
      BY <1>0, <3>1 DEF OwnInv, RowInv, HoldsRow
    <3>3. Holds(w)
      BY <3>2 DEF OwnInv, RowInv, CreatesRow
    <3>4. QED
      BY <1>0, <3>1, <3>3 DEF OwnInv, OneOwner
  <2>3. QED
    BY <2>1, <2>2 DEF Rewrites
<1>5. QED
  BY <1>0, <1>1, <1>2, <1>3, <1>4, ContentWritten

LEMMA ForeignRowStands ==
  ASSUME ContentInv, NEW c \in Clients, StatementStep(c), NEW w \in Workers,
         w # c
  PROVE  RowStands(w)
<1> SUFFICES ASSUME Holds(w) \/ Creating(w)
             PROVE  /\ \/ SameContent(db', db, Own(w))
                       \/ db' = disk /\ call[w].at \notin TxnSteps
                    /\ \/ disk' = disk
                       \/ disk' = db' /\ call[w].at \notin TxnSteps
  BY DEF RowStands
<1>1. /\ \/ SameContent(db', db, Own(w))
         \/ db' = disk /\ call[c].at \in TxnSteps
      /\ call[w].at \in TxnSteps => inTxn /\ call[c].at \notin TxnSteps
  BY ForeignContent DEF Rollback
<1>2. call[w].at \in TxnSteps => disk' = disk
  <2>1. Commit(c) => call[c].at \in TxnSteps
    BY DEF Commit, At, TxnSteps
  <2>2. QED
    BY <1>1, <2>1, StatementFacts DEF ContentInv, PublishedInv
<1>3. QED
  BY <1>1, <1>2, StatementFacts DEF ContentInv, PublishedInv

-----------------------------------------------------------------------------
(* A statement executed for the worker itself.                               *)

(* The facts about a worker's own statement.                                 *)
LEMMA OwnStatementFacts ==
  ASSUME ContentInv, NEW w \in Workers, StatementStep(w)
  PROVE  /\ w \in Clients /\ StoreStep(w) /\ OwnInv /\ PointerInv
         /\ call[w].at \in Steps /\ CallShape(call[w]) /\ CallOfJob(w)
         /\ job'[w] = job[w]
         /\ ~closed
         /\ call[w].at \in TxnSteps => inTxn
         /\ WorkerContent(w)
         /\ KeepsView
<1> USE DEF ContentInv, PublishedInv
<1>1. w \in Clients
  BY WorkersAreClients
<1>2. KeepsView
  BY <1>1, StatementKeepsView
<1>3. OwnInv /\ WorkerContent(w) /\ CallOfJob(w)
  BY DEF OwnInv, RowInv
<1>4. ~closed /\ PointerInv
  BY <1>1, <1>3, StatementFacts
<1>5. call[w].at \in TxnSteps => inTxn
  BY <1>1, <1>4 DEF PointerInv, TxnInv, TransactionOwned
<1>6. QED
  BY <1>1, <1>2, <1>3, <1>4, <1>5, StatementFacts

LEMMA OwnParentRead ==
  ASSUME ContentInv, NEW w \in Workers, StatementStep(w)
  PROVE  ParentRead(w)'
<1> USE DEF PointerInv, TxnInv, Typed, TypeOK
<1>0. /\ w \in Clients /\ StoreStep(w) /\ OwnInv /\ PointerInv
      /\ call[w].at \in Steps
      /\ job'[w] = job[w] /\ ParentRead(w) /\ KeepsView
  BY OwnStatementFacts DEF WorkerContent
<1>1. ASSUME job[w].at = "reading_current", call'[w].at = "returned",
             call'[w].snap # NoSnapshot
      PROVE  Readable(call[w].snap)'
  <2>1. call[w].at = "read_pointer" /\ call[w].op = "get_current_snapshot_id"
    BY <1>0, <1>1
    DEF OwnInv, SlotInv, JobInv, WorkerInv, ReadsPointer
  <2>2. ~ Raise(w)
    BY <1>0, <1>1, OutcomeTyped DEF Raise
  <2>3. ReadPointer(w)
    BY <1>0, <2>1, <2>2
    DEF StoreStep, RequireInProgress, BeginTransaction, Commit,
        InsertSnapshot, InsertSnapshotFails, CopyProfiles, CopyCatalog,
        UpsertProfile, InsertSkip, UpsertCatalog, ForeignKeyFails,
        MarkFailed, FlipCompleted, FlipRefused, MovePointer, SelectCatalog,
        SelectProfiles, StatementFails, ClosedRaises, At
  <2>4. call'[w].snap = db.current
    <3>1. call' = [call EXCEPT
                    ![w] = [NoCall EXCEPT !.at = "returned",
                                          !.snap = db.current]]
      BY <2>1, <2>3 DEF ReadPointer
    <3>2. QED
      BY <1>0, <3>1 DEF NoCall
  <2>5. db.current \in Ids /\ db.status[db.current] = "completed"
    BY <1>0, <1>1, <2>4
    DEF ContentInv, CurrentCompleted, Tables, OptIds
  <2>6. Readable(db.current)
    BY <2>5 DEF ContentInv, CompletedShown, Readable
  <2>7. PICK s : s = db.current
    OBVIOUS
  <2>8. Readable(s)'
    BY <1>0, <2>6, <2>7, KeepsReadable
  <2>9. QED
    BY <2>4, <2>7, <2>8
<1>2. ASSUME job[w].at = "checking_scope"
      PROVE  Readable(job[w].parent)'
  BY <1>0, <1>2, KeepsReadable DEF ParentRead
<1>3. ASSUME job[w].at = "opening", call'[w].at \in Steps
      PROVE  IF job[w].trigger = "full" THEN call'[w].base = NoSnapshot
                                        ELSE Readable(call[w].base)'
  <2>1. call'[w].base = call[w].base
    BY <1>0, <1>3, ArgumentsContinue
  <2>2. PICK s : s = call[w].base
    OBVIOUS
  <2>3. IF job[w].trigger = "full" THEN s = NoSnapshot ELSE Readable(s)
    BY <1>0, <1>3, <2>2 DEF ParentRead
  <2>4. ~(job[w].trigger = "full") => Readable(s)'
    BY <1>0, <2>3, KeepsReadable
  <2>5. QED
    BY <2>1, <2>2, <2>3, <2>4
<1>4. QED
  BY <1>0, <1>1, <1>2, <1>3 DEF ParentRead

(* Which statements leave begin_snapshot where.                              *)
LEMMA OpeningStatement ==
  ASSUME ContentInv, NEW w \in Workers, StatementStep(w),
         job[w].at = "opening"
  PROVE  /\ Creating(w)' => \/ InsertSnapshot(w)
                            \/ CopyProfiles(w) /\ call'[w].at = "copy_catalog"
                            \/ CopyCatalog(w) /\ call'[w].at = "commit"
         /\ Holds(w)' => Commit(w)
<1> USE DEF PointerInv, TxnInv, Typed, TypeOK
<1>0. /\ w \in Clients /\ StoreStep(w) /\ PointerInv /\ OwnInv
      /\ call[w].at \in Steps
      /\ job'[w] = job[w]
  BY OwnStatementFacts
<1>1. call[w].op = "begin_snapshot" /\ call[w].at \in BeginSteps
  BY <1>0 DEF OwnInv, SlotInv, JobInv, WorkerInv, OpensSnapshot
<1>2. ~Raise(w) \/ call'[w].at = "raised"
  BY <1>0, OutcomeTyped DEF Raise
<1>3. Holds(w)' \/ Creating(w)' => call'[w].at # "raised"
  BY <1>0 DEF Holds, Creating, InBody, BodySteps
<1>4. \/ BeginTransaction(w) \/ Commit(w) \/ InsertSnapshot(w)
      \/ CopyProfiles(w) \/ CopyCatalog(w) \/ Raise(w)
  BY <1>0, <1>1
  DEF StoreStep, RequireInProgress, InsertSnapshotFails,
      UpsertProfile, InsertSkip, UpsertCatalog, ForeignKeyFails,
      MarkFailed, FlipCompleted, FlipRefused, MovePointer, ReadPointer,
      SelectCatalog, SelectProfiles, StatementFails, ClosedRaises, At,
      BeginSteps
<1>5. BeginTransaction(w) => call'[w].at \in {"raised", "insert"}
  BY <1>0, <1>1, OutcomeTyped
  DEF BeginTransaction, Raise, Goto, AfterBegin, Calls
<1>6. InsertSnapshot(w) => call'[w].at \in {"copy_profiles", "commit"}
  BY <1>0 DEF InsertSnapshot, Calls
<1>7. CopyProfiles(w) => call'[w].at = "copy_catalog"
  BY <1>0 DEF CopyProfiles, Goto, Calls
<1>8. CopyCatalog(w) => call'[w].at = "commit"
  BY <1>0 DEF CopyCatalog, Goto, Calls
<1>9. Commit(w) => call'[w].at = "returned"
  BY <1>0, OutcomeTyped DEF Commit, Return
<1>10. Holds(w)' => call'[w].at = "returned"
  BY <1>0 DEF Holds, InBody, BodySteps
<1>11. Creating(w)' => call'[w].at \in {"copy_profiles", "copy_catalog",
                                        "commit"}
  BY DEF Creating
<1>12. QED
  BY <1>2, <1>3, <1>4, <1>5, <1>6, <1>7, <1>8, <1>9, <1>10, <1>11

(* The INSERT starts from nothing, and the copies are of what was read.      *)
LEMMA OwnCreated ==
  ASSUME ContentInv, NEW w \in Workers, StatementStep(w)
  PROVE  CreatedContent(w)'
<1> USE DEF PointerInv, TxnInv, Typed, TypeOK, Tables
<1>0. /\ w \in Clients /\ StoreStep(w) /\ OwnInv /\ PointerInv
      /\ call[w].at \in Steps /\ CallShape(call[w])
      /\ job'[w] = job[w] /\ ~closed
      /\ call[w].at \in TxnSteps => inTxn
      /\ WorkerContent(w) /\ KeepsView
  BY OwnStatementFacts
<1> SUFFICES ASSUME Creating(w)'
             PROVE  CreatedContent(w)'
  BY DEF CreatedContent
<1>1. job[w].at = "opening"
  BY <1>0 DEF Creating
<1>2. Own(w) = call[w].snap /\ Own(w)' = call'[w].snap
  BY <1>0, <1>1 DEF Own
<1>3. IF job[w].trigger = "full" THEN call[w].base = NoSnapshot
                                 ELSE Readable(call[w].base)
  BY <1>0, <1>1 DEF WorkerContent, ParentRead
<1>4. LostSlot \in Ids => LostSlot' = LostSlot
  BY <1>0 DEF KeepsView
<1>5. CASE InsertSnapshot(w)
  <2>1. PICK n \in Ids :
          /\ db.status[n] = "absent"
          /\ db' = [db EXCEPT !.status[n] = "in_progress",
                              !.parent[n] = call[w].base]
          /\ call' = [call EXCEPT
                        ![w].snap = n,
                        ![w].at = IF call[w].base = NoSnapshot
                                    THEN "commit" ELSE "copy_profiles"]
    BY <1>5 DEF InsertSnapshot, IsNextId, Execute
  <2>2. /\ Own(w)' = n /\ call'[w].base = call[w].base
        /\ call'[w].at = IF call[w].base = NoSnapshot
                           THEN "commit" ELSE "copy_profiles"
    BY <1>0, <1>2, <2>1 DEF Calls
  <2>3. db'.parent[n] = call[w].base
    BY <1>0, <2>1
  <2>4. ASSUME call[w].base = NoSnapshot
        PROVE  RowOf(w, db)'
    <3>1. job[w].trigger = "full"
      BY <1>3, <2>4, BoundAssumption DEF Readable, Ids, NoSnapshot
    <3>2. db'.profile[n] = NoRows
      BY <2>1 DEF ContentInv, RowsInv, EmptyIfAbsent
    <3>3. FullRow(db', n)
      BY <2>3, <2>4, <3>2 DEF FullRow, NoRows
    <3>4. QED
      BY <1>0, <2>2, <3>1, <3>3 DEF RowOf, RefreshRow
  <2>5. QED
    BY <2>2, <2>3, <2>4 DEF CreatedContent
<1>6. ASSUME CopyProfiles(w) \/ CopyCatalog(w)
      PROVE  /\ call[w].base \in Ids /\ call[w].snap \in Ids
             /\ job[w].trigger # "full"
             /\ disk' = disk
             /\ Creating(w)
             /\ Own(w)' = Own(w) /\ call'[w].base = call[w].base
             /\ db.parent[Own(w)] = call[w].base
             /\ \/ call[w].base = LostSlot'
                \/ Published(call[w].base)
                   /\ SameContent(db, disk, call[w].base)
  <2>1. /\ call[w].at \in TxnSteps
        /\ call[w].at \in {"copy_profiles", "copy_catalog"}
    BY <1>6 DEF CopyProfiles, CopyCatalog, At, TxnSteps
  <2>2. call[w].base \in Ids /\ call[w].snap \in Ids
    BY <1>0, <2>1 DEF CallShape
  <2>3. job[w].trigger # "full"
    BY <1>3, <2>2, BoundAssumption DEF Ids, NoSnapshot
  <2>4. disk' = disk
    BY <1>0, <1>6, <2>1 DEF CopyProfiles, CopyCatalog, Execute
  <2>5. Creating(w)
    BY <1>1, <2>1 DEF Creating
  <2>6. call'[w].base = call[w].base /\ call'[w].snap = call[w].snap
    BY <1>0, <1>6 DEF CopyProfiles, CopyCatalog, Goto, Calls
  <2>7. db.parent[Own(w)] = call[w].base
    BY <1>0, <2>5 DEF WorkerContent, CreatedContent
  <2>8. ~Promoted(call[w].base)
    <3> SUFFICES ASSUME NEW d \in Workers, Promoting(d)
                 PROVE  FALSE
      BY DEF Promoted
    <3>1. call[d].at \in TxnSteps /\ call[d].op = "commit_snapshot"
      BY DEF Promoting, TxnSteps
    <3>2. d = w
      BY <1>0, <2>1, <3>1, WorkersAreClients DEF TransactionOwned
    <3>3. QED
      BY <1>0, <2>1, <3>1, <3>2 DEF CallShape
  <2>9. \/ call[w].base = LostSlot
        \/ Published(call[w].base)
    BY <1>3, <2>3, <2>8 DEF Readable
  <2>10. Published(call[w].base) => SameContent(db, disk, call[w].base)
    BY <2>2, PublishedContent
  <2>11. QED
    BY <1>2, <1>4, <2>2, <2>3, <2>4, <2>5, <2>6, <2>7, <2>9, <2>10
<1>7. CASE CopyProfiles(w) /\ call'[w].at = "copy_catalog"
  <2> DEFINE s == call[w].snap
             b == call[w].base
  <2>1. db' = [db EXCEPT !.profile[s] = db.profile[b]]
    BY <1>7 DEF CopyProfiles, Execute
  <2>2. db'.parent[s] = b
    BY <1>0, <1>2, <1>6, <1>7, <2>1
  <2>3. db'.profile[s] = db.profile[b]
    BY <1>0, <1>6, <1>7, <2>1
  <2>4. b = LostSlot' \/ db'.profile[s] = disk'.profile[b]
    BY <1>6, <1>7, <2>3 DEF SameContent
  <2>5. QED
    BY <1>2, <1>6, <1>7, <2>2, <2>4 DEF CreatedContent
<1>8. CASE CopyCatalog(w) /\ call'[w].at = "commit"
  <2> DEFINE s == call[w].snap
             b == call[w].base
  <2>1. db' = [db EXCEPT !.catalog[s] = db.catalog[b]]
    BY <1>8 DEF CopyCatalog, Execute
  <2>2. db'.parent[s] = b /\ db'.profile[s] = db.profile[s]
    BY <1>0, <1>2, <1>6, <1>8, <2>1
  <2>3. db'.catalog[s] = db.catalog[b]
    BY <1>0, <1>6, <1>8, <2>1
  <2>4. b = LostSlot \/ db.profile[s] = disk.profile[b]
    <3>1. call[w].at = "copy_catalog"
      BY <1>8 DEF CopyCatalog, At
    <3>2. QED
      BY <1>0, <1>2, <1>6, <1>8, <3>1 DEF WorkerContent, CreatedContent
  <2>5. b = LostSlot' \/ (Published(b) /\ Copies(db', s, disk', b, job[w].target))
    <3>1. b \in Ids /\ disk' = disk
      BY <1>6, <1>8
    <3>2. CASE b = LostSlot
      BY <1>4, <3>1, <3>2
    <3>3. CASE b # LostSlot /\ Published(b) /\ SameContent(db, disk, b)
      <4>1. db'.profile[s] = disk.profile[b]
        BY <2>2, <2>4, <3>3
      <4>2. db'.catalog[s] = disk.catalog[b]
        BY <2>3, <3>3 DEF SameContent
      <4>3. QED
        BY <3>1, <3>3, <4>1, <4>2 DEF Copies
    <3>4. QED
      BY <1>6, <1>8, <3>2, <3>3
  <2>6. SingleRow(db', s, job[w].target, disk', LostSlot')
    BY <1>6, <1>8, <2>2, <2>5 DEF SingleRow, Published
  <2>7. RowOf(w, db)'
    BY <1>0, <1>2, <1>6, <1>8, <2>6 DEF RowOf, RefreshRow
  <2>8. QED
    BY <1>2, <1>6, <1>8, <2>2, <2>7 DEF CreatedContent
<1>9. QED
  BY <1>1, <1>5, <1>7, <1>8, OpeningStatement

(* A refresh writes to its own row only what it may.                         *)
LEMMA OwnRowMoves ==
  ASSUME ContentInv, NEW w \in Workers, StatementStep(w), Holds(w)
  PROVE  RowMoves(w) /\ Own(w)' = Own(w) /\ job[w].at # "opening"
<1> USE DEF PointerInv, TxnInv, Typed, TypeOK, Tables
<1>0. /\ w \in Clients /\ StoreStep(w) /\ OwnInv /\ PointerInv
      /\ call[w].at \in Steps /\ CallShape(call[w]) /\ CallOfJob(w)
      /\ job'[w] = job[w]
      /\ call[w].at \in TxnSteps => inTxn
      /\ WorkerContent(w)
  BY OwnStatementFacts
<1>1. job[w].at # "opening"
  BY <1>0, StepsNotEnded DEF Holds, InBody, BodySteps, Ended
<1>2. Own(w)' = Own(w) /\ Own(w) = job[w].snap
  BY <1>0, <1>1 DEF Own
<1>3. call[w].op \in Writers /\ call[w].snap = Own(w)
  BY <1>0, <1>1, <1>2
  DEF CallOfJob, Holds, InBody, BodySteps, Writers
<1>4. Own(w) \in Ids
  BY <1>0, OwnIsId
<1>5. disk' = disk \/ disk' = db'
  BY <1>0, StatementFacts DEF ContentInv, PublishedInv
<1>6. RowGrows(job[w].trigger, job[w].target, db', db, Own(w)) \/ db' = disk
  <2>1. CASE UpsertProfile(w)
    <3> DEFINE s == Own(w)
    <3>1. db' = [db EXCEPT !.profile[s] =
                   [p \in Projects |->
                      IF p \in call[w].projs THEN s ELSE db.profile[s][p]]]
      BY <1>3, <2>1 DEF UpsertProfile, Execute
    <3>2. job[w].at = "writing"
      BY <1>0, <1>1, <2>1 DEF UpsertProfile, At, CallShape, CallOfJob
    <3>3. call[w].projs \subseteq
            Writable(job[w].trigger, job[w].target, db, s)
      BY <1>0, <3>2 DEF WorkerContent, ToWrite, InScopeNow
    <3> HIDE DEF s
    <3>4. /\ db'.parent[s] = db.parent[s]
          /\ db'.catalog[s] = db.catalog[s]
          /\ \A p \in Projects :
               db'.profile[s][p] = IF p \in call[w].projs
                                     THEN s ELSE db.profile[s][p]
      BY <1>0, <1>4, <3>1 DEF s
    <3>5. RowGrows(job[w].trigger, job[w].target, db', db, s)
      BY <3>3, <3>4 DEF RowGrows
    <3>6. QED
      BY <3>5 DEF s
  <2>2. CASE InsertSkip(w)
    <3>1. /\ db'.parent = db.parent
          /\ db'.catalog = db.catalog
          /\ db'.profile = db.profile
      BY <2>2 DEF InsertSkip, Execute
    <3>2. QED
      BY <3>1 DEF RowGrows
  <2>3. CASE UpsertCatalog(w)
    <3>1. job[w].at = "populating"
      BY <1>0, <1>1, <2>3 DEF UpsertCatalog, At, CallShape, CallOfJob
    <3>2. job[w].trigger = "full"
      BY <1>0, <3>1 DEF WorkerContent, JobKind
    <3>3. db' = [db EXCEPT !.catalog[Own(w)] =
                   db.catalog[Own(w)] \cup call[w].projs]
      BY <1>3, <2>3 DEF UpsertCatalog, Execute
    <3>4. QED
      BY <1>0, <1>4, <3>2, <3>3 DEF RowGrows
  <2>4. CASE SameContent(db', db, Own(w))
    BY <2>4, SameGrows
  <2>5. ~InsertSnapshot(w) /\ ~CopyProfiles(w) /\ ~CopyCatalog(w)
    BY <1>0, <1>3
    DEF InsertSnapshot, CopyProfiles, CopyCatalog, At, CallShape, Writers
  <2>6. call[w].at \in Rewrites =>
          \/ UpsertProfile(w) \/ InsertSkip(w) \/ UpsertCatalog(w)
          \/ NoStatement \/ Rollback
    BY <1>0, <2>5
    DEF Rewrites, StoreStep, RequireInProgress, BeginTransaction, Commit,
        InsertSnapshotFails, ForeignKeyFails, MarkFailed, FlipCompleted,
        FlipRefused, MovePointer, ReadPointer, SelectCatalog, SelectProfiles,
        StatementFails, ClosedRaises, At
  <2>7. NoStatement => SameContent(db', db, Own(w))
    BY DEF NoStatement, SameContent
  <2>8. Rollback => db' = disk
    BY DEF Rollback
  <2>9. QED
    BY <1>0, <1>4, <2>1, <2>2, <2>3, <2>4, <2>5, <2>6, <2>7, <2>8,
       ContentWritten
<1>7. QED
  BY <1>1, <1>2, <1>5, <1>6 DEF RowMoves

LEMMA OwnHeld ==
  ASSUME ContentInv, NEW w \in Workers, StatementStep(w)
  PROVE  HeldContent(w)'
<1>0. /\ job'[w] = job[w] /\ WorkerContent(w) /\ KeepsView
      /\ call[w].at \in Steps /\ ~closed
  BY OwnStatementFacts
<1> SUFFICES ASSUME Holds(w)'
             PROVE  RowOf(w, db)' /\ RowOf(w, disk)'
  BY DEF HeldContent
<1>1. CASE Holds(w)
  BY <1>0, <1>1, OwnRowMoves, HeldFrame DEF WorkerContent, HeldContent
<1>2. CASE ~Holds(w)
  <2>1. job[w].at = "opening"
    BY <1>0, <1>2 DEF Holds, InBody
  <2>2. Commit(w)
    BY <2>1, OpeningStatement
  <2>3. Creating(w) /\ call[w].at = "commit"
    BY <2>1, <2>2 DEF Commit, At, Creating
  <2>4. Own(w)' = Own(w)
    BY <2>1, CreatedRow DEF ContentInv, PublishedInv
  <2>5. RowOf(w, db)
    BY <1>0, <2>3 DEF WorkerContent, CreatedContent
  <2>6. db' = db /\ disk' = db
    BY <2>2 DEF Commit
  <2>7. RefreshRow(job[w].trigger, job[w].target, db, Own(w), disk',
                   LostSlot')
    <3>1. \A b \in Ids : disk.status[b] = "completed" =>
            disk'.status[b] = "completed" /\ SameContent(disk', disk, b)
      BY <1>0 DEF KeepsView, Published
    <3>2. LostSlot \in Ids => LostSlot' = LostSlot
      BY <1>0 DEF KeepsView
    <3>3. RowGrows(job[w].trigger, job[w].target, db, db, Own(w))
      BY DEF RowGrows
    <3>4. QED
      BY <2>5, <3>1, <3>2, <3>3, RowKept DEF RowOf
  <2>8. QED
    BY <1>0, <2>4, <2>6, <2>7 DEF RowOf
<1>3. QED
  BY <1>1, <1>2

LEMMA OwnToWrite ==
  ASSUME ContentInv, NEW w \in Workers, StatementStep(w)
  PROVE  ToWrite(w)'
<1> USE DEF PointerInv, TxnInv, Typed, TypeOK, Tables
<1>0. /\ w \in Clients /\ StoreStep(w) /\ OwnInv /\ PointerInv
      /\ call[w].at \in Steps /\ CallShape(call[w]) /\ CallOfJob(w)
      /\ job'[w] = job[w] /\ ~closed
      /\ call[w].at \in TxnSteps => inTxn
      /\ WorkerContent(w) /\ KeepsView
  BY OwnStatementFacts
<1>1. job[w].at # "analyzing"
  BY <1>0, StepsNotEnded
  DEF OwnInv, SlotInv, JobInv, WorkerInv, BetweenCalls
<1>2. ASSUME job[w].at \in {"populating", "writing"}
      PROVE  /\ Holds(w) /\ Own(w) = job[w].snap /\ Own(w) \in Ids
             /\ call[w].snap = Own(w)
             /\ RowMoves(w) /\ Own(w)' = Own(w)
  <2>1. Holds(w) /\ Own(w) = job[w].snap
    BY <1>2 DEF Holds, InBody, BodySteps, Own
  <2>2. QED
    BY <1>0, <1>2, <2>1, OwnIsId, OwnRowMoves DEF CallOfJob
<1>3. ASSUME job[w].at = "populating", call'[w].at \in Steps
      PROVE  call'[w].projs = job[w].todo
  BY <1>0, <1>3, ArgumentsContinue DEF WorkerContent, ToWrite
<1>4. ASSUME job[w].at = "populating"
      PROVE  /\ call'[w].at = "commit" =>
                  job[w].todo \subseteq db'.catalog[Own(w)]
             /\ call'[w].at = "returned" => InScopeNow(w, job[w].todo)'
  <2>1. call[w].op = "populate_in_scope" /\ job[w].trigger = "full"
          /\ call[w].projs = job[w].todo
    BY <1>0, <1>4 DEF CallOfJob, WorkerContent, JobKind, ToWrite
  <2>2. \/ RequireInProgress(w) \/ BeginTransaction(w) \/ UpsertCatalog(w)
        \/ Commit(w) \/ Raise(w)
    BY <1>0, <2>1
    DEF StoreStep, InsertSnapshot, InsertSnapshotFails, CopyProfiles,
        CopyCatalog, UpsertProfile, InsertSkip, ForeignKeyFails,
        MarkFailed, FlipCompleted, FlipRefused, MovePointer, ReadPointer,
        SelectCatalog, SelectProfiles, StatementFails, ClosedRaises, At,
        CallShape, Readers
  <2>3. Raise(w) => call'[w].at = "raised"
    BY <1>0, OutcomeTyped DEF Raise
  <2>4. RequireInProgress(w) => call'[w].at \in {"begin", "raised"}
    BY <1>0, <2>1, <2>3
    DEF RequireInProgress, Goto, AfterCheck, Calls
  <2>5. BeginTransaction(w) => call'[w].at \in {"upsert_catalog", "raised"}
    BY <1>0, <2>1, <2>3
    DEF BeginTransaction, Goto, AfterBegin, Calls
  <2>6. CASE UpsertCatalog(w)
    <3>1. db' = [db EXCEPT !.catalog[Own(w)] =
                   db.catalog[Own(w)] \cup call[w].projs]
      BY <1>2, <1>4, <2>6 DEF UpsertCatalog, Execute
    <3>2. job[w].todo \subseteq db'.catalog[Own(w)]
      BY <1>0, <1>2, <1>4, <2>1, <3>1
    <3>3. call'[w].at = "commit"
      BY <1>0, <2>6 DEF UpsertCatalog, Goto, Calls
    <3>4. QED
      BY <3>2, <3>3
  <2>7. CASE Commit(w)
    <3>1. call'[w].at = "returned"
      BY <1>0, <2>7, OutcomeTyped DEF Commit, Return
    <3>2. job[w].todo \subseteq db.catalog[Own(w)]
      BY <1>0, <1>4, <2>7 DEF Commit, At, WorkerContent, ToWrite
    <3>3. db' = db /\ disk' = db
      BY <2>7 DEF Commit
    <3>4. InScopeNow(w, job[w].todo)'
      BY <1>0, <1>2, <1>4, <2>1, <3>2, <3>3 DEF InScopeNow, Writable
    <3>5. QED
      BY <3>1, <3>4
  <2>8. QED
    BY <2>2, <2>3, <2>4, <2>5, <2>6, <2>7
<1>5. ASSUME job[w].at = "writing"
      PROVE  /\ InScopeNow(w, job[w].todo)'
             /\ call'[w].at \in Steps => InScopeNow(w, call[w].projs)'
  <2>1. ASSUME NEW e, InScopeNow(w, e)
        PROVE  InScopeNow(w, e)'
    BY <1>0, <1>2, <1>5, <2>1, ScopeFrame DEF InScopeNow
  <2>2. PICK e : e = job[w].todo
    OBVIOUS
  <2>3. PICK f : f = call[w].projs
    OBVIOUS
  <2>4. InScopeNow(w, e) /\ InScopeNow(w, f)
    BY <1>0, <1>5, <2>2, <2>3 DEF WorkerContent, ToWrite
  <2>5. InScopeNow(w, e)' /\ InScopeNow(w, f)'
    BY <2>1, <2>4
  <2>6. job'[w].todo = e
    BY <1>0, <2>2
  <2>7. call'[w].at \in Steps => call'[w].projs = f
    BY <1>0, <2>3, ArgumentsContinue
  <2>8. QED
    BY <2>5, <2>6, <2>7
<1>6. QED
  BY <1>0, <1>1, <1>2, <1>3, <1>4, <1>5 DEF ToWrite

LEMMA StatementKeepsContent ==
  ASSUME ContentInv, NEW c \in Clients, StatementStep(c), NEW w \in Workers
  PROVE  WorkerContent(w)'
<1>1. CASE w = c
  <2>1. JobKind(w)'
    BY <1>1, OwnStatementFacts DEF WorkerContent, JobKind
  <2>2. QED
    BY <1>1, <2>1, OwnParentRead, OwnCreated, OwnHeld, OwnToWrite
    DEF WorkerContent
<1>2. CASE w # c
  <2>1. job'[w] = job[w] /\ call'[w] = call[w]
    BY <1>2, WorkersAreClients, StatementFacts DEF ContentInv, PublishedInv
  <2>2. QED
    BY <1>2, <2>1, StatementKeepsView, ForeignRowStands, ContentFrame
<1>3. QED
  BY <1>1, <1>2

-----------------------------------------------------------------------------
(* A worker's own step: what the next call is given was read or checked.     *)

LEMMA JobStepKeepsContent ==
  ASSUME ContentInv, NEW w \in Workers, JobStep(w)
  PROVE  WorkerContent(w)'
<1>0. /\ w \in Clients /\ job \in [Workers -> Jobs] /\ job[w] \in Jobs
      /\ call \in [Clients -> Calls] /\ call[w] \in Calls
      /\ WorkerInv(w) /\ WorkerContent(w)
  BY WorkersAreClients
  DEF ContentInv, PublishedInv, OwnInv, SlotInv, JobInv, PointerInv, TxnInv,
      Typed, TypeOK
<1>a. /\ Holds(w)' => Holds(w) /\ Own(w)' = Own(w)
      /\ ~Creating(w)'
      /\ NoStatement
  BY JobStepPassesRow DEF ContentInv, PublishedInv, OwnInv, SlotInv
<1>b. KeepsView
  BY PassingKeepsView
<1>c. RowMoves(w)
  BY <1>a DEF RowMoves, NoStatement, RowGrows
<1>1. ASSUME NEW j, NEW k,
             job' = [job EXCEPT ![w] = j],
             call' = [call EXCEPT ![w] = k],
             \/ j.trigger = job[w].trigger /\ j.target = job[w].target
             \/ j.at = "idle" /\ j.trigger = "full",
             j.at # "analyzing" =>
               k.at \in {"idle", "check", "begin", "read_pointer"},
             j.at # "reading_current",
             j.at = "checking_scope" =>
               job[w].trigger = "single_project" /\ Readable(j.parent),
             j.at = "opening" =>
               job[w].trigger # "full" /\ Readable(k.base),
             j.at = "populating" => j.trigger = "full" /\ k.projs = j.todo,
             j.at \in {"analyzing", "writing"} => InScopeNow(w, j.todo),
             j.at = "writing" => InScopeNow(w, k.projs)
      PROVE  WorkerContent(w)'
  <2>1. job'[w] = j /\ call'[w] = k
    BY <1>0, <1>1
  <2>2. JobKind(w)'
    BY <1>0, <1>1, <2>1 DEF JobKind, WorkerContent
  <2>3. ASSUME NEW s, Readable(s)
        PROVE  Readable(s)'
    BY <1>b, <2>3, KeepsReadable
  <2>4. ParentRead(w)'
    BY <1>1, <2>1, <2>3 DEF ParentRead
  <2>5. CreatedContent(w)'
    BY <1>a DEF CreatedContent
  <2>6. HeldContent(w)'
    <3> SUFFICES ASSUME Holds(w)'
                 PROVE  RowOf(w, db)' /\ RowOf(w, disk)'
      BY DEF HeldContent
    <3>1. j.at # "idle"
      BY <2>1 DEF Holds, InBody, BodySteps
    <3>2. QED
      BY <1>0, <1>1, <1>a, <1>b, <1>c, <2>1, <3>1, HeldFrame
      DEF WorkerContent, HeldContent
  <2>7. ASSUME j.at \in {"analyzing", "writing"}, NEW e, InScopeNow(w, e)
        PROVE  InScopeNow(w, e)'
    <3>1. Holds(w)'
      BY <2>1, <2>7 DEF Holds, InBody, BodySteps
    <3>2. QED
      BY <1>1, <1>a, <1>c, <2>1, <2>7, <3>1, ScopeFrame DEF InScopeNow
  <2>8. ToWrite(w)'
    BY <1>1, <2>1, <2>7 DEF ToWrite
  <2>9. QED
    BY <2>2, <2>4, <2>5, <2>6, <2>8 DEF WorkerContent
(* Steps that need nothing.                                                  *)
<1>2. ASSUME NEW j, NEW k,
             job' = [job EXCEPT ![w] = j],
             call' = [call EXCEPT ![w] = k],
             \/ j.trigger = job[w].trigger /\ j.target = job[w].target
             \/ j.at = "idle" /\ j.trigger = "full",
             j.at \in {"idle", "enumerating", "committing", "aborting",
                       "rejecting"},
             k.at \in {"idle", "check"}
      PROVE  WorkerContent(w)'
  BY <1>1, <1>2
<1>3. ASSUME NEW result, End(w, result)
      PROVE  WorkerContent(w)'
  <2> DEFINE j == [NoJob EXCEPT !.snap = job[w].snap, !.result = result]
  <2>1. j.at = "idle" /\ j.trigger = "full"
    BY DEF NoJob
  <2>2. job' = [job EXCEPT ![w] = j] /\ call' = [call EXCEPT ![w] = NoCall]
    BY <1>3 DEF End
  <2>3. NoCall.at = "idle"
    BY DEF NoCall
  <2> HIDE DEF j
  <2>4. QED
    BY <1>2, <2>1, <2>2, <2>3
<1>4. ASSUME NEW result, AbortJob(w, result)
      PROVE  WorkerContent(w)'
  <2> DEFINE j == [job[w] EXCEPT !.at = "aborting", !.result = result]
             k == WriterCall("abort_snapshot", job[w].snap)
  <2>1. /\ j.trigger = job[w].trigger /\ j.target = job[w].target
        /\ j.at = "aborting"
    BY <1>0 DEF Jobs
  <2>2. k.at = "check"
    BY WriterCallChecks DEF WriterCall, Writers
  <2>3. job' = [job EXCEPT ![w] = j] /\ call' = [call EXCEPT ![w] = k]
    BY <1>0, <1>4 DEF AbortJob
  <2> HIDE DEF j, k
  <2>4. QED
    BY <1>2, <2>1, <2>2, <2>3
<1>5. CASE CheckScope(w) /\ ~ End(w, "not_in_scope")
  <2> DEFINE j == [job[w] EXCEPT !.at = "checking_scope",
                                 !.parent = call[w].snap]
             k == NewCall("is_in_scope", NoSnapshot, NoSnapshot,
                          job[w].target)
  <2>1. /\ j.trigger = job[w].trigger /\ j.target = job[w].target
        /\ j.at = "checking_scope" /\ j.parent = call[w].snap
    BY <1>0 DEF Jobs
  <2>2. k.at = "read_pointer"
    BY DEF NewCall, FirstStep, Readers
  <2>3. job' = [job EXCEPT ![w] = j] /\ call' = [call EXCEPT ![w] = k]
    BY <1>5 DEF CheckScope
  <2>4. job[w].trigger = "single_project" /\ Readable(call[w].snap)
    BY <1>0, <1>5
    DEF CheckScope, Returned, WorkerContent, JobKind, ParentRead
  <2> HIDE DEF j, k
  <2>5. QED
    BY <1>1, <2>1, <2>2, <2>3, <2>4
<1>6. CASE OpenSingleSnapshot(w) /\ ~ End(w, "not_in_scope")
  <2> DEFINE j == [job[w] EXCEPT !.at = "opening"]
             k == NewCall("begin_snapshot", NoSnapshot, job[w].parent, {})
  <2>1. /\ j.trigger = job[w].trigger /\ j.target = job[w].target
        /\ j.at = "opening"
    BY <1>0 DEF Jobs
  <2>2. k.at = "begin" /\ k.base = job[w].parent
    BY DEF NewCall, FirstStep, Readers
  <2>3. job' = [job EXCEPT ![w] = j] /\ call' = [call EXCEPT ![w] = k]
    BY <1>6 DEF OpenSingleSnapshot, CallFrom
  <2>4. job[w].trigger = "single_project" /\ Readable(job[w].parent)
    BY <1>0, <1>6
    DEF OpenSingleSnapshot, WorkerContent, JobKind, ParentRead
  <2> HIDE DEF j, k
  <2>5. QED
    BY <1>1, <2>1, <2>2, <2>3, <2>4
<1>7. CASE TryStart(w)
  <2>1. CASE running = NoSnapshot
    <3> DEFINE j == [job[w] EXCEPT !.at = "enumerating", !.snap = call[w].snap]
    <3>1. /\ j.trigger = job[w].trigger /\ j.target = job[w].target
          /\ j.at = "enumerating"
      BY <1>0 DEF Jobs
    <3>2. job' = [job EXCEPT ![w] = j] /\ call' = [call EXCEPT ![w] = NoCall]
      BY <1>7, <2>1 DEF TryStart
    <3>3. NoCall.at = "idle"
      BY DEF NoCall
    <3> HIDE DEF j
    <3>4. QED
      BY <1>2, <3>1, <3>2, <3>3
  <2>2. CASE running # NoSnapshot
    <3> DEFINE j == [job[w] EXCEPT !.at = "rejecting", !.snap = call[w].snap]
               k == WriterCall("abort_snapshot", call[w].snap)
    <3>1. /\ j.trigger = job[w].trigger /\ j.target = job[w].target
          /\ j.at = "rejecting"
      BY <1>0 DEF Jobs
    <3>2. k.at = "check"
      BY WriterCallChecks DEF WriterCall, Writers
    <3>3. job' = [job EXCEPT ![w] = j] /\ call' = [call EXCEPT ![w] = k]
      BY <1>7, <2>2 DEF TryStart
    <3> HIDE DEF j, k
    <3>4. QED
      BY <1>2, <3>1, <3>2, <3>3
  <2>3. QED
    BY <2>1, <2>2
<1>8. ASSUME NEW found \in SUBSET Projects, NEW missing \in SUBSET found,
             EnumerateForFull(w, found, missing)
      PROVE  WorkerContent(w)'
  <2> DEFINE j == [job[w] EXCEPT !.at = "populating", !.todo = found,
                                 !.missing = missing]
             k == NewCall("populate_in_scope", job[w].snap, NoSnapshot, found)
  <2>1. /\ j.trigger = job[w].trigger /\ j.target = job[w].target
        /\ j.at = "populating" /\ j.todo = found
    BY <1>0 DEF Jobs
  <2>2. k.at = "check" /\ k.projs = found
    BY DEF NewCall, FirstStep, Readers
  <2>3. job' = [job EXCEPT ![w] = j] /\ call' = [call EXCEPT ![w] = k]
    BY <1>8 DEF EnumerateForFull
  <2>4. job[w].trigger = "full"
    BY <1>8 DEF EnumerateForFull
  <2> HIDE DEF j, k
  <2>5. QED
    BY <1>1, <2>1, <2>2, <2>3, <2>4
<1>9. ASSUME NEW found \in SUBSET Projects, NEW missing \in SUBSET found,
             EnumerateForSingle(w, found, missing)
      PROVE  WorkerContent(w)'
  <2> DEFINE j == [job[w] EXCEPT !.at = "analyzing", !.todo = job[w].target,
                                 !.missing = missing \cap job[w].target]
  <2>1. /\ j.trigger = job[w].trigger /\ j.target = job[w].target
        /\ j.at = "analyzing" /\ j.todo = job[w].target
    BY <1>0 DEF Jobs
  <2>2. /\ job' = [job EXCEPT ![w] = j]
        /\ call' = [call EXCEPT ![w] = call[w]]
    BY <1>0, <1>9 DEF EnumerateForSingle
  <2>3. InScopeNow(w, job[w].target)
    BY <1>9 DEF EnumerateForSingle, InScopeNow, Writable
  <2> HIDE DEF j
  <2>4. QED
    BY <1>1, <2>1, <2>2, <2>3
<1>10. CASE CatalogPopulated(w) \/ ProjectWritten(w)
  <2> DEFINE j == [job[w] EXCEPT !.at = "analyzing"]
  <2>1. /\ j.trigger = job[w].trigger /\ j.target = job[w].target
        /\ j.at = "analyzing" /\ j.todo = job[w].todo
    BY <1>0 DEF Jobs
  <2>2. job' = [job EXCEPT ![w] = j] /\ call' = [call EXCEPT ![w] = NoCall]
    BY <1>10 DEF CatalogPopulated, ProjectWritten
  <2>3. InScopeNow(w, job[w].todo)
    BY <1>0, <1>10
    DEF CatalogPopulated, ProjectWritten, Returned, WorkerContent, ToWrite
  <2> HIDE DEF j
  <2>4. QED
    BY <1>1, <2>1, <2>2, <2>3
<1>11. ASSUME NEW p \in Projects, WriteProject(w, p)
       PROVE  WorkerContent(w)'
  <2> DEFINE o == IF p \in job[w].missing THEN "record_skip"
                                          ELSE "write_profile"
             j == [job[w] EXCEPT !.at = "writing", !.todo = @ \ {p}]
             k == NewCall(o, job[w].snap, NoSnapshot, {p})
  <2>1. /\ j.trigger = job[w].trigger /\ j.target = job[w].target
        /\ j.at = "writing" /\ j.todo = job[w].todo \ {p}
    BY <1>0 DEF Jobs
  <2>2. k.at = "check" /\ k.projs = {p}
    BY DEF NewCall, FirstStep, Readers
  <2>3. job' = [job EXCEPT ![w] = j] /\ call' = [call EXCEPT ![w] = k]
    BY <1>11 DEF WriteProject
  <2>4. InScopeNow(w, job[w].todo) /\ p \in job[w].todo
    BY <1>0, <1>11 DEF WriteProject, WorkerContent, ToWrite
  <2>5. InScopeNow(w, job[w].todo \ {p}) /\ InScopeNow(w, {p})
    BY <2>4 DEF InScopeNow
  <2> HIDE DEF j, k, o
  <2>6. QED
    BY <1>1, <2>1, <2>2, <2>3, <2>5
<1>12. CASE CommitJob(w)
  <2> DEFINE j == [job[w] EXCEPT !.at = "committing"]
             k == WriterCall("commit_snapshot", job[w].snap)
  <2>1. /\ j.trigger = job[w].trigger /\ j.target = job[w].target
        /\ j.at = "committing"
    BY <1>0 DEF Jobs
  <2>2. k.at = "check"
    BY WriterCallChecks DEF WriterCall, Writers
  <2>3. job' = [job EXCEPT ![w] = j] /\ call' = [call EXCEPT ![w] = k]
    BY <1>12 DEF CommitJob, CallFrom
  <2> HIDE DEF j, k
  <2>4. QED
    BY <1>2, <2>1, <2>2, <2>3
<1>13. CASE \/ RejectStart(w) \/ StartRaises(w) \/ BodyRaises(w)
            \/ CompleteJob(w) \/ AbortEnds(w) \/ GitLabRequestFails(w)
  BY <1>3, <1>4, <1>13
  DEF RejectStart, StartRaises, BodyRaises, CompleteJob, AbortEnds, Uncaught,
      GitLabRequestFails
<1>14. CASE EnumerateProjects(w)
  BY <1>4, <1>8, <1>9, <1>14 DEF EnumerateProjects, TargetDisappeared
<1>15. QED
  BY <1>3, <1>5, <1>6, <1>7, <1>10, <1>11, <1>12, <1>13, <1>14 DEF JobStep

LEMMA StartKeepsContent ==
  ASSUME ContentInv, NEW w \in Workers, StartRefresh(w)
  PROVE  WorkerContent(w)'
<1>0. /\ w \in Clients /\ job \in [Workers -> Jobs]
      /\ call \in [Clients -> Calls]
      /\ ~Holds(w)' /\ ~Creating(w)'
  BY WorkersAreClients, StartHoldsNothing
  DEF ContentInv, PublishedInv, OwnInv, SlotInv, JobInv, PointerInv, TxnInv,
      Typed, TypeOK
<1>1. CASE StartFullRefresh(w)
  <2>1. /\ job'[w].at = "opening" /\ job'[w].trigger = "full"
        /\ call'[w].at = "begin" /\ call'[w].base = NoSnapshot
    BY <1>0, <1>1 DEF StartFullRefresh, NewCall, FirstStep, Readers, NoJob
  <2>2. QED
    BY <1>0, <2>1
    DEF WorkerContent, JobKind, ParentRead, CreatedContent, HeldContent,
        ToWrite
<1>2. ASSUME NEW p \in Projects, StartSingleProjectRefresh(w, p)
      PROVE  WorkerContent(w)'
  <2>1. /\ job'[w].at = "reading_current"
        /\ job'[w].trigger = "single_project" /\ job'[w].target = {p}
        /\ call'[w].at = "read_pointer"
    BY <1>0, <1>2
    DEF StartSingleProjectRefresh, NewCall, FirstStep, Readers, NoJob
  <2>2. QED
    BY <1>0, <2>1
    DEF WorkerContent, JobKind, ParentRead, CreatedContent, HeldContent,
        ToWrite
<1>3. QED
  BY <1>1, <1>2 DEF StartRefresh

LEMMA IdleContent ==
  ASSUME NEW w \in Workers, job[w] = NoJob, call[w] = NoCall
  PROVE  WorkerContent(w)
<1>1. /\ job[w].at = "idle" /\ job[w].trigger = "full"
      /\ ~Holds(w) /\ ~Creating(w)
  BY DEF NoJob, Holds, InBody, BodySteps, Creating
<1>2. QED
  BY <1>1
  DEF WorkerContent, JobKind, ParentRead, CreatedContent, HeldContent,
      ToWrite

LEMMA InitContent == CoordinatorInit => ContentInv
<1> SUFFICES ASSUME CoordinatorInit
             PROVE  ContentInv
  OBVIOUS
<1>1. \A w \in Workers : WorkerContent(w)
  BY IdleContent, WorkersAreClients DEF CoordinatorInit, Init
<1>2. ParentsAgree /\ CompletedShown
  BY DEF CoordinatorInit, Init, ParentsAgree, CompletedShown, Published
<1>3. CurrentCompleted
  BY InitCurrent DEF CurrentInv
<1>4. RowsInv
  BY InitRows DEF CoordinatorInit
<1>5. QED
  BY <1>1, <1>2, <1>3, <1>4, InitPublished DEF ContentInv

(* The step of another worker, or no step.                                   *)
LEMMA PassingContent ==
  ASSUME ContentInv, KeepsView, NEW w \in Workers, NoStatement,
         job'[w] = job[w], call'[w] = call[w]
  PROVE  WorkerContent(w)'
<1>1. RowStands(w)
  BY DEF RowStands, NoStatement, SameContent
<1>2. QED
  BY <1>1, ContentFrame

LEMMA NextContent == ContentInv /\ [CoordinatorNext]_vars => ContentInv'
<1> SUFFICES ASSUME ContentInv, [CoordinatorNext]_vars
             PROVE  ContentInv'
  OBVIOUS
<1> DEFINE Goal == /\ ParentsAgree'
                   /\ CompletedShown'
                   /\ \A w \in Workers : WorkerContent(w)'
<1>1. PublishedInv' /\ CurrentCompleted'
  BY NextPublished, NextCurrent DEF ContentInv, CurrentInv, PublishedInv
<1>2. RowsInv'
  BY CoordinatorStepIsStoreStep, NextRows
  DEF ContentInv, PublishedInv, OwnInv, SlotInv
<1>3. ASSUME NEW c \in Clients, StatementStep(c)
      PROVE  Goal
  BY <1>3, StatementKeepsParents, StatementShowsCompleted,
     StatementKeepsContent
<1>4. ASSUME NoStatement,
             \A v \in Workers : Promoting(v) => Promoting(v)'
                                              /\ call'[v] = call[v]
      PROVE  ParentsAgree' /\ CompletedShown'
  BY <1>4
  DEF NoStatement, ContentInv, ParentsAgree, CompletedShown, Exists,
      Published, Promoted
<1>5. ASSUME NEW w \in Workers, StartRefresh(w) \/ JobStep(w)
      PROVE  Goal
  <2>1. /\ NoStatement
        /\ ~Promoting(w)
        /\ \A v \in Workers : v # w => job'[v] = job[v] /\ call'[v] = call[v]
    <3>1. CASE StartRefresh(w)
      BY <3>1, StartHoldsNothing, WorkersAreClients
      DEF ContentInv, PublishedInv, OwnInv, SlotInv
    <3>2. CASE JobStep(w)
      BY <3>2, JobStepPassesRow, JobStepKnows
      DEF ContentInv, PublishedInv, OwnInv, SlotInv
    <3>3. QED
      BY <1>5, <3>1, <3>2
  <2>2. KeepsView
    BY <1>5, PassingKeepsView
  <2>3. ParentsAgree' /\ CompletedShown'
    BY <1>4, <2>1 DEF Promoting, NoStatement
  <2>4. ASSUME NEW v \in Workers
        PROVE  WorkerContent(v)'
    BY <1>5, <2>1, <2>2, StartKeepsContent, JobStepKeepsContent,
       PassingContent
  <2>5. QED
    BY <2>3, <2>4
<1>6. ASSUME Restart
      PROVE  Goal
  <2>1. /\ db' = disk /\ disk' = disk
        /\ \A w \in Workers : job'[w] = NoJob /\ call'[w] = NoCall
    BY <1>6, WorkersAreClients DEF Restart, RestartStore
  <2>2. \A w \in Workers : WorkerContent(w)'
    <3> SUFFICES ASSUME NEW w \in Workers
                 PROVE  WorkerContent(w)'
      OBVIOUS
    <3>1. /\ job'[w].at = "idle" /\ job'[w].trigger = "full"
          /\ ~Holds(w)' /\ ~Creating(w)'
      BY <2>1 DEF NoJob, Holds, InBody, BodySteps, Creating
    <3>2. QED
      BY <3>1
      DEF WorkerContent, JobKind, ParentRead, CreatedContent, HeldContent,
          ToWrite
  <2>3. QED
    BY <2>1, <2>2 DEF ParentsAgree, CompletedShown, Published
<1>7. ASSUME UNCHANGED vars
      PROVE  Goal
  <2>1. NoStatement /\ job' = job /\ call' = call /\ running' = running
    BY <1>7 DEF vars, storeVars, coordinatorVars, NoStatement
  <2>2. KeepsView
    BY <2>1
    DEF KeepsView, NoStatement, Published, SameContent, LostSlot, InBody,
        Promoted, Promoting, Readable
  <2>3. ParentsAgree' /\ CompletedShown'
    BY <1>4, <2>1 DEF Promoting, NoStatement
  <2>4. QED
    BY <2>1, <2>2, <2>3, PassingContent
<1>8. Goal
  BY <1>3, <1>5, <1>6, <1>7 DEF CoordinatorNext
<1>9. QED
  BY <1>1, <1>2, <1>8 DEF ContentInv

-----------------------------------------------------------------------------
(* What reaches the disk: nothing that a reader can see, or one snapshot.    *)

(* The COMMIT of commit_snapshot for snapshot n of worker w's refresh.       *)
PublishedBy(w, n) ==
  /\ n \in Ids /\ ~Published(n)
  /\ disk' = db
  /\ disk'.current = n
  /\ \A s \in Ids : Published(s)' <=> Published(s) \/ s = n
  /\ LostSlot = NoSnapshot
  /\ Own(w) = n
  /\ job[w].at = "committing" /\ call[w].at = "commit"
  /\ Holds(w) /\ RowOf(w, db)

LEMMA NextKeepsView ==
  ASSUME ContentInv, CoordinatorNext, ~Restart
  PROVE  KeepsView
  BY StatementKeepsView, PassingKeepsView DEF CoordinatorNext

LEMMA CommitPublishes ==
  ASSUME ContentInv, NEW c \in Clients, StatementStep(c), Commit(c)
  PROVE  \/ /\ \A s \in Ids : Published(s)' <=> Published(s)
            /\ disk'.current = disk.current
         \/ c \in Workers /\ \E n \in Ids : PublishedBy(c, n)
<1> USE DEF PointerInv, TxnInv, Typed, TypeOK, Tables
<1>0. /\ PointerInv /\ OwnInv /\ c \in Workers /\ ~closed
      /\ KeepsView
      /\ disk' = db /\ call[c].at = "commit"
  BY StatementFacts, StatementKeepsView
  DEF ContentInv, PublishedInv, Commit, At
<1>1. ASSUME NEW d \in Clients, Promoting(d)
      PROVE  d = c
  BY <1>0, <1>1 DEF Promoting, TransactionOwned, TxnSteps
<1>2. \A s \in Ids : Published(s) => Published(s)'
  BY <1>0 DEF KeepsView
<1>3. CASE ~Promoting(c)
  <2>1. \A s \in Ids : Published(s)' => Published(s)
    BY <1>0, <1>1, <1>3, WorkersAreClients
    DEF ContentInv, CompletedShown, Promoted, Published
  <2>2. db.current = disk.current
    BY <1>0, <1>1, <1>3 DEF MovedPointerOwned
  <2>3. QED
    BY <1>0, <1>2, <2>1, <2>2
<1>4. CASE Promoting(c)
  <2> PICK n : n = call[c].snap
    OBVIOUS
  <2>1. /\ n \in Ids /\ Own(c) = n /\ Holds(c) /\ ~Finished(c)
        /\ job[c].at = "committing" /\ InBody(c)
    BY <1>0, <1>4, PromoterCommits DEF InBody, BodySteps
  <2>2. ~Published(n) /\ disk'.current = n
    BY <1>0, <1>4 DEF PromotesOpenRows, Published
  <2>3. Published(n)'
    <3>1. OpenRow(c)
      BY <1>0 DEF OwnInv, RowInv
    <3>2. db.status[n] = "completed"
      BY <1>4, <2>1, <3>1 DEF OpenRow
    <3>3. QED
      BY <1>0, <3>2 DEF Published
  <2>4. \A s \in Ids : Published(s)' => Published(s) \/ s = n
    BY <1>0, <1>1, WorkersAreClients
    DEF ContentInv, CompletedShown, Promoted, Published
  <2>5. LostSlot = NoSnapshot
    BY <1>0, <2>1 DEF LostSlot
  <2>6. RowOf(c, db)
    BY <1>0, <2>1 DEF ContentInv, WorkerContent, HeldContent
  <2>7. \A s \in Ids : Published(s)' <=> Published(s) \/ s = n
    BY <1>2, <2>3, <2>4
  <2>8. PublishedBy(c, n)
    BY <1>0, <2>1, <2>2, <2>5, <2>6, <2>7 DEF PublishedBy
  <2>9. QED
    BY <1>0, <2>1, <2>8
<1>5. QED
  BY <1>3, <1>4

(* A statement that commits by itself publishes nothing.                     *)
LEMMA AutocommitPublishesNothing ==
  ASSUME ContentInv, NEW c \in Clients, StatementStep(c), ~inTxn
  PROVE  /\ \A s \in Ids : Published(s)' <=> Published(s)
         /\ disk'.current = disk.current
<1> USE DEF PointerInv, TxnInv, Typed, TypeOK, Tables
<1>0. /\ StoreStep(c) /\ PointerInv /\ ~closed /\ KeepsView
      /\ db = disk
      /\ call[c].at \notin TxnSteps
  BY StatementFacts, StatementKeepsView
  DEF ContentInv, PublishedInv, TransactionOwned
<1>1. \A s \in Ids : Published(s) => Published(s)'
  BY <1>0 DEF KeepsView
<1>2. ASSUME NEW s \in Ids, Published(s)', disk' = db'
      PROVE  Published(s)
  <2> SUFFICES ASSUME db.status[s] # "completed"
               PROVE  FALSE
    BY <1>0 DEF Published
  <2>1. db'.status # db.status /\ db'.status[s] = "completed"
    BY <1>2 DEF Published
  <2>2. MarkFailed(c)
    BY <1>0, <2>1, StatusChange
    DEF InsertSnapshot, FlipCompleted, At, TxnSteps
  <2>3. /\ call[c].snap \in Ids
        /\ db' = [db EXCEPT !.status[call[c].snap] =
                              IF @ = "absent" THEN @ ELSE "failed"]
    BY <1>0, <2>2 DEF MarkFailed, Execute, At, CallsOK, CallShape
  <2>4. QED
    BY <1>0, <2>1, <2>3
<1>3. db'.current = db.current
  BY <1>0
  DEF StoreStep, RequireInProgress, BeginTransaction, Commit, InsertSnapshot,
      InsertSnapshotFails, CopyProfiles, CopyCatalog, UpsertProfile,
      InsertSkip, UpsertCatalog, ForeignKeyFails, MarkFailed, FlipCompleted,
      FlipRefused, MovePointer, ReadPointer, SelectCatalog, SelectProfiles,
      StatementFails, ClosedRaises, At, TxnSteps, Execute, NoStatement,
      Rollback
<1>4. disk' = disk \/ disk' = db'
  BY StatementFacts DEF ContentInv, PublishedInv
<1>5. QED
  BY <1>0, <1>1, <1>2, <1>3, <1>4 DEF Published

LEMMA WhatIsPublished ==
  ASSUME ContentInv, [CoordinatorNext]_vars
  PROVE  /\ \A s \in Ids : Published(s) => SameContent(disk', disk, s)
         /\ \/ /\ \A s \in Ids : Published(s)' <=> Published(s)
               /\ disk'.current = disk.current
            \/ \E w \in Workers, n \in Ids : PublishedBy(w, n)
<1>1. CASE disk' = disk
  BY <1>1 DEF Published, SameContent
<1>2. CASE disk' # disk
  <2>1. CoordinatorNext /\ ~Restart
    BY <1>2 DEF vars, storeVars, Restart, RestartStore
  <2>2. PICK c \in Clients : StatementStep(c)
    BY <1>2, <2>1, StartHoldsNothing, JobStepPassesRow
    DEF CoordinatorNext, NoStatement, ContentInv, PublishedInv, OwnInv, SlotInv
  <2>3. ~inTxn \/ Commit(c)
    BY <1>2, <2>2, StatementFacts DEF ContentInv, PublishedInv
  <2>4. \A s \in Ids : Published(s) => SameContent(disk', disk, s)
    BY <2>1, NextKeepsView DEF KeepsView
  <2>5. QED
    BY <2>2, <2>3, <2>4, CommitPublishes, AutocommitPublishesNothing
<1>3. QED
  BY <1>1, <1>2

-----------------------------------------------------------------------------
(* The refinement of SnapshotView.tla.                                       *)

ViewOf(t, s) == [catalog |-> t.catalog[s], profile |-> t.profile[s]]

ViewsOf(t) ==
  [s \in {m \in Ids : t.status[m] = "completed"} |->
     [catalog |-> t.catalog[s], profile |-> t.profile[s]]]

LEMMA ViewsKept ==
  ASSUME NEW t, NEW u,
         \A s \in Ids : u.status[s] = "completed" <=> t.status[s] = "completed",
         \A s \in Ids : t.status[s] = "completed" => SameContent(u, t, s)
  PROVE  ViewsOf(u) = ViewsOf(t)
<1>1. {m \in Ids : u.status[m] = "completed"}
        = {m \in Ids : t.status[m] = "completed"}
  OBVIOUS
<1>2. QED
  BY <1>1 DEF ViewsOf, SameContent

LEMMA ViewsExtended ==
  ASSUME NEW t, NEW u, NEW n \in Ids,
         t.status[n] # "completed",
         \A s \in Ids : u.status[s] = "completed" <=>
                         t.status[s] = "completed" \/ s = n,
         \A s \in Ids : t.status[s] = "completed" => SameContent(u, t, s)
  PROVE  /\ n \notin DOMAIN ViewsOf(t)
         /\ ViewsOf(u) = [m \in DOMAIN ViewsOf(t) \cup {n} |->
                            IF m = n THEN ViewOf(u, n) ELSE ViewsOf(t)[m]]
<1> DEFINE old == {m \in Ids : t.status[m] = "completed"}
           new == {m \in Ids : u.status[m] = "completed"}
<1>1. new = old \cup {n} /\ n \notin old
  OBVIOUS
<1>2. DOMAIN ViewsOf(t) = old
  BY DEF ViewsOf
<1>3. \A s \in old : /\ ViewsOf(t)[s] = ViewOf(t, s)
                     /\ ViewOf(t, s) = ViewOf(u, s)
  BY DEF ViewsOf, ViewOf, SameContent
<1>4. ViewsOf(u) = [s \in new |-> ViewOf(u, s)]
  BY DEF ViewsOf, ViewOf
<1> HIDE DEF old, new
<1>5. QED
  BY <1>1, <1>2, <1>3, <1>4

(* From tables t to tables u, snapshot n is published with content x.        *)
PublishedAs(t, u, n, x) ==
  /\ n \notin DOMAIN ViewsOf(t)
  /\ ViewsOf(u) = [m \in DOMAIN ViewsOf(t) \cup {n} |->
                     IF m = n THEN x ELSE ViewsOf(t)[m]]
  /\ u.current = n

LEMMA PublishedAsFull ==
  ASSUME NEW n \in Ids, NEW catalog \in SUBSET Projects,
         NEW analyzed \in SUBSET catalog,
         PublishedAs(disk, disk', n,
           [catalog |-> catalog,
            profile |-> [p \in Projects |->
                           IF p \in analyzed THEN n ELSE NoSnapshot]])
  PROVE  View!PublishFull(n)
  BY DEF PublishedAs, ViewsOf, View!PublishFull, View!Publish,
     View!NoSnapshot, NoSnapshot

LEMMA PublishedAsSingle ==
  ASSUME NEW n \in Ids, NEW b \in DOMAIN ViewsOf(disk), NEW p \in Projects,
         \/ PublishedAs(disk, disk', n, ViewsOf(disk)[b])
         \/ PublishedAs(disk, disk', n,
                        [ViewsOf(disk)[b] EXCEPT !.profile[p] = n])
  PROVE  View!PublishSingle(n)
  BY DEF PublishedAs, ViewsOf, View!PublishSingle, View!Publish

(* The snapshot n with content v is a full refresh, or a copy of one that is *)
(* published in t with at most one profile replaced.                         *)
Publishable(t, n, v) ==
  \/ \E catalog \in SUBSET Projects : \E analyzed \in SUBSET catalog :
       v = [catalog |-> catalog,
            profile |-> [p \in Projects |-> IF p \in analyzed THEN n ELSE NoSnapshot]]
  \/ \E b \in DOMAIN ViewsOf(t) : \E p \in Projects :
       v = ViewsOf(t)[b] \/ v = [ViewsOf(t)[b] EXCEPT !.profile[p] = n]

(* What a refresh has made of its row may be published.                      *)
LEMMA RowIsPublishable ==
  ASSUME ContentInv, NEW w \in Workers, NEW n \in Ids,
         RefreshRow(job[w].trigger, job[w].target, db, n, disk, NoSnapshot)
  PROVE  Publishable(disk, n, ViewOf(db, n))
<1> DEFINE v == ViewOf(db, n)
<1>3. /\ db.catalog[n] \in SUBSET Projects
      /\ db.profile[n] \in Rows
      /\ \A s \in Ids : disk.profile[s] \in Rows
  BY DEF ContentInv, PublishedInv, OwnInv, SlotInv, JobInv, PointerInv,
     TxnInv, Typed, TypeOK, Tables
<1>4. v = [catalog |-> db.catalog[n], profile |-> db.profile[n]]
  BY DEF ViewOf
<1>6. CASE job[w].trigger = "full"
  <2> DEFINE analyzed == {p \in db.catalog[n] : db.profile[n][p] = n}
  <2>1. FullRow(db, n)
    BY <1>6 DEF RefreshRow
  <2>2. db.profile[n] = [p \in Projects |->
                           IF p \in analyzed THEN n ELSE NoSnapshot]
    <3>1. \A p \in Projects :
            db.profile[n][p] = IF p \in analyzed THEN n ELSE NoSnapshot
      BY <2>1, BoundAssumption DEF FullRow
    <3>2. QED
      BY <1>3, <3>1 DEF Rows
  <2>3. analyzed \in SUBSET db.catalog[n]
    OBVIOUS
  <2> HIDE DEF analyzed, v
  <2>4. v = [catalog |-> db.catalog[n],
             profile |-> [p \in Projects |->
                            IF p \in analyzed THEN n ELSE NoSnapshot]]
    BY <1>4, <2>2
  <2>5. QED
    BY <1>3, <2>3, <2>4 DEF Publishable, v
<1>7. CASE job[w].trigger # "full"
  <2> DEFINE b == db.parent[n]
  <2>1. /\ b \in Ids
        /\ disk.status[b] = "completed"
        /\ Copies(db, n, disk, b, job[w].target)
    BY <1>7, BoundAssumption DEF RefreshRow, SingleRow, Ids, NoSnapshot
  <2>2. PICK p \in Projects : job[w].target = {p}
    <3>1. job[w].trigger = "single_project"
      BY <1>7
      DEF ContentInv, PublishedInv, OwnInv, SlotInv, JobInv, Jobs, Triggers
    <3>2. QED
      BY <3>1 DEF ContentInv, WorkerContent, JobKind
  <2>3. b \in DOMAIN ViewsOf(disk) /\ ViewsOf(disk)[b] = ViewOf(disk, b)
    BY <2>1 DEF ViewsOf, ViewOf
  <2>4. db.catalog[n] = disk.catalog[b]
    BY <2>1 DEF Copies
  <2>5. \A q \in Projects : \/ db.profile[n][q] = disk.profile[b][q]
                            \/ q = p /\ db.profile[n][q] = n
    BY <2>1, <2>2 DEF Copies
  <2>6. v = ViewsOf(disk)[b]
          \/ v = [ViewsOf(disk)[b] EXCEPT !.profile[p] = n]
    <3>1. CASE db.profile[n][p] = disk.profile[b][p]
      <4>1. db.profile[n] = disk.profile[b]
        BY <1>3, <2>1, <2>5, <3>1 DEF Rows
      <4>2. QED
        BY <1>4, <2>3, <2>4, <4>1 DEF ViewOf
    <3>2. CASE db.profile[n][p] # disk.profile[b][p]
      <4>1. db.profile[n] = [disk.profile[b] EXCEPT ![p] = n]
        BY <1>3, <2>1, <2>5, <3>2 DEF Rows
      <4>2. QED
        BY <1>4, <2>3, <2>4, <4>1 DEF ViewOf
    <3>3. QED
      BY <3>1, <3>2
  <2> HIDE DEF b, v
  <2>8. QED
    BY <2>2, <2>3, <2>6 DEF Publishable, v
<1>8. QED
  BY <1>6, <1>7

LEMMA PublishableIsPublished ==
  ASSUME NEW n \in Ids, NEW v, PublishedAs(disk, disk', n, v), Publishable(disk, n, v)
  PROVE  View!PublishFull(n) \/ View!PublishSingle(n)
<1>1. ASSUME NEW catalog \in SUBSET Projects, NEW analyzed \in SUBSET catalog,
             v = [catalog |-> catalog,
                  profile |-> [p \in Projects |-> IF p \in analyzed THEN n ELSE NoSnapshot]]
      PROVE  View!PublishFull(n)
  BY <1>1, PublishedAsFull
<1>2. ASSUME NEW b \in DOMAIN ViewsOf(disk), NEW p \in Projects,
             v = ViewsOf(disk)[b] \/ v = [ViewsOf(disk)[b] EXCEPT !.profile[p] = n]
      PROVE  View!PublishSingle(n)
  <2>1. \/ PublishedAs(disk, disk', n, ViewsOf(disk)[b])
        \/ PublishedAs(disk, disk', n, [ViewsOf(disk)[b] EXCEPT !.profile[p] = n])
    BY <1>2
  <2> QED BY <2>1, PublishedAsSingle
<1> QED BY <1>1, <1>2 DEF Publishable

(* Worker w's COMMIT adds its snapshot to what is published.                 *)
LEMMA PublishedByIsShown ==
  ASSUME ContentInv, NEW w \in Workers, NEW n \in Ids, PublishedBy(w, n),
         \A s \in Ids : Published(s) => SameContent(disk', disk, s)
  PROVE  PublishedAs(disk, disk', n, ViewOf(disk', n))
<1>1. /\ disk.status[n] # "completed"
      /\ \A s \in Ids : disk'.status[s] = "completed" <=>
                         disk.status[s] = "completed" \/ s = n
      /\ \A s \in Ids : disk.status[s] = "completed" =>
                         SameContent(disk', disk, s)
  BY DEF PublishedBy, Published
<1>2. /\ n \notin DOMAIN ViewsOf(disk)
      /\ ViewsOf(disk') = [m \in DOMAIN ViewsOf(disk) \cup {n} |->
                             IF m = n THEN ViewOf(disk', n)
                                      ELSE ViewsOf(disk)[m]]
  BY <1>1, ViewsExtended
<1> QED BY <1>2 DEF PublishedAs, PublishedBy

(* Worker w's COMMIT publishes a full refresh, or a copy.                    *)
LEMMA PublishedByIsPublish ==
  ASSUME ContentInv, NEW w \in Workers, NEW n \in Ids, PublishedBy(w, n),
         \A s \in Ids : Published(s) => SameContent(disk', disk, s)
  PROVE  View!PublishFull(n) \/ View!PublishSingle(n)
<1>1. PublishedAs(disk, disk', n, ViewOf(db, n))
  BY PublishedByIsShown DEF PublishedBy
<1>2. RefreshRow(job[w].trigger, job[w].target, db, n, disk, NoSnapshot)
  BY DEF PublishedBy, RowOf
<1> QED BY <1>1, <1>2, RowIsPublishable, PublishableIsPublished

(* Every interleaving of refreshes, rejections, failures and restarts        *)
(* publishes whole, final snapshots: a full refresh with its own profiles,   *)
(* or a copy of a published one in which only the target's profile is        *)
(* replaced.  This holds for a store whose statements may fail, too.         *)
THEOREM ImplementsView == CoordinatorSpec => ImplementsSnapshotView
<1>1. CoordinatorInit => View!Init
  <2> SUFFICES ASSUME CoordinatorInit
               PROVE  View!Init
    OBVIOUS
  <2>1. {t \in Ids : disk.status[t] = "completed"} = {}
    BY DEF CoordinatorInit, Init, EmptyTables
  <2>2. disk.current = NoSnapshot
    BY DEF CoordinatorInit, Init, EmptyTables
  <2>3. QED
    BY <2>1, <2>2 DEF View!Init, View!NoSnapshot, NoSnapshot
<1>2. ContentInv /\ [CoordinatorNext]_vars
        => [View!Next]_<<[s \in {t \in Ids : disk.status[t] = "completed"} |->
                            [catalog |-> disk.catalog[s],
                             profile |-> disk.profile[s]]],
                         disk.current>>
  <2> SUFFICES ASSUME ContentInv, [CoordinatorNext]_vars
               PROVE  \/ View!Next
                      \/ /\ ViewsOf(disk') = ViewsOf(disk)
                         /\ disk'.current = disk.current
    BY DEF ViewsOf
  <2>1. CASE /\ \A s \in Ids : Published(s)' <=> Published(s)
             /\ disk'.current = disk.current
    BY <2>1, WhatIsPublished, ViewsKept DEF Published
  <2>2. CASE \E w \in Workers, n \in Ids : PublishedBy(w, n)
    BY <2>2, WhatIsPublished, PublishedByIsPublish
    DEF View!Next, View!Ids, Ids
  <2>3. QED
    BY <2>1, <2>2, WhatIsPublished
<1>3. QED
  BY <1>1, <1>2, InitContent, NextContent, PTL
  DEF CoordinatorSpec, ImplementsSnapshotView, View!Spec

-----------------------------------------------------------------------------
(* The refinement of ShownView.tla.                                          *)

ShownOf(d, k) ==
  [s \in {t \in Ids : k.status[t] = "completed" \/ (d.current # k.current /\ t = d.current)} |->
     [catalog |-> d.catalog[s], profile |-> d.profile[s]]]

Extended(f, n, v) == [m \in DOMAIN f \cup {n} |-> IF m = n THEN v ELSE f[m]]

(* No other snapshot is shown than the committed ones.                       *)
SettledShown == ShownOf(db, disk) = ViewsOf(disk)

LEMMA SettledIsShown == ContentInv /\ ~PointerMoved => SettledShown
<1> SUFFICES ASSUME ContentInv, ~PointerMoved
             PROVE  ShownOf(db, disk) = ViewsOf(disk)
  BY DEF SettledShown
<1> DEFINE old == {t \in Ids : disk.status[t] = "completed"}
<1>1. ShownOf(db, disk) = [s \in old |-> ViewOf(db, s)]
  BY DEF ShownOf, ViewOf, PointerMoved
<1>2. ViewsOf(disk) = [s \in old |-> ViewOf(disk, s)]
  BY DEF ViewsOf, ViewOf
<1>3. ASSUME NEW s \in old
      PROVE  ViewOf(db, s) = ViewOf(disk, s)
  BY PublishedContent DEF Published, SameContent, ViewOf
<1> HIDE DEF old
<1> QED BY <1>1, <1>2, <1>3

(* The snapshot of a moved pointer is shown besides: one that the worker     *)
(* about to COMMIT holds, and that may be published.                         *)
Committing(c, n) ==
  /\ Promoting(c) /\ call[c].at = "commit" /\ call[c].snap = n
  /\ Holds(c) /\ Own(c) = n

MovedShown ==
  /\ db.current \in Ids
  /\ db.current \notin DOMAIN ViewsOf(disk)
  /\ ShownOf(db, disk) = Extended(ViewsOf(disk), db.current, ViewOf(db, db.current))
  /\ Publishable(disk, db.current, ViewOf(db, db.current))
  /\ \E c \in Workers : Committing(c, db.current)

LEMMA MovedIsShown == ContentInv /\ PointerMoved => MovedShown
<1> SUFFICES ASSUME ContentInv, PointerMoved
             PROVE  MovedShown
  OBVIOUS
<1> DEFINE n == db.current
<1>0. OwnInv /\ PointerInv
  BY DEF ContentInv, PublishedInv, OwnInv, SlotInv, JobInv
<1>1. PICK c \in Clients : Promoting(c) /\ call[c].at = "commit" /\ call[c].snap = n
  BY <1>0 DEF PointerMoved, PointerInv, MovedPointerOwned
<1>2. c \in Workers
  BY <1>0, <1>1, ExecutorOwns DEF OwnInv, SlotInv, JobInv, Steps, TxnSteps
<1>3. /\ n \in Ids /\ Holds(c) /\ Own(c) = n /\ InBody(c)
      /\ job[c].at = "committing"
  BY <1>0, <1>1, <1>2, PromoterCommits DEF InBody, BodySteps
<1>4. disk.status[n] # "completed"
  BY <1>0, <1>1 DEF PointerInv, PromotesOpenRows
<1>5. LostSlot = NoSnapshot
  BY <1>1, <1>2, <1>3 DEF LostSlot
<1>6. RefreshRow(job[c].trigger, job[c].target, db, n, disk, NoSnapshot)
  BY <1>2, <1>3, <1>5 DEF ContentInv, WorkerContent, HeldContent, RowOf
<1>7. Publishable(disk, n, ViewOf(db, n))
  BY <1>2, <1>3, <1>6, RowIsPublishable
<1>8. ShownOf(db, disk) = Extended(ViewsOf(disk), n, ViewOf(db, n))
  <2> DEFINE old == {t \in Ids : disk.status[t] = "completed"}
             new == {t \in Ids : disk.status[t] = "completed"
                                  \/ (n # disk.current /\ t = n)}
  <2>1. new = old \cup {n} /\ n \notin old
    BY <1>3, <1>4 DEF PointerMoved
  <2>2. ShownOf(db, disk) = [s \in new |-> ViewOf(db, s)]
    BY DEF ShownOf, ViewOf
  <2>3. DOMAIN ViewsOf(disk) = old /\ \A s \in old : ViewsOf(disk)[s] = ViewOf(disk, s)
    BY DEF ViewsOf, ViewOf
  <2>4. \A s \in old : ViewOf(db, s) = ViewOf(disk, s)
    BY PublishedContent DEF Published, SameContent, ViewOf
  <2> HIDE DEF old, new, n
  <2> QED BY <2>1, <2>2, <2>3, <2>4 DEF Extended
<1>9. n \notin DOMAIN ViewsOf(disk)
  BY <1>4 DEF ViewsOf
<1>10. Committing(c, n)
  BY <1>1, <1>3 DEF Committing
<1> QED BY <1>2, <1>3, <1>7, <1>8, <1>9, <1>10 DEF MovedShown

LEMMA SettledIsShownNext == ContentInv' /\ ~PointerMoved' => SettledShown'
  BY SettledIsShown, PTL

LEMMA MovedIsShownNext == ContentInv' /\ PointerMoved' => MovedShown'
  BY MovedIsShown, PTL

(* A step that leaves a moved pointer moved leaves its snapshot.             *)
LEMMA MovedStays ==
  ASSUME ContentInv, ContentInv', [CoordinatorNext]_vars, PointerMoved, PointerMoved'
  PROVE  db'.current = db.current /\ ViewOf(db', db.current) = ViewOf(db, db.current)
<1>1. PICK c \in Workers : Committing(c, db.current)
  BY MovedIsShown DEF MovedShown
<1>2. PICK e \in Workers : Committing(e, db.current)'
  BY MovedIsShownNext DEF MovedShown
<1>3. CASE db' = db
  BY <1>3
<1>4. CASE db' # db
  <2>1. db' # disk'
    BY DEF PointerMoved
  <2>2. PICK d \in Clients : StatementStep(d)
    BY <1>4, <2>1, StartHoldsNothing, JobStepPassesRow
    DEF CoordinatorNext, NoStatement, ContentInv, PublishedInv, OwnInv, SlotInv,
        Restart, RestartStore, vars, storeVars
  <2>3. StoreStep(d) /\ disk' = disk /\ PointerInv
    BY <2>1, <2>2, StatementFacts DEF ContentInv, PublishedInv
  <2>4. d # c
    <3> SUFFICES ASSUME d = c
                 PROVE  FALSE
      OBVIOUS
    <3>1. ~Rollback /\ ~Commit(c)
      BY <2>1, <2>3 DEF Rollback, Commit
    <3>2. ~Raise(c)
      BY <1>1, <2>3, <3>1, PromotingRaise DEF Committing
    <3>3. ~MovePointer(c)
      BY <1>1 DEF Committing, MovePointer, At
    <3> QED BY <1>1, <2>3, <3>1, <3>2, <3>3, PromotingStep DEF Committing
  <2>5. call'[c] = call[c]
    BY <2>2, <2>4, StatementFacts, WorkersAreClients DEF ContentInv, PublishedInv
  <2>6. e = c
    <3>1. PointerInv'
      BY DEF ContentInv, PublishedInv, OwnInv, SlotInv, JobInv
    <3>2. call'[c].at \in TxnSteps /\ call'[e].at \in TxnSteps /\ ~closed'
      BY <1>1, <1>2, <2>5 DEF Committing, Promoting, TxnSteps
    <3> QED BY <3>1, <3>2, WorkersAreClients DEF PointerInv, TxnInv, TransactionOwned
  <2>7. db'.current = db.current
    BY <1>1, <1>2, <2>5, <2>6 DEF Committing
  <2>8. SameContent(db', db, Own(c))
    BY <1>1, <2>2, <2>4, ForeignRowStands DEF RowStands, Committing, TxnSteps
  <2> QED BY <1>1, <2>7, <2>8 DEF Committing, SameContent, ViewOf
<1> QED BY <1>3, <1>4

(* Readers are pointed to what was committed, or the pointer is undone.      *)
LEMMA WhatIsShown ==
  ASSUME ContentInv, ContentInv', [CoordinatorNext]_vars
  PROVE  \/ ViewsOf(disk') = ViewsOf(disk) /\ disk'.current = disk.current
         \/ /\ PointerMoved /\ ~PointerMoved'
            /\ ViewsOf(disk') = ShownOf(db, disk)
            /\ disk'.current = db.current
<1>1. CASE /\ \A s \in Ids : Published(s)' <=> Published(s)
           /\ disk'.current = disk.current
  BY <1>1, WhatIsPublished, ViewsKept DEF Published
<1>2. CASE \E w \in Workers, n \in Ids : PublishedBy(w, n)
  <2>1. PICK w \in Workers, n \in Ids : PublishedBy(w, n)
    BY <1>2
  <2>2. PointerMoved /\ db.current = n
    BY <2>1, BoundAssumption
    DEF PublishedBy, PointerMoved, Published, ContentInv, CurrentCompleted, Ids, NoSnapshot
  <2>3. PublishedAs(disk, disk', n, ViewOf(disk', n))
    BY <2>1, WhatIsPublished, PublishedByIsShown
  <2>4. ViewsOf(disk') = ShownOf(db, disk)
    BY <2>1, <2>2, <2>3, MovedIsShown DEF MovedShown, Extended, PublishedAs, PublishedBy
  <2>5. ~PointerMoved'
    <3>1. disk' # disk
      BY <2>1 DEF PublishedBy, Published
    <3>2. CoordinatorNext /\ ~Restart
      BY <3>1 DEF vars, storeVars, Restart, RestartStore
    <3>3. PICK c \in Clients : StatementStep(c)
      BY <3>1, <3>2, StartHoldsNothing, JobStepPassesRow
      DEF CoordinatorNext, NoStatement, ContentInv, PublishedInv, OwnInv, SlotInv
    <3>4. disk' = db'
      BY <3>1, <3>3, StatementFacts DEF ContentInv, PublishedInv
    <3> QED BY <3>4 DEF PointerMoved
  <2> QED BY <2>1, <2>2, <2>4, <2>5 DEF PublishedBy
<1> QED BY <1>1, <1>2, WhatIsPublished
(* The pointer moves to n, and n is shown with content x.                    *)
ShownAs(n, x) ==
  /\ n \notin DOMAIN ShownOf(db, disk)
  /\ ShownOf(db', disk') = [m \in DOMAIN ShownOf(db, disk) \cup {n} |->
                              IF m = n THEN x ELSE ShownOf(db, disk)[m]]
  /\ db'.current = n

LEMMA ShownAsFull ==
  ASSUME NEW n \in Ids, NEW catalog \in SUBSET Projects, NEW analyzed \in SUBSET catalog,
         ShownAs(n, [catalog |-> catalog,
                     profile |-> [p \in Projects |->
                                    IF p \in analyzed THEN n ELSE NoSnapshot]])
  PROVE  Shown!PublishFull(n)
  BY DEF ShownAs, ShownOf, PointerMoved, Shown!PublishFull, Shown!Publish,
     Shown!NoSnapshot, NoSnapshot

LEMMA ShownAsSingle ==
  ASSUME NEW n \in Ids, NEW b \in DOMAIN ShownOf(db, disk), NEW p \in Projects,
         \/ ShownAs(n, ShownOf(db, disk)[b])
         \/ ShownAs(n, [ShownOf(db, disk)[b] EXCEPT !.profile[p] = n])
  PROVE  Shown!PublishSingle(n)
  BY DEF ShownAs, ShownOf, PointerMoved, Shown!PublishSingle, Shown!Publish

(* The four steps of what is shown.                                          *)
LEMMA ShownMoves ==
  ASSUME ContentInv, ContentInv', ~PointerMoved, PointerMoved',
         ViewsOf(disk') = ViewsOf(disk), disk'.current = disk.current
  PROVE  Shown!MovePointer
<1> DEFINE n == db'.current
           v == ViewOf(db', n)
           old == ShownOf(db, disk)
           new == ShownOf(db', disk')
<1>1. old = ViewsOf(disk) /\ db.current = disk.current
  BY SettledIsShown DEF SettledShown, PointerMoved
<1>2. /\ n \in Ids /\ n \notin DOMAIN old
      /\ new = Extended(old, n, v)
      /\ Publishable(disk', n, v)
  BY <1>1, MovedIsShownNext DEF MovedShown
<1>3. ShownAs(n, v)
  BY <1>2 DEF Extended, ShownAs
<1> HIDE DEF v
<1>4. ASSUME NEW catalog \in SUBSET Projects, NEW analyzed \in SUBSET catalog,
             v = [catalog |-> catalog,
                  profile |-> [p \in Projects |-> IF p \in analyzed THEN n ELSE NoSnapshot]]
      PROVE  Shown!PublishFull(n)
  BY <1>2, <1>3, <1>4, ShownAsFull
<1>5. ASSUME NEW b \in DOMAIN old, NEW p \in Projects,
             v = old[b] \/ v = [old[b] EXCEPT !.profile[p] = n]
      PROVE  Shown!PublishSingle(n)
  <2>1. ShownAs(n, old[b]) \/ ShownAs(n, [old[b] EXCEPT !.profile[p] = n])
    BY <1>3, <1>5
  <2> QED BY <1>2, <2>1, ShownAsSingle
<1>6. Shown!Next
  <2>1. Shown!PublishFull(n) \/ Shown!PublishSingle(n)
    BY <1>1, <1>2, <1>4, <1>5 DEF Publishable
  <2> QED BY <1>2, <2>1 DEF Shown!Next, Shown!Ids, Ids
<1> QED BY <1>1, <1>6 DEF Shown!MovePointer, PointerMoved

LEMMA ShownSucceeds ==
  ASSUME ContentInv, ContentInv', PointerMoved, ~PointerMoved',
         ViewsOf(disk') = ShownOf(db, disk), disk'.current = db.current
  PROVE  Shown!CommitSucceeds
<1>1. ShownOf(db', disk') = ShownOf(db, disk) /\ db'.current = db.current
  BY SettledIsShownNext DEF SettledShown, PointerMoved
<1> QED BY <1>1 DEF ShownOf, Shown!CommitSucceeds, Shown!NoSnapshot, NoSnapshot, PointerMoved

LEMMA ShownFails ==
  ASSUME ContentInv, ContentInv', PointerMoved, ~PointerMoved',
         ViewsOf(disk') = ViewsOf(disk), disk'.current = disk.current
  PROVE  Shown!CommitFails
<1> DEFINE n == db.current
           old == ShownOf(db, disk)
           new == ShownOf(db', disk')
<1>1. new = ViewsOf(disk) /\ db'.current = disk.current
  BY SettledIsShownNext DEF SettledShown, PointerMoved
<1>2. n \notin DOMAIN ViewsOf(disk) /\ old = Extended(ViewsOf(disk), n, ViewOf(db, n))
  BY MovedIsShown DEF MovedShown
<1>3. new = [m \in DOMAIN old \ {n} |-> old[m]]
  <2>1. DOMAIN old \ {n} = DOMAIN ViewsOf(disk)
    BY <1>2 DEF Extended
  <2>2. \A m \in DOMAIN ViewsOf(disk) : old[m] = ViewsOf(disk)[m]
    BY <1>2 DEF Extended
  <2>3. ViewsOf(disk) = [m \in DOMAIN ViewsOf(disk) |-> ViewsOf(disk)[m]]
    BY DEF ViewsOf
  <2> HIDE DEF n, old, new
  <2> QED BY <1>1, <2>1, <2>2, <2>3
<1> QED BY <1>1, <1>3 DEF ShownOf, PointerMoved, Shown!CommitFails, Shown!NoSnapshot, NoSnapshot

LEMMA ShownStays ==
  ASSUME ContentInv, ContentInv', [CoordinatorNext]_vars, PointerMoved' <=> PointerMoved,
         ViewsOf(disk') = ViewsOf(disk), disk'.current = disk.current
  PROVE  ShownOf(db', disk') = ShownOf(db, disk) /\ db'.current = db.current
<1>1. CASE PointerMoved
  <2>1. db'.current = db.current /\ ViewOf(db', db.current) = ViewOf(db, db.current)
    BY <1>1, MovedStays
  <2>2. ShownOf(db, disk) = Extended(ViewsOf(disk), db.current, ViewOf(db, db.current))
    BY <1>1, MovedIsShown DEF MovedShown
  <2>3. ShownOf(db', disk') = Extended(ViewsOf(disk'), db'.current, ViewOf(db', db'.current))
    BY <1>1, MovedIsShownNext DEF MovedShown
  <2> QED BY <2>1, <2>2, <2>3
<1>2. CASE ~PointerMoved
  BY <1>2, SettledIsShown, SettledIsShownNext DEF SettledShown, PointerMoved
<1> QED BY <1>1, <1>2

(* On the connection that all threads share, and whatever their statements   *)
(* meet there, readers are shown a committed snapshot, or the whole and      *)
(* final content of the one whose pointer is moved in an open transaction;   *)
(* a COMMIT makes it stay, and a failure or a restart shows what was there   *)
(* before (commit_snapshot, get_current_snapshot_id).                        *)
THEOREM ImplementsShown == CoordinatorSpec => ImplementsShownView
<1>1. CoordinatorInit => Shown!ShownInit
  <2> SUFFICES ASSUME CoordinatorInit
               PROVE  Shown!ShownInit
    OBVIOUS
  <2>1. db = disk /\ db.current = NoSnapshot /\ ~PointerMoved
    BY DEF CoordinatorInit, Init, EmptyTables, PointerMoved
  <2>2. {t \in Ids : \/ disk.status[t] = "completed"
                     \/ PointerMoved /\ t = db.current} = {}
    BY <2>1 DEF CoordinatorInit, Init, EmptyTables
  <2> QED BY <2>1, <2>2 DEF Shown!ShownInit, Shown!Init, Shown!NoSnapshot, NoSnapshot
<1>2. ContentInv /\ ContentInv' /\ [CoordinatorNext]_vars => [Shown!ShownNext]_(Shown!shownVars)
  <2> SUFFICES ASSUME ContentInv, ContentInv', [CoordinatorNext]_vars
               PROVE  Shown!ShownNext \/ UNCHANGED Shown!shownVars
    OBVIOUS
  <2>1. CASE ViewsOf(disk') = ViewsOf(disk) /\ disk'.current = disk.current
    <3>1. CASE ~PointerMoved /\ PointerMoved'
      BY <2>1, <3>1, ShownMoves DEF Shown!ShownNext
    <3>2. CASE PointerMoved /\ ~PointerMoved'
      BY <2>1, <3>2, ShownFails DEF Shown!ShownNext
    <3>3. CASE PointerMoved' <=> PointerMoved
      <4>1. ShownOf(db', disk') = ShownOf(db, disk) /\ db'.current = db.current
        BY <2>1, <3>3, ShownStays
      <4> QED BY <2>1, <3>3, <4>1 DEF ShownOf, PointerMoved, Shown!shownVars
    <3> QED BY <3>1, <3>2, <3>3
  <2>2. CASE /\ PointerMoved /\ ~PointerMoved'
             /\ ViewsOf(disk') = ShownOf(db, disk)
             /\ disk'.current = db.current
    BY <2>2, ShownSucceeds DEF Shown!ShownNext
  <2> QED BY <2>1, <2>2, WhatIsShown
<1> QED BY <1>1, <1>2, InitContent, NextContent, PTL
    DEF CoordinatorSpec, ImplementsShownView, Shown!ShownSpec

-----------------------------------------------------------------------------
(* Room for the rows: with MaxSnapshot ids, no refresh that was started      *)
(* fails for want of an id.                                                  *)

ExistingIds(t) == {s \in Ids : Exists(t, s)}

(* begin_snapshot's INSERT is still to come.                                 *)
Waiting(w) ==
  \/ job[w].at \in {"reading_current", "checking_scope"}
  \/ job[w].at = "opening" /\ call[w].at \in {"begin", "insert"}

WaitingWorkers == {w \in Workers : Waiting(w)}

RoomInv ==
  Cardinality(ExistingIds(db)) + Cardinality(WaitingWorkers) <= MaxSnapshot

LEMMA IdsFinite ==
  /\ IsFiniteSet(Ids) /\ Cardinality(Ids) = MaxSnapshot
  /\ \A t : IsFiniteSet(ExistingIds(t)) /\ Cardinality(ExistingIds(t)) \in Nat
<1>1. IsFiniteSet(Ids) /\ Cardinality(Ids) = MaxSnapshot
  BY BoundAssumption, FS_Interval DEF Ids
<1>2. \A t : ExistingIds(t) \in SUBSET Ids
  BY DEF ExistingIds
<1>3. QED
  BY <1>1, <1>2, FS_Subset, FS_CardinalityType

LEMMA WaitingFinite ==
  ASSUME IsFiniteSet(Workers), NEW W \in SUBSET Workers
  PROVE  IsFiniteSet(W) /\ Cardinality(W) \in Nat
  BY FS_Subset, FS_CardinalityType

LEMMA FewerNeedLess ==
  ASSUME IsFiniteSet(Workers), NEW t, NEW u, NEW W \in SUBSET Workers,
         NEW V \in SUBSET W, ExistingIds(u) \subseteq ExistingIds(t),
         Cardinality(ExistingIds(t)) + Cardinality(W) <= MaxSnapshot
  PROVE  Cardinality(ExistingIds(u)) + Cardinality(V) <= MaxSnapshot
<1>1. /\ IsFiniteSet(W) /\ Cardinality(W) \in Nat
      /\ Cardinality(V) \in Nat
  BY WaitingFinite
<1>2. /\ IsFiniteSet(ExistingIds(t)) /\ Cardinality(ExistingIds(t)) \in Nat
      /\ Cardinality(ExistingIds(u)) \in Nat
  BY IdsFinite
<1>3. Cardinality(V) <= Cardinality(W)
  BY <1>1, FS_Subset
<1>4. Cardinality(ExistingIds(u)) <= Cardinality(ExistingIds(t))
  BY <1>2, FS_Subset
<1>5. QED
  BY <1>1, <1>2, <1>3, <1>4, BoundAssumption

LEMMA StatementNeedsNoMoreRoom ==
  ASSUME IsFiniteSet(Workers), OwnInv, RoomInv, NEW c \in Clients,
         StatementStep(c)
  PROVE  RoomInv'
<1> USE DEF PointerInv, TxnInv, Typed, TypeOK, Tables
<1>0. /\ StoreStep(c) /\ PointerInv /\ c \in Workers
      /\ call[c].at \in Steps /\ CallShape(call[c]) /\ ~closed
      /\ job' = job
      /\ \A d \in Clients : d # c => call'[d] = call[d]
  BY StatementFacts
<1>1. ASSUME Waiting(c)', ~Waiting(c)
      PROVE  FALSE
  <2>1. job[c].at = "opening" /\ call'[c].at \in {"begin", "insert"}
    BY <1>0, <1>1 DEF Waiting
  <2>2. call[c].op = "begin_snapshot" /\ call[c].at \in BeginSteps
    BY <1>0, <2>1 DEF OwnInv, SlotInv, JobInv, WorkerInv, OpensSnapshot
  <2>3. call[c].at \in {"copy_profiles", "copy_catalog", "commit"}
    BY <1>1, <2>1, <2>2 DEF Waiting, BeginSteps
  <2>4. CASE CopyProfiles(c) \/ CopyCatalog(c)
    BY <1>0, <2>1, <2>4 DEF CopyProfiles, CopyCatalog, Goto, Calls
  <2>5. CASE Commit(c) \/ Raise(c)
    BY <1>0, <2>1, <2>5, OutcomeTyped DEF Commit, Return, Raise
  <2>6. QED
    BY <1>0, <2>3, <2>4, <2>5
    DEF StoreStep, RequireInProgress, BeginTransaction, InsertSnapshot,
        InsertSnapshotFails, UpsertProfile, InsertSkip, UpsertCatalog,
        ForeignKeyFails, MarkFailed, FlipCompleted, FlipRefused, MovePointer,
        ReadPointer, SelectCatalog, SelectProfiles, StatementFails,
        ClosedRaises, At
<1>2. WaitingWorkers' \in SUBSET WaitingWorkers
          /\ WaitingWorkers \in SUBSET Workers
  BY <1>0, <1>1, WorkersAreClients DEF WaitingWorkers, Waiting
<1>3. CASE InsertSnapshot(c)
  <2>1. PICK n \in Ids :
          /\ db.status[n] = "absent"
          /\ db' = [db EXCEPT !.status[n] = "in_progress",
                              !.parent[n] = call[c].base]
          /\ call' = [call EXCEPT
                        ![c].snap = n,
                        ![c].at = IF call[c].base = NoSnapshot
                                    THEN "commit" ELSE "copy_profiles"]
    BY <1>3 DEF InsertSnapshot, IsNextId, Execute
  <2>2. ExistingIds(db') = ExistingIds(db) \cup {n} /\ n \notin ExistingIds(db)
    BY <1>0, <2>1 DEF ExistingIds, Exists
  <2>3. c \in WaitingWorkers
    <3>1. job[c].at = "opening"
      BY <1>0, <1>3
      DEF InsertSnapshot, At, CallShape, OwnInv, RowInv, CallOfJob, Writers
    <3>2. QED
      BY <1>0, <1>3, <3>1 DEF InsertSnapshot, At, WaitingWorkers, Waiting
  <2>4. ~Waiting(c)'
    <3>1. call'[c].at \in {"commit", "copy_profiles"}
      BY <1>0, <2>1 DEF Calls
    <3>2. job[c].at = "opening"
      BY <1>0, <1>3
      DEF InsertSnapshot, At, CallShape, OwnInv, RowInv, CallOfJob, Writers
    <3>3. QED
      BY <1>0, <3>1, <3>2 DEF Waiting
  <2>5. WaitingWorkers' \in SUBSET (WaitingWorkers \ {c})
    BY <1>2, <2>4 DEF WaitingWorkers
  <2>6. IsFiniteSet(WaitingWorkers) /\ Cardinality(WaitingWorkers) \in Nat
    BY <1>2, WaitingFinite
  <2>7. /\ IsFiniteSet(WaitingWorkers \ {c})
        /\ Cardinality(WaitingWorkers \ {c}) = Cardinality(WaitingWorkers) - 1
    BY <2>3, <2>6, FS_RemoveElement
  <2>8. /\ Cardinality(WaitingWorkers') <= Cardinality(WaitingWorkers) - 1
        /\ Cardinality(WaitingWorkers') \in Nat
    BY <2>5, <2>7, FS_Subset, FS_CardinalityType
  <2>9. Cardinality(ExistingIds(db')) = Cardinality(ExistingIds(db)) + 1
          /\ Cardinality(ExistingIds(db)) \in Nat
    BY <2>2, IdsFinite, FS_AddElement
  <2>10. QED
    BY <2>6, <2>8, <2>9, BoundAssumption DEF RoomInv
<1>4. CASE ~InsertSnapshot(c)
  <2>1. ASSUME NEW s \in Ids, db.status[s] = "absent"
        PROVE  db'.status[s] = "absent"
    <3>1. CASE MarkFailed(c) \/ FlipCompleted(c)
      BY <1>0, <2>1, <3>1
      DEF MarkFailed, FlipCompleted, Execute, At, CallShape
    <3>2. CASE Rollback
      BY <1>0, <2>1, <3>2 DEF Rollback, PendingStatuses, MayBecome
    <3>3. QED
      BY <1>0, <1>4, <2>1, <3>1, <3>2, StatusChange
  <2>2. ExistingIds(db') \subseteq ExistingIds(db)
    BY <2>1 DEF ExistingIds, Exists
  <2>3. QED
    BY <1>2, <2>2, FewerNeedLess DEF RoomInv
<1>5. QED
  BY <1>3, <1>4

LEMMA NextRoom ==
  ASSUME IsFiniteSet(Workers), OwnInv, RoomInv, [CoordinatorNext]_vars
  PROVE  RoomInv'
<1> USE DEF OwnInv, SlotInv
<1>0. /\ call \in [Clients -> Calls] /\ job \in [Workers -> Jobs]
      /\ JobInv
  BY DEF JobInv, PointerInv, TxnInv, Typed, TypeOK
<1>1. WaitingWorkers \in SUBSET Workers /\ WaitingWorkers' \in SUBSET Workers
  BY DEF WaitingWorkers
<1>2. ASSUME NEW c \in Clients, StatementStep(c)
      PROVE  RoomInv'
  BY <1>2, StatementNeedsNoMoreRoom
<1>3. ASSUME NEW w \in Workers, StartRefresh(w)
      PROVE  RoomInv'
  <2> DEFINE opening == {v \in Workers : job[v].at \in {"reading_current",
                                              "checking_scope", "opening"}}
  <2>1. Cardinality(ExistingIds(db)) + Cardinality(opening) < MaxSnapshot
    BY <1>3
    DEF StartRefresh, StartFullRefresh, StartSingleProjectRefresh,
        RoomForSnapshot, ExistingIds, Exists
  <2>2. /\ db' = db
        /\ \A v \in Workers : v # w => job'[v] = job[v] /\ call'[v] = call[v]
    BY <1>3, StartHoldsNothing, WorkersAreClients DEF NoStatement
  <2>3. WaitingWorkers' \in SUBSET (opening \cup {w})
    BY <2>2 DEF WaitingWorkers, Waiting
  <2>4. IsFiniteSet(opening) /\ Cardinality(opening) \in Nat
    BY WaitingFinite
  <2> HIDE DEF opening
  <2>5. /\ IsFiniteSet(opening \cup {w})
        /\ Cardinality(opening \cup {w}) <= Cardinality(opening) + 1
        /\ Cardinality(opening \cup {w}) \in Nat
    <3>1. /\ IsFiniteSet(opening \cup {w})
          /\ Cardinality(opening \cup {w}) =
               IF w \in opening THEN Cardinality(opening)
                                ELSE Cardinality(opening) + 1
      BY <2>4, FS_AddElement
    <3>2. Cardinality(opening \cup {w}) <= Cardinality(opening) + 1
      BY <2>4, <3>1
    <3>3. Cardinality(opening \cup {w}) \in Nat
      BY <2>4, <3>1
    <3>4. QED
      BY <3>1, <3>2, <3>3
  <2>6. /\ Cardinality(WaitingWorkers') <= Cardinality(opening \cup {w})
        /\ Cardinality(WaitingWorkers') \in Nat
    BY <2>3, <2>5, FS_Subset, FS_CardinalityType
  <2>7. Cardinality(ExistingIds(db)) \in Nat
    BY IdsFinite
  <2>8. QED
    BY <2>1, <2>2, <2>4, <2>5, <2>6, <2>7, BoundAssumption DEF RoomInv
<1>4. ASSUME NEW w \in Workers, JobStep(w)
      PROVE  RoomInv'
  <2>1. /\ db' = db
        /\ \A v \in Workers : v # w => job'[v] = job[v] /\ call'[v] = call[v]
    BY <1>4, JobStepPassesRow, JobStepKnows DEF NoStatement
  <2>2. Waiting(w)' => job[w].at \in {"reading_current", "checking_scope"}
    <3> SUFFICES ASSUME job'[w].at \in {"reading_current", "checking_scope",
                                        "opening"}
                 PROVE  job[w].at \in {"reading_current", "checking_scope"}
      BY DEF Waiting
    <3>1. \/ CheckScope(w) \/ OpenSingleSnapshot(w)
          \/ job'[w].at \notin {"reading_current", "checking_scope",
                                "opening"}
      <4>1. ASSUME NEW r, End(w, r) \/ AbortJob(w, r)
            PROVE  job'[w].at \in {"idle", "aborting"}
        <5>1. End(w, r) => job'[w].at = "idle"
          BY <1>0 DEF End, NoJob
        <5>2. AbortJob(w, r) => job'[w].at = "aborting"
          BY <1>0 DEF AbortJob, Jobs
        <5>3. QED
          BY <4>1, <5>1, <5>2
      <4>2. CASE \/ RejectStart(w) \/ StartRaises(w) \/ GitLabRequestFails(w)
                 \/ CompleteJob(w) \/ AbortEnds(w) \/ BodyRaises(w)
        <5>1. \E r : End(w, r) \/ AbortJob(w, r)
          BY <4>2
          DEF RejectStart, StartRaises, GitLabRequestFails, CompleteJob,
              AbortEnds, BodyRaises, Uncaught
        <5>2. QED
          BY <4>1, <5>1
      <4>3. CASE EnumerateProjects(w)
        BY <1>0, <4>1, <4>3
        DEF EnumerateProjects, EnumerateForFull, EnumerateForSingle,
            TargetDisappeared, Jobs
      <4>4. CASE TryStart(w)
        BY <1>0, <4>4 DEF TryStart, Jobs
      <4>5. CASE CatalogPopulated(w) \/ ProjectWritten(w) \/ CommitJob(w)
        BY <1>0, <4>5
        DEF CatalogPopulated, ProjectWritten, CommitJob, CallFrom, Jobs
      <4>6. ASSUME NEW p \in Projects, WriteProject(w, p)
            PROVE  job'[w].at = "writing"
        <5>1. job' = [job EXCEPT ![w].at = "writing", ![w].todo = @ \ {p}]
          BY <4>6 DEF WriteProject
        <5>2. QED
          BY <1>0, <5>1 DEF Jobs
      <4>7. QED
        BY <1>4, <4>2, <4>3, <4>4, <4>5, <4>6 DEF JobStep
    <3>2. QED
      BY <3>1 DEF CheckScope, OpenSingleSnapshot
  <2>3. WaitingWorkers' \in SUBSET WaitingWorkers
    BY <2>1, <2>2 DEF WaitingWorkers, Waiting
  <2>4. QED
    BY <1>1, <2>1, <2>3, FewerNeedLess DEF RoomInv
<1>5. CASE Restart
  <2>1. db' = disk /\ \A w \in Workers : job'[w].at = "idle"
    BY <1>5, NoJobTyped DEF Restart, RestartStore
  <2>2. WaitingWorkers' \in SUBSET WaitingWorkers
    BY <2>1 DEF WaitingWorkers, Waiting
  <2>3. ExistingIds(db') \subseteq ExistingIds(db)
    BY <2>1
    DEF ExistingIds, Exists, JobInv, PointerInv, PendingStatuses, MayBecome
  <2>4. QED
    BY <1>1, <2>2, <2>3, FewerNeedLess DEF RoomInv
<1>6. CASE UNCHANGED vars
  BY <1>6
  DEF vars, storeVars, coordinatorVars, RoomInv, WaitingWorkers, Waiting
<1>7. QED
  BY <1>2, <1>3, <1>4, <1>5, <1>6 DEF CoordinatorNext

LEMMA InitRoom == IsFiniteSet(Workers) /\ CoordinatorInit => RoomInv
<1> SUFFICES ASSUME IsFiniteSet(Workers), CoordinatorInit
             PROVE  RoomInv
  OBVIOUS
<1>1. ExistingIds(db) = {}
  BY DEF CoordinatorInit, Init, EmptyTables, ExistingIds, Exists
<1>2. WaitingWorkers = {}
  BY NoJobTyped DEF CoordinatorInit, WaitingWorkers, Waiting
<1>3. QED
  BY <1>1, <1>2, FS_EmptySet, BoundAssumption DEF RoomInv

-----------------------------------------------------------------------------
(* No project is lost, while the store's statements succeed: the projects of *)
(* a full refresh's catalog are each still to do, being written, or done.    *)

Done(t, s, p) == t.profile[s][p] # NoSnapshot \/ p \in t.skips[s]

(* Worker w has not come to project p yet, or failed at it.                  *)
Pending(w, p) ==
  \/ job[w].at \in {"analyzing", "writing"} /\ p \in job[w].todo
  \/ /\ job[w].at = "writing"
     /\ \/ call[w].at = "raised"
        \/ call[w].at \in Steps /\ p \in call[w].projs

(* The snapshot has no catalog before populate_in_scope.                     *)
NotPopulated(w) ==
  \/ Creating(w) /\ call[w].at = "commit"
  \/ Holds(w) /\ job[w].at \in {"opening", "enumerating"}

Accounted(w) ==
  job[w].trigger = "full" =>
    /\ NotPopulated(w) => db.catalog[Own(w)] = {}
    /\ job[w].at = "populating" => db.catalog[Own(w)] \subseteq job[w].todo
    /\ job[w].at \in {"analyzing", "writing", "committing"} =>
         \A p \in db.catalog[Own(w)] : Done(db, Own(w), p) \/ Pending(w, p)

AccountedInv ==
  /\ ContentInv
  /\ RoomInv
  /\ EveryProjectAccountedFor
  /\ \A w \in Workers : Accounted(w)

(* Without a failing statement, no transaction is undone: the INSERT finds   *)
(* an id, and the row is the refresh's own until it ends.                    *)
LEMMA NoTransactionUndone ==
  ASSUME ~StoreFaults, IsFiniteSet(Workers), OwnInv, RoomInv,
         NEW c \in Clients, StatementStep(c), call[c].at \in TxnSteps
  PROVE  call'[c].at # "raised"
<1> USE DEF PointerInv, TxnInv, Typed, TypeOK, Tables
<1>0. /\ StoreStep(c) /\ PointerInv /\ c \in Workers /\ ~closed
      /\ CallShape(call[c])
      /\ call \in [Clients -> Calls]
  BY StatementFacts
<1>1. ~InsertSnapshotFails(c)
  <2> SUFFICES ASSUME InsertSnapshotFails(c)
               PROVE  FALSE
    OBVIOUS
  <2>1. call[c].at = "insert" /\ \A n \in Ids : db.status[n] # "absent"
    BY DEF InsertSnapshotFails, At
  <2>2. ExistingIds(db) = Ids
    BY <2>1 DEF ExistingIds, Exists
  <2>3. job[c].at = "opening"
    BY <1>0, <2>1
    DEF CallShape, OwnInv, RowInv, CallOfJob, Writers, Steps, TxnSteps
  <2>4. c \in WaitingWorkers /\ WaitingWorkers \in SUBSET Workers
    BY <1>0, <2>1, <2>3 DEF WaitingWorkers, Waiting
  <2>5. IsFiniteSet(WaitingWorkers) /\ Cardinality(WaitingWorkers) \in Nat
    BY <2>4, WaitingFinite
  <2>6. Cardinality(WaitingWorkers) # 0
    BY <2>4, <2>5, FS_EmptySet
  <2>7. QED
    BY <2>2, <2>5, <2>6, IdsFinite, BoundAssumption DEF RoomInv
<1>2. ASSUME call[c].at \in {"flip", "upsert_catalog"}
      PROVE  db.status[call[c].snap] = "in_progress"
  <2>1. call[c].op \in Writers /\ call[c].at \in Steps
    BY <1>0, <1>2 DEF CallShape, Writers, Steps, TxnSteps
  <2>2. Holds(c) /\ ~Finished(c) /\ Own(c) = call[c].snap
    BY <1>0, <2>1, ExecutorOwns
  <2>3. ~Promoting(c)
    BY <1>2 DEF Promoting
  <2>4. QED
    BY <1>0, <2>2, <2>3 DEF OwnInv, RowInv, OpenRow
<1>3. CASE Commit(c)
  BY <1>0, <1>3, OutcomeTyped DEF Commit, Return
<1>4. CASE InsertSnapshot(c)
  BY <1>0, <1>4 DEF InsertSnapshot, Calls
<1>5. CASE CopyProfiles(c) \/ CopyCatalog(c) \/ UpsertCatalog(c)
             \/ FlipCompleted(c) \/ MovePointer(c)
  BY <1>0, <1>5
  DEF CopyProfiles, CopyCatalog, UpsertCatalog, FlipCompleted, MovePointer,
      Goto, Calls
<1>6. QED
  BY <1>0, <1>1, <1>2, <1>3, <1>4, <1>5
  DEF StoreStep, RequireInProgress, BeginTransaction, UpsertProfile,
      InsertSkip, ForeignKeyFails, SnapshotExists, MarkFailed, FlipRefused,
      ReadPointer, SelectCatalog, SelectProfiles, StatementFails,
      ClosedRaises, At, TxnSteps

(* So a statement changes only the content of its own snapshot.              *)
LEMMA ForeignContentStays ==
  ASSUME ~StoreFaults, IsFiniteSet(Workers), ContentInv, RoomInv,
         NEW c \in Clients, StatementStep(c), NEW w \in Workers, w # c,
         Holds(w) \/ Creating(w)
  PROVE  SameContent(db', db, Own(w))
<1>1. OwnInv /\ call \in [Clients -> Calls]
  BY DEF ContentInv, PublishedInv, OwnInv, SlotInv, JobInv, PointerInv,
     TxnInv, Typed, TypeOK
<1>2. Raise(c) => call'[c].at = "raised"
  BY <1>1, OutcomeTyped DEF Raise
<1>3. QED
  BY <1>1, <1>2, ForeignContent, NoTransactionUndone

LEMMA AccountedFrame ==
  ASSUME NEW w \in Workers, Accounted(w),
         Holds(w) \/ Creating(w) => SameContent(db', db, Own(w)),
         job'[w] = job[w], call'[w] = call[w]
  PROVE  Accounted(w)'
<1>1. /\ Own(w)' = Own(w)
      /\ Holds(w)' <=> Holds(w)
      /\ Creating(w)' <=> Creating(w)
      /\ NotPopulated(w)' <=> NotPopulated(w)
      /\ \A p : Pending(w, p)' <=> Pending(w, p)
  BY DEF Own, Holds, Creating, InBody, NotPopulated, Pending
<1>2. \/ NotPopulated(w)
      \/ job[w].at \in {"populating", "analyzing", "writing", "committing"}
      => Holds(w) \/ Creating(w)
  BY DEF NotPopulated, Holds, InBody, BodySteps
<1>3. QED
  BY <1>1, <1>2 DEF Accounted, SameContent, Done

(* The worker's own statement: populate_in_scope fills the catalog with what *)
(* was enumerated, an upsert accounts for the project that it is called for. *)
LEMMA OwnAccounted ==
  ASSUME ~StoreFaults, IsFiniteSet(Workers), ContentInv, RoomInv,
         NEW w \in Workers, StatementStep(w), Accounted(w)
  PROVE  Accounted(w)'
<1> USE DEF PointerInv, TxnInv, Typed, TypeOK, Tables
<1>0. /\ w \in Clients /\ StoreStep(w) /\ OwnInv /\ PointerInv
      /\ call[w].at \in Steps /\ CallShape(call[w]) /\ CallOfJob(w)
      /\ job'[w] = job[w]
      /\ WorkerContent(w)
      /\ call'[w].at \in Steps \cup {"returned", "raised"}
  BY OwnStatementFacts, StatementFacts
<1>a. Raise(w) => call'[w].at = "raised"
  BY <1>0, OutcomeTyped DEF Raise
<1> SUFFICES ASSUME job[w].trigger = "full"
             PROVE  Accounted(w)'
  BY <1>0 DEF Accounted
<1>1. CASE job[w].at = "opening"
  <2>1. call[w].base = NoSnapshot
    BY <1>0, <1>1 DEF WorkerContent, ParentRead
  <2>2. ~CopyProfiles(w) /\ ~CopyCatalog(w)
    BY <1>0, <2>1, BoundAssumption
    DEF CopyProfiles, CopyCatalog, At, CallShape, Ids, NoSnapshot
  <2>3. SUFFICES ASSUME NotPopulated(w)'
                 PROVE  db'.catalog[Own(w)'] = {}
    BY <1>0, <1>1 DEF Accounted
  <2>4. InsertSnapshot(w) \/ Commit(w)
    BY <2>2, <2>3, <1>1, OpeningStatement DEF NotPopulated
  <2>5. CASE InsertSnapshot(w)
    <3>1. PICK n \in Ids :
            /\ db.status[n] = "absent"
            /\ db' = [db EXCEPT !.status[n] = "in_progress",
                                !.parent[n] = call[w].base]
            /\ call' = [call EXCEPT
                          ![w].snap = n,
                          ![w].at = IF call[w].base = NoSnapshot
                                      THEN "commit" ELSE "copy_profiles"]
      BY <2>5 DEF InsertSnapshot, IsNextId, Execute
    <3>2. Own(w)' = n
      BY <1>0, <1>1, <3>1 DEF Own, Calls
    <3>3. db.catalog[n] = {}
      BY <3>1 DEF ContentInv, RowsInv, EmptyIfAbsent
    <3>4. QED
      BY <3>1, <3>2, <3>3
  <2>6. CASE Commit(w)
    <3>1. NotPopulated(w) /\ db' = db
      BY <1>1, <2>6 DEF Commit, At, NotPopulated, Creating
    <3>2. Own(w)' = Own(w)
      BY <1>0, <1>1, <2>6, OutcomeTyped
      DEF Own, Commit, Return, ReturnValue, CallShape, OwnInv, RowInv,
          CallOfJob, NoCall, At
    <3>3. QED
      BY <3>1, <3>2 DEF Accounted
  <2>7. QED
    BY <2>4, <2>5, <2>6
<1>2. ASSUME job[w].at # "opening"
      PROVE  Own(w)' = Own(w) /\ ~Creating(w)'
             /\ (NotPopulated(w)' <=> NotPopulated(w))
  BY <1>0, <1>2 DEF Own, Creating, NotPopulated, Holds, InBody
<1>3. CASE job[w].at \in {"populating", "writing", "committing"}
  <2> DEFINE s == Own(w)
  <2>1. s \in Ids /\ call[w].op \in Writers /\ call[w].snap = s
          /\ db.status[s] # "absent"
    <3>1. call[w].op \in Writers
      BY <1>0, <1>3 DEF CallOfJob, Writers
    <3>2. Holds(w) /\ ~Finished(w) /\ s = call[w].snap
      BY <1>0, <3>1, ExecutorOwns
    <3>3. QED
      BY <1>0, <3>1, <3>2, OwnIsId DEF OwnInv, RowInv, OpenRow
  <2>2. \/ SameContent(db', db, s)
        \/ call[w].at \in {"upsert_profile", "insert_skip", "upsert_catalog"}
    BY <1>0, <1>a, <2>1, ContentWritten, NoTransactionUndone
    DEF Rewrites, CallShape, Writers
  <2>3. ASSUME call'[w].at \in Steps
        PROVE  call'[w].projs = call[w].projs
    BY <1>0, <2>3, ArgumentsContinue
  <2>4. CASE job[w].at = "populating"
    <3>1. call[w].projs = job[w].todo /\ call[w].op = "populate_in_scope"
      BY <1>0, <2>4 DEF WorkerContent, ToWrite, CallOfJob
    <3>2. db'.catalog[s] \subseteq db.catalog[s] \cup job[w].todo
      <4>1. CASE SameContent(db', db, s)
        BY <4>1 DEF SameContent
      <4>2. CASE UpsertCatalog(w)
        BY <2>1, <3>1, <4>2 DEF UpsertCatalog, Execute
      <4>3. QED
        BY <1>0, <1>a, <2>1, <3>1, <4>1, <4>2, NoTransactionUndone,
           ContentWritten
        DEF CallShape, StoreStep, RequireInProgress, BeginTransaction,
            Commit, InsertSnapshot, InsertSnapshotFails, CopyProfiles,
            CopyCatalog, UpsertProfile, InsertSkip, ForeignKeyFails,
            MarkFailed, FlipCompleted, FlipRefused, MovePointer, ReadPointer,
            SelectCatalog, SelectProfiles, StatementFails, ClosedRaises, At,
            NoStatement, SameContent, Readers, Rewrites, TxnSteps
    <3>3. QED
      BY <1>0, <1>2, <2>4, <3>2 DEF Accounted, NotPopulated, Creating
  <2>5. CASE job[w].at = "committing"
    <3>1. SameContent(db', db, s)
      BY <1>0, <2>2, <2>5 DEF CallOfJob, CallShape
    <3>2. QED
      BY <1>0, <1>2, <2>5, <3>1
      DEF Accounted, NotPopulated, Creating, SameContent, Done, Pending
  <2>6. CASE job[w].at = "writing"
    <3>1. call[w].op \in {"write_profile", "record_skip"}
      BY <1>0, <2>6 DEF CallOfJob
    <3>2. CASE UpsertProfile(w)
      <4>1. db' = [db EXCEPT !.profile[s] =
                     [p \in Projects |-> IF p \in call[w].projs
                                           THEN s ELSE db.profile[s][p]]]
        BY <2>1, <3>2 DEF UpsertProfile, Execute
      <4>2. /\ db'.catalog[s] = db.catalog[s]
            /\ db'.skips[s] = db.skips[s]
            /\ \A p \in Projects :
                 db'.profile[s][p] = IF p \in call[w].projs
                                       THEN s ELSE db.profile[s][p]
        BY <1>0, <2>1, <4>1
      <4>3. s # NoSnapshot /\ db.catalog[s] \subseteq Projects
        BY <1>0, <2>1, BoundAssumption DEF Ids, NoSnapshot
      <4>4. \A p \in db.catalog[s] :
              Done(db, s, p) \/ p \in call[w].projs => Done(db', s, p)
        BY <4>2, <4>3 DEF Done
      <4>5. \A p \in db.catalog[s] : Done(db', s, p) \/ p \in job[w].todo
        BY <1>0, <2>6, <4>4, StepsNotEnded DEF Accounted, Pending, Ended
      <4>6. QED
        BY <1>0, <1>2, <2>6, <4>2, <4>5
        DEF Accounted, NotPopulated, Creating, Pending
    <3>3. CASE InsertSkip(w)
      <4>1. db' = [db EXCEPT !.skips[s] = db.skips[s] \cup call[w].projs]
        BY <2>1, <3>3 DEF InsertSkip, Execute
      <4>2. /\ db'.catalog[s] = db.catalog[s]
            /\ db'.skips[s] = db.skips[s] \cup call[w].projs
            /\ db'.profile[s] = db.profile[s]
        BY <1>0, <2>1, <4>1
      <4>4. \A p \in db.catalog[s] :
              Done(db, s, p) \/ p \in call[w].projs => Done(db', s, p)
        BY <4>2 DEF Done
      <4>5. \A p \in db.catalog[s] : Done(db', s, p) \/ p \in job[w].todo
        BY <1>0, <2>6, <4>4, StepsNotEnded DEF Accounted, Pending, Ended
      <4>6. QED
        BY <1>0, <1>2, <2>6, <4>2, <4>5
        DEF Accounted, NotPopulated, Creating, Pending
    <3>4. CASE ~UpsertProfile(w) /\ ~InsertSkip(w)
      <4>1. \/ RequireInProgress(w)
            \/ Raise(w) /\ NoStatement
        BY <1>0, <3>1, <3>4
        DEF CallShape, StoreStep, BeginTransaction, Commit, InsertSnapshot,
            InsertSnapshotFails, CopyProfiles, CopyCatalog, UpsertCatalog,
            ForeignKeyFails, MarkFailed, FlipCompleted, FlipRefused,
            MovePointer, ReadPointer, SelectCatalog, SelectProfiles,
            StatementFails, ClosedRaises, At, Readers, TxnSteps
      <4>2. db' = db
        BY <4>1 DEF RequireInProgress, NoStatement
      <4>3. call'[w].at \in Steps \/ call'[w].at = "raised"
        BY <1>0, <1>a, <3>1, <4>1
        DEF RequireInProgress, Goto, AfterCheck, Calls, Steps, AutoSteps
      <4>4. \A p : Pending(w, p) => Pending(w, p)'
        BY <1>0, <2>3, <2>6, <4>3, StepsNotEnded DEF Pending, Ended
      <4>5. QED
        BY <1>0, <1>2, <2>6, <4>2, <4>4
        DEF Accounted, NotPopulated, Creating, Done
    <3>5. QED
      BY <3>2, <3>3, <3>4
  <2>7. QED
    BY <1>3, <2>4, <2>5, <2>6
<1>4. QED
  <2>1. job[w].at # "analyzing" /\ job[w].at # "enumerating"
    BY <1>0, StepsNotEnded
    DEF OwnInv, SlotInv, JobInv, WorkerInv, BetweenCalls
  <2>2. QED
    BY <1>0, <1>1, <1>2, <1>3, <2>1
    DEF Accounted, NotPopulated, Creating

(* A worker's own step hands every project on.                               *)
LEMMA JobStepAccounted ==
  ASSUME ContentInv, NEW w \in Workers, JobStep(w), Accounted(w)
  PROVE  Accounted(w)'
<1>0. /\ w \in Clients /\ job \in [Workers -> Jobs] /\ job[w] \in Jobs
      /\ call \in [Clients -> Calls] /\ call[w] \in Calls
      /\ WorkerContent(w)
  BY WorkersAreClients
  DEF ContentInv, PublishedInv, OwnInv, SlotInv, JobInv, PointerInv, TxnInv,
      Typed, TypeOK
<1>a. /\ Holds(w)' => Holds(w) /\ Own(w)' = Own(w)
      /\ ~Creating(w)'
      /\ db' = db
  BY JobStepPassesRow DEF ContentInv, PublishedInv, OwnInv, SlotInv, NoStatement
<1>1. ASSUME NEW j, NEW k,
             job' = [job EXCEPT ![w] = j],
             call' = [call EXCEPT ![w] = k],
             \/ j.trigger # "full"
             \/ j.at \in {"idle", "rejecting", "aborting"}
             \/ j.at = "enumerating" /\ db.catalog[Own(w)] = {}
             \/ j.at = "populating" /\ db.catalog[Own(w)] \subseteq j.todo
             \/ /\ j.at \in {"analyzing", "writing", "committing"}
                /\ \A p \in db.catalog[Own(w)] :
                     \/ Done(db, Own(w), p)
                     \/ j.at # "committing" /\ p \in j.todo
                     \/ j.at = "writing" /\ k.at \in Steps /\ p \in k.projs
      PROVE  Accounted(w)'
  <2>1. job'[w] = j /\ call'[w] = k
    BY <1>0, <1>1
  <2>2. j.at \in {"enumerating", "populating", "analyzing", "writing",
                  "committing"} => Own(w)' = Own(w)
    BY <1>a, <2>1 DEF Holds, InBody, BodySteps
  <2>3. QED
    BY <1>1, <1>a, <2>1, <2>2
    DEF Accounted, NotPopulated, Holds, InBody, BodySteps, Pending, Done
<1>2. ASSUME NEW result, End(w, result)
      PROVE  Accounted(w)'
  <2> DEFINE j == [NoJob EXCEPT !.snap = job[w].snap, !.result = result]
  <2>1. j.at = "idle"
    BY DEF NoJob
  <2>2. job' = [job EXCEPT ![w] = j] /\ call' = [call EXCEPT ![w] = NoCall]
    BY <1>2 DEF End
  <2> HIDE DEF j
  <2>3. QED
    BY <1>1, <2>1, <2>2
<1>3. ASSUME NEW result, AbortJob(w, result)
      PROVE  Accounted(w)'
  <2> DEFINE j == [job[w] EXCEPT !.at = "aborting", !.result = result]
             k == WriterCall("abort_snapshot", job[w].snap)
  <2>1. j.at = "aborting"
    BY <1>0 DEF Jobs
  <2>2. job' = [job EXCEPT ![w] = j] /\ call' = [call EXCEPT ![w] = k]
    BY <1>0, <1>3 DEF AbortJob
  <2> HIDE DEF j, k
  <2>3. QED
    BY <1>1, <2>1, <2>2
<1>4. CASE CheckScope(w) /\ ~ End(w, "not_in_scope")
  <2> DEFINE j == [job[w] EXCEPT !.at = "checking_scope",
                                 !.parent = call[w].snap]
             k == NewCall("is_in_scope", NoSnapshot, NoSnapshot,
                          job[w].target)
  <2>1. j.trigger # "full"
    BY <1>0, <1>4 DEF Jobs, CheckScope, WorkerContent, JobKind
  <2>2. job' = [job EXCEPT ![w] = j] /\ call' = [call EXCEPT ![w] = k]
    BY <1>4 DEF CheckScope
  <2> HIDE DEF j, k
  <2>3. QED
    BY <1>1, <2>1, <2>2
<1>5. CASE OpenSingleSnapshot(w) /\ ~ End(w, "not_in_scope")
  <2> DEFINE j == [job[w] EXCEPT !.at = "opening"]
             k == NewCall("begin_snapshot", NoSnapshot, job[w].parent, {})
  <2>1. j.trigger # "full"
    BY <1>0, <1>5 DEF Jobs, OpenSingleSnapshot, WorkerContent, JobKind
  <2>2. job' = [job EXCEPT ![w] = j] /\ call' = [call EXCEPT ![w] = k]
    BY <1>5 DEF OpenSingleSnapshot, CallFrom
  <2> HIDE DEF j, k
  <2>3. QED
    BY <1>1, <2>1, <2>2
<1>6. CASE TryStart(w)
  <2>1. CASE running = NoSnapshot
    <3> DEFINE j == [job[w] EXCEPT !.at = "enumerating", !.snap = call[w].snap]
    <3>1. j.at = "enumerating" /\ j.trigger = job[w].trigger
      BY <1>0 DEF Jobs
    <3>2. job' = [job EXCEPT ![w] = j] /\ call' = [call EXCEPT ![w] = NoCall]
      BY <1>6, <2>1 DEF TryStart
    <3>3. job[w].trigger = "full" => db.catalog[Own(w)] = {}
      BY <1>6 DEF TryStart, Returned, Accounted, NotPopulated, Holds
    <3> HIDE DEF j
    <3>4. QED
      BY <1>1, <3>1, <3>2, <3>3
  <2>2. CASE running # NoSnapshot
    <3> DEFINE j == [job[w] EXCEPT !.at = "rejecting", !.snap = call[w].snap]
               k == WriterCall("abort_snapshot", call[w].snap)
    <3>1. j.at = "rejecting"
      BY <1>0 DEF Jobs
    <3>2. job' = [job EXCEPT ![w] = j] /\ call' = [call EXCEPT ![w] = k]
      BY <1>6, <2>2 DEF TryStart
    <3> HIDE DEF j, k
    <3>3. QED
      BY <1>1, <3>1, <3>2
  <2>3. QED
    BY <2>1, <2>2
<1>7. ASSUME NEW found \in SUBSET Projects, NEW missing \in SUBSET found,
             EnumerateForFull(w, found, missing), job[w].at = "enumerating"
      PROVE  Accounted(w)'
  <2> DEFINE j == [job[w] EXCEPT !.at = "populating", !.todo = found,
                                 !.missing = missing]
             k == NewCall("populate_in_scope", job[w].snap, NoSnapshot, found)
  <2>1. j.at = "populating"
    BY <1>0 DEF Jobs
  <2>2. job' = [job EXCEPT ![w] = j] /\ call' = [call EXCEPT ![w] = k]
    BY <1>7 DEF EnumerateForFull
  <2>3. db.catalog[Own(w)] = {}
    BY <1>7
    DEF EnumerateForFull, Accounted, NotPopulated, Holds, InBody, BodySteps
  <2> HIDE DEF j, k
  <2>4. QED
    BY <1>1, <2>1, <2>2, <2>3
<1>8. ASSUME NEW found \in SUBSET Projects, NEW missing \in SUBSET found,
             EnumerateForSingle(w, found, missing)
      PROVE  Accounted(w)'
  <2> DEFINE j == [job[w] EXCEPT !.at = "analyzing", !.todo = job[w].target,
                                 !.missing = missing \cap job[w].target]
  <2>1. j.trigger # "full"
    BY <1>0, <1>8 DEF Jobs, EnumerateForSingle
  <2>2. /\ job' = [job EXCEPT ![w] = j]
        /\ call' = [call EXCEPT ![w] = call[w]]
    BY <1>0, <1>8 DEF EnumerateForSingle
  <2> HIDE DEF j
  <2>3. QED
    BY <1>1, <2>1, <2>2
<1>9. CASE CatalogPopulated(w) \/ ProjectWritten(w)
  <2> DEFINE j == [job[w] EXCEPT !.at = "analyzing"]
  <2>1. /\ j.at = "analyzing" /\ j.todo = job[w].todo
        /\ j.trigger = job[w].trigger
    BY <1>0 DEF Jobs
  <2>2. job' = [job EXCEPT ![w] = j] /\ call' = [call EXCEPT ![w] = NoCall]
    BY <1>9 DEF CatalogPopulated, ProjectWritten
  <2>3. job[w].trigger = "full" => \A p \in db.catalog[Own(w)] :
          Done(db, Own(w), p) \/ p \in job[w].todo
    BY <1>9, StepsNotEnded
    DEF CatalogPopulated, ProjectWritten, Returned, Accounted, Pending, Ended
  <2> HIDE DEF j
  <2>4. QED
    BY <1>1, <2>1, <2>2, <2>3
<1>10. ASSUME NEW p \in Projects, WriteProject(w, p)
       PROVE  Accounted(w)'
  <2> DEFINE o == IF p \in job[w].missing THEN "record_skip"
                                          ELSE "write_profile"
             j == [job[w] EXCEPT !.at = "writing", !.todo = @ \ {p}]
             k == NewCall(o, job[w].snap, NoSnapshot, {p})
  <2>1. /\ j.at = "writing" /\ j.todo = job[w].todo \ {p}
        /\ j.trigger = job[w].trigger
    BY <1>0 DEF Jobs
  <2>2. k.at \in Steps /\ k.projs = {p}
    BY DEF NewCall, FirstStep, Readers, Steps, AutoSteps
  <2>3. job' = [job EXCEPT ![w] = j] /\ call' = [call EXCEPT ![w] = k]
    BY <1>10 DEF WriteProject
  <2>4. job[w].trigger = "full" => \A q \in db.catalog[Own(w)] :
          Done(db, Own(w), q) \/ q \in job[w].todo \ {p} \/ q \in {p}
    BY <1>10 DEF WriteProject, Accounted, Pending
  <2> HIDE DEF j, k, o
  <2>5. QED
    BY <1>1, <2>1, <2>2, <2>3, <2>4
<1>11. CASE CommitJob(w)
  <2> DEFINE j == [job[w] EXCEPT !.at = "committing"]
             k == WriterCall("commit_snapshot", job[w].snap)
  <2>1. j.at = "committing" /\ j.trigger = job[w].trigger
    BY <1>0 DEF Jobs
  <2>2. job' = [job EXCEPT ![w] = j] /\ call' = [call EXCEPT ![w] = k]
    BY <1>11 DEF CommitJob, CallFrom
  <2>3. job[w].trigger = "full" =>
          \A p \in db.catalog[Own(w)] : Done(db, Own(w), p)
    BY <1>11 DEF CommitJob, Accounted, Pending
  <2> HIDE DEF j, k
  <2>4. QED
    BY <1>1, <2>1, <2>2, <2>3
<1>12. CASE \/ RejectStart(w) \/ StartRaises(w) \/ BodyRaises(w)
            \/ CompleteJob(w) \/ AbortEnds(w) \/ GitLabRequestFails(w)
  BY <1>2, <1>3, <1>12
  DEF RejectStart, StartRaises, BodyRaises, CompleteJob, AbortEnds, Uncaught,
      GitLabRequestFails
<1>13. CASE EnumerateProjects(w)
  BY <1>3, <1>7, <1>8, <1>13 DEF EnumerateProjects, TargetDisappeared
<1>14. QED
  BY <1>2, <1>4, <1>5, <1>6, <1>9, <1>10, <1>11, <1>12, <1>13 DEF JobStep

LEMMA NothingToAccountFor ==
  ASSUME NEW w \in Workers, ~Holds(w), ~Creating(w)
  PROVE  Accounted(w)
  BY DEF Accounted, NotPopulated, Holds, InBody, BodySteps

LEMMA NextAccounted ==
  ASSUME ~StoreFaults, IsFiniteSet(Workers), ContentInv, RoomInv,
         \A w \in Workers : Accounted(w), [CoordinatorNext]_vars
  PROVE  \A w \in Workers : Accounted(w)'
<1> USE DEF ContentInv, PublishedInv
<1> SUFFICES ASSUME NEW w \in Workers
             PROVE  Accounted(w)'
  OBVIOUS
<1>1. ASSUME NoStatement, job'[w] = job[w], call'[w] = call[w]
      PROVE  Accounted(w)'
  BY <1>1, AccountedFrame DEF NoStatement, SameContent
<1>2. ASSUME NEW c \in Clients, StatementStep(c)
      PROVE  Accounted(w)'
  <2>1. CASE w = c
    BY <1>2, <2>1, OwnAccounted
  <2>2. CASE w # c
    <3>1. job'[w] = job[w] /\ call'[w] = call[w]
      BY <1>2, <2>2, WorkersAreClients, StatementFacts
    <3>2. QED
      BY <1>2, <2>2, <3>1, ForeignContentStays, AccountedFrame
  <2>3. QED
    BY <2>1, <2>2
<1>3. ASSUME NEW v \in Workers, StartRefresh(v)
      PROVE  Accounted(w)'
  <2>1. CASE v = w
    <3>1. ~Holds(w)' /\ ~Creating(w)'
      BY <1>3, <2>1, StartHoldsNothing DEF OwnInv, SlotInv
    <3>2. QED
      BY <3>1 DEF Accounted, NotPopulated, Holds, InBody, BodySteps
  <2>2. CASE v # w
    BY <1>1, <1>3, <2>2, StartHoldsNothing, WorkersAreClients DEF OwnInv, SlotInv
  <2>3. QED
    BY <2>1, <2>2
<1>4. ASSUME NEW v \in Workers, JobStep(v)
      PROVE  Accounted(w)'
  <2>1. CASE v = w
    BY <1>4, <2>1, JobStepAccounted
  <2>2. CASE v # w
    BY <1>1, <1>4, <2>2, JobStepPassesRow, JobStepKnows, WorkersAreClients
    DEF OwnInv, SlotInv
  <2>3. QED
    BY <2>1, <2>2
<1>5. CASE Restart
  <2>1. job'[w].at = "idle"
    BY <1>5, NoJobTyped DEF Restart
  <2>2. QED
    BY <2>1 DEF Accounted, NotPopulated, Creating, Holds, InBody, BodySteps
<1>6. CASE UNCHANGED vars
  BY <1>1, <1>6 DEF vars, storeVars, coordinatorVars, NoStatement
<1>7. QED
  BY <1>2, <1>3, <1>4, <1>5, <1>6 DEF CoordinatorNext

(* What a COMMIT publishes is accounted for, and stays so.                   *)
LEMMA PublishedAccounted ==
  ASSUME AccountedInv, [CoordinatorNext]_vars
  PROVE  EveryProjectAccountedFor'
<1> USE DEF AccountedInv
<1>0. /\ disk \in Tables
      /\ \A s \in Ids : disk.status[s] = "completed" =>
           disk'.status[s] = "completed" /\ SameContent(disk', disk, s)
  BY WhatIsPublished
  DEF PublishedBy, ContentInv, PublishedInv, OwnInv, SlotInv, JobInv,
      PointerInv, TxnInv, Typed, TypeOK, Published
<1> SUFFICES ASSUME NEW s \in Ids, Published(s)', NEW p \in disk'.catalog[s]
             PROVE  \/ Done(disk', s, p)
                    \/ /\ disk'.parent[s] # NoSnapshot
                       /\ disk'.status[disk'.parent[s]] = "completed"
                       /\ p \in disk'.catalog[disk'.parent[s]]
                       /\ disk'.profile[disk'.parent[s]][p] = NoSnapshot
  BY DEF EveryProjectAccountedFor, Published, Done
<1>1. CASE Published(s)
  <2>1. SameContent(disk', disk, s)
    BY <1>0, <1>1 DEF Published
  <2>2. \/ Done(disk, s, p)
        \/ /\ disk.parent[s] # NoSnapshot
           /\ disk.status[disk.parent[s]] = "completed"
           /\ p \in disk.catalog[disk.parent[s]]
           /\ disk.profile[disk.parent[s]][p] = NoSnapshot
    BY <1>1, <2>1 DEF EveryProjectAccountedFor, Published, Done, SameContent
  <2>3. CASE Done(disk, s, p)
    BY <2>1, <2>3 DEF Done, SameContent
  <2>4. CASE ~Done(disk, s, p)
    <3> DEFINE b == disk.parent[s]
    <3>1. b \in Ids
      BY <1>0, <2>2, <2>4 DEF Tables, OptIds
    <3>2. disk'.status[b] = "completed" /\ SameContent(disk', disk, b)
      BY <1>0, <2>2, <2>4, <3>1
    <3>3. disk'.parent[s] = b
      BY <2>1 DEF SameContent
    <3>4. QED
      BY <2>2, <2>4, <3>2, <3>3 DEF SameContent
  <2>5. QED
    BY <2>3, <2>4
<1>2. CASE ~Published(s)
  <2>1. PICK w \in Workers : PublishedBy(w, s)
    BY <1>2, WhatIsPublished DEF PublishedBy
  <2>2. /\ disk' = db /\ Own(w) = s
        /\ job[w].at = "committing" /\ call[w].at = "commit"
        /\ RefreshRow(job[w].trigger, job[w].target, db, s, disk, NoSnapshot)
    BY <2>1 DEF PublishedBy, RowOf
  <2>3. CASE job[w].trigger = "full"
    BY <2>2, <2>3 DEF Accounted, Pending
  <2>4. CASE job[w].trigger # "full"
    <3> DEFINE b == db.parent[s]
    <3>1. /\ b \in Ids /\ b # NoSnapshot /\ s # NoSnapshot
          /\ disk.status[b] = "completed"
          /\ Copies(db, s, disk, b, job[w].target)
      BY <2>2, <2>4, BoundAssumption
      DEF RefreshRow, SingleRow, Ids, NoSnapshot
    <3>2. disk'.status[b] = "completed" /\ SameContent(disk', disk, b)
      BY <1>0, <3>1
    <3>3. p \in Projects /\ p \in disk.catalog[b]
      BY <1>0, <2>2, <3>1 DEF Copies, Tables
    <3>4. Done(db, s, p) \/ disk.profile[b][p] = NoSnapshot
      BY <3>1, <3>3 DEF Copies, Done
    <3>5. QED
      BY <2>2, <3>1, <3>2, <3>3, <3>4 DEF SameContent
  <2>5. QED
    BY <2>3, <2>4
<1>3. QED
  BY <1>1, <1>2

(* Every project a published snapshot lists is accounted for: as long as the *)
(* statements of the store succeed, no profile and no skip row that a        *)
(* refresh wrote is lost on the way to the readers, however the statements   *)
(* of several refreshes interleave on the shared connection and whatever     *)
(* fails elsewhere.  (A statement that does fail may take with it what       *)
(* another thread wrote inside the transaction that is rolled back.)         *)
THEOREM AccountedSafe ==
  ASSUME ~StoreFaults, IsFiniteSet(Workers)
  PROVE  CoordinatorSpec => []EveryProjectAccountedFor
<1>1. CoordinatorInit => AccountedInv
  <2> SUFFICES ASSUME CoordinatorInit
               PROVE  AccountedInv
    OBVIOUS
  <2>1. \A w \in Workers : ~Holds(w) /\ ~Creating(w)
    BY NoJobTyped DEF CoordinatorInit, Holds, InBody, BodySteps, Creating
  <2>2. EveryProjectAccountedFor
    BY DEF CoordinatorInit, Init, EmptyTables, EveryProjectAccountedFor,
       Published
  <2>3. QED
    BY <2>1, <2>2, NothingToAccountFor, InitContent, InitRoom DEF AccountedInv
<1>2. AccountedInv /\ [CoordinatorNext]_vars => AccountedInv'
  BY NextContent, NextRoom, NextAccounted, PublishedAccounted
  DEF AccountedInv, ContentInv, PublishedInv
<1>3. QED
  BY <1>1, <1>2, PTL DEF CoordinatorSpec, AccountedInv

-----------------------------------------------------------------------------
(* Refreshes one after another: the pointer that a refresh takes its parent  *)
(* from is still the one that it publishes over.                             *)

Alone == \A v, w \in Workers : v = w

InScope(w) ==
  disk.current \in Ids /\ job[w].target \subseteq disk.catalog[disk.current]

LonePointer(w) ==
  job[w].trigger = "single_project" =>
    /\ job[w].at = "reading_current" /\ call[w].at = "returned" =>
         call[w].snap = disk.current
    /\ job[w].at = "checking_scope" =>
         /\ job[w].parent = disk.current
         /\ call[w].at \in {"read_pointer", "select"} =>
              call[w].projs = job[w].target
         /\ call[w].at = "select" => call[w].snap = disk.current
         /\ call[w].at = "returned" /\ call[w].projs # {} => InScope(w)
    /\ job[w].at = "opening" /\ call[w].at \in Steps =>
         call[w].base = disk.current /\ InScope(w)
    /\ Holds(w) /\ ~Finished(w) =>
         db.parent[Own(w)] = disk.current /\ InScope(w)

LonePointers == \A w \in Workers : LonePointer(w)


LoneInv == Alone /\ ContentInv /\ LonePointers

(* The committed pointer moves at the worker's own COMMIT only.              *)
LEMMA PointerStays ==
  ASSUME Alone, ContentInv, [CoordinatorNext]_vars, NEW w \in Workers,
         ~(job[w].at = "committing" /\ call[w].at = "commit")
  PROVE  /\ disk'.current = disk.current
         /\ disk.current \in Ids =>
              disk'.catalog[disk.current] = disk.catalog[disk.current]
<1>1. disk'.current = disk.current
  BY WhatIsPublished DEF Alone, PublishedBy
<1>2. ASSUME disk.current \in Ids
      PROVE  disk'.catalog[disk.current] = disk.catalog[disk.current]
  <2>1. Published(disk.current)
    BY <1>2, BoundAssumption
    DEF ContentInv, CurrentCompleted, Published, Ids, NoSnapshot
  <2>2. QED
    BY <1>2, <2>1, WhatIsPublished DEF SameContent
<1>3. QED
  BY <1>1, <1>2

(* No uncommitted pointer is read.                                           *)
LEMMA LoneRead ==
  ASSUME Alone, ContentInv, NEW w \in Workers, job[w].at # "committing"
  PROVE  db.current = disk.current
<1> USE DEF ContentInv, PublishedInv, OwnInv, SlotInv, JobInv
<1> SUFFICES ASSUME NEW c \in Clients, Promoting(c)
             PROVE  FALSE
  BY DEF PointerInv, MovedPointerOwned
<1>1. call[c].at \in Steps /\ call[c].op = "commit_snapshot"
  BY DEF Promoting, Steps, TxnSteps
<1>2. c \in Workers
  BY <1>1, ExecutorOwns
<1>3. job[c].at = "committing"
  BY <1>1, <1>2 DEF RowInv, CallOfJob
<1>4. QED
  BY <1>2, <1>3 DEF Alone

(* A refresh's own statement: the parent and the scope are read from the     *)
(* committed pointer.                                                        *)
LEMMA LoneStatement ==
  ASSUME LoneInv, NEW w \in Workers, StatementStep(w)
  PROVE  LonePointer(w)'
<1> USE DEF PointerInv, TxnInv, Typed, TypeOK, Tables, LoneInv
<1>0. /\ w \in Clients /\ StoreStep(w) /\ OwnInv /\ PointerInv
      /\ call[w].at \in Steps /\ CallShape(call[w]) /\ CallOfJob(w)
      /\ job'[w] = job[w] /\ ~closed
      /\ WorkerContent(w)
      /\ WorkerInv(w)
      /\ call'[w].at \in Steps \cup {"returned", "raised"}
      /\ LonePointer(w)
      /\ [CoordinatorNext]_vars
  BY OwnStatementFacts, StatementFacts
  DEF LonePointers, OwnInv, SlotInv, JobInv, CoordinatorNext
<1>a. Raise(w) => call'[w].at = "raised"
  BY <1>0, OutcomeTyped DEF Raise
<1> SUFFICES ASSUME job[w].trigger = "single_project"
             PROVE  LonePointer(w)'
  BY <1>0 DEF LonePointer
<1>1. CASE job[w].at = "committing" /\ call[w].at = "commit"
  <2>1. Commit(w) \/ Raise(w)
    BY <1>0, <1>1
    DEF StoreStep, RequireInProgress, BeginTransaction, InsertSnapshot,
        InsertSnapshotFails, CopyProfiles, CopyCatalog, UpsertProfile,
        InsertSkip, UpsertCatalog, ForeignKeyFails, MarkFailed,
        FlipCompleted, FlipRefused, MovePointer, ReadPointer, SelectCatalog,
        SelectProfiles, StatementFails, ClosedRaises, At
  <2>2. call'[w].at \in Ended
    BY <1>0, <1>a, <2>1, OutcomeTyped DEF Commit, Return, Ended
  <2>3. QED
    BY <1>0, <1>1, <2>2 DEF LonePointer, Finished
<1>2. CASE ~(job[w].at = "committing" /\ call[w].at = "commit")
  <2>0. /\ disk'.current = disk.current
        /\ disk.current \in Ids =>
             disk'.catalog[disk.current] = disk.catalog[disk.current]
    BY <1>0, <1>2, PointerStays
  <2>a. InScope(w) => InScope(w)'
    BY <1>0, <2>0 DEF InScope
  <2>1. ASSUME job[w].at = "reading_current", call'[w].at = "returned"
        PROVE  call'[w].snap = disk.current
    <3>1. call[w].op = "get_current_snapshot_id"
      BY <1>0, <2>1 DEF CallOfJob
    <3>2. ReadPointer(w)
      BY <1>0, <1>a, <2>1
      DEF StoreStep, RequireInProgress, BeginTransaction, Commit,
          InsertSnapshot, InsertSnapshotFails, CopyProfiles, CopyCatalog,
          UpsertProfile, InsertSkip, UpsertCatalog, ForeignKeyFails,
          MarkFailed, FlipCompleted, FlipRefused, MovePointer, SelectCatalog,
          SelectProfiles, StatementFails, ClosedRaises, At, WorkerInv,
          ReadsPointer
    <3>3. call' = [call EXCEPT
                    ![w] = [NoCall EXCEPT !.at = "returned",
                                          !.snap = db.current]]
      BY <3>1, <3>2 DEF ReadPointer
    <3>4. call'[w].snap = db.current
      BY <1>0, <3>3 DEF NoCall
    <3>5. QED
      BY <2>1, <3>4, LoneRead
  <2>2. ASSUME job[w].at = "checking_scope"
        PROVE  /\ call'[w].at \in {"read_pointer", "select"} =>
                    call'[w].projs = job[w].target
               /\ call'[w].at = "select" => call'[w].snap = disk.current
               /\ call'[w].at = "returned" /\ call'[w].projs # {} =>
                    InScope(w)
    <3>1. call[w].op = "is_in_scope" /\ db.current = disk.current
      BY <1>0, <2>2, LoneRead DEF CallOfJob
    <3>2. ReadPointer(w) \/ SelectCatalog(w) \/ call'[w].at = "raised"
      BY <1>0, <1>a, <3>1
      DEF CallShape, StoreStep, RequireInProgress, BeginTransaction, Commit,
          InsertSnapshot, InsertSnapshotFails, CopyProfiles, CopyCatalog,
          UpsertProfile, InsertSkip, UpsertCatalog, ForeignKeyFails,
          MarkFailed, FlipCompleted, FlipRefused, MovePointer,
          SelectProfiles, StatementFails, ClosedRaises, At, Writers
    <3>3. CASE ReadPointer(w)
      <4>1. CASE db.current = NoSnapshot
        <5>1. call' = [call EXCEPT
                        ![w] = [NoCall EXCEPT !.at = "returned",
                                              !.snap = db.current]]
          BY <3>3, <4>1 DEF ReadPointer
        <5>2. call'[w].at = "returned" /\ call'[w].projs = {}
          BY <1>0, <5>1 DEF NoCall
        <5>3. QED
          BY <5>2
      <4>2. CASE db.current # NoSnapshot
        <5>1. call' = [call EXCEPT
                        ![w] = [call[w] EXCEPT !.at = "select",
                                               !.snap = db.current]]
          BY <3>1, <3>3, <4>2 DEF ReadPointer
        <5>2. /\ call'[w].at = "select" /\ call'[w].snap = db.current
              /\ call'[w].projs = call[w].projs
          BY <1>0, <5>1 DEF Calls
        <5>3. call[w].projs = job[w].target
          BY <1>0, <2>2, <3>3 DEF ReadPointer, At, LonePointer
        <5>4. QED
          BY <3>1, <5>2, <5>3
      <4>3. QED
        BY <4>1, <4>2
    <3>4. CASE SelectCatalog(w)
      <4>1. call' = [call EXCEPT ![w] =
              [NoCall EXCEPT
                 !.at = "returned",
                 !.projs = call[w].projs \cap db.catalog[call[w].snap]]]
        BY <3>4 DEF SelectCatalog
      <4>2. /\ call'[w].at = "returned"
            /\ call'[w].projs = call[w].projs \cap db.catalog[call[w].snap]
        BY <1>0, <4>1 DEF NoCall
      <4>3. /\ call[w].projs = job[w].target
            /\ call[w].snap = disk.current /\ disk.current \in Ids
        BY <1>0, <2>2, <3>4
        DEF SelectCatalog, At, LonePointer, CallShape
      <4>4. Published(disk.current)
        BY <4>3, BoundAssumption
        DEF ContentInv, CurrentCompleted, Published, Ids, NoSnapshot
      <4>5. db.catalog[disk.current] = disk.catalog[disk.current]
        BY <4>3, <4>4, PublishedContent DEF SameContent
      <4>6. PICK p \in Projects : job[w].target = {p}
        BY <1>0 DEF WorkerContent, JobKind
      <4>7. call'[w].projs # {} => InScope(w)
        BY <4>2, <4>3, <4>5, <4>6 DEF InScope
      <4>8. QED
        BY <4>2, <4>7
    <3>5. QED
      BY <3>2, <3>3, <3>4
  <2>3. ASSUME job[w].at = "opening", call'[w].at \in Steps
        PROVE  call'[w].base = disk.current /\ InScope(w)
    BY <1>0, <2>3, ArgumentsContinue DEF LonePointer
  <2>4. ASSUME Holds(w)', ~Finished(w)'
        PROVE  db'.parent[Own(w)'] = disk.current /\ InScope(w)
    <3>1. CASE Holds(w)
      <4>1. Own(w)' = Own(w) /\ ~Finished(w) /\ Own(w) \in Ids
        <5>1. call[w].at \notin Ended
          BY <1>0, StepsNotEnded
        <5>2. job[w].at # "opening"
          BY <3>1, <5>1 DEF Holds, InBody, BodySteps, Ended
        <5>3. QED
          BY <1>0, <3>1, <5>1, <5>2, OwnIsId DEF Own, Finished
      <4>2. db'.parent[Own(w)] = db.parent[Own(w)]
        <5>1. RowMoves(w)
          BY <1>0, <3>1, <4>1, OwnRowMoves
        <5>2. Exists(disk, Own(w))
          BY <1>0, <3>1 DEF OwnInv, RowInv, HoldsRow
        <5>3. disk.parent[Own(w)] = db.parent[Own(w)]
          BY <4>1, <5>2 DEF ContentInv, ParentsAgree
        <5>4. QED
          BY <5>1, <5>3 DEF RowMoves, RowGrows
      <4>3. QED
        BY <1>0, <3>1, <4>1, <4>2 DEF LonePointer
    <3>2. CASE ~Holds(w)
      <4>1. job[w].at = "opening"
        BY <1>0, <2>4, <3>2 DEF Holds, InBody
      <4>2. Commit(w)
        BY <2>4, <4>1, OpeningStatement
      <4>3. Creating(w)
        BY <4>1, <4>2 DEF Commit, At, Creating
      <4>4. Own(w)' = Own(w)
        BY <2>4, <4>1, CreatedRow DEF ContentInv, PublishedInv
      <4>5. db'.parent[Own(w)] = call[w].base
        BY <1>0, <4>2, <4>3 DEF Commit, WorkerContent, CreatedContent
      <4>6. QED
        BY <1>0, <4>1, <4>4, <4>5 DEF LonePointer
    <3>3. QED
      BY <3>1, <3>2
  <2>5. QED
    BY <1>0, <2>0, <2>a, <2>1, <2>2, <2>3, <2>4 DEF LonePointer
<1>3. QED
  BY <1>1, <1>2

LEMMA LoneJobStep ==
  ASSUME LoneInv, NEW w \in Workers, JobStep(w)
  PROVE  LonePointer(w)'
<1> USE DEF LoneInv
<1>0. /\ w \in Clients /\ job \in [Workers -> Jobs] /\ job[w] \in Jobs
      /\ call \in [Clients -> Calls] /\ call[w] \in Calls
      /\ WorkerContent(w)
      /\ LonePointer(w)
  BY WorkersAreClients
  DEF ContentInv, PublishedInv, OwnInv, SlotInv, JobInv, PointerInv, TxnInv,
      Typed, TypeOK, LonePointers
<1>a. /\ Holds(w)' => Holds(w) /\ ~Finished(w) /\ Own(w)' = Own(w)
      /\ db' = db /\ disk' = disk
  BY JobStepPassesRow DEF ContentInv, PublishedInv, OwnInv, SlotInv, NoStatement
<1>1. ASSUME NEW j, NEW k,
             job' = [job EXCEPT ![w] = j],
             call' = [call EXCEPT ![w] = k],
             \/ j.trigger = job[w].trigger /\ j.target = job[w].target
             \/ j.at = "idle" /\ j.trigger = "full",
             j.at # "reading_current",
             j.at = "checking_scope" =>
               /\ j.parent = disk.current
               /\ k.at = "read_pointer" /\ k.projs = job[w].target,
             j.at = "opening" => k.base = disk.current /\ InScope(w)
      PROVE  LonePointer(w)'
  <2>1. job'[w] = j /\ call'[w] = k
    BY <1>0, <1>1
  <2>2. j.at # "idle" /\ InScope(w) => InScope(w)'
    BY <1>1, <1>a, <2>1 DEF InScope
  <2>3. Holds(w)' => j.at # "idle"
    BY <2>1 DEF Holds, InBody, BodySteps
  <2>4. QED
    BY <1>0, <1>1, <1>a, <2>1, <2>2, <2>3 DEF LonePointer
<1>2. ASSUME NEW result, End(w, result)
      PROVE  LonePointer(w)'
  <2> DEFINE j == [NoJob EXCEPT !.snap = job[w].snap, !.result = result]
  <2>1. j.at = "idle" /\ j.trigger = "full"
    BY DEF NoJob
  <2>2. job' = [job EXCEPT ![w] = j] /\ call' = [call EXCEPT ![w] = NoCall]
    BY <1>2 DEF End
  <2> HIDE DEF j
  <2>3. QED
    BY <1>1, <2>1, <2>2
<1>3. ASSUME NEW result, AbortJob(w, result)
      PROVE  LonePointer(w)'
  <2> DEFINE j == [job[w] EXCEPT !.at = "aborting", !.result = result]
             k == WriterCall("abort_snapshot", job[w].snap)
  <2>1. /\ j.trigger = job[w].trigger /\ j.target = job[w].target
        /\ j.at = "aborting"
    BY <1>0 DEF Jobs
  <2>2. job' = [job EXCEPT ![w] = j] /\ call' = [call EXCEPT ![w] = k]
    BY <1>0, <1>3 DEF AbortJob
  <2> HIDE DEF j, k
  <2>3. QED
    BY <1>1, <2>1, <2>2
<1>4. CASE CheckScope(w) /\ ~ End(w, "not_in_scope")
  <2> DEFINE j == [job[w] EXCEPT !.at = "checking_scope",
                                 !.parent = call[w].snap]
             k == NewCall("is_in_scope", NoSnapshot, NoSnapshot,
                          job[w].target)
  <2>1. /\ j.trigger = job[w].trigger /\ j.target = job[w].target
        /\ j.at = "checking_scope" /\ j.parent = call[w].snap
    BY <1>0 DEF Jobs
  <2>2. k.at = "read_pointer" /\ k.projs = job[w].target
    BY DEF NewCall, FirstStep, Readers
  <2>3. job' = [job EXCEPT ![w] = j] /\ call' = [call EXCEPT ![w] = k]
    BY <1>4 DEF CheckScope
  <2>4. call[w].snap = disk.current
    BY <1>0, <1>4
    DEF CheckScope, Returned, WorkerContent, JobKind, LonePointer
  <2> HIDE DEF j, k
  <2>5. QED
    BY <1>1, <2>1, <2>2, <2>3, <2>4
<1>5. CASE OpenSingleSnapshot(w) /\ ~ End(w, "not_in_scope")
  <2> DEFINE j == [job[w] EXCEPT !.at = "opening"]
             k == NewCall("begin_snapshot", NoSnapshot, job[w].parent, {})
  <2>1. /\ j.trigger = job[w].trigger /\ j.target = job[w].target
        /\ j.at = "opening"
    BY <1>0 DEF Jobs
  <2>2. k.base = job[w].parent
    BY DEF NewCall
  <2>3. job' = [job EXCEPT ![w] = j] /\ call' = [call EXCEPT ![w] = k]
    BY <1>5 DEF OpenSingleSnapshot, CallFrom
  <2>4. job[w].parent = disk.current /\ InScope(w)
    BY <1>0, <1>5
    DEF OpenSingleSnapshot, Returned, WorkerContent, JobKind, LonePointer
  <2> HIDE DEF j, k
  <2>5. QED
    BY <1>1, <2>1, <2>2, <2>3, <2>4
<1>6. CASE TryStart(w)
  <2>1. CASE running = NoSnapshot
    <3> DEFINE j == [job[w] EXCEPT !.at = "enumerating", !.snap = call[w].snap]
    <3>1. /\ j.trigger = job[w].trigger /\ j.target = job[w].target
          /\ j.at = "enumerating"
      BY <1>0 DEF Jobs
    <3>2. job' = [job EXCEPT ![w] = j] /\ call' = [call EXCEPT ![w] = NoCall]
      BY <1>6, <2>1 DEF TryStart
    <3> HIDE DEF j
    <3>3. QED
      BY <1>1, <3>1, <3>2
  <2>2. CASE running # NoSnapshot
    <3> DEFINE j == [job[w] EXCEPT !.at = "rejecting", !.snap = call[w].snap]
               k == WriterCall("abort_snapshot", call[w].snap)
    <3>1. /\ j.trigger = job[w].trigger /\ j.target = job[w].target
          /\ j.at = "rejecting"
      BY <1>0 DEF Jobs
    <3>2. job' = [job EXCEPT ![w] = j] /\ call' = [call EXCEPT ![w] = k]
      BY <1>6, <2>2 DEF TryStart
    <3> HIDE DEF j, k
    <3>3. QED
      BY <1>1, <3>1, <3>2
  <2>3. QED
    BY <2>1, <2>2
<1>7. ASSUME NEW found \in SUBSET Projects, NEW missing \in SUBSET found,
             EnumerateForFull(w, found, missing)
      PROVE  LonePointer(w)'
  <2> DEFINE j == [job[w] EXCEPT !.at = "populating", !.todo = found,
                                 !.missing = missing]
             k == NewCall("populate_in_scope", job[w].snap, NoSnapshot, found)
  <2>1. /\ j.trigger = job[w].trigger /\ j.target = job[w].target
        /\ j.at = "populating"
    BY <1>0 DEF Jobs
  <2>2. job' = [job EXCEPT ![w] = j] /\ call' = [call EXCEPT ![w] = k]
    BY <1>7 DEF EnumerateForFull
  <2> HIDE DEF j, k
  <2>3. QED
    BY <1>1, <2>1, <2>2
<1>8. ASSUME NEW found \in SUBSET Projects, NEW missing \in SUBSET found,
             EnumerateForSingle(w, found, missing)
      PROVE  LonePointer(w)'
  <2> DEFINE j == [job[w] EXCEPT !.at = "analyzing", !.todo = job[w].target,
                                 !.missing = missing \cap job[w].target]
  <2>1. /\ j.trigger = job[w].trigger /\ j.target = job[w].target
        /\ j.at = "analyzing"
    BY <1>0 DEF Jobs
  <2>2. /\ job' = [job EXCEPT ![w] = j]
        /\ call' = [call EXCEPT ![w] = call[w]]
    BY <1>0, <1>8 DEF EnumerateForSingle
  <2> HIDE DEF j
  <2>3. QED
    BY <1>1, <2>1, <2>2
<1>9. CASE CatalogPopulated(w) \/ ProjectWritten(w)
  <2> DEFINE j == [job[w] EXCEPT !.at = "analyzing"]
  <2>1. /\ j.trigger = job[w].trigger /\ j.target = job[w].target
        /\ j.at = "analyzing"
    BY <1>0 DEF Jobs
  <2>2. job' = [job EXCEPT ![w] = j] /\ call' = [call EXCEPT ![w] = NoCall]
    BY <1>9 DEF CatalogPopulated, ProjectWritten
  <2> HIDE DEF j
  <2>3. QED
    BY <1>1, <2>1, <2>2
<1>10. ASSUME NEW p \in Projects, WriteProject(w, p)
       PROVE  LonePointer(w)'
  <2> DEFINE o == IF p \in job[w].missing THEN "record_skip"
                                          ELSE "write_profile"
             j == [job[w] EXCEPT !.at = "writing", !.todo = @ \ {p}]
             k == NewCall(o, job[w].snap, NoSnapshot, {p})
  <2>1. /\ j.trigger = job[w].trigger /\ j.target = job[w].target
        /\ j.at = "writing"
    BY <1>0 DEF Jobs
  <2>2. job' = [job EXCEPT ![w] = j] /\ call' = [call EXCEPT ![w] = k]
    BY <1>10 DEF WriteProject
  <2> HIDE DEF j, k, o
  <2>3. QED
    BY <1>1, <2>1, <2>2
<1>11. CASE CommitJob(w)
  <2> DEFINE j == [job[w] EXCEPT !.at = "committing"]
             k == WriterCall("commit_snapshot", job[w].snap)
  <2>1. /\ j.trigger = job[w].trigger /\ j.target = job[w].target
        /\ j.at = "committing"
    BY <1>0 DEF Jobs
  <2>2. job' = [job EXCEPT ![w] = j] /\ call' = [call EXCEPT ![w] = k]
    BY <1>11 DEF CommitJob, CallFrom
  <2> HIDE DEF j, k
  <2>3. QED
    BY <1>1, <2>1, <2>2
<1>12. CASE \/ RejectStart(w) \/ StartRaises(w) \/ BodyRaises(w)
            \/ CompleteJob(w) \/ AbortEnds(w) \/ GitLabRequestFails(w)
  BY <1>2, <1>3, <1>12
  DEF RejectStart, StartRaises, BodyRaises, CompleteJob, AbortEnds, Uncaught,
      GitLabRequestFails
<1>13. CASE EnumerateProjects(w)
  BY <1>3, <1>7, <1>8, <1>13 DEF EnumerateProjects, TargetDisappeared
<1>14. QED
  BY <1>2, <1>4, <1>5, <1>6, <1>9, <1>10, <1>11, <1>12, <1>13 DEF JobStep

LEMMA NextLone ==
  ASSUME LoneInv, [CoordinatorNext]_vars
  PROVE  LoneInv'
<1> USE DEF LoneInv
<1> SUFFICES ASSUME NEW w \in Workers
             PROVE  LonePointer(w)'
  BY NextContent DEF Alone, LonePointers
<1>0. OwnInv /\ LonePointer(w) /\ w \in Clients
  BY WorkersAreClients DEF ContentInv, PublishedInv, LonePointers
<1>1. ASSUME NEW c \in Clients, StatementStep(c)
      PROVE  LonePointer(w)'
  <2>1. c = w
    BY <1>0, <1>1, StatementFacts DEF Alone
  <2>2. QED
    BY <1>1, <2>1, LoneStatement
<1>2. ASSUME NEW v \in Workers, StartRefresh(v)
      PROVE  LonePointer(w)'
  <2>1. v = w
    BY DEF Alone
  <2>2. ~Holds(w)'
    BY <1>0, <1>2, <2>1, StartHoldsNothing DEF ContentInv, PublishedInv, OwnInv, SlotInv
  <2>3. \/ job'[w].trigger = "full"
        \/ job'[w].at = "reading_current" /\ call'[w].at = "read_pointer"
    <3>1. job \in [Workers -> Jobs] /\ call \in [Clients -> Calls]
      BY <1>0
      DEF OwnInv, SlotInv, JobInv, PointerInv, TxnInv, Typed, TypeOK
    <3>2. CASE StartFullRefresh(w)
      BY <3>1, <3>2 DEF StartFullRefresh, NoJob
    <3>3. ASSUME NEW p \in Projects, StartSingleProjectRefresh(w, p)
          PROVE  job'[w].at = "reading_current" /\ call'[w].at = "read_pointer"
      BY <1>0, <3>1, <3>3
      DEF StartSingleProjectRefresh, NoJob, NewCall, FirstStep, Readers
    <3>4. QED
      BY <1>2, <2>1, <3>2, <3>3 DEF StartRefresh
  <2>4. QED
    BY <2>2, <2>3 DEF LonePointer
<1>3. ASSUME NEW v \in Workers, JobStep(v)
      PROVE  LonePointer(w)'
  <2>1. v = w
    BY DEF Alone
  <2>2. QED
    BY <1>3, <2>1, LoneJobStep
<1>4. CASE Restart
  <2>1. job'[w] = NoJob
    BY <1>4 DEF Restart
  <2>2. QED
    BY <2>1 DEF LonePointer, NoJob
<1>5. CASE UNCHANGED vars
  BY <1>0, <1>5
  DEF vars, storeVars, coordinatorVars, LonePointer, InScope, Holds, Finished,
      Own, InBody
<1>6. QED
  BY <1>1, <1>2, <1>3, <1>4, <1>5 DEF CoordinatorNext

LEMMA InitLone ==
  ASSUME Alone, CoordinatorInit
  PROVE  LoneInv
<1>1. LonePointers
  BY DEF CoordinatorInit, NoJob, LonePointers, LonePointer
<1>2. QED
  BY <1>1, InitContent DEF LoneInv

(* What a lone single-project refresh publishes is the published snapshot    *)
(* that it replaces, but for its target, a project of that snapshot.         *)
LEMMA LonePublishes ==
  ASSUME LoneInv, NEW w \in Workers, NEW n \in Ids, PublishedBy(w, n),
         job[w].trigger = "single_project"
  PROVE  /\ disk.current \in Ids /\ Published(disk.current)
         /\ Copies(disk', n, disk, disk.current, job[w].target)
         /\ job[w].target \subseteq disk.catalog[disk.current]
<1>1. Holds(w) /\ ~Finished(w) /\ Own(w) = n /\ disk' = db
  BY DEF PublishedBy, Finished, Ended
<1>2. db.parent[n] = disk.current /\ InScope(w)
  BY <1>1 DEF LoneInv, LonePointers, LonePointer
<1>3. RefreshRow(job[w].trigger, job[w].target, db, n, disk, NoSnapshot)
  BY DEF PublishedBy, RowOf
<1>4. QED
  BY <1>1, <1>2, <1>3, BoundAssumption
  DEF RefreshRow, SingleRow, InScope, Published, Ids, NoSnapshot

(* Refreshes that do not overlap publish only profiles of projects that the  *)
(* snapshot's catalog lists, whatever fails: a single-project refresh copies *)
(* the snapshot in which is_in_scope found its target.                       *)
THEOREM LoneScopeSafe ==
  ASSUME Alone
  PROVE  CoordinatorSpec => []ProfilesInScope
<1> DEFINE I == LoneInv /\ ProfilesInScope
<1>1. CoordinatorInit => I
  <2>1. CoordinatorInit => LoneInv
    BY InitLone
  <2>2. CoordinatorInit => ProfilesInScope
    BY DEF CoordinatorInit, Init, EmptyTables, ProfilesInScope, Published
  <2>3. QED
    BY <2>1, <2>2
<1>2. I /\ [CoordinatorNext]_vars => I'
  <2> SUFFICES ASSUME I, [CoordinatorNext]_vars
               PROVE  ProfilesInScope'
    BY NextLone
  <2> SUFFICES ASSUME NEW s \in Ids, Published(s)', NEW p \in Projects,
                      disk'.profile[s][p] # NoSnapshot
               PROVE  p \in disk'.catalog[s]
    BY DEF ProfilesInScope
  <2>1. CASE Published(s)
    <3>1. SameContent(disk', disk, s)
      BY <2>1, WhatIsPublished DEF LoneInv
    <3>2. QED
      BY <2>1, <3>1 DEF SameContent, ProfilesInScope
  <2>2. CASE ~Published(s)
    <3>1. PICK w \in Workers : PublishedBy(w, s)
      BY <2>2, WhatIsPublished DEF LoneInv, PublishedBy
    <3>2. CASE job[w].trigger = "full"
      <4>1. FullRow(disk', s)
        BY <3>1, <3>2 DEF PublishedBy, RowOf, RefreshRow
      <4>2. QED
        BY <4>1 DEF FullRow
    <3>3. CASE job[w].trigger = "single_project"
      <4>1. /\ disk.current \in Ids /\ Published(disk.current)
            /\ Copies(disk', s, disk, disk.current, job[w].target)
            /\ job[w].target \subseteq disk.catalog[disk.current]
        BY <3>1, <3>3, LonePublishes
      <4>2. QED
        BY <4>1 DEF Copies, ProfilesInScope
    <3>4. job[w].trigger \in {"full", "single_project"}
      BY DEF LoneInv, ContentInv, PublishedInv, OwnInv, SlotInv, JobInv,
         Jobs, Triggers
    <3>5. QED
      BY <3>2, <3>3, <3>4
  <2>3. QED
    BY <2>1, <2>2
<1>3. I => ProfilesInScope
  OBVIOUS
<1>4. QED
  BY <1>1, <1>2, <1>3, PTL DEF CoordinatorSpec

(* A single-project refresh that overlaps no other replaces one profile of   *)
(* what readers see.                                                         *)
THEOREM LoneRefreshIncremental ==
  ASSUME Alone
  PROVE  CoordinatorSpec => SingleRefreshIsIncremental
<1> DEFINE A == \A w \in Workers :
                  /\ disk'.current # disk.current
                  /\ disk'.current = job[w].snap
                  /\ job[w].at = "committing"
                  /\ job[w].trigger = "single_project"
                  => \A p \in Projects \ job[w].target :
                       disk'.profile[disk'.current][p]
                         = disk.profile[disk.current][p]
<1>1. LoneInv /\ [CoordinatorNext]_vars => [A]_vars
  <2> SUFFICES ASSUME LoneInv, [CoordinatorNext]_vars,
                      NEW w \in Workers,
                      disk'.current # disk.current,
                      job[w].trigger = "single_project",
                      NEW p \in Projects \ job[w].target
               PROVE  disk'.profile[disk'.current][p]
                        = disk.profile[disk.current][p]
    OBVIOUS
  <2>1. PICK v \in Workers, n \in Ids : PublishedBy(v, n)
    BY WhatIsPublished DEF LoneInv
  <2>2. v = w /\ disk'.current = n
    BY <2>1 DEF LoneInv, Alone, PublishedBy
  <2>3. Copies(disk', n, disk, disk.current, job[w].target)
    BY <2>1, <2>2, LonePublishes
  <2>4. QED
    BY <2>2, <2>3 DEF Copies
<1>2. CoordinatorInit => LoneInv
  BY InitLone
<1>3. LoneInv /\ [CoordinatorNext]_vars => LoneInv'
  BY NextLone
<1>4. QED
  BY <1>1, <1>2, <1>3, PTL DEF CoordinatorSpec, SingleRefreshIsIncremental

-----------------------------------------------------------------------------
(* A refresh that overlaps no other and meets only the failures that the     *)
(* jobs handle ends its snapshot.                                            *)

EndsRow(w) ==
  /\ InBody(w) => call[w].at # "raised"
  /\ ~InBody(w) => running = NoSnapshot
  /\ job[w].at # "rejecting"
  /\ Settled(w) => disk.status[Own(w)] # "in_progress"

EndInv == OutcomeInv /\ RoomInv /\ \A w \in Workers : EndsRow(w)

LEMMA AloneFinite ==
  ASSUME Alone
  PROVE  IsFiniteSet(Workers)
<1>1. CASE Workers = {}
  BY <1>1, FS_EmptySet
<1>2. ASSUME NEW w \in Workers
      PROVE  IsFiniteSet(Workers)
  <2>1. Workers = {w}
    BY DEF Alone
  <2>2. QED
    BY <2>1, FS_Singleton
<1>3. QED
  BY <1>1, <1>2

(* Nobody else has a transaction open.                                       *)
LEMMA AloneInTransaction ==
  ASSUME Alone, OwnInv, NEW w \in Workers, inTxn
  PROVE  call[w].at \in TxnSteps
<1>1. PICK c \in Clients : call[c].at \in TxnSteps
  BY DEF OwnInv, SlotInv, JobInv, PointerInv, TxnInv, TransactionOwned
<1>2. c \in Workers
  BY <1>1, ExecutorOwns DEF Steps
<1>3. QED
  BY <1>1, <1>2 DEF Alone

(* No statement on the refresh's own snapshot raises.                        *)
LEMMA AloneNeverRaises ==
  ASSUME Alone, ~StoreFaults, OwnInv, RoomInv, NEW w \in Workers,
         StatementStep(w), call[w].op \in Writers
  PROVE  call'[w].at # "raised"
<1> USE DEF PointerInv, TxnInv, Typed, TypeOK, Tables
<1>0. /\ w \in Clients /\ StoreStep(w) /\ PointerInv /\ ~closed
      /\ CallShape(call[w]) /\ call[w].at \in Steps
      /\ call \in [Clients -> Calls]
  BY StatementFacts, WorkersAreClients
<1>1. CASE call[w].at \in TxnSteps
  BY <1>0, <1>1, AloneFinite, NoTransactionUndone
<1>2. CASE call[w].at \notin TxnSteps
  <2>1. /\ call[w].snap \in Ids
        /\ db.status[call[w].snap] = "in_progress"
    <3>1. Holds(w) /\ ~Finished(w) /\ Own(w) = call[w].snap
      BY <1>0, ExecutorOwns
    <3>2. ~Promoting(w)
      BY <1>2 DEF Promoting, TxnSteps
    <3>3. QED
      BY <1>0, <3>1, <3>2, OwnIsId DEF OwnInv, RowInv, OpenRow
  <2>2. ~inTxn
    BY <1>2, AloneInTransaction
  <2>3. CASE RequireInProgress(w)
    <3>1. Goto(w, AfterCheck(call[w].op))
      BY <2>1, <2>3 DEF RequireInProgress
    <3>2. QED
      BY <1>0, <3>1 DEF Goto, AfterCheck, Calls
  <2>4. CASE BeginTransaction(w)
    <3>1. Goto(w, AfterBegin(call[w].op))
      BY <2>2, <2>4 DEF BeginTransaction
    <3>2. QED
      BY <1>0, <3>1 DEF Goto, AfterBegin, Calls
  <2>5. CASE UpsertProfile(w) \/ InsertSkip(w) \/ MarkFailed(w)
    BY <1>0, <2>5, OutcomeTyped
    DEF UpsertProfile, InsertSkip, MarkFailed, Return
  <2>6. QED
    BY <1>0, <1>2, <2>1, <2>3, <2>4, <2>5
    DEF StoreStep, Commit, InsertSnapshot, InsertSnapshotFails, CopyProfiles,
        CopyCatalog, UpsertCatalog, ForeignKeyFails, SnapshotExists,
        FlipCompleted, FlipRefused, MovePointer, ReadPointer, SelectCatalog,
        SelectProfiles, StatementFails, ClosedRaises, At, TxnSteps,
        CallShape, Readers, Writers
<1>3. QED
  BY <1>1, <1>2

LEMMA StatementEndsRow ==
  ASSUME Alone, ~StoreFaults, EndInv, OutcomeInv', NEW w \in Workers,
         StatementStep(w)
  PROVE  EndsRow(w)'
<1> USE DEF EndInv, OutcomeInv, PointerInv, TxnInv, Typed, TypeOK, Tables
<1>0. /\ w \in Clients /\ StoreStep(w) /\ OwnInv /\ PointerInv /\ ~closed
      /\ call[w].at \in Steps /\ CallShape(call[w]) /\ CallOfJob(w)
      /\ job' = job /\ running' = running
      /\ call'[w].at \in Steps \cup {"returned", "raised"}
      /\ EndsRow(w)
      /\ WorkerInv(w)
  BY StatementFacts, WorkersAreClients DEF OwnInv, RowInv, SlotInv, JobInv
<1>1. job[w].at # "idle" /\ call[w].at \notin Ended
  BY <1>0, StepsNotEnded DEF WorkerInv, BetweenCalls
<1>2. InBody(w) => call[w].op \in Writers
  BY <1>0, <1>1 DEF CallOfJob, InBody, BodySteps, Writers
<1>3. InBody(w) => call'[w].at # "raised"
  BY <1>0, <1>2, AloneNeverRaises
<1>4. ASSUME Settled(w)'
      PROVE  disk'.status[Own(w)'] # "in_progress"
  <2>1. /\ job[w].at \in {"committing", "aborting"}
        /\ call'[w].at = "returned"
    BY <1>0, <1>1, <1>3, <1>4, StepsNotEnded
    DEF Settled, Finished, EndsRow, InBody, BodySteps
  <2>2. CASE job[w].at = "committing"
    <3>1. Succeeded(w)'
      BY <1>0, <2>1, <2>2 DEF Succeeded
    <3>2. SettledRow(w)'
      OBVIOUS
    <3>3. QED
      BY <1>4, <3>1, <3>2 DEF SettledRow, StatusesOf
  <2>3. CASE job[w].at = "aborting"
    <3>1. call[w].op = "abort_snapshot" /\ call[w].snap = Own(w)
            /\ Own(w)' = Own(w)
      BY <1>0, <2>3 DEF CallOfJob, Own
    <3>2. MarkFailed(w)
      <4>1. Raise(w) => call'[w].at = "raised"
        BY <1>0, OutcomeTyped DEF Raise
      <4>2. RequireInProgress(w) => call'[w].at \in {"mark_failed", "raised"}
        BY <1>0, <3>1, <4>1 DEF RequireInProgress, Goto, AfterCheck, Calls
      <4>3. QED
        BY <1>0, <2>1, <3>1, <4>1, <4>2
        DEF CallShape, StoreStep, BeginTransaction, Commit, InsertSnapshot,
            InsertSnapshotFails, CopyProfiles, CopyCatalog, UpsertProfile,
            InsertSkip, UpsertCatalog, ForeignKeyFails, FlipCompleted,
            FlipRefused, MovePointer, ReadPointer, SelectCatalog,
            SelectProfiles, StatementFails, ClosedRaises, At, Readers
    <3>3. call[w].at = "mark_failed" /\ call[w].snap \in Ids
      BY <1>0, <3>2 DEF MarkFailed, At, CallShape
    <3>4. ~inTxn
      BY <1>0, <3>3, AloneInTransaction DEF TxnSteps
    <3>5. /\ disk' = db'
          /\ db' = [db EXCEPT !.status[call[w].snap] =
                                IF @ = "absent" THEN @ ELSE "failed"]
      BY <3>2, <3>4 DEF MarkFailed, Execute
    <3>6. QED
      BY <1>0, <3>1, <3>3, <3>5
  <2>4. QED
    BY <2>1, <2>2, <2>3
<1>5. QED
  BY <1>0, <1>3, <1>4 DEF EndsRow, InBody

LEMMA JobStepEndsRow ==
  ASSUME Alone, "other" \notin GitLabFaults, EndInv, NEW w \in Workers,
         JobStep(w)
  PROVE  EndsRow(w)'
<1> USE DEF EndInv, OutcomeInv
<1>0. /\ w \in Clients /\ job \in [Workers -> Jobs] /\ job[w] \in Jobs
      /\ call \in [Clients -> Calls] /\ call[w] \in Calls
      /\ EndsRow(w) /\ ReportsLater(w)
      /\ disk' = disk
      /\ InBody(w) => running = job[w].snap
  BY WorkersAreClients, JobStepPassesRow
  DEF OwnInv, SlotInv, SingleFlight, JobInv, PointerInv, TxnInv, Typed,
      TypeOK, NoStatement
(* The job goes on, in its body.                                             *)
<1>1. ASSUME NEW j, NEW k,
             job' = [job EXCEPT ![w] = j],
             call' = [call EXCEPT ![w] = k],
             j.at \in BodySteps, k.at \in {"idle", "check", "returned"},
             j.at \in {"committing", "aborting"} => k.at = "check"
      PROVE  EndsRow(w)'
  <2>1. job'[w] = j /\ call'[w] = k
    BY <1>0, <1>1
  <2>2. InBody(w)' /\ ~Settled(w)'
    BY <1>1, <2>1
    DEF InBody, BodySteps, Settled, Finished, Ended
  <2>3. QED
    BY <1>1, <2>1, <2>2 DEF EndsRow, InBody, BodySteps
(* Before it.                                                                *)
<1>2. ASSUME NEW j, NEW k,
             job' = [job EXCEPT ![w] = j],
             call' = [call EXCEPT ![w] = k],
             running' = running, ~InBody(w),
             j.at \in {"checking_scope", "opening"}, k.at # "returned"
      PROVE  EndsRow(w)'
  <2>1. job'[w] = j /\ call'[w] = k
    BY <1>0, <1>2
  <2>2. ~InBody(w)' /\ ~Settled(w)'
    BY <1>2, <2>1
    DEF InBody, BodySteps, Settled, Holds, Finished, Ended
  <2>3. QED
    BY <1>0, <1>2, <2>1, <2>2 DEF EndsRow
(* It ends.                                                                  *)
<1>3. ASSUME NEW r, End(w, r),
             \/ running' = running /\ ~InBody(w)
             \/ Release(w) /\ InBody(w),
             job[w].snap # NoSnapshot => disk.status[job[w].snap] # "in_progress"
      PROVE  EndsRow(w)'
  <2>1. job'[w].at = "idle" /\ job'[w].snap = job[w].snap
    BY <1>0, <1>3 DEF End, NoJob
  <2>2. running' = NoSnapshot
    BY <1>0, <1>3 DEF EndsRow, Release
  <2>3. ~InBody(w)'
    BY <2>1 DEF InBody, BodySteps
  <2>4. Settled(w)' => disk'.status[Own(w)'] # "in_progress"
    BY <1>0, <1>3, <2>1, <2>3 DEF Settled, Holds, Own
  <2>5. QED
    BY <2>1, <2>2, <2>3, <2>4 DEF EndsRow
<1>4. ASSUME NEW result, AbortJob(w, result)
      PROVE  EndsRow(w)'
  <2> DEFINE j == [job[w] EXCEPT !.at = "aborting", !.result = result]
             k == WriterCall("abort_snapshot", job[w].snap)
  <2>1. j.at = "aborting" /\ j.at \in BodySteps
    BY <1>0 DEF Jobs, BodySteps
  <2>2. k.at = "check"
    BY WriterCallChecks DEF WriterCall, Writers
  <2>3. job' = [job EXCEPT ![w] = j] /\ call' = [call EXCEPT ![w] = k]
    BY <1>0, <1>4 DEF AbortJob
  <2> HIDE DEF j, k
  <2>4. QED
    BY <1>1, <2>1, <2>2, <2>3
<1>5. CASE CheckScope(w)
  <2>1. CASE End(w, "not_in_scope")
    <3>1. ~InBody(w) /\ job[w].snap = NoSnapshot /\ running' = running
      BY <1>0, <1>5 DEF CheckScope, ReportsLater, InBody, BodySteps
    <3>2. QED
      BY <1>3, <2>1, <3>1
  <2>2. CASE ~End(w, "not_in_scope")
    <3> DEFINE j == [job[w] EXCEPT !.at = "checking_scope",
                                   !.parent = call[w].snap]
               k == NewCall("is_in_scope", NoSnapshot, NoSnapshot,
                            job[w].target)
    <3>1. j.at = "checking_scope"
      BY <1>0 DEF Jobs
    <3>2. k.at # "returned"
      BY DEF NewCall, FirstStep, Readers
    <3>3. /\ job' = [job EXCEPT ![w] = j] /\ call' = [call EXCEPT ![w] = k]
          /\ running' = running /\ ~InBody(w)
      BY <1>5, <2>2 DEF CheckScope, InBody, BodySteps
    <3> HIDE DEF j, k
    <3>4. QED
      BY <1>2, <3>1, <3>2, <3>3
  <2>3. QED
    BY <2>1, <2>2
<1>6. CASE OpenSingleSnapshot(w)
  <2>1. CASE End(w, "not_in_scope")
    <3>1. ~InBody(w) /\ job[w].snap = NoSnapshot /\ running' = running
      BY <1>0, <1>6 DEF OpenSingleSnapshot, ReportsLater, InBody, BodySteps
    <3>2. QED
      BY <1>3, <2>1, <3>1
  <2>2. CASE ~End(w, "not_in_scope")
    <3> DEFINE j == [job[w] EXCEPT !.at = "opening"]
               k == NewCall("begin_snapshot", NoSnapshot, job[w].parent, {})
    <3>1. j.at = "opening"
      BY <1>0 DEF Jobs
    <3>2. k.at # "returned"
      BY DEF NewCall, FirstStep, Readers
    <3>3. /\ job' = [job EXCEPT ![w] = j] /\ call' = [call EXCEPT ![w] = k]
          /\ running' = running /\ ~InBody(w)
      BY <1>6, <2>2 DEF OpenSingleSnapshot, CallFrom, InBody, BodySteps
    <3> HIDE DEF j, k
    <3>4. QED
      BY <1>2, <3>1, <3>2, <3>3
  <2>3. QED
    BY <2>1, <2>2
<1>7. CASE TryStart(w)
  <2> DEFINE j == [job[w] EXCEPT !.at = "enumerating", !.snap = call[w].snap]
  <2>1. running = NoSnapshot
    BY <1>0, <1>7 DEF TryStart, EndsRow, InBody, BodySteps
  <2>2. j.at = "enumerating" /\ j.at \in BodySteps
    BY <1>0 DEF Jobs, BodySteps
  <2>3. job' = [job EXCEPT ![w] = j] /\ call' = [call EXCEPT ![w] = NoCall]
    BY <1>7, <2>1 DEF TryStart
  <2>4. NoCall.at = "idle"
    BY DEF NoCall
  <2> HIDE DEF j
  <2>5. QED
    BY <1>1, <2>2, <2>3, <2>4
<1>8. ASSUME NEW found \in SUBSET Projects, NEW missing \in SUBSET found,
             EnumerateForFull(w, found, missing)
      PROVE  EndsRow(w)'
  <2> DEFINE j == [job[w] EXCEPT !.at = "populating", !.todo = found,
                                 !.missing = missing]
             k == NewCall("populate_in_scope", job[w].snap, NoSnapshot, found)
  <2>1. j.at = "populating" /\ j.at \in BodySteps
    BY <1>0 DEF Jobs, BodySteps
  <2>2. k.at = "check"
    BY DEF NewCall, FirstStep, Readers
  <2>3. job' = [job EXCEPT ![w] = j] /\ call' = [call EXCEPT ![w] = k]
    BY <1>8 DEF EnumerateForFull
  <2> HIDE DEF j, k
  <2>4. QED
    BY <1>1, <2>1, <2>2, <2>3
<1>9. ASSUME NEW found \in SUBSET Projects, NEW missing \in SUBSET found,
             EnumerateForSingle(w, found, missing), job[w].at = "enumerating"
      PROVE  EndsRow(w)'
  <2> DEFINE j == [job[w] EXCEPT !.at = "analyzing", !.todo = job[w].target,
                                 !.missing = missing \cap job[w].target]
  <2>1. j.at = "analyzing" /\ j.at \in BodySteps
    BY <1>0 DEF Jobs, BodySteps
  <2>2. /\ job' = [job EXCEPT ![w] = j]
        /\ call' = [call EXCEPT ![w] = call[w]]
    BY <1>0, <1>9 DEF EnumerateForSingle
  <2>3. call[w].at \in {"idle", "returned"}
    BY <1>0, <1>9
    DEF EndsRow, InBody, BodySteps, OwnInv, SlotInv, JobInv, WorkerInv,
        BetweenCalls, Ended
  <2> HIDE DEF j
  <2>4. QED
    BY <1>1, <2>1, <2>2, <2>3
<1>10. CASE CatalogPopulated(w) \/ ProjectWritten(w)
  <2> DEFINE j == [job[w] EXCEPT !.at = "analyzing"]
  <2>1. j.at = "analyzing" /\ j.at \in BodySteps
    BY <1>0 DEF Jobs, BodySteps
  <2>2. job' = [job EXCEPT ![w] = j] /\ call' = [call EXCEPT ![w] = NoCall]
    BY <1>10 DEF CatalogPopulated, ProjectWritten
  <2>3. NoCall.at = "idle"
    BY DEF NoCall
  <2> HIDE DEF j
  <2>4. QED
    BY <1>1, <2>1, <2>2, <2>3
<1>11. ASSUME NEW p \in Projects, WriteProject(w, p)
       PROVE  EndsRow(w)'
  <2> DEFINE o == IF p \in job[w].missing THEN "record_skip"
                                          ELSE "write_profile"
             j == [job[w] EXCEPT !.at = "writing", !.todo = @ \ {p}]
             k == NewCall(o, job[w].snap, NoSnapshot, {p})
  <2>1. j.at = "writing" /\ j.at \in BodySteps
    BY <1>0 DEF Jobs, BodySteps
  <2>2. k.at = "check"
    BY DEF NewCall, FirstStep, Readers
  <2>3. job' = [job EXCEPT ![w] = j] /\ call' = [call EXCEPT ![w] = k]
    BY <1>11 DEF WriteProject
  <2> HIDE DEF j, k, o
  <2>4. QED
    BY <1>1, <2>1, <2>2, <2>3
<1>12. CASE CommitJob(w)
  <2> DEFINE j == [job[w] EXCEPT !.at = "committing"]
             k == WriterCall("commit_snapshot", job[w].snap)
  <2>1. j.at = "committing" /\ j.at \in BodySteps
    BY <1>0 DEF Jobs, BodySteps
  <2>2. k.at = "check"
    BY WriterCallChecks DEF WriterCall, Writers
  <2>3. job' = [job EXCEPT ![w] = j] /\ call' = [call EXCEPT ![w] = k]
    BY <1>12 DEF CommitJob, CallFrom
  <2> HIDE DEF j, k
  <2>4. QED
    BY <1>1, <2>1, <2>2, <2>3
<1>13. CASE CompleteJob(w) \/ AbortEnds(w)
  <2>1. /\ InBody(w) /\ Release(w)
        /\ Settled(w) /\ Own(w) = job[w].snap
    BY <1>13
    DEF CompleteJob, AbortEnds, Returned, Raised, InBody, BodySteps, Settled,
        Holds, Finished, Ended, Own
  <2>2. \E r : End(w, r)
    BY <1>13 DEF CompleteJob, AbortEnds
  <2>3. QED
    BY <1>0, <1>3, <2>1, <2>2 DEF EndsRow
<1>14. CASE StartRaises(w)
  <2>1. /\ ~InBody(w) /\ job[w].snap = NoSnapshot /\ running' = running
        /\ End(w, "error")
    BY <1>0, <1>14
    DEF StartRaises, EndsRow, ReportsLater, InBody, BodySteps
  <2>2. QED
    BY <1>3, <2>1
<1>15. ~RejectStart(w) /\ ~BodyRaises(w)
  BY <1>0
  DEF RejectStart, BodyRaises, Raised, EndsRow, InBody, BodySteps
<1>16. CASE GitLabRequestFails(w)
  BY <1>4, <1>16 DEF GitLabRequestFails
<1>17. CASE EnumerateProjects(w)
  BY <1>4, <1>8, <1>9, <1>17 DEF EnumerateProjects, TargetDisappeared
<1>18. QED
  BY <1>5, <1>6, <1>7, <1>10, <1>11, <1>12, <1>13, <1>14, <1>15, <1>16,
     <1>17 DEF JobStep

(* Refreshes that do not overlap, in a store that works and with only the    *)
(* GitLab errors that the jobs catch, leave no snapshot in progress.         *)
THEOREM LoneRefreshEnds ==
  ASSUME Alone, ~StoreFaults, "other" \notin GitLabFaults
  PROVE  CoordinatorSpec => []NoOrphanedSnapshot
<1>1. CoordinatorInit => EndInv
  <2> SUFFICES ASSUME CoordinatorInit
               PROVE  EndInv
    OBVIOUS
  <2>1. ASSUME NEW w \in Workers
        PROVE  EndsRow(w)
    BY DEF CoordinatorInit, NoJob, EndsRow, InBody, BodySteps, Settled,
       Holds
  <2>2. QED
    BY <2>1, InitOutcome, InitRoom, AloneFinite DEF EndInv
<1>2. EndInv /\ [CoordinatorNext]_vars => EndInv'
  <2> SUFFICES ASSUME EndInv, [CoordinatorNext]_vars
               PROVE  EndInv'
    OBVIOUS
  <2>1. OutcomeInv'
    BY NextOutcome DEF EndInv
  <2>2. RoomInv'
    BY NextRoom, AloneFinite DEF EndInv, OutcomeInv
  <2>3. ASSUME NEW w \in Workers
        PROVE  EndsRow(w)'
    <3> USE DEF EndInv, OutcomeInv
    <3>1. ASSUME NEW c \in Clients, StatementStep(c)
          PROVE  EndsRow(w)'
      <4>1. c = w
        BY <3>1, StatementFacts DEF Alone
      <4>2. QED
        BY <2>1, <3>1, <4>1, StatementEndsRow
    <3>2. ASSUME NEW v \in Workers, StartRefresh(v)
          PROVE  EndsRow(w)'
      <4>1. v = w
        BY DEF Alone
      <4>2. /\ job[w].at = "idle" /\ running' = running
            /\ job'[w].at \in {"opening", "reading_current"}
            /\ ~Holds(w)'
        BY <3>2, <4>1, StartHoldsNothing
        DEF StartRefresh, StartFullRefresh, StartSingleProjectRefresh,
            OwnInv, SlotInv, JobInv, NoJob
      <4>3. QED
        BY <4>2 DEF EndsRow, InBody, BodySteps, Settled
    <3>3. ASSUME NEW v \in Workers, JobStep(v)
          PROVE  EndsRow(w)'
      BY <3>3, JobStepEndsRow DEF Alone
    <3>4. CASE Restart
      <4>1. job'[w] = NoJob /\ running' = NoSnapshot
        BY <3>4 DEF Restart
      <4>2. job'[w].at = "idle" /\ job'[w].snap = NoSnapshot
        BY <4>1 DEF NoJob
      <4>3. QED
        BY <4>1, <4>2 DEF EndsRow, InBody, BodySteps, Settled, Holds
    <3>5. CASE UNCHANGED vars
      BY <3>5
      DEF vars, storeVars, coordinatorVars, EndsRow, InBody, Settled, Holds,
          Finished, Own
    <3>6. QED
      BY <3>1, <3>2, <3>3, <3>4, <3>5 DEF CoordinatorNext
  <2>4. QED
    BY <2>1, <2>2, <2>3 DEF EndInv
<1>3. EndInv => NoOrphanedSnapshot
  BY DEF EndInv, EndsRow, NoOrphanedSnapshot, Settled, Own
<1>4. QED
  BY <1>1, <1>2, <1>3, PTL DEF CoordinatorSpec
=============================================================================
