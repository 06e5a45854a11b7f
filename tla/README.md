# Project Knowledge MCP: verification project

The program (package `src/src/project_knowledge_mcp/`) keeps a knowledge base
about the projects of one GitLab group. Refreshes enumerate the group, fetch and
analyze every project, and write the profiles as a *snapshot* into SQLite; an
MCP server on stdio and a web server on the loopback interface answer from the
snapshot that `current_snapshot` names. This directory holds TLA+ modules that
model it, TLC configurations that check them, and TLAPS proofs about them.
Paths below are relative to the package.

## 1. The system

| Component | State it keeps | Operations | Correct when |
|---|---|---|---|
| Knowledge_Store (`knowledge_store.py`) | tables `snapshots`, `project_profiles`, `skips`, `current_snapshot`; one connection shared by all threads; whether a transaction is open on it | `begin_snapshot`, `write_profile`, `record_skip`, `abort_snapshot`, `commit_snapshot`; the readers; `open`, `close` | one owner per transaction; the pointer names only snapshots that were completed; statuses never revert; published rows stay |
| Project_Catalog (`project_catalog.py`) | table `project_catalog_entries`, on the same connection | `populate_in_scope`, `list_in_scope`, `is_in_scope` | as the store |
| Ingestion_Coordinator (`ingestion_coordinator.py`) | the single-flight slot `_running`, under a lock | `start_full_refresh`, `start_single_project_refresh`, `try_start`, `JobHandle.complete`/`abort` | one job at a time; readers see whole snapshots; what a call reports is what happened; the slot is freed |
| Scheduler (`scheduler.py`) | its thread, the stop event | `start`, `stop`, `_run`, `_tick` | ticks go on whatever a refresh does, and stop after `stop` |
| Process start and shutdown (`main.py`) | which resources it holds, the initial refresh thread, how far the shutdown is | configuration, store, binding of two sockets, servers; `_serve_surfaces`, `_shutdown_in_order`, the `finally` | a start that fails releases what it made and says why; the shutdown ends, and leaves the file consistent |
| MCP_Server (`mcp_server.py`) | none | two refresh tools (worker threads), six query tools (event loop), the dispatcher and its catch-all | every call is answered; an answer is about one snapshot; an empty answer is true |
| Visualization_Server (`visualization_server.py`) | none; two sockets | pages, each a sequence of store reads; a deadline; exception handlers | as the tools; the page of the dependencies is of one snapshot |
| Diagram_Renderer (`diagram_renderer.py`) | none | the fragments of a page; the dependency graph as data and as text | both forms are one graph, of the catalog |
| GitLab_Connector (`gitlab_connector.py`) | an HTTP client; per fetch, a pool of blob fetchers | `enumerate_projects`, `fetch_repository_contents`, `close` | every page is read; a failed request is never read as "nothing there"; the result does not depend on the order of answers |
| Project_Analyzer (`project_analyzer/`) | none | `analyze`: the Go parse, four sections, assembly; the detectors of tables, services and I/O | a section that fails costs nothing else and is reported; a table's access mode joins all its uses |
| Go analyzer (`project_analyzer/go/`) | the position in the text; the cursor and the bracket depths | tokenizer, recognizer, file filter, Go detectors | every character is in one token; a malformed declaration costs no later one |
| Conflict_Detector (`conflict_detector.py`) | none | `classify_pair`, `find_all_conflicts` | symmetric; each pair of ids once, whatever the order |
| Configuration (`config.py`) | none | the validators, in order | the first invalid field is the one reported |
| Models and errors (`models.py`, `errors.py`) | none | validation | |

How they interact. The scheduler thread, the initial-refresh thread and the
worker threads of the two refresh tools call the coordinator; each runs its
refresh itself, to the end. The coordinator calls the connector, the analyzer
and the store. The event loop (main thread) runs the query handlers and the
pages, which only read the store, and during the shutdown aborts the running
snapshot with a write of its own. All of these threads use **one**
`sqlite3.Connection` (`check_same_thread=False`, `isolation_level=None`), with
no lock around it: statements of any thread execute inside whatever transaction
is open, and every thread reads the uncommitted rows.

What is hard: methods that check in one statement and write in another; a
transaction that belongs to the connection rather than to a thread; snapshots
opened before the single-flight slot is asked for; exceptions that the jobs do
not catch; a crash or a close between any two statements; a shutdown that
aborts a job from outside; a page made of several pointer reads, each of which
may find another snapshot, or one whose COMMIT fails afterwards; a listing by
offset of a group that changes; futures that finish out of order; malformed Go
source, where one lost bracket may cost every later declaration. `PROJECT.json` lists each such place under
"hazards", with the properties that watch it.

## 2. The modules

**`KnowledgeStore.tla`**: the store and the catalog, one action per SQL
statement. `db` is what statements on the connection see, `disk` what is
committed, `inTxn` whether a BEGIN is open; a method call in flight is a record
`call[c]` that says which statement client `c` executes next. `Spec` lets
arbitrary clients make arbitrary legal calls, so it is also the abstract
specification of the store that the coordinator is checked against.

- `Execute` writes to `db`, and to `disk` too unless a transaction is open.
- `RequireInProgress` is the SELECT of `_require_in_progress`; the write it
  guards is a later action, so that other clients run in between.
- `BeginTransaction` stands outside the `try`: it raises without rolling back
  when some transaction is open. A statement that fails inside the `try` is one
  action with the ROLLBACK that follows, as nothing that can interleave
  separates them that a property could see; SQLite itself rolls back a COMMIT
  that fails for a full disk or an I/O error.
- `CloseStore` and `RestartStore` discard what is uncommitted; `open` repairs
  nothing, so neither does the model.
- A profile row is abstracted to the snapshot whose job wrote it, a skip row and
  a catalog row to the project's id. The foreign keys are modelled; timestamps,
  columns and indexes are not.

**`IngestionCoordinator.tla`** extends it with the slot (`running`) and what each
worker's refresh has reached (`job`). A worker's action issues a store call; its
next action waits until that call has returned or raised. `try_start` and
`_release` are atomic (they hold the lock). GitLab and the analyzer are the
environment: an enumeration finds any set of projects, any of them without the
analysis branch; a request or an analysis fails with an exception that the jobs
catch (`"gitlab"`) or with any other (`"other"`). `RoomForSnapshot` bounds the
refreshes that start, so that ids stay within `MaxSnapshot`.

**`SnapshotView.tla`** is the promise to the readers: a register of published
snapshots, each published once, whole and forever, as a full refresh or as a
copy of an earlier one with at most one profile replaced. The coordinator
implements it under the refinement mapping `View` (published: `completed` on
disk). **`ShownView.tla`** extends it with what the shared connection shows of it:
`commit_snapshot` moves the pointer before its COMMIT (`MovePointer`), and when the
COMMIT fails SQLite puts the old one back (`CommitFails`). The coordinator
implements that one too, under the mapping `Shown`: shown are the rows that are
`completed` on disk and the row of a moved pointer, with what `db` holds of them.

**`ServerLifecycle.tla`** extends the coordinator with the process: the scheduler
thread's sleep and tick, the initial refresh, the tools, and the main thread's
shutdown (`phase`). The main thread is one more client of the store: its
`abort_snapshot` interleaves with the jobs' statements. A join that times out and
a join that succeeds lead on to the same step, so the join is no action of its
own; stopping the surfaces writes nothing that is modelled.

**`ReadSurfaces.tla`** extends `ShownView`, so its writers are the specification that
the coordinator is proved to implement, and `DependencyGraph`. A request is a
page, a tool, or something that is refused; its handler is the sequence of its
store reads (`ReadsOf`), and `Read` does one of them and takes the early return
the handler takes. Handlers run on one event loop and do not yield in between
(`LoopIsFree`), but refreshing threads publish, and a reader sees the pointer of a
COMMIT under way. `ReadFails` is SQLite, or anything else, raising; `DeadlinePasses` the
middleware's cancellation, which can only hit a request that awaits.

**`DependencyGraph.tla`** holds the two forms of the dependency graph as
operators: `GraphData` for the interactive one, `MermaidSource` for the text, and
`DependencyPage`, which `render_dependency_graph` makes of them.

**`GitLabConnector.tla`**: the enumeration of the group page by page (`links`: GitLab
sends Link headers, or the connector probes `?page=N`), a branch lookup for each
project, and for one repository the tree listing, the path filter, the cap and
the pool of fetchers, with `fetch` the state of each future. Projects come and go
between pages. A path is its directory, the kind of its name and whether its
body is a small text; paths are numbered in sort order. Where the code or GitLab
sorts, the model counts: `Below(S, p)` (**`Ordering.tla`**, also the analyzer's) is how
many elements of `S` precede `p`, a page of the group and the capped paths are those
whose count lies in a range.

**`ConflictDetector.tla`**: a summary is a sequence of words, `Classify` the
comparison of two, `outer` and `inner` the double loop of `find_all_conflicts`, one
pair at a time.

**`ProjectAnalyzer.tla`**: `analyze`; `ParseRepo` first, then `RunSection` or `SectionRaises`
for each of the four sections, then the profile. What a detector finds is the
set of paths it finds something in.

**`GoTokenizer.tla`** and **`GoRecognizer.tla`**: one step per token of the tokenizer,
and one per construct of the walk that the recognizer makes over the
significant tokens. A character is a member of `Alphabet`, a token a kind.

**`TableDetectors.tla`** and **`ServiceDetectors.tla`**: the passes of the generic and of
the Go detectors, file by file, and the two aggregations. The patterns see a text
as words and a URL as scheme and host.

**`Startup.tla`**: `main` up to the event loop and after it: validation field by
field, the store, the connector, both binds, the line "ready", the servers, the
scheduler, the initial refresh; what is `held` when a step fails is what the
`finally`, or `bind_or_exit` itself, releases.

**`KnowledgeStoreProofs.tla`** and **`IngestionCoordinatorProofs.tla`**, which extends
it, hold the proofs about the store and about who writes which row; two modules
build on the second: **`SnapshotContentProofs.tla`** on what the rows hold,
**`ProcessProofs.tla`** on the process around the refreshes, from its start to its exit.
**`ReadSurfacesProofs.tla`** is about that module, **`AnalysisProofs.tla`** about
`GitLabConnector`, `ProjectAnalyzer`, `ConflictDetector` and the two detectors,
**`GoProofs.tla`** about `GoTokenizer` and `GoRecognizer`; **`OrderingProofs.tla`** has the
lemmas the last two rest on: on `Below`, on induction over numbers and ranks, on
recursive functions, on the concatenation of a sequence of sequences.
**`MC*.tla`** give the constants their values. **`MCComponents.tla`** puts the components
that share no state with one another under one next-state relation: a behaviour
picks one (`part`), so the run is the sum, not the product, of their instances.

## 3. What the runs show

| Run | Instance | Result |
|---|---|---|
| `store` | 2 threads (one makes the calls of a job, one starts, aborts and reads), 1 project, ids 1..2, any statement may fail, close, restart | one transaction owner; the pointer names only what was completed; only open snapshots are promoted; statuses never revert; unused ids carry no rows |
| `refresh_races` | 2 workers, 2 projects, ids 1..3, all GitLab failures, restarts, symmetric workers and projects | single flight; outcomes true; every listed project accounted for; published rows immutable; only the slot's holder publishes; implements `SnapshotView` and, on the connection, `ShownView` |
| `refresh_faults` | 2 workers, 1 project, ids 1..2, every SQLite statement may fail too | implements `KnowledgeStore!Spec`; under fairness every refresh returns |
| `refresh_alone` | 1 worker, 2 projects, ids 1..3, only the failures the jobs catch | single-project refreshes are incremental and in scope; no snapshot is left in progress; the slot is always freed |
| `lifecycle` | scheduler, initial refresh, one tool thread, main; 1 project, ids 1..2 | what refreshes reported stays true through the abort and the closes; the stop event ends the cadence |
| `shutdown` | the same threads, id 1, all failures | the shutdown reaches the exit |
| `components` | `surfaces`: 1 request of any kind, 2 projects, ids 1..2, failing reads and COMMITs; `connector`: 4 projects, 7 paths, pages of 2, a cap of 3, a pool of 2, all failures; `detector`: up to 3 profiles of 9 summaries, ids that repeat; `analyzer`: 8 files, each absent, plain, rich or unreadable; `tokenizer`: all texts of 3 characters and longer ones where it matters; `recognizer`: all 4-token fragments and all pairs of 20 declarations; `tables`, `services`: 1 or 2 files of every line the patterns tell apart; `startup`: any two fields wrong, any step failing | an empty answer is true and every request is answered; the page draws its catalog; the listing is complete, the fetch is what a sequential one is; conflicts, tokens, events, tables and services are what a reference definition says; sections fail alone and are reported; a failed start is clean |
| `slot_leak` | 1 worker, an exception the jobs do not catch | **violated**: the slot is never freed |
| `transaction_clash` | 2 full refreshes, no failure at all | **violated**: a start that will be rejected makes the running job's BEGIN raise |
| `stale_parent` | 2 workers, 2 projects | **violated**: a single-project refresh reverts another project's profile |
| `abort_race` | the shutdown against a committing job | **violated**: the current snapshot is marked failed |
| `torn_page` | 1 request, 2 projects, ids 1..2, no failure | **violated**: the dependencies page has the catalog of one snapshot and the profiles of another |

The violations are disagreements between the code and what its own comments say;
`PROJECT.json`, "findings", quotes both. Two more were seen while modelling and
are consequences of the same causes: the ROLLBACK of a clashing `begin_snapshot`
discards a row that another thread's `write_profile` had written (the
autocommit statement fell inside the open transaction), and a single-project
refresh can pass the scope check against one snapshot and copy another in which
the project is out of scope.

**Bounds.** Two threads suffice for every race between a statement and a
statement; three of the lifecycle's threads and the main thread cover the
shutdown against a running and a starting job. Three ids allow a full refresh, a
single-project refresh of it and a third job beside the second: what the stale
parent needs. Two projects tell the refreshed project from the others. An id
freed by a rollback is handed out again within every bound. Where faults are
on, the state space is kept small by one project. `store` gives its two threads
different methods (`Roles`), together all the methods with a statement of their
own.

`components` has one request: the event loop gives a handler to itself, so two
requests only follow one another, and the theorems of section 4 are about any
number of them. Two snapshots are enough to be torn between. Four projects in
pages of two leave a full last page, a short one and an empty one, and room for
a project that leaves from a page already read. The sources of the tokenizer and
the recognizer are enumerated up to the length at which each construct has
begun, ended and met another; texts that only vary a name are one. The table detectors'
instance has all texts of its words on one or two lines, also those that are not
`Ordinary`, of which `TablesAreExact` says nothing (section 5).

**Fairness.** A thread inside a refresh keeps running: no statement blocks (the
connection never waits for another thread, a locked file ends in an exception)
and every request has a timeout, hence weak fairness of each worker's own steps
and statements. Nothing obliges anyone to start a refresh, send a signal or
restart. For the shutdown, weak fairness of the main thread and of the
refreshing threads *together* is enough, which is less than the operating system
gives: once stdin is closed only finitely many steps of others remain.
For the read surfaces (`SurfaceFairness`) it is weak fairness of the handlers: the
event loop runs what is ready, and no handler awaits between its reads. Nothing
obliges the writers, nor the deadline, so a request is answered without them.

## 4. What is proved

For every set of clients and projects, every `MaxSnapshot` and every assignment
of methods to clients, `KnowledgeStoreProofs.tla` proves of `KnowledgeStore!Spec`:

- `TypeCorrect`. The type invariant is inductive only with `CallsOK`: where a call
  stands determines its method and which arguments are snapshot ids.
- `OneTransaction`. `TxnInv` adds that a closed connection has no transaction.
  The heart is that BEGIN raises when a transaction is open *before* the `try`
  block whose handler rolls back.
- `PointerSafe`, `PromotionSafe`, `StatusesSafe`. One invariant, `PointerInv`,
  relates the uncommitted tables to the committed ones: pending statuses continue
  the committed ones legally; a `commit_snapshot` past its flip found its
  snapshot in progress on disk; a pointer that differs from the committed one
  belongs to a `commit_snapshot` about to COMMIT. The committed tables change only
  by COMMIT or by an autocommitted statement, and the action properties follow
  case by case.
- `FreshIdsSafe`. `RowsInv` says the same of `db` and `disk`, and that
  `begin_snapshot` copies rows only under the row its transaction holds.

For every set of workers among the clients, every subset of refresh kinds and of
GitLab and SQLite faults, `IngestionCoordinatorProofs.tla` proves of
`CoordinatorSpec`:

- `CoordinatorImplementsStore`. Every step of the coordinator is a step of
  `KnowledgeStore!Spec` or leaves the store alone, so each theorem above holds of
  the coordinator too. The work is to show that a job's arguments are legal: the
  `base` of `begin_snapshot` is the id of a committed row (`ReadsPointer`,
  `ParentExists`: read from the pointer, and committed rows do not vanish), and the
  snapshot a body writes to is an id (`SnapshotKnown`).
- `CoordinatorTypeCorrect`, from the same invariant, `JobInv`.
- `OneRefresh`. `SlotInv` is `JobInv` with `SingleFlight` itself: a job's step takes
  a free slot, gives up one that its own snapshot names, or keeps it, and no other
  body exists to be confused with, even where ids are used again.

Its second half answers why `abort_snapshot`'s unconditional
UPDATE, the writers' separate status checks and the ROLLBACKs of other threads do
no harm to readers. The invariant `OwnInv` says which refresh *owns* a `snapshots`
row: from the return of `begin_snapshot` to the end of the refresh, no row has two
owners (`OneOwner`), a store call in flight is on its owner's row (`CallOfJob`), a
row being created is not on disk yet (`CreatesRow`: so no owner has it), and until
the owner's last call ends its row is in progress on disk and, but for the owner's
own flip, in the uncommitted tables (`OpenRow`). From it follow

- `CurrentSafe`: `MarkFailed` and the rollbacks never reach the pointer's row;
- `PublisherSafe`: a committed pointer is the row of the body that COMMITs, and
  that body holds the slot;
- `PublishedSafe`: published rows are the same in `db` and on disk
  (`PublishedInv`), as no statement is executed on a row that is not open, so a
  rollback restores them to what they are;
- `OutcomeSafe`: once its last call has ended, a refresh's row is settled
  (`SettledRow`: completed in both tables exactly if that call was a
  `commit_snapshot` that returned), nobody else ever comes to hold that row, and
  what the refresh reports agrees with it.

No passing run checks `CurrentCompleted` by itself: `refresh_races` checks
`ImplementsShownView`, by which the pointer always names a snapshot that is shown.

`CurrentCompleted` and `PublishedRowsImmutable` would not hold of
`KnowledgeStore!Spec` alone, whose callers may abort and write to each other's
snapshots between a check and a write, and `CurrentCompleted` does not survive the
shutdown, whose abort comes from a thread that is not the owner (run
`abort_race`): ownership is what the argument needs.

`SnapshotContentProofs.tla` follows the content of the rows.

- `ImplementsView` is the refinement of `SnapshotView`, with no assumption but those of
  the modules. `ContentInv` adds to `PublishedInv`, for each refresh, what its row holds
  while `begin_snapshot` copies it (`CreatedContent`) and from then on (`HeldContent`: a
  `RefreshRow`, which is either nothing but the refresh's own profiles or a copy of
  a *published* row in which the target may be replaced), what the parent it has read
  still names (`ParentRead`, `Readable`), and that what is still to be written is in the
  catalog (`ToWrite`). The delicate case: `get_current_snapshot_id` may read a pointer
  that another refresh has moved and not committed, so a parent may come to nothing.
  A failed COMMIT is caught by no arm of that other job, which therefore leaks the
  slot, and the refresh that copied the undone parent can never start: `LostSlot`.
  The promise to the readers rests on the defect that run `slot_leak` shows; a
  correction of the leak has to deal with this parent, too.
- `ImplementsShown` says the same of the tables on the connection. The reads of a page
  execute inside whatever transaction is open, so `ImplementsView`, which is about the
  disk, is not about what they see. `ShownMoves` is the pointer's UPDATE, of a row that is
  publishable when its job issues the commit (`Publishable`, `MovedIsShown`);
  `ShownSucceeds` and `ShownFails` the two ends of that transaction; `ShownStays` every
  other statement: it writes only rows that are not shown, as `PublishedInv` keeps
  shown rows out of reach and `OwnInv` the moved row out of everybody else's. With it
  the theorems about `SurfaceSpec` are about readers of this coordinator.
- `AccountedSafe` assumes that the store's statements succeed (`~StoreFaults`), and has
  to: with failing statements TLC violates `EveryProjectAccountedFor`, as an
  autocommitted `upsert_profile` or `insert_skip` that is executed while another thread's
  transaction is open goes when that transaction is rolled back. `Accounted` says of
  every project of a full refresh's catalog that it is done, being written or still
  to do, through every stage of the job; the lemma `NoTransactionUndone` needs
  `RoomInv`, that the INSERT of `begin_snapshot` never lacks an id: the rows and the
  starts under way are at most `MaxSnapshot`. This is a counting argument over finite sets,
  hence `IsFiniteSet(Workers)`.
- `LoneScopeSafe` and `LoneRefreshIncremental` assume that refreshes do not overlap (`Alone`;
  run `stale_parent` shows them overlap), and nothing about faults. `LonePointer` says that
  the pointer a refresh read, the one in which `is_in_scope` found its target and the
  one it will publish over are the same.
- `LoneRefreshEnds` assumes besides that the store works and that GitLab errors are those
  the jobs catch, which is the docstring's own condition. `EndsRow` excludes, through
  `RoomInv`, that a call raises inside a body.

`ProcessProofs.tla` proves of `LifecycleSpec`, for any number of tool threads and
all faults:

- `LifecycleTypeCorrect`, `ShutdownOneRefresh` and `ShutdownOutcomeSafe`. `OwnInv` is not
  an invariant here: the main thread writes to a row that it does not own, and the
  connection may be closed. `LifecycleInv` keeps what is left of it: a thread's call is
  still on its own row, and main's one call is an `abort_snapshot` of a row on disk
  (`MainCalls`, `SlotNamesRow`); a row being created is not on disk (`NewRow`); a
  refresh's row, from `begin_snapshot` on and after its end, is on disk, is nobody
  else's (`OneKeeper`), and is completed, or completed and then failed, exactly if its
  `commit_snapshot` has returned (`KeptRow`: otherwise it is neither completed nor
  current, but for the promotion that its own COMMIT is about to make).
- `LifecycleImplementsStore`: so the theorems about the store hold of the process with
  its main thread, its closes and its restarts.
- `CadenceEnds`, from `TickTold`: the scheduler's thread is inside a refresh only while
  `tick` says so, since no other thread runs its job.

`ReadSurfacesProofs.tla` proves of `SurfaceSpec`, for every number of requests,
projects and snapshots:

- `EmptyAnswersAreTrue`. `SurfaceInv` says what a request has read so far (`RequestOK`)
  and that the pointer names a snapshot the connection shows, or another one than
  before while its commit is open (`ViewsOK`); the answers then follow step by
  step, since the early return is taken in the step that reads.
- `PagesDrawTheirCatalogs`. From `RequestOK`, the catalog and the profiles of an
  answered page are *some* catalog and *some* profiles, not those of one snapshot
  (run `torn_page`); `PageIsExact` and `EdgesAreExact` are about all of them. That the
  message stands exactly where no edge does compares a count with zero, which is
  why `FiniteAssumption` is needed and `FinitelyManyEdges` proved.

`AnalysisProofs.tla` proves three theorems of `ConnectorSpec`, for every group, tree, page
size, cap, pool size and set of failures. They use the lemmas of `OrderingProofs.tla`, chiefly
`EveryRank`: a set of more than `k` numbers has one with `k` below it (so a page
before the last is full), and `FirstOnes`: the elements with fewer than `k` below
them are `k` of them, or all, and precede the rest.

- `NobodyIsSkipped`. `EnumerationInv` relates the page to come to the group as it is
  then: what was yielded lies on the pages behind (`PagesBehind`), and a project that
  was there at the beginning is yielded, in hand, or at an offset that lies ahead
  (`NoneSkipped`), unless one of them has left. That survives the creation of
  projects because ids only grow (`NewestLast`), and the end of the listing because
  a page before the last is not empty, which is what the probing of `?page=N` relies on.
- `PoolIsSequential`. `FetchInv`: what was handed over is a first part of the paths, all
  of it results but for the last, and `ResultsStay`: no later answer and no
  cancellation changes a result that was handed over.
- `ContentsAreThoseOfTheCommit`. `ContentsInv`: without a failing answer `blobs` is what the
  pages so far contain, and the last page leaves nothing unlisted (`LastPage`).

It proves, of `AnalyzerSpec` for every repository and every set of things that may raise,
and of `DetectorSpec` for every vocabulary and every list of profiles:

- `SectionsStayIsolated` and `LossesAreReported`. The invariant says of each section behind
  what it found, from the files alone, unless it raised, and that `degraded` is a
  list without repetitions whose entries about a section are exactly the losses of that
  section: the lemmas on appending entries keep this, with `Ranks` of `OrderingProofs.tla`
  for the sorted skip entries. The assembly that fails adds only the sections that
  are not named yet, which is what keeps the list without repetitions.
- `DetectorExact`. `PassedFound` carries the completeness through the double loop: two
  profiles that conflict have their key in the result once the loops have passed
  their positions in either order; `ClassifySymmetric` makes the order indifferent.

It proves, of `ServicesSpec` and of `TablesSpec`, for every repository, that what is
reported equals a reference definition that knows neither passes nor an order of files:

- `ServicesStayExact`. `ServicesInv`: the sightings so far, as triples of a name, a kind and
  one place, are those the reference gives for the files behind the pass (`SeenSoFar`).
  The rest is about the two aggregations: `_aggregate` takes a least rank, which finitely
  many sightings have, and sorts a finite set of places (`Sorted` exists, by an
  induction over the size of the set, which is what makes each place stand once);
  `_coalesce` keeps the first occurrence of each place (`PickedIs`, `PickedCounts`).
- `TablesStayExact`. `Matches` is a recursive function over positions, as `finditer` goes on
  behind each match; the reference asks of every name which words stand around it. The
  two agree because two matches of one pattern cannot overlap in a text whose tables
  are named, so that the search skips none, and because a read match inside a write
  match is the `FROM` of a `DELETE FROM` and no other (`SqlIs`). `TablesInv`: the uses so far
  are, for each file and name, what the passes that have been through the file find
  there (`UsesAreFound`), and the table of classes holds a table for each class declared
  so far, the only one (`ModelsKnown`); when the pass of the queries begins, all files have
  been through the pass of the models, wherever the model stands.

`GoProofs.tla` proves, of `TokenizerSpec` for every alphabet and every text, and of
`RecognizerSpec` for every list of tokens:

- `TokensStayExact`. `PlaceInv` relates the line and the column to the line feeds before the
  position, wherever the token in between ends. `FramesInv` is what the stack of
  `_maintain_brace_stack` means: the brace at `b` is the `m`-th open one, from the inside
  (`OpensAt`), if it leaves `m` braces open, itself included, and is the last to do so;
  the stack has exactly one frame for each `m` up to its length, which says whether that
  brace follows `struct`. `OpenBracesShift`: a token moves these numbers by one if it is a
  brace and not at all otherwise; a closing brace with nothing open finds nothing to
  move, so that stray braces do no harm. `EveryStep` needs that each scan ends where
  it says, for the string literals too, whose scan is recursive (`StringEnd`).
- `WalkNeverStalls`. The parsers of calls, arguments and literals call one another
  (`Recognized`). `ParseSteps`: each calls only what has a lower rank, twice the number
  of tokens left and one more for the lists, and returns a position behind its own if
  those do; by `Recursion` there is such a function, and every function that satisfies
  the equations is so (`ParseIsDefined`, `RecognizedGoesOn`). With the ends of the other
  parsers every step of the walk moves on.
- `CgoNeverWalked`. `ImportsAreVisited`: the pre-pass, which jumps from one import to
  behind the next, misses none, because no whole clause holds the keyword of another;
  `ImportIsHarmless`: then nothing `_parse_import` yields is a `"C"`.
- `EventsStaySound`. `BalanceNests` turns `BracketsBalance` into what the nesting does from
  token to token. `Levels` counts the open brackets of each kind, their sum is the
  nesting (`NestingIsPending`), and a tracker that starts at a position counts those
  opened since (`DepthFromIs`). Two facts carry the walk over whole groups: the bracket
  that `_find_matching` finds by counting one kind alone is the one that closes the group
  (`MatchingNests`), and what is recognized as a call or a literal closes what it opens
  and has no declaration at its own level (`RecognizedNests`, by the induction of
  `WalkNeverStalls`). `FuncPasses`, `TypePasses`, `ImportPasses` and `PassesBoundary` say the
  same of declarations and of the recovery. Hence `WalkInv`: the depth is `Levels` at the
  cursor, and every plain declaration behind the cursor has its event. It needs
  `ClausesWellFormed`, see section 5.

`ProcessProofs.tla` proves `StartIsClean` of `StartupSpec` for every environment: `InStart`
says what is held at each step up to the line "ready", `InService` what is held after it
and `InFinally` what the `finally` is left with, whichever step sent it there.

The assumptions are those on the constants (`BoundAssumption`, `FaultsAssumption`,
`WorkersAssumption`, `CalledAssumption`, `FiniteAssumption`, `AlphabetAssumption`: braces
are no letters and no character has the name of a kind, and the `ASSUME` of each other
module) and the modelling of the connection described above.

Three theorems restrict the constants, as an `ASSUME` of their own and for the reason
given with each: `~StoreFaults` with `IsFiniteSet(Workers)` (`AccountedSafe`), `Alone`
(`LoneScopeSafe`, `LoneRefreshIncremental`), and `Alone`, `~StoreFaults` and
`"other" \notin GitLabFaults` (`LoneRefreshEnds`). The runs `refresh_races` and
`refresh_alone` check the properties on instances that satisfy them.

Only model-checked: all liveness, and `TextIsConsumed`, which says that some scan applies at
every character (fairness and ENABLED are beyond the prover). The recursions of
`GoRecognizer` and of `Matches` are recursive functions over positions, and the folds of the
community modules are unfolded by lemmas of `OrderingProofs.tla`, so that `Upwards` and
`RankInduction`, proved there, take the place of induction over data.

## 5. What is not modelled, and why

- Power loss with `synchronous = NORMAL`, which may lose the last commits as a
  whole: the model's crash keeps every commit.
- A second process on the same file, beyond statements that fail.
- `get_snapshot_metadata` (no caller), logging, HTML layout, JSON-RPC framing,
  the CLI and environment parsing, and the vendored JavaScript.
- Interference inside the C code of `sqlite3`: each statement is one atomic step.
- `project_analyzer/go/go_io.py` and most of `io_extractor.py`: catalogues of patterns,
  one per framework, each a predicate on one call or one line. They keep no state
  beyond the list they append to; in `ProjectAnalyzer` a file has something for them
  or has not.
- Regular expressions as such: texts are words, and a pattern is what it takes of
  them. Which texts a pattern should take is only a question where the code gives
  an answer that can be compared with.
- In `DiagramRenderer`, the fragments that lay out one profile.
- A request handled while another waits: one handler has the loop, so this adds
  only orders of whole handlers, which the theorems cover.

**Seen while modelling, without a run of its own.** Each contradicts a comment of
the code; the passing runs keep to the inputs on which code and comment agree,
or their properties exclude the case by name.

- `gitlab_connector.py:589`: a tree listing looks at no status code. A failed first
  page makes the connector probe `?page=2`, a failed later one ends the listing,
  and the result is a partial tree. The docstring (890-897) has a 401 or 403 of
  "any tree-listing or file-fetch request" raise. `TreeFails` models it, and
  `ContentsAreExact` speaks of fetches without a failed page (`refused`).
- `gitlab_connector.py:595`: with pages by offset, a project that leaves the group
  between two pages hides another one; hence `groupBefore \subseteq group` in
  `EnumerationIsComplete`. The docstring of `enumerate_projects` (628-632) promises all
  of them.
- `gitlab_connector.py:912`: the cap on files cuts a list sorted by path, `go.mod` as
  well as any other, although the purpose of a Go repository is read from it.
- `gitlab_connector.py:1023-1027`: the comment has an exception surface "as soon as the
  corresponding worker finishes"; `executor.map` hands it over after the results before
  it in path order, and leaving the `with` waits for the fetches that run
  (`HandOverException`, `Joined`).
- `conflict_detector.py:225`: the tokens are in the singular before they are compared
  with the markers, so `owns`, `manages`, `handles`, `controls` and `delegates` are never
  removed; the docstring (214-220) has all of them removed.
- `go_tokenizer.py:70-73`: the tokenizer is "contract-bound to consume any Go source
  file end to end"; it has no token for a rune literal, so the quote in `'"'` begins a
  string, and the file may be given up as malformed.
- `go_parser.py:982-983`: an import without a path is no error, and the token in its
  place is passed over, whatever it is: of `import` above `func f() {}` the function has
  no event, and after `import {` the text up to the closing brace counts as the top
  level. The docstring (971-977) has the rest of the file parse. `ClausesWellFormed`
  excludes it.
- `go_parser.py:588-596`: the pre-pass and the parser share a "rule" on aliases, but not
  what they take for an entry: in `import ( a b "C" )` the one has `b` as the alias of
  `"C"`, the other passes over `b` as the path of `a` and yields `"C"` unaliased. Go
  has no such block; `ClausesWellFormed` excludes it.
- `go_parser.py:830-834`: a call of a function literal, and the calls in the body of a
  function whose result is a function type, have no event.
- `go_parser.py`: the body of `func f() interface{} {` is taken to be that of the
  `interface`.
- `project_analyzer/__init__.py:334`: a `RecursionError` of the Go parser leaves
  `analyze`, which is documented never to raise; `"deep"` in `ProjectAnalyzer`.
- `project_analyzer/__init__.py`: a file the Go parser skips is reported as missing from
  every section, also from those whose detectors read it as plain text.
- `external_services.py` and `go_external_services.py` choose the kind of a name that
  is seen as several in different ways (`ServicesAreExact` asks the first only for
  the most specific).
- `db_tables.py`: `import React from 'react'` is the table `react`; a line that ends in
  `delete` above `from app.models import x` gives a table `models`, as the filter for
  imports looks at the line on which the match begins; and a class name that two modules declare with different tables counts
  every query for the one read last. `TablesAreExact` is about repositories without such
  a text (`Ordinary`), and where no keyword stands in the place of a table.
- `visualization_server.py`: an id wider than 64 bits is an HTTP 500.
- `diagram_renderer.py`: the docstring has "one node per in-scope project", the graph
  draws those with an edge.
- `scheduler.py:159`: an interval above `threading.TIMEOUT_MAX` ends the thread;
  `config.py` bounds the interval from below only, and a very long number, or an
  IPv6 URL without its bracket, raises past `load_and_validate`.
- `main.py` logs "ready" before the MCP server and the scheduler exist; when they
  cannot be built the process was announced and ends (`ConstructionRaises`).
- A reader may see a snapshot whose COMMIT then fails (`CommitFails`), although the
  design (`.kiro/specs/project-knowledge-mcp/design.md:173`) exposes it "only after
  this returns".

## 6. Plan

1. Done: the store, the coordinator, the lifecycle, their runs and the proofs of all
   their safety properties; the read surfaces over `ShownView`; the connector; the
   conflict detector; the analyzer, its Go tokenizer and recognizer, the table and
   service detectors; the start of the process; the proofs of section 4.
2. The shutdown's abort and the close of the store beside the pages: `ImplementsShown` is
   about the refreshes, and run `abort_race` shows what the abort may do to it.
3. `go_io.py`, as passes over the events of `GoRecognizer`, once its patterns have a
   reference to be compared with.
