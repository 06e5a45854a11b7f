---------------------------- MODULE ServerLifecycle ----------------------------
(***************************************************************************)
(* The process (main.py) and its Scheduler (scheduler.py) around the       *)
(* Ingestion_Coordinator: the scheduler thread, the initial refresh, the   *)
(* worker threads of the two refresh tools, and the main thread, which     *)
(* shuts the others down in six steps while they are inside refreshes.     *)
(*                                                                         *)
(* The main thread shares the store's connection: its abort_snapshot runs  *)
(* between, and inside, the statements of the refreshing threads.          *)
(***************************************************************************)
EXTENDS IngestionCoordinator

CONSTANTS
  Main,       \* the main thread
  Scheduler,  \* the scheduler thread
  Initial,    \* the thread of _fire_initial_refresh
  Tools       \* worker threads of refresh_all_projects and refresh_project

ASSUME ThreadsAssumption ==
  /\ Workers = {Scheduler, Initial} \cup Tools
  /\ Clients = {Main} \cup Workers
  /\ Main \notin Workers
  /\ Scheduler \notin {Initial} \cup Tools
  /\ Initial \notin Tools
  /\ "abort_snapshot" \in Called[Main]

VARIABLES
  phase,   \* how far _shutdown_in_order has come
  tick,    \* what the scheduler thread is doing
  initial  \* the initial refresh has not started yet

lifecycleVars == <<phase, tick, initial>>
allVars == <<vars, lifecycleVars>>

(* "serving" up to the signal; then the shutdown steps completed, and        *)
(* "aborting" while main's abort_snapshot executes.                          *)
Phases == {"serving", "scheduler_signalled", "stdio_closed", "aborting",
           "job_aborted", "connector_closed", "store_closed", "exited"}

(* "due": the sleep has timed out and _tick has not called yet.              *)
Ticks == {"sleeping", "due", "refreshing", "exited"}

LifecycleTypeOK ==
  /\ CoordinatorTypeOK
  /\ phase \in Phases
  /\ tick \in Ticks
  /\ initial \in BOOLEAN

LifecycleInit ==
  /\ CoordinatorInit
  /\ phase = "serving"
  /\ tick = "sleeping"
  /\ initial = TRUE

Alive == phase # "exited"

(* The MCP transport accepts tool calls.                                     *)
StdioOpen == phase \in {"serving", "scheduler_signalled"}

StopEventSet == phase # "serving"

ConnectorClosed == phase \in {"connector_closed", "store_closed"}

-----------------------------------------------------------------------------
(* The scheduler thread.                                                     *)

(* Mutant of SchedulerWakes: the outcome of the sleep is not looked at.      *)
SchedulerWakesAnyway ==
  /\ Alive
  /\ tick = "sleeping"
  /\ tick' = "due"
  /\ UNCHANGED <<vars, phase, initial>>

(* _run: Event.wait returns whether the stop event is set.                   *)
SchedulerWakes ==
  /\ Alive
  /\ tick = "sleeping"
  /\ tick' = IF StopEventSet THEN "exited" ELSE "due"
  /\ UNCHANGED <<vars, phase, initial>>

(* _tick, whether or not the stop event was set since the sleep ended.       *)
SchedulerTick ==
  /\ Alive
  /\ tick = "due"
  /\ StartFullRefresh(Scheduler)
  /\ tick' = "refreshing"
  /\ UNCHANGED <<phase, initial>>

(* Rejected, failed or done, _tick swallows the outcome and sleeps again.    *)
TickEnds ==
  /\ Alive
  /\ tick = "refreshing"
  /\ job[Scheduler].at = "idle"
  /\ tick' = "sleeping"
  /\ UNCHANGED <<vars, phase, initial>>

(* The daemon thread of the initial refresh gets its first time slice.       *)
InitialRefresh ==
  /\ Alive
  /\ initial
  /\ initial' = FALSE
  /\ StartFullRefresh(Initial)
  /\ UNCHANGED <<phase, tick>>

(* A refresh tool is called: asyncio.to_thread.                              *)
ToolRefresh(w) ==
  /\ StdioOpen
  /\ StartRefresh(w)
  /\ UNCHANGED lifecycleVars

(* A refreshing thread goes on; a request on the closed connector raises an  *)
(* exception the jobs do not catch.                                          *)
Working(w) ==
  /\ Alive
  /\ JobStep(w)
  /\ ConnectorClosed =>
       /\ job[w].at # "enumerating"
       /\ job'[w].at = "writing" => call'[w].op = "record_skip"
  /\ UNCHANGED lifecycleVars

RequestOnClosedConnector(w) ==
  /\ ConnectorClosed
  /\ \/ job[w].at = "enumerating"
     \/ job[w].at = "analyzing" /\ job[w].todo \ job[w].missing # {}
  /\ Uncaught(w)
  /\ NoStatement
  /\ UNCHANGED <<running, lifecycleVars>>

Executing(c) ==
  /\ Alive
  /\ StatementStep(c)
  /\ UNCHANGED lifecycleVars

-----------------------------------------------------------------------------
(* The main thread.                                                          *)

Advance(from, to) ==
  /\ phase = from
  /\ phase' = to
  /\ UNCHANGED <<tick, initial>>

(* SIGINT, SIGTERM, the end of stdin, or a surface that fails.  Step 1 stops *)
(* the visualization, within a timeout, and writes nothing that is modelled; *)
(* step 2, scheduler.stop(timeout=0), sets the stop event.                   *)
BeginShutdown == Advance("serving", "scheduler_signalled") /\ UNCHANGED vars

(* Step 3: no new tool call; a refresh in a worker thread goes on.           *)
CloseStdio == Advance("scheduler_signalled", "stdio_closed") /\ UNCHANGED vars

(* Step 4: current_state() under the lock, then abort_snapshot on what it    *)
(* said.                                                                     *)
NothingToAbort ==
  /\ running = NoSnapshot
  /\ Advance("stdio_closed", "job_aborted")
  /\ UNCHANGED vars

AbortInFlight ==
  /\ running # NoSnapshot
  /\ Advance("stdio_closed", "aborting")
  /\ call' = [call EXCEPT ![Main] = WriterCall("abort_snapshot", running)]
  /\ NoStatement
  /\ UNCHANGED coordinatorVars

(* Mutant of AbortReturns: an exception of abort_snapshot is not caught.     *)
AbortReturnsUnlessRaised ==
  /\ call[Main].at = "returned"
  /\ Advance("aborting", "job_aborted")
  /\ UNCHANGED vars

(* abort_snapshot returned, or raised and was logged.                        *)
AbortReturns ==
  /\ call[Main].at \in {"returned", "raised"}
  /\ Advance("aborting", "job_aborted")
  /\ UNCHANGED vars

(* Step 5: the thread has exited, or the join has timed out: either way it   *)
(* is followed by the first half of step 6.                                  *)
CloseConnector == Advance("job_aborted", "connector_closed") /\ UNCHANGED vars

CloseKnowledgeStore ==
  /\ Advance("connector_closed", "store_closed")
  /\ CloseStore
  /\ UNCHANGED coordinatorVars

(* asyncio.run waits for the worker threads of the tools; os._exit for none. *)
Exit ==
  /\ Advance("store_closed", "exited")
  /\ \A w \in Tools : job[w].at = "idle"
  /\ UNCHANGED vars

(* A crash at any point or, after the exit, the next start.                  *)
RestartServer ==
  /\ Restart
  /\ phase' = "serving"
  /\ tick' = "sleeping"
  /\ initial' = TRUE

-----------------------------------------------------------------------------
ShutdownStep ==
  \/ CloseStdio
  \/ NothingToAbort
  \/ AbortInFlight
  \/ AbortReturns
  \/ CloseConnector
  \/ CloseKnowledgeStore
  \/ Exit

LifecycleNext ==
  \/ SchedulerWakes
  \/ SchedulerTick
  \/ TickEnds
  \/ InitialRefresh
  \/ \E w \in Tools : ToolRefresh(w)
  \/ \E w \in Workers : Working(w) \/ RequestOnClosedConnector(w)
  \/ \E c \in Clients : Executing(c)
  \/ BeginShutdown
  \/ ShutdownStep
  \/ RestartServer

LifecycleSpec == LifecycleInit /\ [][LifecycleNext]_allVars

(* Main runs (its steps are bounded by timeouts), and so do the refreshing   *)
(* threads, if only one or the other of them at a time.  Nothing obliges a   *)
(* signal, a tick, a tool call or a restart.                                 *)
LifecycleFairness ==
  /\ WF_allVars(ShutdownStep)
  /\ WF_allVars(Executing(Main))
  /\ WF_allVars(\E w \in Workers :
                   Working(w) \/ RequestOnClosedConnector(w) \/ Executing(w))

FairLifecycleSpec == LifecycleSpec /\ LifecycleFairness

-----------------------------------------------------------------------------
(* What the process promises.                                               *)

(* What a refresh reported stays true through a shutdown that aborts its    *)
(* snapshot and closes the connector and the store under it: "ok" means     *)
(* that the snapshot was committed (the abort may have failed it since),    *)
(* and an exception that it neither is nor will be current.                 *)
OutcomeSurvivesShutdown ==
  \A w \in Workers : job[w].at = "idle" /\ job[w].snap # NoSnapshot =>
    IF job[w].result = "ok"
      THEN disk.status[job[w].snap] \in {"completed", "failed"}
      ELSE disk.status[job[w].snap] # "completed"
             /\ disk.current # job[w].snap

(* The stop event ends the cadence: a scheduled refresh can begin after it  *)
(* only if its sleep had timed out before, so that at most one does, and    *)
(* after a successful join none (Scheduler.stop against _run).              *)
StopEndsCadence ==
  [][StopEventSet /\ tick \in {"sleeping", "exited"} =>
       tick' \in {"sleeping", "exited"} /\ job[Scheduler].at = "idle"]_allVars

(* A shutdown that has begun reaches the exit of the process, whatever the  *)
(* refreshing threads are doing, whether its abort returns or raises, and   *)
(* although asyncio.run waits for every refresh tool.                       *)
ShutdownCompletes == phase # "serving" ~> phase \in {"exited", "serving"}
=============================================================================
