--------------------------------- MODULE Startup ---------------------------------
(***************************************************************************)
(* The start of the process (main.py with config.py and the socket code of *)
(* visualization_server.py) and the release of what it has acquired when a *)
(* step fails or the event loop ends.                                      *)
(*                                                                         *)
(* The running server between "serving" and the end of its event loop is   *)
(* ServerLifecycle.                                                        *)
(***************************************************************************)
EXTENDS Naturals, Sequences, SequencesExt

CONSTANT
  Environments   \* functions from the fields to what the operator wrote

(* The order of _build_config.                                               *)
Fields == <<"base_url", "group_path", "access_token", "verify_ssl", "branch",
            "refresh_interval", "port">>

(* "malformed" is no http URL, no duration, no integer or no truth value;     *)
(* "out_of_range" a URL without a host, less than a minute, or no port;      *)
(* "overflow" what urlsplit or timedelta raise an exception for.             *)
Written == {"unset", "blank", "valid", "malformed", "out_of_range", "overflow"}

ASSUME EnvironmentsAssumption == Environments \subseteq [Range(Fields) -> Written]

VARIABLES
  environment,
  step,       \* what main does next
  field,      \* the field _build_config is at
  held,       \* what the process has acquired and not released
  attempted,  \* the sockets _bind_loopback_sockets has made
  lines,      \* the start-up errors on stderr
  ready,      \* the "ready" line has been logged
  exit        \* the exit status, NotYet before the exit

startupVars == <<environment, step, field, held, attempted, lines, ready, exit>>

NotYet == 2

-----------------------------------------------------------------------------
(* config.py.                                                               *)

Required == {"base_url", "group_path", "access_token"}

(* What the validator of a field says: a default stands in for what is not   *)
(* written, but for a blank branch; only the URL (a bad IPv6 literal) and    *)
(* the interval (no timedelta is as long) raise something else than a        *)
(* ConfigError.                                                              *)
Verdict(f, value) ==
  CASE value = "unset" -> IF f \in Required THEN "is required" ELSE "ok"
    [] value = "blank" ->
         IF f \in Required \cup {"branch"} THEN "must not be empty" ELSE "ok"
    [] value = "malformed" -> IF f \in {"group_path", "access_token", "branch"}
                                THEN "ok" ELSE "has the wrong form"
    [] value = "out_of_range" -> IF f \in {"base_url", "refresh_interval", "port"}
                                   THEN "is out of range" ELSE "ok"
    [] value = "overflow" -> IF f \in {"base_url", "refresh_interval"}
                               THEN "raises" ELSE "ok"
    [] OTHER -> "ok"

Interval == environment["refresh_interval"] \notin {"unset", "blank"}

Going(at) == step = at /\ exit = NotYet

(* sys.exit and exceptions before the try: nothing is held.                  *)
ExitAtOnce(line) ==
  /\ exit' = 1
  /\ lines' = lines \o line
  /\ UNCHANGED <<environment, step, field, held, attempted, ready>>

ValidField ==
  /\ Going("config") /\ field <= Len(Fields)
  /\ Verdict(Fields[field], environment[Fields[field]]) = "ok"
  /\ field' = field + 1
  /\ UNCHANGED <<environment, step, held, attempted, lines, ready, exit>>

InvalidField ==
  /\ Going("config") /\ field <= Len(Fields)
  /\ LET verdict == Verdict(Fields[field], environment[Fields[field]])
     IN \/ verdict = "raises" /\ ExitAtOnce(<< >>)
        \/ verdict \notin {"ok", "raises"} /\ ExitAtOnce(<<Fields[field]>>)

-----------------------------------------------------------------------------
(* main, after the configuration.                                           *)

Reach(next) ==
  /\ step' = next
  /\ UNCHANGED <<environment, field, lines, exit>>

OpenStore ==
  /\ Going("config") /\ field > Len(Fields)
  /\ held' = held \cup {"store"}
  /\ Reach("connector")
  /\ UNCHANGED <<attempted, ready>>

StoreUnusable ==
  /\ Going("config") /\ field > Len(Fields)
  /\ ExitAtOnce(<<"store">>)

MakeConnector ==
  /\ Going("connector")
  /\ held' = held \cup {"connector"}
  /\ Reach("ipv4")
  /\ UNCHANGED <<attempted, ready>>

(* socket, bind and listen of one address family.                            *)
Bind(family, next) ==
  /\ Going(family)
  /\ held' = held \cup {family}
  /\ attempted' = Append(attempted, family)
  /\ Reach(next)
  /\ UNCHANGED ready

(* Mutant of BindFails: only the socket that failed is closed.               *)
BindFailsClosesLast ==
  \E family \in {"ipv4", "ipv6"} :
    /\ Going(family)
    /\ held' = held \ {family}
    /\ lines' = Append(lines, "bind")
    /\ step' = "stop_scheduler"
    /\ UNCHANGED <<environment, field, attempted, ready, exit>>

(* An OSError closes the sockets made so far: bind_or_exit never returns     *)
(* them to main, whose own list stays empty.                                 *)
BindFails ==
  \E family \in {"ipv4", "ipv6"} :
    /\ Going(family)
    /\ held' = held \ ({family} \cup Range(attempted))
    /\ lines' = Append(lines, "bind")
    /\ step' = "stop_scheduler"
    /\ UNCHANGED <<environment, field, attempted, ready, exit>>

(* emit_ready_log.                                                           *)
LogReady ==
  /\ Going("ready")
  /\ ready' = TRUE
  /\ Reach("servers")
  /\ UNCHANGED <<held, attempted>>

(* The application, the server and the MCP server; then the scheduler and    *)
(* the initial refresh if an interval is configured.                         *)
BuildServers ==
  /\ Going("servers")
  /\ Reach(IF Interval THEN "scheduler" ELSE "serving")
  /\ UNCHANGED <<held, attempted, ready>>

StartScheduler ==
  /\ Going("scheduler")
  /\ held' = held \cup {"scheduler"}
  /\ Reach("initial")
  /\ UNCHANGED <<attempted, ready>>

FireInitialRefresh ==
  /\ Going("initial")
  /\ Reach("serving")
  /\ UNCHANGED <<held, attempted, ready>>

(* A constructor raises: the exception passes through main's finally.        *)
ConstructionRaises ==
  /\ step \in {"connector", "servers", "scheduler", "initial"} /\ exit = NotYet
  /\ Reach("stop_scheduler")
  /\ UNCHANGED <<held, attempted, ready>>

(* asyncio.run: the ordered shutdown has released everything but, if a step  *)
(* of it failed or timed out, some of it; or it raises.                      *)
LoopEnds ==
  /\ Going("serving")
  /\ held' \in SUBSET held
  /\ step' \in {"stop_scheduler", "stop_scheduler_ok"}
  /\ UNCHANGED <<environment, field, attempted, lines, ready, exit>>

-----------------------------------------------------------------------------
(* The finally of main.                                                     *)

ExitStatus == IF step \in {"stop_scheduler", "close"} THEN 1 ELSE 0

(* A refresh may outlast the join; then the thread dies with the process.    *)
StopScheduler ==
  /\ step \in {"stop_scheduler", "stop_scheduler_ok"} /\ exit = NotYet
  /\ \/ held' = held \ {"scheduler"}
     \/ UNCHANGED held
  /\ Reach(IF ExitStatus = 1 THEN "close" ELSE "close_ok")
  /\ UNCHANGED <<attempted, ready>>

Sockets == {"ipv4", "ipv6"}

(* Connector, sockets and store are closed, whatever is left of them; the    *)
(* sockets are those bind_or_exit returned.                                  *)
CloseAll ==
  /\ step \in {"close", "close_ok"} /\ exit = NotYet
  /\ held' = held \ ({"connector", "store"} \cup (IF Len(attempted) = 2 THEN Sockets ELSE {}))
  /\ exit' = ExitStatus
  /\ UNCHANGED <<environment, step, field, attempted, lines, ready>>

StartupInit ==
  /\ environment \in Environments
  /\ step = "config" /\ field = 1
  /\ held = {} /\ attempted = << >>
  /\ lines = << >> /\ ready = FALSE
  /\ exit = NotYet

StartupNext ==
  \/ ValidField
  \/ InvalidField
  \/ OpenStore
  \/ StoreUnusable
  \/ MakeConnector
  \/ Bind("ipv4", "ipv6")
  \/ Bind("ipv6", "ready")
  \/ BindFails
  \/ LogReady
  \/ BuildServers
  \/ StartScheduler
  \/ FireInitialRefresh
  \/ ConstructionRaises
  \/ LoopEnds
  \/ StopScheduler
  \/ CloseAll

StartupSpec == StartupInit /\ [][StartupNext]_startupVars

-----------------------------------------------------------------------------
(* Whatever fails, and wherever, the process exits with nothing left open   *)
(* but a scheduler that was started and would not stop; a failure is        *)
(* reported in at most one line, of the first field that is wrong, and never*)
(* with status 0; and nothing is served, or announced as ready, before the  *)
(* configuration is valid, the store open and both addresses bound          *)
(* (bind_or_exit, load_and_validate and the finally of main share the work).*)
FailedStartIsClean ==
  /\ exit # NotYet => held \subseteq (IF ready THEN {"scheduler"} ELSE {})
  /\ exit = 0 => ready
  /\ Len(lines) <= 1
  /\ lines # << >> /\ ~ready => exit = 1 \/ held \cap Sockets = {}
  /\ \A i \in 1..(field - 1) :
       Verdict(Fields[i], environment[Fields[i]]) = "ok"
  /\ lines # << >> /\ field <= Len(Fields) => lines = <<Fields[field]>>
  /\ ready /\ exit = NotYet /\ step \in {"servers", "scheduler", "initial", "serving"} =>
       {"store", "connector"} \cup Sockets \subseteq held
  /\ step = "serving" => ready
=============================================================================
