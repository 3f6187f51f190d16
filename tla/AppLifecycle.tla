---------------------------- MODULE AppLifecycle ----------------------------
(* The life of the application: main.py installs the signal handlers, starts *)
(* the App and stops it whatever happens; App.start builds and starts the    *)
(* services in order and rolls back when one fails; AppServices.stop_all     *)
(* stops what was started, RC output first.                                  *)
(*                                                                           *)
(* The main thread is sequential; signals, the dispatcher that repeats the   *)
(* last frame and the failure of a service come between any two steps of it. *)
(* stop_all is a procedure: "cleanup" holds what it has still to stop and    *)
(* "after" where it returns to.                                              *)
EXTENDS Integers, Sequences, FiniteSets, SequencesExt

CONSTANT FCU_CONNECT_ATTEMPTS

AttemptsAssumption == FCU_CONNECT_ATTEMPTS \in Nat \ {0}

\* start_all.
StartOrder == <<"visual", "drone", "joystick", "blackbox", "mavlink", "selector">>

\* A bug for RcStopsFirst and RecorderOutlivesProducer: stopped as they started.
StopOrderOfStart == Append(StartOrder, "parameters")

\* stop_all.
StopOrder == <<"drone", "visual", "joystick", "mavlink", "blackbox", "selector", "parameters">>

Services == Range(StartOrder)

\* AppExitCode, and the 1 of an uncaught exception.
SUCCESS == 0
STARTUP_ERROR == 1
CLI_USAGE_ERROR == 2
SERIAL_PORT_NOT_FOUND == 3
FCU_CONNECTION_FAILED == 4

VARIABLES
    pc,          \* the main thread
    lifecycle,   \* App._lifecycle
    next_start,  \* place in StartOrder of the service to start
    attempt,     \* FCU connections tried
    started,     \* AppServices._started
    running,     \* services that run
    stops,       \* history: calls of stop per service
    cleanup, after,
    error,       \* exit code of the exception on its way up, SUCCESS for none
    stop_event,
    repeating,   \* the dispatcher repeats an RC frame
    exit_code    \* of the process, -1 while it runs

service_vars == <<started, running, stops, repeating>>
vars == <<pc, lifecycle, next_start, attempt, service_vars, cleanup, after, error,
          stop_event, exit_code>>

Init ==
    /\ pc = "parse" /\ lifecycle = "NEW"
    /\ next_start = 1 /\ attempt = 1
    /\ started = {} /\ running = {} /\ stops = [s \in Services |-> 0]
    /\ cleanup = <<>> /\ after = "none"
    /\ error = SUCCESS /\ stop_event = FALSE
    /\ repeating = FALSE /\ exit_code = -1

----------------------------------------------------------------------------
(* Starting.                                                                 *)

\* Calls of stop, counted up to 2 (bound).
Counted(n) == IF n < 2 THEN n + 1 ELSE n

startUnchanged == UNCHANGED <<stop_event, exit_code>>

\* parse_cli_args: help, version, alias and dump_config end the process, and so
\* does a usage error.
Parse ==
    /\ pc = "parse"
    /\ \/ pc' = "configure" /\ UNCHANGED exit_code
       \/ pc' = "exited" /\ exit_code' \in {SUCCESS, CLI_USAGE_ERROR}
    /\ UNCHANGED <<lifecycle, next_start, attempt, service_vars, cleanup, after, error, stop_event>>

\* build_vehicle_config: the YAML may be missing or broken.
Configure ==
    /\ pc = "configure"
    /\ \/ pc' = "validate" /\ UNCHANGED exit_code
       \/ pc' = "exited" /\ exit_code' = STARTUP_ERROR
    /\ UNCHANGED <<lifecycle, next_start, attempt, service_vars, cleanup, after, error, stop_event>>

\* The checks of the configuration, then the construction of the services.
Validate ==
    /\ pc = "validate"
    /\ lifecycle' = "STARTING"
    /\ \/ pc' = "start" /\ error' = SUCCESS
       \/ pc' = "failed" /\ error' \in {STARTUP_ERROR, SERIAL_PORT_NOT_FOUND}
    /\ UNCHANGED <<next_start, attempt, service_vars, cleanup, after>> /\ startUnchanged

Starting == StartOrder[next_start]

Started(s) ==
    /\ running' = running \cup {s}
    /\ started' = started \cup {s}
    /\ IF next_start = Len(StartOrder)
       THEN pc' = "announce" /\ UNCHANGED next_start
       ELSE next_start' = next_start + 1 /\ UNCHANGED pc

\* A bug for StartEnds: the start goes on behind the rollback.
RollbackAndRetry(code) ==
    /\ error' = SUCCESS
    /\ pc' = "stopping" /\ cleanup' = StopOrder /\ after' = "start"

\* start_all's handler: stop_all, and the exception goes on.
Rollback(code) ==
    /\ error' = code
    /\ pc' = "stopping" /\ cleanup' = StopOrder /\ after' = "failed"

\* _start: a service that fails to start is stopped too.
StartService ==
    /\ pc = "start" /\ Starting # "drone"
    /\ \/ /\ Started(Starting)
          /\ UNCHANGED <<stops, cleanup, after, error>>
       \/ /\ Rollback(STARTUP_ERROR)
          /\ stops' = [stops EXCEPT ![Starting] = Counted(@)]
          /\ UNCHANGED <<started, running, next_start>>
    /\ UNCHANGED <<lifecycle, attempt, repeating>> /\ startUnchanged

LastAttempt == attempt = FCU_CONNECT_ATTEMPTS

\* _start_drone: OSError is retried, a missing dependency is not, and what
\* else the adapter raises goes up as it is.
StartDrone ==
    /\ pc = "start" /\ Starting = "drone"
    /\ \/ /\ Started("drone")
          /\ UNCHANGED <<attempt, cleanup, after, error>>
       \/ /\ ~LastAttempt
          /\ attempt' = attempt + 1
          /\ UNCHANGED <<pc, next_start, started, running, cleanup, after, error>>
       \/ /\ \/ LastAttempt /\ Rollback(FCU_CONNECTION_FAILED)
             \/ \E code \in {FCU_CONNECTION_FAILED, STARTUP_ERROR} : Rollback(code)
          /\ UNCHANGED <<attempt, next_start, started, running>>
    /\ UNCHANGED <<lifecycle, stops, repeating>> /\ startUnchanged

\* RUNNING is set, then the ground station is told, which may fail.
Announce ==
    /\ pc = "announce"
    /\ lifecycle' = "RUNNING"
    /\ \/ pc' = "loop" /\ UNCHANGED error
       \/ pc' = "failed" /\ error' = STARTUP_ERROR
    /\ UNCHANGED <<next_start, attempt, service_vars, cleanup, after>> /\ startUnchanged

\* App.start's handler: stop_all once more, then FAILED.
StartFailed ==
    /\ pc = "failed"
    /\ lifecycle' = "FAILED"
    /\ pc' = "stopping" /\ cleanup' = StopOrder /\ after' = "finally"
    /\ UNCHANGED <<next_start, attempt, service_vars, error>> /\ startUnchanged

----------------------------------------------------------------------------
(* The control loop, as far as its end.                                      *)

\* An iteration dispatches a frame; a stop request behind its last test of the
\* event does not keep it back.
Frame ==
    /\ pc = "loop"
    /\ repeating' = TRUE
    /\ UNCHANGED <<pc, lifecycle, next_start, attempt, started, running, stops, cleanup, after,
                   error, stop_event, exit_code>>

\* A bug for StopRequestEnds: only a loop that sends nothing looks at the event.
LeaveIdleLoop ==
    /\ pc = "loop" /\ stop_event /\ ~repeating
    /\ pc' = "finally"
    /\ UNCHANGED <<lifecycle, next_start, attempt, service_vars, cleanup, after, error,
                   stop_event, exit_code>>

LeaveLoop ==
    /\ pc = "loop" /\ stop_event
    /\ pc' = "finally"
    /\ UNCHANGED <<lifecycle, next_start, attempt, service_vars, cleanup, after, error,
                   stop_event, exit_code>>

\* A fatal MSP error or an exception of an iteration goes up.
LoopRaises ==
    /\ pc = "loop"
    /\ pc' = "finally" /\ error' = STARTUP_ERROR
    /\ UNCHANGED <<lifecycle, next_start, attempt, service_vars, cleanup, after, stop_event,
                   exit_code>>

----------------------------------------------------------------------------
(* Stopping.                                                                 *)

\* _run_application's finally: app.stop, which does nothing twice.
Finally ==
    /\ pc = "finally"
    /\ stop_event' = TRUE
    /\ lifecycle' = "STOPPING"
    /\ pc' = "stopping" /\ cleanup' = StopOrder /\ after' = "stopped"
    /\ UNCHANGED <<next_start, attempt, service_vars, error, exit_code>>

\* A bug for EveryStartedIsStopped: an exception of stop ends stop_all.
ContinueUnlessFailed(failed) == IF failed THEN <<>> ELSE Tail(cleanup)

\* _stop_resource swallows it.
Continue(failed) == Tail(cleanup)

\* One resource of stop_all, when it is started; its stop may raise and leave
\* it running (a thread that outlives its join).  The adapter stops the
\* dispatcher before it closes the transport, so nothing is repeated then.
StopNext ==
    /\ pc = "stopping" /\ cleanup # <<>>
    /\ LET s == Head(cleanup)
       IN  IF s \in started
           THEN \E failed \in BOOLEAN :
                    /\ stops' = [stops EXCEPT ![s] = Counted(@)]
                    /\ running' = IF failed THEN running ELSE running \ {s}
                    /\ repeating' = (repeating /\ s # "drone")
                    /\ cleanup' = Continue(failed)
           ELSE cleanup' = Tail(cleanup) /\ UNCHANGED <<stops, running, repeating>>
    /\ UNCHANGED <<pc, lifecycle, next_start, attempt, started, after, error, stop_event,
                   exit_code>>

\* A bug for StoppedOnce: the list of started services is kept.
StartedKept == started

StartedCleared == {}

StopReturns ==
    /\ pc = "stopping" /\ cleanup = <<>>
    /\ started' = StartedCleared
    /\ pc' = after
    /\ UNCHANGED <<lifecycle, next_start, attempt, running, stops, repeating, cleanup, after,
                   error, stop_event, exit_code>>

\* main: a startup error exits with its code, any other exception with 1.
Exit ==
    /\ pc = "stopped"
    /\ lifecycle' = "STOPPED"
    /\ exit_code' = error
    /\ pc' = "exited"
    /\ UNCHANGED <<next_start, attempt, service_vars, cleanup, after, error, stop_event>>

----------------------------------------------------------------------------

\* SIGINT and SIGTERM, once _run_application has its handlers: request_stop.
Signal ==
    /\ pc \notin {"parse", "configure", "exited"} /\ ~stop_event
    /\ stop_event' = TRUE
    /\ UNCHANGED <<pc, lifecycle, next_start, attempt, service_vars, cleanup, after, error,
                   exit_code>>

\* What the main thread does without an exception of the loop.
Progress ==
    \/ Parse \/ Configure \/ Validate \/ StartService \/ StartDrone \/ Announce \/ StartFailed
    \/ LeaveLoop \/ Finally \/ StopNext \/ StopReturns \/ Exit

Main == Progress \/ Frame \/ LoopRaises

Next == Main \/ Signal

Spec == Init /\ [][Next]_vars

\* The main thread is scheduled, every call it makes returns, and the loop looks
\* at the stop event in every iteration.  Nothing makes the loop raise.
FairSpec == Spec /\ WF_vars(Progress)

----------------------------------------------------------------------------

TypeOK ==
    /\ pc \in {"parse", "configure", "validate", "start", "announce", "loop", "failed", "finally", "stopping",
               "stopped", "exited"}
    /\ lifecycle \in {"NEW", "STARTING", "RUNNING", "STOPPING", "STOPPED", "FAILED"}
    /\ next_start \in 1..Len(StartOrder) /\ attempt \in 1..FCU_CONNECT_ATTEMPTS
    /\ started \subseteq Services /\ running \subseteq Services
    /\ stops \in [Services -> 0..2]
    /\ cleanup \in Seq(Range(StopOrder))
    /\ exit_code \in -1..4

\* Although a failed start passes through stop_all three times and stops the
\* service that failed by itself, no service is stopped twice.
StoppedOnce == \A s \in Services : stops[s] <= 1

\* A failing stop keeps no other service from its own: at the end each one
\* that runs has had its stop (review_and_to_do.md:294).
EveryStartedIsStopped == pc = "exited" => \A s \in running : stops[s] = 1

\* RC output stops before the listeners and the recorder do, so the flight
\* controller falls back to its own failsafe instead of being fed a frame that
\* nobody supervises.
RcStopsFirst == repeating => \A s \in Services : stops[s] = 0

\* The MAVLink service records odometry: its recorder stops after it.
RecorderOutlivesProducer ==
    stops["blackbox"] = 1 /\ "mavlink" \in running => stops["mavlink"] = 1

\* A stop request ends the process, whatever else fails on the way.
StopRequestEnds == stop_event ~> pc = "exited"

\* A start reaches the loop or ends the process.
StartEnds == <>(pc \in {"loop", "exited"})

\* app.py:791 of run(): "all initialized services are given a chance to stop
\* before this method returns or raises".
RunStopsServices == pc = "finally" => \A s \in running : stops[s] = 1

=============================================================================
