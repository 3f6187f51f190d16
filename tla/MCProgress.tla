----------------------------- MODULE MCProgress ------------------------------
(* What must happen in the components around the flight loop, for TLC.  They *)
(* share no variable here, so a behaviour moves one of them, its subject,    *)
(* and leaves the others in their initial states.                            *)
EXTENDS Integers

\* None and c1 (a frame of RC channels) are those of the components.
CONSTANTS None, c1

MavlinkKeys == {"heartbeat", "receive_pending", "named_value_float"}
MCInterval == [k \in {"rc", "altitude"} |-> IF k = "rc" THEN 1 ELSE 2]

\* A float parameter with limits and an int one with options, as TAKEOFF_ALT and
\* TRK_YAW_SIGN are in parameters.yaml; 2 and 4 are 32-bit floats, 6 is above the limit.
MCNames == <<"alt", "sign">>
MCType == [alt |-> "float", sign |-> "int"]
MCMinimum == [alt |-> 0, sign |-> None]
MCMaximum == [alt |-> 4, sign |-> None]
MCOptions == [alt |-> None, sign |-> {-1, 1}]
MCDefaults == [alt |-> 2, sign |-> 1]

\* The NanoTrack backend with a reticle of one size.
Nano == [backend |-> "cpu_nano", frame |-> 1, size |-> 1, max_size |-> 1,
         resizable |-> FALSE, stamps |-> {0}, objects |-> {}, max_age |-> 1]

VARIABLES
    subject,    \* the instance this behaviour moves
    app, worker, heap, active, item, deadline, stop_event, wake_event, fatal,
    latest, fcu,
    due, later, scheduled, scheduler, scheduler_item, scheduler_stop,
    scheduler_wake, main, todo, socket, vehicle_armed, inbox, polled, parser, gcs, texts,
    setpoints, datagrams, changes, socket_faults,
    value, file, armed, tool, requests, replies, runs, faults, station, last,
    held, stored, wrote,
    setup, mode, center, width, selector_wire, command, age, applied, since_poll,
    caps, backend_enabled, box, target, followed, reticle

dispatcherVars == <<app, worker, heap, active, item, deadline, stop_event,
                    wake_event, fatal, latest, fcu>>
mavlinkVars == <<due, later, scheduled, scheduler, scheduler_item,
                 scheduler_stop, scheduler_wake, main, todo, socket,
                 vehicle_armed, inbox, polled, parser, gcs, texts, setpoints, datagrams,
                 changes, socket_faults>>
parametersVars == <<value, file, armed, tool, requests, replies, runs, faults,
                    station, last, held, stored, wrote>>
targetVars == <<setup, mode, center, width, selector_wire, command, age,
                applied, since_poll, caps, backend_enabled, box, target,
                followed, reticle>>
vars == <<subject, dispatcherVars, mavlinkVars, parametersVars, targetVars>>

----------------------------------------------------------------------------
\* The RC command and one telemetry command that repeats half as often.
Dispatcher == INSTANCE MspDispatcher WITH
    Keys <- {"rc", "altitude"}, Interval <- MCInterval, IdleWait <- 1,
    Channels <- {c1}, Tokens <- 1..4, MaxQueue <- 3, MaxLag <- 1

\* Requests of the ground station, and a change of what telemetry shows.
Mavlink == INSTANCE MavlinkService WITH
    active <- scheduled, worker <- scheduler, item <- scheduler_item,
    stop_event <- scheduler_stop, wake_event <- scheduler_wake,
    armed <- vehicle_armed, faults <- socket_faults, Keys <- MavlinkKeys,
    MaxTexts <- 0, MaxSetpoints <- 0, MaxDatagrams <- 2, MaxEvents <- 2, MaxChanges <- 1,
    MaxFaults <- 1, MaxPoll <- 2, ListSize <- 2
\* Two set-points to show.
Setpoints == INSTANCE MavlinkService WITH
    active <- scheduled, worker <- scheduler, item <- scheduler_item,
    stop_event <- scheduler_stop, wake_event <- scheduler_wake,
    armed <- vehicle_armed, faults <- socket_faults, Keys <- MavlinkKeys,
    MaxTexts <- 0, MaxSetpoints <- 2, MaxDatagrams <- 0, MaxEvents <- 2, MaxChanges <- 0,
    MaxFaults <- 0, MaxPoll <- 2, ListSize <- 2

\* A run of the tool over a line with two faults, while the station sets a parameter.
Parameters == INSTANCE ParameterProtocol WITH
    Names <- MCNames, TypeOf <- MCType, Minimum <- MCMinimum,
    Maximum <- MCMaximum, Options <- MCOptions, Defaults <- MCDefaults,
    Values <- {4, 6}, NaN <- 99, Grain <- 2, Unknown <- "unknown",
    Operations <- {"get", "set", "list", "save"}, Retries <- 2, MaxRuns <- 1,
    MaxFaults <- 2, MaxStation <- 1

\* The pilot's selector and that backend.
Target == INSTANCE TargetSelection WITH
    latest <- command, wire <- selector_wire, enabled <- backend_enabled,
    Setups <- {Nano}, POLL <- 1, HWM <- 1

ASSUME InstancesAssumption ==
    /\ Mavlink!MavlinkAssumption /\ Setpoints!MavlinkAssumption
    /\ Parameters!ParameterAssumption /\ Target!ConstantsAssumption

----------------------------------------------------------------------------
Init ==
    /\ subject \in {"dispatcher", "mavlink", "set-points", "parameters",
                    "target"}
    /\ Dispatcher!Init /\ active["altitude"] = 1  \* tokens are interchangeable
    /\ Mavlink!Init
    /\ Parameters!Init
    /\ Target!Init

\* A step of one instance; nothing else moves.
Moves(instance, A) == subject = instance /\ A /\ UNCHANGED subject

DispatcherMoves(instance, A) ==
    Moves(instance, A) /\ UNCHANGED <<mavlinkVars, parametersVars, targetVars>>
MavlinkMoves(instance, A) ==
    /\ Moves(instance, A)
    /\ UNCHANGED <<dispatcherVars, parametersVars, targetVars>>
ParametersMoves(instance, A) ==
    Moves(instance, A) /\ UNCHANGED <<dispatcherVars, mavlinkVars, targetVars>>
TargetMoves(instance, A) ==
    /\ Moves(instance, A)
    /\ UNCHANGED <<dispatcherVars, mavlinkVars, parametersVars>>

Next ==
    \/ DispatcherMoves("dispatcher", Dispatcher!Next)
    \/ MavlinkMoves("mavlink", Mavlink!Next)
    \/ MavlinkMoves("set-points", Setpoints!Next)
    \/ ParametersMoves("parameters", Parameters!Next)
    \/ TargetMoves("target", Target!Next)

\* The fairness of each component, for the instances whose liveness is checked.
Spec ==
    /\ Init /\ [][Next]_vars
    /\ WF_vars(DispatcherMoves("dispatcher", Dispatcher!AppStep))
    /\ WF_vars(DispatcherMoves("dispatcher", Dispatcher!Worker))
    /\ WF_vars(DispatcherMoves("dispatcher", Dispatcher!Tick))
    /\ WF_vars(MavlinkMoves("mavlink", Mavlink!Worker))
    /\ WF_vars(MavlinkMoves("mavlink", Mavlink!Execute))
    /\ \A k \in MavlinkKeys \union {None} : WF_vars(MavlinkMoves("mavlink", Mavlink!DueAt(k)))
    /\ WF_vars(MavlinkMoves("set-points", Setpoints!Worker))
    /\ WF_vars(MavlinkMoves("set-points", Setpoints!Execute))
    /\ \A k \in MavlinkKeys \union {None} : WF_vars(MavlinkMoves("set-points", Setpoints!DueAt(k)))
    /\ WF_vars(ParametersMoves("parameters", Parameters!Deadline))
    /\ WF_vars(TargetMoves("target", Target!HoldLocked))
    /\ WF_vars(TargetMoves("target", Target!Receive))
    /\ WF_vars(TargetMoves("target", Target!Poll))
    /\ WF_vars(TargetMoves("target", Target!Negotiate))

----------------------------------------------------------------------------
\* Every MSP command is served until the worker ends, telemetry goes on until its
\* service is stopped, and a request that was received behind no
\* unfinished frame is answered, a list with every parameter (command_dispatcher.py,
\* scheduler/, mavlink_wrapper.py).
RequestsAreServed ==
    /\ subject = "dispatcher" => Dispatcher!EveryKeyServed
    /\ subject = "mavlink" => Mavlink!KeepsBeating
    /\ subject = "mavlink" => Mavlink!EveryRequestAnswered

\* A fatal error of the MSP worker reaches the loop and ends it, the newest setpoint
\* reaches the ground station, and a pilot who keeps a lock gets it
\* (command_dispatcher.py, app.py, mavlink_wrapper.py, pipeline_runner.py).
NewsIsActedOn ==
    /\ subject = "dispatcher" => Dispatcher!FatalSurfaces
    /\ subject = "set-points" => Setpoints!NewestIsShown
    /\ subject = "target" => Target!PilotIsObeyed

\* The worker of a stopped scheduler ends, and so does a run of the parameter tool,
\* whatever is lost (scheduler/worker.py, mavlink_transport.py).
WorkersEnd ==
    /\ subject = "mavlink" => Mavlink!StopEndsWorker
    /\ subject = "parameters" => Parameters!OperationEnds
=============================================================================
