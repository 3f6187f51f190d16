----------------------------- MODULE MCServices ------------------------------
(* The threads and services around the control loop for TLC, with their      *)
(* liveness.  They share no variable here, so a behaviour moves one of them, *)
(* its subject, and leaves the others in their initial states.               *)
EXTENDS Integers

\* Those of the components.
CONSTANTS Requests, Invalid, FCU_CONNECT_ATTEMPTS, MaxSample, None

MCRequests ==
    {[arm |-> TRUE, manual |-> m, auto_takeoff |-> FALSE, throttle |-> 1000,
      tracker |-> FALSE, tracker_enable |-> "low", centered |-> TRUE] : m \in BOOLEAN}

Sight(box, jump, aligned, near) ==
    [box |-> box, jump |-> jump, aligned |-> aligned, near |-> near]
Config(lock, commit, align, timeout) ==
    [lock |-> lock, commit |-> commit, align |-> align, timeout |-> timeout]

\* Lost, off centre, centred and far, centred and near, near with a scale jump,
\* near and clipped at the edge.
AllSights ==
    {Sight("none", FALSE, FALSE, FALSE), Sight("clear", FALSE, FALSE, FALSE),
     Sight("clear", FALSE, TRUE, FALSE), Sight("clear", FALSE, TRUE, TRUE),
     Sight("clear", TRUE, TRUE, TRUE), Sight("clipped", FALSE, FALSE, TRUE)}

VARIABLES
    subject,    \* the instance this behaviour moves
    main, thread, stop_event, ready_event, failure, shutdown_error, opened,
    comm, in_hand, closed, slot, order, link, request_rc, joy_fail_safe,
    pc, lifecycle, next_start, attempt, started, running, stops, cleanup,
    after, error, app_stop_event, repeating, exit_code,
    worker, published, stamped, loop, held, seen, ctx, takeoff,
    recorder, enabled, flight_active, session_id, session_start, sample_index, unrecovered,
    odo, queue, recorder_writer, session, dropped_frames, dropped_odometry,
    disk, flights, samples, faults, past,
    tracker_pc, state, selected, fresh, store, config, trk, tracker_ready,
    tracker_exit_requested, sent, raised, stretched, tracker_past,
    pipe, runs, next_frame, pending, stopping, publisher, publishing, since,
    spacing, to_publish, wire, lost, receiver, newest, result_store, received

listenerVars == <<main, thread, stop_event, ready_event, failure,
                  shutdown_error, opened, comm, in_hand, closed, slot, order,
                  link, request_rc, joy_fail_safe>>
lifecycleVars == <<pc, lifecycle, next_start, attempt, started, running, stops,
                   cleanup, after, error, app_stop_event, repeating, exit_code>>
vehicleVars == <<worker, published, stamped, loop, held, seen, ctx, takeoff>>
blackboxVars == <<recorder, enabled, flight_active, session_id, session_start,
                  sample_index, unrecovered, odo, queue, recorder_writer, session,
                  dropped_frames, dropped_odometry, disk, flights, samples,
                  faults, past>>
trackerVars == <<tracker_pc, state, selected, fresh, store, config, trk,
                 tracker_ready, tracker_exit_requested, sent, raised,
                 stretched, tracker_past>>
resultsVars == <<pipe, runs, next_frame, pending, stopping, publisher,
                 publishing, since, spacing, to_publish, wire, lost, receiver,
                 newest, result_store, received>>
vars == <<subject, listenerVars, lifecycleVars, vehicleVars, blackboxVars,
          trackerVars, resultsVars>>

----------------------------------------------------------------------------
\* The listener thread against the application thread, with two valid snapshots
\* that differ.
Listener == INSTANCE JoystickListener

\* Every service may fail to start or to stop; signals at any step.
Lifecycle == INSTANCE AppLifecycle WITH
    stop_event <- app_stop_event

\* Samples published at any point of a pass of the control loop.
Vehicle == INSTANCE VehicleState

\* The writer behind a stop, with one fault.
Blackbox == INSTANCE Blackbox WITH
    main <- recorder, writer <- recorder_writer, Capacity <- 2,
    MaxFlights <- 1, MaxFrames <- 2, MaxOdometry <- 1, MaxFaults <- 1

\* A silent camera, with frames of every kind before.
Tracker == INSTANCE TrackerControl WITH
    pc <- tracker_pc, past <- tracker_past, Trackers <- {1},
    Sights <- AllSights, Configs <- {Config(2, 2, 2, 1)}, LockHistory <- 1,
    CommitTime <- 1, Steps <- {1}, AgeCap <- 3, RunCap <- 2

\* One run of the pipeline.
Results == INSTANCE VisionResults WITH
    worker <- publisher, held <- publishing, published <- to_publish,
    store <- result_store, MAX_FRAMES <- 3, MAX_RUNS <- 1, GAP <- 2, HWM <- 2

ASSUME InstancesAssumption ==
    /\ Listener!RequestsAssumption /\ Listener!InvalidAssumption
    /\ Lifecycle!AttemptsAssumption /\ Vehicle!SampleAssumption
    /\ Blackbox!BlackboxAssumption /\ Tracker!SightsAssumption
    /\ Tracker!ConfigsAssumption /\ Tracker!TrackerTimeAssumption
    /\ Tracker!NoneAssumption /\ Results!ConstantsAssumption

----------------------------------------------------------------------------
Init ==
    /\ subject \in {"listener", "lifecycle", "vehicle", "blackbox", "tracker",
                    "results"}
    /\ Listener!Init
    /\ Lifecycle!Init
    /\ Vehicle!Init
    /\ Blackbox!Init
    /\ Tracker!Init
    /\ Results!Init

\* A step of one instance; nothing else moves.
Moves(instance, A) == subject = instance /\ A /\ UNCHANGED subject

ListenerMoves(instance, A) ==
    /\ Moves(instance, A)
    /\ UNCHANGED <<lifecycleVars, vehicleVars, blackboxVars, trackerVars,
                   resultsVars>>
LifecycleMoves(instance, A) ==
    /\ Moves(instance, A)
    /\ UNCHANGED <<listenerVars, vehicleVars, blackboxVars, trackerVars,
                   resultsVars>>
VehicleMoves(instance, A) ==
    /\ Moves(instance, A)
    /\ UNCHANGED <<listenerVars, lifecycleVars, blackboxVars, trackerVars,
                   resultsVars>>
BlackboxMoves(instance, A) ==
    /\ Moves(instance, A)
    /\ UNCHANGED <<listenerVars, lifecycleVars, vehicleVars, trackerVars,
                   resultsVars>>
TrackerMoves(instance, A) ==
    /\ Moves(instance, A)
    /\ UNCHANGED <<listenerVars, lifecycleVars, vehicleVars, blackboxVars,
                   resultsVars>>
ResultsMoves(instance, A) ==
    /\ Moves(instance, A)
    /\ UNCHANGED <<listenerVars, lifecycleVars, vehicleVars, blackboxVars,
                   trackerVars>>

Next ==
    \/ ListenerMoves("listener", Listener!Next)
    \/ LifecycleMoves("lifecycle", Lifecycle!Next)
    \/ VehicleMoves("vehicle", Vehicle!Next)
    \/ BlackboxMoves("blackbox", Blackbox!Next)
    \/ TrackerMoves("tracker", Tracker!Next)
    \/ ResultsMoves("results", Results!Next)

\* The fairness of each component, for the instances whose liveness is checked.
Spec ==
    /\ Init /\ [][Next]_vars
    /\ WF_vars(ListenerMoves("listener", Listener!ThreadStep))
    /\ WF_vars(ListenerMoves("listener", Listener!Start))
    /\ WF_vars(ListenerMoves("listener", Listener!StartReady))
    /\ WF_vars(ListenerMoves("listener", Listener!DispatchPending))
    /\ WF_vars(LifecycleMoves("lifecycle", Lifecycle!Progress))
    /\ WF_vars(VehicleMoves("vehicle", Vehicle!Loop))
    /\ WF_vars(VehicleMoves("vehicle", Vehicle!Stamp("altitude")))
    /\ WF_vars(VehicleMoves("vehicle", Vehicle!Stamp("attitude")))
    /\ WF_vars(BlackboxMoves("blackbox", Blackbox!WriterStep))
    /\ WF_vars(TrackerMoves("tracker", Tracker!LoopStep))
    /\ WF_vars(ResultsMoves("results", Results!Worker))
    /\ WF_vars(ResultsMoves("results", Results!Receiver))
    /\ WF_vars(ResultsMoves("results", Results!Tick))
    /\ WF_vars(ResultsMoves("results", Results!Return))

----------------------------------------------------------------------------
\* The listener with its threads implements the link the control loop relies on.
ImplementsLink == Listener!ImplementsLink

\* A listener that started has an open connection, and its stop hides no failed
\* close.  No service is stopped twice, though a failed start stops thrice; a
\* failing stop keeps no other service from its own; RC output stops before what
\* supervises it, and the recorder behind the service that feeds it
\* (rc_channel_override.py, app_services.py, app.py).
StartAndStopAreSound ==
    /\ Listener!TypeOK /\ Listener!StartedMeansOpened /\ Listener!CloseFailureReported
    /\ Lifecycle!TypeOK /\ Lifecycle!StoppedOnce /\ Lifecycle!EveryStartedIsStopped
    /\ Lifecycle!RcStopsFirst /\ Lifecycle!RecorderOutlivesProducer

\* The speed and the attitude of a pass come with their own time, and it uses
\* nothing older than what was published when it began (app.py).
ReadingsAreCurrent ==
    /\ Vehicle!TypeOK /\ Vehicle!SpeedHasItsTime
    /\ Vehicle!PassIsCurrent

\* A failed start of the listener does not block start(); a start of the application
\* reaches the control loop or ends the process, and so does a stop request end it,
\* whatever fails on the way; the writer of a stopped recorder leaves no open
\* session, and the publisher ends behind run_pipeline (rc_channel_override.py,
\* app.py, main.py, blackbox.py, pipeline_runner.py).
ThreadsEnd ==
    /\ subject = "listener" => Listener!StartReturns
    /\ subject = "lifecycle" => Lifecycle!StopRequestEnds
    /\ subject = "lifecycle" => Lifecycle!StartEnds
    /\ subject = "blackbox" => Blackbox!StopEndsWriter
    /\ subject = "results" => Results!ReturnStopsWorker

\* A listener that dies puts the application in fail-safe for good; the newest sample
\* reaches the context with its own time; a silent camera leads out of TRACK, from
\* every phase; and the newest result reaches the control loop unless something
\* drops it (rc_channel_override.py, app.py, tracker_controller.py,
\* zmq_publisher.py).
NewsArrives ==
    /\ subject = "listener" => Listener!FailureReachesApp
    /\ subject = "vehicle" => Vehicle!NewestArrives
    /\ subject = "tracker" => Tracker!DeadCameraLeavesTrack
    /\ subject = "results" => Results!NewestArrives
=============================================================================
