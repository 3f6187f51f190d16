----------------------------- MODULE MCStations ------------------------------
(* What the vehicle exchanges with its ground stations and its recorder, for *)
(* TLC: telemetry, parameters and the blackbox.  They share no variable      *)
(* here, so a behaviour moves one of them, its subject, and leaves the       *)
(* others in their initial states.                                           *)
EXTENDS Integers, Sequences

CONSTANTS
    Subjects,   \* the instances a run moves
    None,
    Keys, MaxTexts, MaxSetpoints, MaxDatagrams, MaxEvents, MaxChanges, MaxSocketFaults,
    MaxPoll,
    Names, TypeOf, Minimum, Maximum, Options, Defaults, Values, NaN, Grain, Unknown,
    Operations, Retries, MaxRuns, MaxFaults, MaxStation,   \* of the parameters
    Capacity, MaxFlights, MaxFrames, MaxOdometry, MaxRecorderFaults

\* A float parameter with limits and an int one with options, as TAKEOFF_ALT and
\* TRK_YAW_SIGN are in parameters.yaml; 2 and 4 are 32-bit floats, 6 and -1 are
\* outside the limits.
MCNames == <<"alt", "sign">>
MCType == [alt |-> "float", sign |-> "int"]
MCMinimum == [alt |-> 0, sign |-> None]
MCMaximum == [alt |-> 4, sign |-> None]
MCOptions == [alt |-> None, sign |-> {-1, 1}]
MCDefaults == [alt |-> 2, sign |-> 1]
SmallValues == {4, 6}
ExactValues == {4, 6, -1}

VARIABLES
    subject,    \* the instance this behaviour moves
    due, later, scheduled, scheduler, scheduler_item, stop_event, wake_event,
    main, todo, socket, vehicle_armed, inbox, polled, parser, gcs, texts, setpoints,
    datagrams, changes, socket_faults,
    value, file, armed, tool, requests, replies, runs, faults, station, last,
    held, stored, wrote,
    recorder, enabled, flight_active, session_id, session_start, sample_index, unrecovered,
    odo, queue, writer, session, dropped_frames, dropped_odometry, disk,
    flights, samples, recorder_faults, past

mavlinkVars == <<due, later, scheduled, scheduler, scheduler_item, stop_event,
                 wake_event, main, todo, socket, vehicle_armed, inbox, polled,
                 parser, gcs, texts, setpoints, datagrams, changes, socket_faults>>
parametersVars == <<value, file, armed, tool, requests, replies, runs, faults,
                    station, last, held, stored, wrote>>
blackboxVars == <<recorder, enabled, flight_active, session_id, session_start,
                  sample_index, unrecovered, odo, queue, writer, session, dropped_frames,
                  dropped_odometry, disk, flights, samples, recorder_faults,
                  past>>
vars == <<subject, mavlinkVars, parametersVars, blackboxVars>>

----------------------------------------------------------------------------
\* Texts, set-points, requests and a failing send around the worker; a list is
\* answered with every parameter.
Mavlink == INSTANCE MavlinkService WITH
    active <- scheduled, worker <- scheduler, item <- scheduler_item,
    armed <- vehicle_armed, faults <- socket_faults,
    MaxFaults <- MaxSocketFaults, ListSize <- Len(Names)

\* Runs of the tool against a station, an arming and faults of the line.
Parameters == INSTANCE ParameterProtocol

\* Two flights, a full buffer, a failing write or a kill at any step.
Blackbox == INSTANCE Blackbox WITH
    main <- recorder, faults <- recorder_faults, MaxFaults <- MaxRecorderFaults

ASSUME InstancesAssumption ==
    /\ Mavlink!MavlinkAssumption /\ Parameters!ParameterAssumption
    /\ Blackbox!BlackboxAssumption

----------------------------------------------------------------------------
Init ==
    /\ subject \in Subjects
    /\ Mavlink!Init
    /\ Parameters!Init
    /\ Blackbox!Init

\* A step of one instance; nothing else moves.
Moves(instance, A) == subject = instance /\ A /\ UNCHANGED subject

MavlinkMoves(instance, A) ==
    Moves(instance, A) /\ UNCHANGED <<parametersVars, blackboxVars>>
ParametersMoves(instance, A) ==
    Moves(instance, A) /\ UNCHANGED <<mavlinkVars, blackboxVars>>
BlackboxMoves(instance, A) ==
    Moves(instance, A) /\ UNCHANGED <<mavlinkVars, parametersVars>>

Next ==
    \/ MavlinkMoves("mavlink", Mavlink!Next)
    \/ ParametersMoves("parameters", Parameters!Next)
    \/ BlackboxMoves("blackbox", Blackbox!Next)

Spec == Init /\ [][Next]_vars

----------------------------------------------------------------------------
\* A periodic command is in the queue once, however often it is sent again; texts
\* reach the ground station in their order, and answers in the order of their
\* requests unless the earlier one is further back in its list (scheduler/,
\* mavlink_wrapper.py, parameters/mavlink.py).
MessagesAreInOrder ==
    Mavlink!TypeOK /\ Mavlink!RepeatsDoNotMultiply /\ Mavlink!TextsInOrder

\* What the tool reports of a parameter was so during its run, a list is complete
\* and each of its values was the vehicle's during the run, a save that succeeds
\* has written the file, and memory and file hold only values within the limits
\* (mavlink_transport.py, parameters/).
ToolReportsTheTruth ==
    /\ Parameters!TypeOK /\ Parameters!LimitsHold
    /\ Parameters!ReportIsTrue /\ Parameters!ListIsTrue /\ Parameters!SavedIsWritten

\* A set that is reported as rejected was not stored; it fails, see section 5 of
\* README.md.
RejectedIsRefused == Parameters!RejectedIsRefused

\* A session marked complete holds everything its flight recorded, every dropped
\* row is counted, the metadata lists only chunks that were written, and a start
\* closes the sessions an earlier process left open, but for those whose recovery
\* fails (blackbox.py).
RecordIsSound ==
    /\ Blackbox!TypeOK /\ Blackbox!CompleteIsComplete /\ Blackbox!DropsAreReported
    /\ Blackbox!ListedChunksExist /\ Blackbox!RestartClosesSessions
=============================================================================
