------------------------------ MODULE MCTracker ------------------------------
(* The tracker for TLC: its phases, and the limits of its commands.  The two *)
(* share no variable here, so a behaviour moves one of them, its subject,    *)
(* and leaves the other in its initial state.                                *)
EXTENDS Integers

CONSTANTS
    Subjects,        \* the instances a run moves
    \* Those of the tracker.
    Trackers, Sights, Configs, LockHistory, CommitTime, Steps, AgeCap, RunCap, None,
    \* Those of the commands, the lateral ones and the vertical loop.
    Full, Dts, AccelLimit,
    LateralConfigs, LateralErrors, LateralSpeeds, LateralRequests,
    VerticalConfigs, VerticalErrors, VerticalSpeeds, VerticalRequests

Sight(box, jump, aligned, near) ==
    [box |-> box, jump |-> jump, aligned |-> aligned, near |-> near]
Config(lock, commit, align, timeout) ==
    [lock |-> lock, commit |-> commit, align |-> align, timeout |-> timeout]

\* Lost, off centre, centred and far, centred and near, near with a scale jump,
\* near and clipped at the edge.
AllSights ==
    {Sight("none", FALSE, FALSE, FALSE), Sight("clear", FALSE, FALSE, FALSE),
     Sight("clear", FALSE, TRUE, FALSE), Sight("clear", FALSE, TRUE, TRUE),
     Sight("clear", TRUE, TRUE, TRUE), Sight("clipped", FALSE, FALSE, TRUE)}

\* Two configurations that replace each other, with different commit gates and
\* time-outs; and one that from_parameters refuses.
GateConfigs == {Config(2, 2, 1, 1), Config(2, 1, 1, 0), Config(2, 0, 0, 1)}
TwoTimeouts == {Config(2, 2, 1, 1), Config(2, 2, 1, 3)}

\* Two configurations of the limits, so that each shrinks and grows at run time;
\* one pair moves the lateral commands, the other the vertical loop, which share
\* no state.
Level == [pitch_min |-> 0, align_pitch |-> 0, slow |-> 0, stop |-> 2, deadband |-> 0,
          pitch_slew |-> 1, recovery_slew |-> 2, roll_max |-> 0, roll_slew |-> 1,
          yaw_max |-> 0, yaw_slew |-> 1, dy_max |-> 0, near_max |-> 0,
          speed_min |-> -1, speed_max |-> 1, accel |-> 0,
          kp |-> 1, ki |-> 1, kd |-> 1, i_max |-> 0, throttle_max |-> 0]
WideLateral == [Level EXCEPT !.pitch_min = -4, !.align_pitch = -1, !.roll_max = 2, !.yaw_max = 3]
NarrowLateral == [WideLateral EXCEPT
    !.pitch_min = -1, !.align_pitch = 0, !.roll_max = 1, !.yaw_max = 1, !.deadband = 1]
WideAndNarrowLateral == {WideLateral, NarrowLateral}

WideVertical == [Level EXCEPT !.dy_max = 1, !.near_max = 2, !.speed_min = -2, !.accel = 1,
                              !.i_max = 2, !.throttle_max = 3]
NarrowVertical == [WideVertical EXCEPT !.i_max = 1, !.throttle_max = 1, !.near_max = 1]
WideAndNarrowVertical == {WideVertical, NarrowVertical}

EveryError == -2..2
SomeErrors == {-2, 1, 2}
SomeSpeeds == {-2, 0, 1}
SomeRequests == {-5, -2, 1}

VARIABLES
    subject,    \* the instance this behaviour moves
    pc, state, selected, fresh, store, config, trk, tracker_ready,
    tracker_exit_requested, sent, raised, stretched, past,
    limits, aligned, pitch, roll, yaw, setpoint, integral, filtered, previous,
    demand, elapsed

trackerVars == <<pc, state, selected, fresh, store, config, trk, tracker_ready,
                 tracker_exit_requested, sent, raised, stretched, past>>
commandsVars == <<limits, aligned, pitch, roll, yaw, setpoint, integral,
                  filtered, previous, demand, elapsed>>
vars == <<subject, trackerVars, commandsVars>>

----------------------------------------------------------------------------
\* Acquisition, alignment, commit and loss, with parameter changes in between.
Tracker == INSTANCE TrackerControl

\* Pitch, roll and yaw under wide and narrow limits.
Lateral == INSTANCE TrackerCommands WITH
    config <- limits, Configs <- LateralConfigs, Errors <- LateralErrors,
    Speeds <- LateralSpeeds, Requests <- LateralRequests
\* The vertical speed loop under wide and narrow limits.
Vertical == INSTANCE TrackerCommands WITH
    config <- limits, Configs <- VerticalConfigs, Errors <- VerticalErrors,
    Speeds <- VerticalSpeeds, Requests <- VerticalRequests

ASSUME InstancesAssumption ==
    /\ Tracker!SightsAssumption /\ Tracker!ConfigsAssumption
    /\ Tracker!TrackerTimeAssumption /\ Tracker!NoneAssumption
    /\ Lateral!CommandsAssumption /\ Vertical!CommandsAssumption

----------------------------------------------------------------------------
Init ==
    /\ subject \in Subjects
    /\ Tracker!Init
    /\ IF subject = "vertical" THEN Vertical!Init ELSE Lateral!Init
    /\ subject # "control" => config = CHOOSE c \in Configs : Tracker!Valid(c)
    /\ subject = "control" => limits = CHOOSE c \in LateralConfigs : TRUE

\* A step of one instance; nothing else moves.
Moves(instance, A) == subject = instance /\ A /\ UNCHANGED subject

TrackerMoves(instance, A) == Moves(instance, A) /\ UNCHANGED <<commandsVars>>
CommandsMoves(instance, A) == Moves(instance, A) /\ UNCHANGED <<trackerVars>>

Next ==
    \/ TrackerMoves("control", Tracker!Next)
    \/ CommandsMoves("lateral", Lateral!Next)
    \/ CommandsMoves("vertical", Vertical!Next)

Spec == Init /\ [][Next]_vars

----------------------------------------------------------------------------
\* The machine starts the tracker only when that cannot fail (sm.py, app.py).
StartNeverRaises == Tracker!TypeOK /\ Tracker!StartNeverRaises

\* COMMIT needs the alignment and the frames the configuration asks for, a count of
\* frames rises only with a frame not seen before, and a committed run ends by its
\* deadline or by leaving TRACK, nothing else, whatever parameters change meanwhile
\* (tracker_controller.py).  Not promised of a session in which a change of the
\* time-out let an update fly by a frame that was too old: see `stretched`.
CommitIsEarned ==
    Tracker!CountsDistinctFrames /\ Tracker!CommitIsEarned /\ Tracker!CommitIsFrozen

\* A duplicate frame advances no counter; it fails, see section 5 of README.md.
DuplicateNeverAdvances == Tracker!DuplicateNeverAdvances

\* The vehicle is never told to fly backward, and the acceleration that the vertical
\* loop takes from its samples stays a physical one.  A command beyond a limit that shrank moves back and
\* never further out; pitch, roll and yaw change no faster than their slew limits;
\* the integral of the vertical loop does not grow against a saturated output
\* (tracker_controller.py).
CommandsAreLimited ==
    /\ [](subject = "lateral" => Lateral!NeverBackward)
    /\ [](subject = "vertical" => Vertical!TypeOK /\ Vertical!AccelerationIsPhysical)
    /\ Lateral!NeverFurtherOut /\ Lateral!StepsAreSlewed /\ Vertical!WindupFree
=============================================================================
