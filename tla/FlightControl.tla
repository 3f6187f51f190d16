---------------------------- MODULE FlightControl ----------------------------
(* The 50 Hz control loop of App.run with the flight state machine it       *)
(* resolves (app.py, sm.py).  One iteration is seven steps of the loop      *)
(* thread; a stop request and a fatal error of the MSP worker may come in   *)
(* between any two of them.  The readiness and the exit request of the      *)
(* TRACK controller, armability and altitude are inputs.                    *)
EXTENDS JoystickLink, FlightControllers

CONSTANT Steps  \* the time that may pass between two controller updates

ASSUME StepsAssumption == Steps \subseteq Nat /\ Steps # {}

VARIABLES
    pc,              \* next step of the loop thread
    stop,            \* App._stop_event
    fatal,           \* MspCommandDispatcher._fatal_error is set
    state,           \* ctx.state and the state of the machine
    armed, armable, drone_alt, alt_setpoint, takeoff_reach,      \* ctx
    tracker_ready, tracker_start_requested, tracker_exit_requested,
    tracker_enable_was_low,   \* App._tracker_enable_was_low
    ctl,             \* the controllers' own state
    sent_rc,         \* ctx.sent_rc
    fcu_rc,          \* the channels last handed to the dispatcher
    past             \* history, read by no action

loopVars == <<pc, stop, fatal>>
trackVars == <<tracker_ready, tracker_start_requested, tracker_exit_requested,
               tracker_enable_was_low>>
senseVars == <<armable, drone_alt>>
modeVars == <<state, armed, alt_setpoint, takeoff_reach, ctl>>
outVars == <<sent_rc, fcu_rc>>
vars == <<linkVars, loopVars, modeVars, senseVars, trackVars, outVars, past>>

RobotStates == {"IDLE", "ARM", "MANUAL", "TAKEOFF", "ALT_HOLD", "TRACK", "FAILSAFE"}

\* The two channels a property reads; "computed" is a PID's output.
Frames == [arm : BOOLEAN, throttle : {"low", "stick", "computed"}]
Frame(arm, throttle) == [arm |-> arm, throttle |-> throttle]
DisarmFrame == Frame(FALSE, "low")

----------------------------------------------------------------------------
(* Guards of sm.py.                                                         *)

EnterArm ==
    /\ request_rc.manual \/ request_rc.auto_takeoff
    /\ armable /\ ~armed
    /\ request_rc.arm /\ IsThrottleLow(request_rc)
EnterManual == armed /\ request_rc.manual
EnterTakeoff == armed /\ request_rc.auto_takeoff /\ drone_alt < alt_setpoint
\* A bug for LostLinkReachesFailSafe: a neutral stick blocks the fail-safe.
EnterFailSafeFlying == armed /\ joy_fail_safe /\ ~IsThrottleLow(request_rc)
EnterFailSafe == armed /\ joy_fail_safe
ExitFailSafe == armed /\ ~joy_fail_safe
ExitFailSafeToIdle == ~joy_fail_safe /\ ~request_rc.manual /\ ~request_rc.auto_takeoff
EnterIdle == request_rc.manual /\ ~request_rc.arm /\ IsThrottleLow(request_rc)
EnterHover == request_rc.throttle > LOW_THROTTLE_THRESHOLD /\ ~request_rc.manual /\ armed
EnterManualFromTakeoff == EnterManual /\ ~request_rc.auto_takeoff
EnterTracking ==
    armed /\ ~request_rc.manual /\ request_rc.tracker /\ tracker_ready /\ tracker_start_requested
ExitTracking == tracker_exit_requested \/ ~request_rc.tracker

\* A bug for OverridePriority: fail-safe registered behind the other edges.
EdgeLateFailSafe(rank, from, to, guard) ==
    [rank |-> IF to = "FAILSAFE" THEN 20 ELSE rank, from |-> from, to |-> to, guard |-> guard]

\* The registered transitions; rank is the registration order.
Edge(rank, from, to, guard) == [rank |-> rank, from |-> from, to |-> to, guard |-> guard]
Edges == {
    Edge(1, "IDLE", "ARM", EnterArm),
    Edge(2, "ARM", "MANUAL", EnterManual),
    Edge(3, "MANUAL", "TAKEOFF", EnterTakeoff),
    Edge(4, "MANUAL", "FAILSAFE", EnterFailSafe),
    Edge(5, "ALT_HOLD", "FAILSAFE", EnterFailSafe),
    Edge(6, "FAILSAFE", "ALT_HOLD", ExitFailSafe),
    Edge(7, "FAILSAFE", "IDLE", ExitFailSafeToIdle),
    Edge(8, "MANUAL", "IDLE", EnterIdle),
    Edge(9, "MANUAL", "ALT_HOLD", EnterHover),
    Edge(10, "TAKEOFF", "ALT_HOLD", takeoff_reach),
    Edge(11, "TAKEOFF", "MANUAL", EnterManualFromTakeoff),
    Edge(12, "ALT_HOLD", "MANUAL", EnterManual),
    Edge(13, "ALT_HOLD", "TRACK", EnterTracking),
    Edge(14, "TRACK", "FAILSAFE", EnterFailSafe),
    Edge(15, "TRACK", "MANUAL", EnterManual),
    Edge(16, "TRACK", "ALT_HOLD", ExitTracking)}

EnabledEdges == {e \in Edges : e.from = state /\ e.guard}

----------------------------------------------------------------------------
Init ==
    /\ LinkInit
    /\ pc = "poll" /\ stop = FALSE /\ fatal = FALSE
    /\ state = "IDLE" /\ armed = FALSE /\ armable = FALSE
    /\ drone_alt \in Altitudes
    /\ alt_setpoint = TakeoffAlt /\ takeoff_reach = FALSE
    /\ tracker_ready = FALSE /\ tracker_start_requested = FALSE
    /\ tracker_exit_requested = FALSE /\ tracker_enable_was_low = FALSE
    /\ ctl = [arm |-> ArmReset, takeoff |-> TakeoffReset,
              hold |-> [setpoint |-> 0, center_required |-> FALSE],
              failsafe |-> [FailSafeReset(0) EXCEPT !.setpoint = 0]]
    /\ sent_rc = DisarmFrame /\ fcu_rc = DisarmFrame
    /\ past = [enable |-> "mid", press |-> FALSE, in_takeoff |-> -1, after_stop |-> 0]

\* A bug for LoopEnds: raise_if_msp_failed is called behind the loop only.
LeavesOnStopOnly == stop

\* The loop condition and raise_if_msp_failed at its head.
Leaves == stop \/ fatal

\* The listener's events are applied on this thread.
Poll ==
    /\ pc = "poll" /\ ~Leaves
    /\ Dispatch
    /\ pc' = "sense"
    /\ UNCHANGED <<stop, fatal, modeVars, senseVars, trackVars, outVars, past>>

\* The loop ends: a fatal MSP error is raised, with or without a stop request.
Leave ==
    /\ pc = "poll" /\ Leaves
    /\ pc' = IF fatal THEN "raised" ELSE "returned"
    /\ UNCHANGED <<stop, fatal, linkVars, modeVars, senseVars, trackVars, outVars, past>>

\* __update_state: whatever the MSP worker read last.
Sense ==
    /\ pc = "sense"
    /\ armable' \in BOOLEAN
    /\ drone_alt' \in Altitudes
    /\ pc' = "prepare"
    /\ UNCHANGED <<stop, fatal, linkVars, modeVars, trackVars, outVars, past>>

\* A bug for OneTrackPerPress: the latch of a consumed press is kept.
SwitchLatchKept ==
    \/ request_rc.tracker_enable = "low"
    \/ request_rc.tracker_enable = "high" /\ tracker_enable_was_low

\* _prepare_tracker_switches: the SF latch as it leaves the method ...
SwitchLatch ==
    \/ request_rc.tracker_enable = "low"
    \/ /\ request_rc.tracker_enable = "high"
       /\ tracker_enable_was_low /\ request_rc.tracker /\ state = "ALT_HOLD"

\* ... and the start request it raises.
SwitchRequest ==
    request_rc.tracker_enable = "high" /\ tracker_enable_was_low /\ request_rc.tracker

\* _prepare_controllers.  The tracker controller may be ready while its mode is
\* selected and it is not yet tracking; its filter is left out.
Prepare ==
    /\ pc = "prepare"
    /\ tracker_enable_was_low' = SwitchLatch
    /\ tracker_ready' \in IF request_rc.tracker /\ state # "TRACK" THEN BOOLEAN ELSE {FALSE}
    /\ tracker_start_requested' =
            /\ SwitchRequest
            /\ state = "ALT_HOLD" /\ armed /\ ~request_rc.manual
            /\ tracker_ready' /\ request_rc.centered
    /\ tracker_exit_requested' = (tracker_exit_requested /\ state = "TRACK")
    /\ past' = [past EXCEPT !.enable = request_rc.tracker_enable,
                            !.press = /\ request_rc.tracker_enable = "high"
                                      /\ @ \/ (past.enable = "low" /\ state = "ALT_HOLD")]
    /\ pc' = "resolve"
    /\ UNCHANGED <<stop, fatal, linkVars, modeVars, senseVars, outVars>>

\* _handle_before_state_changed: the altitude ALT_HOLD takes over.
HoldTarget(from) == IF from = "TAKEOFF" THEN TakeoffAlt ELSE drone_alt

\* A bug for SettledThisTakeoff: the takeoff timer survives its takeoff.
EntryResetKeepsTimer(from, to) ==
    CASE to \in {"ARM", "IDLE"} -> [ctl EXCEPT !.arm = ArmReset]
      [] to = "ALT_HOLD" ->
            [ctl EXCEPT !.hold = HoldReset(HoldTarget(from), from = "TAKEOFF")]
      [] to = "FAILSAFE" -> [ctl EXCEPT !.failsafe = FailSafeReset(drone_alt)]
      [] OTHER -> ctl

EntryReset(from, to) ==
    CASE to = "ARM" -> [ctl EXCEPT !.arm = ArmReset]
      [] to = "TAKEOFF" -> [ctl EXCEPT !.takeoff = TakeoffReset]
      [] to = "IDLE" -> [ctl EXCEPT !.arm = ArmReset, !.takeoff = TakeoffReset]
      [] to = "ALT_HOLD" ->
            [ctl EXCEPT !.hold = HoldReset(HoldTarget(from), from = "TAKEOFF")]
      [] to = "FAILSAFE" -> [ctl EXCEPT !.failsafe = FailSafeReset(drone_alt)]
      [] OTHER -> ctl

\* A bug for ArmedMatchesState: IDLE is entered armed.
ArmedOnEntryKept(to) == armed

ArmedOnEntry(to) == armed /\ to # "IDLE"

Take(e) ==
    /\ state' = e.to
    /\ ctl' = EntryReset(e.from, e.to)
    /\ armed' = ArmedOnEntry(e.to)
    /\ alt_setpoint' = IF e.to = "ALT_HOLD" THEN HoldTarget(e.from) ELSE alt_setpoint
    /\ IF "TRACK" \in {e.from, e.to}
       THEN tracker_ready' = FALSE /\ tracker_exit_requested' = FALSE
       ELSE UNCHANGED <<tracker_ready, tracker_exit_requested>>
    /\ past' = [past EXCEPT !.press = FALSE,
                            !.in_takeoff = IF e.to = "TAKEOFF" THEN -1 ELSE @]

\* resolve(): the first registered transition whose guard holds, or none.
Resolve ==
    /\ pc = "resolve"
    /\ \/ \E e \in EnabledEdges :
            /\ \A f \in EnabledEdges : e.rank <= f.rank
            /\ Take(e)
       \/ /\ EnabledEdges = {}
          /\ UNCHANGED <<state, ctl, armed, alt_setpoint, tracker_ready,
                         tracker_exit_requested, past>>
    /\ pc' = "control"
    /\ UNCHANGED <<stop, fatal, linkVars, senseVars, takeoff_reach,
                   tracker_start_requested, tracker_enable_was_low, outVars>>

----------------------------------------------------------------------------
(* _resolve_rc: exactly one controller is updated, d after its last update. *)

SendsFrame(frame) == sent_rc' = frame

IdleControl ==
    /\ state = "IDLE"
    /\ SendsFrame(DisarmFrame)
    /\ UNCHANGED <<ctl, armed, alt_setpoint, takeoff_reach, tracker_exit_requested, past>>

\* A bug for ArmFrameBeforeArmed: the flag is read behind the update.
ArmControlAtOnce(d) ==
    /\ state = "ARM"
    /\ ctl' = [ctl EXCEPT !.arm = ArmAdvance(@, d)]
    /\ armed' = ctl'.arm.done
    /\ SendsFrame(Frame(ArmChannelHigh(ctl'.arm), "low"))
    /\ UNCHANGED <<alt_setpoint, takeoff_reach, tracker_exit_requested, past>>

\* armed is what the *previous* update reported.
ArmControl(d) ==
    /\ state = "ARM"
    /\ ctl' = [ctl EXCEPT !.arm = ArmAdvance(@, d)]
    /\ armed' = ctl.arm.done
    /\ SendsFrame(Frame(ArmChannelHigh(ctl'.arm), "low"))
    /\ UNCHANGED <<alt_setpoint, takeoff_reach, tracker_exit_requested, past>>

ManualControl ==
    /\ state = "MANUAL"
    /\ SendsFrame(Frame(request_rc.arm,
                        IF IsThrottleLow(request_rc) THEN "low" ELSE "stick"))
    /\ UNCHANGED <<ctl, armed, alt_setpoint, takeoff_reach, tracker_exit_requested, past>>

TakeoffControl(d) ==
    /\ state = "TAKEOFF"
    /\ \E slow \in BOOLEAN :
            ctl' = [ctl EXCEPT !.takeoff = TakeoffAdvance(@, d, drone_alt, slow)]
    /\ takeoff_reach' = TakeoffReached(ctl'.takeoff)
    /\ alt_setpoint' = TakeoffAlt
    /\ SendsFrame(Frame(TRUE, "computed"))
    /\ past' = [past EXCEPT !.in_takeoff = IF @ < 0 THEN 0 ELSE Least(@ + d, TakeoffSettle)]
    /\ UNCHANGED <<armed, tracker_exit_requested>>

AltHoldControl(d) ==
    /\ state = "ALT_HOLD"
    /\ ctl' = [ctl EXCEPT !.hold = HoldAdvance(@, request_rc.throttle, d)]
    /\ alt_setpoint' = ctl'.hold.setpoint
    /\ SendsFrame(Frame(TRUE, "computed"))
    /\ UNCHANGED <<armed, takeoff_reach, tracker_exit_requested, past>>

TrackControl ==
    /\ state = "TRACK"
    /\ tracker_exit_requested' \in BOOLEAN
    /\ SendsFrame(Frame(TRUE, "computed"))
    /\ UNCHANGED <<ctl, armed, alt_setpoint, takeoff_reach, past>>

\* A bug for FailSafeReturnsToAltHold: a landing clears ctx.armed behind sm.py.
FailSafeControlDisarms(d) ==
    /\ state = "FAILSAFE"
    /\ \E slow \in BOOLEAN :
            ctl' = [ctl EXCEPT !.failsafe = FailSafeAdvance(@, d, drone_alt, slow)]
    /\ armed' = (armed /\ ctl'.failsafe.phase # "landed")
    /\ SendsFrame(IF armed' THEN Frame(TRUE, "computed") ELSE DisarmFrame)
    /\ UNCHANGED <<alt_setpoint, takeoff_reach, tracker_exit_requested, past>>

FailSafeControl(d) ==
    /\ state = "FAILSAFE"
    /\ \E slow \in BOOLEAN :
            ctl' = [ctl EXCEPT !.failsafe = FailSafeAdvance(@, d, drone_alt, slow)]
    /\ SendsFrame(IF ctl'.failsafe.phase = "landed"
                  THEN DisarmFrame ELSE Frame(TRUE, "computed"))
    /\ UNCHANGED <<armed, alt_setpoint, takeoff_reach, tracker_exit_requested, past>>

Control ==
    /\ pc = "control"
    /\ \E d \in Steps :
            \/ IdleControl \/ ManualControl \/ TrackControl
            \/ ArmControl(d) \/ TakeoffControl(d)
            \/ AltHoldControl(d) \/ FailSafeControl(d)
    /\ pc' = "check"
    /\ UNCHANGED <<stop, fatal, linkVars, state, senseVars, tracker_ready,
                   tracker_start_requested, tracker_enable_was_low, fcu_rc>>

\* The stop event is read once more before the frame is recorded and sent.
Check ==
    /\ pc = "check"
    /\ pc' = IF ~stop THEN "send" ELSE IF fatal THEN "raised" ELSE "returned"
    /\ UNCHANGED <<stop, fatal, linkVars, modeVars, senseVars, trackVars, outVars, past>>

\* blackbox.record, set_rc and the wait for the next period.
Send ==
    /\ pc = "send"
    /\ fcu_rc' = sent_rc
    /\ pc' = "poll"
    /\ past' = [past EXCEPT !.after_stop = IF stop THEN @ + 1 ELSE @]
    /\ UNCHANGED <<stop, fatal, linkVars, modeVars, senseVars, trackVars, sent_rc>>

Running == pc \notin {"returned", "raised"}

RequestStop ==
    /\ Running /\ ~stop
    /\ stop' = TRUE
    /\ UNCHANGED <<pc, fatal, linkVars, modeVars, senseVars, trackVars, outVars, past>>

MspFails ==
    /\ Running /\ ~fatal
    /\ fatal' = TRUE
    /\ UNCHANGED <<pc, stop, linkVars, modeVars, senseVars, trackVars, outVars, past>>

LoopStep == Poll \/ Leave \/ Sense \/ Prepare \/ Resolve \/ Control \/ Check \/ Send

Next == LoopStep \/ RequestStop \/ MspFails

Spec == Init /\ [][Next]_vars

\* The loop thread is scheduled; nothing obliges a pilot, a link or the MSP
\* worker to do anything.
FairSpec == Spec /\ WF_vars(LoopStep)

----------------------------------------------------------------------------
TypeOK ==
    /\ LinkTypeOK
    /\ pc \in {"poll", "sense", "prepare", "resolve", "control", "check", "send",
               "returned", "raised"}
    /\ stop \in BOOLEAN /\ fatal \in BOOLEAN
    /\ state \in RobotStates
    /\ armed \in BOOLEAN /\ armable \in BOOLEAN /\ takeoff_reach \in BOOLEAN
    /\ drone_alt \in Altitudes /\ alt_setpoint \in Int
    /\ tracker_ready \in BOOLEAN /\ tracker_start_requested \in BOOLEAN
    /\ tracker_exit_requested \in BOOLEAN /\ tracker_enable_was_low \in BOOLEAN
    /\ ctl \in ControllerTypes
    /\ sent_rc \in Frames /\ fcu_rc \in Frames
    /\ past \in [enable : {"low", "mid", "high"}, press : BOOLEAN,
                 in_takeoff : -1..TakeoffSettle, after_stop : Nat]

\* The application's armed flag and its flight state never disagree: IDLE is
\* disarmed and every state beyond ARM is armed.  sm.py guards ten transitions
\* with ctx.armed, so a disagreement would leave the vehicle in a state none of
\* them can leave; ctx.armed is written in two places (app.py 228 and 705).
ArmedMatchesState ==
    /\ state = "IDLE" => ~armed
    /\ state \notin {"IDLE", "ARM"} => armed

\* Between the end of a takeoff and the pilot centring the throttle, the low
\* stick of the takeoff request cannot pull the altitude target down
\* (hover_yaw_controller.py 87-91, app.py 238 and 474-514).
TakeoffHandoverHoldsAltitude ==
    state = "ALT_HOLD" /\ ctl.hold.center_required =>
        ctl.hold.setpoint = Greatest(TakeoffAlt, HoverMinAlt)

\* TAKEOFF hands over to ALT_HOLD only after the vehicle settled for the whole
\* settling time during this takeoff: neither ctx.takeoff_reach nor the timer
\* behind it survives from an earlier takeoff (app.py 449-464, 223 and 227).
SettledThisTakeoff ==
    [][state = "TAKEOFF" /\ state' = "ALT_HOLD" => past.in_takeoff >= TakeoffSettle]_vars

\* One push of SF starts at most one tracking run, and only a push observed in
\* ALT_HOLD while the mode was already held: a switch that stays high through a
\* mode change, a lost target or a manual override does not (app.py 639-656).
OneTrackPerPress ==
    [][state # "TRACK" /\ state' = "TRACK" =>
            past.press /\ request_rc.tracker_enable = "high"]_vars

\* Fail-safe is left to ALT_HOLD, with the joystick back and the vehicle armed:
\* also behind a landing that disarmed it, and whatever mode the pilot selected.
\* The edge to IDLE registered behind it (sm.py 100-116, 319-338) needs a disarmed
\* context, which FAILSAFE never has.
FailSafeReturnsToAltHold ==
    [][state = "FAILSAFE" /\ state' # "FAILSAFE" =>
            state' = "ALT_HOLD" /\ armed' /\ ~joy_fail_safe]_vars

\* A lost joystick beats the pilot's manual switch, and the manual switch beats
\* tracking, in every iteration that starts from ALT_HOLD or TRACK (the
\* registration order of sm.py 82-88 and 159-202).
OverridePriority ==
    [][Resolve /\ state \in {"ALT_HOLD", "TRACK"} =>
            IF joy_fail_safe THEN state' = "FAILSAFE"
            ELSE request_rc.manual => state' = "MANUAL"]_vars

\* The application believes the vehicle armed only after the dispatcher was
\* given a frame with the ARM channel high (app.py 699-706: the flag is read
\* before the update that computes the frame).
ArmFrameBeforeArmed ==
    [][~armed /\ armed' => fcu_rc.arm]_vars

\* A vehicle that left IDLE and lost its joystick reaches FAILSAFE, from every
\* state and through whichever detour the transitions take, unless the link
\* comes back or the application ends.
LostLinkReachesFailSafe ==
    link \in {"lost", "failed"} /\ state # "IDLE"
        ~> state = "FAILSAFE" \/ link \notin {"lost", "failed"} \/ ~Running

\* A stop request or a fatal MSP error ends the control loop.
LoopEnds == stop \/ fatal ~> ~Running

----------------------------------------------------------------------------
(* Statements of the repository's documents and comments.                   *)

\* sm.py 306-309: failsafe is entered when the joystick fails on an armed
\* vehicle, "active only from manual and takeoff".
TakeoffEntersFailSafe ==
    [][Resolve /\ state = "TAKEOFF" /\ armed /\ joy_fail_safe => state' = "FAILSAFE"]_vars

\* sm.py 295: takeoff is allowed "only if current alt < takeoff alt setpoint".
TakeoffStartsBelowTarget ==
    [][state # "TAKEOFF" /\ state' = "TAKEOFF" => drone_alt < TakeoffAlt]_vars

\* app.py 783-784: "shutdown cannot emit one final RC command".
NoFrameAfterStop == past.after_stop = 0

\* application_state_machine.md 46: tracking needs "an SF rising-edge request";
\* a pilot who keeps SF high makes none.
NoTrackWhileSwitchHeldHigh ==
    (\A r \in Requests : r.tracker_enable = "high") => state # "TRACK"
=============================================================================
