-------------------------- MODULE FlightControllers --------------------------
(* The controllers behind the states of the flight state machine, reduced   *)
(* to what its guards read: timers, latches and altitude targets.  PID      *)
(* outputs are not modelled; time and altitude are whole units, and a timer *)
(* saturates at the threshold the code compares it with.                    *)
EXTENDS Integers

CONSTANTS
    Altitudes,          \* altitudes the telemetry reports
    Ceiling,            \* bound: a pilot's altitude request saturates here
    TakeoffAlt,         \* TAKEOFF_ALT
    HoverMinAlt,        \* HOV_MIN_ALT
    FsMinAlt,           \* FS_MIN_ALT
    FsLandAlt,          \* FS_LAND_ALT
    FsHoldTime,         \* FS_HOLD_TIME
    FsLandConfirm,      \* FS_LAND_CONFIRM
    DisabledHoldTime,   \* DISABLED_HOLD_TIME
    ArmHoldTime,        \* ARM_HOLD_TIME
    TakeoffSettle,      \* the "time_in_alt >= 1" of _takeoff_handler
    ThrottleCenter      \* the throttle values inside HOV_THR_DB

ASSUME AltitudeAssumption ==
    /\ Altitudes \subseteq Int
    /\ {TakeoffAlt, HoverMinAlt, FsMinAlt, FsLandAlt, Ceiling} \subseteq Int
    /\ \A a \in Altitudes : a <= Ceiling
    /\ TakeoffAlt <= Ceiling /\ HoverMinAlt <= Ceiling /\ FsMinAlt <= Ceiling
ASSUME TimeAssumption ==
    /\ {FsHoldTime, FsLandConfirm, TakeoffSettle} \subseteq Nat
    /\ {DisabledHoldTime, ArmHoldTime} \subseteq Nat \ {0}
    /\ TakeoffSettle > 0

Least(a, b) == IF a <= b THEN a ELSE b
Greatest(a, b) == IF a >= b THEN a ELSE b

----------------------------------------------------------------------------
(* ARMController.  The comparisons are strict on both sides, so an update   *)
(* exactly DISABLED_HOLD_TIME after the reset completes the sequence.       *)

ArmTotalTime == DisabledHoldTime + ArmHoldTime

ArmReset == [elapsed |-> 0, done |-> FALSE]

ArmAdvance(c, d) ==
    LET e == Least(c.elapsed + d, ArmTotalTime)
    IN [elapsed |-> e,
        done |-> c.done \/ e = DisabledHoldTime \/ e = ArmTotalTime]

ArmChannelHigh(c) == c.elapsed >= DisabledHoldTime

----------------------------------------------------------------------------
(* TakeoffController: time settled at the target.  The first update after a *)
(* reset has no previous sample, so it adds no time and derives no speed.   *)

TakeoffReset == [settled |-> 0, started |-> FALSE]

\* slow: the derived vertical speed is within ALT_SETTLE_VERTICAL_SPEED_M_S.
TakeoffAdvance(c, d, alt, slow) ==
    [settled |-> IF alt = TakeoffAlt /\ (slow \/ ~c.started)
                 THEN Least(c.settled + (IF c.started THEN d ELSE 0), TakeoffSettle)
                 ELSE 0,
     started |-> TRUE]

TakeoffReached(c) == c.settled >= TakeoffSettle

----------------------------------------------------------------------------
(* HoverYawController: the altitude target of ALT_HOLD.                     *)

HoldReset(target, center) ==
    [setpoint |-> Greatest(target, HoverMinAlt), center_required |-> center]

\* A bug for TakeoffHandoverHoldsAltitude: the low stick is followed at once.
HoldAdvanceAtOnce(c, throttle, d) ==
    [c EXCEPT !.center_required = @ /\ throttle \notin ThrottleCenter,
              !.setpoint = IF \A t \in ThrottleCenter : throttle < t
                           THEN Greatest(@ - d, HoverMinAlt) ELSE @]

HoldAdvance(c, throttle, d) ==
    IF c.center_required
    THEN [c EXCEPT !.center_required = throttle \notin ThrottleCenter]
    ELSE [c EXCEPT !.setpoint =
            IF throttle \in ThrottleCenter THEN @
            ELSE IF \A t \in ThrottleCenter : throttle > t
                 THEN Least(Greatest(@ + d, HoverMinAlt), Ceiling)
                 ELSE Greatest(@ - d, HoverMinAlt)]

----------------------------------------------------------------------------
(* FailSafeController: hold, then descend, then disarm on the ground.       *)

NoCandidate == -1

FailSafeReset(alt) ==
    [phase |-> "hold", elapsed |-> 0, candidate |-> NoCandidate,
     setpoint |-> Greatest(alt, FsMinAlt)]

FailSafeHold(c, d) ==
    LET e == Least(c.elapsed + d, FsHoldTime)
    IN IF FsHoldTime > 0 /\ e >= FsHoldTime
       THEN [c EXCEPT !.phase = "descend", !.elapsed = 0]
       ELSE [c EXCEPT !.elapsed = e]

\* The confirmation window restarts whenever the candidate is lost.
FailSafeDescend(c, d, alt, slow) ==
    LET lower == [c EXCEPT !.setpoint = Greatest(@ - d, FsMinAlt)]
        since == IF c.candidate = NoCandidate THEN 0
                 ELSE Least(c.candidate + d, FsLandConfirm)
    IN IF alt <= FsLandAlt /\ slow
       THEN [lower EXCEPT !.candidate = since,
                          !.phase = IF since >= FsLandConfirm THEN "landed" ELSE @]
       ELSE [lower EXCEPT !.candidate = NoCandidate]

\* update: the hold phase may fall through into the first descent step.
FailSafeAdvance(c, d, alt, slow) ==
    LET held == IF c.phase = "hold" THEN FailSafeHold(c, d) ELSE c
    IN IF held.phase = "descend" THEN FailSafeDescend(held, d, alt, slow) ELSE held

----------------------------------------------------------------------------
ArmStates == [elapsed : 0..ArmTotalTime, done : BOOLEAN]
TakeoffStates == [settled : 0..TakeoffSettle, started : BOOLEAN]
HoldStates == [setpoint : Int, center_required : BOOLEAN]
FailSafeStates ==
    [phase : {"hold", "descend", "landed"}, elapsed : 0..FsHoldTime,
     candidate : NoCandidate..FsLandConfirm, setpoint : Int]
ControllerTypes ==
    [arm : ArmStates, takeoff : TakeoffStates, hold : HoldStates, failsafe : FailSafeStates]
=============================================================================
