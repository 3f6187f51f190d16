--------------------------- MODULE FailSafeLanding ---------------------------
(* The fail-safe controller in closed loop with a vehicle that follows its  *)
(* altitude target (control/failsafe_controller.py, app.py 266-280 and      *)
(* 516-535).  The FS_ parameters change in flight, altitude telemetry lags  *)
(* behind the vehicle, and the joystick link comes and goes.  One update is *)
(* one unit of time; ALT_HOLD stands for the states FAILSAFE is entered     *)
(* from.                                                                    *)
EXTENDS Integers

CONSTANTS
    MaxAlt,      \* bound: the pilot flies no higher
    Grounds,     \* elevation of the ground under the vehicle
    Limits,      \* the values each parameter may take: a function of its name
    MaxTimer     \* bound: timers saturate here

Parameters ==
    {p \in [DOMAIN Limits -> UNION {Limits[n] : n \in DOMAIN Limits}] :
        \A n \in DOMAIN Limits : p[n] \in Limits[n]}

ASSUME LimitsAssumption ==
    /\ DOMAIN Limits = {"hold_time_s", "descent_rate", "min_altitude",
                        "land_altitude", "land_confirm_s"}
    /\ \A n \in DOMAIN Limits : Limits[n] \subseteq Nat /\ Limits[n] # {}
    /\ \A t \in Limits["hold_time_s"] \cup Limits["land_confirm_s"] : t < MaxTimer
    /\ MaxAlt \in Nat /\ MaxTimer \in Nat /\ Grounds \subseteq 0..MaxAlt

VARIABLES
    params,                 \* the controller's copies of the FS_ parameters
    state, joy_fail_safe,   \* ctx
    phase, elapsed, candidate, setpoint,    \* the controller
    arm_channel,            \* ARM of the last frame
    ground, alt, moving,    \* the vehicle
    drone_alt, drone_slow,  \* ctx.drone_alt; |ctx.drone_vertical_speed| is small
    quiet                   \* history: updates seen low and slow in this descent

ctlVars == <<phase, elapsed, candidate, setpoint>>
vehicleVars == <<ground, alt, moving>>
telemetryVars == <<drone_alt, drone_slow>>
vars == <<params, state, joy_fail_safe, ctlVars, arm_channel, vehicleVars,
          telemetryVars, quiet>>

NoCandidate == -1
Least(a, b) == IF a <= b THEN a ELSE b
Greatest(a, b) == IF a >= b THEN a ELSE b
Later(t) == Least(t + 1, MaxTimer)

Init ==
    /\ params \in Parameters
    /\ state = "ALT_HOLD" /\ joy_fail_safe = FALSE
    /\ phase = "hold" /\ elapsed = 0 /\ candidate = NoCandidate /\ setpoint = 0
    /\ arm_channel = TRUE
    /\ ground \in Grounds /\ alt = ground /\ moving = FALSE
    /\ drone_alt = alt /\ drone_slow = TRUE
    /\ quiet = 0

----------------------------------------------------------------------------
(* The control loop.                                                        *)

\* A bug for LandingConfirmedThisTime: the landing timer survives the entry.
EnterKeepsCandidate ==
    /\ state = "ALT_HOLD" /\ joy_fail_safe
    /\ state' = "FAILSAFE"
    /\ phase' = "hold" /\ elapsed' = 0
    /\ setpoint' = Greatest(drone_alt, params["min_altitude"])
    /\ arm_channel' = TRUE
    /\ quiet' = 0
    /\ UNCHANGED <<params, joy_fail_safe, candidate, vehicleVars, telemetryVars>>

\* The entry handler and reset; the update of the same iteration adds no time.
Enter ==
    /\ state = "ALT_HOLD" /\ joy_fail_safe
    /\ state' = "FAILSAFE"
    /\ phase' = "hold" /\ elapsed' = 0 /\ candidate' = NoCandidate
    /\ setpoint' = Greatest(drone_alt, params["min_altitude"])
    /\ arm_channel' = TRUE
    /\ quiet' = 0
    /\ UNCHANGED <<params, joy_fail_safe, vehicleVars, telemetryVars>>

\* exit_failsafe: ctx.armed is still true, also behind a landing.
Return ==
    /\ state = "FAILSAFE" /\ ~joy_fail_safe
    /\ state' = "ALT_HOLD"
    /\ arm_channel' = TRUE
    /\ UNCHANGED <<params, joy_fail_safe, ctlVars, vehicleVars, telemetryVars, quiet>>

\* A bug for LostLinkLands: the descent starts only if the timer fits exactly.
DescendsExactly ==
    \/ phase = "descend"
    \/ phase = "hold" /\ params["hold_time_s"] > 0 /\ elapsed + 1 = params["hold_time_s"]

\* _update_hold_phase; the descent starts within the update that ends the hold.
Descends ==
    \/ phase = "descend"
    \/ phase = "hold" /\ params["hold_time_s"] > 0 /\ Later(elapsed) >= params["hold_time_s"]

LandCandidate == drone_alt <= params["land_altitude"] /\ drone_slow

CandidateTime == IF candidate = NoCandidate THEN 0 ELSE Later(candidate)

Hold ==
    /\ phase = "hold" /\ ~Descends
    /\ elapsed' = Later(elapsed)
    /\ UNCHANGED <<phase, candidate, setpoint, quiet>>

\* _update_descend_phase
Descend ==
    /\ Descends
    /\ elapsed' = 0
    /\ setpoint' = Greatest(setpoint - params["descent_rate"], params["min_altitude"])
    /\ candidate' = IF LandCandidate THEN CandidateTime ELSE NoCandidate
    /\ phase' = IF LandCandidate /\ CandidateTime >= params["land_confirm_s"]
                THEN "landed" ELSE "descend"
    /\ quiet' = IF LandCandidate THEN Later(quiet) ELSE 0

\* A bug for DisarmStands: a vehicle seen above the landing altitude hovers again.
LandedUnlatched ==
    /\ phase = "landed"
    /\ phase' = IF LandCandidate THEN "landed" ELSE "hold"
    /\ UNCHANGED <<elapsed, candidate, setpoint, quiet>>

Landed == phase = "landed" /\ UNCHANGED <<ctlVars, quiet>>

\* failsafe_handler in FAILSAFE.
Update ==
    /\ state = "FAILSAFE" /\ joy_fail_safe
    /\ Hold \/ Descend \/ Landed
    /\ arm_channel' = (phase' # "landed")
    /\ UNCHANGED <<params, state, joy_fail_safe, vehicleVars, telemetryVars>>

\* on_parameter_changed: a new FS_MIN_ALT lifts the target at once.
SetParameter ==
    /\ \E n \in DOMAIN Limits : \E v \in Limits[n] : params' = [params EXCEPT ![n] = v]
    /\ setpoint' = IF params'["min_altitude"] = params["min_altitude"] THEN setpoint
                   ELSE Greatest(setpoint, params'["min_altitude"])
    /\ UNCHANGED <<state, joy_fail_safe, phase, elapsed, candidate, arm_channel,
                   vehicleVars, telemetryVars, quiet>>

LoseLink ==
    /\ ~joy_fail_safe /\ joy_fail_safe' = TRUE
    /\ UNCHANGED <<params, state, ctlVars, arm_channel, vehicleVars, telemetryVars, quiet>>

LinkResumes ==
    /\ joy_fail_safe /\ joy_fail_safe' = FALSE
    /\ UNCHANGED <<params, state, ctlVars, arm_channel, vehicleVars, telemetryVars, quiet>>

----------------------------------------------------------------------------
(* The vehicle (not under src/).                                            *)

Fly(target) ==
    /\ alt' = Greatest(ground, IF target > alt THEN alt + 1
                               ELSE IF target < alt THEN alt - 1 ELSE alt)
    /\ moving' = (alt' # alt)
    /\ UNCHANGED <<params, state, joy_fail_safe, ctlVars, arm_channel, ground,
                   telemetryVars, quiet>>

\* Under fail-safe the vehicle follows the target; disarmed, it comes down.
Follow == state = "FAILSAFE" /\ Fly(IF arm_channel THEN setpoint ELSE ground)

PilotFlies == state = "ALT_HOLD" /\ \E target \in 0..MaxAlt : Fly(target)

\* __update_state with a new altitude sample; without one the last is kept.
Telemetry ==
    /\ drone_alt' = alt /\ drone_slow' = ~moving
    /\ UNCHANGED <<params, state, joy_fail_safe, ctlVars, arm_channel, vehicleVars, quiet>>

Loop == Enter \/ Return \/ Update

Next ==
    \/ Loop \/ SetParameter \/ LoseLink \/ LinkResumes
    \/ Follow \/ PilotFlies \/ Telemetry

Spec == Init /\ [][Next]_vars

\* The 50 Hz loop runs, altitude is polled for ever, and a vehicle under
\* control reaches its target.
FairSpec == Spec /\ WF_vars(Loop) /\ WF_vars(Telemetry) /\ WF_vars(Follow)

----------------------------------------------------------------------------
TypeOK ==
    /\ params \in Parameters
    /\ state \in {"ALT_HOLD", "FAILSAFE"} /\ joy_fail_safe \in BOOLEAN
    /\ phase \in {"hold", "descend", "landed"}
    /\ elapsed \in 0..MaxTimer /\ candidate \in NoCandidate..MaxTimer
    /\ setpoint \in Nat /\ arm_channel \in BOOLEAN
    /\ ground \in Grounds /\ alt \in Nat /\ moving \in BOOLEAN
    /\ drone_alt \in Nat /\ drone_slow \in BOOLEAN /\ quiet \in 0..MaxTimer

\* Once the fail-safe disarmed a landed vehicle, the ARM channel goes high again
\* only after the joystick came back: no parameter change, altitude reading or
\* further update takes the disarm back while the link is down
\* (failsafe_controller.py 112-113; sm.py 319-326 is the way out that exists).
DisarmStands ==
    [][~arm_channel /\ arm_channel' => ~joy_fail_safe]_vars

\* A landing is confirmed by the descent it ends: the vehicle was seen low and
\* slow for the whole confirmation time in force, without a break, since the
\* link was lost last.  A link that flaps near the ground cannot add up time
\* from several descents (failsafe_controller.py 78-86 and 138-147).
LandingConfirmedThisTime ==
    [][arm_channel /\ ~arm_channel' => quiet' > params["land_confirm_s"]]_vars

\* What the parameters and the terrain must grant for a landing to be possible.
CanLand ==
    /\ params["hold_time_s"] > 0 /\ params["descent_rate"] > 0
    /\ params["min_altitude"] <= params["land_altitude"]
    /\ ground <= params["land_altitude"]

\* A vehicle whose link stays lost comes down and is disarmed for good, if from
\* some time on FS_HOLD_TIME and FS_DESC_RATE are positive and neither
\* FS_MIN_ALT nor the ground is above FS_LAND_ALT; whatever the parameters were
\* before, and however late the telemetry is (failsafe_controller.py 122-157).
LostLinkLands ==
    <>[](joy_fail_safe /\ CanLand) => <>[](~arm_channel)

----------------------------------------------------------------------------
(* Statement of a comment.                                                  *)

\* app.py 267: "set the failsafe controller setpoint to the current altitude";
\* the setter lifts it to FS_MIN_ALT, so a vehicle below it climbs.
HoldsTheEntryAltitude ==
    [][state = "ALT_HOLD" /\ state' = "FAILSAFE" => setpoint' = drone_alt]_vars
=============================================================================
