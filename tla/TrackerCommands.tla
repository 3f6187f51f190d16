---------------------------- MODULE TrackerCommands ----------------------------
(* The arithmetic of TrackerController._control: slewed pitch, roll and yaw  *)
(* commands, and the vertical speed set-point with its PI-D throttle loop,   *)
(* while camera errors, vario samples and the configuration change.          *)
(* Quantities are integers in arbitrary units: an error of Full is the edge  *)
(* of the image, and gains of the controller are whole numbers.  Its phases  *)
(* and time-outs are TrackerControl's.                                       *)
EXTENDS Integers

CONSTANTS
    Full,        \* the error at the edge of the image
    Configs,     \* configurations that passed TrackerConfig.__post_init__
    Errors,      \* dx and dy of a camera frame
    Speeds,      \* vertical speeds: vario samples and nominal requests
    Requests,    \* pitch requests of the time-to-contact loop, before its limits
    Dts,         \* times between updates
    AccelLimit   \* _VERTICAL_ACCEL_LIMIT_M_S2

Fields == [pitch_min : Int, align_pitch : Int, slow : Nat, stop : Nat, deadband : Nat,
           pitch_slew : Nat, recovery_slew : Nat, roll_max : Nat, roll_slew : Nat,
           yaw_max : Nat, yaw_slew : Nat, dy_max : Nat, near_max : Nat,
           speed_min : Int, speed_max : Nat, accel : Nat,
           kp : Nat, ki : Nat, kd : Nat, i_max : Nat, throttle_max : Nat]

Consistent(c) ==
    /\ c.pitch_min <= c.align_pitch /\ c.align_pitch <= 0
    /\ c.slow < c.stop /\ c.stop <= Full
    /\ c.speed_min < 0 /\ c.dy_max <= c.near_max

CommandsAssumption ==
    /\ Full \in Nat \ {0} /\ AccelLimit \in Nat
    /\ Configs \subseteq Fields /\ Configs # {} /\ \A c \in Configs : Consistent(c)
    /\ Errors \subseteq (-Full)..Full /\ Speeds \subseteq Int /\ Requests \subseteq Int
    /\ Dts \subseteq Nat

VARIABLES
    config,      \* the snapshot the next update takes
    aligned,     \* the phase is TRACKING, no longer ALIGN
    pitch, roll, yaw,                   \* commands
    setpoint, integral, filtered,       \* vertical loop: set-point, integral, acceleration
    previous,    \* the vario sample the acceleration was computed from
    demand,      \* the throttle correction before its limit
    elapsed      \* dt_s of the update that just ran, -1 in one that starts

commands == <<pitch, roll, yaw>>
vertical == <<setpoint, integral, filtered, previous, demand>>
vars == <<config, aligned, commands, vertical, elapsed>>

Clamp(v, lower, upper) == IF v < lower THEN lower ELSE IF v > upper THEN upper ELSE v
Magnitude(v) == IF v < 0 THEN -v ELSE v
Within(v, limit) == Clamp(v, -limit, limit)
Slewed(v, target, step) == v + Within(target - v, step)

Deadband(e, band) ==
    IF Magnitude(e) <= band THEN 0 ELSE IF e > 0 THEN e - band ELSE e + band

\* A part of v, num of den, rounded towards zero.
Part(v, num, den) == IF v < 0 THEN -((-v * num) \div den) ELSE (v * num) \div den

\* A bug for NeverFurtherOut: the request is limited before it is blended and scaled only.
PitchTargetUnlimited(c, tracking, dx, dy, request) ==
    LET blended == Part(request, Full - Magnitude(dy), Full) + Part(c.align_pitch, Magnitude(dy), Full)
    IN Part(IF tracking THEN blended ELSE c.align_pitch,
            Clamp(c.stop - Magnitude(dx), 0, c.stop - c.slow), c.stop - c.slow)

\* Between the time-to-contact request and the alignment pitch by the vertical
\* error, limited, and reduced as the target leaves the centre.
PitchTarget(c, tracking, dx, dy, request) ==
    LET blended == Part(request, Full - Magnitude(dy), Full) + Part(c.align_pitch, Magnitude(dy), Full)
        raw == Clamp(IF tracking THEN blended ELSE c.align_pitch, c.pitch_min, 0)
    IN Part(raw, Clamp(c.stop - Magnitude(dx), 0, c.stop - c.slow), c.stop - c.slow)

PitchStep(c, target, dt) ==
    (IF target > pitch THEN c.recovery_slew ELSE c.pitch_slew) * dt

\* A bug for StepsAreSlewed: alignment ends with the roll at its target at once.
RollTargetStep(c, tracking, dx, dt) ==
    LET target == IF tracking THEN Within(Deadband(dx, c.deadband), c.roll_max) ELSE 0
    IN IF tracking /\ ~aligned THEN target ELSE Slewed(roll, target, c.roll_slew * dt)

RollStep(c, tracking, dx, dt) ==
    LET target == IF tracking THEN Within(Deadband(dx, c.deadband), c.roll_max) ELSE 0
    IN Slewed(roll, target, c.roll_slew * dt)

\* The speed asked for: the nominal descent, once aligned, and the correction of
\* the vertical error, wider when the target is clipped at an edge.
SpeedTarget(c, tracking, dy, nominal, clipped) ==
    LET limit == IF tracking /\ clipped THEN c.near_max ELSE c.dy_max
    IN Clamp((IF tracking THEN nominal ELSE 0) + Within(Deadband(dy, c.deadband), limit),
             c.speed_min, c.speed_max)

Integrate(c, error, dt) == Within(integral + c.ki * error * dt, c.i_max)

\* A bug for WindupFree: the integral runs on under saturation.
AntiWindupNone(c, candidate, unlimited, error) == candidate

AntiWindup(c, candidate, unlimited, error) ==
    IF \/ Magnitude(unlimited) <= c.throttle_max
       \/ unlimited > c.throttle_max /\ error < 0
       \/ unlimited < -c.throttle_max /\ error > 0
    THEN candidate ELSE integral

\* A bug for AccelerationIsPhysical: samples close in time are divided unlimited.
AccelerationUnlimited(vario, sampled) ==
    IF ~sampled THEN filtered
    ELSE filtered + Part(2 * (vario - previous) - filtered, 1, 2)
\* _update_vertical_acceleration: a new sample a tick after the one before.
Acceleration(vario, sampled) ==
    IF ~sampled THEN filtered
    ELSE filtered + Part(Within(vario - previous, AccelLimit) - filtered, 1, 2)

----------------------------------------------------------------------------
Init ==
    /\ config \in Configs /\ aligned = FALSE
    /\ pitch = config.align_pitch /\ roll = 0 /\ yaw = 0
    /\ setpoint \in Speeds /\ previous = setpoint
    /\ integral = 0 /\ filtered = 0 /\ demand = 0 /\ elapsed = -1

Vertical(c, target, vario, sampled, dt) ==
    LET error == setpoint' - vario
        undamped == c.kp * error - c.kd * filtered'
        candidate == Integrate(c, error, dt)
    IN /\ setpoint' = Slewed(setpoint, target, c.accel * dt)
       /\ filtered' = Acceleration(vario, sampled)
       /\ previous' = IF sampled THEN vario ELSE previous
       /\ integral' = AntiWindup(c, candidate, undamped + candidate, error)
       /\ demand' = undamped + integral'

\* One update of an active session, ALIGN or TRACKING.
Update ==
    /\ \E dt \in Dts, dx \in Errors, dy \in Errors, request \in Requests,
          vario \in Speeds, nominal \in Speeds, sampled \in BOOLEAN, clipped \in BOOLEAN :
        LET c == config
            target == PitchTarget(c, aligned', dx, dy, request)
        IN /\ aligned' \in {aligned, TRUE}
           /\ pitch' = Slewed(pitch, target, PitchStep(c, target, dt))
           /\ roll' = RollStep(c, aligned', dx, dt)
           /\ yaw' = Slewed(yaw, Within(Deadband(dx, c.deadband), c.yaw_max), c.yaw_slew * dt)
           /\ Vertical(c, SpeedTarget(c, aligned', dy, nominal, clipped), vario, sampled, dt)
           /\ elapsed' = dt
    /\ UNCHANGED config

\* start_tracking with the present configuration and vario.
Restart ==
    /\ \E vario \in Speeds : setpoint' = vario /\ previous' = vario
    /\ aligned' = FALSE /\ pitch' = config.align_pitch /\ roll' = 0 /\ yaw' = 0
    /\ integral' = 0 /\ filtered' = 0 /\ demand' = 0 /\ elapsed' = -1
    /\ UNCHANGED config

ConfigChange == config' \in Configs /\ UNCHANGED <<aligned, commands, vertical, elapsed>>

Next == Update \/ Restart \/ ConfigChange
Spec == Init /\ [][Next]_vars

----------------------------------------------------------------------------
TypeOK ==
    /\ config \in Configs /\ aligned \in BOOLEAN
    /\ {pitch, roll, yaw, setpoint, previous, demand} \subseteq Int
    /\ \E c \in Configs : Magnitude(integral) <= c.i_max

\* TRACK never commands a backward pitch, whatever the image, the limits and the
\* changes of the limits (tracker_controller.py 784-797, 545).
NeverBackward == pitch <= 0

\* The filtered acceleration stays a physical one (1111-1120).
AccelerationIsPhysical == filtered \in (-AccelLimit)..AccelLimit

Outside(v, lower, upper) == v - Clamp(v, lower, upper)

\* A limit that a parameter change puts below the present command is
\* approached from then on: an update moves no command further out of the
\* limits it runs under (784, 802-806, 894-898).
MovesInwards ==
    /\ Magnitude(Outside(pitch', config.pitch_min, 0))
            <= Magnitude(Outside(pitch, config.pitch_min, 0))
    /\ Magnitude(Outside(roll', -config.roll_max, config.roll_max))
            <= Magnitude(Outside(roll, -config.roll_max, config.roll_max))
    /\ Magnitude(Outside(yaw', -config.yaw_max, config.yaw_max))
            <= Magnitude(Outside(yaw, -config.yaw_max, config.yaw_max))
NeverFurtherOut == [][MovesInwards]_vars

\* No command jumps: not at the end of the alignment, not when the target
\* reappears elsewhere, and not at all in an update without elapsed time
\* (792-797, 809-814, 899-904).
IsSlewed ==
    elapsed' >= 0 /\ config' = config =>
        /\ pitch' - pitch \in (-config.pitch_slew * elapsed')..(config.recovery_slew * elapsed')
        /\ Magnitude(roll' - roll) <= config.roll_slew * elapsed'
        /\ Magnitude(yaw' - yaw) <= config.yaw_slew * elapsed'
        /\ Magnitude(setpoint' - setpoint) <= config.accel * elapsed'
StepsAreSlewed == [][IsSlewed]_vars

\* While the throttle correction is cut off at its limit the integral does not
\* move deeper into the saturation, so the throttle answers as soon as the
\* error turns; only an integral outside a limit that shrank comes back to it
\* (876-888).
WindsNoFurther ==
    /\ demand' > config.throttle_max => integral' <= integral \/ integral < -config.i_max
    /\ demand' < -config.throttle_max => integral' >= integral \/ integral > config.i_max
WindupFree == [][WindsNoFurther]_vars
=============================================================================
