------------------------ MODULE TrackerCommands_proofs -------------------------
(* The commands of the tracker, for every set of consistent configurations,   *)
(* every camera error, vario sample and request, and every time step.         *)
EXTENDS TrackerCommands, TLAPS

----------------------------------------------------------------------------
(* Arithmetic.                                                                *)

LEMMA ClampWithin ==
    ASSUME NEW v \in Int, NEW lower \in Int, NEW upper \in Int, lower <= upper
    PROVE  /\ Clamp(v, lower, upper) \in lower..upper
           /\ v \in lower..upper => Clamp(v, lower, upper) = v
           /\ v <= lower => Clamp(v, lower, upper) = lower
           /\ v >= upper => Clamp(v, lower, upper) = upper
BY DEF Clamp

LEMMA WithinLimit ==
    ASSUME NEW v \in Int, NEW limit \in Nat
    PROVE  /\ Within(v, limit) \in Int
           /\ Within(v, limit) \in (-limit)..limit
           /\ v >= 0 => 0 <= Within(v, limit) /\ Within(v, limit) <= v
           /\ v <= 0 => v <= Within(v, limit) /\ Within(v, limit) <= 0
BY DEF Within, Clamp

LEMMA MagnitudeOf ==
    ASSUME NEW v \in Int
    PROVE  /\ Magnitude(v) \in Nat
           /\ \A n \in Nat : Magnitude(v) <= n <=> -n <= v /\ v <= n
BY DEF Magnitude

\* A slewed value moves towards its target, never past it, by at most a step.
LEMMA SlewedBetween ==
    ASSUME NEW v \in Int, NEW target \in Int, NEW step \in Nat
    PROVE  /\ Slewed(v, target, step) \in Int
           /\ v <= target => v <= Slewed(v, target, step) /\ Slewed(v, target, step) <= target
           /\ target <= v => target <= Slewed(v, target, step) /\ Slewed(v, target, step) <= v
           /\ -step <= Slewed(v, target, step) - v /\ Slewed(v, target, step) - v <= step
BY DEF Slewed, Within, Clamp

LEMMA SlewedType ==
    ASSUME NEW v \in Int, NEW target \in Int, NEW step \in Nat
    PROVE  /\ Slewed(v, target, step) \in Int
           /\ v <= 0 /\ target <= 0 => Slewed(v, target, step) <= 0
BY DEF Slewed, Within, Clamp

\* So a value that is slewed into an interval gets no further away from it.
LEMMA SlewedInwards ==
    ASSUME NEW v \in Int, NEW lower \in Int, NEW upper \in Int, NEW target \in lower..upper,
           NEW step \in Nat
    PROVE  Magnitude(Outside(Slewed(v, target, step), lower, upper))
               <= Magnitude(Outside(v, lower, upper))
<1> DEFINE w == Slewed(v, target, step)
<1>1. /\ w \in Int
      /\ v <= target => v <= w /\ w <= target
      /\ target <= v => target <= w /\ w <= v
    BY SlewedBetween
<1> HIDE DEF w
<1>2. Magnitude(Outside(w, lower, upper)) <= Magnitude(Outside(v, lower, upper))
    BY <1>1 DEF Magnitude, Outside, Clamp
<1> QED
    BY <1>2 DEF w

LEMMA NatProducts ==
    ASSUME NEW a \in Nat, NEW b \in Nat
    PROVE  a * b \in Nat
OBVIOUS

\* A part of a number lies between zero and the number.
LEMMA QuotientOfPart ==
    ASSUME NEW v \in Nat, NEW den \in Nat \ {0}, NEW num \in 0..den
    PROVE  /\ (v * num) \div den \in Nat
           /\ (v * num) \div den <= v
<1> DEFINE x == v * num
           q == x \div den
<1>1. x \in Nat /\ x <= v * den
    OBVIOUS
<1>2. q \in Int /\ den * q <= x /\ x < den * (q + 1)
    BY <1>1
<1> HIDE DEF x, q
<1>3. q >= 0
    <2> SUFFICES ASSUME q + 1 <= 0 PROVE FALSE
        BY <1>2
    <2>1. den * (q + 1) <= 0
        BY <1>2
    <2> QED
        BY <1>1, <1>2, <2>1
<1>4. q <= v
    <2> SUFFICES ASSUME q >= v + 1 PROVE FALSE
        BY <1>2
    <2>1. den * q >= den * (v + 1)
        BY <1>2
    <2>2. den * (v + 1) = v * den + den
        OBVIOUS
    <2> QED
        BY <1>1, <1>2, <2>1, <2>2
<1> QED
    BY <1>2, <1>3, <1>4 DEF x, q

LEMMA PartShrinks ==
    ASSUME NEW v \in Int, NEW den \in Nat \ {0}, NEW num \in 0..den
    PROVE  /\ Part(v, num, den) \in Int
           /\ v >= 0 => 0 <= Part(v, num, den) /\ Part(v, num, den) <= v
           /\ v <= 0 => v <= Part(v, num, den) /\ Part(v, num, den) <= 0
<1>1. CASE v >= 0
    <2>1. Part(v, num, den) = (v * num) \div den
        BY <1>1 DEF Part
    <2> QED
        BY <1>1, <2>1, QuotientOfPart
<1>2. CASE v < 0
    <2>1. Part(v, num, den) = -(((-v) * num) \div den)
        BY <1>2 DEF Part
    <2>2. -v \in Nat
        BY <1>2
    <2>3. ((-v) * num) \div den \in Nat /\ ((-v) * num) \div den <= -v
        BY <2>2, QuotientOfPart
    <2> QED
        BY <1>2, <2>1, <2>3
<1> QED
    BY <1>1, <1>2

----------------------------------------------------------------------------
(* The step.                                                                  *)

\* Every quantity is a number, no pitch is backward, the filtered acceleration
\* is a physical one and the integral within the limit of some configuration.
CommandsInvariant ==
    /\ config \in Configs /\ aligned \in BOOLEAN
    /\ pitch \in Int /\ roll \in Int /\ yaw \in Int
    /\ setpoint \in Int /\ previous \in Int /\ demand \in Int
    /\ integral \in Int /\ \E c \in Configs : Magnitude(integral) <= c.i_max
    /\ elapsed \in Dts \cup {-1}
    /\ NeverBackward /\ AccelerationIsPhysical

\* The fields of a configuration that passed its checks, as numbers.
LEMMA ConfigFields ==
    ASSUME CommandsAssumption, NEW c \in Configs
    PROVE  /\ c.pitch_min \in Int /\ c.align_pitch \in Int /\ c.speed_min \in Int
           /\ c.pitch_min <= c.align_pitch /\ c.align_pitch <= 0
           /\ c.slow \in Nat /\ c.stop \in Nat /\ c.slow < c.stop
           /\ c.pitch_slew \in Nat /\ c.recovery_slew \in Nat
           /\ c.roll_max \in Nat /\ c.roll_slew \in Nat
           /\ c.yaw_max \in Nat /\ c.yaw_slew \in Nat
           /\ c.dy_max \in Nat /\ c.near_max \in Nat /\ c.speed_max \in Nat
           /\ c.deadband \in Nat /\ c.accel \in Nat
           /\ c.kp \in Nat /\ c.ki \in Nat /\ c.kd \in Nat
           /\ c.i_max \in Nat /\ c.throttle_max \in Nat
BY DEF CommandsAssumption, Fields, Consistent

LEMMA DeadbandType ==
    ASSUME NEW e \in Int, NEW band \in Nat
    PROVE  Deadband(e, band) \in Int
BY DEF Deadband, Magnitude

\* The pitch aimed at is forward and within the limit.
LEMMA PitchTargetWithin ==
    ASSUME CommandsAssumption, NEW c \in Configs, NEW tracking \in BOOLEAN,
           NEW dx \in Errors, NEW dy \in Errors, NEW request \in Requests
    PROVE  PitchTarget(c, tracking, dx, dy, request) \in c.pitch_min..0
<1>1. /\ c.pitch_min \in Int /\ c.align_pitch \in Int
      /\ c.pitch_min <= c.align_pitch /\ c.align_pitch <= 0
      /\ c.slow \in Nat /\ c.stop \in Nat /\ c.slow < c.stop
    BY ConfigFields
<1>2. Full \in Nat \ {0} /\ dx \in Int /\ request \in Int
    BY DEF CommandsAssumption
<1>3. dy \in Int /\ Magnitude(dy) \in 0..Full /\ Full - Magnitude(dy) \in 0..Full
    <2>1. dy \in (-Full)..Full
        BY DEF CommandsAssumption
    <2> QED
        BY <1>2, <2>1 DEF Magnitude
<1> DEFINE blended == Part(request, Full - Magnitude(dy), Full)
                          + Part(c.align_pitch, Magnitude(dy), Full)
           raw == Clamp(IF tracking THEN blended ELSE c.align_pitch, c.pitch_min, 0)
           width == c.stop - c.slow
           scale == Clamp(c.stop - Magnitude(dx), 0, width)
<1>4. blended \in Int
    <2>1. Part(request, Full - Magnitude(dy), Full) \in Int
        BY <1>2, <1>3, PartShrinks
    <2>2. Part(c.align_pitch, Magnitude(dy), Full) \in Int
        BY <1>1, <1>2, <1>3, PartShrinks
    <2> QED
        BY <2>1, <2>2
<1>5. raw \in c.pitch_min..0
    <2> HIDE DEF blended
    <2>1. (IF tracking THEN blended ELSE c.align_pitch) \in Int
        BY <1>1, <1>4
    <2>2. c.pitch_min \in Int /\ 0 \in Int /\ c.pitch_min <= 0
        BY <1>1
    <2>3. \A v \in Int : Clamp(v, c.pitch_min, 0) \in c.pitch_min..0
        BY <2>2, ClampWithin
    <2> QED
        BY <2>1, <2>3
<1>6. width \in Nat \ {0} /\ scale \in 0..width
    <2>1. width \in Nat \ {0} /\ width \in Int /\ 0 <= width
        BY <1>1
    <2> HIDE DEF width
    <2>2. c.stop - Magnitude(dx) \in Int
        BY <1>1, <1>2 DEF Magnitude
    <2>3. \A v \in Int : Clamp(v, 0, width) \in 0..width
        BY <2>1, ClampWithin
    <2> QED
        BY <2>1, <2>2, <2>3
<1>7. PitchTarget(c, tracking, dx, dy, request) = Part(raw, scale, width)
    BY DEF PitchTarget
<1> HIDE DEF raw, scale, width
<1>8. raw \in Int /\ c.pitch_min <= raw /\ raw <= 0
    BY <1>1, <1>5
<1>9. raw <= Part(raw, scale, width) /\ Part(raw, scale, width) <= 0
      /\ Part(raw, scale, width) \in Int
    BY <1>6, <1>8, PartShrinks
<1> QED
    BY <1>1, <1>7, <1>8, <1>9

\* What an update does to each command, in terms of its target and its step.
CommandsMove(c, dt) ==
    /\ \E target \in c.pitch_min..0 :
            pitch' = Slewed(pitch, target, PitchStep(c, target, dt))
    /\ \E target \in (-c.roll_max)..c.roll_max : roll' = Slewed(roll, target, c.roll_slew * dt)
    /\ \E target \in (-c.yaw_max)..c.yaw_max : yaw' = Slewed(yaw, target, c.yaw_slew * dt)
    /\ \E target \in Int : setpoint' = Slewed(setpoint, target, c.accel * dt)

\* The vertical loop of an update.
VerticalMoves(c, dt) ==
    \E vario \in Int, sampled \in BOOLEAN :
        LET error == setpoint' - vario
            undamped == c.kp * error - c.kd * filtered'
            candidate == Integrate(c, error, dt)
        IN /\ filtered' = Acceleration(vario, sampled)
           /\ previous' \in {vario, previous}
           /\ integral' = AntiWindup(c, candidate, undamped + candidate, error)
           /\ demand' = undamped + integral'

LEMMA UpdateMoves ==
    ASSUME CommandsAssumption, CommandsInvariant, Update
    PROVE  /\ aligned' \in BOOLEAN /\ config' = config
           /\ elapsed' \in Dts /\ elapsed' \in Nat
           /\ CommandsMove(config, elapsed') /\ VerticalMoves(config, elapsed')
<1>1. PICK dt \in Dts, dx \in Errors, dy \in Errors, request \in Requests,
           vario \in Speeds, nominal \in Speeds, sampled \in BOOLEAN, clipped \in BOOLEAN :
        /\ aligned' \in {aligned, TRUE}
        /\ pitch' = Slewed(pitch, PitchTarget(config, aligned', dx, dy, request),
                           PitchStep(config, PitchTarget(config, aligned', dx, dy, request), dt))
        /\ roll' = RollStep(config, aligned', dx, dt)
        /\ yaw' = Slewed(yaw, Within(Deadband(dx, config.deadband), config.yaw_max),
                         config.yaw_slew * dt)
        /\ Vertical(config, SpeedTarget(config, aligned', dy, nominal, clipped), vario, sampled,
                    dt)
        /\ elapsed' = dt
    BY DEF Update
<1>2. aligned' \in BOOLEAN /\ config' = config
    BY <1>1 DEF Update, CommandsInvariant
<1>3. /\ config \in Configs /\ dt \in Nat /\ dx \in Int /\ dy \in Int /\ vario \in Int
      /\ nominal \in Int
    BY DEF CommandsAssumption, CommandsInvariant
<1>4. Deadband(dx, config.deadband) \in Int /\ Deadband(dy, config.deadband) \in Int
    BY <1>3, ConfigFields, DeadbandType
<1>5. \E target \in config.pitch_min..0 :
          pitch' = Slewed(pitch, target, PitchStep(config, target, dt))
    BY <1>1, <1>2, <1>3, PitchTargetWithin
<1>6. \E target \in (-config.roll_max)..config.roll_max :
          roll' = Slewed(roll, target, config.roll_slew * dt)
    <2> DEFINE target == IF aligned' THEN Within(Deadband(dx, config.deadband), config.roll_max)
                         ELSE 0
    <2>1. roll' = Slewed(roll, target, config.roll_slew * dt)
        BY <1>1 DEF RollStep
    <2>2. target \in (-config.roll_max)..config.roll_max
        <3>1. config.roll_max \in Nat
            BY <1>3, ConfigFields
        <3>2. Within(Deadband(dx, config.deadband), config.roll_max)
                  \in (-config.roll_max)..config.roll_max
            BY <1>4, <3>1, WithinLimit
        <3>3. 0 \in (-config.roll_max)..config.roll_max
            BY <3>1
        <3> QED
            BY <3>2, <3>3
    <2> QED
        BY <2>1, <2>2
<1>7. \E target \in (-config.yaw_max)..config.yaw_max :
          yaw' = Slewed(yaw, target, config.yaw_slew * dt)
    <2>1. Within(Deadband(dx, config.deadband), config.yaw_max)
              \in (-config.yaw_max)..config.yaw_max
        <3>1. config.yaw_max \in Nat
            BY <1>3, ConfigFields
        <3> QED
            BY <1>4, <3>1, WithinLimit
    <2> QED
        BY <1>1, <2>1
<1>8. SpeedTarget(config, aligned', dy, nominal, clipped) \in Int
    <2> DEFINE limit == IF aligned' /\ clipped THEN config.near_max ELSE config.dy_max
    <2>1. limit \in Nat
        BY <1>3, ConfigFields
    <2> HIDE DEF limit
    <2>2. Within(Deadband(dy, config.deadband), limit) \in Int
        BY <1>4, <2>1, WithinLimit
    <2>3. \A v \in Int : Clamp(v, config.speed_min, config.speed_max) \in Int
        BY <1>3, ConfigFields DEF Clamp
    <2>4. (IF aligned' THEN nominal ELSE 0) + Within(Deadband(dy, config.deadband), limit) \in Int
        BY <1>3, <2>2
    <2> QED
        BY <2>3, <2>4 DEF SpeedTarget, limit
<1>9. \E target \in Int : setpoint' = Slewed(setpoint, target, config.accel * dt)
    BY <1>1, <1>8 DEF Vertical
<1>10. VerticalMoves(config, dt)
    BY <1>1, <1>3 DEF Vertical, VerticalMoves
<1> QED
    BY <1>1, <1>2, <1>3, <1>5, <1>6, <1>7, <1>9, <1>10 DEF CommandsMove

\* The steps a command may take in an update, as numbers.
LEMMA StepTypes ==
    ASSUME CommandsAssumption, NEW c \in Configs, NEW dt \in Nat
    PROVE  /\ c.pitch_slew * dt \in Nat /\ c.recovery_slew * dt \in Nat
           /\ c.roll_slew * dt \in Nat /\ c.yaw_slew * dt \in Nat /\ c.accel * dt \in Nat
BY ConfigFields, NatProducts

LEMMA PitchStepType ==
    ASSUME CommandsAssumption, NEW c \in Configs, NEW dt \in Nat, NEW target \in Int
    PROVE  /\ PitchStep(c, target, dt) \in Nat
           /\ PitchStep(c, target, dt) =
                  IF target > pitch THEN c.recovery_slew * dt ELSE c.pitch_slew * dt
<1>1. PitchStep(c, target, dt) =
          IF target > pitch THEN c.recovery_slew * dt ELSE c.pitch_slew * dt
    BY DEF PitchStep
<1>2. c.pitch_slew * dt \in Nat /\ c.recovery_slew * dt \in Nat
    BY StepTypes
<1> QED
    BY <1>1, <1>2

LEMMA IntegralFollowsError ==
    ASSUME NEW k \in Nat, NEW e \in Int, NEW dt \in Nat
    PROVE  /\ k * e * dt \in Int
           /\ e < 0 => k * e * dt <= 0
           /\ e > 0 => k * e * dt >= 0
<1>1. k * e \in Int /\ (e < 0 => k * e <= 0) /\ (e > 0 => k * e >= 0)
    OBVIOUS
<1> DEFINE p == k * e
<1>2. p \in Int
    BY <1>1
<1> HIDE DEF p
<1>3. p * dt \in Int /\ (p <= 0 => p * dt <= 0) /\ (p >= 0 => p * dt >= 0)
    BY <1>2
<1> QED
    BY <1>1, <1>3 DEF p

\* The integral stays, or takes a value within the limit of this configuration.
LEMMA IntegralKept ==
    ASSUME CommandsAssumption, CommandsInvariant, NEW c \in Configs, NEW dt \in Nat,
           NEW error \in Int, NEW unlimited \in Int,
           integral' = AntiWindup(c, Integrate(c, error, dt), unlimited, error)
    PROVE  /\ Integrate(c, error, dt) \in Int /\ integral' \in Int
           /\ \E d \in Configs : Magnitude(integral') <= d.i_max
<1>1. c.ki \in Nat /\ c.i_max \in Nat /\ integral \in Int
    BY ConfigFields DEF CommandsInvariant
<1>2. integral + c.ki * error * dt \in Int
    BY <1>1, IntegralFollowsError
<1>3. /\ Integrate(c, error, dt) \in Int
      /\ Integrate(c, error, dt) \in (-c.i_max)..c.i_max
    BY <1>1, <1>2, WithinLimit DEF Integrate
<1>4. CASE integral' = integral
    BY <1>3, <1>4 DEF CommandsInvariant
<1>5. CASE integral' = Integrate(c, error, dt)
    BY <1>1, <1>3, <1>5, MagnitudeOf
<1> QED
    BY <1>4, <1>5 DEF AntiWindup

LEMMA FilteredKept ==
    ASSUME CommandsAssumption, CommandsInvariant, NEW vario \in Int, NEW sampled \in BOOLEAN
    PROVE  Acceleration(vario, sampled) \in (-AccelLimit)..AccelLimit
<1>1. AccelLimit \in Nat /\ filtered \in Int /\ filtered \in (-AccelLimit)..AccelLimit
      /\ previous \in Int
    BY DEF CommandsAssumption, CommandsInvariant, AccelerationIsPhysical
<1>2. CASE ~sampled
    BY <1>1, <1>2 DEF Acceleration
<1>3. CASE sampled
    <2> DEFINE w == Within(vario - previous, AccelLimit)
               change == w - filtered
    <2>1. w \in (-AccelLimit)..AccelLimit
        BY <1>1, WithinLimit
    <2> HIDE DEF w
    <2>2. change \in Int
        BY <1>1, <2>1
    <2>3. /\ change >= 0 => 0 <= Part(change, 1, 2) /\ Part(change, 1, 2) <= change
          /\ change <= 0 => change <= Part(change, 1, 2) /\ Part(change, 1, 2) <= 0
          /\ Part(change, 1, 2) \in Int
        <3> HIDE DEF change
        <3>1. 2 \in Nat \ {0} /\ 1 \in 0..2
            OBVIOUS
        <3> QED
            BY <2>2, <3>1, PartShrinks
    <2>4. Acceleration(vario, sampled) = filtered + Part(change, 1, 2)
        BY <1>3 DEF Acceleration, w
    <2> DEFINE p == Part(change, 1, 2)
    <2>5. filtered + p \in (-AccelLimit)..AccelLimit
        <3> HIDE DEF p
        <3>1. p \in Int /\ (w - filtered >= 0 => 0 <= p /\ p <= w - filtered)
              /\ (w - filtered <= 0 => w - filtered <= p /\ p <= 0)
            BY <2>3 DEF p
        <3> QED
            BY <1>1, <2>1, <3>1
    <2> QED
        BY <2>4, <2>5
<1> QED
    BY <1>2, <1>3

LEMMA CommandsInit ==
    ASSUME CommandsAssumption, Init
    PROVE  CommandsInvariant
<1>1. config \in Configs /\ config.align_pitch \in Int /\ config.align_pitch <= 0
      /\ config.i_max \in Nat
    BY ConfigFields DEF Init
<1>2. Magnitude(0) <= config.i_max
    BY <1>1 DEF Magnitude
<1>3. /\ setpoint \in Int /\ previous \in Int /\ 0 \in (-AccelLimit)..AccelLimit
      /\ pitch = config.align_pitch /\ roll = 0 /\ yaw = 0 /\ integral = 0 /\ filtered = 0
      /\ demand = 0 /\ elapsed = -1
    BY DEF CommandsAssumption, Init
<1>4. aligned \in BOOLEAN
    BY DEF Init
<1> QED
    BY <1>1, <1>2, <1>3, <1>4 DEF CommandsInvariant, NeverBackward, AccelerationIsPhysical

LEMMA CommandsStep ==
    ASSUME CommandsAssumption, CommandsInvariant, [Next]_vars
    PROVE  CommandsInvariant'
<1>1. CASE Update
    <2>1. /\ aligned' \in BOOLEAN /\ config' = config /\ config \in Configs
          /\ elapsed' \in Dts /\ elapsed' \in Nat
          /\ CommandsMove(config, elapsed') /\ VerticalMoves(config, elapsed')
        BY <1>1, UpdateMoves DEF CommandsInvariant
    <2>2. pitch' \in Int /\ pitch' <= 0
        <3>1. PICK target \in config.pitch_min..0 :
                  pitch' = Slewed(pitch, target, PitchStep(config, target, elapsed'))
            BY <2>1 DEF CommandsMove
        <3>2. target \in Int /\ target <= 0 /\ pitch \in Int /\ pitch <= 0
            BY <2>1, ConfigFields DEF CommandsInvariant, NeverBackward
        <3>3. PitchStep(config, target, elapsed') \in Nat
            BY <2>1, <3>2, PitchStepType
        <3> DEFINE step == PitchStep(config, target, elapsed')
        <3> HIDE DEF step
        <3>4. Slewed(pitch, target, step) \in Int /\ Slewed(pitch, target, step) <= 0
            BY <3>2, <3>3, SlewedType DEF step
        <3> QED
            BY <3>1, <3>4 DEF step
    <2>3. roll' \in Int
        <3>1. PICK target \in (-config.roll_max)..config.roll_max :
                  roll' = Slewed(roll, target, config.roll_slew * elapsed')
            BY <2>1 DEF CommandsMove
        <3>2. config.roll_slew * elapsed' \in Nat
            BY <2>1, StepTypes
        <3>3. target \in Int /\ roll \in Int
            BY <2>1, ConfigFields DEF CommandsInvariant
        <3> DEFINE step == config.roll_slew * elapsed'
        <3> HIDE DEF step
        <3>4. Slewed(roll, target, step) \in Int
            BY <3>2, <3>3, SlewedType DEF step
        <3> QED
            BY <3>1, <3>4 DEF step
    <2>4. yaw' \in Int
        <3>1. PICK target \in (-config.yaw_max)..config.yaw_max :
                  yaw' = Slewed(yaw, target, config.yaw_slew * elapsed')
            BY <2>1 DEF CommandsMove
        <3>2. config.yaw_slew * elapsed' \in Nat
            BY <2>1, StepTypes
        <3>3. target \in Int /\ yaw \in Int
            BY <2>1, ConfigFields DEF CommandsInvariant
        <3> DEFINE step == config.yaw_slew * elapsed'
        <3> HIDE DEF step
        <3>4. Slewed(yaw, target, step) \in Int
            BY <3>2, <3>3, SlewedType DEF step
        <3> QED
            BY <3>1, <3>4 DEF step
    <2>5. setpoint' \in Int
        <3>1. PICK target \in Int : setpoint' = Slewed(setpoint, target, config.accel * elapsed')
            BY <2>1 DEF CommandsMove
        <3>2. config.accel * elapsed' \in Nat
            BY <2>1, StepTypes
        <3>3. setpoint \in Int
            BY DEF CommandsInvariant
        <3> QED
            BY <3>1, <3>2, <3>3, SlewedType
    <2>6. PICK vario \in Int, sampled \in BOOLEAN :
              LET error == setpoint' - vario
                  undamped == config.kp * error - config.kd * filtered'
                  candidate == Integrate(config, error, elapsed')
              IN /\ filtered' = Acceleration(vario, sampled)
                 /\ previous' \in {vario, previous}
                 /\ integral' = AntiWindup(config, candidate, undamped + candidate, error)
                 /\ demand' = undamped + integral'
        BY <2>1 DEF VerticalMoves
    <2>7. filtered' \in (-AccelLimit)..AccelLimit
        BY <2>6, FilteredKept
    <2> DEFINE error == setpoint' - vario
               undamped == config.kp * error - config.kd * filtered'
               candidate == Integrate(config, error, elapsed')
    <2>8. error \in Int /\ undamped \in Int
        <3>1. config.kp \in Int /\ config.kd \in Int /\ filtered' \in Int
            BY <2>1, <2>7, ConfigFields DEF CommandsAssumption
        <3> QED
            BY <2>5, <3>1
    <2>9. candidate \in Int
        <3>1. config.ki \in Nat /\ config.i_max \in Nat /\ integral \in Int
            BY <2>1, ConfigFields DEF CommandsInvariant
        <3> HIDE DEF error
        <3>2. integral + config.ki * error * elapsed' \in Int
            BY <2>1, <2>8, <3>1, IntegralFollowsError
        <3> QED
            BY <3>1, <3>2, WithinLimit DEF Integrate
    <2>10. undamped + candidate \in Int
        <3> HIDE DEF undamped, candidate
        <3> QED
            BY <2>8, <2>9
    <2>11. integral' = AntiWindup(config, candidate, undamped + candidate, error)
        BY <2>6
    <2>12. integral' \in Int /\ \E d \in Configs : Magnitude(integral') <= d.i_max
        <3> HIDE DEF error, undamped
        <3> QED
            BY <2>1, <2>8, <2>10, <2>11, IntegralKept
    <2>13. demand' \in Int
        <3>1. demand' = undamped + integral'
            BY <2>6
        <3> HIDE DEF undamped
        <3> QED
            BY <2>8, <2>12, <3>1
    <2>14. previous' \in Int
        BY <2>6 DEF CommandsInvariant
    <2> QED
        BY <2>1, <2>2, <2>3, <2>4, <2>5, <2>7, <2>12, <2>13, <2>14
           DEF CommandsInvariant, NeverBackward, AccelerationIsPhysical
<1>2. CASE Restart
    <2>1. PICK vario \in Speeds : setpoint' = vario /\ previous' = vario
        BY <1>2 DEF Restart
    <2>2. /\ vario \in Int /\ config' = config /\ config \in Configs
          /\ config.align_pitch \in Int /\ config.align_pitch <= 0 /\ config.i_max \in Nat
        BY <1>2, ConfigFields DEF Restart, CommandsAssumption, CommandsInvariant
    <2>3. Magnitude(0) <= config.i_max
        BY <2>2 DEF Magnitude
    <2>4. /\ pitch' = config.align_pitch /\ roll' = 0 /\ yaw' = 0 /\ integral' = 0
          /\ filtered' = 0 /\ demand' = 0 /\ elapsed' = -1
          /\ 0 \in (-AccelLimit)..AccelLimit
        BY <1>2 DEF Restart, CommandsAssumption
    <2>5. aligned' \in BOOLEAN
        BY <1>2 DEF Restart
    <2> QED
        BY <2>1, <2>2, <2>3, <2>4, <2>5 DEF CommandsInvariant, NeverBackward,
           AccelerationIsPhysical
<1>3. CASE ConfigChange
    BY <1>3 DEF ConfigChange, CommandsInvariant, NeverBackward, AccelerationIsPhysical,
       commands, vertical
<1>4. CASE UNCHANGED vars
    BY <1>4 DEF vars, CommandsInvariant, NeverBackward, AccelerationIsPhysical, commands,
       vertical
<1> QED
    BY <1>1, <1>2, <1>3, <1>4 DEF Next

----------------------------------------------------------------------------
(* What a step never does.                                                    *)

\* An update moves no command further out of its limits; nothing else moves one
\* but a restart, which sets each within them.
LEMMA StepMovesInwards ==
    ASSUME CommandsAssumption, CommandsInvariant, [Next]_vars
    PROVE  MovesInwards
<1>1. /\ config \in Configs /\ pitch \in Int /\ roll \in Int /\ yaw \in Int
    BY DEF CommandsInvariant
<1>2. /\ config.pitch_min \in Int /\ config.align_pitch \in config.pitch_min..0
      /\ config.roll_max \in Nat /\ config.yaw_max \in Nat
    BY <1>1, ConfigFields
<1>3. CASE Update
    <2>1. elapsed' \in Nat /\ CommandsMove(config, elapsed')
        BY <1>3, UpdateMoves
    <2>2. PICK target \in config.pitch_min..0 :
              pitch' = Slewed(pitch, target, PitchStep(config, target, elapsed'))
        BY <2>1 DEF CommandsMove
    <2>3. target \in Int /\ PitchStep(config, target, elapsed') \in Nat
        <3>1. target \in Int
            BY <1>2
        <3> QED
            BY <1>1, <2>1, <3>1, PitchStepType
    <2>4. Magnitude(Outside(pitch', config.pitch_min, 0))
              <= Magnitude(Outside(pitch, config.pitch_min, 0))
        <3> DEFINE step == PitchStep(config, target, elapsed')
        <3> HIDE DEF step
        <3>1. Magnitude(Outside(Slewed(pitch, target, step), config.pitch_min, 0))
                  <= Magnitude(Outside(pitch, config.pitch_min, 0))
            BY <1>1, <1>2, <2>3, SlewedInwards DEF step
        <3> QED
            BY <2>2, <3>1 DEF step
    <2>5. PICK roll_target \in (-config.roll_max)..config.roll_max :
              roll' = Slewed(roll, roll_target, config.roll_slew * elapsed')
        BY <2>1 DEF CommandsMove
    <2>6. config.roll_slew * elapsed' \in Nat /\ config.yaw_slew * elapsed' \in Nat
        BY <1>1, <2>1, StepTypes
    <2>7. Magnitude(Outside(roll', -config.roll_max, config.roll_max))
              <= Magnitude(Outside(roll, -config.roll_max, config.roll_max))
        <3> DEFINE step == config.roll_slew * elapsed'
                   low == -config.roll_max
        <3>1. step \in Nat /\ low \in Int /\ roll_target \in low..config.roll_max
            BY <1>2, <2>6
        <3> HIDE DEF step, low
        <3>2. Magnitude(Outside(Slewed(roll, roll_target, step), low, config.roll_max))
                  <= Magnitude(Outside(roll, low, config.roll_max))
            BY <1>1, <1>2, <3>1, SlewedInwards
        <3> QED
            BY <2>5, <3>2 DEF step, low
    <2>8. PICK yaw_target \in (-config.yaw_max)..config.yaw_max :
              yaw' = Slewed(yaw, yaw_target, config.yaw_slew * elapsed')
        BY <2>1 DEF CommandsMove
    <2>9. Magnitude(Outside(yaw', -config.yaw_max, config.yaw_max))
              <= Magnitude(Outside(yaw, -config.yaw_max, config.yaw_max))
        <3> DEFINE step == config.yaw_slew * elapsed'
                   low == -config.yaw_max
        <3>1. step \in Nat /\ low \in Int /\ yaw_target \in low..config.yaw_max
            BY <1>2, <2>6
        <3> HIDE DEF step, low
        <3>2. Magnitude(Outside(Slewed(yaw, yaw_target, step), low, config.yaw_max))
                  <= Magnitude(Outside(yaw, low, config.yaw_max))
            BY <1>1, <1>2, <3>1, SlewedInwards
        <3> QED
            BY <2>8, <3>2 DEF step, low
    <2> QED
        BY <2>4, <2>7, <2>9 DEF MovesInwards
<1>4. /\ Magnitude(Outside(pitch, config.pitch_min, 0)) \in Nat
      /\ Magnitude(Outside(roll, -config.roll_max, config.roll_max)) \in Nat
      /\ Magnitude(Outside(yaw, -config.yaw_max, config.yaw_max)) \in Nat
    BY <1>1, <1>2 DEF Magnitude, Outside, Clamp
<1>5. CASE Restart
    <2>1. /\ Outside(config.align_pitch, config.pitch_min, 0) = 0
          /\ Outside(0, -config.roll_max, config.roll_max) = 0
          /\ Outside(0, -config.yaw_max, config.yaw_max) = 0
        BY <1>2 DEF Outside, Clamp
    <2>2. Magnitude(0) = 0
        BY DEF Magnitude
    <2>3. pitch' = config.align_pitch /\ roll' = 0 /\ yaw' = 0
        BY <1>5 DEF Restart
    <2>4. Magnitude(Outside(pitch', config.pitch_min, 0))
              <= Magnitude(Outside(pitch, config.pitch_min, 0))
        BY <1>4, <2>1, <2>2, <2>3
    <2>5. Magnitude(Outside(roll', -config.roll_max, config.roll_max))
              <= Magnitude(Outside(roll, -config.roll_max, config.roll_max))
        BY <1>4, <2>1, <2>2, <2>3
    <2>6. Magnitude(Outside(yaw', -config.yaw_max, config.yaw_max))
              <= Magnitude(Outside(yaw, -config.yaw_max, config.yaw_max))
        BY <1>4, <2>1, <2>2, <2>3
    <2> QED
        BY <2>4, <2>5, <2>6 DEF MovesInwards
<1>6. CASE UNCHANGED <<pitch, roll, yaw>>
    BY <1>4, <1>6 DEF MovesInwards
<1> QED
    BY <1>3, <1>5, <1>6 DEF Next, ConfigChange, vars, commands

\* In an update no command moves by more than its slew.
LEMMA StepIsSlewed ==
    ASSUME CommandsAssumption, CommandsInvariant, [Next]_vars
    PROVE  IsSlewed
<1>1. config \in Configs /\ pitch \in Int /\ roll \in Int /\ yaw \in Int /\ setpoint \in Int
    BY DEF CommandsInvariant
<1>2. \A dt \in Nat : /\ config.pitch_slew * dt \in Nat /\ config.recovery_slew * dt \in Nat
                       /\ config.roll_slew * dt \in Nat /\ config.yaw_slew * dt \in Nat
                       /\ config.accel * dt \in Nat
                       /\ -config.pitch_slew * dt = -(config.pitch_slew * dt)
    <2> TAKE dt \in Nat
    <2>1. config.pitch_slew \in Nat
        BY <1>1, ConfigFields
    <2>2. -config.pitch_slew * dt = -(config.pitch_slew * dt)
        BY <2>1
    <2> QED
        BY <1>1, <2>2, StepTypes
<1>3. CASE Update
    <2>1. elapsed' \in Nat /\ CommandsMove(config, elapsed')
        BY <1>3, UpdateMoves
    <2>2. pitch' - pitch \in (-config.pitch_slew * elapsed')..(config.recovery_slew * elapsed')
        <3>1. PICK target \in config.pitch_min..0 :
                  pitch' = Slewed(pitch, target, PitchStep(config, target, elapsed'))
            BY <2>1 DEF CommandsMove
        <3>2. target \in Int
            BY <1>1, ConfigFields
        <3> DEFINE step == PitchStep(config, target, elapsed')
                   down == config.pitch_slew * elapsed'
                   up == config.recovery_slew * elapsed'
        <3>3. step \in Nat /\ step = IF target > pitch THEN up ELSE down
            BY <1>1, <2>1, <3>2, PitchStepType
        <3>4. down \in Nat /\ up \in Nat /\ -config.pitch_slew * elapsed' = -down
            BY <1>2, <2>1
        <3>5. pitch' = Slewed(pitch, target, step)
            BY <3>1
        <3> HIDE DEF step, down, up
        <3>6. pitch' - pitch \in (-down)..up
            BY <1>1, <3>2, <3>3, <3>4, <3>5 DEF Slewed, Within, Clamp
        <3> QED
            BY <3>4, <3>6 DEF up
    <2>3. ASSUME NEW v \in Int, NEW w, NEW target \in Int, NEW step \in Nat,
                 w = Slewed(v, target, step)
          PROVE  Magnitude(w - v) <= step
        BY <2>3 DEF Slewed, Within, Clamp, Magnitude
    <2>4. Magnitude(roll' - roll) <= config.roll_slew * elapsed'
        <3>1. PICK target \in (-config.roll_max)..config.roll_max :
                  roll' = Slewed(roll, target, config.roll_slew * elapsed')
            BY <2>1 DEF CommandsMove
        <3> DEFINE step == config.roll_slew * elapsed'
        <3>2. target \in Int /\ step \in Nat
            BY <1>1, <1>2, <2>1, ConfigFields
        <3>3. roll' = Slewed(roll, target, step)
            BY <3>1
        <3> HIDE DEF step
        <3>4. Magnitude(roll' - roll) <= step
            BY <1>1, <2>3, <3>2, <3>3
        <3> QED
            BY <3>4 DEF step
    <2>5. Magnitude(yaw' - yaw) <= config.yaw_slew * elapsed'
        <3>1. PICK target \in (-config.yaw_max)..config.yaw_max :
                  yaw' = Slewed(yaw, target, config.yaw_slew * elapsed')
            BY <2>1 DEF CommandsMove
        <3> DEFINE step == config.yaw_slew * elapsed'
        <3>2. target \in Int /\ step \in Nat
            BY <1>1, <1>2, <2>1, ConfigFields
        <3>3. yaw' = Slewed(yaw, target, step)
            BY <3>1
        <3> HIDE DEF step
        <3>4. Magnitude(yaw' - yaw) <= step
            BY <1>1, <2>3, <3>2, <3>3
        <3> QED
            BY <3>4 DEF step
    <2>6. Magnitude(setpoint' - setpoint) <= config.accel * elapsed'
        <3>1. PICK target \in Int : setpoint' = Slewed(setpoint, target, config.accel * elapsed')
            BY <2>1 DEF CommandsMove
        <3> QED
            BY <1>1, <1>2, <2>1, <2>3, <3>1
    <2> QED
        BY <2>2, <2>4, <2>5, <2>6 DEF IsSlewed
<1>4. CASE Restart
    <2>1. elapsed' = -1
        BY <1>4 DEF Restart
    <2> QED
        BY <2>1 DEF IsSlewed
<1>5. CASE UNCHANGED <<pitch, roll, yaw, setpoint, elapsed>>
    <2>1. SUFFICES ASSUME elapsed' >= 0
                   PROVE  IsSlewed
        BY DEF IsSlewed
    <2>2. elapsed' \in Nat
        BY <1>5, <2>1 DEF CommandsInvariant, CommandsAssumption
    <2>3. Magnitude(0) = 0
        BY DEF Magnitude
    <2>4. /\ pitch' - pitch = 0 /\ roll' - roll = 0 /\ yaw' - yaw = 0
          /\ setpoint' - setpoint = 0
        BY <1>1, <1>5
    <2>5. 0 \in (-config.pitch_slew * elapsed')..(config.recovery_slew * elapsed')
        BY <1>2, <2>2
    <2> QED
        BY <1>2, <2>2, <2>3, <2>4, <2>5 DEF IsSlewed
<1> QED
    BY <1>3, <1>4, <1>5 DEF Next, ConfigChange, vars, commands, vertical

\* The integral moves into the saturation only on its way back to a limit.
LEMMA StepWindsNoFurther ==
    ASSUME CommandsAssumption, CommandsInvariant, [Next]_vars
    PROVE  WindsNoFurther
<1>1. /\ config \in Configs /\ integral \in Int /\ config.throttle_max \in Nat
      /\ config.i_max \in Nat /\ config.ki \in Nat /\ config.kp \in Int /\ config.kd \in Int
    BY ConfigFields DEF CommandsInvariant
<1>2. CommandsInvariant'
    BY CommandsStep
<1>3. CASE Update
    <2>1. elapsed' \in Nat /\ VerticalMoves(config, elapsed')
        BY <1>3, UpdateMoves
    <2>2. PICK vario \in Int, sampled \in BOOLEAN :
              LET error == setpoint' - vario
                  undamped == config.kp * error - config.kd * filtered'
                  candidate == Integrate(config, error, elapsed')
              IN /\ filtered' = Acceleration(vario, sampled)
                 /\ previous' \in {vario, previous}
                 /\ integral' = AntiWindup(config, candidate, undamped + candidate, error)
                 /\ demand' = undamped + integral'
        BY <2>1 DEF VerticalMoves
    <2> DEFINE error == setpoint' - vario
               undamped == config.kp * error - config.kd * filtered'
               change == config.ki * error * elapsed'
               candidate == Within(integral + change, config.i_max)
    <2>3. error \in Int /\ undamped \in Int
        <3>1. setpoint' \in Int /\ filtered' \in Int
            BY <1>2 DEF CommandsInvariant, AccelerationIsPhysical, CommandsAssumption
        <3> QED
            BY <1>1, <3>1
    <2>4. /\ integral' = AntiWindup(config, candidate, undamped + candidate, error)
          /\ demand' = undamped + integral'
        BY <2>2 DEF Integrate
    <2> HIDE DEF error, undamped
    <2>5. change \in Int /\ (error < 0 => change <= 0) /\ (error > 0 => change >= 0)
        BY <1>1, <2>1, <2>3, IntegralFollowsError
    <2> HIDE DEF change
    <2>6. /\ candidate \in Int
          /\ error < 0 => candidate <= integral \/ integral < -config.i_max
          /\ error > 0 => candidate >= integral \/ integral > config.i_max
        BY <1>1, <2>5 DEF Within, Clamp
    <2> HIDE DEF candidate
    <2>7. CASE integral' = integral
        BY <1>1, <2>7 DEF WindsNoFurther
    <2>8. CASE integral' # integral
        <3>1. /\ integral' = candidate
              /\ \/ Magnitude(undamped + candidate) <= config.throttle_max
                 \/ undamped + candidate > config.throttle_max /\ error < 0
                 \/ undamped + candidate < -config.throttle_max /\ error > 0
            BY <2>4, <2>8 DEF AntiWindup
        <3>2. demand' = undamped + candidate /\ demand' \in Int
            BY <2>3, <2>4, <2>6, <3>1
        <3>3. \/ -config.throttle_max <= demand' /\ demand' <= config.throttle_max
              \/ demand' > config.throttle_max /\ error < 0
              \/ demand' < -config.throttle_max /\ error > 0
            BY <1>1, <3>1, <3>2 DEF Magnitude
        <3> QED
            BY <1>1, <2>3, <2>6, <3>1, <3>2, <3>3 DEF WindsNoFurther
    <2> QED
        BY <2>7, <2>8
<1>4. CASE Restart
    BY <1>1, <1>4 DEF Restart, WindsNoFurther
<1>5. CASE UNCHANGED <<integral, demand>>
    BY <1>1, <1>5 DEF WindsNoFurther
<1> QED
    BY <1>3, <1>4, <1>5 DEF Next, ConfigChange, vars, vertical
==============================================================================
