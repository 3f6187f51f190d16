------------------------ MODULE FailSafeLanding_proofs ------------------------
(* The fail-safe landing for every set of parameter values, every terrain   *)
(* and every bound.                                                         *)
EXTENDS FailSafeLanding, TLAPS

\* The landing timer runs behind the updates that saw the vehicle low and slow,
\* and only a landed controller in FAILSAFE lowers the ARM channel.
IInv ==
    /\ quiet \in 0..MaxTimer
    /\ candidate \in NoCandidate..MaxTimer
    /\ candidate # NoCandidate => candidate < quiet \/ quiet = MaxTimer
    /\ ~arm_channel => state = "FAILSAFE" /\ phase = "landed"
    /\ state = "FAILSAFE" /\ phase = "landed" => ~arm_channel

\* A timer that advances stays within the bound, and stays ahead of another.
LEMMA LaterTime ==
    ASSUME NEW t \in 0..MaxTimer
    PROVE  /\ Later(t) \in 0..MaxTimer
           /\ Later(t) = MaxTimer \/ Later(t) = t + 1
BY LimitsAssumption DEF Later, Least

LEMMA TimerBounds ==
    /\ MaxTimer \in Nat /\ NoCandidate = -1
    /\ \A p \in Parameters : p["land_confirm_s"] \in Nat /\ p["land_confirm_s"] < MaxTimer
<1>1. ASSUME NEW p \in Parameters
      PROVE  p["land_confirm_s"] \in Nat /\ p["land_confirm_s"] < MaxTimer
    <2>1. "land_confirm_s" \in DOMAIN Limits
        BY LimitsAssumption
    <2>2. p["land_confirm_s"] \in Limits["land_confirm_s"]
        BY <2>1 DEF Parameters
    <2> QED
        BY <2>1, <2>2, LimitsAssumption
<1> QED
    BY <1>1, LimitsAssumption DEF NoCandidate

\* The parameters stay within their limits.
LEMMA ParametersStep ==
    ASSUME params \in Parameters, [Next]_vars
    PROVE  params' \in Parameters
<1>1. CASE SetParameter
    <2>1. PICK n \in DOMAIN Limits :
                \E v \in Limits[n] : params' = [params EXCEPT ![n] = v]
        BY <1>1 DEF SetParameter
    <2> QED
        BY <2>1 DEF Parameters
<1>2. CASE UNCHANGED params
    BY <1>2
<1> QED
    BY <1>1, <1>2 DEF Next, vars, Loop, Enter, Return, Update, LoseLink, LinkResumes,
                      Follow, PilotFlies, Fly, Telemetry

\* The descent keeps the landing timer behind the quiet updates.
LEMMA DescendStep ==
    ASSUME IInv, Descend
    PROVE  /\ quiet' \in 0..MaxTimer
           /\ candidate' \in NoCandidate..MaxTimer
           /\ candidate' # NoCandidate => candidate' < quiet' \/ quiet' = MaxTimer
<1>1. CASE LandCandidate /\ candidate = NoCandidate
    <2>1. candidate' = 0 /\ quiet' = Later(quiet)
        BY <1>1 DEF Descend, CandidateTime
    <2> QED
        BY <2>1, LaterTime, TimerBounds DEF IInv
<1>2. CASE LandCandidate /\ candidate # NoCandidate
    <2>1. candidate' = Later(candidate) /\ quiet' = Later(quiet)
        BY <1>2 DEF Descend, CandidateTime
    <2>2. candidate \in 0..MaxTimer /\ quiet \in 0..MaxTimer
          /\ (candidate < quiet \/ quiet = MaxTimer)
        BY <1>2, TimerBounds DEF IInv
    <2> QED
        BY <2>1, <2>2, TimerBounds DEF Later, Least
<1>3. CASE ~LandCandidate
    <2>1. candidate' = NoCandidate /\ quiet' = 0
        BY <1>3 DEF Descend
    <2> QED
        BY <2>1, TimerBounds
<1> QED
    BY <1>1, <1>2, <1>3

LEMMA InvariantStep ==
    ASSUME IInv, [Next]_vars
    PROVE  IInv'
<1>1. CASE Enter
    BY <1>1, TimerBounds DEF Enter, IInv
<1>2. CASE Return
    BY <1>2 DEF Return, IInv, ctlVars
<1>3. CASE Update
    <2>1. state' = "FAILSAFE" /\ (~arm_channel' <=> phase' = "landed")
        BY <1>3 DEF Update
    <2>2. CASE Descend
        BY <2>1, <2>2, DescendStep DEF IInv
    <2>3. CASE Hold \/ Landed
        BY <1>3, <2>1, <2>3 DEF IInv, Hold, Landed, ctlVars
    <2> QED
        BY <1>3, <2>2, <2>3 DEF Update
<1>4. CASE SetParameter
    BY <1>4 DEF SetParameter, IInv
<1>5. CASE LoseLink \/ LinkResumes \/ Follow \/ PilotFlies \/ Telemetry \/ UNCHANGED vars
    BY <1>5 DEF LoseLink, LinkResumes, Follow, PilotFlies, Fly, Telemetry, vars, ctlVars, IInv
<1> QED
    BY <1>1, <1>2, <1>3, <1>4, <1>5 DEF Next, Loop

\* The inductive invariant holds of every behaviour.
LEMMA Invariance == Spec => [](IInv /\ params \in Parameters)
<1>1. Init => IInv /\ params \in Parameters
    BY TimerBounds DEF Init, IInv
<1>2. IInv /\ params \in Parameters /\ [Next]_vars => (IInv /\ params \in Parameters)'
    BY InvariantStep, ParametersStep
<1> QED
    BY <1>1, <1>2, PTL DEF Spec

\* A disarm by fail-safe is taken back only with the joystick.
THEOREM DisarmIsKept == Spec => DisarmStands
<1>1. IInv /\ [Next]_vars => [~arm_channel /\ arm_channel' => ~joy_fail_safe]_vars
    <2>1. ASSUME IInv, Next, ~arm_channel, arm_channel'
          PROVE  ~joy_fail_safe
        <3>1. state = "FAILSAFE" /\ phase = "landed"
            BY <2>1 DEF IInv
        <3>2. ~Update
            BY <2>1, <3>1 DEF Update, Hold, Descend, Descends, Landed, ctlVars
        <3>3. Return
            BY <2>1, <3>1, <3>2 DEF Next, Loop, Enter, SetParameter, LoseLink, LinkResumes,
                                    Follow, PilotFlies, Fly, Telemetry
        <3> QED
            BY <3>3 DEF Return
    <2> QED
        BY <2>1
<1> QED
    BY <1>1, Invariance, PTL DEF Spec, DisarmStands

\* A landing is confirmed by enough quiet updates of the descent it ends.
THEOREM LandingIsConfirmed == Spec => LandingConfirmedThisTime
<1>1. IInv /\ params \in Parameters /\ [Next]_vars =>
        [arm_channel /\ ~arm_channel' => quiet' > params["land_confirm_s"]]_vars
    <2>1. ASSUME IInv, params \in Parameters, Next, arm_channel, ~arm_channel'
          PROVE  quiet' > params["land_confirm_s"]
        <3>1. Update /\ phase' = "landed"
            BY <2>1 DEF Next, Loop, Enter, Return, Update, SetParameter, LoseLink, LinkResumes,
                        Follow, PilotFlies, Fly, Telemetry
        <3>2. CASE Descend
            <4>1. candidate' = CandidateTime /\ CandidateTime >= params["land_confirm_s"]
                  /\ candidate' # NoCandidate
                <5>1. LandCandidate /\ CandidateTime >= params["land_confirm_s"]
                    BY <3>1, <3>2 DEF Descend
                <5>2. CandidateTime \in 0..MaxTimer
                    <6>1. candidate # NoCandidate => candidate \in 0..MaxTimer
                        BY <2>1, TimerBounds DEF IInv
                    <6> QED
                        BY <6>1, LaterTime, TimerBounds DEF CandidateTime
                <5> QED
                    BY <3>2, <5>1, <5>2, TimerBounds DEF Descend
            <4>2. quiet' \in 0..MaxTimer /\ candidate' \in NoCandidate..MaxTimer
                  /\ (candidate' < quiet' \/ quiet' = MaxTimer)
                BY <2>1, <3>2, <4>1, DescendStep
            <4> QED
                BY <2>1, <4>1, <4>2, TimerBounds
        <3>3. CASE Landed
            BY <2>1, <3>1, <3>3 DEF Update, Landed, ctlVars, IInv
        <3>4. CASE Hold
            BY <3>1, <3>4 DEF Hold
        <3> QED
            BY <3>1, <3>2, <3>3, <3>4 DEF Update
    <2> QED
        BY <2>1
<1> QED
    BY <1>1, Invariance, PTL DEF Spec, LandingConfirmedThisTime
=============================================================================
