------------------------- MODULE FlightControl_proofs -------------------------
(* The link to the joystick, the flight state machine it feeds, and the      *)
(* manual landing detection inside that, for every set of pilot snapshots,   *)
(* every choice of controller parameters and every loop timing.              *)
EXTENDS ManualLanding, TLAPS

----------------------------------------------------------------------------
(* The link to the joystick: the application is neutral while it is down.     *)

\* The snapshot of a pilot who touched nothing is a snapshot.
LEMMA DefaultRequestType == DefaultRequest \in Snapshots
BY DEF DefaultRequest, Snapshots, RC_MIN, RC_MAX

\* What each callback does, one equation per kind of event.
LEMMA HandleCases ==
    ASSUME NEW i
    PROVE  /\ Handle(i, NoEvent) = i
           /\ Handle(i, Timeout) = FailSafeIntent
           /\ Handle(i, Failure) = FailSafeIntent
           /\ Handle(i, Resume) = [i EXCEPT !.fail_safe = FALSE]
           /\ \A r : Handle(i, RcEvent(r)) =
                        IF r = Invalid THEN FailSafeIntent ELSE [i EXCEPT !.request = r]
<1>1. NoEvent.kind = "none" /\ Timeout.kind = "timeout" /\ Failure.kind = "failure"
      /\ Resume.kind = "resume"
    BY DEF NoEvent, Timeout, Failure, Resume
<1>2. \A r : RcEvent(r).kind = "rc" /\ RcEvent(r).request = r
    BY DEF RcEvent
<1>3. Handle(i, NoEvent) = i
    BY <1>1 DEF Handle
<1>4. Handle(i, Timeout) = FailSafeIntent
    BY <1>1 DEF Handle
<1>5. Handle(i, Failure) = FailSafeIntent
    BY <1>1 DEF Handle
<1>6. Handle(i, Resume) = [i EXCEPT !.fail_safe = FALSE]
    BY <1>1 DEF Handle
<1>7. \A r : Handle(i, RcEvent(r)) =
                IF r = Invalid THEN FailSafeIntent ELSE [i EXCEPT !.request = r]
    BY <1>2 DEF Handle
<1> QED
    BY <1>3, <1>4, <1>5, <1>6, <1>7

\* What a loss publishes is a well-formed intent.
LEMMA FailSafeIntentType == FailSafeIntent \in Intents
BY DefaultRequestType DEF FailSafeIntent, Intents

\* No callback leaves the application with an ill-formed intent.
LEMMA HandleType ==
    ASSUME NEW i \in Intents,
           NEW e \in {NoEvent, Timeout, Resume, Failure} \cup RcEvents
    PROVE  Handle(i, e) \in Intents
<1>1. CASE e \in {NoEvent, Timeout, Failure}
    BY <1>1, HandleCases, FailSafeIntentType
<1>2. CASE e = Resume
    BY <1>2, HandleCases DEF Intents
<1>3. CASE e \in RcEvents
    <2>1. PICK r \in Requests \cup {Invalid} : e = RcEvent(r)
        BY <1>3 DEF RcEvents
    <2>2. CASE r = Invalid
        BY <2>1, <2>2, HandleCases, FailSafeIntentType
    <2>3. CASE r # Invalid
        <3>1. r \in Snapshots
            BY <2>3, RequestsAssumption
        <3>2. Handle(i, e) = [i EXCEPT !.request = r]
            BY <2>1, <2>3, HandleCases
        <3> QED
            BY <3>1, <3>2 DEF Intents
    <2> QED
        BY <2>2, <2>3
<1> QED
    BY <1>1, <1>2, <1>3

\* Every delivery fills its slots with events and leads to a live state.
LEMMA DeliveryShape ==
    ASSUME NEW l \in Live, NEW d \in Deliveries(l)
    PROVE  /\ d.first \in {NoEvent, Resume} \cup RcEvents
           /\ d.second \in {NoEvent, Timeout, Resume} \cup RcEvents
           /\ d.link \in Live
           /\ d.link = "lost" => d.second = Timeout \/ d \in Quiet(l)
<1>1. CASE d \in Quiet(l)
    BY <1>1 DEF Quiet
<1>2. CASE d \in RcOnly(l)
    BY <1>2 DEF RcOnly, Live, LinkStates
<1>3. CASE d \in ResumeThenRc
    BY <1>3 DEF ResumeThenRc, Live, LinkStates
<1>4. CASE d \in ThenTimeout(l)
    BY <1>4 DEF ThenTimeout, Live, LinkStates
<1>5. CASE d \in ThenResume(l)
    BY <1>5 DEF ThenResume, Live, LinkStates
<1> QED
    BY <1>1, <1>2, <1>3, <1>4, <1>5 DEF Deliveries, Live

\* One dispatch keeps the published intent well formed, and neutral whenever it
\* leaves the link lost or failed.
LEMMA DispatchStep ==
    ASSUME LinkTypeOK, LostMeansNeutral, Dispatch
    PROVE  LinkTypeOK' /\ LostMeansNeutral'
<1> DEFINE after(d, e) == HandleBatch(Intent, <<d.first, d.second, e>>)
<1>1. PICK d \in Deliveries(link), e \in {NoEvent, Failure} :
        /\ link = "failed" => e = NoEvent
        /\ link' = IF e = Failure THEN "failed" ELSE d.link
        /\ request_rc' = after(d, e).request
        /\ joy_fail_safe' = after(d, e).fail_safe
    BY DEF Dispatch
<1>2. Intent \in Intents
    BY DEF LinkTypeOK, Intent, Intents
<1>3. after(d, e) = Handle(Handle(Handle(Intent, d.first), d.second), e)
    BY DEF HandleBatch
<1>4. NoEvent # Failure
    <2>1. NoEvent.kind = "none" /\ Failure.kind = "failure"
        BY DEF NoEvent, Failure
    <2> QED
        BY <2>1
<1>5. CASE link = "failed"
    <2>1. d = [first |-> NoEvent, second |-> NoEvent, link |-> link] /\ e = NoEvent
        BY <1>1, <1>5 DEF Deliveries, Quiet
    <2>2. after(d, e) = Intent
        BY <2>1, <1>3, HandleCases
    <2>3. link' = "failed" /\ request_rc' = request_rc /\ joy_fail_safe' = joy_fail_safe
        BY <1>1, <1>4, <1>5, <2>1, <2>2 DEF Intent
    <2> QED
        BY <2>3, <1>5 DEF LinkTypeOK, LostMeansNeutral
<1>6. CASE link # "failed"
    <2>0. link \in Live
        BY <1>6 DEF LinkTypeOK, Live
    <2>1. d.first \in {NoEvent, Timeout, Resume, Failure} \cup RcEvents
          /\ d.second \in {NoEvent, Timeout, Resume, Failure} \cup RcEvents
          /\ d.link \in Live
        BY <2>0, <1>1, DeliveryShape
    <2>2. Handle(Intent, d.first) \in Intents
        BY <2>1, <1>2, HandleType
    <2>3. Handle(Handle(Intent, d.first), d.second) \in Intents
        BY <2>1, <2>2, HandleType
    <2>4. after(d, e) \in Intents
        BY <2>3, <1>1, <1>3, HandleType
    <2>5. LinkTypeOK'
        BY <2>1, <2>4, <1>1 DEF LinkTypeOK, Intents, Live, LinkStates
    <2>6. CASE e = Failure
        <3>1. after(d, e) = FailSafeIntent
            BY <2>6, <1>3, HandleCases
        <3> QED
            BY <3>1, <1>1, <2>5 DEF LostMeansNeutral, FailSafeIntent
    <2>7. CASE e = NoEvent /\ d.second = Timeout
        <3>1. after(d, e) = FailSafeIntent
            BY <2>7, <1>3, HandleCases
        <3> QED
            BY <3>1, <1>1, <2>5 DEF LostMeansNeutral, FailSafeIntent
    <2>8. CASE e = NoEvent /\ d \in Quiet(link)
        <3>1. d = [first |-> NoEvent, second |-> NoEvent, link |-> link]
            BY <2>8 DEF Quiet
        <3>2. after(d, e) = Intent
            BY <3>1, <2>8, <1>3, HandleCases
        <3>3. link' = link /\ request_rc' = request_rc /\ joy_fail_safe' = joy_fail_safe
            BY <3>1, <3>2, <2>8, <1>1, <1>4 DEF Intent
        <3> QED
            BY <3>3, <2>5 DEF LostMeansNeutral
    <2>9. CASE e = NoEvent /\ d.second # Timeout /\ d \notin Quiet(link)
        <3>1. d.link # "lost" /\ d.link # "failed"
            BY <2>9, <2>0, <1>1, DeliveryShape DEF Live
        <3> QED
            BY <3>1, <2>9, <1>1, <1>4, <2>5 DEF LostMeansNeutral
    <2> QED
        BY <2>6, <2>7, <2>8, <2>9, <1>1
<1> QED
    BY <1>5, <1>6

\* The application starts neutral, outside fail-safe, with no link yet.
LEMMA LinkInitial == LinkInit => LinkTypeOK /\ LostMeansNeutral
BY DefaultRequestType DEF LinkInit, LinkTypeOK, LinkStates, LostMeansNeutral

\* Whatever batches the listener hands over, a lost or failed link leaves the
\* application on the neutral snapshot in fail-safe.
THEOREM LinkIsNeutralWhenLost == LinkSpec => [](LinkTypeOK /\ LostMeansNeutral)
<1>1. LinkTypeOK /\ LostMeansNeutral /\ [Dispatch]_linkVars => (LinkTypeOK /\ LostMeansNeutral)'
    <2> SUFFICES ASSUME LinkTypeOK, LostMeansNeutral, [Dispatch]_linkVars
                 PROVE  (LinkTypeOK /\ LostMeansNeutral)'
        OBVIOUS
    <2>1. CASE Dispatch
        BY <2>1, DispatchStep
    <2>2. CASE UNCHANGED linkVars
        BY <2>2 DEF linkVars, LinkTypeOK, LostMeansNeutral
    <2> QED
        BY <2>1, <2>2
<1> QED
    BY LinkInitial, <1>1, PTL DEF LinkSpec

----------------------------------------------------------------------------
(* The controllers.                                                         *)

\* A reset controller is in a state of its type.
LEMMA ResetTypes ==
    ASSUME NEW a \in Int, NEW b \in BOOLEAN
    PROVE  /\ ArmReset \in ArmStates
           /\ TakeoffReset \in TakeoffStates
           /\ HoldReset(a, b) \in HoldStates
           /\ FailSafeReset(a) \in FailSafeStates
<1> USE DEF ArmStates, TakeoffStates, HoldStates, FailSafeStates
<1>1. ArmReset \in ArmStates
    BY TimeAssumption DEF ArmReset, ArmTotalTime
<1>2. TakeoffReset \in TakeoffStates
    BY TimeAssumption DEF TakeoffReset
<1>3. HoldReset(a, b) \in HoldStates
    BY AltitudeAssumption DEF HoldReset, Greatest
<1>4. FailSafeReset(a) \in FailSafeStates
    BY TimeAssumption, AltitudeAssumption DEF FailSafeReset, Greatest, NoCandidate
<1> QED
    BY <1>1, <1>2, <1>3, <1>4

\* The arming sequence stays within its total time, and is complete only when
\* the ARM channel is high.
LEMMA ArmAdvanceType ==
    ASSUME NEW c \in ArmStates, NEW d \in Nat
    PROVE  /\ ArmAdvance(c, d) \in ArmStates
           /\ c.elapsed <= ArmAdvance(c, d).elapsed
           /\ ArmAdvance(c, d).done => c.done \/ ArmChannelHigh(ArmAdvance(c, d))
<1> USE DEF ArmStates
<1> DEFINE e == Least(c.elapsed + d, ArmTotalTime)
<1>1. ArmTotalTime \in Nat /\ DisabledHoldTime \in Nat /\ DisabledHoldTime <= ArmTotalTime
    BY TimeAssumption DEF ArmTotalTime
<1>2. c.elapsed \in 0..ArmTotalTime /\ c.done \in BOOLEAN
    OBVIOUS
<1>3. e \in 0..ArmTotalTime /\ c.elapsed <= e
    BY <1>1, <1>2 DEF Least
<1>4. ArmAdvance(c, d) = [elapsed |-> e,
                          done |-> c.done \/ e = DisabledHoldTime \/ e = ArmTotalTime]
    BY DEF ArmAdvance
<1>5. ArmAdvance(c, d).elapsed = e
    BY <1>4
<1>6. ArmAdvance(c, d).done = (c.done \/ e = DisabledHoldTime \/ e = ArmTotalTime)
    BY <1>4
<1> HIDE DEF e
<1>7. ArmAdvance(c, d) \in ArmStates
    BY <1>2, <1>3, <1>4
<1>8. ArmAdvance(c, d).done => c.done \/ ArmChannelHigh(ArmAdvance(c, d))
    BY <1>1, <1>3, <1>5, <1>6 DEF ArmChannelHigh
<1> QED
    BY <1>3, <1>5, <1>7, <1>8

\* The settling timer never runs ahead of the time that passed.
LEMMA TakeoffAdvanceType ==
    ASSUME NEW c \in TakeoffStates,
           NEW d \in Nat, NEW alt, NEW slow \in BOOLEAN
    PROVE  /\ TakeoffAdvance(c, d, alt, slow) \in TakeoffStates
           /\ TakeoffAdvance(c, d, alt, slow).settled <= c.settled + d
           /\ ~c.started => TakeoffAdvance(c, d, alt, slow).settled <= c.settled
BY TimeAssumption DEF TakeoffAdvance, Least, TakeoffStates

\* The altitude target stays a number.
LEMMA HoldAdvanceType ==
    ASSUME NEW c \in HoldStates, NEW t, NEW d \in Nat
    PROVE  HoldAdvance(c, t, d) \in HoldStates
<1> USE DEF HoldStates
<1>1. Ceiling \in Int /\ HoverMinAlt \in Int
    BY AltitudeAssumption
<1>2. CASE c.center_required
    BY <1>2 DEF HoldAdvance
<1>3. CASE ~c.center_required
    <2>1. Least(Greatest(c.setpoint + d, HoverMinAlt), Ceiling) \in Int
          /\ Greatest(c.setpoint - d, HoverMinAlt) \in Int
        BY <1>1 DEF Least, Greatest
    <2> QED
        BY <1>3, <2>1 DEF HoldAdvance
<1> QED
    BY <1>2, <1>3

\* The fail-safe sequence stays within its times.
LEMMA FailSafeAdvanceType ==
    ASSUME NEW c \in FailSafeStates,
           NEW d \in Nat, NEW alt, NEW slow \in BOOLEAN
    PROVE  FailSafeAdvance(c, d, alt, slow) \in FailSafeStates
<1> USE DEF FailSafeStates
<1> DEFINE held == IF c.phase = "hold" THEN FailSafeHold(c, d) ELSE c
<1>1. FsHoldTime \in Nat /\ FsLandConfirm \in Nat /\ FsMinAlt \in Int /\ NoCandidate = -1
    BY TimeAssumption, AltitudeAssumption DEF NoCandidate
<1>2. FailSafeHold(c, d) \in FailSafeStates
    <2> DEFINE e == Least(c.elapsed + d, FsHoldTime)
    <2>1. e \in 0..FsHoldTime /\ 0 \in 0..FsHoldTime
        BY <1>1 DEF Least
    <2>2. FailSafeHold(c, d) = IF FsHoldTime > 0 /\ e >= FsHoldTime
                               THEN [c EXCEPT !.phase = "descend", !.elapsed = 0]
                               ELSE [c EXCEPT !.elapsed = e]
        BY DEF FailSafeHold
    <2> HIDE DEF e
    <2> QED
        BY <2>1, <2>2
<1>3. held \in FailSafeStates
    BY <1>2
<1>4. ASSUME NEW h \in FailSafeStates PROVE FailSafeDescend(h, d, alt, slow) \in FailSafeStates
    <2> DEFINE lower == [h EXCEPT !.setpoint = Greatest(@ - d, FsMinAlt)]
               since == IF h.candidate = NoCandidate THEN 0
                        ELSE Least(h.candidate + d, FsLandConfirm)
    <2>1. lower \in FailSafeStates
        BY <1>1 DEF Greatest
    <2>2. since \in NoCandidate..FsLandConfirm /\ NoCandidate \in NoCandidate..FsLandConfirm
        BY <1>1 DEF Least
    <2>3. FailSafeDescend(h, d, alt, slow) =
            IF alt <= FsLandAlt /\ slow
            THEN [lower EXCEPT !.candidate = since,
                               !.phase = IF since >= FsLandConfirm THEN "landed" ELSE @]
            ELSE [lower EXCEPT !.candidate = NoCandidate]
        BY DEF FailSafeDescend
    <2> HIDE DEF lower, since
    <2> QED
        BY <2>1, <2>2, <2>3
<1>5. FailSafeAdvance(c, d, alt, slow) =
        IF held.phase = "descend" THEN FailSafeDescend(held, d, alt, slow) ELSE held
    BY DEF FailSafeAdvance
<1> HIDE DEF held
<1> QED
    BY <1>3, <1>4, <1>5

----------------------------------------------------------------------------
(* The state machine.                                                       *)

\* The registered transitions join flight states; IDLE is left only to ARM and
\* ARM only to MANUAL, with the vehicle armed.
LEMMA EdgeShape ==
    ASSUME NEW e \in Edges
    PROVE  /\ e.from \in RobotStates /\ e.to \in RobotStates
           /\ e.from = "IDLE" <=> e.to = "ARM"
           /\ e.from = "ARM" /\ e.guard => e.to = "MANUAL" /\ armed
           /\ e.to = "ALT_HOLD" /\ e.from = "TAKEOFF" => e.guard = takeoff_reach
<1> USE DEF Edge, RobotStates
<1>1. CASE e = Edge(1, "IDLE", "ARM", EnterArm)
    BY <1>1
<1>2. CASE e = Edge(2, "ARM", "MANUAL", EnterManual)
    BY <1>2 DEF EnterManual
<1>3. CASE e \in {
        Edge(3, "MANUAL", "TAKEOFF", EnterTakeoff),
        Edge(4, "MANUAL", "FAILSAFE", EnterFailSafe),
        Edge(5, "ALT_HOLD", "FAILSAFE", EnterFailSafe),
        Edge(6, "FAILSAFE", "ALT_HOLD", ExitFailSafe),
        Edge(7, "FAILSAFE", "IDLE", ExitFailSafeToIdle),
        Edge(8, "MANUAL", "IDLE", EnterIdle),
        Edge(9, "MANUAL", "ALT_HOLD", EnterHover)}
    BY <1>3
<1>4. CASE e = Edge(10, "TAKEOFF", "ALT_HOLD", takeoff_reach)
    BY <1>4
<1>5. CASE e \in {
        Edge(11, "TAKEOFF", "MANUAL", EnterManualFromTakeoff),
        Edge(12, "ALT_HOLD", "MANUAL", EnterManual),
        Edge(13, "ALT_HOLD", "TRACK", EnterTracking),
        Edge(14, "TRACK", "FAILSAFE", EnterFailSafe),
        Edge(15, "TRACK", "MANUAL", EnterManual),
        Edge(16, "TRACK", "ALT_HOLD", ExitTracking)}
    BY <1>5
<1> QED
    BY <1>1, <1>2, <1>3, <1>4, <1>5 DEF Edges

\* Entering a state leaves the controllers it does not reset alone.
LEMMA EntryResetCases ==
    ASSUME NEW from, NEW to
    PROVE  /\ to = "ARM" => EntryReset(from, to) = [ctl EXCEPT !.arm = ArmReset]
           /\ to = "TAKEOFF" => EntryReset(from, to) = [ctl EXCEPT !.takeoff = TakeoffReset]
           /\ to = "IDLE" => EntryReset(from, to) =
                                [ctl EXCEPT !.arm = ArmReset, !.takeoff = TakeoffReset]
           /\ to = "ALT_HOLD" => EntryReset(from, to) =
                [ctl EXCEPT !.hold = HoldReset(HoldTarget(from), from = "TAKEOFF")]
           /\ to = "FAILSAFE" => EntryReset(from, to) =
                [ctl EXCEPT !.failsafe = FailSafeReset(drone_alt)]
           /\ to \notin {"ARM", "TAKEOFF", "IDLE", "ALT_HOLD", "FAILSAFE"} =>
                EntryReset(from, to) = ctl
<1>1. to = "ARM" => EntryReset(from, to) = [ctl EXCEPT !.arm = ArmReset]
    BY DEF EntryReset
<1>2. to = "TAKEOFF" => EntryReset(from, to) = [ctl EXCEPT !.takeoff = TakeoffReset]
    BY DEF EntryReset
<1>3. to = "IDLE" => EntryReset(from, to) =
                        [ctl EXCEPT !.arm = ArmReset, !.takeoff = TakeoffReset]
    BY DEF EntryReset
<1>4. to = "ALT_HOLD" => EntryReset(from, to) =
        [ctl EXCEPT !.hold = HoldReset(HoldTarget(from), from = "TAKEOFF")]
    BY DEF EntryReset
<1>5. to = "FAILSAFE" => EntryReset(from, to) = [ctl EXCEPT !.failsafe = FailSafeReset(drone_alt)]
    BY DEF EntryReset
<1>6. to \notin {"ARM", "TAKEOFF", "IDLE", "ALT_HOLD", "FAILSAFE"} => EntryReset(from, to) = ctl
    BY DEF EntryReset
<1> QED
    BY <1>1, <1>2, <1>3, <1>4, <1>5, <1>6

\* A transition leaves every controller in a state of its type.
LEMMA EntryResetType ==
    ASSUME TypeOK, NEW from, NEW to
    PROVE  EntryReset(from, to) \in ControllerTypes
<1>1. ctl \in ControllerTypes /\ drone_alt \in Int /\ TakeoffAlt \in Int
    BY AltitudeAssumption DEF TypeOK
<1>2. HoldTarget(from) \in Int /\ (from = "TAKEOFF") \in BOOLEAN
    BY <1>1 DEF HoldTarget
<1>3. /\ ArmReset \in ArmStates
      /\ TakeoffReset \in TakeoffStates
      /\ HoldReset(HoldTarget(from), from = "TAKEOFF") \in HoldStates
      /\ FailSafeReset(drone_alt) \in FailSafeStates
    BY <1>1, <1>2, ResetTypes
<1>4. CASE to = "ARM"
    BY <1>1, <1>3, <1>4, EntryResetCases DEF ControllerTypes
<1>5. CASE to = "TAKEOFF"
    BY <1>1, <1>3, <1>5, EntryResetCases DEF ControllerTypes
<1>6. CASE to = "IDLE"
    <2>1. EntryReset(from, to) = [ctl EXCEPT !.arm = ArmReset, !.takeoff = TakeoffReset]
        BY <1>6, EntryResetCases
    <2> QED
        BY <1>1, <1>3, <2>1 DEF ControllerTypes
<1>7. CASE to = "ALT_HOLD"
    BY <1>1, <1>3, <1>7, EntryResetCases DEF ControllerTypes
<1>8. CASE to = "FAILSAFE"
    BY <1>1, <1>3, <1>8, EntryResetCases DEF ControllerTypes
<1>9. CASE to \notin {"ARM", "TAKEOFF", "IDLE", "ALT_HOLD", "FAILSAFE"}
    BY <1>1, <1>9, EntryResetCases
<1> QED
    BY <1>4, <1>5, <1>6, <1>7, <1>8, <1>9

----------------------------------------------------------------------------
(* Type correctness, and the neutral intent while the link is down.         *)

\* The loop starts in a state of its type, on the neutral intent.
LEMMA InitType == Init => TypeOK /\ LostMeansNeutral
<1> SUFFICES ASSUME Init PROVE TypeOK /\ LostMeansNeutral
    OBVIOUS
<1>1. LinkTypeOK /\ LostMeansNeutral
    BY LinkInitial DEF Init
<1>2. ctl \in ControllerTypes
    <2>1. ctl = [arm |-> ArmReset, takeoff |-> TakeoffReset,
                 hold |-> [setpoint |-> 0, center_required |-> FALSE],
                 failsafe |-> [FailSafeReset(0) EXCEPT !.setpoint = 0]]
        BY DEF Init
    <2>2. ArmReset \in ArmStates /\ TakeoffReset \in TakeoffStates
          /\ FailSafeReset(0) \in FailSafeStates
        <3>1. 0 \in Int /\ FALSE \in BOOLEAN
            OBVIOUS
        <3> QED
            BY <3>1, ResetTypes
    <2>3. [FailSafeReset(0) EXCEPT !.setpoint = 0] \in FailSafeStates
        BY <2>2 DEF FailSafeStates
    <2>4. [setpoint |-> 0, center_required |-> FALSE] \in HoldStates
        BY DEF HoldStates
    <2> QED
        BY <2>1, <2>2, <2>3, <2>4 DEF ControllerTypes
<1>3. DisarmFrame \in Frames
    BY DEF DisarmFrame, Frame, Frames
<1>4. past \in [enable : {"low", "mid", "high"}, press : BOOLEAN,
                in_takeoff : -1..TakeoffSettle, after_stop : Nat]
    BY TimeAssumption DEF Init
<1> QED
    BY <1>1, <1>2, <1>3, <1>4, AltitudeAssumption DEF Init, TypeOK, RobotStates

\* A transition is well typed.
LEMMA TakeType ==
    ASSUME TypeOK, NEW e \in Edges, Take(e)
    PROVE  /\ state' \in RobotStates /\ armed' \in BOOLEAN /\ alt_setpoint' \in Int
           /\ ctl' \in ControllerTypes
           /\ tracker_ready' \in BOOLEAN /\ tracker_exit_requested' \in BOOLEAN
           /\ past' \in [enable : {"low", "mid", "high"}, press : BOOLEAN,
                         in_takeoff : -1..TakeoffSettle, after_stop : Nat]
<1>1. state' \in RobotStates
    BY EdgeShape DEF Take
<1>2. armed' \in BOOLEAN
    BY DEF Take, TypeOK, ArmedOnEntry
<1>3. alt_setpoint' \in Int
    BY AltitudeAssumption DEF Take, TypeOK, HoldTarget
<1>4. ctl' \in ControllerTypes
    BY EntryResetType DEF Take
<1>5. tracker_ready' \in BOOLEAN /\ tracker_exit_requested' \in BOOLEAN
    BY DEF Take, TypeOK
<1>6. past' \in [enable : {"low", "mid", "high"}, press : BOOLEAN,
                 in_takeoff : -1..TakeoffSettle, after_stop : Nat]
    <2>1. past \in [enable : {"low", "mid", "high"}, press : BOOLEAN,
                    in_takeoff : -1..TakeoffSettle, after_stop : Nat]
        BY DEF TypeOK
    <2>2. past' = [past EXCEPT !.press = FALSE,
                               !.in_takeoff = IF e.to = "TAKEOFF" THEN -1 ELSE @]
        BY DEF Take
    <2>3. (IF e.to = "TAKEOFF" THEN -1 ELSE past.in_takeoff) \in -1..TakeoffSettle
        BY <2>1, TimeAssumption
    <2> QED
        BY <2>1, <2>2, <2>3
<1> QED
    BY <1>1, <1>2, <1>3, <1>4, <1>5, <1>6

\* One controller update keeps the controllers, the altitude target and the
\* frame well typed.
LEMMA ControlType ==
    ASSUME TypeOK, Control
    PROVE  TypeOK'
<1>1. PICK d \in Steps :
        \/ IdleControl \/ ManualControl \/ TrackControl
        \/ ArmControl(d) \/ TakeoffControl(d) \/ AltHoldControl(d) \/ FailSafeControl(d)
    BY DEF Control
<1>2. d \in Nat
    BY StepsAssumption
<1>3. /\ ctl.arm \in ArmStates /\ ctl.takeoff \in TakeoffStates
      /\ ctl.hold \in HoldStates /\ ctl.failsafe \in FailSafeStates
    BY DEF TypeOK, ControllerTypes
<1>4. pc' = "check" /\ UNCHANGED <<stop, fatal, linkVars, state, senseVars, tracker_ready,
                   tracker_start_requested, tracker_enable_was_low, fcu_rc>>
    BY DEF Control
<1> DEFINE Changed ==
        /\ ctl \in ControllerTypes /\ armed \in BOOLEAN /\ alt_setpoint \in Int
        /\ takeoff_reach \in BOOLEAN /\ tracker_exit_requested \in BOOLEAN
        /\ sent_rc \in Frames
        /\ past \in [enable : {"low", "mid", "high"}, press : BOOLEAN,
                     in_takeoff : -1..TakeoffSettle, after_stop : Nat]
<1>5. Changed
    BY DEF TypeOK
<1>6. /\ \A b \in BOOLEAN, t \in {"low", "stick", "computed"} : Frame(b, t) \in Frames
      /\ DisarmFrame \in Frames
    BY DEF Frame, Frames, DisarmFrame
<1> SUFFICES Changed'
    BY <1>4 DEF TypeOK, LinkTypeOK, linkVars, senseVars
<1>7. CASE IdleControl
    BY <1>5, <1>6, <1>7 DEF IdleControl, SendsFrame
<1>8. CASE ManualControl
    <2>1. request_rc.arm \in BOOLEAN
        BY DEF TypeOK, LinkTypeOK, Snapshots
    <2> QED
        BY <1>5, <1>6, <1>8, <2>1 DEF ManualControl, SendsFrame
<1>9. CASE TrackControl
    BY <1>5, <1>6, <1>9 DEF TrackControl, SendsFrame
<1>10. CASE ArmControl(d)
    <2>1. ArmAdvance(ctl.arm, d) \in ArmStates
        BY <1>2, <1>3, ArmAdvanceType
    <2>2. ctl' = [ctl EXCEPT !.arm = ArmAdvance(ctl.arm, d)] /\ armed' = ctl.arm.done
          /\ sent_rc' = Frame(ArmChannelHigh(ctl'.arm), "low")
        BY <1>10 DEF ArmControl, SendsFrame
    <2>3. ctl' \in ControllerTypes /\ ctl.arm.done \in BOOLEAN
        BY <1>3, <1>5, <2>1, <2>2 DEF ControllerTypes, ArmStates
    <2>4. sent_rc' \in Frames
        BY <2>2 DEF ArmChannelHigh, Frame, Frames
    <2> QED
        BY <1>5, <1>10, <2>2, <2>3, <2>4 DEF ArmControl
<1>11. CASE TakeoffControl(d)
    <2>1. PICK slow \in BOOLEAN :
            ctl' = [ctl EXCEPT !.takeoff = TakeoffAdvance(ctl.takeoff, d, drone_alt, slow)]
        BY <1>11 DEF TakeoffControl
    <2>2. TakeoffAdvance(ctl.takeoff, d, drone_alt, slow) \in TakeoffStates
        BY <1>2, <1>3, TakeoffAdvanceType
    <2>3. ctl' \in ControllerTypes
        BY <1>5, <2>1, <2>2 DEF ControllerTypes
    <2>4. takeoff_reach' \in BOOLEAN
        BY <1>11 DEF TakeoffControl, TakeoffReached
    <2>5. alt_setpoint' \in Int
        BY <1>11, AltitudeAssumption DEF TakeoffControl
    <2>6. past' \in [enable : {"low", "mid", "high"}, press : BOOLEAN,
                     in_takeoff : -1..TakeoffSettle, after_stop : Nat]
        <3>1. past' = [past EXCEPT !.in_takeoff =
                            IF past.in_takeoff < 0 THEN 0
                            ELSE Least(past.in_takeoff + d, TakeoffSettle)]
            BY <1>11 DEF TakeoffControl
        <3>2. (IF past.in_takeoff < 0 THEN 0 ELSE Least(past.in_takeoff + d, TakeoffSettle))
                \in -1..TakeoffSettle
            BY <1>2, <1>5, TimeAssumption DEF Least
        <3> QED
            BY <1>5, <3>1, <3>2
    <2> QED
        BY <1>5, <1>6, <1>11, <2>3, <2>4, <2>5, <2>6 DEF TakeoffControl, SendsFrame
<1>12. CASE AltHoldControl(d)
    <2>1. ctl' = [ctl EXCEPT !.hold = HoldAdvance(ctl.hold, request_rc.throttle, d)]
          /\ alt_setpoint' = ctl'.hold.setpoint
        BY <1>12 DEF AltHoldControl
    <2>2. HoldAdvance(ctl.hold, request_rc.throttle, d) \in HoldStates
        BY <1>2, <1>3, HoldAdvanceType
    <2>3. ctl' \in ControllerTypes
        BY <1>5, <2>1, <2>2 DEF ControllerTypes
    <2>4. alt_setpoint' \in Int
        BY <2>1, <2>3 DEF ControllerTypes, HoldStates
    <2> QED
        BY <1>5, <1>6, <1>12, <2>3, <2>4 DEF AltHoldControl, SendsFrame
<1>13. CASE FailSafeControl(d)
    <2>1. PICK slow \in BOOLEAN :
            ctl' = [ctl EXCEPT !.failsafe = FailSafeAdvance(ctl.failsafe, d, drone_alt, slow)]
        BY <1>13 DEF FailSafeControl
    <2>2. FailSafeAdvance(ctl.failsafe, d, drone_alt, slow) \in FailSafeStates
        BY <1>2, <1>3, FailSafeAdvanceType
    <2>3. ctl' \in ControllerTypes
        BY <1>5, <2>1, <2>2 DEF ControllerTypes
    <2> QED
        BY <1>5, <1>6, <1>13, <2>3 DEF FailSafeControl, SendsFrame
<1> QED
    BY <1>1, <1>7, <1>8, <1>9, <1>10, <1>11, <1>12, <1>13

\* Every step of the loop, a stop request and an MSP failure are well typed,
\* and only a dispatch touches the pilot's intent.
LEMMA TypeStep ==
    ASSUME TypeOK, LostMeansNeutral, [Next]_vars
    PROVE  TypeOK' /\ LostMeansNeutral'
<1> USE DEF loopVars, senseVars, trackVars, modeVars, outVars
<1>1. CASE Poll
    <2>1. LinkTypeOK' /\ LostMeansNeutral'
        BY <1>1, DispatchStep DEF Poll, TypeOK
    <2> QED
        BY <1>1, <2>1 DEF Poll, TypeOK
<1>2. CASE Prepare
    <2>1. past' = [past EXCEPT
            !.enable = request_rc.tracker_enable,
            !.press = /\ request_rc.tracker_enable = "high"
                      /\ past.press \/ (past.enable = "low" /\ state = "ALT_HOLD")]
        BY <1>2 DEF Prepare
    <2>2. request_rc.tracker_enable \in {"low", "mid", "high"}
        BY DEF TypeOK, LinkTypeOK, Snapshots
    <2>3. past' \in [enable : {"low", "mid", "high"}, press : BOOLEAN,
                     in_takeoff : -1..TakeoffSettle, after_stop : Nat]
        BY <2>1, <2>2 DEF TypeOK
    <2>4. /\ tracker_ready' \in BOOLEAN /\ tracker_start_requested' \in BOOLEAN
          /\ tracker_exit_requested' \in BOOLEAN /\ tracker_enable_was_low' \in BOOLEAN
        BY <1>2 DEF Prepare, SwitchLatch
    <2> QED
        BY <1>2, <2>3, <2>4 DEF Prepare, TypeOK, LinkTypeOK, LostMeansNeutral, linkVars
<1>3. CASE Resolve
    <2>1. CASE \E e \in EnabledEdges : Take(e)
        <3>1. PICK e \in Edges : Take(e)
            BY <2>1 DEF EnabledEdges
        <3> QED
            BY <1>3, <3>1, TakeType
            DEF Resolve, TypeOK, LinkTypeOK, LostMeansNeutral, linkVars
    <2>2. CASE UNCHANGED <<state, ctl, armed, alt_setpoint, tracker_ready,
                           tracker_exit_requested, past>>
        BY <1>3, <2>2 DEF Resolve, TypeOK, LinkTypeOK, LostMeansNeutral, linkVars
    <2> QED
        BY <1>3, <2>1, <2>2 DEF Resolve
<1>4. CASE Control
    BY <1>4, ControlType DEF Control, LostMeansNeutral, linkVars
<1>5. CASE Send
    <2>1. past' \in [enable : {"low", "mid", "high"}, press : BOOLEAN,
                     in_takeoff : -1..TakeoffSettle, after_stop : Nat]
        BY <1>5 DEF Send, TypeOK
    <2> QED
        BY <1>5, <2>1 DEF Send, TypeOK, LinkTypeOK, LostMeansNeutral, linkVars
<1>6. CASE Sense
    BY <1>6 DEF Sense, TypeOK, LinkTypeOK, LostMeansNeutral, linkVars
<1>7. CASE Leave \/ Check
    BY <1>7 DEF Leave, Check, TypeOK, LinkTypeOK, LostMeansNeutral, linkVars
<1>8. CASE RequestStop
    BY <1>8 DEF RequestStop, TypeOK, LinkTypeOK, LostMeansNeutral, linkVars
<1>9. CASE MspFails
    BY <1>9 DEF MspFails, TypeOK, LinkTypeOK, LostMeansNeutral, linkVars
<1>10. CASE UNCHANGED vars
    BY <1>10 DEF vars, TypeOK, LinkTypeOK, LostMeansNeutral, linkVars
<1> QED
    BY <1>1, <1>2, <1>3, <1>4, <1>5, <1>6, <1>7, <1>8, <1>9, <1>10
    DEF Next, LoopStep

\* The loop and the state machine keep every variable within its type.
THEOREM TypeCorrect == Spec => []TypeOK
<1>1. TypeOK /\ LostMeansNeutral /\ [Next]_vars => (TypeOK /\ LostMeansNeutral)'
    BY TypeStep
<1> QED
    BY InitType, <1>1, PTL DEF Spec

\* In the flight loop as on the link: a lost or failed joystick leaves the
\* application on the neutral snapshot in fail-safe, in every step of an
\* iteration.
THEOREM LostLinkIsNeutral == Spec => []LostMeansNeutral
<1>1. TypeOK /\ LostMeansNeutral /\ [Next]_vars => (TypeOK /\ LostMeansNeutral)'
    BY TypeStep
<1> QED
    BY InitType, <1>1, PTL DEF Spec

----------------------------------------------------------------------------
(* The armed flag and the flight state.                                     *)

\* Only a transition or a controller update touches them.
LEMMA ModeStep ==
    ASSUME [Next]_vars
    PROVE  \/ Resolve
           \/ Control
           \/ UNCHANGED modeVars
BY DEF Next, LoopStep, Poll, Leave, Sense, Prepare, Check, Send, RequestStop, MspFails,
       vars, modeVars

\* Only ARM's controller writes the flag, and every update keeps the state.
LEMMA ControlArmed ==
    ASSUME Control
    PROVE  state' = state /\ (state # "ARM" => armed' = armed)
BY DEF Control, IdleControl, ManualControl, TrackControl, ArmControl, TakeoffControl,
       AltHoldControl, FailSafeControl

\* Every step keeps the flag and the state in agreement: ARM is left only with
\* the vehicle armed, and IDLE is entered disarmed.
LEMMA ArmedStep ==
    ASSUME TypeOK, ArmedMatchesState, [Next]_vars
    PROVE  ArmedMatchesState'
<1>1. CASE Resolve
    <2>1. CASE UNCHANGED <<state, armed>>
        BY <2>1 DEF ArmedMatchesState
    <2>2. ASSUME NEW e \in EnabledEdges, Take(e)
          PROVE  ArmedMatchesState'
        <3>1. e \in Edges /\ e.from = state /\ e.guard
            BY DEF EnabledEdges
        <3>2. state' = e.to /\ armed' = (armed /\ e.to # "IDLE")
            BY <2>2 DEF Take, ArmedOnEntry
        <3>3. /\ e.from = "IDLE" <=> e.to = "ARM"
              /\ e.from = "ARM" /\ e.guard => e.to = "MANUAL" /\ armed
            BY <3>1, EdgeShape
        <3>4. CASE state = "IDLE"
            BY <3>1, <3>2, <3>3, <3>4 DEF ArmedMatchesState
        <3>5. CASE state = "ARM"
            BY <3>1, <3>2, <3>3, <3>5 DEF ArmedMatchesState
        <3>6. CASE state \notin {"IDLE", "ARM"}
            BY <3>2, <3>6 DEF ArmedMatchesState
        <3> QED
            BY <3>4, <3>5, <3>6
    <2> QED
        BY <1>1, <2>1, <2>2 DEF Resolve
<1>2. CASE Control
    BY <1>2, ControlArmed DEF ArmedMatchesState
<1>3. CASE UNCHANGED modeVars
    BY <1>3 DEF modeVars, ArmedMatchesState
<1> QED
    BY <1>1, <1>2, <1>3, ModeStep

\* In every reachable state IDLE is disarmed and every flight state beyond ARM
\* is armed: none of the ten transitions guarded by ctx.armed can be blocked by
\* a stale flag.
THEOREM ArmedAgreesWithState == Spec => []ArmedMatchesState
<1>1. Init => ArmedMatchesState
    BY DEF Init, ArmedMatchesState
<1>2. TypeOK /\ ArmedMatchesState /\ [Next]_vars => ArmedMatchesState'
    BY ArmedStep
<1> QED
    BY <1>1, <1>2, TypeCorrect, PTL DEF Spec

----------------------------------------------------------------------------
(* Who wins when several transitions are enabled.                           *)

\* From ALT_HOLD and from TRACK the fail-safe edge is registered first and the
\* manual edge second.
LEMMA OverrideEdges ==
    ASSUME NEW s \in {"ALT_HOLD", "TRACK"}
    PROVE  \E f \in Edges, m \in Edges :
              /\ f.from = s /\ f.to = "FAILSAFE" /\ f.guard = EnterFailSafe
              /\ m.from = s /\ m.to = "MANUAL" /\ m.guard = EnterManual
              /\ \A e \in Edges : e.from = s /\ e # f => ~(e.rank <= f.rank)
              /\ \A e \in Edges : e.from = s /\ e \notin {f, m} => ~(e.rank <= m.rank)
<1> USE DEF Edge
<1> DEFINE hf == Edge(5, "ALT_HOLD", "FAILSAFE", EnterFailSafe)
           hm == Edge(12, "ALT_HOLD", "MANUAL", EnterManual)
           ht == Edge(13, "ALT_HOLD", "TRACK", EnterTracking)
           tf == Edge(14, "TRACK", "FAILSAFE", EnterFailSafe)
           tm == Edge(15, "TRACK", "MANUAL", EnterManual)
           th == Edge(16, "TRACK", "ALT_HOLD", ExitTracking)
<1>1. hf \in Edges /\ hm \in Edges /\ tf \in Edges /\ tm \in Edges
    BY DEF Edges
<1>2. \A e \in Edges : /\ e.from = "ALT_HOLD" => e \in {hf, hm, ht}
                       /\ e.from = "TRACK" => e \in {tf, tm, th}
    BY DEF Edges
<1>3. CASE s = "ALT_HOLD"
    <2>1. /\ \A e \in Edges : e.from = s /\ e # hf => ~(e.rank <= hf.rank)
          /\ \A e \in Edges : e.from = s /\ e \notin {hf, hm} => ~(e.rank <= hm.rank)
        BY <1>2, <1>3
    <2> QED
        BY <1>1, <1>3, <2>1
<1>4. CASE s = "TRACK"
    <2>1. /\ \A e \in Edges : e.from = s /\ e # tf => ~(e.rank <= tf.rank)
          /\ \A e \in Edges : e.from = s /\ e \notin {tf, tm} => ~(e.rank <= tm.rank)
        BY <1>2, <1>4
    <2> QED
        BY <1>1, <1>4, <2>1
<1> QED
    BY <1>3, <1>4

\* In every iteration that starts from ALT_HOLD or TRACK a lost joystick leads
\* to FAILSAFE, and otherwise the manual switch leads to MANUAL, whatever else
\* is enabled.
THEOREM OverridesWin == Spec => OverridePriority
<1>1. ASSUME ArmedMatchesState, Resolve, state \in {"ALT_HOLD", "TRACK"}
      PROVE  IF joy_fail_safe THEN state' = "FAILSAFE"
             ELSE request_rc.manual => state' = "MANUAL"
    <2>1. armed
        BY <1>1 DEF ArmedMatchesState
    <2>2. PICK f \in Edges, m \in Edges :
            /\ f.from = state /\ f.to = "FAILSAFE" /\ f.guard = EnterFailSafe
            /\ m.from = state /\ m.to = "MANUAL" /\ m.guard = EnterManual
            /\ \A e \in Edges : e.from = state /\ e # f => ~(e.rank <= f.rank)
            /\ \A e \in Edges : e.from = state /\ e \notin {f, m} => ~(e.rank <= m.rank)
        BY <1>1, OverrideEdges
    <2>3. f \in EnabledEdges <=> joy_fail_safe
        BY <2>1, <2>2 DEF EnabledEdges, EnterFailSafe
    <2>4. m \in EnabledEdges <=> request_rc.manual
        BY <2>1, <2>2 DEF EnabledEdges, EnterManual
    <2>5. CASE joy_fail_safe
        <3>1. PICK e \in EnabledEdges : Take(e) /\ \A g \in EnabledEdges : e.rank <= g.rank
            BY <1>1, <2>3, <2>5 DEF Resolve
        <3>2. e = f
            BY <2>2, <2>3, <2>5, <3>1 DEF EnabledEdges
        <3> QED
            BY <2>2, <2>5, <3>1, <3>2 DEF Take
    <2>6. CASE ~joy_fail_safe /\ request_rc.manual
        <3>1. PICK e \in EnabledEdges : Take(e) /\ \A g \in EnabledEdges : e.rank <= g.rank
            BY <1>1, <2>4, <2>6 DEF Resolve
        <3>2. e = m
            BY <2>2, <2>3, <2>4, <2>6, <3>1 DEF EnabledEdges
        <3> QED
            BY <2>2, <2>6, <3>1, <3>2 DEF Take
    <2> QED
        BY <2>5, <2>6
<1>2. ArmedMatchesState /\ [Next]_vars =>
        [Resolve /\ state \in {"ALT_HOLD", "TRACK"} =>
            IF joy_fail_safe THEN state' = "FAILSAFE"
            ELSE request_rc.manual => state' = "MANUAL"]_vars
    BY <1>1
<1> QED
    BY <1>2, ArmedAgreesWithState, PTL DEF Spec, OverridePriority

\* Both edges out of FAILSAFE are open when the joystick is back, and ALT_HOLD
\* has the lower rank.
LEMMA FailSafeEdges ==
    /\ Edge(6, "FAILSAFE", "ALT_HOLD", ExitFailSafe) \in Edges
    /\ \A e \in Edges : e.from = "FAILSAFE" =>
            \/ e = Edge(6, "FAILSAFE", "ALT_HOLD", ExitFailSafe)
            \/ e.rank = 7 /\ e.guard = ExitFailSafeToIdle
BY DEF Edges, Edge

\* The transition out of FAILSAFE, landed or not, is the one to ALT_HOLD.
THEOREM FailSafeLeadsToAltHold == Spec => FailSafeReturnsToAltHold
<1>1. ASSUME ArmedMatchesState, Resolve, state = "FAILSAFE", state' # "FAILSAFE"
      PROVE  state' = "ALT_HOLD" /\ armed' /\ ~joy_fail_safe
    <2>1. armed
        BY <1>1 DEF ArmedMatchesState
    <2>2. PICK e \in EnabledEdges : Take(e) /\ \A g \in EnabledEdges : e.rank <= g.rank
        BY <1>1 DEF Resolve
    <2> DEFINE back == Edge(6, "FAILSAFE", "ALT_HOLD", ExitFailSafe)
    <2>3. back.rank = 6 /\ back.from = "FAILSAFE" /\ back.to = "ALT_HOLD"
          /\ back.guard = ExitFailSafe
        BY DEF Edge
    <2>4. e \in Edges /\ e.from = "FAILSAFE" /\ e.guard
        BY <1>1, <2>2 DEF EnabledEdges
    <2>5. ~joy_fail_safe
        <3>1. CASE e = back
            BY <2>3, <2>4, <3>1 DEF ExitFailSafe
        <3>2. CASE e.guard = ExitFailSafeToIdle
            BY <2>4, <3>2 DEF ExitFailSafeToIdle
        <3> QED
            BY <2>4, <3>1, <3>2, FailSafeEdges
    <2>6. back \in EnabledEdges
        BY <1>1, <2>1, <2>3, <2>5, FailSafeEdges DEF EnabledEdges, ExitFailSafe
    <2>7. e = back
        BY <2>2, <2>3, <2>4, <2>6, FailSafeEdges
    <2>8. state' = "ALT_HOLD" /\ armed' = ArmedOnEntry("ALT_HOLD")
        BY <2>2, <2>3, <2>7 DEF Take
    <2> QED
        BY <2>1, <2>5, <2>8 DEF ArmedOnEntry
<1>2. ASSUME Next, ~Resolve PROVE state' = state
    BY <1>2 DEF Next, LoopStep, Poll, Leave, Sense, Prepare, Control, Check, Send,
                RequestStop, MspFails, modeVars
<1>3. ArmedMatchesState /\ [Next]_vars =>
        [state = "FAILSAFE" /\ state' # "FAILSAFE" =>
            state' = "ALT_HOLD" /\ armed' /\ ~joy_fail_safe]_vars
    BY <1>1, <1>2
<1> QED
    BY <1>3, ArmedAgreesWithState, PTL DEF Spec, FailSafeReturnsToAltHold

----------------------------------------------------------------------------
(* The arming sequence.                                                     *)

\* What ties the flag to the frame: a completed sequence has the ARM channel
\* high, in the frame being prepared or in the one the dispatcher already has.
ArmSequence ==
    /\ ctl.arm.done => ArmChannelHigh(ctl.arm)
    /\ state = "ARM" /\ ctl.arm.done =>
          /\ pc \in {"check", "send"} => sent_rc.arm
          /\ pc \in {"poll", "sense", "prepare", "resolve", "control"} => fcu_rc.arm

\* A transition into ARM restarts the sequence, any other leaves it alone or
\* restarts it.
LEMMA TakeArm ==
    ASSUME TypeOK, NEW e \in Edges, Take(e)
    PROVE  /\ ctl'.arm \in {ctl.arm, ArmReset}
           /\ state' = "ARM" => ctl'.arm = ArmReset
<1>1. ctl' = EntryReset(e.from, e.to) /\ state' = e.to /\ ctl \in ControllerTypes
    BY DEF Take, TypeOK
<1>2. CASE e.to = "IDLE"
    <2>1. ctl' = [ctl EXCEPT !.arm = ArmReset, !.takeoff = TakeoffReset]
        BY <1>1, <1>2, EntryResetCases
    <2> QED
        BY <1>1, <1>2, <2>1 DEF ControllerTypes
<1>3. CASE e.to # "IDLE"
    BY <1>1, <1>3, EntryResetCases DEF ControllerTypes
<1> QED
    BY <1>2, <1>3

\* Every step keeps the sequence and the frames in agreement.
LEMMA ArmSequenceStep ==
    ASSUME TypeOK, ArmSequence, [Next]_vars
    PROVE  ArmSequence'
<1>1. ctl.arm \in ArmStates /\ ArmReset.done = FALSE
    BY DEF TypeOK, ControllerTypes, ArmReset
<1>2. CASE Resolve
    <2>1. pc' = "control" /\ pc = "resolve" /\ UNCHANGED <<sent_rc, fcu_rc>>
        BY <1>2 DEF Resolve, outVars
    <2>2. CASE UNCHANGED <<state, ctl>>
        BY <2>1, <2>2 DEF ArmSequence, ArmChannelHigh
    <2>3. ASSUME NEW e \in EnabledEdges, Take(e)
          PROVE  ArmSequence'
        <3>1. ctl'.arm \in {ctl.arm, ArmReset} /\ (state' = "ARM" => ctl'.arm = ArmReset)
            BY <2>3, TakeArm DEF EnabledEdges
        <3> QED
            BY <3>1, <1>1 DEF ArmSequence, ArmChannelHigh
    <2> QED
        BY <1>2, <2>2, <2>3 DEF Resolve
<1>3. CASE Control
    <2>1. pc' = "check" /\ state' = state
        BY <1>3 DEF Control
    <2>2. CASE state = "ARM"
        <3>1. PICK d \in Steps : ArmControl(d)
            BY <1>3, <2>2 DEF Control, IdleControl, ManualControl, TrackControl,
               TakeoffControl, AltHoldControl, FailSafeControl
        <3>2. ctl' = [ctl EXCEPT !.arm = ArmAdvance(ctl.arm, d)]
              /\ sent_rc' = Frame(ArmChannelHigh(ctl'.arm), "low")
            BY <3>1 DEF ArmControl, SendsFrame
        <3>3. ctl'.arm = ArmAdvance(ctl.arm, d)
            BY <3>2 DEF TypeOK, ControllerTypes
        <3>4. /\ ctl.arm.elapsed <= ctl'.arm.elapsed
              /\ ctl'.arm.done => ctl.arm.done \/ ArmChannelHigh(ctl'.arm)
              /\ ctl'.arm \in ArmStates
            BY <1>1, <3>3, StepsAssumption, ArmAdvanceType
        <3>5. ctl'.arm.done => ArmChannelHigh(ctl'.arm)
            BY <1>1, <3>4, TimeAssumption DEF ArmSequence, ArmChannelHigh, ArmStates, ArmTotalTime
        <3>6. sent_rc'.arm = ArmChannelHigh(ctl'.arm)
            BY <3>2 DEF Frame
        <3> QED
            BY <2>1, <3>5, <3>6 DEF ArmSequence, ArmChannelHigh
    <2>3. CASE state # "ARM"
        <3>1. ctl'.arm = ctl.arm
            BY <1>3, <2>3 DEF Control, IdleControl, ManualControl, TrackControl, ArmControl,
               TakeoffControl, AltHoldControl, FailSafeControl, TypeOK, ControllerTypes
        <3> QED
            BY <2>1, <2>3, <3>1 DEF ArmSequence, ArmChannelHigh
    <2> QED
        BY <2>2, <2>3
<1>4. CASE Poll \/ Leave \/ Sense \/ Prepare \/ Check
    BY <1>4 DEF Poll, Leave, Sense, Prepare, Check, modeVars, outVars, ArmSequence, ArmChannelHigh
<1>5. CASE Send
    BY <1>5 DEF Send, modeVars, ArmSequence, ArmChannelHigh
<1>6. CASE RequestStop \/ MspFails
    BY <1>6 DEF RequestStop, MspFails, modeVars, outVars, ArmSequence, ArmChannelHigh
<1>7. CASE UNCHANGED vars
    BY <1>7 DEF vars, modeVars, outVars, loopVars, ArmSequence, ArmChannelHigh
<1> QED
    BY <1>2, <1>3, <1>4, <1>5, <1>6, <1>7 DEF Next, LoopStep

\* Whatever the hold times and the loop timing, the application sets its armed
\* flag only after the dispatcher was handed a frame with the ARM channel high.
THEOREM ArmFrameFirst == Spec => ArmFrameBeforeArmed
<1>1. Init => ArmSequence
    BY DEF Init, ArmSequence, ArmReset
<1>2. TypeOK /\ ArmSequence /\ [Next]_vars => ArmSequence'
    BY ArmSequenceStep
<1>3. ASSUME ArmSequence, [Next]_vars, ~armed, armed'
      PROVE  fcu_rc.arm
    <2>1. CASE Resolve
        BY <1>3, <2>1 DEF Resolve, Take, ArmedOnEntry
    <2>2. CASE Control
        <3>1. state = "ARM" /\ pc = "control"
            BY <1>3, <2>2, ControlArmed DEF Control
        <3>2. armed' = ctl.arm.done
            BY <2>2, <3>1 DEF Control, IdleControl, ManualControl, TrackControl, ArmControl,
               TakeoffControl, AltHoldControl, FailSafeControl
        <3> QED
            BY <1>3, <3>1, <3>2 DEF ArmSequence
    <2>3. CASE UNCHANGED modeVars
        BY <1>3, <2>3 DEF modeVars
    <2> QED
        BY <1>3, <2>1, <2>2, <2>3, ModeStep
<1>4. ArmSequence /\ [Next]_vars => [~armed /\ armed' => fcu_rc.arm]_vars
    BY <1>3
<1> QED
    BY <1>1, <1>2, <1>4, TypeCorrect, PTL DEF Spec, ArmFrameBeforeArmed

----------------------------------------------------------------------------
(* The takeoff and its handover to ALT_HOLD.                                *)

\* Between the loop's control steps ctx.takeoff_reach never claims more than
\* the settling timer shows, and the timer never more than the time this
\* takeoff has lasted.
TakeoffTimer ==
    state = "TAKEOFF" =>
        /\ past.in_takeoff < 0 => ctl.takeoff.settled = 0 /\ ~ctl.takeoff.started
        /\ past.in_takeoff >= 0 => ctl.takeoff.settled <= past.in_takeoff
        /\ pc # "control" /\ takeoff_reach => TakeoffReached(ctl.takeoff)

\* A transition into TAKEOFF restarts the timer and its record.
LEMMA TakeTakeoff ==
    ASSUME TypeOK, NEW e \in Edges, Take(e), state' = "TAKEOFF"
    PROVE  ctl'.takeoff = TakeoffReset /\ past'.in_takeoff = -1
<1>1. e.to = "TAKEOFF" /\ ctl' = EntryReset(e.from, e.to) /\ ctl \in ControllerTypes
    BY DEF Take, TypeOK
<1>2. past' = [past EXCEPT !.press = FALSE, !.in_takeoff = -1]
    BY <1>1 DEF Take
<1>3. past'.in_takeoff = -1
    BY <1>2 DEF TypeOK
<1> QED
    BY <1>1, <1>3, EntryResetCases DEF ControllerTypes

\* Every step keeps the flag behind the timer and the timer behind the clock.
LEMMA TakeoffTimerStep ==
    ASSUME TypeOK, TakeoffTimer, [Next]_vars
    PROVE  TakeoffTimer'
<1> USE DEF TakeoffReached
<1>1. CASE Resolve
    <2>1. pc' = "control" /\ pc = "resolve" /\ takeoff_reach' = takeoff_reach
        BY <1>1 DEF Resolve
    <2>2. CASE UNCHANGED <<state, ctl, past>>
        BY <2>1, <2>2 DEF TakeoffTimer
    <2>3. ASSUME NEW e \in EnabledEdges, Take(e), state' = "TAKEOFF"
          PROVE  TakeoffTimer'
        <3>1. ctl'.takeoff = TakeoffReset /\ past'.in_takeoff = -1
            BY <2>3, TakeTakeoff DEF EnabledEdges
        <3> QED
            BY <2>1, <3>1 DEF TakeoffTimer, TakeoffReset
    <2>4. CASE state' # "TAKEOFF"
        BY <2>4 DEF TakeoffTimer
    <2> QED
        BY <1>1, <2>2, <2>3, <2>4 DEF Resolve
<1>2. CASE Control
    <2>1. CASE state = "TAKEOFF"
        <3>1. PICK d \in Steps : TakeoffControl(d)
            BY <1>2, <2>1 DEF Control, IdleControl, ManualControl, TrackControl,
               ArmControl, AltHoldControl, FailSafeControl
        <3>2. PICK slow \in BOOLEAN :
                ctl' = [ctl EXCEPT !.takeoff = TakeoffAdvance(ctl.takeoff, d, drone_alt, slow)]
            BY <3>1 DEF TakeoffControl
        <3>3. ctl.takeoff \in TakeoffStates /\ d \in Nat
            BY StepsAssumption DEF TypeOK, ControllerTypes
        <3>4. ctl'.takeoff = TakeoffAdvance(ctl.takeoff, d, drone_alt, slow)
            BY <3>2 DEF TypeOK, ControllerTypes
        <3>5. /\ ctl'.takeoff \in TakeoffStates
              /\ ctl'.takeoff.settled <= ctl.takeoff.settled + d
              /\ ~ctl.takeoff.started => ctl'.takeoff.settled <= ctl.takeoff.settled
            BY <3>3, <3>4, TakeoffAdvanceType
        <3>6. past' = [past EXCEPT !.in_takeoff =
                            IF past.in_takeoff < 0 THEN 0
                            ELSE Least(past.in_takeoff + d, TakeoffSettle)]
            BY <3>1 DEF TakeoffControl
        <3>7. past.in_takeoff \in -1..TakeoffSettle
              /\ past'.in_takeoff = IF past.in_takeoff < 0 THEN 0
                                    ELSE Least(past.in_takeoff + d, TakeoffSettle)
            BY <3>6 DEF TypeOK
        <3>8. takeoff_reach' = (ctl'.takeoff.settled >= TakeoffSettle)
            BY <3>1 DEF TakeoffControl
        <3>9. ctl.takeoff.settled \in 0..TakeoffSettle /\ ctl'.takeoff.settled \in 0..TakeoffSettle
            BY <3>3, <3>5 DEF TakeoffStates
        <3>10. past'.in_takeoff >= 0 /\ ctl'.takeoff.settled <= past'.in_takeoff
            BY <2>1, <3>3, <3>5, <3>7, <3>9, TimeAssumption DEF TakeoffTimer, Least
        <3>11. ~(past'.in_takeoff < 0)
            BY <3>3, <3>7, TimeAssumption DEF Least
        <3> QED
            BY <3>8, <3>10, <3>11 DEF TakeoffTimer
    <2>2. CASE state # "TAKEOFF"
        BY <1>2, <2>2 DEF Control, TakeoffTimer
    <2> QED
        BY <2>1, <2>2
<1>3. CASE Poll \/ Leave \/ Sense \/ Check \/ Send
    <2>1. UNCHANGED modeVars /\ past'.in_takeoff = past.in_takeoff /\ pc # "control"
        BY <1>3 DEF Poll, Leave, Sense, Check, Send, TypeOK
    <2> QED
        BY <2>1 DEF modeVars, TakeoffTimer
<1>4. CASE Prepare
    <2>1. UNCHANGED modeVars /\ past'.in_takeoff = past.in_takeoff /\ pc # "control"
        BY <1>4 DEF Prepare, TypeOK
    <2> QED
        BY <2>1 DEF modeVars, TakeoffTimer
<1>5. CASE RequestStop \/ MspFails \/ UNCHANGED vars
    BY <1>5 DEF RequestStop, MspFails, vars, modeVars, loopVars, TakeoffTimer
<1> QED
    BY <1>1, <1>2, <1>3, <1>4, <1>5 DEF Next, LoopStep

\* TAKEOFF is left for ALT_HOLD only along the edge that reads takeoff_reach.
LEMMA TakeoffEdge ==
    ASSUME Resolve, state = "TAKEOFF", state' = "ALT_HOLD"
    PROVE  takeoff_reach
<1>1. PICK e \in Edges : Take(e) /\ e.from = state /\ e.guard
    BY DEF Resolve, EnabledEdges
<1>2. e.to = "ALT_HOLD" /\ e.from = "TAKEOFF"
    BY <1>1 DEF Take
<1> QED
    BY <1>1, <1>2, EdgeShape

\* Every takeoff that is handed over to ALT_HOLD lasted at least the settling
\* time: no flag and no timer of an earlier takeoff counts.
THEOREM SettlesEveryTakeoff == Spec => SettledThisTakeoff
<1>1. Init => TakeoffTimer
    BY DEF Init, TakeoffTimer
<1>2. TypeOK /\ TakeoffTimer /\ [Next]_vars => TakeoffTimer'
    BY TakeoffTimerStep
<1>3. ASSUME TypeOK, TakeoffTimer, [Next]_vars, state = "TAKEOFF", state' = "ALT_HOLD"
      PROVE  past.in_takeoff >= TakeoffSettle
    <2>1. Resolve
        BY <1>3, ModeStep, ControlArmed DEF modeVars
    <2>2. TakeoffReached(ctl.takeoff)
        BY <1>3, <2>1, TakeoffEdge DEF TakeoffTimer, Resolve
    <2>3. ctl.takeoff.settled \in 0..TakeoffSettle /\ past.in_takeoff \in -1..TakeoffSettle
        BY <1>3 DEF TypeOK, ControllerTypes, TakeoffStates
    <2> QED
        BY <1>3, <2>2, <2>3, TimeAssumption DEF TakeoffTimer, TakeoffReached
<1>4. TypeOK /\ TakeoffTimer /\ [Next]_vars =>
        [state = "TAKEOFF" /\ state' = "ALT_HOLD" => past.in_takeoff >= TakeoffSettle]_vars
    BY <1>3
<1> QED
    BY <1>1, <1>2, <1>4, TypeCorrect, PTL DEF Spec, SettledThisTakeoff

\* What a reset of the ALT_HOLD controller stores.
LEMMA HoldResetFields ==
    ASSUME NEW a, NEW b
    PROVE  /\ HoldReset(a, b).center_required = b
           /\ HoldReset(a, b).setpoint = Greatest(a, HoverMinAlt)
BY DEF HoldReset

\* Every step keeps the altitude target while the throttle is not centred.
LEMMA HandoverStep ==
    ASSUME TypeOK, TakeoffHandoverHoldsAltitude, [Next]_vars
    PROVE  TakeoffHandoverHoldsAltitude'
<1>1. CASE Resolve
    <2>1. CASE UNCHANGED <<state, ctl>>
        BY <2>1 DEF TakeoffHandoverHoldsAltitude
    <2>2. ASSUME NEW e \in EnabledEdges, Take(e), state' = "ALT_HOLD"
          PROVE  TakeoffHandoverHoldsAltitude'
        <3>1. ctl' = [ctl EXCEPT !.hold = HoldReset(HoldTarget(e.from), e.from = "TAKEOFF")]
            BY <2>2, EntryResetCases DEF Take
        <3>2. ctl'.hold = HoldReset(HoldTarget(e.from), e.from = "TAKEOFF")
            BY <3>1 DEF TypeOK, ControllerTypes
        <3>3. ctl'.hold.center_required = (e.from = "TAKEOFF")
            BY <3>2, HoldResetFields
        <3>4. ctl'.hold.setpoint = Greatest(HoldTarget(e.from), HoverMinAlt)
            BY <3>2, HoldResetFields
        <3> QED
            BY <3>3, <3>4 DEF TakeoffHandoverHoldsAltitude, HoldTarget
    <2>3. CASE state' # "ALT_HOLD"
        BY <2>3 DEF TakeoffHandoverHoldsAltitude
    <2> QED
        BY <1>1, <2>1, <2>2, <2>3 DEF Resolve
<1>2. CASE Control
    <2>1. CASE state = "ALT_HOLD"
        <3>1. PICK d \in Steps : AltHoldControl(d)
            BY <1>2, <2>1 DEF Control, IdleControl, ManualControl, TrackControl,
               ArmControl, TakeoffControl, FailSafeControl
        <3>2. ctl'.hold = HoldAdvance(ctl.hold, request_rc.throttle, d)
            BY <3>1 DEF AltHoldControl, TypeOK, ControllerTypes
        <3>3. ctl.hold \in HoldStates
            BY DEF TypeOK, ControllerTypes
        <3>4. ctl'.hold.center_required =>
                ctl.hold.center_required /\ ctl'.hold.setpoint = ctl.hold.setpoint
            BY <3>2, <3>3 DEF HoldAdvance, HoldStates
        <3> QED
            BY <2>1, <3>4 DEF TakeoffHandoverHoldsAltitude
    <2>2. CASE state # "ALT_HOLD"
        BY <1>2, <2>2 DEF Control, TakeoffHandoverHoldsAltitude
    <2> QED
        BY <2>1, <2>2
<1>3. CASE UNCHANGED modeVars
    BY <1>3 DEF modeVars, TakeoffHandoverHoldsAltitude
<1> QED
    BY <1>1, <1>2, <1>3, ModeStep

\* From the end of a takeoff until the pilot centres the throttle, ALT_HOLD
\* keeps the takeoff altitude as its target.
THEOREM HandoverHolds == Spec => []TakeoffHandoverHoldsAltitude
<1>1. Init => TakeoffHandoverHoldsAltitude
    BY DEF Init, TakeoffHandoverHoldsAltitude
<1>2. TypeOK /\ TakeoffHandoverHoldsAltitude /\ [Next]_vars => TakeoffHandoverHoldsAltitude'
    BY HandoverStep
<1> QED
    BY <1>1, <1>2, TypeCorrect, PTL DEF Spec

----------------------------------------------------------------------------
(* The tracker switch.                                                       *)

\* The SF latch remembers a low switch, or a press that _prepare_controllers saw
\* in ALT_HOLD and that no transition consumed; the start request Resolve reads
\* comes from such a press, on the snapshot it still has.
PressLatch ==
    /\ tracker_enable_was_low =>
            past.enable = "low" \/ (state = "ALT_HOLD" => past.press)
    /\ pc = "resolve" =>
            /\ tracker_enable_was_low => past.enable = "low" \/ state = "ALT_HOLD"
            /\ tracker_start_requested => past.press /\ request_rc.tracker_enable = "high"

\* What Take does to the press and to the switch as last seen.
LEMMA TakePress ==
    ASSUME TypeOK, NEW e, Take(e)
    PROVE  past'.press = FALSE /\ past'.enable = past.enable
BY DEF Take, TypeOK

\* A press that raises a start request was observed low before, in ALT_HOLD.
LEMMA PreparePress ==
    ASSUME TypeOK, PressLatch, Prepare
    PROVE  PressLatch'
<1>1. /\ past'.enable = request_rc.tracker_enable
      /\ past'.press = (/\ request_rc.tracker_enable = "high"
                        /\ past.press \/ (past.enable = "low" /\ state = "ALT_HOLD"))
    BY DEF Prepare, TypeOK
<1>2. state' = state /\ request_rc' = request_rc
    BY DEF Prepare, modeVars, linkVars
<1>3. tracker_enable_was_low' = SwitchLatch
    BY DEF Prepare
<1>4. tracker_start_requested' => SwitchRequest /\ state = "ALT_HOLD"
    BY DEF Prepare
<1>5. tracker_enable_was_low /\ state = "ALT_HOLD" /\ request_rc.tracker_enable = "high" =>
        past'.press
    BY <1>1 DEF PressLatch
<1>6. tracker_enable_was_low' => past'.enable = "low" \/ (state' = "ALT_HOLD" /\ past'.press)
    BY <1>1, <1>2, <1>3, <1>5 DEF SwitchLatch
<1>7. tracker_start_requested' => past'.press /\ request_rc'.tracker_enable = "high"
    BY <1>2, <1>4, <1>5 DEF SwitchRequest
<1> QED
    BY <1>6, <1>7 DEF PressLatch

\* Every step keeps the latch.
LEMMA PressStep ==
    ASSUME TypeOK, PressLatch, [Next]_vars
    PROVE  PressLatch'
<1>1. CASE Prepare
    BY <1>1, PreparePress
<1>2. CASE Resolve
    <2>1. pc = "resolve" /\ pc' = "control" /\ tracker_enable_was_low' = tracker_enable_was_low
        BY <1>2 DEF Resolve
    <2>2. CASE UNCHANGED <<state, past>>
        BY <2>1, <2>2 DEF PressLatch
    <2>3. ASSUME NEW e \in EnabledEdges, Take(e)
          PROVE  PressLatch'
        <3>1. past'.enable = past.enable
            BY <2>3, TakePress
        <3>2. e.from = state /\ state' = e.to /\ e.from # e.to
            BY <2>3 DEF EnabledEdges, Take, Edges, Edge
        <3>3. tracker_enable_was_low' => past'.enable = "low" \/ state' # "ALT_HOLD"
            BY <2>1, <3>1, <3>2 DEF PressLatch
        <3> QED
            BY <2>1, <3>3 DEF PressLatch
    <2> QED
        BY <1>2, <2>2, <2>3 DEF Resolve
<1>3. CASE Control
    <2>1. UNCHANGED <<state, tracker_enable_was_low>> /\ pc' = "check"
        BY <1>3 DEF Control
    <2>2. past'.press = past.press /\ past'.enable = past.enable
        BY <1>3 DEF Control, IdleControl, ManualControl, TrackControl, ArmControl,
           TakeoffControl, AltHoldControl, FailSafeControl, TypeOK
    <2> QED
        BY <2>1, <2>2 DEF PressLatch
<1>4. CASE Poll \/ Leave \/ Sense \/ Check \/ Send
    <2>1. UNCHANGED <<state, tracker_enable_was_low>> /\ pc' # "resolve"
        BY <1>4 DEF Poll, Leave, Sense, Check, Send, modeVars, trackVars
    <2>2. past'.press = past.press /\ past'.enable = past.enable
        BY <1>4 DEF Poll, Leave, Sense, Check, Send, TypeOK
    <2> QED
        BY <2>1, <2>2 DEF PressLatch
<1>5. CASE RequestStop \/ MspFails \/ UNCHANGED vars
    BY <1>5 DEF RequestStop, MspFails, vars, modeVars, loopVars, trackVars, linkVars, PressLatch
<1> QED
    BY <1>1, <1>2, <1>3, <1>4, <1>5 DEF Next, LoopStep

\* TRACK is entered only along the edge that reads the start request.
LEMMA TrackEdge ==
    ASSUME Resolve, state # "TRACK", state' = "TRACK"
    PROVE  tracker_start_requested
<1>1. PICK e \in Edges : Take(e) /\ e.from = state /\ e.guard
    BY DEF Resolve, EnabledEdges
<1>2. e.to = "TRACK"
    BY <1>1 DEF Take
<1>3. e.guard = EnterTracking
    BY <1>2 DEF Edges, Edge
<1> QED
    BY <1>1, <1>3 DEF EnterTracking

\* However the pilot moves the switches and whatever modes come in between, one
\* push of SF starts at most one tracking run.
THEOREM PressStartsOneTrack == Spec => OneTrackPerPress
<1>1. Init => PressLatch
    BY DEF Init, PressLatch
<1>2. TypeOK /\ PressLatch /\ [Next]_vars => PressLatch'
    BY PressStep
<1>3. ASSUME TypeOK, PressLatch, [Next]_vars, state # "TRACK", state' = "TRACK"
      PROVE  past.press /\ request_rc.tracker_enable = "high"
    <2>1. Resolve
        BY <1>3, ModeStep, ControlArmed DEF modeVars
    <2>2. pc = "resolve" /\ tracker_start_requested
        BY <1>3, <2>1, TrackEdge DEF Resolve
    <2> QED
        BY <1>3, <2>2 DEF PressLatch
<1>4. TypeOK /\ PressLatch /\ [Next]_vars =>
        [state # "TRACK" /\ state' = "TRACK" =>
            past.press /\ request_rc.tracker_enable = "high"]_vars
    BY <1>3
<1> QED
    BY <1>1, <1>2, <1>4, TypeCorrect, PTL DEF Spec, OneTrackPerPress

----------------------------------------------------------------------------
(* Manual landing.                                                           *)

\* A step of the loop with the landing service is a step of the loop.
LEMMA LandStepIsStep ==
    ASSUME LandNext \/ UNCHANGED allVars
    PROVE  [Next]_vars
BY DEF LandNext, PrepareAndNotify, ResolveAndReset, Elsewhere, SetLandConfirm, Next,
   LoopStep, allVars

\* The detector's timer never runs ahead of the time the pilot asked for the
\* landing over a vehicle that was low and slow throughout.
CandidateWasObserved ==
    /\ seen.time \in NoCandidate..MaxLandTimer
    /\ candidate <= seen.time

LandInvariant == ConfirmationIsSound /\ CandidateWasObserved

\* An update of the service and its history.
LEMMA UpdateStep ==
    ASSUME TypeOK, LandInvariant, PrepareAndNotify
    PROVE  LandInvariant'
<1>1. PICK d \in Steps, slow \in BOOLEAN :
        /\ IF IsDetectionRequested THEN DetectorUpdate(d, slow) ELSE ServiceReset
        /\ Observe(d, slow)
    BY DEF PrepareAndNotify
<1>2. state' = state /\ confirm_s' = confirm_s
    BY DEF PrepareAndNotify, Prepare, modeVars
<1>3. /\ d \in Nat /\ MaxLandTimer \in Nat /\ NoCandidate = -1
      /\ candidate \in NoCandidate..MaxLandTimer /\ seen.time \in NoCandidate..MaxLandTimer
      /\ candidate <= seen.time /\ confirm_s \in LandConfirms /\ confirm_s \in 0..MaxLandTimer
    BY StepsAssumption, LandAssumption
       DEF NoCandidate, LandInvariant, ConfirmationIsSound, LandTypeOK, CandidateWasObserved
<1> DEFINE active == IsDetectionRequested /\ IsLandCandidate(slow)
<1>4. seen'.needed = confirm_s
      /\ seen'.time = IF ~active THEN NoCandidate
                      ELSE IF seen.time = NoCandidate THEN 0
                      ELSE Least(seen.time + d, MaxLandTimer)
    BY <1>1 DEF Observe
<1>5. CASE ~active
    <2>1. candidate' = NoCandidate /\ manual_land_confirmed' = FALSE
        BY <1>1, <1>5 DEF DetectorUpdate, ServiceReset
    <2>2. seen'.time = NoCandidate
        BY <1>4, <1>5
    <2>3. candidate' \in NoCandidate..MaxLandTimer /\ CandidateWasObserved'
        BY <1>3, <2>1, <2>2 DEF CandidateWasObserved, NoCandidate
    <2> QED
        BY <1>2, <1>3, <2>1, <2>3 DEF LandInvariant, ConfirmationIsSound, LandTypeOK,
           ConfirmedInManualOnly, ConfirmedWithoutBreak
<1>6. CASE active
    <2>1. /\ candidate' = IF candidate = NoCandidate THEN 0
                          ELSE Least(candidate + d, MaxLandTimer)
          /\ manual_land_confirmed' = (candidate # NoCandidate /\ candidate' >= confirm_s)
          /\ state = "MANUAL"
        BY <1>1, <1>6 DEF DetectorUpdate, IsDetectionRequested
    <2>2. candidate' \in NoCandidate..MaxLandTimer /\ seen'.time \in NoCandidate..MaxLandTimer
        BY <1>3, <1>4, <1>6, <2>1 DEF Least
    <2>3. candidate' <= seen'.time
        BY <1>3, <1>4, <1>6, <2>1 DEF Least
    <2>4. candidate' >= confirm_s => seen'.time >= seen'.needed
        BY <1>3, <1>4, <2>2, <2>3
    <2> QED
        BY <1>2, <1>3, <2>1, <2>2, <2>3, <2>4 DEF LandInvariant, ConfirmationIsSound,
           LandTypeOK, ConfirmedInManualOnly, ConfirmedWithoutBreak, CandidateWasObserved
<1> QED
    BY <1>5, <1>6

\* A transition that leaves MANUAL resets the service; every other step leaves
\* the service and the flight state alone, or only sets MI_LAND_CONFIRM.
LEMMA LandStep ==
    ASSUME TypeOK, LandInvariant, LandNext \/ UNCHANGED allVars
    PROVE  LandInvariant'
<1> USE DEF LandInvariant, ConfirmationIsSound, LandTypeOK, ConfirmedInManualOnly,
            ConfirmedWithoutBreak, CandidateWasObserved
<1>1. CASE PrepareAndNotify
    BY <1>1, UpdateStep
<1>2. CASE ResolveAndReset
    <2>1. CASE ResetsOn(state, state')
        <3>1. candidate' = NoCandidate /\ manual_land_confirmed' = FALSE
              /\ UNCHANGED <<confirm_s, seen>>
            BY <1>2, <2>1 DEF ResolveAndReset, ServiceReset
        <3>2. candidate' \in NoCandidate..MaxLandTimer /\ candidate' <= seen.time
            BY <3>1, LandAssumption DEF NoCandidate
        <3> QED
            BY <3>1, <3>2
    <2>2. CASE ~ResetsOn(state, state')
        <3>1. UNCHANGED <<confirm_s, detectorVars, seen>>
            BY <1>2, <2>2 DEF ResolveAndReset
        <3>2. state = "MANUAL" => state' = "MANUAL"
            BY <2>2 DEF ResetsOn
        <3> QED
            BY <3>1, <3>2 DEF detectorVars
    <2> QED
        BY <2>1, <2>2
<1>3. CASE Elsewhere
    <2>1. UNCHANGED landVars
        BY <1>3 DEF Elsewhere
    <2>2. UNCHANGED state
        BY <1>3 DEF Elsewhere, Poll, Leave, Sense, Control, Check, Send, RequestStop,
           MspFails, modeVars
    <2> QED
        BY <2>1, <2>2 DEF landVars, detectorVars
<1>4. CASE SetLandConfirm
    BY <1>4 DEF SetLandConfirm, vars, modeVars, detectorVars
<1>5. CASE UNCHANGED allVars
    BY <1>5 DEF allVars, vars, modeVars, landVars, detectorVars
<1> QED
    BY <1>1, <1>2, <1>3, <1>4, <1>5 DEF LandNext

\* A landing is confirmed only in MANUAL, after the whole confirmation time low
\* and slow on the pilot's request, whatever the parameter is set to meanwhile.
THEOREM LandingConfirmed == LandSpec => []ConfirmationIsSound
<1>1. LandInit => TypeOK /\ LandInvariant
    <2>1. Init => TypeOK
        BY InitType
    <2>2. LandInit => LandInvariant
        <3>1. NoCandidate \in NoCandidate..MaxLandTimer /\ NoCandidate <= NoCandidate
            BY LandAssumption DEF NoCandidate
        <3>2. LandInit => /\ candidate = NoCandidate /\ seen.time = NoCandidate
                          /\ confirm_s \in LandConfirms
            BY DEF LandInit
        <3>3. LandInit => manual_land_confirmed = FALSE
            BY DEF LandInit
        <3>4. LandInit => CandidateWasObserved /\ candidate \in NoCandidate..MaxLandTimer
            BY <3>1, <3>2 DEF CandidateWasObserved
        <3> QED
            BY <3>2, <3>3, <3>4 DEF LandInvariant, ConfirmationIsSound, LandTypeOK,
               ConfirmedInManualOnly, ConfirmedWithoutBreak
    <2> QED
        BY <2>1, <2>2 DEF LandInit
<1>2. LandSpec => Spec
    BY LandStepIsStep, PTL DEF LandSpec, LandInit, Spec
<1>3. TypeOK /\ LandInvariant /\ [LandNext]_allVars => LandInvariant'
    BY LandStep
<1>4. LandInvariant => ConfirmationIsSound
    BY DEF LandInvariant
<1> QED
    BY <1>1, <1>2, <1>3, <1>4, TypeCorrect, PTL DEF LandSpec
=============================================================================
