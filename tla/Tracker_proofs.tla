---------------------------- MODULE Tracker_proofs ----------------------------
(* The tracker's start and commit, and the limits of its commands, for every  *)
(* set of trackers, sights and configurations and every time-out and step.    *)
EXTENDS MCTracker, TLAPS

----------------------------------------------------------------------------
(* The shape of a session.                                                    *)

Phases == {"ALIGN", "TRACKING", "COMMIT"}
Ages == 0..AgeCap
Observations == [tracker : Trackers, sight : Sights, age : Ages]
Sightings == [sight : Sights, age : Ages]
Filters == [scale : BOOLEAN, frame : {"none", "older", "same"}, tracker : Trackers \cup {None}]
Updates == [accepted : BOOLEAN, new : BOOLEAN, clipped : BOOLEAN]
Sessions ==
    [filter : Filters, update : Updates, live : BOOLEAN, control : Sightings \cup {None},
     first : Ages \cup {None}, count : 0..RunCap, ready : BOOLEAN, active : BOOLEAN,
     exit : BOOLEAN, completion : BOOLEAN, phase : Phases,
     align_count : Nat, commit_count : Nat, deadline : (0..CommitTime) \cup {None},
     frozen : Sights \cup {None}]

\* What the acquisition leaves alone of a session.
SessionKept(t, u) ==
    /\ u.active = t.active /\ u.exit = t.exit /\ u.completion = t.completion
    /\ u.phase = t.phase /\ u.deadline = t.deadline /\ u.frozen = t.frozen
    /\ u.align_count = t.align_count /\ u.commit_count = t.commit_count

\* The acquisition starts over.
Cleared(u) ==
    /\ u.filter = Tracker!NoFilter /\ u.control = None /\ u.count = 0 /\ u.ready = FALSE

\* The observation o went through the filter.
Taken(t, u, o) ==
    /\ u.filter.frame = "same" /\ u.filter.tracker = o.tracker
    /\ u.update.new = (Tracker!FilterFor(t.filter, o.tracker).frame # "same")
    /\ u.update.accepted => u.update.new /\ o.sight.box = "clear"
    /\ u.update.clipped => u.update.new /\ o.sight.box = "clipped"
    /\ u.control = IF o.sight.box = "none" THEN t.control
                   ELSE [sight |-> o.sight, age |-> o.age]

\* A filter that took a frame knows whose.
Known(f) == f.frame # "none" => f.tracker \in Trackers

LEMMA TrackerAssumptions ==
    /\ AgeCap \in Nat /\ RunCap \in Nat /\ CommitTime \in Nat /\ LockHistory \in Nat
    /\ CommitTime <= AgeCap /\ Steps \subseteq Nat
    /\ Configs \subseteq [lock : Nat, commit : Nat, align : Nat, timeout : Nat]
    /\ \A c \in Configs : c.lock <= RunCap /\ c.align <= RunCap /\ c.commit <= RunCap
    /\ None \notin Trackers /\ None \notin Sights /\ None \notin Nat
    /\ None \notin Sightings /\ None \notin Observations
BY InstancesAssumption DEF Tracker!TrackerTimeAssumption, Tracker!NoneAssumption,
   Tracker!ConfigsAssumption, Sightings, Observations, Ages

LEMMA ConfigNumbers ==
    ASSUME NEW c \in Configs
    PROVE  /\ c.lock \in Nat /\ c.commit \in Nat /\ c.align \in Nat /\ c.timeout \in Nat
           /\ c.lock <= RunCap /\ c.align <= RunCap /\ c.commit <= RunCap
BY TrackerAssumptions

LEMMA SightShape ==
    ASSUME NEW s \in Sights
    PROVE  /\ s.box \in {"none", "clipped", "clear"} /\ s.jump \in BOOLEAN
           /\ s.aligned \in BOOLEAN /\ s.near \in BOOLEAN
BY InstancesAssumption DEF Tracker!SightsAssumption

LEMMA SessionFields ==
    ASSUME NEW t \in Sessions
    PROVE  /\ t.filter \in Filters /\ t.update \in Updates /\ t.live \in BOOLEAN
           /\ t.control \in Sightings \cup {None} /\ t.first \in Ages \cup {None}
           /\ t.count \in 0..RunCap /\ t.ready \in BOOLEAN /\ t.active \in BOOLEAN
           /\ t.exit \in BOOLEAN /\ t.completion \in BOOLEAN /\ t.phase \in Phases
           /\ t.align_count \in Nat /\ t.commit_count \in Nat
           /\ t.deadline \in (0..CommitTime) \cup {None} /\ t.frozen \in Sights \cup {None}
BY DEF Sessions

----------------------------------------------------------------------------
(* The operators of the tracker.                                              *)

LEMMA AgedType ==
    ASSUME NEW a \in Ages, NEW d \in Nat
    PROVE  /\ Tracker!Aged(a, d) \in Ages
           /\ Tracker!Aged(a, d) = a + d \/ Tracker!Aged(a, d) = AgeCap
BY TrackerAssumptions DEF Ages, Tracker!Aged, Tracker!Shorter

LEMMA AgedKeepsOrder ==
    ASSUME NEW a \in Ages, NEW b \in Ages, NEW d \in Nat, a <= b
    PROVE  Tracker!Aged(a, d) <= Tracker!Aged(b, d)
BY TrackerAssumptions DEF Ages, Tracker!Aged, Tracker!Shorter

\* A session grows older: its latest observation ages, a deadline draws nearer.
LEMMA AgedSession ==
    ASSUME NEW t \in Sessions, NEW d \in Nat
    PROVE  LET u == Tracker!AgedTracker(t, d)
           IN /\ u \in Sessions
              /\ u.filter = t.filter /\ u.update = t.update /\ u.count = t.count
              /\ u.ready = t.ready /\ u.active = t.active /\ u.exit = t.exit
              /\ u.completion = t.completion /\ u.phase = t.phase /\ u.frozen = t.frozen
              /\ u.align_count = t.align_count /\ u.commit_count = t.commit_count
              /\ t.control = None => u.control = None
              /\ t.control # None => /\ u.control # None
                                     /\ u.control.sight = t.control.sight
                                     /\ u.control.age = Tracker!Aged(t.control.age, d)
              /\ t.deadline \in Nat => u.deadline \in 0..CommitTime /\ u.deadline + d >= t.deadline
<1> DEFINE u == Tracker!AgedTracker(t, d)
<1>1. /\ t.control \in Sightings \cup {None} /\ t.first \in Ages \cup {None}
      /\ t.deadline \in (0..CommitTime) \cup {None}
    BY SessionFields
<1> DEFINE control == Tracker!Older(t.control, d)
           first == IF t.first = None THEN None ELSE Tracker!Aged(t.first, d)
           deadline == IF t.deadline = None THEN None
                       ELSE IF t.deadline > d THEN t.deadline - d ELSE 0
<1>2. u = [t EXCEPT !.control = control, !.first = first, !.deadline = deadline]
    BY DEF Tracker!AgedTracker
<1>3. /\ control \in Sightings \cup {None}
      /\ t.control = None => control = None
      /\ t.control # None => /\ control # None /\ control.sight = t.control.sight
                             /\ control.age = Tracker!Aged(t.control.age, d)
    <2>1. CASE t.control = None
        BY <2>1 DEF Tracker!Older
    <2>2. CASE t.control # None
        <3>1. t.control \in Sightings /\ t.control.age \in Ages
            BY <1>1, <2>2 DEF Sightings
        <3>2. Tracker!Aged(t.control.age, d) \in Ages
            BY <3>1, AgedType
        <3>3. /\ control \in Sightings /\ control.sight = t.control.sight
              /\ control.age = Tracker!Aged(t.control.age, d)
            BY <2>2, <3>1, <3>2 DEF Sightings, Tracker!Older
        <3> QED
            BY <2>2, <3>3, TrackerAssumptions
    <2> QED
        BY <2>1, <2>2
<1>4. first \in Ages \cup {None}
    BY <1>1, AgedType
<1>5. /\ deadline \in (0..CommitTime) \cup {None}
      /\ t.deadline \in Nat => deadline \in 0..CommitTime /\ deadline + d >= t.deadline
    <2>1. CASE t.deadline = None
        BY <2>1, TrackerAssumptions
    <2>2. CASE t.deadline # None
        <3>1. t.deadline \in Nat /\ t.deadline <= CommitTime /\ CommitTime \in Nat
            BY <1>1, <2>2, TrackerAssumptions
        <3>2. deadline = IF t.deadline > d THEN t.deadline - d ELSE 0
            BY <2>2
        <3> HIDE DEF deadline
        <3>3. deadline \in 0..CommitTime /\ deadline + d >= t.deadline
            BY <3>1, <3>2
        <3> QED
            BY <3>3
    <2> QED
        BY <2>1, <2>2
<1> HIDE DEF control, first, deadline
<1>6. /\ u \in Sessions
      /\ u.control = control /\ u.first = first /\ u.deadline = deadline
      /\ u.filter = t.filter /\ u.update = t.update /\ u.count = t.count
      /\ u.ready = t.ready /\ u.active = t.active /\ u.exit = t.exit
      /\ u.completion = t.completion /\ u.phase = t.phase /\ u.frozen = t.frozen
      /\ u.align_count = t.align_count /\ u.commit_count = t.commit_count
    BY <1>2, <1>3, <1>4, <1>5 DEF Sessions
<1> QED
    BY <1>3, <1>5, <1>6

LEMMA ClearedSession ==
    ASSUME NEW t \in Sessions
    PROVE  LET u == Tracker!ClearAcquisition(t)
           IN u \in Sessions /\ Cleared(u) /\ SessionKept(t, u) /\ u.update = t.update
<1>1. Tracker!NoFilter \in Filters /\ 0 \in 0..RunCap
    BY TrackerAssumptions DEF Tracker!NoFilter, Filters
<1> DEFINE u == [t EXCEPT !.filter = Tracker!NoFilter, !.live = FALSE, !.control = None,
                          !.first = None, !.count = 0, !.ready = FALSE]
<1>2. u \in Sessions
    BY <1>1 DEF Sessions
<1>3. Cleared(u) /\ SessionKept(t, u) /\ u.update = t.update
    BY DEF Sessions, Cleared, SessionKept
<1> QED
    BY <1>2, <1>3 DEF Tracker!ClearAcquisition

LEMMA ExitingSession ==
    ASSUME NEW t \in Sessions
    PROVE  LET u == Tracker!RequestExit(t)
           IN u \in Sessions /\ u.exit /\ u = [t EXCEPT !.exit = TRUE]
BY DEF Tracker!RequestExit, Sessions

\* The filter takes each frame once, and knows it afterwards.
LEMMA FilterTakes ==
    ASSUME NEW t \in Sessions, NEW o \in Observations, Known(t.filter)
    PROVE  LET s == Tracker!FilterStep(t, o)
           IN /\ s \in Sessions /\ SessionKept(t, s)
              /\ s.filter.frame = "same" /\ s.filter.tracker = o.tracker
              /\ s.update.new = (Tracker!FilterFor(t.filter, o.tracker).frame # "same")
              /\ s.update.accepted => s.update.new /\ o.sight.box = "clear"
              /\ s.update.clipped => s.update.new /\ o.sight.box = "clipped"
              /\ s.control = t.control /\ s.count = t.count /\ s.ready = t.ready
              /\ s.live = t.live /\ s.first = t.first
<1> DEFINE s == Tracker!FilterStep(t, o)
           f == Tracker!FilterFor(t.filter, o.tracker)
           ok == Tracker!Accepts(f, o.sight)
<1>1. t.filter \in Filters /\ o.tracker \in Trackers /\ o.sight \in Sights
    BY SessionFields DEF Observations
<1>2. /\ f \in Filters /\ f.scale \in BOOLEAN
      /\ f.frame = "same" => f.tracker = o.tracker
    BY <1>1, TrackerAssumptions DEF Tracker!FilterFor, Tracker!NoFilter, Filters, Known
<1>3. ok \in BOOLEAN /\ (ok => o.sight.box = "clear")
    BY DEF Tracker!Accepts
<1> DEFINE taken == [scale |-> f.scale \/ ok, frame |-> "same", tracker |-> o.tracker]
           verdict == [accepted |-> ok, new |-> TRUE, clipped |-> o.sight.box = "clipped"]
<1>4. CASE f.frame = "same"
    <2>1. s = [t EXCEPT !.filter = f, !.update = Tracker!NoUpdate]
        BY <1>4 DEF Tracker!FilterStep
    <2>2. /\ Tracker!NoUpdate \in Updates /\ Tracker!NoUpdate.new = FALSE
          /\ Tracker!NoUpdate.accepted = FALSE /\ Tracker!NoUpdate.clipped = FALSE
        BY DEF Tracker!NoUpdate, Updates
    <2> HIDE DEF f
    <2>3. s \in Sessions /\ SessionKept(t, s) /\ s.filter = f /\ s.update = Tracker!NoUpdate
          /\ s.control = t.control /\ s.count = t.count /\ s.ready = t.ready
          /\ s.live = t.live /\ s.first = t.first
        BY <1>2, <2>1, <2>2 DEF Sessions, SessionKept
    <2> QED
        BY <1>2, <1>4, <2>2, <2>3 DEF f
<1>5. CASE f.frame # "same"
    <2>1. s = [t EXCEPT !.filter = taken, !.update = verdict]
        BY <1>5 DEF Tracker!FilterStep
    <2>2. taken \in Filters /\ verdict \in Updates
        BY <1>1, <1>2, <1>3 DEF Filters, Updates
    <2>3. /\ taken.frame = "same" /\ taken.tracker = o.tracker
          /\ verdict.new = TRUE /\ verdict.accepted = ok
          /\ verdict.clipped = (o.sight.box = "clipped")
        OBVIOUS
    <2> HIDE DEF f, ok, taken, verdict
    <2>4. s \in Sessions /\ SessionKept(t, s) /\ s.filter = taken /\ s.update = verdict
          /\ s.control = t.control /\ s.count = t.count /\ s.ready = t.ready
          /\ s.live = t.live /\ s.first = t.first
        BY <2>1, <2>2 DEF Sessions, SessionKept
    <2> QED
        BY <1>3, <1>5, <2>3, <2>4 DEF f
<1> QED
    BY <1>4, <1>5

\* observe, behind its early returns.
LEMMA EvaluateTakes ==
    ASSUME NEW t \in Sessions, NEW o \in Observations, Known(t.filter)
    PROVE  LET u == Tracker!Evaluate(t, o)
           IN /\ u \in Sessions /\ SessionKept(t, u)
              /\ t.active => Taken(t, u, o) /\ u.count >= t.count
              /\ ~t.active =>
                    \/ Cleared(u)
                    \/ /\ Taken(t, u, o) /\ u.count >= t.count /\ u.count <= t.count + 1
                       /\ u.ready => u.count >= config.lock
<1> DEFINE w == IF o.sight.box = "none" THEN t
                ELSE [t EXCEPT !.control = [sight |-> o.sight, age |-> o.age]]
           s == Tracker!FilterStep(w, o)
           counted == IF s.update.accepted
                      THEN [s EXCEPT !.live = TRUE, !.count = Tracker!Shorter(@ + 1, RunCap),
                                     !.first = IF @ = None THEN o.age ELSE @]
                      ELSE s
           verdict == /\ counted.live
                      /\ counted.count >= config.lock
                      /\ counted.first # None /\ counted.first - o.age >= LockHistory
<1>1. o.sight \in Sights /\ o.age \in Ages
    BY DEF Observations
<1>2. /\ w \in Sessions /\ w.filter = t.filter /\ w.count = t.count /\ SessionKept(t, w)
      /\ w.control = IF o.sight.box = "none" THEN t.control
                     ELSE [sight |-> o.sight, age |-> o.age]
    <2>1. [sight |-> o.sight, age |-> o.age] \in Sightings
        BY <1>1 DEF Sightings
    <2>2. CASE o.sight.box = "none"
        BY <2>2 DEF SessionKept
    <2>3. CASE o.sight.box # "none"
        BY <2>1, <2>3 DEF Sessions, SessionKept
    <2> QED
        BY <2>2, <2>3
<1> HIDE DEF w
<1>3. /\ s \in Sessions /\ SessionKept(w, s) /\ Taken(t, s, o)
      /\ s.count = t.count
    BY <1>2, FilterTakes DEF Taken
<1> HIDE DEF s
<1>4. /\ counted \in Sessions /\ SessionKept(s, counted) /\ counted.update = s.update
      /\ counted.filter = s.filter /\ counted.control = s.control
      /\ counted.count >= t.count /\ counted.count <= t.count + 1
    <2>1. CASE ~s.update.accepted
        BY <1>3, <2>1, SessionFields DEF SessionKept
    <2>2. CASE s.update.accepted
        <3> DEFINE n == Tracker!Shorter(s.count + 1, RunCap)
                   first == IF s.first = None THEN o.age ELSE s.first
        <3>1. n \in 0..RunCap /\ n >= t.count /\ n <= t.count + 1
            BY <1>3, SessionFields, TrackerAssumptions DEF Tracker!Shorter
        <3>2. first \in Ages \cup {None}
            BY <1>1, <1>3, SessionFields
        <3>3. counted = [s EXCEPT !.live = TRUE, !.count = n, !.first = first]
            BY <2>2
        <3> HIDE DEF n, first, counted
        <3>4. counted \in Sessions /\ counted.count = n /\ counted.update = s.update
              /\ counted.filter = s.filter /\ counted.control = s.control
              /\ SessionKept(s, counted)
            BY <1>3, <3>1, <3>2, <3>3 DEF Sessions, SessionKept
        <3> QED
            BY <3>1, <3>4
    <2> QED
        BY <2>1, <2>2
<1>5. Taken(t, counted, o) /\ SessionKept(t, counted)
    <2> HIDE DEF counted
    <2> QED
        BY <1>2, <1>3, <1>4 DEF Taken, SessionKept
<1>6. CASE t.active
    <2>1. Tracker!Evaluate(t, o) = counted
        BY <1>6 DEF Tracker!Evaluate, w, s
    <2> HIDE DEF counted
    <2> QED
        BY <1>4, <1>5, <1>6, <2>1
<1>7. CASE ~t.active /\ s.update.new /\ ~s.update.accepted
    <2>1. Tracker!Evaluate(t, o) = Tracker!ClearAcquisition(s)
        BY <1>7 DEF Tracker!Evaluate, w, s
    <2>2. /\ Tracker!ClearAcquisition(s) \in Sessions /\ Cleared(Tracker!ClearAcquisition(s))
          /\ SessionKept(s, Tracker!ClearAcquisition(s))
        BY <1>3, ClearedSession
    <2>3. SessionKept(t, Tracker!ClearAcquisition(s))
        BY <1>2, <1>3, <2>2 DEF SessionKept
    <2> QED
        BY <1>7, <2>1, <2>2, <2>3
<1>8. CASE ~t.active /\ ~(s.update.new /\ ~s.update.accepted)
    <2>1. Tracker!Evaluate(t, o) = [counted EXCEPT !.ready = verdict]
        BY <1>8 DEF Tracker!Evaluate, w, s
    <2>2. verdict \in BOOLEAN /\ (verdict => counted.count >= config.lock)
        <3> HIDE DEF counted
        <3> QED
            BY <1>4, SessionFields
    <2> HIDE DEF counted, verdict
    <2> DEFINE u == [counted EXCEPT !.ready = verdict]
    <2>3. /\ u \in Sessions /\ SessionKept(counted, u) /\ u.update = counted.update
          /\ u.filter = counted.filter /\ u.control = counted.control
          /\ u.count = counted.count /\ u.ready = verdict
        BY <1>4, <2>2 DEF Sessions, SessionKept
    <2>4. Taken(t, u, o) /\ SessionKept(t, u)
        <3> HIDE DEF u
        <3> QED
            BY <1>5, <2>3 DEF Taken, SessionKept
    <2>5. Tracker!Evaluate(t, o) = u
        BY <2>1
    <2> HIDE DEF u
    <2> QED
        BY <1>4, <1>8, <2>2, <2>3, <2>4, <2>5
<1> QED
    BY <1>6, <1>7, <1>8

\* observe: the early returns, or one observation.
LEMMA ObservedCases ==
    ASSUME NEW t \in Sessions, NEW o, NEW mode_selected \in BOOLEAN
    PROVE  \/ /\ ~mode_selected /\ t.active
              /\ Tracker!Observed(t, o, mode_selected) = Tracker!RequestExit(t)
           \/ /\ ~t.active
              /\ Tracker!Observed(t, o, mode_selected) = Tracker!ClearAcquisition(t)
           \/ /\ mode_selected /\ t.phase = "COMMIT"
              /\ Tracker!Observed(t, o, mode_selected) = t
           \/ /\ mode_selected /\ t.phase # "COMMIT" /\ t.active
              /\ o = None \/ o.age > config.timeout
              /\ Tracker!Observed(t, o, mode_selected) = t
           \/ /\ mode_selected /\ t.phase # "COMMIT" /\ o # None /\ ~(o.age > config.timeout)
              /\ Tracker!Observed(t, o, mode_selected) = Tracker!Evaluate(t, o)
BY DEF Tracker!Observed

Passes(t) == t.control.sight.near /\ (t.update.accepted \/ t.update.clipped)
Aligns(t) == t.update.accepted /\ t.control.sight.aligned

\* What an update that steers leaves alone of a session.
AcquisitionKept(t, u) ==
    /\ u.filter = t.filter /\ u.update = t.update /\ u.control = t.control
    /\ u.count = t.count /\ u.ready = t.ready /\ u.active = t.active
    /\ u.exit = t.exit /\ u.completion = t.completion

LEMMA AlignGate ==
    ASSUME NEW t \in Sessions, config \in Configs, t.control # None
    PROVE  LET u == Tracker!AlignStep(t)
           IN /\ u \in Sessions /\ AcquisitionKept(t, u)
              /\ u.commit_count = t.commit_count
              /\ u.deadline = t.deadline /\ u.frozen = t.frozen
              /\ t.phase # "ALIGN" \/ ~t.update.new =>
                    u.phase = t.phase /\ u.align_count = t.align_count
              /\ t.phase = "ALIGN" /\ t.update.new =>
                    /\ u.align_count = IF Aligns(t) THEN t.align_count + 1 ELSE 0
                    /\ u.phase = IF u.align_count >= config.align THEN "TRACKING" ELSE "ALIGN"
<1> DEFINE n == IF Aligns(t) THEN t.align_count + 1 ELSE 0
           phase == IF n >= config.align THEN "TRACKING" ELSE t.phase
<1>1. n \in Nat
    BY SessionFields
<1>2. phase \in Phases
    BY SessionFields DEF Phases
<1>3. CASE t.phase # "ALIGN" \/ ~t.update.new
    BY <1>3 DEF Tracker!AlignStep, AcquisitionKept
<1>4. CASE t.phase = "ALIGN" /\ t.update.new
    <2> DEFINE u == [t EXCEPT !.align_count = n, !.phase = phase]
    <2>1. Tracker!AlignStep(t) = u
        BY <1>4 DEF Tracker!AlignStep, Aligns
    <2>2. phase = IF n >= config.align THEN "TRACKING" ELSE "ALIGN"
        BY <1>4
    <2> HIDE DEF n, phase
    <2>3. u \in Sessions
        BY <1>1, <1>2 DEF Sessions
    <2>4. /\ AcquisitionKept(t, u) /\ u.commit_count = t.commit_count
          /\ u.deadline = t.deadline /\ u.frozen = t.frozen
          /\ u.align_count = n /\ u.phase = phase
        BY DEF Sessions, AcquisitionKept
    <2> HIDE DEF u
    <2>5. u.phase = IF u.align_count >= config.align THEN "TRACKING" ELSE "ALIGN"
        BY <2>2, <2>4
    <2>6. u.align_count = IF Aligns(t) THEN t.align_count + 1 ELSE 0
        BY <2>4 DEF n
    <2> QED
        BY <1>4, <2>1, <2>3, <2>4, <2>5, <2>6
<1> QED
    BY <1>3, <1>4

LEMMA CommitGate ==
    ASSUME NEW t \in Sessions, config \in Configs, t.control # None
    PROVE  LET u == Tracker!CommitStep(t)
           IN /\ u \in Sessions /\ AcquisitionKept(t, u) /\ u.align_count = t.align_count
              /\ u.commit_count = IF t.phase # "TRACKING" \/ ~t.update.new THEN t.commit_count
                                  ELSE IF Passes(t) THEN t.commit_count + 1 ELSE 0
              /\ u.commit_count >= config.commit =>
                    u.phase = "COMMIT" /\ u.deadline = CommitTime /\ u.frozen = t.control.sight
              /\ u.commit_count < config.commit =>
                    u.phase = t.phase /\ u.deadline = t.deadline /\ u.frozen = t.frozen
<1> DEFINE n == IF t.phase # "TRACKING" \/ ~t.update.new THEN t.commit_count
                ELSE IF Passes(t) THEN t.commit_count + 1 ELSE 0
<1>1. n \in Nat /\ config.commit \in Nat
    BY SessionFields, ConfigNumbers
<1>2. t.control \in Sightings /\ t.control.sight \in Sights
    BY SessionFields DEF Sightings
<1>3. CommitTime \in 0..CommitTime
    BY TrackerAssumptions
<1>4. CASE n >= config.commit
    <2> DEFINE u == [t EXCEPT !.commit_count = n, !.phase = "COMMIT", !.deadline = CommitTime,
                              !.frozen = t.control.sight]
    <2>1. Tracker!CommitStep(t) = u
        BY <1>4 DEF Tracker!CommitStep, Passes
    <2> HIDE DEF n
    <2>2. u \in Sessions
        BY <1>1, <1>2, <1>3 DEF Sessions, Phases
    <2>3. /\ AcquisitionKept(t, u) /\ u.align_count = t.align_count /\ u.commit_count = n
          /\ u.phase = "COMMIT" /\ u.deadline = CommitTime /\ u.frozen = t.control.sight
        BY DEF Sessions, AcquisitionKept
    <2> HIDE DEF u
    <2>4. ~(n < config.commit)
        BY <1>1, <1>4
    <2> QED
        BY <2>1, <2>2, <2>3, <2>4 DEF n
<1>5. CASE ~(n >= config.commit)
    <2> DEFINE u == [t EXCEPT !.commit_count = n]
    <2>1. Tracker!CommitStep(t) = u
        BY <1>5 DEF Tracker!CommitStep, Passes
    <2> HIDE DEF n
    <2>2. u \in Sessions
        BY <1>1 DEF Sessions
    <2>3. /\ AcquisitionKept(t, u) /\ u.align_count = t.align_count /\ u.commit_count = n
          /\ u.phase = t.phase /\ u.deadline = t.deadline /\ u.frozen = t.frozen
        BY DEF Sessions, AcquisitionKept
    <2> HIDE DEF u
    <2> QED
        BY <1>5, <2>1, <2>2, <2>3 DEF n
<1> QED
    BY <1>4, <1>5

\* update: a commit runs out, a session without a current sight ends, or the gates are passed.
LEMMA UpdatedCases ==
    ASSUME NEW t \in Sessions, fresh \in BOOLEAN, config \in Configs
    PROVE  \/ /\ t.phase = "COMMIT" /\ t.deadline > 0 /\ Tracker!Updated(t) = t
           \/ /\ t.phase = "COMMIT" /\ ~(t.deadline > 0)
              /\ Tracker!Updated(t) = [Tracker!RequestExit(t) EXCEPT !.completion = TRUE]
           \/ /\ t.phase # "COMMIT"
              /\ ~fresh \/ t.control = None \/ t.control.age > config.timeout
              /\ Tracker!Updated(t) = Tracker!RequestExit(t)
           \/ /\ t.phase # "COMMIT" /\ fresh /\ t.control # None
              /\ ~(t.control.age > config.timeout)
              /\ Tracker!Updated(t) = Tracker!CommitStep(Tracker!AlignStep(t))
BY DEF Tracker!Updated

----------------------------------------------------------------------------
(* The session, whatever the time-outs do.                                    *)

TypesHold ==
    /\ pc \in {"observe", "resolve", "control"} /\ state \in {"hold", "track"}
    /\ config \in Configs /\ Tracker!Valid(config)
    /\ selected \in BOOLEAN /\ fresh \in BOOLEAN /\ raised \in BOOLEAN
    /\ tracker_ready \in BOOLEAN /\ tracker_exit_requested \in BOOLEAN
    /\ store \in Observations \cup {None} /\ trk \in Sessions
    /\ past = [unread |-> past.unread, near_run |-> past.near_run,
               align_run |-> past.align_run, ids |-> past.ids,
               commit_age |-> past.commit_age]
    /\ past.unread \in BOOLEAN /\ past.near_run \in 0..RunCap /\ past.align_run \in 0..RunCap
    /\ past.commit_age \in Ages

\* A session is active in TRACK, and only a lock with a fresh vario leads there;
\* an exit that was requested is honoured before the next update.
SessionOfState ==
    /\ trk.active = (state = "track")
    /\ pc = "control" => state = "track" /\ ~trk.exit
    /\ state = "hold" => trk.phase = "TRACKING" /\ ~trk.exit
    /\ state = "track" => trk.count >= 1
    /\ pc = "resolve" /\ tracker_ready => trk.ready /\ fresh
    /\ state = "hold" /\ trk.ready => trk.count >= 2
    /\ trk.exit /\ pc = "observe" => tracker_exit_requested
    /\ trk.exit /\ pc = "resolve" => tracker_exit_requested \/ ~selected

\* What the filter and the controller know of the store.
StoreIsKnown ==
    /\ Known(trk.filter)
    /\ past.unread => trk.filter.frame # "same"
    /\ trk.control # None => store # None /\ store.age <= trk.control.age

\* The counts of a phase have not reached their thresholds.
CountsAreBelow ==
    /\ trk.phase = "ALIGN" => trk.align_count < RunCap /\ trk.commit_count = 0
    /\ trk.phase = "TRACKING" => trk.commit_count < RunCap

\* A commit keeps the sight it began with and its deadline.
CommitHolds ==
    trk.phase = "COMMIT" =>
        /\ trk.frozen = sent /\ trk.deadline \in 0..CommitTime
        /\ trk.deadline + past.commit_age >= CommitTime

SessionInvariant ==
    /\ TypesHold /\ SessionOfState /\ StoreIsKnown /\ CountsAreBelow /\ CommitHolds
    /\ ~raised

LEMMA SessionInit ==
    ASSUME Tracker!Init
    PROVE  SessionInvariant
<1>1. /\ pc = "observe" /\ state = "hold" /\ store = None /\ config \in Configs
      /\ Tracker!Valid(config) /\ trk = Tracker!NoTracking /\ selected = FALSE
      /\ fresh = FALSE /\ tracker_ready = FALSE /\ tracker_exit_requested = FALSE
      /\ raised = FALSE
      /\ past = [unread |-> FALSE, near_run |-> 0, align_run |-> 0, ids |-> {}, commit_age |-> 0]
    BY DEF Tracker!Init
<1>2. Tracker!NoFilter \in Filters /\ Tracker!NoUpdate \in Updates
    BY DEF Tracker!NoFilter, Tracker!NoUpdate, Filters, Updates
<1>3. /\ 0 \in 0..RunCap /\ 0 \in Ages /\ 0 < RunCap
    <2>1. config.align >= 1 /\ config.align \in Nat /\ config.align <= RunCap
        BY <1>1, ConfigNumbers DEF Tracker!Valid
    <2> QED
        BY <2>1, TrackerAssumptions DEF Ages
<1>4. trk \in Sessions
    BY <1>1, <1>2, <1>3 DEF Tracker!NoTracking, Sessions, Phases
<1>5. /\ trk.filter = Tracker!NoFilter /\ trk.control = None /\ trk.phase = "TRACKING"
      /\ trk.active = FALSE /\ trk.exit = FALSE /\ trk.ready = FALSE
      /\ trk.commit_count = 0
    BY <1>1 DEF Tracker!NoTracking
<1>6. TypesHold
    BY <1>1, <1>3, <1>4 DEF TypesHold
<1>7. SessionOfState /\ CountsAreBelow /\ CommitHolds
    BY <1>1, <1>3, <1>5 DEF SessionOfState, CountsAreBelow, CommitHolds
<1>8. StoreIsKnown
    BY <1>1, <1>5 DEF StoreIsKnown, Known, Tracker!NoFilter
<1> QED
    BY <1>1, <1>6, <1>7, <1>8 DEF SessionInvariant

\* The frame history of an iteration.
LEMMA HistoryShape ==
    ASSUME TypesHold, NEW o \in Observations \cup {None}, NEW t \in Sessions
    PROVE  LET h == Tracker!FrameHistory(o, t)
           IN /\ h = [unread |-> h.unread, near_run |-> h.near_run, align_run |-> h.align_run,
                      ids |-> h.ids, commit_age |-> past.commit_age]
              /\ h.unread = (past.unread /\ o = None)
              /\ h.near_run \in 0..RunCap /\ h.align_run \in 0..RunCap
              /\ ~(past.unread /\ o # None) =>
                    h.near_run = past.near_run /\ h.align_run = past.align_run
              /\ past.unread /\ o # None =>
                    /\ o.sight.near /\ o.sight.box # "none" =>
                          \A n \in Nat : n <= past.near_run /\ n < RunCap => n < h.near_run
                    /\ o.sight.aligned /\ o.sight.box = "clear" =>
                          \A n \in Nat : n <= past.align_run /\ n < RunCap => n < h.align_run
<1> DEFINE seen == past.unread /\ o # None
           Run(n, hit) == IF ~seen THEN n
                          ELSE IF hit THEN Tracker!Shorter(n + 1, RunCap) ELSE 0
           near == Run(past.near_run, o.sight.near /\ o.sight.box # "none")
           align == Run(past.align_run, o.sight.aligned /\ o.sight.box = "clear")
           unread == IF o = None THEN past.unread ELSE FALSE
           ids == CASE t.count = 0 -> {}
                    [] t.count # 0 /\ t.update.accepted -> past.ids \cup {o.tracker}
                    [] OTHER -> past.ids
<1>1. Tracker!FrameHistory(o, t) =
          [past EXCEPT !.unread = unread, !.near_run = near, !.align_run = align, !.ids = ids]
    BY DEF Tracker!FrameHistory
<1>2. ASSUME NEW n \in 0..RunCap, NEW hit
      PROVE  /\ Run(n, hit) \in 0..RunCap
             /\ ~seen => Run(n, hit) = n
             /\ seen /\ hit => \A m \in Nat : m <= n /\ m < RunCap => m < Run(n, hit)
    <2>1. Tracker!Shorter(n + 1, RunCap) \in 0..RunCap /\ 0 \in 0..RunCap
          /\ \A m \in Nat : m <= n /\ m < RunCap => m < Tracker!Shorter(n + 1, RunCap)
        BY TrackerAssumptions DEF Tracker!Shorter
    <2> QED
        BY <2>1
<1>3. /\ past.near_run \in 0..RunCap /\ past.align_run \in 0..RunCap /\ past.unread \in BOOLEAN
      /\ past = [unread |-> past.unread, near_run |-> past.near_run,
                 align_run |-> past.align_run, ids |-> past.ids,
                 commit_age |-> past.commit_age]
    BY DEF TypesHold
<1>4. /\ near \in 0..RunCap /\ (~seen => near = past.near_run)
      /\ seen /\ o.sight.near /\ o.sight.box # "none" =>
            \A n \in Nat : n <= past.near_run /\ n < RunCap => n < near
    <2> HIDE DEF Run, seen
    <2> QED
        BY <1>2, <1>3
<1>5. /\ align \in 0..RunCap /\ (~seen => align = past.align_run)
      /\ seen /\ o.sight.aligned /\ o.sight.box = "clear" =>
            \A n \in Nat : n <= past.align_run /\ n < RunCap => n < align
    <2> HIDE DEF Run, seen
    <2> QED
        BY <1>2, <1>3
<1>6. unread = (past.unread /\ o = None)
    BY <1>3
<1> HIDE DEF near, align, unread, ids
<1>7. Tracker!FrameHistory(o, t) = [unread |-> unread, near_run |-> near, align_run |-> align,
                                    ids |-> ids, commit_age |-> past.commit_age]
    BY <1>1, <1>3
<1> QED
    BY <1>4, <1>5, <1>6, <1>7

\* What observe reads, and the session it is given.
LEMMA ObserveShape ==
    ASSUME SessionInvariant, Tracker!Observe
    PROVE  /\ selected' \in BOOLEAN /\ fresh' \in BOOLEAN
           /\ store' \in Observations \cup {None} /\ (store' = None <=> store = None)
           /\ store # None => store'.tracker = store.tracker /\ store'.sight = store.sight
           /\ \E d \in Nat, t \in Sessions :
                /\ t = Tracker!AgedTracker(trk, d)
                /\ t.control # None => store' # None /\ store'.age <= t.control.age
                /\ trk' = Tracker!Observed(t, store', selected')
                /\ past' = [Tracker!FrameHistory(store', trk')
                              EXCEPT !.commit_age = Tracker!Aged(@, d)]
<1>1. PICK d \in Steps :
          /\ selected' \in BOOLEAN /\ fresh' \in BOOLEAN
          /\ store' = Tracker!AgedStore(d)
          /\ trk' = Tracker!Observed(Tracker!AgedTracker(trk, d), Tracker!AgedStore(d), selected')
          /\ past' = [Tracker!FrameHistory(Tracker!AgedStore(d), trk')
                          EXCEPT !.commit_age = Tracker!Aged(@, d)]
    BY DEF Tracker!Observe
<1>2. d \in Nat
    BY TrackerAssumptions
<1>3. /\ trk \in Sessions /\ store \in Observations \cup {None}
      /\ trk.control # None => store # None /\ store.age <= trk.control.age
    BY DEF SessionInvariant, TypesHold, StoreIsKnown
<1> DEFINE t == Tracker!AgedTracker(trk, d)
<1>4. /\ t \in Sessions /\ (trk.control = None => t.control = None)
      /\ trk.control # None => t.control.age = Tracker!Aged(trk.control.age, d)
    BY <1>2, <1>3, AgedSession
<1> HIDE DEF t
<1>5. CASE store = None
    <2>1. store' = None
        BY <1>1, <1>5 DEF Tracker!AgedStore, Tracker!Older
    <2>2. t.control = None
        BY <1>3, <1>4, <1>5
    <2> HIDE DEF t
    <2> QED
        BY <1>1, <1>2, <1>4, <1>5, <2>1, <2>2 DEF t
<1>6. CASE store # None
    <2>1. store' = [store EXCEPT !.age = Tracker!Aged(@, d)]
        BY <1>1, <1>6 DEF Tracker!AgedStore, Tracker!Older
    <2>2. store \in Observations /\ store.age \in Ages
        BY <1>3, <1>6 DEF Observations
    <2>3. Tracker!Aged(store.age, d) \in Ages
        BY <1>2, <2>2, AgedType
    <2>4. /\ store' \in Observations /\ store'.age = Tracker!Aged(store.age, d)
          /\ store'.tracker = store.tracker /\ store'.sight = store.sight
        BY <2>1, <2>2, <2>3 DEF Observations
    <2>5. store' # None
        BY <2>4, TrackerAssumptions
    <2>6. t.control # None => store'.age <= t.control.age
        <3>1. SUFFICES ASSUME t.control # None PROVE store'.age <= t.control.age
            OBVIOUS
        <3>2. trk.control # None /\ trk.control.age \in Ages /\ store.age <= trk.control.age
            BY <1>3, <1>4, <3>1, SessionFields DEF Sightings
        <3> QED
            BY <1>2, <1>4, <2>2, <2>4, <3>2, AgedKeepsOrder
    <2> QED
        BY <1>1, <1>2, <1>4, <1>6, <2>4, <2>5, <2>6 DEF t
<1> QED
    BY <1>5, <1>6

\* What observe makes of a session.
Ignored(t, u) ==
    /\ u.filter = t.filter /\ u.control = t.control /\ u.count = t.count
    /\ u.update = t.update /\ u.ready = t.ready

Outcome(t, u, o, mode_selected) ==
    /\ u \in Sessions
    /\ u.active = t.active /\ u.phase = t.phase /\ u.deadline = t.deadline
    /\ u.frozen = t.frozen /\ u.completion = t.completion
    /\ u.align_count = t.align_count /\ u.commit_count = t.commit_count
    /\ u.exit => t.exit \/ (t.active /\ ~mode_selected)
    /\ t.exit => u.exit
    /\ \/ /\ Ignored(t, u) /\ (t.active \/ t.phase = "COMMIT")
          /\ \/ ~mode_selected /\ u.exit
             \/ t.phase = "COMMIT"
             \/ o = None
             \/ o.age > config.timeout
       \/ ~t.active /\ Cleared(u)
       \/ /\ o # None /\ mode_selected /\ t.phase # "COMMIT"
          /\ ~(o.age > config.timeout) /\ Taken(t, u, o) /\ u.count >= t.count
          /\ ~t.active => u.count <= t.count + 1 /\ (u.ready => u.count >= config.lock)

LEMMA ObservedOutcome ==
    ASSUME NEW t \in Sessions, Known(t.filter), NEW o \in Observations \cup {None},
           NEW mode_selected \in BOOLEAN, config \in Configs,
           NEW u, u = Tracker!Observed(t, o, mode_selected)
    PROVE  Outcome(t, u, o, mode_selected)
<1>1. t.exit \in BOOLEAN /\ t.active \in BOOLEAN
    BY SessionFields
<1>2. CASE ~mode_selected /\ t.active /\ u = Tracker!RequestExit(t)
    <2>1. u = [t EXCEPT !.exit = TRUE] /\ u \in Sessions /\ u.exit
        BY <1>2, ExitingSession
    <2>2. /\ u.active = t.active /\ u.phase = t.phase /\ u.deadline = t.deadline
          /\ u.frozen = t.frozen /\ u.completion = t.completion
          /\ u.align_count = t.align_count /\ u.commit_count = t.commit_count
          /\ Ignored(t, u)
        BY <2>1 DEF Sessions, Ignored
    <2> QED
        BY <1>2, <2>1, <2>2 DEF Outcome
<1>3. CASE ~t.active /\ u = Tracker!ClearAcquisition(t)
    <2>1. u \in Sessions /\ Cleared(u) /\ SessionKept(t, u)
        BY <1>3, ClearedSession
    <2> QED
        BY <1>3, <2>1 DEF SessionKept, Outcome
<1>4. CASE mode_selected /\ t.phase = "COMMIT" /\ u = t
    BY <1>4 DEF Ignored, Outcome
<1>5. CASE /\ mode_selected /\ t.phase # "COMMIT" /\ t.active
           /\ o = None \/ o.age > config.timeout
           /\ u = t
    BY <1>5 DEF Ignored, Outcome
<1>6. CASE /\ mode_selected /\ t.phase # "COMMIT" /\ o # None /\ ~(o.age > config.timeout)
           /\ u = Tracker!Evaluate(t, o)
    <2>1. o \in Observations
        BY <1>6
    <2>2. /\ u \in Sessions /\ SessionKept(t, u)
          /\ t.active => Taken(t, u, o) /\ u.count >= t.count
          /\ ~t.active =>
                \/ Cleared(u)
                \/ /\ Taken(t, u, o) /\ u.count >= t.count /\ u.count <= t.count + 1
                   /\ u.ready => u.count >= config.lock
        BY <1>6, <2>1, EvaluateTakes
    <2> QED
        BY <1>6, <2>2 DEF SessionKept, Outcome
<1> QED
    BY <1>2, <1>3, <1>4, <1>5, <1>6, ObservedCases

\* The history of the iteration, and the runs of frames in it.
HistoryFollows ==
    /\ past' = [unread |-> past'.unread, near_run |-> past'.near_run,
                align_run |-> past'.align_run, ids |-> past'.ids,
                commit_age |-> past'.commit_age]
    /\ past'.unread = (past.unread /\ store' = None)
    /\ past'.near_run \in 0..RunCap /\ past'.align_run \in 0..RunCap
    /\ ~(past.unread /\ store' # None) =>
          past'.near_run = past.near_run /\ past'.align_run = past.align_run
    /\ past.unread /\ store' # None =>
          /\ store'.sight.near /\ store'.sight.box # "none" =>
                \A n \in Nat : n <= past.near_run /\ n < RunCap => n < past'.near_run
          /\ store'.sight.aligned /\ store'.sight.box = "clear" =>
                \A n \in Nat : n <= past.align_run /\ n < RunCap => n < past'.align_run

LEMMA ObserveHistory ==
    ASSUME TypesHold, store' \in Observations \cup {None}, trk' \in Sessions, NEW d \in Nat,
           past' = [Tracker!FrameHistory(store', trk') EXCEPT !.commit_age = Tracker!Aged(@, d)]
    PROVE  HistoryFollows /\ past'.commit_age = Tracker!Aged(past.commit_age, d)
<1> DEFINE h == Tracker!FrameHistory(store', trk')
<1>1. /\ h = [unread |-> h.unread, near_run |-> h.near_run, align_run |-> h.align_run,
              ids |-> h.ids, commit_age |-> past.commit_age]
      /\ h.unread = (past.unread /\ store' = None)
      /\ h.near_run \in 0..RunCap /\ h.align_run \in 0..RunCap
      /\ ~(past.unread /\ store' # None) =>
            h.near_run = past.near_run /\ h.align_run = past.align_run
      /\ past.unread /\ store' # None =>
            /\ store'.sight.near /\ store'.sight.box # "none" =>
                  \A n \in Nat : n <= past.near_run /\ n < RunCap => n < h.near_run
            /\ store'.sight.aligned /\ store'.sight.box = "clear" =>
                  \A n \in Nat : n <= past.align_run /\ n < RunCap => n < h.align_run
    BY HistoryShape
<1>2. past' = [h EXCEPT !.commit_age = Tracker!Aged(@, d)]
    OBVIOUS
<1> HIDE DEF h
<1>3. past' = [unread |-> h.unread, near_run |-> h.near_run, align_run |-> h.align_run,
               ids |-> h.ids, commit_age |-> Tracker!Aged(past.commit_age, d)]
    <2>1. h.commit_age = past.commit_age
        BY <1>1
    <2>2. ASSUME NEW a, NEW b, NEW c, NEW e, NEW g, NEW x
          PROVE  [[unread |-> a, near_run |-> b, align_run |-> c, ids |-> e, commit_age |-> g]
                      EXCEPT !.commit_age = x] =
                 [unread |-> a, near_run |-> b, align_run |-> c, ids |-> e, commit_age |-> x]
        OBVIOUS
    <2>3. past' = [h EXCEPT !.commit_age = Tracker!Aged(past.commit_age, d)]
        BY <1>2, <2>1
    <2>4. h = [unread |-> h.unread, near_run |-> h.near_run, align_run |-> h.align_run,
               ids |-> h.ids, commit_age |-> past.commit_age]
        BY <1>1
    <2> QED
        BY <2>2, <2>3, <2>4
<1>4. /\ past'.unread = h.unread /\ past'.near_run = h.near_run
      /\ past'.align_run = h.align_run /\ past'.ids = h.ids
      /\ past'.commit_age = Tracker!Aged(past.commit_age, d)
    BY <1>3
<1> QED
    BY <1>1, <1>3, <1>4 DEF HistoryFollows

\* One iteration's observe, in terms of the session grown older.
LEMMA ObserveFacts ==
    ASSUME SessionInvariant, Tracker!Observe
    PROVE  \E d \in Nat, t \in Sessions :
              /\ t.filter = trk.filter /\ t.update = trk.update /\ t.count = trk.count
              /\ t.ready = trk.ready /\ t.active = trk.active /\ t.exit = trk.exit
              /\ t.completion = trk.completion /\ t.phase = trk.phase /\ t.frozen = trk.frozen
              /\ t.align_count = trk.align_count /\ t.commit_count = trk.commit_count
              /\ trk.deadline \in Nat =>
                    t.deadline \in 0..CommitTime /\ t.deadline + d >= trk.deadline
              /\ t.control # None => store' # None /\ store'.age <= t.control.age
              /\ Outcome(t, trk', store', selected')
              /\ HistoryFollows /\ past'.commit_age = Tracker!Aged(past.commit_age, d)
<1>1. PICK d \in Nat, t \in Sessions :
          /\ t = Tracker!AgedTracker(trk, d)
          /\ t.control # None => store' # None /\ store'.age <= t.control.age
          /\ trk' = Tracker!Observed(t, store', selected')
          /\ past' = [Tracker!FrameHistory(store', trk')
                          EXCEPT !.commit_age = Tracker!Aged(@, d)]
    BY ObserveShape
<1>2. selected' \in BOOLEAN /\ store' \in Observations \cup {None}
    BY ObserveShape
<1>3. trk \in Sessions /\ config \in Configs /\ Known(trk.filter) /\ TypesHold
    BY DEF SessionInvariant, TypesHold, StoreIsKnown
<1>4. /\ t.filter = trk.filter /\ t.update = trk.update /\ t.count = trk.count
      /\ t.ready = trk.ready /\ t.active = trk.active /\ t.exit = trk.exit
      /\ t.completion = trk.completion /\ t.phase = trk.phase /\ t.frozen = trk.frozen
      /\ t.align_count = trk.align_count /\ t.commit_count = trk.commit_count
      /\ trk.deadline \in Nat => t.deadline \in 0..CommitTime /\ t.deadline + d >= trk.deadline
    BY <1>1, <1>3, AgedSession
<1>5. Outcome(t, trk', store', selected')
    <2>1. Known(t.filter)
        BY <1>3, <1>4
    <2> QED
        BY <1>1, <1>2, <1>3, <2>1, ObservedOutcome
<1>6. HistoryFollows /\ past'.commit_age = Tracker!Aged(past.commit_age, d)
    <2>1. trk' \in Sessions
        BY <1>5 DEF Outcome
    <2> QED
        BY <1>1, <1>2, <1>3, <2>1, ObserveHistory
<1> QED
    BY <1>1, <1>4, <1>5, <1>6

LEMMA ObserveKeepsSession ==
    ASSUME SessionInvariant, Tracker!Observe
    PROVE  SessionInvariant'
<1>1. PICK d \in Nat, t \in Sessions :
          /\ t.filter = trk.filter /\ t.update = trk.update /\ t.count = trk.count
          /\ t.ready = trk.ready /\ t.active = trk.active /\ t.exit = trk.exit
          /\ t.completion = trk.completion /\ t.phase = trk.phase /\ t.frozen = trk.frozen
          /\ t.align_count = trk.align_count /\ t.commit_count = trk.commit_count
          /\ trk.deadline \in Nat => t.deadline \in 0..CommitTime /\ t.deadline + d >= trk.deadline
          /\ t.control # None => store' # None /\ store'.age <= t.control.age
          /\ Outcome(t, trk', store', selected')
          /\ HistoryFollows /\ past'.commit_age = Tracker!Aged(past.commit_age, d)
    BY ObserveFacts
<1>2. /\ selected' \in BOOLEAN /\ fresh' \in BOOLEAN /\ store' \in Observations \cup {None}
    BY ObserveShape
<1>3. /\ pc = "observe" /\ pc' = "resolve" /\ state' = state /\ config' = config
      /\ sent' = sent /\ raised' = raised
      /\ tracker_ready' = (trk'.ready /\ fresh')
      /\ tracker_exit_requested' = (tracker_exit_requested /\ state = "track")
    BY DEF Tracker!Observe
<1>4. TypesHold /\ SessionOfState /\ StoreIsKnown /\ CountsAreBelow /\ CommitHolds /\ ~raised
    BY DEF SessionInvariant
<1>5. trk \in Sessions /\ trk' \in Sessions
    BY <1>1, <1>4 DEF TypesHold, Outcome
<1>6. trk'.ready \in BOOLEAN /\ trk'.exit \in BOOLEAN /\ trk'.count \in Nat
    BY <1>5, SessionFields
<1>7. config.lock \in Nat /\ config.lock >= 2
    BY <1>4, ConfigNumbers DEF TypesHold, Tracker!Valid
<1>8. TypesHold'
    <2>1. past'.commit_age \in Ages
        BY <1>1, <1>4, AgedType DEF TypesHold
    <2> QED
        BY <1>1, <1>2, <1>3, <1>4, <1>5, <1>6, <2>1 DEF TypesHold, HistoryFollows, Tracker!Valid
<1>9. SessionOfState'
    <2>1. trk'.active = (state' = "track") /\ (state' = "hold" => trk'.phase = "TRACKING" /\ ~trk'.exit)
        BY <1>1, <1>3, <1>4 DEF Outcome, SessionOfState
    <2>2. state' = "track" => trk'.count >= 1
        <3>1. ASSUME state = "track"
              PROVE  trk.count >= 1 /\ trk'.count >= trk.count
            BY <1>1, <1>4, <1>5, <1>6, <3>1, SessionFields
               DEF Outcome, SessionOfState, Ignored
        <3> QED
            BY <1>3, <1>5, <1>6, <3>1, SessionFields
    <2>3. state' = "hold" /\ trk'.ready => trk'.count >= 2
        <3>1. ASSUME state = "hold", trk'.ready
              PROVE  trk'.count >= config.lock
            <4>1. ~t.active /\ t.phase # "COMMIT"
                BY <1>1, <1>4, <3>1 DEF SessionOfState
            <4> QED
                BY <1>1, <3>1, <4>1 DEF Outcome, Cleared
        <3> QED
            BY <1>3, <1>6, <1>7, <3>1
    <2>4. trk'.exit => tracker_exit_requested' \/ ~selected'
        <3>1. trk'.exit => trk.exit \/ ~selected'
            BY <1>1 DEF Outcome
        <3>2. trk.exit => tracker_exit_requested /\ state = "track"
            BY <1>3, <1>4 DEF SessionOfState, TypesHold
        <3> QED
            BY <1>3, <3>1, <3>2
    <2> QED
        BY <1>3, <1>6, <2>1, <2>2, <2>3, <2>4 DEF SessionOfState
<1>10. StoreIsKnown'
    <2>1. CASE Ignored(t, trk')
        BY <1>1, <1>4, <2>1 DEF StoreIsKnown, Ignored, Known, HistoryFollows
    <2>2. CASE Cleared(trk')
        BY <2>2 DEF StoreIsKnown, Cleared, Known, Tracker!NoFilter
    <2>3. CASE store' # None /\ Taken(t, trk', store')
        <3>1. store' \in Observations /\ store'.age \in Int
            BY <1>2, <2>3, TrackerAssumptions DEF Observations, Ages
        <3>2. Known(trk'.filter) /\ ~past'.unread
            BY <1>1, <2>3, <3>1 DEF Taken, Known, HistoryFollows, Observations
        <3>3. trk'.control # None => store'.age <= trk'.control.age
            BY <1>1, <2>3, <3>1 DEF Taken
        <3> QED
            BY <2>3, <3>2, <3>3 DEF StoreIsKnown, Known
    <2> QED
        BY <1>1, <2>1, <2>2, <2>3 DEF Outcome
<1>11. CountsAreBelow'
    BY <1>1, <1>4 DEF CountsAreBelow, Outcome
<1>12. CommitHolds'
    <2>1. SUFFICES ASSUME trk'.phase = "COMMIT"
                   PROVE  /\ trk'.frozen = sent' /\ trk'.deadline \in 0..CommitTime
                          /\ trk'.deadline + past'.commit_age >= CommitTime
        BY DEF CommitHolds
    <2>2. /\ trk.frozen = sent /\ trk.deadline \in 0..CommitTime
          /\ trk.deadline + past.commit_age >= CommitTime
        BY <1>1, <1>4, <2>1 DEF Outcome, CommitHolds
    <2>3. /\ trk'.frozen = sent' /\ trk'.deadline = t.deadline /\ t.deadline \in 0..CommitTime
          /\ t.deadline + d >= trk.deadline
        BY <1>1, <1>3, <2>2 DEF Outcome
    <2>4. past'.commit_age = past.commit_age + d \/ past'.commit_age = AgeCap
        BY <1>1, <1>4, AgedType DEF TypesHold
    <2>5. past.commit_age \in Nat
        BY <1>4 DEF TypesHold, Ages
    <2> QED
        BY <2>2, <2>3, <2>4, <2>5, TrackerAssumptions
<1> QED
    BY <1>3, <1>4, <1>8, <1>9, <1>10, <1>11, <1>12 DEF SessionInvariant

\* A session that starts or ends keeps, or clears, the acquisition.
LEMMA StartedSession ==
    ASSUME NEW t \in Sessions
    PROVE  LET u == Tracker!Started(t)
           IN /\ u \in Sessions /\ u.filter = t.filter /\ u.update = t.update
              /\ u.control = t.control /\ u.count = t.count
              /\ u.active = TRUE /\ u.exit = FALSE /\ u.ready = FALSE /\ u.completion = FALSE
              /\ u.phase = "ALIGN" /\ u.align_count = 0 /\ u.commit_count = 0
BY SessionFields DEF Tracker!Started, Tracker!Session, Tracker!NoTracking, Sessions, Phases

LEMMA StoppedSession ==
    ASSUME NEW t \in Sessions
    PROVE  LET u == Tracker!Stopped(t)
           IN /\ u \in Sessions /\ Cleared(u)
              /\ u.active = FALSE /\ u.exit = FALSE /\ u.phase = "TRACKING"
              /\ u.align_count = 0 /\ u.commit_count = 0
<1> DEFINE w == Tracker!Session(t, "TRACKING")
<1>1. /\ w \in Sessions /\ w.active = FALSE /\ w.exit = FALSE /\ w.phase = "TRACKING"
      /\ w.align_count = 0 /\ w.commit_count = 0
    BY SessionFields DEF Tracker!Session, Tracker!NoTracking, Sessions, Phases
<1> HIDE DEF w
<1>2. /\ Tracker!ClearAcquisition(w) \in Sessions /\ Cleared(Tracker!ClearAcquisition(w))
      /\ SessionKept(w, Tracker!ClearAcquisition(w))
    BY <1>1, ClearedSession
<1>3. Tracker!Stopped(t) = Tracker!ClearAcquisition(w)
    BY DEF Tracker!Stopped, w
<1> QED
    BY <1>1, <1>2, <1>3 DEF SessionKept

LEMMA SomeRun ==
    ASSUME TypesHold
    PROVE  0 < RunCap
BY ConfigNumbers, TrackerAssumptions DEF TypesHold, Tracker!Valid

LEMMA EnterKeepsSession ==
    ASSUME SessionInvariant, Tracker!EnterTrack
    PROVE  SessionInvariant'
<1>1. /\ pc = "resolve" /\ state = "hold" /\ tracker_ready
      /\ raised' = (raised \/ ~trk.ready \/ ~fresh) /\ trk' = Tracker!Started(trk)
      /\ state' = "track" /\ tracker_ready' = FALSE /\ tracker_exit_requested' = FALSE
      /\ pc' = "control"
      /\ UNCHANGED <<store, config, selected, fresh, sent, past>>
    BY DEF Tracker!EnterTrack, Tracker!EnterTracking
<1>2. TypesHold /\ SessionOfState /\ StoreIsKnown /\ ~raised
    BY DEF SessionInvariant
<1>3. trk \in Sessions /\ trk.ready /\ fresh /\ trk.count >= 2
    BY <1>1, <1>2 DEF TypesHold, SessionOfState
<1>4. /\ trk' \in Sessions /\ trk'.filter = trk.filter /\ trk'.control = trk.control
      /\ trk'.count = trk.count /\ trk'.active = TRUE /\ trk'.exit = FALSE
      /\ trk'.ready = FALSE
      /\ trk'.phase = "ALIGN" /\ trk'.align_count = 0 /\ trk'.commit_count = 0
    BY <1>1, <1>3, StartedSession
<1>5. TypesHold'
    BY <1>1, <1>2, <1>4 DEF TypesHold, Tracker!Valid
<1>6. SessionOfState'
    <2>1. trk'.count >= 1
        BY <1>3, <1>4, SessionFields
    <2> QED
        BY <1>1, <1>4, <2>1 DEF SessionOfState
<1>7. StoreIsKnown'
    BY <1>1, <1>2, <1>4 DEF StoreIsKnown, Known
<1>8. CountsAreBelow' /\ CommitHolds'
    BY <1>2, <1>4, SomeRun DEF CountsAreBelow, CommitHolds
<1> QED
    BY <1>1, <1>2, <1>3, <1>5, <1>6, <1>7, <1>8 DEF SessionInvariant

LEMMA LeaveKeepsSession ==
    ASSUME SessionInvariant, Tracker!LeaveTrack
    PROVE  SessionInvariant'
<1>1. /\ trk' = Tracker!Stopped(trk) /\ state' = "hold" /\ tracker_ready' = FALSE
      /\ tracker_exit_requested' = FALSE /\ pc' = "observe"
      /\ UNCHANGED <<store, config, selected, fresh, sent, raised, past>>
    BY DEF Tracker!LeaveTrack
<1>2. TypesHold /\ ~raised /\ trk \in Sessions
    BY DEF SessionInvariant, TypesHold
<1>3. /\ trk' \in Sessions /\ Cleared(trk') /\ trk'.active = FALSE /\ trk'.exit = FALSE
      /\ trk'.phase = "TRACKING" /\ trk'.align_count = 0 /\ trk'.commit_count = 0
    BY <1>1, <1>2, StoppedSession
<1>4. TypesHold'
    BY <1>1, <1>2, <1>3 DEF TypesHold, Tracker!Valid
<1>5. SessionOfState' /\ StoreIsKnown'
    <2>1. trk'.filter.frame = "none" /\ trk'.control = None /\ trk'.ready = FALSE
        BY <1>3 DEF Cleared, Tracker!NoFilter
    <2>2. SessionOfState'
        BY <1>1, <1>3, <2>1 DEF SessionOfState
    <2> QED
        BY <2>1, <2>2 DEF StoreIsKnown, Known
<1>6. CountsAreBelow' /\ CommitHolds'
    BY <1>2, <1>3, SomeRun DEF CountsAreBelow, CommitHolds
<1> QED
    BY <1>1, <1>2, <1>4, <1>5, <1>6 DEF SessionInvariant

LEMMA StayKeepsSession ==
    ASSUME SessionInvariant, Tracker!Stay
    PROVE  SessionInvariant'
<1>1. /\ pc = "resolve" /\ (state = "hold" \/ ~(tracker_exit_requested \/ ~selected))
      /\ pc' = IF state = "track" THEN "control" ELSE "observe"
      /\ UNCHANGED <<state, store, config, trk, selected, fresh, tracker_ready,
                     tracker_exit_requested, sent, raised, past>>
    BY DEF Tracker!Stay, Tracker!ExitTracking, Tracker!ctxVars
<1>2. TypesHold'
    BY <1>1 DEF SessionInvariant, TypesHold, Tracker!Valid
<1>3. SessionOfState'
    BY <1>1 DEF SessionInvariant, SessionOfState
<1>4. StoreIsKnown' /\ CountsAreBelow' /\ CommitHolds'
    BY <1>1 DEF SessionInvariant, StoreIsKnown, CountsAreBelow, CommitHolds, Known
<1> QED
    BY <1>1, <1>2, <1>3, <1>4 DEF SessionInvariant

LEMMA ParameterKeepsSession ==
    ASSUME SessionInvariant, Tracker!ParameterChanged
    PROVE  SessionInvariant'
<1>1. PICK c \in Configs : config' = Tracker!AcceptConfig(c)
    BY DEF Tracker!ParameterChanged
<1>2. UNCHANGED <<pc, state, store, trk, selected, fresh, tracker_ready,
                  tracker_exit_requested, sent, raised, past>>
    BY DEF Tracker!ParameterChanged, Tracker!ctxVars
<1>3. TypesHold'
    <2>1. config' \in Configs /\ Tracker!Valid(config')
        BY <1>1 DEF SessionInvariant, TypesHold, Tracker!AcceptConfig
    <2> QED
        BY <1>2, <2>1 DEF SessionInvariant, TypesHold, Tracker!Valid
<1>4. SessionOfState' /\ StoreIsKnown' /\ CountsAreBelow' /\ CommitHolds'
    BY <1>2 DEF SessionInvariant, SessionOfState, StoreIsKnown, CountsAreBelow, CommitHolds,
       Known
<1> QED
    BY <1>2, <1>3, <1>4 DEF SessionInvariant

\* One field of the history changes.
LEMMA HistoryWith ==
    ASSUME NEW h, NEW x,
           h = [unread |-> h.unread, near_run |-> h.near_run, align_run |-> h.align_run,
                ids |-> h.ids, commit_age |-> h.commit_age]
    PROVE  /\ [h EXCEPT !.unread = x] =
                  [unread |-> x, near_run |-> h.near_run, align_run |-> h.align_run,
                   ids |-> h.ids, commit_age |-> h.commit_age]
           /\ [h EXCEPT !.commit_age = x] =
                  [unread |-> h.unread, near_run |-> h.near_run, align_run |-> h.align_run,
                   ids |-> h.ids, commit_age |-> x]
<1>1. ASSUME NEW a, NEW b, NEW c, NEW e, NEW g
      PROVE  LET r == [unread |-> a, near_run |-> b, align_run |-> c, ids |-> e,
                       commit_age |-> g]
             IN /\ [r EXCEPT !.unread = x] = [r EXCEPT !.unread = x]
                /\ [r EXCEPT !.unread = x] =
                      [unread |-> x, near_run |-> b, align_run |-> c, ids |-> e,
                       commit_age |-> g]
                /\ [r EXCEPT !.commit_age = x] =
                      [unread |-> a, near_run |-> b, align_run |-> c, ids |-> e,
                       commit_age |-> x]
    OBVIOUS
<1> QED
    BY <1>1

\* A result in the store, and what the filter knows of its frame.
LEMMA ArriveFacts ==
    ASSUME SessionInvariant, Tracker!Arrive
    PROVE  /\ store' \in Observations /\ store' # None /\ store'.age = 0
           /\ trk' \in Sessions /\ SessionKept(trk, trk') /\ trk'.update = trk.update
           /\ trk'.control = trk.control /\ trk'.count = trk.count /\ trk'.ready = trk.ready
           /\ trk'.filter.tracker = trk.filter.tracker
           /\ trk.filter.frame = "none" => trk'.filter.frame = "none"
           /\ trk'.filter.frame = "same" => trk.filter.tracker = store'.tracker
           /\ past' = [past EXCEPT !.unread = (trk'.filter.frame # "same")]
<1>1. PICK tracker \in Trackers, sight \in Sights :
          LET o == [tracker |-> tracker, sight |-> sight, age |-> 0]
          IN /\ store' = o
             /\ \E frame \in Tracker!FrameRelation(o) :
                  trk' = [trk EXCEPT !.filter.frame = frame, !.live = FALSE]
    BY DEF Tracker!Arrive
<1>2. past' = [past EXCEPT !.unread = (trk'.filter.frame # "same")]
    BY DEF Tracker!Arrive
<1> DEFINE o == [tracker |-> tracker, sight |-> sight, age |-> 0]
<1>3. o \in Observations /\ o # None /\ o.age = 0 /\ o.tracker = tracker
    BY TrackerAssumptions DEF Observations, Ages
<1>4. PICK frame \in Tracker!FrameRelation(o) :
          trk' = [trk EXCEPT !.filter.frame = frame, !.live = FALSE]
    BY <1>1
<1>5. /\ frame \in {"none", "older", "same"}
      /\ trk.filter.frame = "none" => frame = "none"
      /\ frame = "same" => trk.filter.tracker = tracker
    BY <1>3, <1>4 DEF Tracker!FrameRelation
<1>6. store' = o
    BY <1>1
<1>7. trk \in Sessions /\ trk.filter \in Filters
    BY SessionFields DEF SessionInvariant, TypesHold
<1> DEFINE f == [trk.filter EXCEPT !.frame = frame]
<1>8. f \in Filters /\ f.frame = frame /\ f.tracker = trk.filter.tracker
    BY <1>5, <1>7 DEF Filters
<1>9. trk' = [trk EXCEPT !.filter = f, !.live = FALSE]
    BY <1>4
<1> HIDE DEF f, o
<1>10. /\ trk' \in Sessions /\ SessionKept(trk, trk') /\ trk'.update = trk.update
       /\ trk'.control = trk.control /\ trk'.count = trk.count /\ trk'.ready = trk.ready
       /\ trk'.filter = f
    BY <1>7, <1>8, <1>9 DEF Sessions, SessionKept
<1> QED
    BY <1>2, <1>3, <1>5, <1>6, <1>8, <1>10

LEMMA ArriveKeepsSession ==
    ASSUME SessionInvariant, Tracker!Arrive
    PROVE  SessionInvariant'
<1>1. UNCHANGED <<pc, state, config, selected, fresh, tracker_ready, tracker_exit_requested,
                  sent, raised>>
    BY DEF Tracker!Arrive, Tracker!ctxVars
<1>2. /\ store' \in Observations /\ store' # None /\ store'.age = 0
      /\ trk' \in Sessions /\ SessionKept(trk, trk') /\ trk'.control = trk.control
      /\ trk'.count = trk.count /\ trk'.ready = trk.ready
      /\ trk'.filter.tracker = trk.filter.tracker
      /\ trk.filter.frame = "none" => trk'.filter.frame = "none"
      /\ past' = [past EXCEPT !.unread = (trk'.filter.frame # "same")]
    BY ArriveFacts
<1>3. TypesHold /\ SessionOfState /\ StoreIsKnown /\ CountsAreBelow /\ CommitHolds /\ ~raised
    BY DEF SessionInvariant
<1>4. /\ past' = [unread |-> past'.unread, near_run |-> past'.near_run,
                  align_run |-> past'.align_run, ids |-> past'.ids,
                  commit_age |-> past'.commit_age]
      /\ past'.unread = (trk'.filter.frame # "same")
      /\ past'.near_run = past.near_run /\ past'.align_run = past.align_run
      /\ past'.commit_age = past.commit_age
    <2>1. past' = [unread |-> (trk'.filter.frame # "same"), near_run |-> past.near_run,
                   align_run |-> past.align_run, ids |-> past.ids,
                   commit_age |-> past.commit_age]
        BY <1>2, <1>3, HistoryWith DEF TypesHold
    <2> QED
        BY <2>1
<1>5. TypesHold'
    BY <1>1, <1>2, <1>3, <1>4 DEF TypesHold, Tracker!Valid
<1>6. SessionOfState'
    BY <1>1, <1>2, <1>3 DEF SessionOfState, SessionKept
<1>7. StoreIsKnown'
    <2>1. trk.control # None => 0 <= trk.control.age
        BY <1>3, SessionFields, TrackerAssumptions DEF TypesHold, Sightings, Ages
    <2> QED
        BY <1>2, <1>3, <1>4, <2>1 DEF StoreIsKnown, Known
<1>8. CountsAreBelow' /\ CommitHolds'
    BY <1>1, <1>2, <1>3, <1>4 DEF CountsAreBelow, CommitHolds, SessionKept
<1> QED
    BY <1>1, <1>3, <1>5, <1>6, <1>7, <1>8 DEF SessionInvariant

\* What an update does to a session: it goes on, ends, or passes the gates.
LEMMA ControlFacts ==
    ASSUME SessionInvariant, Tracker!Control
    PROVE  /\ trk' \in Sessions
           /\ trk'.filter = trk.filter /\ trk'.control = trk.control
           /\ trk'.update = trk.update /\ trk'.count = trk.count
           /\ trk'.ready = trk.ready /\ trk'.active = trk.active
           /\ \/ /\ trk.phase = "COMMIT" /\ trk' = trk /\ sent' = trk.frozen
              \/ /\ trk.phase = "COMMIT" /\ ~(trk.deadline > 0) /\ sent' = trk.frozen
                 /\ trk'.exit /\ trk'.phase = "COMMIT" /\ trk'.deadline = trk.deadline
                 /\ trk'.frozen = trk.frozen
                 /\ trk'.align_count = trk.align_count /\ trk'.commit_count = trk.commit_count
              \/ /\ trk.phase # "COMMIT" /\ trk'.exit /\ trk'.phase = trk.phase
                 /\ trk'.align_count = trk.align_count /\ trk'.commit_count = trk.commit_count
              \/ /\ trk.phase # "COMMIT" /\ trk.control # None
                 /\ ~(trk.control.age > config.timeout) /\ trk'.exit = trk.exit
                 /\ trk' = Tracker!CommitStep(Tracker!AlignStep(trk))
                 /\ sent' = trk.control.sight
<1>1. trk' = Tracker!Updated(trk) /\ sent' = Tracker!Result(trk, trk')
    BY DEF Tracker!Control
<1>2. trk \in Sessions /\ fresh \in BOOLEAN /\ config \in Configs
    BY DEF SessionInvariant, TypesHold
<1>3. CASE trk.phase = "COMMIT" /\ trk.deadline > 0 /\ trk' = trk
    BY <1>1, <1>2, <1>3 DEF Tracker!Result
<1>4. CASE /\ trk.phase = "COMMIT" /\ ~(trk.deadline > 0)
           /\ trk' = [Tracker!RequestExit(trk) EXCEPT !.completion = TRUE]
    <2>1. trk' = [[trk EXCEPT !.exit = TRUE] EXCEPT !.completion = TRUE]
        BY <1>2, <1>4, ExitingSession
    <2>2. /\ trk' \in Sessions /\ trk'.exit /\ trk'.phase = trk.phase
          /\ trk'.deadline = trk.deadline /\ trk'.frozen = trk.frozen
          /\ trk'.align_count = trk.align_count /\ trk'.commit_count = trk.commit_count
          /\ trk'.filter = trk.filter /\ trk'.control = trk.control
          /\ trk'.update = trk.update /\ trk'.count = trk.count
          /\ trk'.ready = trk.ready /\ trk'.active = trk.active
        BY <1>2, <2>1 DEF Sessions
    <2>3. sent' = trk'.frozen
        BY <1>1, <1>4 DEF Tracker!Result
    <2> QED
        BY <1>4, <2>2, <2>3
<1>5. CASE trk.phase # "COMMIT" /\ trk' = Tracker!RequestExit(trk)
    <2>1. trk' = [trk EXCEPT !.exit = TRUE]
        BY <1>2, <1>5, ExitingSession
    <2>2. /\ trk' \in Sessions /\ trk'.exit /\ trk'.phase = trk.phase
          /\ trk'.align_count = trk.align_count /\ trk'.commit_count = trk.commit_count
          /\ trk'.filter = trk.filter /\ trk'.control = trk.control
          /\ trk'.update = trk.update /\ trk'.count = trk.count
          /\ trk'.ready = trk.ready /\ trk'.active = trk.active
        BY <1>2, <2>1 DEF Sessions
    <2> QED
        BY <1>5, <2>2
<1>6. CASE /\ trk.phase # "COMMIT" /\ fresh /\ trk.control # None
           /\ ~(trk.control.age > config.timeout)
           /\ trk' = Tracker!CommitStep(Tracker!AlignStep(trk))
    <2> DEFINE a == Tracker!AlignStep(trk)
    <2>1. a \in Sessions /\ AcquisitionKept(trk, a)
        BY <1>2, <1>6, AlignGate
    <2>2. a.control # None
        BY <1>6, <2>1 DEF AcquisitionKept
    <2>3. trk' \in Sessions /\ AcquisitionKept(a, trk')
        <3> HIDE DEF a
        <3>1. Tracker!CommitStep(a) \in Sessions /\ AcquisitionKept(a, Tracker!CommitStep(a))
            BY <1>2, <2>1, <2>2, CommitGate
        <3> QED
            BY <1>6, <3>1 DEF a
    <2>4. sent' = trk.control.sight
        BY <1>1, <1>6 DEF Tracker!Result
    <2> HIDE DEF a
    <2> QED
        BY <1>6, <2>1, <2>3, <2>4 DEF AcquisitionKept
<1> QED
    BY <1>1, <1>2, <1>3, <1>4, <1>5, <1>6, UpdatedCases

\* The gates: the alignment goes on, or a frame is counted towards the commit.
GatesPassed ==
    \/ /\ trk.phase = "ALIGN" /\ trk'.phase = "ALIGN" /\ trk'.commit_count = 0
       /\ \/ ~trk.update.new /\ trk'.align_count = trk.align_count
          \/ /\ trk.update.new /\ trk'.align_count < config.align
             /\ trk'.align_count = IF Aligns(trk) THEN trk.align_count + 1 ELSE 0
    \/ /\ \/ trk.phase = "TRACKING" /\ trk'.align_count = trk.align_count
          \/ /\ trk.phase = "ALIGN" /\ trk.update.new /\ Aligns(trk)
             /\ trk'.align_count = trk.align_count + 1
       /\ trk'.commit_count = IF ~trk.update.new THEN trk.commit_count
                              ELSE IF Passes(trk) THEN trk.commit_count + 1 ELSE 0
       /\ \/ trk'.phase = "TRACKING" /\ trk'.commit_count < config.commit
          \/ /\ trk'.phase = "COMMIT" /\ trk'.commit_count >= config.commit
             /\ trk'.deadline = CommitTime /\ trk'.frozen = trk.control.sight

LEMMA GateFacts ==
    ASSUME SessionInvariant, trk.phase # "COMMIT", trk.control # None,
           trk' = Tracker!CommitStep(Tracker!AlignStep(trk))
    PROVE  GatesPassed
<1>1. /\ trk \in Sessions /\ config \in Configs /\ Tracker!Valid(config)
      /\ trk.phase = "ALIGN" => trk.commit_count = 0
    BY DEF SessionInvariant, TypesHold, CountsAreBelow
<1>2. /\ config.commit \in Nat /\ config.align \in Nat /\ config.commit >= 1
      /\ config.align >= 1
    BY <1>1, ConfigNumbers DEF Tracker!Valid
<1> DEFINE a == Tracker!AlignStep(trk)
<1>3. /\ a \in Sessions /\ AcquisitionKept(trk, a) /\ a.commit_count = trk.commit_count
      /\ trk.phase # "ALIGN" \/ ~trk.update.new =>
            a.phase = trk.phase /\ a.align_count = trk.align_count
      /\ trk.phase = "ALIGN" /\ trk.update.new =>
            /\ a.align_count = IF Aligns(trk) THEN trk.align_count + 1 ELSE 0
            /\ a.phase = IF a.align_count >= config.align THEN "TRACKING" ELSE "ALIGN"
    BY <1>1, AlignGate
<1> HIDE DEF a
<1>4. /\ a.control = trk.control /\ a.update = trk.update /\ a.control # None
      /\ Passes(a) = Passes(trk)
    BY <1>3 DEF AcquisitionKept, Passes
<1>5. /\ trk'.align_count = a.align_count
      /\ trk'.commit_count = IF a.phase # "TRACKING" \/ ~a.update.new THEN a.commit_count
                             ELSE IF Passes(a) THEN a.commit_count + 1 ELSE 0
      /\ trk'.commit_count >= config.commit =>
            trk'.phase = "COMMIT" /\ trk'.deadline = CommitTime /\ trk'.frozen = a.control.sight
      /\ trk'.commit_count < config.commit => trk'.phase = a.phase
    <2>1. trk' = Tracker!CommitStep(a)
        BY DEF a
    <2> QED
        BY <1>1, <1>3, <1>4, <2>1, CommitGate
<1>6. /\ trk'.commit_count = IF a.phase # "TRACKING" \/ ~trk.update.new THEN trk.commit_count
                             ELSE IF Passes(trk) THEN trk.commit_count + 1 ELSE 0
      /\ trk.align_count \in Nat /\ trk.commit_count \in Nat
      /\ trk.phase \in {"ALIGN", "TRACKING"}
    BY <1>1, <1>3, <1>4, <1>5, SessionFields DEF Phases
<1>7. trk'.commit_count \in Nat
    BY <1>6
<1>8. CASE a.phase = "ALIGN"
    <2>1. trk.phase = "ALIGN" /\ trk'.commit_count = 0
        BY <1>1, <1>3, <1>6, <1>8
    <2>2. trk'.phase = "ALIGN"
        BY <1>2, <1>5, <1>8, <2>1
    <2>3. CASE ~trk.update.new
        BY <1>3, <1>5, <2>1, <2>2, <2>3 DEF GatesPassed
    <2>4. CASE trk.update.new
        <3>1. a.align_count = IF Aligns(trk) THEN trk.align_count + 1 ELSE 0
            BY <1>3, <2>1, <2>4
        <3>2. a.align_count < config.align
            <4>1. ~(a.align_count >= config.align)
                BY <1>3, <1>8, <2>1, <2>4
            <4> QED
                BY <1>2, <1>6, <3>1, <4>1
        <3> QED
            BY <1>5, <2>1, <2>2, <2>4, <3>1, <3>2 DEF GatesPassed
    <2> QED
        BY <2>3, <2>4
<1>9. CASE a.phase = "TRACKING"
    <2>1. \/ trk.phase = "TRACKING" /\ trk'.align_count = trk.align_count
          \/ /\ trk.phase = "ALIGN" /\ trk.update.new /\ Aligns(trk)
             /\ trk'.align_count = trk.align_count + 1
        <3>1. CASE trk.phase = "TRACKING"
            BY <1>3, <1>5, <3>1
        <3>2. CASE trk.phase = "ALIGN"
            <4>1. trk.update.new
                BY <1>3, <1>9, <3>2
            <4>2. a.align_count >= config.align
                BY <1>3, <1>9, <3>2, <4>1
            <4>3. Aligns(trk) /\ a.align_count = trk.align_count + 1
                BY <1>2, <1>3, <3>2, <4>1, <4>2
            <4> QED
                BY <1>5, <3>2, <4>1, <4>3
        <3> QED
            BY <1>6, <3>1, <3>2
    <2>2. trk'.commit_count = IF ~trk.update.new THEN trk.commit_count
                              ELSE IF Passes(trk) THEN trk.commit_count + 1 ELSE 0
        BY <1>6, <1>9
    <2>3. \/ trk'.phase = "TRACKING" /\ trk'.commit_count < config.commit
          \/ /\ trk'.phase = "COMMIT" /\ trk'.commit_count >= config.commit
             /\ trk'.deadline = CommitTime /\ trk'.frozen = trk.control.sight
        <3>1. trk'.commit_count < config.commit \/ trk'.commit_count >= config.commit
            BY <1>2, <1>7
        <3> QED
            BY <1>4, <1>5, <1>9, <3>1
    <2> QED
        BY <2>1, <2>2, <2>3 DEF GatesPassed
<1>10. a.phase \in {"ALIGN", "TRACKING"}
    BY <1>3, <1>6
<1> QED
    BY <1>8, <1>9, <1>10

LEMMA ControlKeepsSession ==
    ASSUME SessionInvariant, Tracker!Control
    PROVE  SessionInvariant'
<1>1. /\ pc = "control" /\ tracker_exit_requested' = trk'.exit /\ pc' = "observe"
      /\ UNCHANGED <<state, store, config, selected, fresh, tracker_ready, raised>>
      /\ past' = IF trk'.phase = "COMMIT" /\ trk.phase # "COMMIT"
                 THEN [past EXCEPT !.commit_age = 0] ELSE past
    BY DEF Tracker!Control
<1>2. TypesHold /\ SessionOfState /\ StoreIsKnown /\ CountsAreBelow /\ CommitHolds /\ ~raised
    BY DEF SessionInvariant
<1>3. /\ trk' \in Sessions
      /\ trk'.filter = trk.filter /\ trk'.control = trk.control
      /\ trk'.count = trk.count /\ trk'.ready = trk.ready /\ trk'.active = trk.active
    BY ControlFacts
<1>4. /\ past' = [unread |-> past'.unread, near_run |-> past'.near_run,
                  align_run |-> past'.align_run, ids |-> past'.ids,
                  commit_age |-> past'.commit_age]
      /\ past'.unread = past.unread
      /\ past'.near_run = past.near_run /\ past'.align_run = past.align_run
      /\ past'.commit_age = IF trk'.phase = "COMMIT" /\ trk.phase # "COMMIT" THEN 0
                            ELSE past.commit_age
    <2>1. CASE trk'.phase = "COMMIT" /\ trk.phase # "COMMIT"
        <3>1. past' = [unread |-> past.unread, near_run |-> past.near_run,
                       align_run |-> past.align_run, ids |-> past.ids, commit_age |-> 0]
            BY <1>1, <1>2, <2>1, HistoryWith DEF TypesHold
        <3> QED
            BY <2>1, <3>1
    <2>2. CASE ~(trk'.phase = "COMMIT" /\ trk.phase # "COMMIT")
        BY <1>1, <1>2, <2>2 DEF TypesHold
    <2> QED
        BY <2>1, <2>2
<1>5. TypesHold'
    <2>1. past'.commit_age \in Ages
        BY <1>2, <1>4, TrackerAssumptions DEF TypesHold, Ages
    <2>2. trk'.exit \in BOOLEAN
        BY <1>3, SessionFields
    <2> QED
        BY <1>1, <1>2, <1>3, <1>4, <2>1, <2>2 DEF TypesHold, Tracker!Valid
<1>6. SessionOfState' /\ StoreIsKnown'
    BY <1>1, <1>2, <1>3, <1>4 DEF SessionOfState, StoreIsKnown, Known
<1>7. config.align \in Nat /\ config.align <= RunCap /\ config.commit \in Nat
      /\ config.commit <= RunCap /\ RunCap \in Nat /\ CommitTime \in Nat
      /\ trk'.align_count \in Nat /\ trk'.commit_count \in Nat
    BY <1>2, <1>3, ConfigNumbers, TrackerAssumptions, SessionFields DEF TypesHold
<1>8. CASE trk.phase = "COMMIT"
    <2>1. /\ trk'.phase = "COMMIT" /\ trk'.deadline = trk.deadline
          /\ trk'.frozen = trk.frozen /\ sent' = trk.frozen
        BY <1>8, ControlFacts
    <2>2. CountsAreBelow' /\ CommitHolds'
        BY <1>2, <1>4, <1>8, <2>1 DEF CountsAreBelow, CommitHolds
    <2> QED
        BY <1>1, <1>2, <1>5, <1>6, <2>2 DEF SessionInvariant
<1>9. CASE /\ trk.phase # "COMMIT" /\ trk'.phase = trk.phase
           /\ trk'.align_count = trk.align_count /\ trk'.commit_count = trk.commit_count
    <2>1. CountsAreBelow' /\ CommitHolds'
        BY <1>2, <1>9 DEF CountsAreBelow, CommitHolds
    <2> QED
        BY <1>1, <1>2, <1>5, <1>6, <2>1 DEF SessionInvariant
<1>10. CASE GatesPassed /\ trk.phase # "COMMIT" /\ sent' = trk.control.sight
    <2>1. CountsAreBelow'
        <3>1. CASE trk'.phase = "ALIGN"
            BY <1>2, <1>7, <1>10, <3>1 DEF CountsAreBelow, GatesPassed
        <3>2. CASE trk'.phase = "TRACKING"
            BY <1>7, <1>10, <3>2 DEF CountsAreBelow, GatesPassed
        <3> QED
            BY <3>1, <3>2 DEF CountsAreBelow
    <2>2. CommitHolds'
        <3>1. SUFFICES ASSUME trk'.phase = "COMMIT"
                       PROVE  /\ trk'.frozen = sent' /\ trk'.deadline \in 0..CommitTime
                              /\ trk'.deadline + past'.commit_age >= CommitTime
            BY DEF CommitHolds
        <3>2. trk'.deadline = CommitTime /\ trk'.frozen = trk.control.sight
            BY <1>10, <3>1 DEF GatesPassed
        <3>3. past'.commit_age = 0
            BY <1>4, <1>10, <3>1
        <3> QED
            BY <1>7, <1>10, <3>2, <3>3
    <2> QED
        BY <1>1, <1>2, <1>5, <1>6, <2>1, <2>2 DEF SessionInvariant
<1> QED
    BY <1>8, <1>9, <1>10, ControlFacts, GateFacts

LEMMA SessionStep ==
    ASSUME SessionInvariant, Tracker!Next
    PROVE  SessionInvariant'
BY ObserveKeepsSession, EnterKeepsSession, LeaveKeepsSession, StayKeepsSession,
   ControlKeepsSession, ArriveKeepsSession, ParameterKeepsSession
   DEF Tracker!Next, Tracker!LoopStep

LEMMA SessionStutter ==
    ASSUME SessionInvariant, UNCHANGED trackerVars
    PROVE  SessionInvariant'
BY DEF trackerVars, SessionInvariant, TypesHold, SessionOfState, StoreIsKnown, CountsAreBelow,
   CommitHolds, Known, Tracker!Valid

\* A commit keeps its command, and is complete only after its whole time.
LEMMA StepLasts ==
    ASSUME SessionInvariant, Tracker!Next
    PROVE  Tracker!CommitLasts
<1>1. trk \in Sessions /\ TypesHold /\ CommitHolds
    BY DEF SessionInvariant, TypesHold
<1>2. CASE Tracker!Observe
    <2>1. trk'.completion = trk.completion
        BY <1>2, ObserveFacts DEF Outcome
    <2>2. sent' = sent
        BY <1>2 DEF Tracker!Observe
    <2> QED
        BY <2>1, <2>2 DEF Tracker!CommitLasts
<1>3. CASE Tracker!EnterTrack
    <2>1. trk'.phase = "ALIGN"
        BY <1>1, <1>3, StartedSession DEF Tracker!EnterTrack
    <2> QED
        BY <2>1 DEF Tracker!CommitLasts
<1>4. CASE Tracker!LeaveTrack
    <2>1. trk'.phase = "TRACKING"
        BY <1>1, <1>4, StoppedSession DEF Tracker!LeaveTrack
    <2> QED
        BY <2>1 DEF Tracker!CommitLasts
<1>5. CASE Tracker!Stay
    BY <1>5 DEF Tracker!Stay, Tracker!CommitLasts
<1>6. CASE Tracker!Control
    <2>1. SUFFICES ASSUME trk.phase = "COMMIT"
                   PROVE  /\ sent' = sent
                          /\ trk'.completion => trk.completion \/ past.commit_age >= CommitTime
        BY DEF Tracker!CommitLasts
    <2>2. /\ trk.frozen = sent /\ trk.deadline \in 0..CommitTime
          /\ trk.deadline + past.commit_age >= CommitTime
        BY <1>1, <2>1 DEF CommitHolds
    <2>3. sent' = trk.frozen /\ (trk' = trk \/ ~(trk.deadline > 0))
        BY <1>6, <2>1, ControlFacts
    <2>4. ~(trk.deadline > 0) => past.commit_age >= CommitTime
        BY <1>1, <2>2, TrackerAssumptions DEF TypesHold, Ages
    <2> QED
        BY <2>2, <2>3, <2>4
<1>7. CASE Tracker!Arrive
    <2>1. trk'.completion = trk.completion
        BY <1>7, ArriveFacts DEF SessionKept
    <2>2. sent' = sent
        BY <1>7 DEF Tracker!Arrive
    <2> QED
        BY <2>1, <2>2 DEF Tracker!CommitLasts
<1>8. CASE Tracker!ParameterChanged
    BY <1>8 DEF Tracker!ParameterChanged, Tracker!CommitLasts
<1> QED
    BY <1>2, <1>3, <1>4, <1>5, <1>6, <1>7, <1>8 DEF Tracker!Next, Tracker!LoopStep

----------------------------------------------------------------------------
(* The runs of frames behind the counts.                                      *)

\* A parameter change of another thread, between the observe of an iteration and
\* its update, makes no observation recent again.
TimeoutKept ==
    state = "hold" \/ pc = "observe" \/ Tracker!Recent(config) \/ ~Tracker!Recent(config')

\* The session steers by a sight that is recent enough, when this iteration
\* has looked at it.
Live == Tracker!Recent(config)
Steers ==
    trk.phase # "COMMIT" /\ ~trk.exit /\ (state = "track" /\ pc # "observe" => Live)

\* A frame that the loop has read is the one the filter took last.
ReadIsTaken ==
    trk.count >= 1 /\ Steers /\ ~past.unread /\ store # None =>
        trk.filter.frame = "same" /\ trk.filter.tracker = store.tracker

\* The runs cover the counts, and the frame that is about to be counted.
RunsCover ==
    state = "track" /\ Steers =>
        /\ pc # "observe" /\ trk.update.new =>
              /\ Passes(trk) => trk.commit_count < past.near_run
              /\ trk.phase = "ALIGN" /\ Aligns(trk) => trk.align_count < past.align_run
        /\ pc = "observe" \/ ~trk.update.new =>
              /\ trk.commit_count <= past.near_run
              /\ trk.phase = "ALIGN" => trk.align_count <= past.align_run

\* So they do when a lock leads to TRACK.
ReadyIsSeen ==
    state = "hold" /\ pc = "resolve" /\ tracker_ready /\ trk.update.new =>
        /\ Passes(trk) => 0 < past.near_run
        /\ Aligns(trk) => 0 < past.align_run

RunInvariant == ReadIsTaken /\ RunsCover /\ ReadyIsSeen

\* They cover them in every session that is not stretched.
RunsHold == (state = "track" /\ stretched) \/ RunInvariant

\* The frame of an observation that is taken is new exactly when it was unread.
LEMMA NewIsUnread ==
    ASSUME StoreIsKnown, ReadIsTaken, trk.count >= 1, trk.phase # "COMMIT", ~trk.exit,
           pc = "observe", store # None, store'.tracker = store.tracker,
           NEW t, t.filter = trk.filter, Taken(t, trk', store'), past.unread \in BOOLEAN
    PROVE  trk'.update.new = past.unread
<1>1. trk'.update.new = (Tracker!FilterFor(trk.filter, store'.tracker).frame # "same")
    BY DEF Taken
<1>2. CASE past.unread
    BY <1>1, <1>2 DEF StoreIsKnown, Tracker!FilterFor, Tracker!NoFilter
<1>3. CASE ~past.unread
    <2>1. trk.filter.frame = "same" /\ trk.filter.tracker = store'.tracker
        BY <1>3 DEF ReadIsTaken, Steers
    <2> QED
        BY <1>1, <1>3, <2>1 DEF Tracker!FilterFor
<1> QED
    BY <1>2, <1>3

\* A frame that passes a gate, or is aligned, lengthens its run.
LEMMA SeenLengthens ==
    ASSUME HistoryFollows, past.unread, store' # None, NEW t, Taken(t, trk', store')
    PROVE  /\ Passes(trk') =>
                 \A n \in Nat : n <= past.near_run /\ n < RunCap => n < past'.near_run
           /\ Aligns(trk') =>
                 \A n \in Nat : n <= past.align_run /\ n < RunCap => n < past'.align_run
<1>1. Passes(trk') => store'.sight.near /\ store'.sight.box # "none"
    BY DEF Passes, Taken
<1>2. Aligns(trk') => store'.sight.aligned /\ store'.sight.box = "clear"
    BY DEF Aligns, Taken
<1> QED
    BY <1>1, <1>2 DEF HistoryFollows

LEMMA ObserveKeepsRuns ==
    ASSUME SessionInvariant, RunInvariant, Tracker!Observe
    PROVE  RunInvariant'
<1>1. PICK d \in Nat, t \in Sessions :
          /\ t.filter = trk.filter /\ t.update = trk.update /\ t.count = trk.count
          /\ t.ready = trk.ready /\ t.active = trk.active /\ t.exit = trk.exit
          /\ t.completion = trk.completion /\ t.phase = trk.phase /\ t.frozen = trk.frozen
          /\ t.align_count = trk.align_count /\ t.commit_count = trk.commit_count
          /\ trk.deadline \in Nat => t.deadline \in 0..CommitTime /\ t.deadline + d >= trk.deadline
          /\ t.control # None => store' # None /\ store'.age <= t.control.age
          /\ Outcome(t, trk', store', selected')
          /\ HistoryFollows /\ past'.commit_age = Tracker!Aged(past.commit_age, d)
    BY ObserveFacts
<1>2. /\ store' \in Observations \cup {None} /\ (store' = None <=> store = None)
      /\ store # None => store'.tracker = store.tracker
    BY ObserveShape
<1>3. /\ pc = "observe" /\ pc' = "resolve" /\ state' = state /\ config' = config
      /\ tracker_ready' = (trk'.ready /\ fresh')
    BY DEF Tracker!Observe
<1>4. /\ SessionOfState /\ StoreIsKnown /\ CountsAreBelow /\ TypesHold
      /\ ReadIsTaken /\ RunsCover
    BY DEF SessionInvariant, RunInvariant
<1>5. trk \in Sessions /\ config.lock >= 2 /\ config.lock \in Nat /\ config.timeout \in Nat
    BY <1>4, ConfigNumbers DEF TypesHold, Tracker!Valid
<1>6. /\ trk' \in Sessions /\ trk'.phase = trk.phase /\ trk'.active = trk.active
      /\ trk'.align_count = trk.align_count /\ trk'.commit_count = trk.commit_count
      /\ trk.exit => trk'.exit
    BY <1>1 DEF Outcome
<1>7. /\ trk.commit_count \in Nat /\ trk.align_count \in Nat /\ trk.count \in Nat
      /\ past.near_run \in Nat /\ past.align_run \in Nat /\ past.unread \in BOOLEAN
      /\ trk'.count \in Nat
    BY <1>4, <1>5, <1>6, SessionFields DEF TypesHold
\* The observation was not looked at: the session no longer steers.
<1>8. CASE /\ Ignored(t, trk') /\ (t.active \/ t.phase = "COMMIT")
           /\ \/ ~selected' /\ trk'.exit
              \/ t.phase = "COMMIT"
              \/ store' = None
              \/ store'.age > config.timeout
    <2>1. state = "track"
        BY <1>1, <1>4, <1>8 DEF SessionOfState, TypesHold
    <2>2. ~Steers'
        <3>1. SUFFICES ASSUME Live', trk'.phase # "COMMIT", ~trk'.exit PROVE FALSE
            BY <1>3, <2>1 DEF Steers
        <3>2. t.control # None /\ t.control.age <= config.timeout
            BY <1>3, <1>8, <3>1 DEF Live, Tracker!Recent, Ignored
        <3>3. store' # None /\ store'.age <= t.control.age /\ store'.age > config.timeout
            BY <1>1, <1>6, <1>8, <3>1, <3>2
        <3>4. store'.age \in Nat /\ t.control.age \in Nat
            BY <1>2, <3>2, <3>3, SessionFields DEF Observations, Sightings, Ages
        <3> QED
            BY <1>5, <3>2, <3>3, <3>4
    <2> QED
        BY <1>3, <2>1, <2>2 DEF RunInvariant, ReadIsTaken, RunsCover, ReadyIsSeen
\* The acquisition started over.
<1>9. CASE ~t.active /\ Cleared(trk')
    <2>1. trk'.count = 0 /\ trk'.ready = FALSE /\ state # "track"
        BY <1>1, <1>4, <1>9 DEF Cleared, SessionOfState, TypesHold
    <2>2. ReadIsTaken'
        <3>1. ~(trk'.count >= 1)
            BY <2>1
        <3> QED
            BY <3>1 DEF ReadIsTaken
    <2>3. RunsCover'
        BY <1>3, <2>1 DEF RunsCover
    <2>4. ReadyIsSeen'
        <3>1. ~tracker_ready'
            BY <1>3, <2>1, Zenon
        <3> QED
            BY <3>1 DEF ReadyIsSeen
    <2> QED
        BY <2>2, <2>3, <2>4 DEF RunInvariant
\* The observation was taken.
<1>10. CASE /\ store' # None /\ t.phase # "COMMIT" /\ Taken(t, trk', store')
            /\ trk'.count >= t.count
            /\ ~t.active => trk'.count <= t.count + 1 /\ (trk'.ready => trk'.count >= config.lock)
    <2>1. ReadIsTaken'
        BY <1>10 DEF ReadIsTaken, Taken
    <2>2. trk.count >= 1 /\ ~trk.exit => trk'.update.new = past.unread
        BY <1>1, <1>2, <1>3, <1>4, <1>7, <1>10, NewIsUnread
    <2>3. past.unread =>
              /\ Passes(trk') =>
                    \A n \in Nat : n <= past.near_run /\ n < RunCap => n < past'.near_run
              /\ Aligns(trk') =>
                    \A n \in Nat : n <= past.align_run /\ n < RunCap => n < past'.align_run
        BY <1>1, <1>10, SeenLengthens
    <2>4. ~past.unread => past'.near_run = past.near_run /\ past'.align_run = past.align_run
        BY <1>1 DEF HistoryFollows
    <2>5. RunsCover'
        <3>1. SUFFICES ASSUME state' = "track", Steers'
                       PROVE  /\ trk'.update.new =>
                                  /\ Passes(trk') => trk'.commit_count < past'.near_run
                                  /\ trk'.phase = "ALIGN" /\ Aligns(trk')
                                        => trk'.align_count < past'.align_run
                              /\ ~trk'.update.new =>
                                  /\ trk'.commit_count <= past'.near_run
                                  /\ trk'.phase = "ALIGN" => trk'.align_count <= past'.align_run
            BY <1>3 DEF RunsCover
        <3>2. state = "track" /\ ~trk.exit /\ trk.phase # "COMMIT" /\ trk.count >= 1
            BY <1>1, <1>3, <1>4, <1>6, <1>10, <3>1 DEF Steers, SessionOfState
        <3>3. /\ trk.commit_count <= past.near_run
              /\ trk.phase = "ALIGN" => trk.align_count <= past.align_run
            BY <1>3, <1>4, <3>2 DEF RunsCover, Steers
        <3>4. /\ trk.commit_count < RunCap
              /\ trk.phase = "ALIGN" => trk.align_count < RunCap
            <4>1. trk.phase \in {"ALIGN", "TRACKING"}
                BY <1>5, <3>2, SessionFields DEF Phases
            <4> QED
                BY <1>4, <4>1, SomeRun DEF CountsAreBelow
        <3>5. CASE past.unread
            BY <1>6, <1>7, <2>2, <2>3, <3>2, <3>3, <3>4, <3>5
        <3>6. CASE ~past.unread
            BY <1>6, <2>2, <2>4, <3>2, <3>3, <3>6
        <3> QED
            BY <3>5, <3>6
    <2>6. ReadyIsSeen'
        <3>1. SUFFICES ASSUME state' = "hold", tracker_ready', trk'.update.new
                       PROVE  /\ Passes(trk') => 0 < past'.near_run
                              /\ Aligns(trk') => 0 < past'.align_run
            BY <1>3 DEF ReadyIsSeen
        <3>2. ~t.active /\ ~trk.exit /\ trk'.ready
            BY <1>1, <1>3, <1>4, <3>1 DEF SessionOfState
        <3>3. trk.count >= 1
            BY <1>1, <1>5, <1>7, <1>10, <3>2
        <3>4. past.unread
            BY <2>2, <3>1, <3>2, <3>3
        <3>5. 0 < RunCap
            BY <1>4, SomeRun
        <3> QED
            BY <1>7, <2>3, <3>4, <3>5
    <2> QED
        BY <2>1, <2>5, <2>6 DEF RunInvariant
<1> QED
    BY <1>1, <1>8, <1>9, <1>10 DEF Outcome

LEMMA EnterKeepsRuns ==
    ASSUME SessionInvariant, RunInvariant, Tracker!EnterTrack
    PROVE  RunInvariant'
<1>1. /\ pc = "resolve" /\ state = "hold" /\ tracker_ready /\ trk' = Tracker!Started(trk)
      /\ state' = "track" /\ pc' = "control" /\ store' = store /\ past' = past
    BY DEF Tracker!EnterTrack, Tracker!EnterTracking
<1>2. trk \in Sessions /\ SessionOfState /\ TypesHold
    BY DEF SessionInvariant, TypesHold
<1>3. /\ trk'.filter = trk.filter /\ trk'.update = trk.update /\ trk'.control = trk.control
      /\ trk'.count = trk.count /\ trk'.phase = "ALIGN"
      /\ trk'.align_count = 0 /\ trk'.commit_count = 0
    BY <1>1, <1>2, StartedSession
<1>4. Steers
    BY <1>1, <1>2 DEF Steers, SessionOfState
<1>5. ReadIsTaken'
    BY <1>1, <1>3, <1>4 DEF RunInvariant, ReadIsTaken
<1>6. RunsCover'
    <2>1. Passes(trk') = Passes(trk) /\ Aligns(trk') = Aligns(trk)
        BY <1>3 DEF Passes, Aligns
    <2>2. 0 <= past.near_run /\ 0 <= past.align_run
        BY <1>2, TrackerAssumptions DEF TypesHold
    <2> QED
        BY <1>1, <1>3, <2>1, <2>2 DEF RunInvariant, ReadyIsSeen, RunsCover
<1>7. ReadyIsSeen'
    BY <1>1 DEF ReadyIsSeen
<1> QED
    BY <1>5, <1>6, <1>7 DEF RunInvariant

LEMMA LeaveKeepsRuns ==
    ASSUME SessionInvariant, Tracker!LeaveTrack
    PROVE  RunInvariant'
<1>1. trk' = Tracker!Stopped(trk) /\ state' = "hold" /\ pc' = "observe"
    BY DEF Tracker!LeaveTrack
<1>2. trk'.count = 0
    BY <1>1, StoppedSession DEF SessionInvariant, TypesHold, Cleared
<1> QED
    BY <1>1, <1>2 DEF RunInvariant, ReadIsTaken, RunsCover, ReadyIsSeen

LEMMA StayKeepsRuns ==
    ASSUME SessionInvariant, RunInvariant, Tracker!Stay
    PROVE  RunInvariant'
<1>1. /\ pc = "resolve" /\ pc' = IF state = "track" THEN "control" ELSE "observe"
      /\ UNCHANGED <<state, store, config, trk, tracker_ready, past>>
    BY DEF Tracker!Stay, Tracker!ctxVars
<1>2. Steers' = Steers
    BY <1>1 DEF Steers, Live, Tracker!Recent
<1>3. ReadIsTaken' /\ ReadyIsSeen'
    BY <1>1, <1>2 DEF RunInvariant, ReadIsTaken, ReadyIsSeen
<1>4. RunsCover'
    BY <1>1, <1>2 DEF RunInvariant, RunsCover
<1> QED
    BY <1>3, <1>4 DEF RunInvariant

LEMMA ArriveKeepsRuns ==
    ASSUME SessionInvariant, RunInvariant, Tracker!Arrive
    PROVE  RunInvariant'
<1>1. UNCHANGED <<pc, state, config, tracker_ready>>
    BY DEF Tracker!Arrive, Tracker!ctxVars
<1>2. /\ trk' \in Sessions /\ SessionKept(trk, trk') /\ trk'.update = trk.update
      /\ trk'.control = trk.control /\ trk'.count = trk.count
      /\ trk'.filter.tracker = trk.filter.tracker
      /\ trk'.filter.frame = "same" => trk.filter.tracker = store'.tracker
      /\ past' = [past EXCEPT !.unread = (trk'.filter.frame # "same")]
    BY ArriveFacts
<1>3. /\ past'.unread = (trk'.filter.frame # "same")
      /\ past'.near_run = past.near_run /\ past'.align_run = past.align_run
    <2>1. past' = [unread |-> (trk'.filter.frame # "same"), near_run |-> past.near_run,
                   align_run |-> past.align_run, ids |-> past.ids,
                   commit_age |-> past.commit_age]
        BY <1>2, HistoryWith DEF SessionInvariant, TypesHold
    <2> QED
        BY <2>1
<1>4. Steers' = Steers
    BY <1>1, <1>2 DEF Steers, Live, Tracker!Recent, SessionKept
<1>5. ReadIsTaken'
    BY <1>2, <1>3 DEF ReadIsTaken
<1>6. Passes(trk') = Passes(trk) /\ Aligns(trk') = Aligns(trk)
    BY <1>2 DEF Passes, Aligns
<1>7. RunsCover' /\ ReadyIsSeen'
    BY <1>1, <1>2, <1>3, <1>4, <1>6 DEF RunInvariant, RunsCover, ReadyIsSeen, SessionKept
<1> QED
    BY <1>5, <1>7 DEF RunInvariant

LEMMA ParameterKeepsRuns ==
    ASSUME SessionInvariant, SessionInvariant', RunInvariant, Tracker!ParameterChanged,
           TimeoutKept
    PROVE  RunInvariant'
<1>1. UNCHANGED <<pc, state, store, trk, tracker_ready, past>>
    BY DEF Tracker!ParameterChanged, Tracker!ctxVars
<1>2. Steers' => Steers
    <2>1. state \in {"hold", "track"}
        BY DEF SessionInvariant, TypesHold
    <2>2. Live' => Tracker!Recent(config')
        BY <1>1 DEF Live, Tracker!Recent
    <2>3. state = "track" /\ pc # "observe" /\ Live' => Live
        BY <2>2 DEF Live, TimeoutKept
    <2> QED
        BY <1>1, <2>1, <2>3 DEF Steers
<1>3. ReadIsTaken' /\ RunsCover' /\ ReadyIsSeen'
    BY <1>1, <1>2 DEF RunInvariant, ReadIsTaken, RunsCover, ReadyIsSeen
<1> QED
    BY <1>3 DEF RunInvariant

LEMMA ControlKeepsRuns ==
    ASSUME SessionInvariant, RunInvariant, Tracker!Control
    PROVE  RunInvariant' /\ Tracker!FramesAreCounted /\ Tracker!CommitFollowsRuns
<1>1. /\ pc = "control" /\ pc' = "observe" /\ UNCHANGED <<state, store, config>>
      /\ past' = IF trk'.phase = "COMMIT" /\ trk.phase # "COMMIT"
                 THEN [past EXCEPT !.commit_age = 0] ELSE past
    BY DEF Tracker!Control
<1>2. TypesHold /\ SessionOfState /\ CountsAreBelow /\ ReadIsTaken /\ RunsCover
    BY DEF SessionInvariant, RunInvariant
<1>3. /\ trk \in Sessions /\ trk' \in Sessions /\ state = "track" /\ ~trk.exit
      /\ trk'.filter = trk.filter /\ trk'.control = trk.control
      /\ trk'.update = trk.update /\ trk'.count = trk.count
    BY <1>1, <1>2, ControlFacts DEF TypesHold, SessionOfState
<1>4. /\ past'.unread = past.unread /\ past'.near_run = past.near_run
      /\ past'.align_run = past.align_run
    BY <1>1, <1>2, HistoryWith DEF TypesHold
<1>5. /\ trk.align_count \in Nat /\ trk.commit_count \in Nat
      /\ past.near_run \in Nat /\ past.align_run \in Nat
      /\ config.commit \in Nat /\ config.commit >= 1 /\ config.timeout \in Nat
    BY <1>2, <1>3, SessionFields, ConfigNumbers DEF TypesHold, Tracker!Valid
\* The session ends, or goes on in COMMIT.
<1>6. CASE /\ trk'.align_count = trk.align_count /\ trk'.commit_count = trk.commit_count
           /\ trk'.exit \/ trk'.phase = "COMMIT"
           /\ trk'.phase = "COMMIT" => trk.phase = "COMMIT"
    <2>1. ~Steers'
        BY <1>6 DEF Steers
    <2>2. RunInvariant'
        BY <1>1, <2>1 DEF RunInvariant, ReadIsTaken, RunsCover, ReadyIsSeen
    <2>3. Tracker!FramesAreCounted
        BY <1>5, <1>6 DEF Tracker!FramesAreCounted
    <2> QED
        BY <1>6, <2>2, <2>3 DEF Tracker!CommitFollowsRuns
\* The frame is counted.
<1>7. CASE /\ trk.phase # "COMMIT" /\ trk.control # None
           /\ ~(trk.control.age > config.timeout) /\ GatesPassed
    <2>1. Steers
        <3>1. trk.control.age \in Nat
            BY <1>3, <1>7, SessionFields DEF Sightings, Ages
        <3> QED
            BY <1>3, <1>5, <1>7, <3>1 DEF Steers, Live, Tracker!Recent
    <2>2. ReadIsTaken'
        BY <1>1, <1>2, <1>3, <1>4, <2>1 DEF ReadIsTaken
    <2>3. /\ trk.update.new =>
                /\ Passes(trk) => trk.commit_count < past.near_run
                /\ trk.phase = "ALIGN" /\ Aligns(trk) => trk.align_count < past.align_run
          /\ ~trk.update.new =>
                /\ trk.commit_count <= past.near_run
                /\ trk.phase = "ALIGN" => trk.align_count <= past.align_run
        BY <1>1, <1>2, <1>3, <2>1 DEF RunsCover
    <2>4. trk'.commit_count \in Nat /\ trk'.align_count \in Nat
        BY <1>3, SessionFields
    <2>5. /\ trk'.commit_count = 0 \/ trk'.commit_count <= past.near_run
          /\ trk'.commit_count > trk.commit_count => trk'.commit_count <= past.near_run
        BY <1>5, <1>7, <2>3, <2>4 DEF GatesPassed
    <2>6. /\ trk'.phase = "ALIGN" =>
                trk'.align_count = 0 \/ trk'.align_count <= past.align_run
          /\ trk'.align_count > trk.align_count => trk'.align_count <= past.align_run
        BY <1>5, <1>7, <2>3, <2>4 DEF GatesPassed
    <2>7. RunsCover' /\ ReadyIsSeen'
        <3>1. trk'.commit_count <= past'.near_run
            BY <1>4, <1>5, <2>5
        <3>2. trk'.phase = "ALIGN" => trk'.align_count <= past'.align_run
            BY <1>4, <1>5, <2>6
        <3> QED
            BY <1>1, <3>1, <3>2 DEF RunsCover, ReadyIsSeen
    <2>8. Tracker!FramesAreCounted
        BY <2>5, <2>6 DEF Tracker!FramesAreCounted
    <2>9. Tracker!CommitFollowsRuns
        <3>1. SUFFICES ASSUME trk'.phase = "COMMIT"
                       PROVE  /\ trk.phase = "TRACKING" \/ trk.control.sight.aligned
                              /\ past.near_run >= 1 /\ past.near_run >= config.commit
            BY DEF Tracker!CommitFollowsRuns
        <3>2. /\ trk.phase = "TRACKING" \/ Aligns(trk)
              /\ trk'.commit_count >= config.commit
            BY <3>1, <1>7 DEF GatesPassed
        <3>3. past.near_run >= 1 /\ past.near_run >= config.commit
            BY <1>5, <2>4, <2>5, <3>2
        <3> QED
            BY <3>2, <3>3 DEF Aligns
    <2> QED
        BY <2>2, <2>7, <2>8, <2>9 DEF RunInvariant
<1>8. CASE trk.phase = "COMMIT"
    <2>1. /\ trk'.phase = "COMMIT" /\ trk'.align_count = trk.align_count
          /\ trk'.commit_count = trk.commit_count
        BY <1>8, ControlFacts
    <2> QED
        BY <1>6, <1>8, <2>1
<1>9. CASE /\ trk.phase # "COMMIT" /\ trk'.exit /\ trk'.phase = trk.phase
           /\ trk'.align_count = trk.align_count /\ trk'.commit_count = trk.commit_count
    BY <1>6, <1>9
<1>10. CASE /\ trk.phase # "COMMIT" /\ trk.control # None
            /\ ~(trk.control.age > config.timeout)
            /\ trk' = Tracker!CommitStep(Tracker!AlignStep(trk))
    BY <1>7, <1>10, GateFacts
<1> QED
    BY <1>8, <1>9, <1>10, ControlFacts

LEMMA RunsInit ==
    ASSUME Tracker!Init
    PROVE  RunInvariant
<1>1. trk.count = 0 /\ state = "hold" /\ pc = "observe"
    BY DEF Tracker!Init, Tracker!NoTracking
<1> QED
    BY <1>1 DEF RunInvariant, ReadIsTaken, RunsCover, ReadyIsSeen

LEMMA RunsStep ==
    ASSUME SessionInvariant, RunsHold, Tracker!Next
    PROVE  RunsHold'
<1>1. SessionInvariant' /\ state \in {"hold", "track"}
    BY SessionStep DEF SessionInvariant, TypesHold
<1>2. CASE RunInvariant
    <2>1. CASE Tracker!LoopStep \/ Tracker!Arrive
        <3>1. RunInvariant'
            BY <1>1, <1>2, <2>1, ObserveKeepsRuns, EnterKeepsRuns, LeaveKeepsRuns, StayKeepsRuns,
               ControlKeepsRuns, ArriveKeepsRuns DEF Tracker!LoopStep
        <3> QED
            BY <3>1 DEF RunsHold
    <2>2. CASE Tracker!ParameterChanged /\ TimeoutKept
        <3>1. RunInvariant'
            BY <1>1, <1>2, <2>2, ParameterKeepsRuns
        <3> QED
            BY <3>1 DEF RunsHold
    <2>3. CASE Tracker!ParameterChanged /\ ~TimeoutKept
        <3>1. state' = "track" /\ stretched'
            BY <1>1, <2>3 DEF Tracker!ParameterChanged, TimeoutKept
        <3> QED
            BY <3>1 DEF RunsHold
    <2> QED
        BY <2>1, <2>2, <2>3 DEF Tracker!Next
<1>3. CASE state = "track" /\ stretched
    <2>1. CASE Tracker!LeaveTrack
        BY <2>1, LeaveKeepsRuns DEF RunsHold
    <2>2. CASE ~Tracker!LeaveTrack
        <3>1. state' = "track" /\ stretched'
            BY <1>3, <2>2 DEF Tracker!Next, Tracker!LoopStep, Tracker!Observe, Tracker!EnterTrack,
               Tracker!Stay, Tracker!Control, Tracker!Arrive, Tracker!ParameterChanged
        <3> QED
            BY <3>1 DEF RunsHold
    <2> QED
        BY <2>1, <2>2
<1> QED
    BY <1>2, <1>3 DEF RunsHold

LEMMA RunsStutter ==
    ASSUME RunsHold, UNCHANGED trackerVars
    PROVE  RunsHold'
BY DEF trackerVars, RunsHold, RunInvariant, ReadIsTaken, RunsCover, ReadyIsSeen, Steers, Live, Tracker!Recent

\* A commit begins from the tracking phase or by an aligned frame, in any session.
LEMMA ControlIsAligned ==
    ASSUME SessionInvariant, Tracker!Control, trk.phase # "COMMIT", trk'.phase = "COMMIT"
    PROVE  trk.phase = "TRACKING" \/ trk.control.sight.aligned
<1>1. /\ trk.control # None /\ ~(trk.control.age > config.timeout)
      /\ trk' = Tracker!CommitStep(Tracker!AlignStep(trk))
    BY ControlFacts
<1>2. GatesPassed
    BY <1>1, GateFacts
<1> QED
    BY <1>2 DEF GatesPassed, Aligns

\* Only an update counts a frame or commits.
LEMMA StepCounts ==
    ASSUME SessionInvariant, RunsHold, Tracker!Next
    PROVE  Tracker!FramesAreCounted /\ Tracker!CommitFollowsRuns
<1>1. /\ trk \in Sessions /\ trk.align_count \in Nat /\ trk.commit_count \in Nat
      /\ CommitHolds
    BY SessionFields DEF SessionInvariant, TypesHold
<1>2. CASE /\ trk'.align_count = trk.align_count \/ trk'.align_count = 0
           /\ trk'.commit_count = trk.commit_count \/ trk'.commit_count = 0
           /\ trk'.phase = "COMMIT" => trk.phase = "COMMIT"
    <2>1. ~(trk'.align_count > trk.align_count) /\ ~(trk'.commit_count > trk.commit_count)
        BY <1>1, <1>2
    <2> QED
        BY <1>2, <2>1 DEF Tracker!FramesAreCounted, Tracker!CommitFollowsRuns
<1>3. CASE Tracker!Observe
    <2>1. /\ trk'.align_count = trk.align_count /\ trk'.commit_count = trk.commit_count
          /\ trk'.phase = trk.phase
        BY <1>3, ObserveFacts DEF Outcome
    <2> QED
        BY <1>2, <2>1
<1>4. CASE Tracker!EnterTrack
    <2>1. trk'.align_count = 0 /\ trk'.commit_count = 0 /\ trk'.phase = "ALIGN"
        BY <1>1, <1>4, StartedSession DEF Tracker!EnterTrack
    <2> QED
        BY <1>2, <2>1
<1>5. CASE Tracker!LeaveTrack
    <2>1. trk'.align_count = 0 /\ trk'.commit_count = 0 /\ trk'.phase = "TRACKING"
        BY <1>1, <1>5, StoppedSession DEF Tracker!LeaveTrack
    <2> QED
        BY <1>2, <2>1
<1>6. CASE Tracker!Stay \/ Tracker!ParameterChanged
    <2>1. trk' = trk
        BY <1>6 DEF Tracker!Stay, Tracker!ParameterChanged
    <2> QED
        BY <1>2, <2>1
<1>7. CASE Tracker!Arrive
    <2>1. SessionKept(trk, trk')
        BY <1>7, ArriveFacts
    <2> QED
        BY <1>2, <2>1 DEF SessionKept
<1>8. CASE Tracker!Control /\ RunInvariant
    BY <1>8, ControlKeepsRuns
<1>9. CASE Tracker!Control /\ stretched
    BY <1>9, ControlIsAligned DEF Tracker!FramesAreCounted, Tracker!CommitFollowsRuns
<1> QED
    BY <1>3, <1>4, <1>5, <1>6, <1>7, <1>8, <1>9 DEF RunsHold, Tracker!Next, Tracker!LoopStep

----------------------------------------------------------------------------
(* The commands, of the lateral and of the vertical instance.                 *)

LateralProofs == INSTANCE TrackerCommands_proofs WITH
    config <- limits, Configs <- LateralConfigs, Errors <- LateralErrors,
    Speeds <- LateralSpeeds, Requests <- LateralRequests
VerticalProofs == INSTANCE TrackerCommands_proofs WITH
    config <- limits, Configs <- VerticalConfigs, Errors <- VerticalErrors,
    Speeds <- VerticalSpeeds, Requests <- VerticalRequests

CommandsHold ==
    IF subject = "vertical" THEN VerticalProofs!CommandsInvariant
    ELSE LateralProofs!CommandsInvariant

LEMMA CommandsAssumptions ==
    LateralProofs!CommandsAssumption /\ VerticalProofs!CommandsAssumption
<1>1. Lateral!CommandsAssumption /\ Vertical!CommandsAssumption
    BY InstancesAssumption
<1>2. LateralProofs!CommandsAssumption
    BY <1>1 DEF Lateral!CommandsAssumption, Lateral!Fields, Lateral!Consistent,
       LateralProofs!CommandsAssumption, LateralProofs!Fields, LateralProofs!Consistent
<1>3. VerticalProofs!CommandsAssumption
    BY <1>1 DEF Vertical!CommandsAssumption, Vertical!Fields, Vertical!Consistent,
       VerticalProofs!CommandsAssumption, VerticalProofs!Fields, VerticalProofs!Consistent
<1> QED
    BY <1>2, <1>3

\* The lateral instance makes the steps that are proved about.
LEMMA LateralUpdate == Lateral!Update => LateralProofs!Update
BY Zenon
   DEF Lateral!Clamp, Lateral!Magnitude, Lateral!Within, Lateral!Slewed, Lateral!Deadband,
       Lateral!Part, Lateral!PitchTarget, Lateral!PitchStep, Lateral!RollStep,
       Lateral!SpeedTarget, Lateral!Integrate, Lateral!AntiWindup, Lateral!Acceleration,
       Lateral!Vertical, Lateral!Update, LateralProofs!Clamp, LateralProofs!Magnitude,
       LateralProofs!Within, LateralProofs!Slewed, LateralProofs!Deadband,
       LateralProofs!Part, LateralProofs!PitchTarget, LateralProofs!PitchStep,
       LateralProofs!RollStep, LateralProofs!SpeedTarget, LateralProofs!Integrate,
       LateralProofs!AntiWindup, LateralProofs!Acceleration, LateralProofs!Vertical,
       LateralProofs!Update

LEMMA LateralNext == Lateral!Next => LateralProofs!Next
BY LateralUpdate
   DEF Lateral!Next, Lateral!Restart, Lateral!ConfigChange, Lateral!commands,
       Lateral!vertical, LateralProofs!Next, LateralProofs!Restart,
       LateralProofs!ConfigChange, LateralProofs!commands, LateralProofs!vertical

LEMMA LateralInit == Lateral!Init => LateralProofs!Init
BY DEF Lateral!Init, LateralProofs!Init

\* The vertical instance makes the steps that are proved about.
LEMMA VerticalUpdate == Vertical!Update => VerticalProofs!Update
BY Zenon
   DEF Vertical!Clamp, Vertical!Magnitude, Vertical!Within, Vertical!Slewed,
       Vertical!Deadband, Vertical!Part, Vertical!PitchTarget, Vertical!PitchStep,
       Vertical!RollStep, Vertical!SpeedTarget, Vertical!Integrate, Vertical!AntiWindup,
       Vertical!Acceleration, Vertical!Vertical, Vertical!Update, VerticalProofs!Clamp,
       VerticalProofs!Magnitude, VerticalProofs!Within, VerticalProofs!Slewed,
       VerticalProofs!Deadband, VerticalProofs!Part, VerticalProofs!PitchTarget,
       VerticalProofs!PitchStep, VerticalProofs!RollStep, VerticalProofs!SpeedTarget,
       VerticalProofs!Integrate, VerticalProofs!AntiWindup, VerticalProofs!Acceleration,
       VerticalProofs!Vertical, VerticalProofs!Update

LEMMA VerticalNext == Vertical!Next => VerticalProofs!Next
BY VerticalUpdate
   DEF Vertical!Next, Vertical!Restart, Vertical!ConfigChange, Vertical!commands,
       Vertical!vertical, VerticalProofs!Next, VerticalProofs!Restart,
       VerticalProofs!ConfigChange, VerticalProofs!commands, VerticalProofs!vertical

LEMMA VerticalInit == Vertical!Init => VerticalProofs!Init
BY DEF Vertical!Init, VerticalProofs!Init

LEMMA LateralMeaning ==
    /\ LateralProofs!MovesInwards => Lateral!MovesInwards
    /\ LateralProofs!IsSlewed => Lateral!IsSlewed
    /\ LateralProofs!WindsNoFurther => Vertical!WindsNoFurther
<1>1. LateralProofs!MovesInwards => Lateral!MovesInwards
    BY Zenon
       DEF LateralProofs!MovesInwards, LateralProofs!Outside, LateralProofs!Clamp,
           LateralProofs!Magnitude, Lateral!MovesInwards, Lateral!Outside, Lateral!Clamp,
           Lateral!Magnitude
<1>2. LateralProofs!IsSlewed => Lateral!IsSlewed
    BY Zenon
       DEF LateralProofs!IsSlewed, LateralProofs!Magnitude, Lateral!IsSlewed, Lateral!Magnitude
<1>3. LateralProofs!WindsNoFurther => Vertical!WindsNoFurther
    BY Zenon DEF LateralProofs!WindsNoFurther, Vertical!WindsNoFurther
<1> QED
    BY <1>1, <1>2, <1>3

LEMMA VerticalMeaning ==
    /\ VerticalProofs!MovesInwards => Lateral!MovesInwards
    /\ VerticalProofs!IsSlewed => Lateral!IsSlewed
    /\ VerticalProofs!WindsNoFurther => Vertical!WindsNoFurther
<1>1. VerticalProofs!MovesInwards => Lateral!MovesInwards
    BY Zenon
       DEF VerticalProofs!MovesInwards, VerticalProofs!Outside, VerticalProofs!Clamp,
           VerticalProofs!Magnitude, Lateral!MovesInwards, Lateral!Outside, Lateral!Clamp,
           Lateral!Magnitude
<1>2. VerticalProofs!IsSlewed => Lateral!IsSlewed
    BY Zenon
       DEF VerticalProofs!IsSlewed, VerticalProofs!Magnitude, Lateral!IsSlewed, Lateral!Magnitude
<1>3. VerticalProofs!WindsNoFurther => Vertical!WindsNoFurther
    BY Zenon DEF VerticalProofs!WindsNoFurther, Vertical!WindsNoFurther
<1> QED
    BY <1>1, <1>2, <1>3

LEMMA CommandsInit ==
    ASSUME Init
    PROVE  CommandsHold
<1>1. CASE subject = "vertical"
    <2>1. VerticalProofs!CommandsInvariant
        BY <1>1, VerticalInit, CommandsAssumptions, VerticalProofs!CommandsInit DEF Init
    <2> QED
        BY <1>1, <2>1 DEF CommandsHold
<1>2. CASE subject # "vertical"
    <2>1. LateralProofs!CommandsInvariant
        BY <1>2, LateralInit, CommandsAssumptions, LateralProofs!CommandsInit DEF Init
    <2> QED
        BY <1>2, <2>1 DEF CommandsHold
<1> QED
    BY <1>1, <1>2

\* Every step is one of the instance that a behaviour moves, or leaves the commands alone.
LEMMA CommandsStep ==
    ASSUME CommandsHold, [Next]_vars
    PROVE  /\ CommandsHold'
           /\ Lateral!MovesInwards /\ Lateral!IsSlewed /\ Vertical!WindsNoFurther
<1>1. subject' = subject
    BY DEF Next, TrackerMoves, CommandsMoves, Moves, vars
<1>2. CASE subject = "vertical"
    <2>1. Vertical!Next \/ UNCHANGED commandsVars
        BY <1>2 DEF Next, TrackerMoves, CommandsMoves, Moves, vars
    <2>2. [VerticalProofs!Next]_(VerticalProofs!vars)
        BY <2>1, VerticalNext DEF commandsVars, VerticalProofs!vars, VerticalProofs!commands,
           VerticalProofs!vertical
    <2>3. VerticalProofs!CommandsAssumption /\ VerticalProofs!CommandsInvariant
        BY <1>2, CommandsAssumptions DEF CommandsHold
    <2>4. VerticalProofs!CommandsInvariant'
        BY <2>2, <2>3, VerticalProofs!CommandsStep
    <2>5. VerticalProofs!MovesInwards /\ VerticalProofs!IsSlewed /\ VerticalProofs!WindsNoFurther
        BY <2>2, <2>3, VerticalProofs!StepMovesInwards, VerticalProofs!StepIsSlewed,
           VerticalProofs!StepWindsNoFurther
    <2> QED
        BY <1>1, <1>2, <2>4, <2>5, VerticalMeaning DEF CommandsHold
<1>3. CASE subject # "vertical"
    <2>1. Lateral!Next \/ UNCHANGED commandsVars
        BY <1>3 DEF Next, TrackerMoves, CommandsMoves, Moves, vars
    <2>2. [LateralProofs!Next]_(LateralProofs!vars)
        BY <2>1, LateralNext DEF commandsVars, LateralProofs!vars, LateralProofs!commands,
           LateralProofs!vertical
    <2>3. LateralProofs!CommandsAssumption /\ LateralProofs!CommandsInvariant
        BY <1>3, CommandsAssumptions DEF CommandsHold
    <2>4. LateralProofs!CommandsInvariant'
        BY <2>2, <2>3, LateralProofs!CommandsStep
    <2>5. LateralProofs!MovesInwards /\ LateralProofs!IsSlewed /\ LateralProofs!WindsNoFurther
        BY <2>2, <2>3, LateralProofs!StepMovesInwards, LateralProofs!StepIsSlewed,
           LateralProofs!StepWindsNoFurther
    <2> QED
        BY <1>1, <1>3, <2>4, <2>5, LateralMeaning DEF CommandsHold
<1> QED
    BY <1>2, <1>3

LEMMA CommandsAreSound ==
    ASSUME CommandsHold
    PROVE  /\ subject = "lateral" => Lateral!NeverBackward
           /\ subject = "vertical" => Vertical!TypeOK /\ Vertical!AccelerationIsPhysical
<1>1. ASSUME subject = "lateral"
      PROVE  Lateral!NeverBackward
    BY <1>1 DEF CommandsHold, LateralProofs!CommandsInvariant, LateralProofs!NeverBackward,
       Lateral!NeverBackward
<1>2. ASSUME subject = "vertical"
      PROVE  Vertical!TypeOK /\ Vertical!AccelerationIsPhysical
    BY <1>2 DEF CommandsHold, VerticalProofs!CommandsInvariant,
       VerticalProofs!AccelerationIsPhysical, VerticalProofs!Magnitude,
       Vertical!AccelerationIsPhysical, Vertical!TypeOK, Vertical!Magnitude
<1> QED
    BY <1>1, <1>2

----------------------------------------------------------------------------
(* The theorems.                                                              *)

LEMMA TrackerStep ==
    ASSUME [Next]_vars
    PROVE  Tracker!Next \/ UNCHANGED trackerVars
BY DEF Next, TrackerMoves, CommandsMoves, Moves, vars

LEMMA SessionStart == Init => SessionInvariant /\ RunsHold
BY SessionInit, RunsInit DEF Init, RunsHold

LEMMA SessionKeeps == SessionInvariant /\ [Next]_vars => SessionInvariant'
BY TrackerStep, SessionStep, SessionStutter

\* TRACK is entered only with a lock and a fresh vario, so that start_tracking does
\* not raise in the control loop, whatever the camera and the parameters do.
THEOREM StartIsSafe == Spec => []StartNeverRaises
<1>1. SessionInvariant => StartNeverRaises
    <2> SUFFICES ASSUME SessionInvariant PROVE StartNeverRaises
        OBVIOUS
    <2>2. trk \in Sessions /\ TypesHold /\ SessionOfState /\ ~raised
        BY DEF SessionInvariant, TypesHold
    <2>3. /\ trk.control = None \/ trk.control \in Sightings
          /\ trk.first \in Ages \cup {None} /\ trk.count \in Nat /\ trk.phase \in Phases
          /\ trk.deadline \in (0..CommitTime) \cup {None}
        BY <2>2, SessionFields, TrackerAssumptions
    <2>4. Tracker!TypeOK
        BY <2>2, <2>3 DEF TypesHold, SessionOfState, Observations, Sightings, Ages, Phases,
           Tracker!TypeOK, Tracker!Ages
    <2> QED
        BY <2>2, <2>4 DEF StartNeverRaises, Tracker!StartNeverRaises
<1> QED
    BY <1>1, SessionStart, SessionKeeps, PTL DEF Spec

\* A commit keeps its command to its end, whatever the camera shows.
THEOREM CommitIsFrozen == Spec => Tracker!CommitIsFrozen
<1>1. SessionInvariant /\ [Next]_vars => [Tracker!CommitLasts]_(Tracker!vars)
    BY TrackerStep, StepLasts DEF trackerVars, Tracker!vars, Tracker!ctxVars
<1> QED
    BY <1>1, SessionStart, SessionKeeps, PTL DEF Spec, Tracker!CommitIsFrozen

\* No frame counts twice and COMMIT is earned by the frames the configuration asks
\* for, whatever parameters change while a session runs, except in a session where
\* a longer time-out made an observation recent that observe had passed over.
THEOREM EarnedCommits == Spec => CommitIsEarned
<1>1. SessionInvariant /\ RunsHold /\ [Next]_vars => RunsHold'
    <2> SUFFICES ASSUME SessionInvariant, RunsHold, [Next]_vars
                 PROVE  RunsHold'
        OBVIOUS
    <2> QED
        BY TrackerStep, RunsStep, RunsStutter
<1>2. SessionInvariant /\ RunsHold /\ [Next]_vars =>
          /\ [Tracker!FramesAreCounted]_(Tracker!vars)
          /\ [Tracker!CommitFollowsRuns]_(Tracker!vars)
          /\ [Tracker!CommitLasts]_(Tracker!vars)
    BY TrackerStep, StepCounts, StepLasts DEF trackerVars, Tracker!vars, Tracker!ctxVars
<1> QED
    BY <1>1, <1>2, SessionStart, SessionKeeps, PTL
       DEF Spec, CommitIsEarned, Tracker!CountsDistinctFrames, Tracker!CommitIsEarned,
           Tracker!CommitIsFrozen

\* No command is backward, beyond its limits for good, or steeper than its slew limit,
\* and the vertical loop does not wind up.
THEOREM LimitedCommands == Spec => CommandsAreLimited
<1>1. Init => CommandsHold
    BY CommandsInit
<1>2. CommandsHold /\ [Next]_vars =>
          /\ CommandsHold'
          /\ Lateral!MovesInwards /\ Lateral!IsSlewed /\ Vertical!WindsNoFurther
    BY CommandsStep
<1>3. CommandsHold =>
          /\ subject = "lateral" => Lateral!NeverBackward
          /\ subject = "vertical" => Vertical!TypeOK /\ Vertical!AccelerationIsPhysical
    BY CommandsAreSound
<1> QED
    BY <1>1, <1>2, <1>3, PTL
       DEF Spec, CommandsAreLimited, Lateral!NeverFurtherOut, Lateral!StepsAreSlewed,
           Vertical!WindupFree
=============================================================================
