---------------------------- MODULE TrackerControl ----------------------------
(* The tracker controller (control/tracker_controller.py) as the flight loop *)
(* drives it in app.py: observe before the state machine resolves, start and *)
(* stop on entry and exit of TRACK, update once per iteration in TRACK.      *)
(* Camera results arrive on the receiver's thread and parameter changes on   *)
(* the MAVLink thread, between any two steps of the loop.                    *)
(*                                                                           *)
(* An observation is known by its sight, what the code computes of it:       *)
(*   box      "none" (unlocked or empty), "clipped" at an edge, or "clear"   *)
(*   jump     its scale departs from the filter's prediction                 *)
(*   aligned  both errors are inside the alignment gate                      *)
(*   near     every gate of the commit holds                                 *)
EXTENDS Integers

CONSTANTS
    Trackers,    \* tracker identities
    Sights,      \* what a camera frame may show
    Configs,     \* TrackerConfig snapshots a parameter change can produce
    LockHistory, CommitTime,   \* TTC_LOCK_S, TRK_COMMIT_S
    Steps,       \* the time that may pass in an iteration
    AgeCap,      \* bound: ages saturate, beyond every threshold
    RunCap,      \* bound: frame counts saturate, no less than every threshold
    None

Valid(c) == c.lock >= 2 /\ c.commit >= 1 /\ c.align >= 1

SightsAssumption == Sights \subseteq
    [box : {"none", "clipped", "clear"}, jump : BOOLEAN, aligned : BOOLEAN, near : BOOLEAN]
ConfigsAssumption ==
    /\ Configs \subseteq [lock : Nat, commit : Nat, align : Nat, timeout : Nat]
    /\ \E c \in Configs : Valid(c)
TrackerTimeAssumption ==
    /\ LockHistory \in Nat /\ CommitTime \in Nat /\ AgeCap \in Nat /\ RunCap \in Nat
    /\ Steps \subseteq Nat /\ Steps # {}
    /\ \A c \in Configs : c.timeout + LockHistory < AgeCap
    /\ CommitTime <= AgeCap
    /\ \A c \in Configs : c.lock <= RunCap /\ c.align <= RunCap /\ c.commit <= RunCap
NoneAssumption ==
    /\ None \notin Trackers /\ None \notin Sights /\ None \notin Nat
    /\ None \notin [sight : Sights, age : Nat]
    /\ None \notin [tracker : Trackers, sight : Sights, age : Nat]

VARIABLES
    pc,       \* next step of the loop: observe, resolve or control
    state,    \* "hold" or "track": does TRACK own the channels
    selected, \* request_rc.is_tracker_selected()
    fresh,    \* the altitude and vario sample is finite and recent
    store,    \* TrackerResultStore.latest_observation
    config,   \* TrackerController._config
    trk,      \* the controller's other fields
    tracker_ready, tracker_exit_requested,   \* ctx
    sent,     \* the result last returned: None for hover, or the sight it was computed from
    raised,   \* start_tracking raised
    stretched, \* history: of this session, see ParameterChanged
    past      \* history, read by no action

ctxVars == <<selected, fresh, tracker_ready, tracker_exit_requested>>
vars == <<pc, state, store, config, trk, ctxVars, sent, raised, stretched, past>>

Shorter(a, b) == IF a < b THEN a ELSE b
Aged(age, d) == Shorter(age + d, AgeCap)

----------------------------------------------------------------------------
(* OpticalTtcFilter.  `frame` relates the frame the filter took last to the  *)
(* one in the store: "none", "older", or "same" (the same or a later one).   *)

NoFilter == [scale |-> FALSE, frame |-> "none", tracker |-> None]
NoUpdate == [accepted |-> FALSE, new |-> FALSE, clipped |-> FALSE]

FilterFor(f, tracker) == IF f.tracker \in {None, tracker} THEN f ELSE NoFilter

Accepts(f, sight) == sight.box = "clear" /\ ~(f.scale /\ sight.jump)

\* A bug for CountsDistinctFrames: a frame the filter has seen is new again.
FilterStepRepeating(t, o) ==
    LET f == FilterFor(t.filter, o.tracker)
        ok == Accepts(f, o.sight)
    IN [t EXCEPT !.filter = [scale |-> f.scale \/ ok, frame |-> "same", tracker |-> o.tracker],
                 !.update = [accepted |-> ok, new |-> TRUE, clipped |-> o.sight.box = "clipped"]]

FilterStep(t, o) ==
    LET f == FilterFor(t.filter, o.tracker)
        ok == Accepts(f, o.sight)
    IN IF f.frame = "same"
       THEN [t EXCEPT !.filter = f, !.update = NoUpdate]
       ELSE [t EXCEPT
                !.filter = [scale |-> f.scale \/ ok, frame |-> "same", tracker |-> o.tracker],
                !.update = [accepted |-> ok, new |-> TRUE, clipped |-> o.sight.box = "clipped"]]

----------------------------------------------------------------------------
(* The controller.  `live` says that the latest valid observation is the one *)
(* in the store; `first` is the age of the first valid one.                  *)

ClearAcquisition(t) ==
    [t EXCEPT !.filter = NoFilter, !.live = FALSE, !.control = None, !.first = None,
              !.count = 0, !.ready = FALSE]

RequestExit(t) == [t EXCEPT !.exit = TRUE]

NoTracking ==
    [filter |-> NoFilter, update |-> NoUpdate, live |-> FALSE, control |-> None,
     first |-> None, count |-> 0, ready |-> FALSE, active |-> FALSE, exit |-> FALSE,
     completion |-> FALSE, phase |-> "TRACKING", align_count |-> 0, commit_count |-> 0,
     deadline |-> None, frozen |-> None]

\* Reset of the session; acquisition and filter stay.
Session(t, phase) ==
    [NoTracking EXCEPT !.filter = t.filter, !.update = t.update, !.live = t.live,
        !.control = t.control, !.first = t.first, !.count = t.count, !.phase = phase]

\* observe, behind its early returns: one observation through filter and counts.
Evaluate(t, o) ==
    LET s == FilterStep(IF o.sight.box = "none" THEN t
                        ELSE [t EXCEPT !.control = [sight |-> o.sight, age |-> o.age]], o)
        counted == IF s.update.accepted
                   THEN [s EXCEPT !.live = TRUE, !.count = Shorter(@ + 1, RunCap),
                                  !.first = IF @ = None THEN o.age ELSE @]
                   ELSE s
    IN IF t.active THEN counted
       ELSE IF s.update.new /\ ~s.update.accepted THEN ClearAcquisition(s)
       ELSE [counted EXCEPT !.ready =
                /\ counted.live
                /\ counted.count >= config.lock
                /\ counted.first # None /\ counted.first - o.age >= LockHistory]

Observed(t, o, mode_selected) ==
    CASE ~mode_selected -> IF t.active THEN RequestExit(t) ELSE ClearAcquisition(t)
      [] mode_selected /\ t.phase = "COMMIT" -> t
      [] mode_selected /\ t.phase # "COMMIT" /\ (o = None \/ o.age > config.timeout) ->
            IF t.active THEN t ELSE ClearAcquisition(t)
      [] OTHER -> Evaluate(t, o)

Started(t) == [Session(t, "ALIGN") EXCEPT !.active = TRUE]
Stopped(t) == ClearAcquisition(Session(t, "TRACKING"))

\* _control: the alignment gate, then the commit gate, in one update.
AlignStep(t) ==
    LET n == IF t.update.accepted /\ t.control.sight.aligned THEN t.align_count + 1 ELSE 0
    IN IF t.phase # "ALIGN" \/ ~t.update.new THEN t
       ELSE [t EXCEPT !.align_count = n,
                      !.phase = IF n >= config.align THEN "TRACKING" ELSE @]

CommitStep(t) ==
    LET passes == t.control.sight.near /\ (t.update.accepted \/ t.update.clipped)
        n == IF t.phase # "TRACKING" \/ ~t.update.new THEN t.commit_count
             ELSE IF passes THEN t.commit_count + 1 ELSE 0
    IN IF n >= config.commit
       THEN [t EXCEPT !.commit_count = n, !.phase = "COMMIT", !.deadline = CommitTime,
                      !.frozen = t.control.sight]
       ELSE [t EXCEPT !.commit_count = n]

\* A bug for CommitIsFrozen: a commit goes on steering by the camera.
UpdatedSteering(t) ==
    CASE t.phase = "COMMIT" /\ t.deadline = 0 -> [RequestExit(t) EXCEPT !.completion = TRUE]
      [] t.phase = "COMMIT" /\ t.deadline # 0 ->
            IF store = None THEN t ELSE [t EXCEPT !.frozen = store.sight]
      [] t.phase # "COMMIT" /\ (~fresh \/ t.control = None) -> RequestExit(t)
      [] t.phase # "COMMIT" /\ fresh /\ t.control # None ->
            IF t.control.age > config.timeout THEN RequestExit(t) ELSE CommitStep(AlignStep(t))

\* A bug for DeadCameraLeavesTrack: an aged observation is flown on.
UpdatedUntimed(t) ==
    CASE t.phase = "COMMIT" -> IF t.deadline > 0 THEN t
                               ELSE [RequestExit(t) EXCEPT !.completion = TRUE]
      [] t.phase # "COMMIT" /\ (~fresh \/ t.control = None) -> RequestExit(t)
      [] OTHER -> CommitStep(AlignStep(t))

Updated(t) ==
    CASE t.phase = "COMMIT" -> IF t.deadline > 0 THEN t
                               ELSE [RequestExit(t) EXCEPT !.completion = TRUE]
      [] t.phase # "COMMIT" /\ (~fresh \/ t.control = None) -> RequestExit(t)
      [] t.phase # "COMMIT" /\ fresh /\ t.control # None ->
            IF t.control.age > config.timeout THEN RequestExit(t) ELSE CommitStep(AlignStep(t))

Result(before, after) ==
    CASE before.phase = "COMMIT" -> after.frozen
      [] before.phase # "COMMIT" /\ (~fresh \/ before.control = None) -> None
      [] OTHER -> IF before.control.age > config.timeout THEN None ELSE before.control.sight

----------------------------------------------------------------------------
Init ==
    /\ pc = "observe" /\ state = "hold" /\ store = None
    /\ config \in {c \in Configs : Valid(c)}
    /\ trk = NoTracking
    /\ selected = FALSE /\ fresh = FALSE
    /\ tracker_ready = FALSE /\ tracker_exit_requested = FALSE
    /\ sent = None /\ raised = FALSE /\ stretched = FALSE
    /\ past = [unread |-> FALSE, near_run |-> 0, align_run |-> 0,
               ids |-> {}, commit_age |-> 0]

\* Everything that has an age grows older by d.
Older(x, d) == IF x = None THEN None ELSE [x EXCEPT !.age = Aged(@, d)]
AgedTracker(t, d) ==
    [t EXCEPT !.control = Older(@, d),
              !.first = IF @ = None THEN None ELSE Aged(@, d),
              !.deadline = IF @ = None THEN None ELSE IF @ > d THEN @ - d ELSE 0]
AgedStore(d) == Older(store, d)

\* A history of the frames the loop has read, whatever the controller makes of them.
FrameHistory(o, t) ==
    LET seen == past.unread /\ o # None
        Run(n, hit) == IF ~seen THEN n ELSE IF hit THEN Shorter(n + 1, RunCap) ELSE 0
    IN [past EXCEPT
          !.unread = IF o = None THEN @ ELSE FALSE,
          !.near_run = Run(@, o.sight.near /\ o.sight.box # "none"),
          !.align_run = Run(@, o.sight.aligned /\ o.sight.box = "clear"),
          !.ids = CASE t.count = 0 -> {}
                    [] t.count # 0 /\ t.update.accepted -> @ \cup {o.tracker}
                    [] OTHER -> @]

\* _prepare_controllers: one iteration's inputs, observe, and readiness.
Observe ==
    /\ pc = "observe"
    /\ \E d \in Steps :
        LET o == AgedStore(d)
            t == AgedTracker(trk, d)
        IN /\ selected' \in BOOLEAN /\ fresh' \in BOOLEAN
           /\ store' = o
           /\ trk' = Observed(t, o, selected')
           /\ past' = [FrameHistory(o, trk') EXCEPT !.commit_age = Aged(@, d)]
    /\ tracker_ready' = (trk'.ready /\ fresh')
    /\ tracker_exit_requested' = (tracker_exit_requested /\ state = "track")
    /\ pc' = "resolve"
    /\ UNCHANGED <<state, config, sent, raised, stretched>>

\* A bug for StartNeverRaises: entry on the controller's readiness alone.
EnterTrackingUnfresh == selected /\ trk.ready
\* The guard of ALT_HOLD to TRACK, the pilot's request apart; and that of the way back.
EnterTracking == selected /\ tracker_ready
ExitTracking == tracker_exit_requested \/ ~selected

\* ALT_HOLD to TRACK: _handle_before_state_changed calls start_tracking.
EnterTrack ==
    /\ pc = "resolve" /\ state = "hold" /\ EnterTracking
    /\ raised' = (raised \/ ~trk.ready \/ ~fresh)
    /\ trk' = Started(trk)
    /\ state' = "track"
    /\ tracker_ready' = FALSE /\ tracker_exit_requested' = FALSE
    /\ pc' = "control"
    /\ UNCHANGED <<store, config, selected, fresh, sent, stretched, past>>

\* TRACK to FAILSAFE or MANUAL by the pilot, to ALT_HOLD on an exit request.
LeaveTrack ==
    /\ pc = "resolve" /\ state = "track"
    /\ trk' = Stopped(trk)
    /\ state' = "hold" /\ stretched' = FALSE
    /\ tracker_ready' = FALSE /\ tracker_exit_requested' = FALSE
    /\ pc' = "observe"
    /\ UNCHANGED <<store, config, selected, fresh, sent, raised, past>>

\* No transition: the pilot asked for nothing and no exit is due.
Stay ==
    /\ pc = "resolve"
    /\ state = "hold" \/ ~ExitTracking
    /\ pc' = IF state = "track" THEN "control" ELSE "observe"
    /\ UNCHANGED <<state, store, config, trk, ctxVars, sent, raised, stretched, past>>

\* tracker_handler.
Control ==
    /\ pc = "control"
    /\ trk' = Updated(trk)
    /\ sent' = Result(trk, trk')
    /\ tracker_exit_requested' = trk'.exit
    /\ past' = IF trk'.phase = "COMMIT" /\ trk.phase # "COMMIT"
               THEN [past EXCEPT !.commit_age = 0] ELSE past
    /\ pc' = "observe"
    /\ UNCHANGED <<state, store, config, selected, fresh, tracker_ready, raised, stretched>>

\* A result reaches the store.  The filter's last frame is older, unless the
\* result is of a tracker that was replaced in between and lags behind it.
FrameRelation(o) ==
    IF trk.filter.frame = "none" THEN {"none"}
    ELSE IF store # None /\ store.tracker # o.tracker /\ trk.filter.tracker = o.tracker
    THEN {"older", "same"} ELSE {"older"}

Arrive ==
    /\ \E tracker \in Trackers, sight \in Sights :
        LET o == [tracker |-> tracker, sight |-> sight, age |-> 0]
        IN /\ store' = o
           /\ \E frame \in FrameRelation(o) :
                trk' = [trk EXCEPT !.filter.frame = frame, !.live = FALSE]
    /\ past' = [past EXCEPT !.unread = trk'.filter.frame # "same"]
    /\ UNCHANGED <<pc, state, config, ctxVars, sent, raised, stretched>>

\* A bug for CommitIsEarned: a parameter change is taken over unchecked.
AcceptConfigUnchecked(c) == c
\* on_parameter_changed: from_parameters raises for an invalid combination.
AcceptConfig(c) == IF Valid(c) THEN c ELSE config

\* The session is stretched when a change, between an observe and its update, lets
\* the update fly by an observation that had become too old before.
Recent(c) == trk.control # None /\ trk.control.age <= c.timeout

ParameterChanged ==
    /\ \E c \in Configs : config' = AcceptConfig(c)
    /\ stretched' = (stretched \/ (state = "track" /\ pc # "observe"
                                      /\ ~Recent(config) /\ Recent(config')))
    /\ UNCHANGED <<pc, state, store, trk, ctxVars, sent, raised, past>>

LoopStep == Observe \/ EnterTrack \/ LeaveTrack \/ Stay \/ Control
Next == LoopStep \/ Arrive \/ ParameterChanged

Spec == Init /\ [][Next]_vars
\* The loop keeps running; a transition that is due is taken, since Stay is not
\* possible then.
FairSpec == Spec /\ WF_vars(LoopStep)

----------------------------------------------------------------------------
Ages == 0..AgeCap
TypeOK ==
    /\ pc \in {"observe", "resolve", "control"} /\ state \in {"hold", "track"}
    /\ config \in Configs
    /\ {selected, fresh, tracker_ready, tracker_exit_requested, raised} \subseteq BOOLEAN
    /\ store = None \/ store \in [tracker : Trackers, sight : Sights, age : Ages]
    /\ trk.control = None \/ trk.control \in [sight : Sights, age : Ages]
    /\ trk.first \in Ages \cup {None} /\ trk.count \in Nat
    /\ trk.phase \in {"ALIGN", "TRACKING", "COMMIT"}
    /\ trk.deadline \in (0..CommitTime) \cup {None}
    /\ trk.active = (state = "track")

\* start_tracking raises when it is called without a lock or without a fresh
\* vario, which would end the control loop in flight; its caller never does
\* (app.py 581-586 and sm.py 241-250 against tracker_controller.py 526-533).
StartNeverRaises == ~raised

\* Re-reading a camera frame at the faster loop rate advances neither the
\* alignment nor the commit count: an advanced count is at most the run of
\* distinct frames that passed its gate (tracker_controller.py 722-734, 943-947).
\* Not so in a session in which a longer time-out arrived between an observe that
\* passed over an old frame and the update, which then counts its verdict again.
FramesAreCounted ==
    ~stretched =>
        /\ trk'.align_count > trk.align_count => trk'.align_count <= past.align_run
        /\ trk'.commit_count > trk.commit_count => trk'.commit_count <= past.near_run
CountsDistinctFrames == [][FramesAreCounted]_vars

\* COMMIT, in which vision is ignored, is entered only by a session that saw an
\* aligned frame and then, but for such a longer time-out, as long a run of near
\* ones as the parameters then in force ask for, whatever they were before
\* (tracker_controller.py 423-430, 943-948, 999-1003).
CommitFollowsRuns ==
    trk.phase # "COMMIT" /\ trk'.phase = "COMMIT" =>
        /\ trk.phase = "TRACKING" \/ trk.control.sight.aligned
        /\ stretched \/ (past.near_run >= 1 /\ past.near_run >= config.commit)
CommitIsEarned == [][CommitFollowsRuns]_vars

\* Neither a new camera frame nor a stale vario changes the command of a commit,
\* and the commit is reported complete only when it lasted its whole time
\* (tracker_controller.py 667-674).
CommitLasts ==
    trk.phase = "COMMIT" /\ trk'.phase = "COMMIT" =>
        /\ sent' = sent
        /\ trk'.completion => trk.completion \/ past.commit_age >= CommitTime
CommitIsFrozen == [][CommitLasts]_vars

\* When the camera falls silent the vehicle leaves TRACK, from every phase:
\* nothing but new frames can keep it there (tracker_controller.py 668, 693).
DeadCameraLeavesTrack == []<><<Arrive>>_vars \/ []<>(state = "hold")

----------------------------------------------------------------------------
(* Statements of the repository's documents and comments.                   *)

\* tracker_ttc_controller.md 217: "A new tracker ID resets acquisition and the
\* filter", so the frames of a lock are of one tracker.
LockIsOfOneTracker ==
    trk.ready => \A a, b \in past.ids : a = b

\* tracker_controller_flow.md 100: "Re-reading the same frame at the faster
\* application-loop rate does not increase the count".
RereadDoesNotCount ==
    [][Observe /\ ~past.unread /\ trk'.count > trk.count => FALSE]_vars

\* tracker_controller.py 617-618: "A duplicate frame may reuse the previous
\* estimate, but it cannot advance alignment or commit counters".
DuplicateNeverAdvances ==
    [][trk'.commit_count > trk.commit_count => trk'.commit_count <= past.near_run]_vars
=============================================================================
