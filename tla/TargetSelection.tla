-------------------------- MODULE TargetSelection --------------------------
(* The pilot's target selector: the control loop integrates the sticks into  *)
(* a reticle and publishes its position and state in every iteration         *)
(* (TargetSelectorPublisher), a thread of the video process keeps the newest *)
(* valid command (ZmqSelectorSubscriber), and the main thread of that        *)
(* process applies it to the tracker backend when it differs from what it    *)
(* applied last (run_pipeline), while the streaming thread selects a target  *)
(* from each frame (YoloSelectionState).                                     *)
(*                                                                           *)
(* One image axis stands for both, in units of the reticle's steps.          *)
EXTENDS Integers, Sequences

CONSTANTS
    Setups,     \* how the two processes may be configured, see below
    POLL,       \* ticks between two looks of the main thread, at most
    HWM         \* commands ZeroMQ holds between the two sockets

\* backend: "controlled_red", "cpu_nano" or "cpu_yolo"; frame: width of the image;
\* size: first size of the reticle; max_size: its largest (bound; the code has none);
\* resizable: the size sticks are used; stamps: time stamps a command may have;
\* objects: places where the detector may see one; max_age: ticks of command_timeout_s.
ConstantsAssumption ==
    /\ \A s \in Setups :
         /\ s.backend \in {"controlled_red", "cpu_nano", "cpu_yolo"}
         /\ s.frame \in Nat \ {0} /\ s.max_size \in Nat \ {0} /\ s.size \in 1..s.max_size
         /\ s.resizable \in BOOLEAN /\ s.stamps \subseteq Nat /\ 0 \in s.stamps
         /\ s.objects \subseteq 0..s.frame - 1 /\ s.max_age \in Nat
    /\ POLL \in Nat \ {0} /\ HWM \in Nat \ {0}

\* TargetSelectorState.
DISABLED == 0
SELECTING == 1
LOCKED == 2

VARIABLES
    setup,         \* of this start of the two processes
    mode,          \* of the flight state machine: "ALT_HOLD", "TRACK" or "other"
    center, width, \* TargetSelectorPublisher
    wire,
    latest, age,   \* ZmqSelectorSubscriber, ticks since the reception
    applied,       \* run_pipeline.applied_selector
    since_poll,
    caps,          \* the sink pad has its caps
    enabled,       \* properties of the backend
    box,           \* what it was last given: roi, reticle or center
    target,        \* the object YoloSelectionState follows
    followed,      \* history: the first one of this TRACK
    reticle        \* DetectionOverlayState._selector is set

app_vars == <<mode, center, width>>
backend_vars == <<enabled, box, target, reticle>>
vars == <<setup, app_vars, wire, latest, age, applied, since_poll, caps, backend_vars, followed>>

NoCommand == [x |-> 0, w |-> 0, state |-> -1, stamp |-> 0]
NoBox == [x |-> 0, w |-> 0]
NoTarget == -1

Init ==
    /\ setup \in Setups
    /\ mode = "other" /\ center = setup.frame \div 2 /\ width = setup.size
    /\ wire = <<>> /\ latest = NoCommand /\ age = 0
    /\ applied = NoCommand /\ since_poll = 0 /\ caps = FALSE
    /\ enabled = FALSE /\ box = NoBox /\ target = NoTarget /\ followed = NoTarget /\ reticle = FALSE

----------------------------------------------------------------------------
(* The application.                                                          *)

Clamp(low, high, n) == IF n < low THEN low ELSE IF n > high THEN high ELSE n

\* _update_target_selector: in ALT_HOLD the tracker switches decide.
SelectorStates ==
    CASE mode = "TRACK" -> {LOCKED}
      [] mode = "ALT_HOLD" -> {DISABLED, SELECTING, LOCKED}
      [] OTHER -> {DISABLED}

\* update: only a selecting pilot moves the reticle.
Moved(state, stick) ==
    CASE state = DISABLED -> setup.frame \div 2
      [] state = SELECTING -> Clamp(0, setup.frame, center + stick)
      [] OTHER -> center

Resized(state, direction) ==
    IF state = SELECTING THEN Clamp(1, setup.max_size, width + direction) ELSE width

\* The state machine behind the update: TRACK is entered with the enable switch
\* high and centered sticks.
ModeFollows(state, stick) ==
    \/ mode' = "TRACK" /\ mode = "ALT_HOLD" /\ state = LOCKED /\ stick = 0
    \/ mode' = "TRACK" /\ mode = "TRACK"
    \/ mode' \in {"ALT_HOLD", "other"}

\* An iteration of the control loop.  The socket drops what it cannot hold, and
\* what it is given before the peer is connected.
Update ==
    \E state \in SelectorStates, dropped \in BOOLEAN, stamp \in setup.stamps,
       stick \in -1..1, direction \in IF setup.resizable THEN -1..1 ELSE {0} :
        LET command == [x |-> center', w |-> width', state |-> state, stamp |-> stamp]
        IN  /\ center' = Moved(state, stick)
            /\ width' = Resized(state, direction)
            /\ ModeFollows(state, stick)
            /\ wire' = IF dropped \/ Len(wire) >= HWM THEN wire ELSE Append(wire, command)
            /\ followed' = IF mode' = "TRACK" THEN followed ELSE NoTarget
            /\ UNCHANGED <<setup, latest, age, applied, since_poll, caps, backend_vars>>

----------------------------------------------------------------------------
(* The subscriber's thread.                                                  *)

\* An invalid payload is dropped.
Receive ==
    /\ wire # <<>>
    /\ wire' = Tail(wire)
    /\ \/ latest' = Head(wire) /\ age' = 0
       \/ UNCHANGED <<latest, age>>
    /\ UNCHANGED <<setup, app_vars, applied, since_poll, caps, backend_vars, followed>>

\* The main thread looks in time (bus.timed_pop_filtered).
Tick ==
    /\ since_poll < POLL /\ latest # NoCommand
    /\ since_poll' = since_poll + 1
    /\ age' = Clamp(0, setup.max_age + POLL + 1, age + 1)
    /\ UNCHANGED <<setup, app_vars, wire, latest, applied, caps, backend_vars, followed>>

\* A bug for StaleMeansDisabled: the newest command, whatever its age.
LatestAnyAge == latest

\* latest: a stale command is answered by one that disables, without a size.
Latest ==
    IF age <= setup.max_age \/ latest = NoCommand
    THEN latest
    ELSE [latest EXCEPT !.w = 0, !.state = DISABLED, !.stamp = 0]

----------------------------------------------------------------------------
(* The video process.                                                        *)

Negotiate ==
    /\ ~caps /\ caps' = TRUE
    /\ UNCHANGED <<setup, app_vars, wire, latest, age, applied, since_poll, backend_vars, followed>>

\* round, half to even, of n / 2.
RoundedHalf(n) ==
    IF n % 2 = 0 THEN n \div 2
    ELSE LET low == n \div 2 IN IF low % 2 = 0 THEN low ELSE low + 1

\* A bug for BoxInFrame: the size is not limited to the frame's.
RoiBoxOfAnySize(c) == [x |-> Clamp(0, setup.frame - c.w, RoundedHalf(2 * c.x - c.w)), w |-> c.w]

\* The command's box in the frame.
RoiBox(c) ==
    LET w == IF c.w < setup.frame THEN c.w ELSE setup.frame
    IN  [x |-> Clamp(0, setup.frame - w, RoundedHalf(2 * c.x - w)), w |-> w]

\* A bug for PilotIsObeyed: a command that has to wait counts as applied.
AppliesAlways(c) == TRUE

\* What _apply_selector_command returns.
Applies(c) == setup.backend = "controlled_red" \/ c.state = DISABLED \/ caps

\* _apply_selector_command.
Apply(c) ==
    CASE setup.backend = "controlled_red" ->
            /\ enabled' = (c.state # DISABLED)
            /\ box' = [x |-> c.x, w |-> 0]
            /\ UNCHANGED <<target, reticle>>
      [] setup.backend # "controlled_red" /\ c.state = DISABLED ->
            /\ enabled' = FALSE /\ target' = NoTarget /\ reticle' = FALSE
            /\ UNCHANGED box
      [] OTHER ->
            /\ enabled' = (c.state = LOCKED)
            /\ box' = RoiBox(c) /\ target' = NoTarget
            /\ reticle' = (c.state # LOCKED)

\* A bug for LockIsNotRearmed: every message is a new command.
KeyWithStamp(c) == c

\* selector_key.
Key(c) == [c EXCEPT !.stamp = 0]

\* One round of the loop of run_pipeline.
Poll ==
    /\ since_poll' = 0
    /\ IF Latest # NoCommand /\ Key(Latest) # applied /\ Applies(Latest)
       THEN /\ IF setup.backend = "controlled_red" \/ Latest.state = DISABLED \/ caps
               THEN Apply(Latest)
               ELSE UNCHANGED backend_vars
            /\ applied' = Key(Latest)
       ELSE UNCHANGED <<applied, backend_vars>>
    /\ UNCHANGED <<setup, app_vars, wire, latest, age, caps, followed>>

InBox(o) == box.x <= o /\ o < box.x + box.w

\* YoloSelectionState.select, when it is armed: the first target is one in the
\* reticle, the next ones are the same object again (module YoloSelection).
Frame ==
    /\ setup.backend = "cpu_yolo" /\ enabled
    /\ \E seen \in SUBSET setup.objects :
           target' \in IF target # NoTarget THEN {target}
                       ELSE IF \E o \in seen : InBox(o) THEN {o \in seen : InBox(o)}
                       ELSE {NoTarget}
    /\ followed' = IF mode = "TRACK" /\ followed = NoTarget THEN target' ELSE followed
    /\ UNCHANGED <<setup, app_vars, wire, latest, age, applied, since_poll, caps, enabled, box, reticle>>

----------------------------------------------------------------------------

Next == Update \/ Receive \/ Tick \/ Negotiate \/ Poll \/ Frame

Spec == Init /\ [][Next]_vars

\* The pilot keeps the lock in ALT_HOLD, and the socket takes what it can hold.
HoldLocked ==
    /\ Update /\ mode = "ALT_HOLD" /\ mode' = "ALT_HOLD"
    /\ wire = <<>> => wire' # <<>> /\ wire'[1].state = LOCKED

\* From some time on he does, and commands come in time and are valid.
Settles ==
    /\ <>[](mode = "ALT_HOLD" /\ age <= setup.max_age)
    /\ <>[][Update => HoldLocked]_vars /\ <>[][Receive => latest' = Head(wire)]_vars

\* The loop of the application, the subscriber's thread and the main thread run,
\* and caps are negotiated with the first frame.
FairSpec ==
    /\ Spec /\ WF_vars(HoldLocked) /\ WF_vars(Receive) /\ WF_vars(Poll) /\ WF_vars(Negotiate)

----------------------------------------------------------------------------

Commands == [x : 0..setup.frame, w : 0..setup.max_size, state : -1..2, stamp : setup.stamps]

TypeOK ==
    /\ setup \in Setups /\ mode \in {"ALT_HOLD", "TRACK", "other"}
    /\ center \in 0..setup.frame /\ width \in 1..setup.max_size
    /\ wire \in Seq(Commands) /\ Len(wire) <= HWM
    /\ {latest, applied} \subseteq Commands /\ age \in 0..setup.max_age + POLL + 1
    /\ since_poll \in 0..POLL /\ caps \in BOOLEAN
    /\ enabled \in BOOLEAN /\ box \in [x : 0..setup.frame, w : 0..setup.max_size]
    /\ {target, followed} \subseteq setup.objects \cup {NoTarget} /\ reticle \in BOOLEAN

\* Whatever the pilot does to its position and its size, the reticle that
\* reaches the backend lies in the image and is not empty.
BoxInFrame ==
    box # NoBox /\ setup.backend # "controlled_red" =>
        box.w > 0 /\ box.x >= 0 /\ box.x + box.w <= setup.frame

\* Without commands the backend is disabled after command_timeout_s and one
\* round of the main thread (red_detection_zmq_flow.md:21).
StaleMeansDisabled == age > setup.max_age + POLL => ~enabled

\* A repeated command starts no new selection: a target is dropped only with
\* the lock, or with a reticle that has moved.
LockIsNotRearmed ==
    [][target # NoTarget /\ target' = NoTarget =>
        <<applied'.x, applied'.w, applied'.state>> # <<applied.x, applied.w, applied.state>>]_vars

\* The last command is idempotent: when the pilot keeps a lock, the backend gets
\* it, though any of the commands may be dropped or have come too early.
PilotIsObeyed == Settles => <>[](enabled /\ applied.state = LOCKED)

\* target_selector.md:30 of TRACK: association "does not automatically return to
\* reticle selection until the application returns to ALT_HOLD".
TrackKeepsTarget == followed # NoTarget /\ target # NoTarget => target = followed

=============================================================================
