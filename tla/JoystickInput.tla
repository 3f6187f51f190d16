--------------------------- MODULE JoystickInput ---------------------------
(* The pilot's intent as the application sees it: one immutable snapshot of *)
(* the joystick channels (common/joystick.py) and the event handlers of     *)
(* app.py that publish it to the context.  A channel is kept at the         *)
(* precision the guards of sm.py and the controllers tell apart.            *)
EXTENDS Integers

CONSTANTS
    Requests,   \* the valid snapshots the pilot can send
    Invalid     \* an RC message InternalJoystick.from_channels refuses

RC_MIN == 1000
RC_MID == 1500
RC_MAX == 2000
LOW_THROTTLE_THRESHOLD == 1050

Snapshots ==
    [arm : BOOLEAN,               \* SE at RC_MAX
     manual : BOOLEAN,            \* SA at RC_MIN
     auto_takeoff : BOOLEAN,      \* SD at RC_MAX
     throttle : RC_MIN..RC_MAX,
     tracker : BOOLEAN,           \* SB at TRACKER1 or TRACKER2
     tracker_enable : {"low", "mid", "high"},   \* SF
     centered : BOOLEAN]          \* roll and pitch within 35 of RC_MID

ASSUME RequestsAssumption == Requests \subseteq Snapshots
ASSUME InvalidAssumption == Invalid \notin Snapshots

\* InternalJoystick(): every switch at RC_MIN, which *selects* manual mode.
DefaultRequest ==
    [arm |-> FALSE, manual |-> TRUE, auto_takeoff |-> FALSE,
     throttle |-> RC_MIN, tracker |-> FALSE, tracker_enable |-> "low",
     centered |-> TRUE]

IsThrottleLow(r) == r.throttle < LOW_THROTTLE_THRESHOLD

----------------------------------------------------------------------------
(* Listener events.  "none" fills an empty slot of a batch.                 *)

NoEvent == [kind |-> "none"]
Timeout == [kind |-> "timeout"]
Resume  == [kind |-> "resume"]
Failure == [kind |-> "failure"]
RcEvent(r) == [kind |-> "rc", request |-> r]
RcEvents == {RcEvent(r) : r \in Requests \cup {Invalid}}

Intents == [request : Snapshots, fail_safe : BOOLEAN]

\* _enter_joystick_failsafe: stale intent is replaced, never kept.
FailSafeIntent == [request |-> DefaultRequest, fail_safe |-> TRUE]

\* A bug for TypeOK: an RC message is published before it is validated.
HandleUnvalidated(intent, event) ==
    CASE event.kind = "none" -> intent
      [] event.kind = "resume" -> [intent EXCEPT !.fail_safe = FALSE]
      [] event.kind \in {"timeout", "failure"} -> FailSafeIntent
      [] event.kind = "rc" -> [intent EXCEPT !.request = event.request]

\* One callback of App on one event.  A valid RC message leaves the fail-safe
\* flag alone: only a resume clears it.
Handle(intent, event) ==
    CASE event.kind = "none" -> intent
      [] event.kind = "resume" -> [intent EXCEPT !.fail_safe = FALSE]
      [] event.kind \in {"timeout", "failure"} -> FailSafeIntent
      [] event.kind = "rc" ->
            IF event.request = Invalid
            THEN FailSafeIntent
            ELSE [intent EXCEPT !.request = event.request]

\* A bug for LostMeansNeutral: the slots are dispatched newest first.
HandleBatchReversed(intent, batch) ==
    Handle(Handle(Handle(intent, batch[3]), batch[2]), batch[1])

\* dispatch_pending: at most three retained events, oldest first.
HandleBatch(intent, batch) ==
    Handle(Handle(Handle(intent, batch[1]), batch[2]), batch[3])
=============================================================================
