---------------------------- MODULE JoystickLink ----------------------------
(* What the application may rely on when it dispatches joystick events: the *)
(* abstract specification of the listener service.  Each dispatch hands     *)
(* over a coalesced batch whose order and contents depend only on how the   *)
(* link stood at the previous dispatch.  JoystickListener, with its threads *)
(* and slots, implements this specification.                                *)
EXTENDS JoystickInput

VARIABLES
    link,           \* the link as of the last dispatch
    request_rc,     \* ctx.request_rc
    joy_fail_safe   \* ctx.joy_fail_safe

linkVars == <<link, request_rc, joy_fail_safe>>

\* "resumed": the resume was dispatched, the RC message behind it was not.
LinkStates == {"waiting", "healthy", "lost", "resumed", "failed"}
Live == LinkStates \ {"failed"}

Intent == [request |-> request_rc, fail_safe |-> joy_fail_safe]

----------------------------------------------------------------------------
(* The batches.  After a time-out an RC message never arrives without a     *)
(* resume before it, so "timeout then rc" cannot be retained: the resume    *)
(* overwrites the time-out in the communication slot.                       *)

Quiet(l) == {[first |-> NoEvent, second |-> NoEvent, link |-> l]}

RcOnly(l) ==
    {[first |-> NoEvent, second |-> e, link |-> "healthy"] :
        e \in IF l \in {"waiting", "healthy", "resumed"} THEN RcEvents ELSE {}}

ResumeThenRc == {[first |-> Resume, second |-> e, link |-> "healthy"] : e \in RcEvents}

\* The last RC message before the loss, or none if it was dispatched already.
ThenTimeout(l) ==
    {[first |-> e, second |-> Timeout, link |-> "lost"] :
        e \in RcEvents \cup IF l \in {"healthy", "lost"} THEN {NoEvent} ELSE {}}

ThenResume(l) ==
    {[first |-> e, second |-> Resume, link |-> "resumed"] :
        e \in RcEvents \cup IF l \in {"healthy", "lost"} THEN {NoEvent} ELSE {}}

Deliveries(l) ==
    IF l = "failed" THEN Quiet(l)
    ELSE Quiet(l) \cup RcOnly(l) \cup ResumeThenRc \cup ThenTimeout(l) \cup ThenResume(l)

\* One call of dispatch_pending on the control-loop thread.  A failure is the
\* listener thread's last event, so it is dispatched behind everything else.
Dispatch ==
    \E d \in Deliveries(link), e \in {NoEvent, Failure} :
        /\ link = "failed" => e = NoEvent
        /\ link' = IF e = Failure THEN "failed" ELSE d.link
        /\ LET intent == HandleBatch(Intent, <<d.first, d.second, e>>)
           IN /\ request_rc' = intent.request
              /\ joy_fail_safe' = intent.fail_safe

LinkInit ==
    /\ link = "waiting"
    /\ request_rc = DefaultRequest
    /\ joy_fail_safe = FALSE

LinkSpec == LinkInit /\ [][Dispatch]_linkVars

----------------------------------------------------------------------------
LinkTypeOK ==
    /\ link \in LinkStates
    /\ request_rc \in Snapshots
    /\ joy_fail_safe \in BOOLEAN

\* While the link is lost or the listener is dead the application works on the
\* neutral snapshot in fail-safe, whatever was retained before the loss
\* (app.py 308-325 with the ordering of rc_channel_override.py 166-190).
LostMeansNeutral ==
    link \in {"lost", "failed"} => request_rc = DefaultRequest /\ joy_fail_safe
=============================================================================
