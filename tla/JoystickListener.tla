-------------------------- MODULE JoystickListener --------------------------
(* MavlinkListenerService (control/rc_channel_override.py): a background    *)
(* thread receives joystick messages and leaves coalesced events in three   *)
(* slots; the application thread starts it, dispatches the slots' events    *)
(* and stops it.  Sequence numbers are kept as the order of the slots.      *)
(* MavlinkServerListener itself is a library: process_once is modelled by   *)
(* the events the service receives from it.                                 *)
EXTENDS JoystickInput, SequencesExt

VARIABLES
    main,            \* the application thread
    thread,          \* the listener thread
    stop_event, ready_event, failure, shutdown_error,
    opened,          \* local of _run
    comm,            \* the library's view of the link
    in_hand,         \* an RC message whose callback is still to be called
    closed,          \* the application thread closed the connection
    slot,            \* _pending_rc, _pending_communication, _pending_failure
    order,           \* the occupied slots, oldest sequence number first
    link, request_rc, joy_fail_safe

mainVars == <<main, stop_event, closed>>
threadVars == <<thread, ready_event, failure, shutdown_error, opened, comm, in_hand>>
slotVars == <<slot, order>>
appVars == <<link, request_rc, joy_fail_safe>>
vars == <<mainVars, threadVars, slotVars, appVars>>

Slots == {"rc", "communication", "failure"}
EmptySlots == [s \in Slots |-> NoEvent]

Init ==
    /\ main = "new" /\ thread = "none"
    /\ stop_event = FALSE /\ ready_event = FALSE /\ closed = FALSE
    /\ failure = FALSE /\ shutdown_error = FALSE /\ opened = FALSE
    /\ comm = "waiting" /\ in_hand = NoEvent
    /\ slot = EmptySlots /\ order = <<>>
    /\ link = "waiting" /\ request_rc = DefaultRequest /\ joy_fail_safe = FALSE

----------------------------------------------------------------------------
(* The slots, each access under _pending_lock.                              *)

\* A bug for ImplementsLink: an overwritten event keeps its sequence number.
QueueInPlace(s, event) ==
    /\ slot' = [slot EXCEPT ![s] = event]
    /\ order' = IF slot[s] = NoEvent THEN Append(order, s) ELSE order

Queue(s, event) ==
    /\ slot' = [slot EXCEPT ![s] = event]
    /\ \/ slot[s] = NoEvent /\ order' = Append(order, s)
       \/ \E i \in DOMAIN order : order[i] = s /\ order' = Append(RemoveAt(order, i), s)

\* A bug for FailureReachesApp: a failure is recorded and never queued.
RecordFailureQuietly(notify) == failure' = TRUE /\ UNCHANGED slotVars

\* _record_failure: the first failure is kept, and queued at most once.
RecordFailure(notify) ==
    /\ failure' = TRUE
    /\ IF notify /\ slot["failure"] = NoEvent
       THEN Queue("failure", Failure)
       ELSE UNCHANGED slotVars

----------------------------------------------------------------------------
(* The listener thread: _run.                                               *)

Open ==
    /\ thread = "opening"
    /\ opened' = TRUE /\ ready_event' = TRUE /\ thread' = "loop"
    /\ UNCHANGED <<mainVars, failure, shutdown_error, comm, in_hand, slotVars, appVars>>

\* A bug for StartedMeansOpened: only a failure behind open() is recorded.
RaiseOpened ==
    /\ thread \in {"opening", "processing"}
    /\ IF stop_event \/ ~opened THEN UNCHANGED <<failure, slotVars>> ELSE RecordFailure(TRUE)
    /\ thread' = "finally"
    /\ UNCHANGED <<mainVars, ready_event, shutdown_error, opened, comm, in_hand, appVars>>

\* An exception of open() or process_once(); a stop request excuses it.
Raise ==
    /\ thread \in {"opening", "processing"}
    /\ IF stop_event THEN UNCHANGED <<failure, slotVars>> ELSE RecordFailure(opened)
    /\ thread' = "finally"
    /\ UNCHANGED <<mainVars, ready_event, shutdown_error, opened, comm, in_hand, appVars>>

LoopHead ==
    /\ thread = "loop"
    /\ thread' = IF stop_event THEN "finally" ELSE "processing"
    /\ UNCHANGED <<mainVars, ready_event, failure, shutdown_error, opened, comm, in_hand,
                   slotVars, appVars>>

\* process_once without an event: a heartbeat, or no message and no deadline.
Idle ==
    /\ thread = "processing" /\ ~closed
    /\ thread' = "loop"
    /\ UNCHANGED <<mainVars, ready_event, failure, shutdown_error, opened, comm, in_hand,
                   slotVars, appVars>>

\* A deadline of the library passes: stage 1 after 1 s, stage 2 after 5 s.
NoCommunication ==
    /\ thread = "processing" /\ ~closed
    /\ comm \in {"healthy", "lost"}
    /\ Queue("communication", Timeout)
    /\ comm' = "lost" /\ thread' = "loop"
    /\ UNCHANGED <<mainVars, ready_event, failure, shutdown_error, opened, in_hand, appVars>>

\* An RC message; after a time-out the resume callback comes first, and the
\* application may dispatch between the two callbacks.
ReceiveRc ==
    /\ thread = "processing" /\ ~closed
    /\ in_hand' \in RcEvents
    /\ IF comm = "lost"
       THEN Queue("communication", Resume)
       ELSE UNCHANGED slotVars
    /\ thread' = "queue_rc"
    /\ UNCHANGED <<mainVars, ready_event, failure, shutdown_error, opened, comm, appVars>>

QueueRc ==
    /\ thread = "queue_rc"
    /\ Queue("rc", in_hand)
    /\ in_hand' = NoEvent /\ comm' = "healthy" /\ thread' = "loop"
    /\ UNCHANGED <<mainVars, ready_event, failure, shutdown_error, opened, appVars>>

\* A bug for StartReturns: only a successful open sets the ready event.
SetReadyNever ==
    /\ thread = "finally"
    /\ thread' = "closing"
    /\ UNCHANGED <<mainVars, ready_event, failure, shutdown_error, opened, comm, in_hand,
                   slotVars, appVars>>

\* finally: the ready event is set whatever happened ...
SetReady ==
    /\ thread = "finally"
    /\ ready_event' = TRUE /\ thread' = "closing"
    /\ UNCHANGED <<mainVars, failure, shutdown_error, opened, comm, in_hand, slotVars, appVars>>

\* ... and the connection is closed; closing may fail.
Close ==
    /\ thread = "closing"
    /\ \/ UNCHANGED <<shutdown_error, failure, slotVars>>
       \/ /\ shutdown_error' = TRUE
          /\ IF ~failure /\ ~stop_event
             THEN RecordFailure(opened)
             ELSE UNCHANGED <<failure, slotVars>>
    /\ thread' = "exited"
    /\ UNCHANGED <<mainVars, ready_event, opened, comm, in_hand, appVars>>

ThreadStep ==
    Open \/ Raise \/ LoopHead \/ Idle \/ NoCommunication \/ ReceiveRc \/ QueueRc \/ SetReady \/ Close

----------------------------------------------------------------------------
(* The application thread: start, dispatch_pending, stop.                   *)

Start ==
    /\ main = "new"
    /\ main' = "wait_ready" /\ thread' = "opening"
    /\ UNCHANGED <<stop_event, closed, ready_event, failure, shutdown_error, opened, comm,
                   in_hand, slotVars, appVars>>

\* The ready event is set: start returns, or raises the recorded failure.
StartReady ==
    /\ main = "wait_ready" /\ ready_event
    /\ main' = IF failure THEN "start_failed" ELSE "running"
    /\ UNCHANGED <<stop_event, closed, threadVars, slotVars, appVars>>

\* The ready event was not set in time: the failure is recorded, not queued.
StartTimeout ==
    /\ main = "wait_ready" /\ ~ready_event
    /\ RecordFailure(FALSE)
    /\ main' = "stop_unstarted"
    /\ UNCHANGED <<stop_event, closed, thread, ready_event, shutdown_error, opened, comm,
                   in_hand, appVars>>

\* The emission state of the library: a resume is out, its RC message is not.
Emission == IF thread = "queue_rc" /\ comm = "lost" THEN "resumed" ELSE comm

PendingBatch ==
    LET event(i) == IF i <= Len(order) THEN slot[order[i]] ELSE NoEvent
    IN <<event(1), event(2), event(3)>>

\* dispatch_pending: the slots are emptied under the lock, then the callbacks
\* run in sequence order on this thread.
DispatchPending ==
    /\ main = "running"
    /\ LET intent == HandleBatch([request |-> request_rc, fail_safe |-> joy_fail_safe],
                                 PendingBatch)
       IN request_rc' = intent.request /\ joy_fail_safe' = intent.fail_safe
    /\ link' = IF link = "failed" \/ slot["failure"] # NoEvent THEN "failed" ELSE Emission
    /\ slot' = EmptySlots /\ order' = <<>>
    /\ UNCHANGED <<mainVars, threadVars>>

\* stop, with the thread alive: request, then the first join.
Stop ==
    /\ main \in {"running", "stop_unstarted"} /\ thread # "exited"
    /\ stop_event' = TRUE /\ main' = "join"
    /\ UNCHANGED <<closed, threadVars, slotVars, appVars>>

\* A bug for CloseFailureReported: stop forgets a thread that is already dead.
StoppedUnread ==
    /\ main \in {"running", "stop_unstarted", "join", "join_closed"} /\ thread = "exited"
    /\ main' = IF shutdown_error /\ main # "running" THEN "stop_failed" ELSE "stopped"
    /\ UNCHANGED <<stop_event, closed, threadVars, slotVars, appVars>>

\* stop, with the thread dead, or a join that returned because it died.
Stopped ==
    /\ main \in {"running", "stop_unstarted", "join", "join_closed"} /\ thread = "exited"
    /\ main' = IF shutdown_error THEN "stop_failed" ELSE "stopped"
    /\ UNCHANGED <<stop_event, closed, threadVars, slotVars, appVars>>

\* The first join timed out: the connection is closed under the thread.
CloseUnderThread ==
    /\ main = "join" /\ thread # "exited"
    /\ closed' = TRUE /\ main' = "join_closed"
    /\ UNCHANGED <<stop_event, threadVars, slotVars, appVars>>

\* That close failed, or the second join timed out as well.
StopGivesUp ==
    /\ main = "join_closed"
    /\ main' = "stop_failed"
    /\ UNCHANGED <<stop_event, closed, threadVars, slotVars, appVars>>

MainStep == Start \/ StartReady \/ DispatchPending
MainTimeout == StartTimeout \/ CloseUnderThread \/ StopGivesUp
Next == ThreadStep \/ MainStep \/ MainTimeout \/ Stop \/ Stopped

Spec == Init /\ [][Next]_vars

\* Both threads are scheduled, and the control loop goes on dispatching.  No
\* time-out has to expire and nobody has to ask for a stop.
Fairness == WF_vars(ThreadStep) /\ WF_vars(Start) /\ WF_vars(StartReady) /\ WF_vars(DispatchPending)
FairSpec == Spec /\ Fairness

----------------------------------------------------------------------------
TypeOK ==
    /\ main \in {"new", "wait_ready", "running", "start_failed", "stop_unstarted", "join",
                 "join_closed", "stopped", "stop_failed"}
    /\ thread \in {"none", "opening", "loop", "processing", "queue_rc", "finally", "closing",
                   "exited"}
    /\ {stop_event, ready_event, failure, shutdown_error, opened, closed, joy_fail_safe}
            \subseteq BOOLEAN
    /\ comm \in {"waiting", "healthy", "lost"}
    /\ in_hand \in RcEvents \cup {NoEvent}
    /\ slot["rc"] \in RcEvents \cup {NoEvent}
    /\ slot["communication"] \in {NoEvent, Timeout, Resume}
    /\ slot["failure"] \in {NoEvent, Failure}
    /\ {order[i] : i \in DOMAIN order} = {s \in Slots : slot[s] # NoEvent}
    /\ request_rc \in Snapshots

\* Whatever the two threads interleave, the application sees exactly the
\* batches of JoystickLink: retained events in arrival order, no RC message
\* behind a time-out without its resume, nothing after a failure.
Link == INSTANCE JoystickLink
ImplementsLink == Link!LinkSpec

\* start() returns normally only if the connection is open: the failure of an
\* open() is recorded before the ready event is set (rc_channel_override.py
\* 117-120 against 216-229).
StartedMeansOpened == main = "running" => opened

\* "Any close failure is retained for stop to report": a stop that returns
\* normally hides none (203-204, 161-164).
CloseFailureReported == main = "stopped" => ~shutdown_error

\* "A failed startup cannot leave start blocked" (201-202), even if the
\* time-out of the wait never expired.
StartReturns == main = "wait_ready" ~> main # "wait_ready"

\* A listener that dies while the application runs puts it in fail-safe for
\* good: the failure is delivered, and no retained event follows it.
FailureReachesApp ==
    main = "running" /\ thread = "exited" /\ ~stop_event
        ~> main # "running" \/ [](main = "running" => joy_fail_safe /\ request_rc = DefaultRequest)
=============================================================================
