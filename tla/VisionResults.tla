--------------------------- MODULE VisionResults ---------------------------
(* Tracker results from the video pipeline to the control loop: the probe on *)
(* the detector's pad numbers the buffers and publishes what was detected,   *)
(* ZmqFramePublisher keeps the newest in one slot and sends it on its own    *)
(* thread at a limited rate, the application's VisualTargetComm drains its   *)
(* socket and hands the newest valid message to TrackerResultStore.          *)
(*                                                                           *)
(* Five actors: the streaming thread (Buffer), the runner's main thread,     *)
(* the publisher's worker, the receiver thread and time.  What a worker does *)
(* under its condition is one step.  Messages are the frame numbers; "bad"   *)
(* marks one that the receiver cannot decode.                                *)
EXTENDS Integers, Sequences

CONSTANTS
    MAX_FRAMES,  \* buffers of one run (bound)
    MAX_RUNS,    \* runs of the pipeline process (bound)
    GAP,         \* ticks of 1 / max_rate_hz
    HWM          \* messages ZeroMQ holds between the two sockets

ConstantsAssumption ==
    /\ MAX_FRAMES \in Nat \ {0} /\ MAX_RUNS \in Nat \ {0}
    /\ GAP \in Nat /\ HWM \in Nat \ {0}

VARIABLES
    pipe,       \* run_pipeline
    runs,       \* history: runs so far
    next_frame, \* itertools.count
    pending, stopping, worker, held,   \* ZmqFramePublisher
    since,      \* ticks since the last send, at most GAP (infinite is GAP)
    spacing,    \* history: the value of since at the last send
    published,  \* history: newest message given to publish, of this run
    wire,       \* between the sockets
    lost,       \* history: the newest message sent was dropped
    receiver,   \* VisualTargetComm's thread
    newest,     \* what its drain has found
    store,      \* TrackerResultStore._latest
    received    \* history: newest result handed to the store

publisher_vars == <<pending, stopping, worker, held, since, spacing>>
app_vars == <<receiver, newest, store, received>>
vars == <<pipe, runs, next_frame, publisher_vars, published, wire, lost, app_vars>>

NoResult == [run |-> 0, frame |-> 0]

Message(f) == [run |-> runs, frame |-> f]
Messages == [run : 1..MAX_RUNS, frame : 1..MAX_FRAMES]

Init ==
    /\ pipe = "off" /\ runs = 0 /\ next_frame = 1
    /\ pending = NoResult /\ stopping = FALSE /\ worker = "none" /\ held = NoResult
    /\ since = GAP /\ spacing = GAP
    /\ published = NoResult /\ wire = <<>> /\ lost = FALSE
    /\ receiver = "down" /\ newest = NoResult /\ store = NoResult /\ received = NoResult

----------------------------------------------------------------------------
(* run_pipeline.                                                             *)

\* A new process, a new publisher.
StartRun ==
    /\ pipe = "off" /\ runs < MAX_RUNS
    /\ runs' = runs + 1 /\ next_frame' = 1 /\ published' = NoResult
    /\ pending' = NoResult /\ stopping' = FALSE /\ worker' = "binding" /\ held' = NoResult
    /\ since' = GAP /\ spacing' = GAP
    /\ lost' = FALSE
    /\ pipe' = "starting"
    /\ UNCHANGED <<wire, app_vars>>

\* The worker reports that it is bound, or why it is not.
Bind ==
    /\ worker = "binding"
    /\ worker' \in {"look", "failed"}
    /\ UNCHANGED <<pipe, runs, next_frame, pending, stopping, held, since, spacing, published,
                   wire, lost, app_vars>>

\* start: the bind failed, or it takes too long; stop has then asked the worker
\* to end, but its join may run out as well.
StartFails ==
    /\ pipe = "starting"
    /\ \/ worker = "failed" /\ UNCHANGED stopping
       \/ worker = "binding" /\ stopping' = TRUE
    /\ pipe' = "null"
    /\ UNCHANGED <<runs, next_frame, pending, worker, held, since, spacing, published, wire,
                   lost, app_vars>>

\* The elements are found and the pipeline plays, or one is missing.
Play ==
    /\ pipe = "starting" /\ worker \notin {"binding", "failed"}
    /\ pipe' \in {"playing", "null"}
    /\ UNCHANGED <<runs, next_frame, publisher_vars, published, wire, lost, app_vars>>

\* ERROR, EOS or an interrupt: out of the loop, and the pipeline is set to NULL
\* before the publisher stops.
LeaveLoop ==
    /\ pipe = "playing"
    /\ pipe' = "null"
    /\ UNCHANGED <<runs, next_frame, publisher_vars, published, wire, lost, app_vars>>

\* A bug for ReturnStopsWorker: a stop that leaves the worker asleep.
Unnotified == worker

\* Condition.notify.
Notified ==
    CASE worker = "wait" -> "look"
      [] worker = "rate_wait" -> "rate"
      [] OTHER -> worker

\* stop raises the flag and joins; the join's time-out is only logged.
Return ==
    /\ pipe = "null"
    /\ stopping' = TRUE /\ worker' = Notified
    /\ pipe' = "returned"
    /\ UNCHANGED <<runs, next_frame, pending, held, since, spacing, published, wire, lost, app_vars>>

\* The process ends, and the daemon thread with it; the peer's socket reconnects.
ProcessEnds ==
    /\ pipe = "returned"
    /\ pipe' = "off" /\ worker' = "none"
    /\ UNCHANGED <<runs, next_frame, pending, stopping, held, since, spacing, published, wire, lost, app_vars>>

----------------------------------------------------------------------------
(* The streaming thread.                                                     *)

\* A bug for TakesTheNewest: a full slot keeps what it has.
KeepPending(m) == IF pending = NoResult THEN m ELSE pending

Pending(m) == m

\* publish; a publisher that stops takes nothing.
Publish(m) ==
    IF stopping
    THEN UNCHANGED <<pending, worker, published>>
    ELSE pending' = Pending(m) /\ published' = m /\ worker' = Notified

\* _on_detector_buffer: the number is used up whether or not there is metadata,
\* and an invalid result raises in the probe.
Buffer ==
    /\ pipe = "playing" /\ next_frame <= MAX_FRAMES
    /\ next_frame' = next_frame + 1
    /\ \/ Publish(Message(next_frame))
       \/ UNCHANGED <<pending, worker, published>>
    /\ UNCHANGED <<pipe, runs, stopping, held, since, spacing, wire, lost, app_vars>>

----------------------------------------------------------------------------
(* The publisher's worker.                                                   *)

Take == held' = pending /\ pending' = NoResult /\ worker' = "send"

Empty == pending = NoResult

\* The top of its loop.
Look ==
    /\ worker = "look"
    /\ \/ stopping /\ worker' = "done" /\ UNCHANGED <<pending, held>>
       \/ ~stopping /\ Empty /\ worker' = "wait" /\ UNCHANGED <<pending, held>>
       \/ ~stopping /\ ~Empty /\ worker' = "rate" /\ UNCHANGED <<pending, held>>
    /\ UNCHANGED <<pipe, runs, next_frame, stopping, since, spacing, published, wire, lost, app_vars>>

\* A bug for SendsAreSpaced: seconds compared with milliseconds.
TooEarlyInMs == 1000 * since < GAP

TooEarly == since < GAP

\* The loop over remaining.
Rate ==
    /\ worker = "rate"
    /\ \/ stopping /\ worker' = "done" /\ UNCHANGED <<pending, held>>
       \/ ~stopping /\ TooEarly /\ worker' = "rate_wait" /\ UNCHANGED <<pending, held>>
       \/ ~stopping /\ ~TooEarly /\ Take
    /\ UNCHANGED <<pipe, runs, next_frame, stopping, since, spacing, published, wire, lost, app_vars>>

\* The time-out of the wait.
RateWaitEnds ==
    /\ worker = "rate_wait" /\ since = GAP
    /\ worker' = "rate"
    /\ UNCHANGED <<pipe, runs, next_frame, pending, stopping, held, since, spacing, published,
                   wire, lost, app_vars>>

\* A bug for NewestArrives: the worker goes back to sleep without a look.
SleepAfterSend == "wait"

AfterSend == "look"

\* encode and send; a PUB socket drops what does not fit or has no subscriber.
Send ==
    /\ worker = "send"
    /\ worker' = AfterSend /\ held' = NoResult
    /\ since' = 0 /\ spacing' = since
    /\ IF receiver # "down" /\ Len(wire) < HWM
       THEN \E bad \in BOOLEAN : wire' = Append(wire, [message |-> held, bad |-> bad]) /\ lost' = bad
       ELSE lost' = TRUE /\ UNCHANGED wire
    /\ UNCHANGED <<pipe, runs, next_frame, pending, stopping, published, app_vars>>

Tick ==
    /\ since < GAP
    /\ since' = since + 1
    /\ UNCHANGED <<pipe, runs, next_frame, pending, stopping, worker, held, spacing, published,
                   wire, lost, app_vars>>

----------------------------------------------------------------------------
(* The application.                                                          *)

\* start: the receiver's thread connects.
StartReceiver ==
    /\ receiver = "down"
    /\ receiver' = "poll" /\ newest' = NoResult
    /\ store' = NoResult /\ received' = NoResult
    /\ UNCHANGED <<pipe, runs, next_frame, publisher_vars, published, wire, lost>>

\* stop: the event is seen at the next poll, and the socket is closed.
StopReceiver ==
    /\ receiver = "poll"
    /\ receiver' = "down" /\ wire' = <<>> /\ lost' = TRUE
    /\ UNCHANGED <<pipe, runs, next_frame, publisher_vars, published, newest, store, received>>

\* A bug for StoreIsNewestReceived: the first of the waiting messages.
FirstOf(m) == IF newest = NoResult THEN m ELSE newest

NewestOf(m) == m

\* The drain: one recv without blocking.
Receive ==
    /\ receiver \in {"poll", "drain"} /\ wire # <<>>
    /\ receiver' = "drain"
    /\ wire' = Tail(wire)
    /\ newest' = IF Head(wire).bad THEN newest ELSE NewestOf(Head(wire).message)
    /\ received' = IF Head(wire).bad THEN received ELSE Head(wire).message
    /\ UNCHANGED <<pipe, runs, next_frame, publisher_vars, published, lost, store>>

\* process_tracker_result compares the frame with the stored one; no message
\* carries another tracker_id than 0.
Retain(m) == IF store # NoResult /\ m.frame <= store.frame THEN store ELSE m

\* The socket is empty: the subscribers of the manager are called.
HandOver ==
    /\ receiver = "drain" /\ wire = <<>>
    /\ receiver' = "poll" /\ newest' = NoResult
    /\ store' = IF newest = NoResult THEN store ELSE Retain(newest)
    /\ UNCHANGED <<pipe, runs, next_frame, publisher_vars, published, wire, lost, received>>

----------------------------------------------------------------------------

Worker == Bind \/ Look \/ Rate \/ RateWaitEnds \/ Send
Receiver == Receive \/ HandOver
Runner == StartRun \/ StartFails \/ Play \/ LeaveLoop \/ Return \/ ProcessEnds

Next == Runner \/ Buffer \/ Worker \/ Tick \/ StartReceiver \/ StopReceiver \/ Receiver

Spec == Init /\ [][Next]_vars

\* The threads are scheduled, time passes and a pipeline that has left its loop
\* finishes run_pipeline.  Nothing makes a buffer come or a process start.
FairSpec ==
    /\ Spec
    /\ WF_vars(Worker) /\ WF_vars(Receiver) /\ WF_vars(Tick) /\ WF_vars(Return)

----------------------------------------------------------------------------

TypeOK ==
    /\ pipe \in {"off", "starting", "playing", "null", "returned"}
    /\ runs \in 0..MAX_RUNS /\ next_frame \in 1..MAX_FRAMES + 1
    /\ {pending, held, published, newest, store, received} \subseteq Messages \cup {NoResult}
    /\ worker \in {"none", "binding", "failed", "look", "wait", "rate", "rate_wait", "send", "done"}
    /\ stopping \in BOOLEAN /\ since \in 0..GAP /\ spacing \in 0..GAP
    /\ wire \in Seq([message : Messages, bad : BOOLEAN]) /\ Len(wire) <= HWM
    /\ lost \in BOOLEAN /\ receiver \in {"down", "poll", "drain"}

\* Two messages leave at least 1 / max_rate_hz apart, however often the worker
\* is woken while it waits for the rate.
SendsAreSpaced == spacing = GAP

\* What is taken for sending is the newest result at that moment, not the one
\* that started the wait (red_detection_zmq_flow.md:136).
TakesTheNewest == [][worker # "send" /\ worker' = "send" => held' = published]_vars

\* Within a run, what the control loop reads is the newest result received:
\* nothing on the way reorders, repeats or holds back a message.
StoreIsNewestReceived ==
    receiver = "poll" /\ runs = 1 => store = received

\* Once run_pipeline has returned, the worker ends by itself.
ReturnStopsWorker == pipe = "returned" ~> worker \in {"none", "failed", "done"}

\* The newest result reaches the store, even if no other follows it, unless the
\* socket drops it or one of the two sides goes away.
NewestArrives ==
    \A f \in 1..MAX_FRAMES :
        published = [run |-> 1, frame |-> f] ~>
            \/ store.frame >= f \/ published # [run |-> 1, frame |-> f]
            \/ lost \/ pipe # "playing" \/ receiver = "down"

\* tracker_result_store.py:20: "Retain the newest raw tracker result".
RetainsTheNewest == receiver = "poll" => store = received

=============================================================================
