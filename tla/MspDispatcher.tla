---------------------------- MODULE MspDispatcher ----------------------------
(* MspCommandDispatcher (msp/command_dispatcher.py): a worker thread takes  *)
(* due commands from a heap, executes them on the MSP link and schedules    *)
(* them again; the control loop replaces the RC command with set_rc.  A     *)
(* token per key tells the current command from those it replaced.          *)
(*                                                                          *)
(* A block under self._lock is one action, and so is every access to shared *)
(* state outside it: wake-ups, the unlocked token test before a repeat and  *)
(* the stop event interleave freely.  Time is whole units; an item keeps    *)
(* the time left until it is due, and items due at the same instant are     *)
(* taken in any order.                                                      *)
EXTENDS Integers, FiniteSets

CONSTANTS
    Keys,       \* keys of the commands, "rc" among them
    Interval,   \* repeat_interval_s of each key
    IdleWait,   \* the 0.1 s a worker waits on an empty heap
    Channels,   \* the RC frames the control loop may set
    Tokens,     \* bound: identities of the token objects alive at a time
    MaxQueue,   \* bound: items in the heap
    MaxLag,     \* bound: how late an item may become
    None

ASSUME KeysAssumption == "rc" \in Keys
ASSUME IntervalAssumption == Interval \in [Keys -> Nat \ {0}]
ASSUME BoundsAssumption == IdleWait \in Nat /\ MaxQueue \in Nat /\ MaxLag \in Nat
ASSUME TokensAssumption == Tokens \subseteq Nat

VARIABLES
    app,       \* the control-loop thread
    worker,    \* the dispatcher thread
    heap,      \* _queue
    active,    \* _active_tokens
    item,      \* the item the worker executes or repeats
    deadline,  \* time left of the worker's wait
    stop_event, wake_event,
    fatal,     \* _fatal_error is set
    latest,    \* history: the channels of the last set_rc
    fcu        \* the channels last put on the wire

eventVars == <<stop_event, wake_event, fatal>>
vars == <<app, worker, heap, active, item, deadline, eventVars, latest, fcu>>

Item(k, t, c, due) == [key |-> k, token |-> t, channels |-> c, due |-> due]
Items == [key : Keys, token : Tokens, channels : Channels \cup {None}, due : Int]

ASSUME NoneAssumption == None \notin Channels \cup Tokens \cup Items

\* _is_token_active
IsActive(i) == active[i.key] = i.token

\* A token object exists while the dictionary, the heap or the worker holds it.
Held ==
    {active[k] : k \in Keys} \cup {i.token : i \in heap}
        \cup (IF item = None THEN {} ELSE {item.token})
Free == Tokens \ Held

----------------------------------------------------------------------------
(* MSPAdapter.start has scheduled the telemetry and started the worker.     *)

Telemetry == Keys \ {"rc"}

Init ==
    /\ \E t \in [Telemetry -> Tokens] :
        /\ \A j, k \in Telemetry : j # k => t[j] # t[k]
        /\ heap = {Item(k, t[k], None, 0) : k \in Telemetry}
        /\ active = [k \in Keys |-> IF k = "rc" THEN None ELSE t[k]]
    /\ app = "loop" /\ worker = "head"
    /\ item = None /\ deadline = 0
    /\ stop_event = FALSE /\ wake_event = TRUE /\ fatal = FALSE
    /\ latest = None /\ fcu = None

----------------------------------------------------------------------------
(* The control-loop thread.                                                 *)

\* A bug for OneCommandPerKey: the key keeps its token.
TokenOfKeyKept(t) == IF active["rc"] = None THEN t ELSE active["rc"]

\* The token of a new submission replaces the one of its key.
TokenOfKey(t) == t

\* set_rc -> schedule -> submit -> _submit(replace=True): the block under the
\* lock.  An item of the replaced command stays behind in the heap.
SetRc(c) ==
    /\ app = "loop"
    /\ Cardinality(heap) < MaxQueue
    /\ \E t \in Free :
        /\ \A u \in Free : t <= u
        /\ active' = [active EXCEPT !["rc"] = TokenOfKey(t)]
        /\ heap' = heap \cup {Item("rc", TokenOfKey(t), c, 0)}
    /\ latest' = c
    /\ app' = "wake"
    /\ UNCHANGED <<worker, item, deadline, eventVars, fcu>>

SetRcWake ==
    /\ app = "wake"
    /\ wake_event' = TRUE /\ app' = "loop"
    /\ UNCHANGED <<worker, heap, active, item, deadline, stop_event, fatal, latest, fcu>>

\* A bug for FatalSurfaces: the error is looked at only once the loop ended.
RaiseIfFailedLate == app = "stop" /\ fatal /\ UNCHANGED vars

\* raise_if_failed at the head of the loop and after it: the application ends.
RaiseIfFailed ==
    /\ app = "loop" /\ fatal
    /\ app' = "stop"
    /\ UNCHANGED <<worker, heap, active, item, deadline, eventVars, latest, fcu>>

RequestStop ==
    /\ app = "loop" /\ ~fatal
    /\ app' = "stop"
    /\ UNCHANGED <<worker, heap, active, item, deadline, eventVars, latest, fcu>>

Stop ==
    /\ app = "stop"
    /\ stop_event' = TRUE /\ app' = "stop_wake"
    /\ UNCHANGED <<worker, heap, active, item, deadline, wake_event, fatal, latest, fcu>>

StopWake ==
    /\ app = "stop_wake"
    /\ wake_event' = TRUE /\ app' = "join"
    /\ UNCHANGED <<worker, heap, active, item, deadline, stop_event, fatal, latest, fcu>>

\* The join ends with the worker, or times out on a blocked one; either way
\* MSPAdapter.stop closes the transport.
Join ==
    /\ app = "join"
    /\ worker = "exited" \/ item # None
    /\ app' = "closed"
    /\ UNCHANGED <<worker, heap, active, item, deadline, eventVars, latest, fcu>>

AppStep == SetRcWake \/ RaiseIfFailed \/ Stop \/ StopWake
App == (\E c \in Channels : SetRc(c)) \/ AppStep \/ RequestStop \/ Join

----------------------------------------------------------------------------
(* The worker thread: _run.                                                 *)

WorkerGoes(from, to) == worker = from /\ worker' = to

\* A bug for NothingAfterFatal: the loop does not read the stop event again.
AfterHeadUnread == "pop"

AfterHead == IF stop_event THEN "exited" ELSE "pop"

LoopHead ==
    /\ WorkerGoes("head", AfterHead)
    /\ UNCHANGED <<app, heap, active, item, deadline, eventVars, latest, fcu>>

\* A bug for ImplementsStream: replaced items are executed as well.
DueAnyToken(live) == {i \in heap : i.due <= 0 /\ live}

Due(live) == {i \in heap : i.due <= 0 /\ IsActive(i) = live}

\* _pop_ready_command: replaced items on the way to the first active one are
\* dropped, all under one lock.
Pop ==
    /\ WorkerGoes("pop", "execute")
    /\ \E i \in Due(TRUE), dropped \in SUBSET Due(FALSE) :
        /\ \A j \in Due(TRUE) : i.due <= j.due
        /\ \A j \in Due(FALSE) : /\ j.due < i.due => j \in dropped
                                 /\ j.due > i.due => j \notin dropped
        /\ heap' = heap \ (dropped \cup {i})
        /\ item' = i
    /\ UNCHANGED <<app, active, deadline, eventVars, latest, fcu>>

PopNothing ==
    /\ WorkerGoes("pop", "measure")
    /\ Due(TRUE) = {}
    /\ heap' = heap \ Due(FALSE)
    /\ UNCHANGED <<app, active, item, deadline, eventVars, latest, fcu>>

\* _wait_until_next_command: the delay is measured under the lock, then the
\* worker waits without it.
WaitTime(d) ==
    IF heap = {} THEN d = IdleWait
    ELSE \E i \in heap : /\ \A j \in heap : i.due <= j.due
                         /\ d = IF i.due > 0 THEN i.due ELSE 0

\* A bug for NoLostWakeUp: the event is cleared before the wait.
MeasureWaitClearing ==
    /\ WorkerGoes("measure", "wait")
    /\ WaitTime(deadline')
    /\ wake_event' = FALSE
    /\ UNCHANGED <<app, heap, active, item, stop_event, fatal, latest, fcu>>

MeasureWait ==
    /\ WorkerGoes("measure", "wait")
    /\ WaitTime(deadline')
    /\ UNCHANGED <<app, heap, active, item, eventVars, latest, fcu>>

WakeUp ==
    /\ WorkerGoes("wait", "clear")
    /\ wake_event \/ deadline = 0
    /\ UNCHANGED <<app, heap, active, item, deadline, eventVars, latest, fcu>>

ClearWake ==
    /\ WorkerGoes("clear", "head")
    /\ wake_event' = FALSE /\ deadline' = 0
    /\ UNCHANGED <<app, heap, active, item, stop_event, fatal, latest, fcu>>

Wire(i) == IF i.key = "rc" THEN i.channels ELSE fcu

\* command.execute succeeds; a closed transport lets nothing through.
Execute ==
    /\ WorkerGoes("execute", "test")
    /\ app # "closed"
    /\ fcu' = Wire(item)
    /\ UNCHANGED <<app, heap, active, item, deadline, eventVars, latest>>

\* A bug for NoCommandLost and EveryKeyServed: a failed command is not repeated.
ExecuteFailsForGood ==
    /\ worker = "execute" /\ worker' = "head"
    /\ IF item.key = "rc"
       THEN fatal' = TRUE /\ stop_event' = TRUE /\ wake_event' = TRUE
       ELSE UNCHANGED eventVars
    /\ item' = None
    /\ UNCHANGED <<app, heap, active, deadline, latest, fcu>>

\* command.execute raises, before or after the frame left: _handle_error.  A
\* failed RC command is fatal and stops the worker.
ExecuteFails ==
    /\ WorkerGoes("execute", "test")
    /\ fcu' \in IF app = "closed" THEN {fcu} ELSE {fcu, Wire(item)}
    /\ IF item.key = "rc"
       THEN fatal' = TRUE /\ stop_event' = TRUE /\ wake_event' = TRUE
       ELSE UNCHANGED eventVars
    /\ UNCHANGED <<app, heap, active, item, deadline, latest>>

Release ==
    /\ WorkerGoes("test", "head")
    /\ stop_event \/ ~IsActive(item)
    /\ item' = None
    /\ UNCHANGED <<app, heap, active, deadline, eventVars, latest, fcu>>

\* The command is still the current one when the worker looks, without the
\* lock; set_rc may replace it before the repeat below takes the lock.
DecideRepeat ==
    /\ WorkerGoes("test", "repeat")
    /\ ~stop_event /\ IsActive(item)
    /\ UNCHANGED <<app, heap, active, item, deadline, eventVars, latest, fcu>>

\* _submit(replace=False) with the token of the executed command.
Repeat ==
    /\ WorkerGoes("repeat", "repeat_wake")
    /\ heap' = heap \cup {[item EXCEPT !.due = Interval[item.key]]}
    /\ item' = None
    /\ UNCHANGED <<app, active, deadline, eventVars, latest, fcu>>

RepeatWake ==
    /\ WorkerGoes("repeat_wake", "head")
    /\ wake_event' = TRUE
    /\ UNCHANGED <<app, heap, active, item, deadline, stop_event, fatal, latest, fcu>>

Worker ==
    LoopHead \/ Pop \/ PopNothing \/ MeasureWait \/ WakeUp \/ ClearWake \/ Execute
        \/ ExecuteFails \/ Release \/ DecideRepeat \/ Repeat \/ RepeatWake

\* Time passes for the items and for the worker's wait.
Tick ==
    /\ \A i \in heap : i.due > -MaxLag
    /\ heap' = {[i EXCEPT !.due = @ - 1] : i \in heap}
    /\ deadline' = IF worker = "wait" /\ deadline > 0 THEN deadline - 1 ELSE deadline
    /\ UNCHANGED <<app, worker, active, item, eventVars, latest, fcu>>

Next == App \/ Worker \/ Tick

Spec == Init /\ [][Next]_vars

\* Threads are scheduled, commands return, and time goes on.  Nothing has to
\* fail, to set channels, to stop or to time out.
Fairness == WF_vars(AppStep) /\ WF_vars(Worker) /\ WF_vars(Tick)
FairSpec == Spec /\ Fairness

----------------------------------------------------------------------------
WorkerStates == {"head", "pop", "execute", "test", "repeat", "repeat_wake", "measure", "wait",
                 "clear", "exited"}
Busy == worker \in {"execute", "test", "repeat"}

TypeOK ==
    /\ app \in {"loop", "wake", "stop", "stop_wake", "join", "closed"}
    /\ worker \in WorkerStates
    /\ heap \subseteq Items
    /\ active \in [Keys -> Tokens \cup {None}]
    /\ item \in Items \cup {None}
    /\ Busy <=> item # None
    /\ deadline \in Nat
    /\ stop_event \in BOOLEAN /\ wake_event \in BOOLEAN /\ fatal \in BOOLEAN
    /\ latest \in Channels \cup {None} /\ fcu \in Channels \cup {None}

\* At any time a key has at most one command that can still be executed: in
\* the heap or in the worker's hands, never both, whatever set_rc and a repeat
\* interleave (the replaced command of 259-270 against the repeat of 341-348).
Current(k) == {i \in heap : i.key = k /\ IsActive(i)}
OneCommandPerKey ==
    \A k \in Keys :
        /\ \A i, j \in Current(k) : i = j
        /\ Current(k) # {} => ~(item # None /\ item.key = k /\ IsActive(item))

\* ... and, until the dispatcher stops, at least one: a repeat is never lost.
NoCommandLost ==
    ~stop_event => \A k \in Keys :
        active[k] # None => Current(k) # {} \/ (item # None /\ item.key = k /\ IsActive(item))

\* A command that is current carries the channels of the last set_rc.
CurrentIsLatest ==
    \A i \in heap \cup (IF item = None THEN {} ELSE {item}) :
        i.key = "rc" /\ IsActive(i) => i.channels = latest

\* The worker never sleeps past a due command or a stop request: a wake-up set
\* between the measurement and the wait, or cleared right after it was set, is
\* not lost (360-368 against 271 and 220-222).
NoLostWakeUp ==
    worker = "wait" /\ ~wake_event =>
        /\ app # "wake" => \A i \in heap : IsActive(i) => deadline <= 0 \/ deadline <= i.due
        /\ app \notin {"join", "closed"}

\* A failed RC command is the last one: the worker executes nothing after it.
NothingAfterFatal == [][fatal => fcu' = fcu]_vars

\* The frames on the wire are samples of the register set_rc writes.
RcInHand == IF worker = "execute" /\ item.key = "rc" THEN item.channels ELSE None
Stream == INSTANCE RcStream WITH in_hand <- RcInHand
ImplementsStream == Stream!Spec

\* Every scheduled command is executed again and again, telemetry as well as
\* RC, unless the dispatcher is stopped.
EveryKeyServed ==
    \A k \in Keys : active[k] # None ~>
        stop_event \/ (worker = "execute" /\ item # None /\ item.key = k)

\* A fatal RC error ends the control loop.
FatalSurfaces == fatal ~> app \notin {"loop", "wake"}
=============================================================================
