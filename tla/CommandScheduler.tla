--------------------------- MODULE CommandScheduler ---------------------------
(* The command scheduler (bt_app/scheduler): a time-ordered queue, tokens    *)
(* that make a keyed command replace an older one, and one worker thread.    *)
(* The module that uses it says what a command does: it gives the worker's   *)
(* Execute step and calls Submit and Remove from its own threads.            *)
(* Time is the moment a delayed item becomes due: `due` is the part of the   *)
(* heap whose run_at has passed, in order; `later` is the rest.              *)
EXTENDS Naturals, Sequences, SequencesExt

CONSTANTS
    Keys,      \* keys of keyed commands
    None

VARIABLES
    due, later,    \* TimedCommandQueue._items
    active,        \* CancellationRegistry._active_tokens
    worker,        \* the next step of SchedulerWorker.run
    item,          \* the item it took
    stop_event, wake_event

queueVars == <<due, later>>
workerVars == <<worker, item>>
eventVars == <<stop_event, wake_event>>
schedulerVars == <<queueVars, active, workerVars, eventVars>>

----------------------------------------------------------------------------
(* A command is a record with a key, which may be None, and a flag that says *)
(* whether it repeats.  A token is a number no other command has.            *)

IsActive(i) == i.command.key # None => active[i.command.key] = i.token

QueueInit ==
    /\ due = <<>> /\ later = {}
    /\ active = [k \in Keys |-> 0]
    /\ worker = "none" /\ item = None
    /\ stop_event = FALSE /\ wake_event = FALSE

\* A bug for RepeatsDoNotMultiply: one token per key instead of a fresh one.
NewTokenPerKey(command) == IF command.key = None THEN 0 ELSE 1
\* A fresh token for a keyed command; none for the others.
NewToken(command) == IF command.key = None THEN 0 ELSE active[command.key] + 1

\* A bug for TextsInOrder: commands due at the same time leave in any order.
AddDueFirst(d, i) == <<i>> \o d
AddDue(d, i) == Append(d, i)

Push(command, token, now) ==
    LET i == [command |-> command, token |-> token] IN
    IF now THEN due' = AddDue(due, i) /\ UNCHANGED later
    ELSE later' = later \union {i} /\ UNCHANGED due

\* A bug for NewestIsShown: the token is not activated.
SubmitInactive(command, now) ==
    /\ Push(command, NewToken(command), now)
    /\ wake_event' = TRUE
    /\ UNCHANGED <<active, workerVars, stop_event>>

\* submit and schedule, by any thread: the token is activated and the item
\* pushed under one lock, then the worker is woken.
Submit(command, now) ==
    /\ active' = IF command.key = None THEN active ELSE [active EXCEPT ![command.key] = NewToken(command)]
    /\ Push(command, NewToken(command), now)
    /\ wake_event' = TRUE
    /\ UNCHANGED <<workerVars, stop_event>>

\* One-shot commands that the worker submits: the first is due at once, the
\* others after a delay.
SubmitAll(first, delayed) ==
    LET OneShot(c) == [command |-> c, token |-> 0] IN
    /\ due' = AddDue(due, OneShot(first))
    /\ later' = later \union {OneShot(c) : c \in delayed}
    /\ wake_event' = TRUE
    /\ UNCHANGED <<active, stop_event>>

\* The run_at of an item passes.  The user of the scheduler knows whose is next.
BecomeDue(i) ==
    /\ i \in later
    /\ later' = later \ {i} /\ due' = Append(due, i)
    /\ UNCHANGED <<active, workerVars, eventVars>>

----------------------------------------------------------------------------
(* The owner's start and stop; stop's join may end by its time-out.          *)

StartWorker ==
    /\ worker \in {"none", "done"}
    /\ worker' = "top" /\ stop_event' = FALSE
    /\ UNCHANGED <<queueVars, active, item, wake_event>>

RequestStop ==
    /\ stop_event' = TRUE /\ wake_event' = TRUE
    /\ UNCHANGED <<queueVars, active, workerVars>>

----------------------------------------------------------------------------
(* The worker.                                                               *)

\* A bug for StopEndsWorker: the stop event is looked at only when idle.
TopBusy ==
    /\ worker = "top"
    /\ worker' = IF stop_event /\ due = <<>> /\ later = {} THEN "done" ELSE "pop"
    /\ UNCHANGED <<queueVars, active, item, eventVars>>

Top ==
    /\ worker = "top"
    /\ worker' = IF stop_event THEN "done" ELSE "pop"
    /\ UNCHANGED <<queueVars, active, item, eventVars>>

FirstActive == SelectInSeq(due, IsActive)

\* pop_ready drops the inactive items in front of the first active one.
Pop ==
    /\ worker = "pop"
    /\ IF FirstActive = 0
       THEN due' = <<>> /\ worker' = "wait" /\ UNCHANGED item
       ELSE /\ item' = due[FirstActive] /\ worker' = "execute"
            /\ due' = SubSeq(due, FirstActive + 1, Len(due))
    /\ UNCHANGED <<later, active, eventVars>>

\* Woken by the event or by the time of the next item.
Woken ==
    /\ worker = "wait" /\ worker' = "clear"
    /\ UNCHANGED <<queueVars, active, item, eventVars>>

Clear ==
    /\ worker = "clear" /\ worker' = "top" /\ wake_event' = FALSE
    /\ UNCHANGED <<queueVars, active, item, stop_event>>

\* A bug for KeepsBeating: an exception of the command ends the worker.
ExecutedFatal(raised) ==
    /\ worker = "execute" /\ worker' = (IF raised THEN "done" ELSE "executed")
    /\ UNCHANGED item

\* An exception of the command goes to on_error and the worker goes on.
Executed(raised) ==
    /\ worker = "execute" /\ worker' = "executed" /\ raised \in BOOLEAN
    /\ UNCHANGED item

\* Whether a repeating command is still active is read without the lock.
AfterExecute ==
    /\ worker = "executed"
    /\ IF item.command.repeats /\ IsActive(item) THEN worker' = "requeue" /\ UNCHANGED item
       ELSE worker' = "top" /\ item' = None
    /\ UNCHANGED <<queueVars, active, eventVars>>

Requeue ==
    /\ worker = "requeue"
    /\ Push(item.command, item.token, FALSE)
    /\ worker' = "top" /\ item' = None /\ wake_event' = TRUE
    /\ UNCHANGED <<active, stop_event>>

WorkerStep == Top \/ Pop \/ Woken \/ Clear \/ AfterExecute \/ Requeue

----------------------------------------------------------------------------
(* A property of every use of the scheduler.                                 *)

Held == ToSet(due) \union later \union (IF worker \in {"execute", "executed", "requeue"} THEN {item} ELSE {})

\* Where commands are: a position of the queue, a delayed one, the worker's hands.
Places ==
    ({"due"} \X DOMAIN due) \union ({"later"} \X later)
        \union (IF worker \in {"execute", "executed", "requeue"} THEN {<<"worker", item>>} ELSE {})
At(place) == IF place[1] = "due" THEN due[place[2]] ELSE place[2]

\* A keyed command lives once: repeats, replacements and the worker's own
\* requeue never leave two active items of one key (worker.py:48 tests and
\* requeues without holding the lock that submit replaces under).
RepeatsDoNotMultiply ==
    \A p, q \in Places :
        LET a == At(p)  b == At(q) IN
            a.command.key = b.command.key /\ a.command.key # None /\ IsActive(a) /\ IsActive(b)
                => p = q

=============================================================================
