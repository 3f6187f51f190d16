---------------------------- MODULE MavlinkService ----------------------------
(* The MAVLink service (mavlink_wrapper.py) on the command scheduler: the    *)
(* main thread starts and stops it and submits texts and set-points, the     *)
(* worker sends telemetry read from the shared context at that moment and    *)
(* answers the datagrams it polls.  Sending or handling may raise.  One      *)
(* parser reads the bytes of all datagrams: a frame that was cut short takes *)
(* what it lacks from the datagram behind it.                                *)
EXTENDS CommandScheduler

CONSTANTS
    MaxTexts, MaxSetpoints, MaxDatagrams, MaxChanges, MaxFaults,   \* bounds
    MaxEvents,   \* the bound of texts, set-points, datagrams, changes and faults together
    MaxPoll,   \* MAX_RECEIVE_DATAGRAMS_PER_POLL
    ListSize   \* how many parameters there are, and answers to a list request

Heartbeat == "heartbeat"          \* stands for the six telemetry commands
Receive == "receive_pending"
NamedValue == "named_value_float"
Periodic == <<Heartbeat, Receive>>

VARIABLES
    main,        \* what the main thread is doing with the service
    todo,        \* the periodic commands start has yet to schedule
    socket,      \* whether the socket is open
    armed,       \* context.armed, for everything telemetry reads of the context
    inbox,       \* datagrams in the socket's buffer
    polled,      \* how many the poll that is under way has read
    parser,      \* _parser: at the boundary of frames or inside of one
    gcs,         \* what the ground station has got
    texts, setpoints, datagrams, changes, faults    \* how many there were

countVars == <<texts, setpoints, datagrams, changes, faults>>
mainVars == <<main, todo, socket>>
pollVars == <<inbox, polled, parser>>
vars == <<schedulerVars, mainVars, armed, pollVars, gcs, countVars>>

\* A text, or the answer with a parameter: which one, and its place in the list
\* of parameters.
Body(n, i) == [number |-> n, index |-> i]

PeriodicCommand(k) == [key |-> k, repeats |-> TRUE, body |-> k]
Text(n) == [key |-> None, repeats |-> FALSE, body |-> Body(n, 0)]
Setpoint(n) == [key |-> NamedValue, repeats |-> FALSE, body |-> n]
Response(n, i) == [key |-> None, repeats |-> FALSE, body |-> Body(n, i)]

\* Texts are numbered from 1, datagrams and their answers from MaxTexts + 1.
Bodies == [number : 1..MaxTexts + MaxDatagrams, index : 0..ListSize]
Commands ==
    {PeriodicCommand(k) : k \in {Heartbeat, Receive}} \union {Setpoint(n) : n \in 1..MaxSetpoints}
        \union [key : {None}, repeats : {FALSE}, body : Bodies]
Items == [command : Commands, token : Nat]

MavlinkAssumption ==
    /\ Keys = {Heartbeat, Receive, NamedValue} /\ None \notin Keys \union Items
    /\ {MaxTexts, MaxSetpoints, MaxDatagrams, MaxChanges, MaxFaults, MaxEvents} \subseteq Nat
    /\ {MaxPoll, ListSize} \subseteq Nat \ {0}

----------------------------------------------------------------------------
(* The main thread.                                                          *)

\* Opening the socket may fail: start raises, and the application stops it.
Start ==
    /\ main = "off"
    /\ \/ main' = "scheduling" /\ todo' = Periodic /\ socket' = TRUE /\ StartWorker /\ UNCHANGED faults
       \/ /\ faults < MaxFaults /\ faults' = faults + 1
          /\ main' = "stopping" /\ RequestStop /\ UNCHANGED <<todo, socket>>
    /\ UNCHANGED <<armed, pollVars, gcs, texts, setpoints, datagrams, changes>>

Schedule ==
    /\ main = "scheduling"
    /\ Submit(PeriodicCommand(Head(todo)), TRUE)
    /\ todo' = Tail(todo) /\ main' = IF Tail(todo) = <<>> THEN "running" ELSE main
    /\ UNCHANGED <<socket, armed, pollVars, gcs, countVars>>

MoreEvents == texts + setpoints + datagrams + changes + faults < MaxEvents

SendText ==
    /\ main = "running" /\ MoreEvents /\ texts < MaxTexts /\ texts' = texts + 1
    /\ Submit(Text(texts'), TRUE)
    /\ UNCHANGED <<mainVars, armed, pollVars, gcs, setpoints, datagrams, changes, faults>>

SendSetpoint ==
    /\ main = "running" /\ MoreEvents /\ setpoints < MaxSetpoints /\ setpoints' = setpoints + 1
    /\ Submit(Setpoint(setpoints'), TRUE)
    /\ UNCHANGED <<mainVars, armed, pollVars, gcs, texts, datagrams, changes, faults>>

ChangeContext ==
    /\ MoreEvents /\ changes < MaxChanges /\ changes' = changes + 1 /\ armed' = ~ armed
    /\ UNCHANGED <<schedulerVars, mainVars, pollVars, gcs, texts, setpoints, datagrams, faults>>

Stop ==
    /\ main = "running" /\ main' = "stopping"
    /\ RequestStop
    /\ UNCHANGED <<todo, socket, armed, pollVars, gcs, countVars>>

\* The join ends with the worker or by its time-out; the socket is closed.
Close ==
    /\ main = "stopping" /\ main' = "closed" /\ socket' = FALSE
    /\ UNCHANGED <<schedulerVars, todo, armed, pollVars, gcs, countVars>>

----------------------------------------------------------------------------
(* The worker: what the commands do.  Without a socket they do nothing.      *)

Sent(body) ==
    CASE item.command.key = Heartbeat  -> [gcs EXCEPT !.armed = armed]
      [] item.command.key = NamedValue -> [gcs EXCEPT !.setpoint = body]
      [] item.command.key = None       -> [gcs EXCEPT !.texts = Append(@, body)]

ExecuteSend ==
    /\ item.command.key # Receive
    /\ \/ Executed(FALSE) /\ gcs' = (IF socket THEN Sent(item.command.body) ELSE gcs) /\ UNCHANGED faults
       \/ Executed(TRUE) /\ MoreEvents /\ faults < MaxFaults /\ faults' = faults + 1 /\ UNCHANGED gcs
    /\ UNCHANGED <<queueVars, active, eventVars, pollVars>>

\* A list is answered with every parameter, the first at once and the one with
\* index i after i intervals; the other requests with one.
Requests == {"read", "list"}
Indices(kind) == IF kind = "list" THEN 0..ListSize - 1 ELSE {0}

\* A poll reads at most MaxPoll datagrams.
PollEnds ==
    /\ ~ socket \/ polled = MaxPoll \/ inbox = <<>>
    /\ Executed(FALSE) /\ polled' = 0
    /\ UNCHANGED <<queueVars, active, eventVars, inbox, parser>>

\* The parser is inside a frame: bytes of this datagram complete it, or do not,
\* and what is left of them is garbage, which may begin a frame again.
Swallow ==
    /\ parser = "inside" /\ parser' \in {"boundary", "inside"}
    /\ polled' = polled + 1
    /\ UNCHANGED <<queueVars, active, workerVars, eventVars>>

Answer(d) ==
    /\ d.kind \in Requests
    /\ SubmitAll(Response(d.number, 0), {Response(d.number, i) : i \in Indices(d.kind) \ {0}})
    /\ polled' = polled + 1
    /\ UNCHANGED <<workerVars, parser>>

\* A malformed frame is discarded, one that is cut short waits for its rest.
Discard(d) ==
    /\ d.kind \in {"malformed", "cut"}
    /\ parser' = IF d.kind = "cut" THEN "inside" ELSE parser
    /\ polled' = polled + 1
    /\ UNCHANGED <<queueVars, active, workerVars, eventVars>>

\* A handler that raises ends the poll; the rest stays for the next.
Raise(d) ==
    /\ d.kind = "raising"
    /\ Executed(TRUE) /\ polled' = 0
    /\ UNCHANGED <<queueVars, active, eventVars, parser>>

\* A bug for EveryRequestAnswered: a poll empties the buffer before it handles
\* the first datagram.
RestLost(d) == IF d.kind = "raising" THEN <<>> ELSE Tail(inbox)
Rest(d) == Tail(inbox)

PollDatagram ==
    /\ socket /\ polled < MaxPoll /\ inbox # <<>>
    /\ LET d == Head(inbox) IN
         /\ inbox' = Rest(d)
         /\ IF parser = "inside" THEN Swallow ELSE Answer(d) \/ Discard(d) \/ Raise(d)

ExecuteReceive ==
    /\ item.command.key = Receive
    /\ PollEnds \/ PollDatagram
    /\ UNCHANGED <<gcs, faults>>

Execute ==
    /\ worker = "execute"
    /\ ExecuteSend \/ ExecuteReceive
    /\ UNCHANGED <<mainVars, armed, texts, setpoints, datagrams, changes>>

----------------------------------------------------------------------------

\* A datagram arrives.
Arrive(kind) ==
    /\ socket /\ MoreEvents /\ datagrams < MaxDatagrams /\ datagrams' = datagrams + 1
    /\ inbox' = Append(inbox, [kind |-> kind, number |-> MaxTexts + datagrams'])
    /\ UNCHANGED <<schedulerVars, mainVars, armed, polled, parser, gcs, texts, setpoints, changes, faults>>

Init ==
    /\ QueueInit
    /\ main = "off" /\ todo = <<>> /\ socket = FALSE /\ armed = FALSE
    /\ inbox = <<>> /\ polled = 0 /\ parser = "boundary"
    /\ gcs = [armed |-> None, setpoint |-> 0, texts |-> <<>>]
    /\ texts = 0 /\ setpoints = 0 /\ datagrams = 0 /\ changes = 0 /\ faults = 0

serviceVars == <<mainVars, armed, pollVars, gcs, countVars>>
Worker == WorkerStep /\ UNCHANGED serviceVars

\* An answer with a parameter that is not later in the list, to a request that
\* is not later, is due before the other: one thread submits them.
NotBehind(a, b) == a.number <= b.number /\ a.index <= b.index
IsNext(i) == \A j \in later \ {i} : j.command.key = None => ~ NotBehind(j.command.body, i.command.body)

DueAt(k) ==
    /\ \E i \in later : i.command.key = k /\ (k = None => IsNext(i)) /\ BecomeDue(i)
    /\ UNCHANGED serviceVars
Scheduler == Worker \/ \E k \in Keys \union {None} : DueAt(k)
Arrivals == \E kind \in Requests \union {"malformed", "cut", "raising"} : Arrive(kind)

Next ==
    \/ Start \/ Schedule \/ SendText \/ SendSetpoint \/ ChangeContext \/ Stop \/ Close
    \/ Scheduler \/ Execute \/ Arrivals

Spec == Init /\ [][Next]_vars

\* The worker thread runs and time passes.
FairSpec ==
    /\ Spec
    /\ WF_vars(Worker) /\ WF_vars(Execute) /\ \A k \in Keys \union {None} : WF_vars(DueAt(k))

----------------------------------------------------------------------------
(* Properties.                                                               *)

\* The main thread, the worker and the queue are in one of their states.
TypeOK ==
    /\ main \in {"off", "scheduling", "running", "stopping", "closed"} /\ socket \in BOOLEAN
    /\ worker \in {"none", "top", "pop", "execute", "executed", "requeue", "wait", "clear", "done"}
    /\ item = None <=> worker \notin {"execute", "executed", "requeue"}
    /\ socket <=> main \in {"scheduling", "running"} \/ (main = "stopping" /\ worker # "none")
    /\ Held \subseteq Items
    /\ polled \in 0..MaxPoll /\ parser \in {"boundary", "inside"}

\* Texts reach the ground station in the order the main thread sent them.  Of
\* two answers the one to the earlier request comes first unless it is further
\* back in its list: a read may overtake the rest of a list that was requested
\* before it, but not its own list's order.  Each comes at most once
\* (scheduler_queue.py:24 push, mavlink_wrapper.py:560, parameters/mavlink.py:70).
TextsInOrder ==
    \A a, b \in DOMAIN gcs.texts :
        a < b /\ (gcs.texts[a].number <= MaxTexts <=> gcs.texts[b].number <= MaxTexts)
            => ~ NotBehind(gcs.texts[b], gcs.texts[a])

\* However sending fails, the telemetry goes on: what the context says when it
\* changes no more reaches the station (worker.py:42 run).
KeepsBeating == <>[](main = "running") => <>[](gcs.armed = armed)

\* The last set-point is shown in the end, whatever replaced it in the queue,
\* unless a send failed.
NewestIsShown == <>[](main = "running") => <>[](gcs.setpoint = setpoints \/ faults > 0)

\* A request in the buffer that no frame cut short is in front of, nor is being
\* parsed.
IsReadable(kind, n) ==
    /\ parser = "boundary"
    /\ \E k \in DOMAIN inbox :
         /\ inbox[k].kind = kind /\ inbox[k].number = n
         /\ \A j \in 1..k - 1 : inbox[j].kind # "cut"

\* Every such request gets all its answers although datagrams around it are
\* malformed, make their handler raise or come behind it cut short, unless a
\* send failed or the service is stopped (mavlink_wrapper.py:517 _receive_pending).
EveryRequestAnswered ==
    \A kind \in Requests, n \in MaxTexts + 1..MaxTexts + MaxDatagrams :
        (main = "running" /\ IsReadable(kind, n))
            ~> \/ \A i \in Indices(kind) : Body(n, i) \in ToSet(gcs.texts)
               \/ main # "running" \/ faults > 0

\* A stop reaches the worker whatever it is doing or waiting for
\* (scheduler.py:44 stop, worker.py:36).
StopEndsWorker == stop_event ~> worker \in {"none", "done"}

=============================================================================
