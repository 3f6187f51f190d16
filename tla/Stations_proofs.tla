---------------------------- MODULE Stations_proofs ----------------------------
(* What the vehicle exchanges with its ground stations and its recorder, in   *)
(* two parts: MAVLink messages over the command scheduler, with parameters,   *)
(* and the flights, records and mailbox of the recorder; for every number of  *)
(* messages, faults, flights and frames, every buffer, every set of           *)
(* parameters and every list of limits.                                       *)
EXTENDS MCStations, SequenceTheorems, FiniteSetTheorems, WellFoundedInduction, TLAPS

----------------------------------------------------------------------------
(* Sequences.                                                                 *)

\* A set of numbers has a least one.
LEMMA LeastNumber ==
    ASSUME NEW S \in SUBSET Nat, S # {}
    PROVE  \E m \in S : \A i \in S : m <= i
<1> DEFINE R == OpToRel(<, Nat)
<1>1. \A i, j \in Nat : <<i, j>> \in R <=> i < j
    BY DEF OpToRel
<1>2. IsWellFoundedOn(R, Nat)
    BY NatLessThanWellFounded
<1> HIDE DEF R
<1>3. PICK m \in S : \A i \in S : ~ (<<i, m>> \in R)
    BY <1>2, WFMin
<1>4. \A i \in S : i \in Nat /\ m \in Nat /\ ~ (i < m)
    BY <1>1, <1>3
<1>5. \A i \in S : m <= i
    BY <1>4
<1> QED
    BY <1>5

\* A set that holds 1 and the successor of each of its numbers up to n holds 1..n + 1.
LEMMA FiniteInduction ==
    ASSUME NEW n \in Nat, NEW G, 1 \in G, \A i \in 1..n : i \in G => i + 1 \in G
    PROVE  1..(n + 1) \subseteq G
<1> SUFFICES ASSUME NEW k \in 1..(n + 1), k \notin G PROVE FALSE
    OBVIOUS
<1> DEFINE B == {i \in 1..(n + 1) : i \notin G}
<1>1. PICK m \in B : \A i \in B : m <= i
    <2>1. B \in SUBSET Nat /\ B # {}
        OBVIOUS
    <2> HIDE DEF B
    <2> QED
        BY <2>1, LeastNumber
<1>2. m # 1 /\ m - 1 \in 1..n
    BY <1>1
<1>3. m - 1 \in G
    BY <1>1, <1>2
<1> QED
    BY <1>1, <1>2, <1>3

\* The datagrams are numbered in their order.
Ascending(ds) == \A m, n \in 1..Len(ds) : m < n => ds[m].number < ds[n].number

----------------------------------------------------------------------------
(* The states of the scheduler and of the service.                            *)

AtWork == scheduler \in {"execute", "executed", "requeue"}
WorkerSteps == {"none", "top", "pop", "execute", "executed", "requeue", "wait", "clear", "done"}
Answers == MaxTexts + 1..MaxTexts + MaxDatagrams
Datagrams == [kind : {"read", "list", "malformed", "cut", "raising"}, number : Answers]
Stations == [armed : BOOLEAN \cup {None}, setpoint : Nat, texts : Seq(Mavlink!Bodies)]

SchedulerTypes ==
    /\ due \in Seq(Mavlink!Items) /\ later \in SUBSET Mavlink!Items
    /\ scheduled \in [Keys -> Nat]
    /\ scheduler \in WorkerSteps
    /\ AtWork => scheduler_item \in Mavlink!Items
    /\ ~ AtWork => scheduler_item = None

ServiceTypes ==
    /\ main \in {"off", "scheduling", "running", "stopping", "closed"}
    /\ main = "scheduling" => todo \in {Mavlink!Periodic, Tail(Mavlink!Periodic)}
    /\ socket \in BOOLEAN /\ vehicle_armed \in BOOLEAN
    /\ texts \in 0..MaxTexts /\ setpoints \in 0..MaxSetpoints
    /\ datagrams \in 0..MaxDatagrams
    /\ inbox \in Seq(Datagrams) /\ gcs \in Stations
    /\ polled \in 0..MaxPoll /\ parser \in {"boundary", "inside"}

\* Every service that has a socket has a worker, and closes the socket before it is off.
SocketIsOpen ==
    /\ main \in {"scheduling", "running"} => socket /\ scheduler # "none"
    /\ main = "stopping" => (socket <=> scheduler # "none")
    /\ main = "off" => scheduler = "none"
    /\ main \in {"off", "closed"} => ~ socket

\* A token that was given to a command is not given again.
Spent(tokens, i) == i.command.key # None => i.token <= tokens[i.command.key]

TokensAreSpent ==
    /\ \A n \in 1..Len(due) : Spent(scheduled, due[n])
    /\ \A i \in later : Spent(scheduled, i)
    /\ AtWork => Spent(scheduled, scheduler_item)

\* Two places hold no two commands of one key that are both active.
Twins(tokens, i, j) ==
    /\ i.command.key # None /\ i.command.key = j.command.key
    /\ i.token = tokens[i.command.key] /\ j.token = tokens[i.command.key]

NoTwins ==
    /\ \A m, n \in 1..Len(due) : m # n => ~ Twins(scheduled, due[m], due[n])
    /\ \A n \in 1..Len(due), i \in later : ~ Twins(scheduled, due[n], i)
    /\ \A i, j \in later : i # j => ~ Twins(scheduled, i, j)
    /\ AtWork => /\ \A n \in 1..Len(due) : ~ Twins(scheduled, due[n], scheduler_item)
                 /\ \A i \in later : ~ Twins(scheduled, i, scheduler_item)

\* Of two texts the second is not numbered before the first; of two answers it is not to
\* the same or an earlier request with the same or an earlier place in the list.
Before(a, b) == (a.number <= MaxTexts <=> b.number <= MaxTexts) => ~ Mavlink!NotBehind(b, a)

\* A text that was submitted, or an answer to a datagram that has arrived.
Known(sent, arrived, b) == b.number \in 1..sent \/ b.number \in MaxTexts + 1..MaxTexts + arrived

\* What the item sends, if it sends a text.
IsText(i) == i.command.key = None
Body(i) == i.command.body

\* A text that has been sent, or is sent or due.
Sends(b) ==
    \/ \E a \in 1..Len(gcs.texts) : b = gcs.texts[a]
    \/ \E n \in 1..Len(due) : IsText(due[n]) /\ b = Body(due[n])
    \/ scheduler = "execute" /\ IsText(scheduler_item) /\ b = Body(scheduler_item)

\* One that waits for its time is an answer, and not the first of a list.
Waits(c) == \E i \in later : IsText(i) /\ c = Body(i)
IsDelayed(c) == c.number > MaxTexts /\ c.index >= 1

\* The texts at the station, the one being sent, those in the queue and those that wait
\* follow each other.
LineInOrder ==
    /\ \A a, b \in 1..Len(gcs.texts) : a < b => Before(gcs.texts[a], gcs.texts[b])
    /\ \A m, n \in 1..Len(due) : m < n /\ IsText(due[m]) /\ IsText(due[n]) => Before(Body(due[m]), Body(due[n]))
    /\ \A a \in 1..Len(gcs.texts), n \in 1..Len(due) : IsText(due[n]) => Before(gcs.texts[a], Body(due[n]))
    /\ scheduler = "execute" /\ IsText(scheduler_item) =>
           /\ \A a \in 1..Len(gcs.texts) : Before(gcs.texts[a], Body(scheduler_item))
           /\ \A n \in 1..Len(due) : IsText(due[n]) => Before(Body(scheduler_item), Body(due[n]))
    /\ scheduler = "requeue" => ~ IsText(scheduler_item)

DelayedInOrder ==
    \A c \in Mavlink!Bodies : Waits(c) =>
        IsDelayed(c) /\ \A b \in Mavlink!Bodies : Sends(b) => Before(b, c)

\* They are known, and the datagrams in the buffer are newer than all.
IsOlder(b) == Known(texts, datagrams, b) /\ \A n \in 1..Len(inbox) : b.number < inbox[n].number

BufferIsNewer ==
    /\ \A b \in Mavlink!Bodies : Sends(b) \/ Waits(b) => IsOlder(b)
    /\ Ascending(inbox)
    /\ \A n \in 1..Len(inbox) : inbox[n].number <= MaxTexts + datagrams

----------------------------------------------------------------------------
(* Commands and items.                                                        *)

LEMMA MessageConstants ==
    /\ Keys = {"heartbeat", "receive_pending", "named_value_float"} /\ None \notin Keys
    /\ MaxTexts \in Nat /\ MaxSetpoints \in Nat /\ MaxDatagrams \in Nat
    /\ MaxPoll \in Nat /\ MaxPoll >= 1 /\ Len(Names) \in Nat /\ Len(Names) >= 1
    /\ \A i \in Mavlink!Items : i # None
<1>1. Mavlink!MavlinkAssumption
    BY InstancesAssumption
<1> QED
    BY <1>1 DEF Mavlink!MavlinkAssumption, Mavlink!Heartbeat, Mavlink!Receive, Mavlink!NamedValue

\* Texts and answers.
LEMMA BodyTypes ==
    /\ \A b \in Mavlink!Bodies : b.number \in Nat /\ b.index \in Nat
    /\ \A n \in 1..MaxTexts :
          /\ Mavlink!Body(n, 0) \in Mavlink!Bodies
          /\ Mavlink!Body(n, 0).number = n /\ Mavlink!Body(n, 0).index = 0
    /\ \A n \in Answers, i \in 0..Len(Names) :
          /\ Mavlink!Body(n, i) \in Mavlink!Bodies
          /\ Mavlink!Body(n, i).number = n /\ Mavlink!Body(n, i).index = i
<1>1. \A n, i : Mavlink!Body(n, i).number = n /\ Mavlink!Body(n, i).index = i
    BY DEF Mavlink!Body
<1>2. \A n \in 1..MaxTexts + MaxDatagrams, i \in 0..Len(Names) : Mavlink!Body(n, i) \in Mavlink!Bodies
    BY DEF Mavlink!Body, Mavlink!Bodies
<1>3. /\ 1..MaxTexts \subseteq 1..MaxTexts + MaxDatagrams /\ Answers \subseteq 1..MaxTexts + MaxDatagrams
      /\ 1..MaxTexts + MaxDatagrams \subseteq Nat /\ 0 \in 0..Len(Names) /\ 0..Len(Names) \subseteq Nat
    BY MessageConstants DEF Answers
<1>4. \A b \in Mavlink!Bodies : b.number \in Nat /\ b.index \in Nat
    BY <1>3 DEF Mavlink!Bodies
<1> QED
    BY <1>1, <1>2, <1>3, <1>4

\* The commands of the service: only a text has no key, and it does not repeat.
LEMMA CommandTypes ==
    /\ \A k \in {"heartbeat", "receive_pending"} :
          Mavlink!PeriodicCommand(k) \in Mavlink!Commands /\ Mavlink!PeriodicCommand(k).key = k
    /\ \A n \in 1..MaxTexts :
          /\ Mavlink!Text(n) \in Mavlink!Commands /\ Mavlink!Text(n).key = None
          /\ Mavlink!Text(n).body = Mavlink!Body(n, 0)
    /\ \A n \in Answers, i \in 0..Len(Names) :
          /\ Mavlink!Response(n, i) \in Mavlink!Commands /\ Mavlink!Response(n, i).key = None
          /\ Mavlink!Response(n, i).body = Mavlink!Body(n, i)
    /\ \A n \in 1..MaxSetpoints :
          Mavlink!Setpoint(n) \in Mavlink!Commands /\ Mavlink!Setpoint(n).key = "named_value_float"
    /\ \A c \in Mavlink!Commands :
          /\ c.key \in Keys \cup {None}
          /\ c.key = None => ~ c.repeats /\ c.body \in Mavlink!Bodies
          /\ c.key = "named_value_float" => c.body \in Nat
<1> USE MessageConstants
        DEF Mavlink!PeriodicCommand, Mavlink!Text, Mavlink!Setpoint, Mavlink!Response,
            Mavlink!Heartbeat, Mavlink!Receive, Mavlink!NamedValue
<1>1. \A k \in {"heartbeat", "receive_pending"} :
          Mavlink!PeriodicCommand(k) \in Mavlink!Commands /\ Mavlink!PeriodicCommand(k).key = k
    BY DEF Mavlink!Commands
<1>2. \A b \in Mavlink!Bodies : [key |-> None, repeats |-> FALSE, body |-> b] \in Mavlink!Commands
    BY DEF Mavlink!Commands
<1>3. \A n \in 1..MaxSetpoints :
          Mavlink!Setpoint(n) \in Mavlink!Commands /\ Mavlink!Setpoint(n).key = "named_value_float"
    BY DEF Mavlink!Commands
<1>4. ASSUME NEW c \in Mavlink!Commands
      PROVE  /\ c.key \in Keys \cup {None}
             /\ c.key = None => ~ c.repeats /\ c.body \in Mavlink!Bodies
             /\ c.key = "named_value_float" => c.body \in Nat
    <2>1. CASE c \in {Mavlink!PeriodicCommand(k) : k \in {"heartbeat", "receive_pending"}}
        BY <2>1
    <2>2. CASE c \in {Mavlink!Setpoint(n) : n \in 1..MaxSetpoints}
        BY <2>2
    <2>3. CASE c \in [key : {None}, repeats : {FALSE}, body : Mavlink!Bodies]
        BY <2>3
    <2> QED
        BY <2>1, <2>2, <2>3 DEF Mavlink!Commands
<1>5. \A n \in 1..MaxTexts :
          /\ Mavlink!Text(n) \in Mavlink!Commands /\ Mavlink!Text(n).key = None
          /\ Mavlink!Text(n).body = Mavlink!Body(n, 0)
    BY <1>2, BodyTypes
<1>6. \A n \in Answers, i \in 0..Len(Names) :
          /\ Mavlink!Response(n, i) \in Mavlink!Commands /\ Mavlink!Response(n, i).key = None
          /\ Mavlink!Response(n, i).body = Mavlink!Body(n, i)
    BY <1>2, BodyTypes
<1> QED
    BY <1>1, <1>3, <1>4, <1>5, <1>6

LEMMA ItemShapes ==
    ASSUME NEW i \in Mavlink!Items
    PROVE  /\ i.command \in Mavlink!Commands /\ i.token \in Nat
           /\ i.command.key \in Keys \cup {None}
           /\ IsText(i) => ~ i.command.repeats /\ Body(i) \in Mavlink!Bodies
BY CommandTypes DEF Mavlink!Items, IsText, Body

LEMMA NewItem ==
    ASSUME NEW c \in Mavlink!Commands, NEW t \in Nat
    PROVE  LET i == [command |-> c, token |-> t] IN
           i \in Mavlink!Items /\ i.command = c /\ i.token = t
BY DEF Mavlink!Items

----------------------------------------------------------------------------
(* The scheduler: no two active items of a key.                               *)

\* A fresh token makes the older items of its key inactive, for good.
LEMMA FreshToken ==
    ASSUME NEW s \in [Keys -> Nat], NEW c \in Mavlink!Commands
    PROVE  LET token == IF c.key = None THEN 0 ELSE s[c.key] + 1
               t == IF c.key = None THEN s ELSE [s EXCEPT ![c.key] = token]
               new == [command |-> c, token |-> token] IN
           /\ t \in [Keys -> Nat] /\ new \in Mavlink!Items /\ new.command = c
           /\ Spent(t, new)
           /\ \A i \in Mavlink!Items : Spent(s, i) =>
                 /\ Spent(t, i) /\ ~ Twins(t, i, new) /\ ~ Twins(t, new, i)
                 /\ \A j \in Mavlink!Items : Twins(t, i, j) => Twins(s, i, j)
<1> DEFINE token == IF c.key = None THEN 0 ELSE s[c.key] + 1
           t == IF c.key = None THEN s ELSE [s EXCEPT ![c.key] = token]
           new == [command |-> c, token |-> token]
<1>1. c.key \in Keys \cup {None} /\ None \notin Keys
    BY CommandTypes, MessageConstants
<1>2. token \in Nat /\ t \in [Keys -> Nat]
    BY <1>1
<1>3. new \in Mavlink!Items /\ new.command = c /\ new.token = token
    BY <1>2, NewItem
<1>4. c.key # None => t[c.key] = token
    BY <1>1
<1>5. \A k \in Keys : s[k] <= t[k] /\ (k = c.key => s[k] < token) /\ (k # c.key => t[k] = s[k])
    BY <1>1
<1> HIDE DEF token, t, new
<1>6. Spent(t, new)
    BY <1>2, <1>3, <1>4 DEF Spent
<1>7. ASSUME NEW i \in Mavlink!Items, Spent(s, i)
      PROVE  /\ Spent(t, i) /\ ~ Twins(t, i, new) /\ ~ Twins(t, new, i)
             /\ \A j \in Mavlink!Items : Twins(t, i, j) => Twins(s, i, j)
    <2>1. i.token \in Nat /\ i.command.key \in Keys \cup {None}
        BY ItemShapes
    <2>2. Spent(t, i)
        BY <1>2, <1>5, <1>7, <2>1 DEF Spent
    <2>3. ~ Twins(t, i, new) /\ ~ Twins(t, new, i)
        <3> SUFFICES ASSUME i.command.key = c.key, c.key # None, i.token = t[c.key] PROVE FALSE
            BY <1>3 DEF Twins
        <3>1. i.token <= s[c.key] /\ c.key \in Keys
            BY <1>1, <1>7 DEF Spent
        <3> QED
            BY <1>2, <1>4, <1>5, <2>1, <3>1
    <2>4. ASSUME NEW j \in Mavlink!Items, Twins(t, i, j) PROVE Twins(s, i, j)
        <3>1. i.command.key # c.key
            <4> SUFFICES ASSUME i.command.key = c.key PROVE FALSE
                OBVIOUS
            <4>1. c.key # None /\ i.token = t[c.key]
                BY <2>4 DEF Twins
            <4>2. i.token <= s[c.key] /\ c.key \in Keys
                BY <1>1, <1>7, <4>1 DEF Spent
            <4> QED
                BY <1>2, <1>4, <1>5, <2>1, <4>1, <4>2
        <3>2. i.command.key \in Keys
            BY <2>1, <2>4 DEF Twins
        <3>3. t[i.command.key] = s[i.command.key]
            BY <1>5, <3>1, <3>2
        <3> QED
            BY <2>4, <3>3 DEF Twins
    <2> QED
        BY <2>2, <2>3, <2>4
<1> QED
    BY <1>1, <1>2, <1>3, <1>6, <1>7 DEF token, t, new

\* A submitted command is the last in the queue and the only active one of its key.
LEMMA SubmitKeeps ==
    ASSUME SchedulerTypes, TokensAreSpent, NoTwins,
           NEW c \in Mavlink!Commands, Mavlink!Submit(c, TRUE)
    PROVE  /\ SchedulerTypes' /\ TokensAreSpent' /\ NoTwins'
           /\ \E i \in Mavlink!Items : i.command = c /\ due' = Append(due, i)
           /\ later' = later /\ scheduler' = scheduler /\ scheduler_item' = scheduler_item
<1> DEFINE token == IF c.key = None THEN 0 ELSE scheduled[c.key] + 1
           new == [command |-> c, token |-> token]
           t == IF c.key = None THEN scheduled ELSE [scheduled EXCEPT ![c.key] = token]
<1>1. /\ due \in Seq(Mavlink!Items) /\ later \in SUBSET Mavlink!Items
      /\ scheduled \in [Keys -> Nat] /\ scheduler \in WorkerSteps
      /\ AtWork => scheduler_item \in Mavlink!Items
      /\ ~ AtWork => scheduler_item = None
    BY DEF SchedulerTypes
<1>2. /\ scheduled' = t /\ due' = Append(due, new) /\ later' = later
      /\ scheduler' = scheduler /\ scheduler_item' = scheduler_item
    BY DEF Mavlink!Submit, Mavlink!Push, Mavlink!AddDue, Mavlink!NewToken, Mavlink!workerVars
<1>3. /\ t \in [Keys -> Nat] /\ new \in Mavlink!Items /\ new.command = c /\ Spent(t, new)
      /\ \A i \in Mavlink!Items : Spent(scheduled, i) =>
            /\ Spent(t, i) /\ ~ Twins(t, i, new) /\ ~ Twins(t, new, i)
            /\ \A j \in Mavlink!Items : Twins(t, i, j) => Twins(scheduled, i, j)
    BY <1>1, FreshToken
<1> HIDE DEF token, new, t
<1>4. AtWork' <=> AtWork
    BY <1>2 DEF AtWork
<1>5. SchedulerTypes'
    BY <1>1, <1>2, <1>3, <1>4 DEF SchedulerTypes
<1>6. /\ Len(due') = Len(due) + 1 /\ Len(due) \in Nat
      /\ \A n \in 1..Len(due) : due'[n] = due[n] /\ due[n] \in Mavlink!Items
      /\ due'[Len(due) + 1] = new
    BY <1>1, <1>2
<1>7. \A i \in later : i \in Mavlink!Items
    BY <1>1
<1>8. TokensAreSpent'
    <2>1. ASSUME NEW n \in 1..Len(due') PROVE Spent(t, due'[n])
        <3>1. CASE n \in 1..Len(due)
            BY <3>1, <1>3, <1>6 DEF TokensAreSpent
        <3>2. CASE n = Len(due) + 1
            BY <3>2, <1>3, <1>6
        <3> QED
            BY <3>1, <3>2, <1>6
    <2> QED
        BY <1>1, <1>2, <1>3, <1>4, <1>7, <2>1 DEF TokensAreSpent
<1>9. NoTwins'
    <2>1. \A n \in 1..Len(due) : Spent(scheduled, due[n])
        BY DEF TokensAreSpent
    <2>2. ASSUME NEW m \in 1..Len(due'), NEW n \in 1..Len(due'), m # n
          PROVE  ~ Twins(t, due'[m], due'[n])
        <3>1. CASE m \in 1..Len(due) /\ n \in 1..Len(due)
            <4>1. ~ Twins(scheduled, due[m], due[n])
                BY <2>2, <3>1 DEF NoTwins
            <4> QED
                BY <3>1, <4>1, <1>3, <1>6, <2>1
        <3>2. CASE m \in 1..Len(due) /\ n = Len(due) + 1
            BY <3>2, <1>3, <1>6, <2>1
        <3>3. CASE m = Len(due) + 1 /\ n \in 1..Len(due)
            BY <3>3, <1>3, <1>6, <2>1
        <3> QED
            BY <2>2, <3>1, <3>2, <3>3, <1>6
    <2>3. ASSUME NEW n \in 1..Len(due'), NEW i \in Mavlink!Items, Spent(scheduled, i),
                 \A m \in 1..Len(due) : ~ Twins(scheduled, due[m], i)
          PROVE  ~ Twins(t, due'[n], i)
        <3>1. CASE n \in 1..Len(due)
            BY <3>1, <1>3, <1>6, <2>1, <2>3
        <3>2. CASE n = Len(due) + 1
            BY <3>2, <1>3, <1>6, <2>3
        <3> QED
            BY <3>1, <3>2, <1>6
    <2>4. \A n \in 1..Len(due'), i \in later : ~ Twins(t, due'[n], i)
        <3> SUFFICES ASSUME NEW i \in later, NEW n \in 1..Len(due') PROVE ~ Twins(t, due'[n], i)
            OBVIOUS
        <3>1. Spent(scheduled, i) /\ \A m \in 1..Len(due) : ~ Twins(scheduled, due[m], i)
            BY DEF TokensAreSpent, NoTwins
        <3> QED
            BY <1>7, <2>3, <3>1
    <2>5. \A i, j \in later : i # j => ~ Twins(t, i, j)
        BY <1>3, <1>7 DEF NoTwins, TokensAreSpent
    <2>6. ASSUME AtWork PROVE \A n \in 1..Len(due') : ~ Twins(t, due'[n], scheduler_item)
        <3>1. /\ scheduler_item \in Mavlink!Items /\ Spent(scheduled, scheduler_item)
              /\ \A m \in 1..Len(due) : ~ Twins(scheduled, due[m], scheduler_item)
            BY <1>1, <2>6 DEF TokensAreSpent, NoTwins
        <3> QED
            BY <2>3, <3>1
    <2>7. ASSUME AtWork PROVE \A i \in later : ~ Twins(t, i, scheduler_item)
        <3>1. scheduler_item \in Mavlink!Items /\ \A i \in later : ~ Twins(scheduled, i, scheduler_item)
            BY <1>1, <2>7 DEF NoTwins
        <3> QED
            BY <1>3, <1>7, <3>1 DEF TokensAreSpent
    <2> QED
        BY <1>2, <1>4, <2>2, <2>4, <2>5, <2>6, <2>7 DEF NoTwins
<1> QED
    BY <1>2, <1>3, <1>5, <1>8, <1>9

SchedulerInvariant == SchedulerTypes /\ TokensAreSpent /\ NoTwins

\* A step that moves no item, or lets the worker drop its own.
LEMMA NoItemMoves ==
    ASSUME SchedulerInvariant, due' = due, later' = later, scheduled' = scheduled,
           scheduler' \in WorkerSteps,
           AtWork' => AtWork /\ scheduler_item' = scheduler_item,
           ~ AtWork' => scheduler_item' = None
    PROVE  SchedulerInvariant'
<1>1. SchedulerTypes'
    BY DEF SchedulerInvariant, SchedulerTypes
<1>2. TokensAreSpent'
    BY DEF SchedulerInvariant, TokensAreSpent
<1>3. NoTwins'
    BY DEF SchedulerInvariant, NoTwins
<1> QED
    BY <1>1, <1>2, <1>3 DEF SchedulerInvariant

\* A delayed command becomes due.
LEMMA BecomeDueKeeps ==
    ASSUME SchedulerInvariant, NEW i, Mavlink!BecomeDue(i)
    PROVE  /\ SchedulerInvariant'
           /\ i \in later /\ due' = Append(due, i) /\ later' = later \ {i}
           /\ scheduler' = scheduler /\ scheduler_item' = scheduler_item
<1>1. i \in later /\ due' = Append(due, i) /\ later' = later \ {i}
    BY DEF Mavlink!BecomeDue
<1>2. scheduled' = scheduled /\ scheduler' = scheduler /\ scheduler_item' = scheduler_item
    BY DEF Mavlink!BecomeDue, Mavlink!workerVars
<1>3. /\ due \in Seq(Mavlink!Items) /\ later \in SUBSET Mavlink!Items
      /\ scheduled \in [Keys -> Nat] /\ scheduler \in WorkerSteps
      /\ AtWork => scheduler_item \in Mavlink!Items
      /\ ~ AtWork => scheduler_item = None
    BY DEF SchedulerInvariant, SchedulerTypes
<1>4. AtWork' <=> AtWork
    BY <1>2 DEF AtWork
<1>5. /\ Len(due') = Len(due) + 1 /\ Len(due) \in Nat
      /\ \A n \in 1..Len(due) : due'[n] = due[n]
      /\ due'[Len(due) + 1] = i
    BY <1>1, <1>3
<1>6. SchedulerTypes'
    BY <1>1, <1>2, <1>3, <1>4 DEF SchedulerTypes
<1>7. TokensAreSpent'
    <2>1. ASSUME NEW n \in 1..Len(due') PROVE Spent(scheduled, due'[n])
        <3>1. CASE n \in 1..Len(due)
            BY <3>1, <1>5 DEF SchedulerInvariant, TokensAreSpent
        <3>2. CASE n = Len(due) + 1
            BY <3>2, <1>1, <1>5 DEF SchedulerInvariant, TokensAreSpent
        <3> QED
            BY <3>1, <3>2, <1>5
    <2> QED
        BY <2>1, <1>1, <1>2, <1>4 DEF SchedulerInvariant, TokensAreSpent
<1>8. NoTwins'
    <2>1. ASSUME NEW m \in 1..Len(due'), NEW n \in 1..Len(due'), m # n
          PROVE  ~ Twins(scheduled, due'[m], due'[n])
        <3>1. CASE m \in 1..Len(due) /\ n \in 1..Len(due)
            BY <2>1, <3>1, <1>5 DEF SchedulerInvariant, NoTwins
        <3>2. CASE m \in 1..Len(due) /\ n = Len(due) + 1
            BY <3>2, <1>1, <1>5 DEF SchedulerInvariant, NoTwins
        <3>3. CASE m = Len(due) + 1 /\ n \in 1..Len(due)
            <4>1. ~ Twins(scheduled, due[n], i)
                BY <3>3, <1>1 DEF SchedulerInvariant, NoTwins
            <4> QED
                BY <3>3, <4>1, <1>5 DEF Twins
        <3> QED
            BY <2>1, <3>1, <3>2, <3>3, <1>5
    <2>2. ASSUME NEW n \in 1..Len(due'), NEW j \in later' PROVE ~ Twins(scheduled, due'[n], j)
        <3>1. CASE n \in 1..Len(due)
            BY <3>1, <1>1, <1>5 DEF SchedulerInvariant, NoTwins
        <3>2. CASE n = Len(due) + 1
            BY <3>2, <1>1, <1>5 DEF SchedulerInvariant, NoTwins
        <3> QED
            BY <3>1, <3>2, <1>5
    <2>3. ASSUME AtWork, NEW n \in 1..Len(due') PROVE ~ Twins(scheduled, due'[n], scheduler_item)
        <3>1. CASE n \in 1..Len(due)
            BY <2>3, <3>1, <1>5 DEF SchedulerInvariant, NoTwins
        <3>2. CASE n = Len(due) + 1
            BY <2>3, <3>2, <1>1, <1>5 DEF SchedulerInvariant, NoTwins
        <3> QED
            BY <3>1, <3>2, <1>5
    <2>4. /\ \A a, b \in later' : a # b => ~ Twins(scheduled, a, b)
          /\ AtWork => \A a \in later' : ~ Twins(scheduled, a, scheduler_item)
        BY <1>1 DEF SchedulerInvariant, NoTwins
    <2> QED
        BY <1>2, <1>4, <2>1, <2>2, <2>3, <2>4 DEF NoTwins
<1> QED
    BY <1>1, <1>2, <1>6, <1>7, <1>8 DEF SchedulerInvariant

\* The first active item is one of the queue.
LEMMA FirstActiveType ==
    ASSUME Len(due) \in Nat
    PROVE  Mavlink!FirstActive \in 0..Len(due)
<1> DEFINE I == {i \in 1..Len(due) : Mavlink!IsActive(due[i])}
<1>1. Mavlink!FirstActive = IF I # {} THEN Mavlink!Min(I) ELSE 0
    BY DEF Mavlink!FirstActive, Mavlink!SelectInSeq
<1>2. I # {} => Mavlink!Min(I) \in I
    <2> SUFFICES ASSUME I # {} PROVE Mavlink!Min(I) \in I
        OBVIOUS
    <2>1. I \in SUBSET Nat
        OBVIOUS
    <2> HIDE DEF I
    <2>2. \E m \in I : \A i \in I : m <= i
        BY <2>1, LeastNumber
    <2> QED
        BY <2>2 DEF Mavlink!Min
<1> QED
    BY <1>1, <1>2

\* The worker takes one of the items of the queue and drops those in front of it.
Taken(f) ==
    /\ f \in 1..Len(due) /\ scheduler' = "execute"
    /\ scheduler_item' = due[f] /\ due' = SubSeq(due, f + 1, Len(due))
NothingTaken == due' = <<>> /\ scheduler' = "wait" /\ scheduler_item' = scheduler_item

LEMMA PopKeeps ==
    ASSUME SchedulerInvariant, Mavlink!Pop
    PROVE  /\ SchedulerInvariant'
           /\ NothingTaken \/ \E f \in Nat : Taken(f)
           /\ later' = later /\ ~ AtWork
<1>1. /\ due \in Seq(Mavlink!Items) /\ later \in SUBSET Mavlink!Items
      /\ scheduled \in [Keys -> Nat] /\ scheduler = "pop" /\ scheduler_item = None
    BY DEF SchedulerInvariant, SchedulerTypes, AtWork, Mavlink!Pop
<1>2. /\ later' = later /\ scheduled' = scheduled /\ ~ AtWork
      /\ NothingTaken \/ Taken(Mavlink!FirstActive)
    <2>1. Len(due) \in Nat /\ Mavlink!FirstActive \in 0..Len(due)
        BY <1>1, FirstActiveType
    <2> QED
        BY <1>1, <2>1 DEF Mavlink!Pop, AtWork, Taken, NothingTaken
<1>3. CASE NothingTaken
    <2>1. Len(due') = 0 /\ ~ AtWork' /\ scheduler_item' = None /\ scheduler' \in WorkerSteps
        BY <1>1, <1>3 DEF NothingTaken, AtWork, WorkerSteps
    <2>2. SchedulerTypes'
        <3>1. due' \in Seq(Mavlink!Items)
            BY <1>3, EmptySeq DEF NothingTaken
        <3> QED
            BY <1>1, <1>2, <2>1, <3>1 DEF SchedulerTypes
    <2>3. TokensAreSpent' /\ NoTwins'
        BY <1>2, <2>1 DEF SchedulerInvariant, TokensAreSpent, NoTwins
    <2> QED
        BY <1>2, <1>3, <2>2, <2>3 DEF SchedulerInvariant
<1>4. CASE Taken(Mavlink!FirstActive)
    <2> DEFINE f == Mavlink!FirstActive
    <2>1. f \in 1..Len(due) /\ Len(due) \in Nat
        BY <1>1, <1>4 DEF Taken
    <2>2. /\ scheduler_item' = due[f] /\ scheduler' = "execute" /\ AtWork'
          /\ due' = SubSeq(due, f + 1, Len(due))
        BY <1>4 DEF Taken, AtWork
    <2> HIDE DEF f
    <2>3. /\ due' \in Seq(Mavlink!Items) /\ Len(due') = Len(due) - f
          /\ \A n \in 1..Len(due') : due'[n] = due[f + n] /\ f + n \in 1..Len(due) /\ f + n # f
        BY <1>1, <2>1, <2>2
    <2>4. due[f] \in Mavlink!Items
        BY <1>1, <2>1
    <2>5. SchedulerTypes'
        BY <1>1, <1>2, <2>2, <2>3, <2>4 DEF SchedulerTypes, WorkerSteps
    <2>6. TokensAreSpent'
        BY <1>2, <2>1, <2>2, <2>3 DEF SchedulerInvariant, TokensAreSpent
    <2>7. NoTwins'
        <3>1. ASSUME NEW m \in 1..Len(due'), NEW n \in 1..Len(due'), m # n
              PROVE  ~ Twins(scheduled, due'[m], due'[n])
            <4>1. f + m # f + n
                BY <2>1, <2>3, <3>1
            <4> QED
                BY <2>3, <3>1, <4>1 DEF SchedulerInvariant, NoTwins
        <3>2. \A n \in 1..Len(due'), i \in later : ~ Twins(scheduled, due'[n], i)
            BY <2>3 DEF SchedulerInvariant, NoTwins
        <3>3. \A i, j \in later : i # j => ~ Twins(scheduled, i, j)
            BY DEF SchedulerInvariant, NoTwins
        <3>4. \A n \in 1..Len(due') : ~ Twins(scheduled, due'[n], due[f])
            BY <2>1, <2>3 DEF SchedulerInvariant, NoTwins
        <3>5. \A i \in later : ~ Twins(scheduled, i, due[f])
            BY <2>1 DEF SchedulerInvariant, NoTwins, Twins
        <3> QED
            BY <1>2, <2>2, <3>1, <3>2, <3>3, <3>4, <3>5 DEF NoTwins
    <2>8. \E g \in Nat : Taken(g)
        <3>1. f \in Nat /\ Taken(f)
            BY <1>4, <2>1 DEF f
        <3> QED
            BY <3>1
    <2> QED
        BY <1>2, <2>5, <2>6, <2>7, <2>8 DEF SchedulerInvariant
<1> QED
    BY <1>2, <1>3, <1>4

\* The worker puts its repeating item back.
LEMMA RequeueKeeps ==
    ASSUME SchedulerInvariant, Mavlink!Requeue
    PROVE  /\ SchedulerInvariant'
           /\ scheduler = "requeue" /\ AtWork
           /\ due' = due /\ later' = later \cup {scheduler_item}
           /\ scheduler' = "top" /\ scheduler_item' = None
<1>1. /\ due \in Seq(Mavlink!Items) /\ later \in SUBSET Mavlink!Items
      /\ scheduled \in [Keys -> Nat] /\ AtWork /\ scheduler_item \in Mavlink!Items
    BY DEF SchedulerInvariant, SchedulerTypes, AtWork, Mavlink!Requeue
<1> DEFINE i == scheduler_item
<1>2. /\ scheduler = "requeue" /\ due' = due /\ later' = later \cup {i}
      /\ scheduler' = "top" /\ scheduler_item' = None /\ scheduled' = scheduled /\ ~ AtWork'
    <2>1. [command |-> i.command, token |-> i.token] = i
        BY <1>1 DEF Mavlink!Items
    <2> QED
        BY <2>1 DEF Mavlink!Requeue, Mavlink!Push, AtWork
<1> HIDE DEF i
<1>3. i \in Mavlink!Items
    BY <1>1 DEF i
<1>4. SchedulerTypes'
    BY <1>1, <1>2, <1>3 DEF SchedulerTypes, WorkerSteps
<1>5. TokensAreSpent'
    BY <1>1, <1>2 DEF SchedulerInvariant, TokensAreSpent, i
<1>6. NoTwins'
    <2>1. /\ \A n \in 1..Len(due) : ~ Twins(scheduled, due[n], i)
          /\ \A j \in later : ~ Twins(scheduled, j, i)
        BY <1>1 DEF SchedulerInvariant, NoTwins, i
    <2>2. \A j \in later : ~ Twins(scheduled, i, j)
        BY <2>1 DEF Twins
    <2>3. /\ \A m, n \in 1..Len(due) : m # n => ~ Twins(scheduled, due[m], due[n])
          /\ \A n \in 1..Len(due), j \in later : ~ Twins(scheduled, due[n], j)
          /\ \A j, k \in later : j # k => ~ Twins(scheduled, j, k)
        BY DEF SchedulerInvariant, NoTwins
    <2>4. \A j, k \in later' : j # k => ~ Twins(scheduled, j, k)
        BY <1>2, <2>1, <2>2, <2>3
    <2> QED
        BY <1>2, <2>1, <2>3, <2>4 DEF NoTwins
<1> QED
    BY <1>1, <1>2, <1>4, <1>5, <1>6 DEF SchedulerInvariant, i

\* Items without a key join the queue and those that wait.
LEMMA SubmitAllKeeps ==
    ASSUME SchedulerInvariant, NEW x \in Mavlink!Items, IsText(x),
           NEW S \in SUBSET Mavlink!Items, \A i \in S : IsText(i),
           due' = Append(due, x), later' = later \cup S, scheduled' = scheduled,
           scheduler' = scheduler, scheduler_item' = scheduler_item
    PROVE  SchedulerInvariant'
<1>1. /\ due \in Seq(Mavlink!Items) /\ later \in SUBSET Mavlink!Items
      /\ scheduled \in [Keys -> Nat] /\ scheduler \in WorkerSteps
      /\ AtWork => scheduler_item \in Mavlink!Items
      /\ ~ AtWork => scheduler_item = None
    BY DEF SchedulerInvariant, SchedulerTypes
<1>2. AtWork' <=> AtWork
    BY DEF AtWork
<1>3. /\ due' \in Seq(Mavlink!Items) /\ Len(due) \in Nat /\ Len(due') = Len(due) + 1
      /\ \A n \in 1..Len(due) : due'[n] = due[n]
      /\ due'[Len(due) + 1] = x
    BY <1>1
<1>4. \A n \in 1..Len(due') : (n \in 1..Len(due) /\ due'[n] = due[n]) \/ (n = Len(due) + 1 /\ due'[n] = x)
    BY <1>3
<1>5. SchedulerTypes'
    BY <1>1, <1>2, <1>3 DEF SchedulerTypes
<1>6. \A i \in S \cup {x} : i.command.key = None
    BY DEF IsText
<1>7. \A j : \A i \in S \cup {x} : Spent(scheduled, i) /\ ~ Twins(scheduled, i, j) /\ ~ Twins(scheduled, j, i)
    BY <1>6 DEF Spent, Twins
<1>8. TokensAreSpent'
    <2>1. \A n \in 1..Len(due') : Spent(scheduled, due'[n])
        BY <1>4, <1>7 DEF SchedulerInvariant, TokensAreSpent
    <2>2. \A i \in later' : Spent(scheduled, i)
        BY <1>7 DEF SchedulerInvariant, TokensAreSpent
    <2> QED
        BY <1>2, <2>1, <2>2 DEF SchedulerInvariant, TokensAreSpent
<1>9. NoTwins'
    <2>1. ASSUME NEW m \in 1..Len(due'), NEW n \in 1..Len(due'), m # n
          PROVE  ~ Twins(scheduled, due'[m], due'[n])
        BY <1>4, <1>7, <2>1 DEF SchedulerInvariant, NoTwins
    <2>2. \A n \in 1..Len(due'), i \in later' : ~ Twins(scheduled, due'[n], i)
        BY <1>4, <1>7 DEF SchedulerInvariant, NoTwins
    <2>3. \A i, j \in later' : i # j => ~ Twins(scheduled, i, j)
        BY <1>7 DEF SchedulerInvariant, NoTwins
    <2>4. AtWork => /\ \A n \in 1..Len(due') : ~ Twins(scheduled, due'[n], scheduler_item)
                    /\ \A i \in later' : ~ Twins(scheduled, i, scheduler_item)
        BY <1>4, <1>7 DEF SchedulerInvariant, NoTwins
    <2> QED
        BY <1>2, <2>1, <2>2, <2>3, <2>4 DEF NoTwins
<1> QED
    BY <1>5, <1>8, <1>9 DEF SchedulerInvariant

----------------------------------------------------------------------------
(* The service: texts and answers keep their order.                           *)

LineInvariant == LineInOrder /\ DelayedInOrder /\ BufferIsNewer

\* Numbers of texts, of answers and of datagrams.
LEMMA NumberTypes ==
    ASSUME ServiceTypes
    PROVE  /\ texts \in Nat /\ texts <= MaxTexts /\ datagrams \in Nat
           /\ \A n \in 1..Len(inbox) : inbox[n].number \in Nat /\ inbox[n].number > MaxTexts
           /\ \A a \in 1..Len(gcs.texts) : gcs.texts[a] \in Mavlink!Bodies
           /\ Len(gcs.texts) \in Nat /\ Len(inbox) \in Nat
<1>1. gcs.texts \in Seq(Mavlink!Bodies) /\ inbox \in Seq(Datagrams)
    BY DEF ServiceTypes, Stations
<1>2. \A d \in Datagrams : d.number \in Nat /\ d.number > MaxTexts
    BY MessageConstants DEF Datagrams, Answers
<1>3. texts \in 0..MaxTexts /\ datagrams \in 0..MaxDatagrams
    BY DEF ServiceTypes
<1> QED
    BY <1>1, <1>2, <1>3, MessageConstants

\* The buffer is left alone, or the first datagram is read.
Reads == inbox' = inbox \/ (inbox # <<>> /\ inbox' = Tail(inbox))

LEMMA InboxKept ==
    ASSUME BufferIsNewer, ServiceTypes, Reads
    PROVE  /\ inbox' \in Seq(Datagrams) /\ Ascending(inbox')
           /\ \A n \in 1..Len(inbox') : \E m \in 1..Len(inbox) : inbox'[n] = inbox[m]
<1>1. inbox \in Seq(Datagrams) /\ Ascending(inbox)
    BY DEF ServiceTypes, BufferIsNewer
<1>2. CASE inbox' = inbox
    BY <1>1, <1>2
<1>3. CASE inbox # <<>> /\ inbox' = Tail(inbox)
    <2>1. /\ inbox' \in Seq(Datagrams) /\ Len(inbox') = Len(inbox) - 1 /\ Len(inbox) \in Nat
          /\ \A n \in 1..Len(inbox') : inbox'[n] = inbox[n + 1] /\ n + 1 \in 1..Len(inbox)
        BY <1>1, <1>3
    <2>2. Ascending(inbox')
        <3> SUFFICES ASSUME NEW m \in 1..Len(inbox'), NEW n \in 1..Len(inbox'), m < n
                     PROVE  inbox'[m].number < inbox'[n].number
            BY DEF Ascending
        <3>1. m + 1 < n + 1
            BY <2>1
        <3> QED
            BY <1>1, <2>1, <3>1 DEF Ascending
    <2> QED
        BY <2>1, <2>2
<1> QED
    BY <1>2, <1>3 DEF Reads

\* What was older than the buffer still is.
LEMMA OlderStays ==
    ASSUME BufferIsNewer, ServiceTypes, Reads, texts' \in {texts, texts + 1}, datagrams' = datagrams,
           NEW b, IsOlder(b)
    PROVE  IsOlder(b)'
<1>1. Known(texts, datagrams, b) /\ \A n \in 1..Len(inbox) : b.number < inbox[n].number
    BY DEF IsOlder
<1>2. \A n \in 1..Len(inbox') : b.number < inbox'[n].number
    BY <1>1, InboxKept
<1>3. Known(texts', datagrams', b)
    BY <1>1, NumberTypes DEF Known
<1> QED
    BY <1>2, <1>3 DEF IsOlder

\* Nothing new is sent, waits or is in the buffer.
LEMMA BufferStays ==
    ASSUME LineInvariant, ServiceTypes, Reads, texts' \in {texts, texts + 1}, datagrams' = datagrams,
           \A b \in Mavlink!Bodies : Sends(b)' => Sends(b),
           \A c \in Mavlink!Bodies : Waits(c)' => Waits(c)
    PROVE  DelayedInOrder' /\ BufferIsNewer'
<1>1. DelayedInOrder'
    BY DEF LineInvariant, DelayedInOrder
<1>2. BufferIsNewer /\ \A b \in Mavlink!Bodies : Sends(b) \/ Waits(b) => IsOlder(b)
    BY DEF LineInvariant, BufferIsNewer
<1>3. ASSUME NEW b \in Mavlink!Bodies, Sends(b)' \/ Waits(b)' PROVE IsOlder(b)'
    <2>1. IsOlder(b)
        BY <1>2, <1>3
    <2> QED
        BY <1>2, <2>1, OlderStays
<1>4. \A n \in 1..Len(inbox') : inbox'[n].number <= MaxTexts + datagrams'
    BY <1>2, InboxKept DEF BufferIsNewer
<1>5. BufferIsNewer'
    BY <1>2, <1>3, <1>4, InboxKept DEF BufferIsNewer
<1> QED
    BY <1>1, <1>5

\* A step that leaves the queue and the station as they are.
LEMMA LineStays ==
    ASSUME LineInvariant, ServiceTypes, Reads, due' = due, gcs'.texts = gcs.texts,
           texts' = texts, datagrams' = datagrams,
           \A c \in Mavlink!Bodies : Waits(c)' => Waits(c),
           scheduler' = "execute" => scheduler = "execute" /\ scheduler_item' = scheduler_item,
           scheduler' = "requeue" => ~ IsText(scheduler_item')
    PROVE  LineInvariant'
<1>1. LineInOrder'
    BY DEF LineInvariant, LineInOrder
<1>2. \A b \in Mavlink!Bodies : Sends(b)' => Sends(b)
    BY DEF Sends
<1> QED
    BY <1>1, <1>2, BufferStays DEF LineInvariant

\* A text that may join those that are due or wait: it is not in front of one that is sent.
Joins(x) == IsOlder(x)' /\ \A b \in Mavlink!Bodies : Sends(b) => Before(b, x)

\* Those that wait may.
LEMMA WaitingJoin ==
    ASSUME LineInvariant, ServiceTypes, Reads, texts' \in {texts, texts + 1}, datagrams' = datagrams,
           NEW c \in Mavlink!Bodies, Waits(c)
    PROVE  IsDelayed(c) /\ Joins(c)
<1>1. IsOlder(c) /\ BufferIsNewer
    BY DEF LineInvariant, BufferIsNewer
<1>2. IsOlder(c)'
    BY <1>1, OlderStays
<1> QED
    BY <1>2 DEF LineInvariant, DelayedInOrder, Joins

\* A command joins the queue, and perhaps some begin to wait.
LEMMA LineGrows ==
    ASSUME LineInvariant, ServiceTypes, SchedulerTypes, Reads,
           NEW i \in Mavlink!Items, due' = Append(due, i),
           IsText(i) => Joins(Body(i)),
           \A c \in Mavlink!Bodies : Waits(c)' =>
               IsDelayed(c) /\ Joins(c) /\ (IsText(i) => Before(Body(i), c)),
           texts' \in {texts, texts + 1},
           gcs' = gcs, datagrams' = datagrams, scheduler' = scheduler, scheduler_item' = scheduler_item
    PROVE  LineInvariant'
<1>1. /\ Len(due) \in Nat /\ Len(due') = Len(due) + 1
      /\ \A n \in 1..Len(due) : due'[n] = due[n] /\ due[n] \in Mavlink!Items
      /\ due'[Len(due) + 1] = i
    BY DEF SchedulerTypes
<1>2. \A n \in 1..Len(due') : (n \in 1..Len(due) /\ due'[n] = due[n]) \/ (n = Len(due) + 1 /\ due'[n] = i)
    BY <1>1
<1>3. \A b \in Mavlink!Bodies : Sends(b)' => Sends(b) \/ (IsText(i) /\ b = Body(i))
    BY <1>2 DEF Sends
<1>4. ASSUME IsText(i), NEW b \in Mavlink!Bodies, Sends(b) PROVE Before(b, Body(i))
    BY <1>4 DEF Joins
<1>5. LineInOrder'
    <2>1. \A a \in 1..Len(gcs.texts), n \in 1..Len(due') :
              IsText(due'[n]) => Before(gcs.texts[a], Body(due'[n]))
        <3> SUFFICES ASSUME NEW a \in 1..Len(gcs.texts), NEW n \in 1..Len(due'), IsText(due'[n])
                     PROVE  Before(gcs.texts[a], Body(due'[n]))
            OBVIOUS
        <3>1. CASE due'[n] = i
            <4>1. gcs.texts[a] \in Mavlink!Bodies /\ Sends(gcs.texts[a])
                BY NumberTypes DEF Sends
            <4> QED
                BY <3>1, <4>1, <1>4
        <3>2. CASE n \in 1..Len(due) /\ due'[n] = due[n]
            BY <3>2 DEF LineInvariant, LineInOrder
        <3> QED
            BY <3>1, <3>2, <1>2
    <2>2. \A m, n \in 1..Len(due') : m < n /\ IsText(due'[m]) /\ IsText(due'[n])
              => Before(Body(due'[m]), Body(due'[n]))
        <3> SUFFICES ASSUME NEW m \in 1..Len(due'), NEW n \in 1..Len(due'), m < n,
                            IsText(due'[m]), IsText(due'[n])
                     PROVE  Before(Body(due'[m]), Body(due'[n]))
            OBVIOUS
        <3>1. m \in 1..Len(due) /\ due'[m] = due[m]
            BY <1>1, <1>2
        <3>2. CASE due'[n] = i
            <4>1. Body(due[m]) \in Mavlink!Bodies
                BY <1>1, <3>1, ItemShapes
            <4>2. Sends(Body(due[m]))
                BY <3>1 DEF Sends
            <4> QED
                BY <3>1, <3>2, <4>1, <4>2, <1>4
        <3>3. CASE n \in 1..Len(due) /\ due'[n] = due[n]
            BY <3>1, <3>3 DEF LineInvariant, LineInOrder
        <3> QED
            BY <3>2, <3>3, <1>2
    <2>3. ASSUME scheduler = "execute", IsText(scheduler_item), NEW n \in 1..Len(due'), IsText(due'[n])
          PROVE  Before(Body(scheduler_item), Body(due'[n]))
        <3>1. CASE due'[n] = i
            <4>1. Sends(Body(scheduler_item)) /\ Body(scheduler_item) \in Mavlink!Bodies
                BY <2>3, ItemShapes DEF Sends, SchedulerTypes, AtWork
            <4> QED
                BY <2>3, <3>1, <4>1, <1>4
        <3>2. CASE n \in 1..Len(due) /\ due'[n] = due[n]
            BY <2>3, <3>2 DEF LineInvariant, LineInOrder
        <3> QED
            BY <3>1, <3>2, <1>2
    <2> QED
        BY <2>1, <2>2, <2>3 DEF LineInvariant, LineInOrder
<1>6. DelayedInOrder'
    <2> SUFFICES ASSUME NEW c \in Mavlink!Bodies, Waits(c)'
                 PROVE  IsDelayed(c) /\ \A b \in Mavlink!Bodies : Sends(b)' => Before(b, c)
        BY DEF DelayedInOrder
    <2>1. IsDelayed(c) /\ Joins(c) /\ (IsText(i) => Before(Body(i), c))
        OBVIOUS
    <2> QED
        BY <1>3, <2>1 DEF Joins
<1>7. BufferIsNewer'
    <2>1. BufferIsNewer /\ \A b \in Mavlink!Bodies : Sends(b) => IsOlder(b)
        BY DEF LineInvariant, BufferIsNewer
    <2>2. ASSUME NEW b \in Mavlink!Bodies, Sends(b)' PROVE IsOlder(b)'
        <3>1. CASE Sends(b)
            <4>1. IsOlder(b)
                BY <2>1, <3>1
            <4> QED
                BY <2>1, <4>1, OlderStays
        <3>2. CASE IsText(i) /\ b = Body(i)
            BY <3>2 DEF Joins
        <3> QED
            BY <1>3, <2>2, <3>1, <3>2
    <2>3. ASSUME NEW b \in Mavlink!Bodies, Waits(b)' PROVE IsOlder(b)'
        BY <2>3 DEF Joins
    <2>4. \A n \in 1..Len(inbox') : inbox'[n].number <= MaxTexts + datagrams'
        BY <2>1, InboxKept DEF BufferIsNewer
    <2> QED
        BY <2>1, <2>2, <2>3, <2>4, InboxKept DEF BufferIsNewer
<1> QED
    BY <1>5, <1>6, <1>7 DEF LineInvariant

\* The worker takes an item: what it sends was in the queue, in front of the rest.
LEMMA LineTaken ==
    ASSUME LineInvariant, SchedulerTypes, ServiceTypes, NEW f \in Nat, Taken(f), later' = later,
           gcs' = gcs, inbox' = inbox, texts' = texts, datagrams' = datagrams
    PROVE  LineInvariant'
<1>1. /\ f \in 1..Len(due) /\ Len(due) \in Nat /\ scheduler' = "execute"
      /\ scheduler_item' = due[f] /\ Len(due') = Len(due) - f
      /\ \A n \in 1..Len(due') : due'[n] = due[f + n] /\ f + n \in 1..Len(due) /\ f < f + n
    BY DEF Taken, SchedulerTypes
<1>2. ASSUME NEW b \in Mavlink!Bodies, Sends(b)' PROVE Sends(b)
    <2>1. CASE \E a \in 1..Len(gcs.texts) : b = gcs.texts[a]
        BY <2>1 DEF Sends
    <2>2. CASE \E n \in 1..Len(due') : IsText(due'[n]) /\ b = Body(due'[n])
        BY <2>2, <1>1 DEF Sends
    <2>3. CASE IsText(due[f]) /\ b = Body(due[f])
        BY <2>3, <1>1 DEF Sends
    <2> QED
        BY <1>1, <1>2, <2>1, <2>2, <2>3 DEF Sends
<1>3. DelayedInOrder' /\ BufferIsNewer'
    <2>1. Reads /\ \A c \in Mavlink!Bodies : Waits(c)' => Waits(c)
        BY DEF Reads, Waits
    <2> QED
        BY <1>2, <2>1, BufferStays
<1>4. \A m, n \in 1..Len(due') : m < n /\ IsText(due'[m]) /\ IsText(due'[n])
          => Before(Body(due'[m]), Body(due'[n]))
    <2> SUFFICES ASSUME NEW m \in 1..Len(due'), NEW n \in 1..Len(due'), m < n,
                        IsText(due'[m]), IsText(due'[n])
                 PROVE  Before(Body(due'[m]), Body(due'[n]))
        OBVIOUS
    <2>1. f + m < f + n
        BY <1>1
    <2> QED
        BY <1>1, <2>1 DEF LineInvariant, LineInOrder
<1>5. \A a \in 1..Len(gcs.texts), n \in 1..Len(due') : IsText(due'[n]) => Before(gcs.texts[a], Body(due'[n]))
    BY <1>1 DEF LineInvariant, LineInOrder
<1>6. IsText(due[f]) =>
          /\ \A a \in 1..Len(gcs.texts) : Before(gcs.texts[a], Body(due[f]))
          /\ \A n \in 1..Len(due') : IsText(due'[n]) => Before(Body(due[f]), Body(due'[n]))
    BY <1>1 DEF LineInvariant, LineInOrder
<1>7. LineInOrder'
    BY <1>1, <1>4, <1>5, <1>6 DEF LineInvariant, LineInOrder
<1> QED
    BY <1>3, <1>7 DEF LineInvariant

\* The worker finds nothing to take.
LEMMA LineEmpty ==
    ASSUME LineInvariant, ServiceTypes, NothingTaken, later' = later,
           gcs' = gcs, inbox' = inbox, texts' = texts, datagrams' = datagrams
    PROVE  LineInvariant'
<1>1. Len(due') = 0 /\ scheduler' = "wait"
    BY DEF NothingTaken
<1>2. \A b \in Mavlink!Bodies : Sends(b)' => Sends(b)
    BY <1>1 DEF Sends
<1>3. DelayedInOrder' /\ BufferIsNewer'
    <2>1. Reads /\ \A c \in Mavlink!Bodies : Waits(c)' => Waits(c)
        BY DEF Reads, Waits
    <2> QED
        BY <1>2, <2>1, BufferStays
<1>4. LineInOrder'
    BY <1>1 DEF LineInvariant, LineInOrder
<1> QED
    BY <1>3, <1>4 DEF LineInvariant

\* A text is sent: it joins those at the station.
LEMMA LineSent ==
    ASSUME LineInvariant, SchedulerTypes, ServiceTypes, scheduler = "execute", IsText(scheduler_item),
           scheduler' = "executed", gcs'.texts = Append(gcs.texts, Body(scheduler_item)),
           due' = due, later' = later, inbox' = inbox, texts' = texts, datagrams' = datagrams
    PROVE  LineInvariant'
<1> DEFINE x == Body(scheduler_item)
<1>1. /\ Len(gcs.texts) \in Nat /\ Len(gcs'.texts) = Len(gcs.texts) + 1
      /\ \A a \in 1..Len(gcs.texts) : gcs'.texts[a] = gcs.texts[a]
      /\ gcs'.texts[Len(gcs.texts) + 1] = x
    <2>1. gcs.texts \in Seq(Mavlink!Bodies)
        BY DEF ServiceTypes, Stations
    <2>2. x \in Mavlink!Bodies
        BY ItemShapes DEF SchedulerTypes, AtWork
    <2> HIDE DEF x
    <2> QED
        BY <2>1, <2>2 DEF x
<1>2. \A a \in 1..Len(gcs'.texts) :
          \/ a \in 1..Len(gcs.texts) /\ gcs'.texts[a] = gcs.texts[a]
          \/ a = Len(gcs.texts) + 1 /\ gcs'.texts[a] = x
    BY <1>1
<1>3. /\ \A a \in 1..Len(gcs.texts) : Before(gcs.texts[a], x)
      /\ \A n \in 1..Len(due) : IsText(due[n]) => Before(x, Body(due[n]))
    BY DEF LineInvariant, LineInOrder
<1> HIDE DEF x
<1>4. \A b \in Mavlink!Bodies : Sends(b)' => Sends(b)
    BY <1>2 DEF Sends, x
<1>5. DelayedInOrder' /\ BufferIsNewer'
    <2>1. Reads /\ \A c \in Mavlink!Bodies : Waits(c)' => Waits(c)
        BY DEF Reads, Waits
    <2> QED
        BY <1>4, <2>1, BufferStays
<1>6. \A a, b \in 1..Len(gcs'.texts) : a < b => Before(gcs'.texts[a], gcs'.texts[b])
    <2> SUFFICES ASSUME NEW a \in 1..Len(gcs'.texts), NEW b \in 1..Len(gcs'.texts), a < b
                 PROVE  Before(gcs'.texts[a], gcs'.texts[b])
        OBVIOUS
    <2>1. a \in 1..Len(gcs.texts) /\ gcs'.texts[a] = gcs.texts[a]
        BY <1>1, <1>2
    <2> QED
        BY <2>1, <1>2, <1>3 DEF LineInvariant, LineInOrder
<1>7. \A a \in 1..Len(gcs'.texts), n \in 1..Len(due) : IsText(due[n]) => Before(gcs'.texts[a], Body(due[n]))
    BY <1>2, <1>3 DEF LineInvariant, LineInOrder
<1>8. LineInOrder'
    BY <1>6, <1>7 DEF LineInvariant, LineInOrder
<1> QED
    BY <1>5, <1>8 DEF LineInvariant

\* A datagram arrives behind the others.
LEMMA LineArrives ==
    ASSUME LineInvariant, ServiceTypes, NEW d \in Datagrams, inbox' = Append(inbox, d),
           datagrams' = datagrams + 1, d.number = MaxTexts + datagrams',
           due' = due, later' = later, gcs' = gcs, texts' = texts,
           scheduler' = scheduler, scheduler_item' = scheduler_item
    PROVE  LineInvariant'
<1>1. /\ Len(inbox) \in Nat /\ Len(inbox') = Len(inbox) + 1
      /\ \A n \in 1..Len(inbox) : inbox'[n] = inbox[n]
      /\ inbox'[Len(inbox) + 1] = d
    <2>1. inbox \in Seq(Datagrams)
        BY DEF ServiceTypes
    <2> QED
        BY <2>1
<1>2. \A n \in 1..Len(inbox') :
          \/ n \in 1..Len(inbox) /\ inbox'[n] = inbox[n]
          \/ n = Len(inbox) + 1 /\ inbox'[n] = d
    BY <1>1
<1>3. LineInOrder' /\ DelayedInOrder'
    BY DEF LineInvariant, LineInOrder, DelayedInOrder, Sends, Waits
<1>4. ASSUME NEW b \in Mavlink!Bodies, Sends(b)' \/ Waits(b)' PROVE IsOlder(b)'
    <2>1. Sends(b) \/ Waits(b)
        BY <1>4 DEF Sends, Waits
    <2>2. Known(texts, datagrams, b) /\ \A n \in 1..Len(inbox) : b.number < inbox[n].number
        BY <2>1 DEF LineInvariant, BufferIsNewer, IsOlder
    <2>3. Known(texts, datagrams', b) /\ b.number < MaxTexts + datagrams'
        BY <2>2, NumberTypes, MessageConstants DEF Known
    <2> QED
        BY <1>2, <2>2, <2>3 DEF IsOlder
<1>5. Ascending(inbox')
    <2> SUFFICES ASSUME NEW m \in 1..Len(inbox'), NEW n \in 1..Len(inbox'), m < n
                 PROVE  inbox'[m].number < inbox'[n].number
        BY DEF Ascending
    <2>1. m \in 1..Len(inbox) /\ inbox'[m] = inbox[m]
        BY <1>1, <1>2
    <2>2. inbox[m].number <= MaxTexts + datagrams /\ inbox[m].number \in Nat
        BY <2>1, NumberTypes DEF LineInvariant, BufferIsNewer
    <2>3. CASE n \in 1..Len(inbox) /\ inbox'[n] = inbox[n]
        BY <2>1, <2>3 DEF LineInvariant, BufferIsNewer, Ascending
    <2>4. CASE inbox'[n] = d
        BY <2>1, <2>2, <2>4, NumberTypes, MessageConstants
    <2> QED
        BY <1>2, <2>3, <2>4
<1>6. \A n \in 1..Len(inbox') : inbox'[n].number <= MaxTexts + datagrams'
    <2> SUFFICES ASSUME NEW n \in 1..Len(inbox') PROVE inbox'[n].number <= MaxTexts + datagrams'
        OBVIOUS
    <2>1. CASE n \in 1..Len(inbox) /\ inbox'[n] = inbox[n]
        <3>1. inbox[n].number <= MaxTexts + datagrams /\ inbox[n].number \in Nat
            BY <2>1, NumberTypes DEF LineInvariant, BufferIsNewer
        <3> QED
            BY <2>1, <3>1, NumberTypes, MessageConstants
    <2>2. CASE inbox'[n] = d
        BY <2>2, NumberTypes, MessageConstants
    <2> QED
        BY <1>2, <2>1, <2>2
<1>7. BufferIsNewer'
    BY <1>4, <1>5, <1>6 DEF BufferIsNewer
<1> QED
    BY <1>3, <1>7 DEF LineInvariant

\* The first datagram is answered: the first answer is due, the others begin to wait.
LEMMA LineAnswered ==
    ASSUME LineInvariant, SchedulerTypes, ServiceTypes, inbox # <<>>, inbox' = Tail(inbox),
           NEW x \in Mavlink!Items, IsText(x), Body(x) = Mavlink!Body(inbox[1].number, 0),
           due' = Append(due, x),
           \A c \in Mavlink!Bodies : Waits(c)' =>
               Waits(c) \/ \E i \in 1..Len(Names) : c = Mavlink!Body(inbox[1].number, i),
           gcs' = gcs, texts' = texts, datagrams' = datagrams,
           scheduler' = scheduler, scheduler_item' = scheduler_item
    PROVE  LineInvariant'
<1> DEFINE n == inbox[1].number
<1>1. /\ inbox \in Seq(Datagrams) /\ 1 \in 1..Len(inbox) /\ Len(inbox) \in Nat /\ inbox[1] \in Datagrams
      /\ n \in Answers /\ n \in Nat /\ n > MaxTexts /\ n <= MaxTexts + datagrams
    <2>1. inbox \in Seq(Datagrams)
        BY DEF ServiceTypes
    <2>2. 1 \in 1..Len(inbox) /\ Len(inbox) \in Nat /\ inbox[1] \in Datagrams
        BY <2>1
    <2> QED
        BY <2>1, <2>2, NumberTypes DEF Datagrams, LineInvariant, BufferIsNewer
<1>2. \A k \in 1..Len(inbox') : n < inbox'[k].number
    <2>1. \A k \in 1..Len(inbox') : inbox'[k] = inbox[k + 1] /\ k + 1 \in 1..Len(inbox) /\ 1 < k + 1
        BY <1>1
    <2> QED
        BY <1>1, <2>1 DEF LineInvariant, BufferIsNewer, Ascending
<1>3. Reads
    BY DEF Reads
<1> HIDE DEF n
<1>4. \A i \in 0..Len(Names) :
          /\ Mavlink!Body(n, i) \in Mavlink!Bodies
          /\ Mavlink!Body(n, i).number = n /\ Mavlink!Body(n, i).index = i
    BY <1>1, BodyTypes
<1>5. \A b \in Mavlink!Bodies : b.number \in Nat /\ b.index \in Nat
    BY BodyTypes
<1>6. ASSUME NEW c \in Mavlink!Bodies, c.number = n PROVE Joins(c)
    <2>1. IsOlder(c)'
        <3>1. Known(texts', datagrams', c)
            BY <1>1, <1>6, NumberTypes, MessageConstants DEF Known
        <3> QED
            BY <1>2, <1>6, <3>1 DEF IsOlder
    <2>2. ASSUME NEW b \in Mavlink!Bodies, Sends(b) PROVE Before(b, c)
        <3>1. b.number < n
            BY <1>1, <2>2 DEF LineInvariant, BufferIsNewer, IsOlder, n
        <3>2. b.number \in Nat
            BY <1>5
        <3> QED
            BY <1>1, <1>6, <3>1, <3>2 DEF Before, Mavlink!NotBehind
    <2> QED
        BY <2>1, <2>2 DEF Joins
<1>7. 0 \in 0..Len(Names) /\ 1..Len(Names) \subseteq 0..Len(Names)
    BY MessageConstants
<1>8. Body(x) \in Mavlink!Bodies /\ Body(x).number = n /\ Body(x).index = 0
    BY <1>4, <1>7 DEF n
<1>9. ASSUME NEW c \in Mavlink!Bodies, Waits(c)'
      PROVE  IsDelayed(c) /\ Joins(c) /\ Before(Body(x), c)
    <2>1. IsDelayed(c) /\ Joins(c)
        <3>1. CASE Waits(c)
            BY <1>3, <3>1, WaitingJoin
        <3>2. ASSUME NEW i \in 1..Len(Names), c = Mavlink!Body(n, i) PROVE IsDelayed(c) /\ Joins(c)
            <4>1. c.number = n /\ c.index = i /\ i >= 1
                BY <1>4, <1>7, <3>2
            <4>2. IsDelayed(c)
                BY <1>1, <4>1 DEF IsDelayed
            <4> QED
                BY <1>6, <4>1, <4>2
        <3> QED
            BY <1>9, <3>1, <3>2 DEF n
    <2>2. c.index >= 1
        BY <2>1 DEF IsDelayed
    <2>3. c.index \in Nat
        BY <1>5
    <2>4. Before(Body(x), c)
        BY <1>8, <2>2, <2>3 DEF Before, Mavlink!NotBehind
    <2> QED
        BY <2>1, <2>4
<1>10. Joins(Body(x))
    BY <1>6, <1>8
<1> QED
    BY <1>3, <1>9, <1>10, LineGrows

----------------------------------------------------------------------------
(* The steps of the service.                                                  *)

MessagesInvariant == SchedulerInvariant /\ LineInvariant /\ ServiceTypes /\ SocketIsOpen

\* A step that moves no command and no message, but perhaps the main thread or the worker,
\* and may read the first datagram.
LEMMA QuietStep ==
    ASSUME MessagesInvariant, UNCHANGED <<due, later, scheduled, gcs, texts, datagrams>>, Reads,
           scheduler' \in WorkerSteps,
           AtWork' => AtWork /\ scheduler_item' = scheduler_item,
           ~ AtWork' => scheduler_item' = None,
           scheduler' = "execute" => scheduler = "execute",
           scheduler' = "requeue" => scheduler = "requeue" \/ ~ IsText(scheduler_item)
    PROVE  SchedulerInvariant' /\ LineInvariant'
<1>1. SchedulerInvariant'
    BY NoItemMoves DEF MessagesInvariant
<1>2. \A c \in Mavlink!Bodies : Waits(c)' => Waits(c)
    BY DEF Waits
<1>3. scheduler' = "execute" => AtWork'
    BY DEF AtWork
<1>4. scheduler' = "requeue" => ~ IsText(scheduler_item')
    BY DEF AtWork, MessagesInvariant, LineInvariant, LineInOrder
<1>5. LineInvariant'
    BY <1>2, <1>3, <1>4, LineStays DEF MessagesInvariant
<1> QED
    BY <1>1, <1>5

LEMMA MainQuiet ==
    ASSUME MessagesInvariant,
           Mavlink!Start \/ Mavlink!ChangeContext \/ Mavlink!Stop \/ Mavlink!Close
    PROVE  MessagesInvariant'
<1> USE DEF Mavlink!queueVars, Mavlink!workerVars, Mavlink!eventVars, Mavlink!schedulerVars,
            Mavlink!mainVars, Mavlink!pollVars, Mavlink!countVars
<1>1. UNCHANGED <<due, later, scheduled, gcs, inbox, polled, parser, texts, setpoints, datagrams>>
    BY DEF Mavlink!Start, Mavlink!ChangeContext, Mavlink!Stop, Mavlink!Close,
           Mavlink!StartWorker, Mavlink!RequestStop
<1>2. \/ scheduler' = "top" /\ scheduler \in {"none", "done"} /\ scheduler_item' = scheduler_item
      \/ scheduler' = scheduler /\ scheduler_item' = scheduler_item
    BY DEF Mavlink!Start, Mavlink!ChangeContext, Mavlink!Stop, Mavlink!Close,
           Mavlink!StartWorker, Mavlink!RequestStop
<1>3. /\ scheduler \in WorkerSteps
      /\ AtWork => scheduler_item \in Mavlink!Items
      /\ ~ AtWork => scheduler_item = None
    BY DEF MessagesInvariant, SchedulerInvariant, SchedulerTypes
<1>4. SchedulerInvariant' /\ LineInvariant'
    <2>1. scheduler' \in WorkerSteps
        BY <1>2, <1>3 DEF WorkerSteps
    <2>2. /\ AtWork' => AtWork /\ scheduler_item' = scheduler_item
          /\ ~ AtWork' => scheduler_item' = None
          /\ scheduler' = "execute" => scheduler = "execute"
          /\ scheduler' = "requeue" => scheduler = "requeue"
        BY <1>2, <1>3 DEF AtWork
    <2>3. Reads
        BY <1>1 DEF Reads
    <2> QED
        BY <1>1, <2>1, <2>2, <2>3, QuietStep
<1>5. ServiceTypes' /\ SocketIsOpen'
    <2>1. ServiceTypes /\ SocketIsOpen
        BY DEF MessagesInvariant
    <2>2. CASE Mavlink!Start
        <3>1. /\ main = "off" /\ vehicle_armed' = vehicle_armed
              /\ \/ main' = "scheduling" /\ todo' = Mavlink!Periodic /\ socket' = TRUE /\ scheduler' = "top"
                 \/ main' = "stopping" /\ socket' = socket /\ scheduler' = scheduler
            BY <2>2 DEF Mavlink!Start, Mavlink!StartWorker, Mavlink!RequestStop
        <3>2. scheduler = "none" /\ ~ socket
            BY <2>1, <3>1 DEF SocketIsOpen
        <3>3. CASE main' = "scheduling"
            BY <1>1, <2>1, <3>1, <3>3 DEF ServiceTypes, SocketIsOpen
        <3>4. CASE main' = "stopping"
            BY <1>1, <2>1, <3>1, <3>2, <3>4 DEF ServiceTypes, SocketIsOpen
        <3> QED
            BY <3>1, <3>3, <3>4
    <2>3. CASE Mavlink!ChangeContext
        BY <1>1, <2>1, <2>3 DEF Mavlink!ChangeContext, ServiceTypes, SocketIsOpen
    <2>4. CASE Mavlink!Stop
        BY <1>1, <2>1, <2>4 DEF Mavlink!Stop, Mavlink!RequestStop, ServiceTypes, SocketIsOpen
    <2>5. CASE Mavlink!Close
        BY <1>1, <2>1, <2>5 DEF Mavlink!Close, ServiceTypes, SocketIsOpen
    <2> QED
        BY <2>2, <2>3, <2>4, <2>5
<1> QED
    BY <1>4, <1>5 DEF MessagesInvariant

\* The main thread submits a periodic command, a text or a set-point.
LEMMA SubmitStep ==
    ASSUME MessagesInvariant, NEW c \in Mavlink!Commands, Mavlink!Submit(c, TRUE),
           UNCHANGED <<gcs, inbox, datagrams>>,
           c.key = None => texts' = texts + 1 /\ c.body = Mavlink!Body(texts', 0) /\ texts' \in 1..MaxTexts,
           texts' \in {texts, texts + 1}
    PROVE  SchedulerInvariant' /\ LineInvariant'
<1>1. /\ SchedulerInvariant'
      /\ \E i \in Mavlink!Items : i.command = c /\ due' = Append(due, i)
      /\ later' = later /\ scheduler' = scheduler /\ scheduler_item' = scheduler_item
    BY SubmitKeeps DEF MessagesInvariant, SchedulerInvariant
<1>2. PICK i \in Mavlink!Items : i.command = c /\ due' = Append(due, i)
    BY <1>1
<1>3. LineInvariant /\ ServiceTypes /\ SchedulerTypes /\ Reads
    BY DEF MessagesInvariant, SchedulerInvariant, Reads
<1>4. \A b \in Mavlink!Bodies : b.number \in Nat
    BY BodyTypes
<1>5. ASSUME IsText(i)
      PROVE  /\ Body(i) \in Mavlink!Bodies /\ Body(i).number = texts' /\ texts' = texts + 1
             /\ texts' <= MaxTexts /\ texts' \in Nat
    BY <1>2, <1>5, BodyTypes, MessageConstants DEF IsText, Body
<1>6. ASSUME IsText(i) PROVE Joins(Body(i))
    <2>1. IsOlder(Body(i))'
        <3>1. Known(texts', datagrams', Body(i))
            BY <1>3, <1>5, <1>6, NumberTypes DEF Known
        <3>2. \A n \in 1..Len(inbox') : Body(i).number < inbox'[n].number
            BY <1>3, <1>5, <1>6, NumberTypes, MessageConstants
        <3> QED
            BY <3>1, <3>2 DEF IsOlder
    <2>2. ASSUME NEW b \in Mavlink!Bodies, Sends(b) PROVE Before(b, Body(i))
        <3>1. Known(texts, datagrams, b)
            BY <1>3, <2>2 DEF LineInvariant, BufferIsNewer, IsOlder
        <3> QED
            BY <1>3, <1>4, <1>5, <1>6, <3>1, NumberTypes, MessageConstants
               DEF Known, Before, Mavlink!NotBehind
    <2> QED
        BY <2>1, <2>2 DEF Joins
<1>7. ASSUME NEW e \in Mavlink!Bodies, Waits(e)'
      PROVE  IsDelayed(e) /\ Joins(e) /\ (IsText(i) => Before(Body(i), e))
    <2>1. Waits(e)
        BY <1>1, <1>7 DEF Waits
    <2>2. IsDelayed(e) /\ Joins(e)
        BY <1>3, <2>1, WaitingJoin
    <2>3. IsText(i) => Before(Body(i), e)
        BY <1>4, <1>5, <2>2, MessageConstants DEF IsDelayed, Before
    <2> QED
        BY <2>2, <2>3
<1>8. LineInvariant'
    BY <1>1, <1>2, <1>3, <1>6, <1>7, LineGrows
<1> QED
    BY <1>1, <1>8

LEMMA MainSubmits ==
    ASSUME MessagesInvariant, Mavlink!Schedule \/ Mavlink!SendText \/ Mavlink!SendSetpoint
    PROVE  MessagesInvariant'
<1> USE DEF Mavlink!workerVars, Mavlink!mainVars, Mavlink!pollVars, Mavlink!countVars
<1>1. ServiceTypes /\ SocketIsOpen
    BY DEF MessagesInvariant
<1>2. CASE Mavlink!Schedule
    <2> DEFINE c == Mavlink!PeriodicCommand(Head(todo))
    <2>1. Head(todo) \in {"heartbeat", "receive_pending"} /\ Tail(todo) \in {<<>>, Tail(Mavlink!Periodic)}
        <3>1. todo \in {Mavlink!Periodic, Tail(Mavlink!Periodic)}
            BY <1>1, <1>2 DEF Mavlink!Schedule, ServiceTypes
        <3>2. /\ Mavlink!Periodic = <<"heartbeat", "receive_pending">>
              /\ Tail(Mavlink!Periodic) = <<"receive_pending">>
            BY DEF Mavlink!Periodic, Mavlink!Heartbeat, Mavlink!Receive
        <3>3. Head(Mavlink!Periodic) = "heartbeat"
            BY <3>2
        <3>4. /\ Head(Tail(Mavlink!Periodic)) = "receive_pending"
              /\ Tail(Tail(Mavlink!Periodic)) = <<>>
            BY <3>2
        <3> QED
            BY <3>1, <3>3, <3>4
    <2>2. c \in Mavlink!Commands /\ c.key # None
        BY <2>1, CommandTypes, MessageConstants
    <2>3. /\ Mavlink!Submit(c, TRUE) /\ scheduler' = scheduler
          /\ UNCHANGED <<gcs, inbox, polled, parser, datagrams, texts, setpoints, socket, vehicle_armed>>
        BY <1>2 DEF Mavlink!Schedule, Mavlink!Submit
    <2> HIDE DEF c
    <2>4. SchedulerInvariant' /\ LineInvariant'
        BY <2>2, <2>3, SubmitStep
    <2>5. ServiceTypes' /\ SocketIsOpen'
        <3>1. /\ main = "scheduling" /\ main' \in {"scheduling", "running"}
              /\ main' = "scheduling" => todo' = Tail(todo) /\ Tail(todo) # <<>>
            BY <1>2 DEF Mavlink!Schedule
        <3> QED
            BY <1>1, <2>1, <2>3, <3>1 DEF ServiceTypes, SocketIsOpen
    <2> QED
        BY <2>4, <2>5 DEF MessagesInvariant
<1>3. CASE Mavlink!SendText
    <2> DEFINE c == Mavlink!Text(texts')
    <2>1. texts \in 0..MaxTexts /\ texts < MaxTexts /\ texts' = texts + 1
        BY <1>1, <1>3 DEF Mavlink!SendText, ServiceTypes
    <2>2. texts' \in 1..MaxTexts /\ texts' \in 0..MaxTexts
        BY <2>1, MessageConstants
    <2>3. c \in Mavlink!Commands /\ c.body = Mavlink!Body(texts', 0)
        BY <2>2, CommandTypes
    <2>4. /\ Mavlink!Submit(c, TRUE) /\ scheduler' = scheduler
          /\ UNCHANGED <<gcs, inbox, polled, parser, datagrams, setpoints, main, todo, socket, vehicle_armed>>
        BY <1>3 DEF Mavlink!SendText, Mavlink!Submit
    <2> HIDE DEF c
    <2>5. SchedulerInvariant' /\ LineInvariant'
        BY <2>1, <2>2, <2>3, <2>4, SubmitStep
    <2>6. ServiceTypes' /\ SocketIsOpen'
        BY <1>1, <2>2, <2>4 DEF ServiceTypes, SocketIsOpen
    <2> QED
        BY <2>5, <2>6 DEF MessagesInvariant
<1>4. CASE Mavlink!SendSetpoint
    <2> DEFINE c == Mavlink!Setpoint(setpoints')
    <2>1. setpoints' \in 1..MaxSetpoints
        BY <1>1, <1>4, MessageConstants DEF Mavlink!SendSetpoint, ServiceTypes
    <2>2. c \in Mavlink!Commands /\ c.key # None
        BY <2>1, CommandTypes, MessageConstants
    <2>3. /\ Mavlink!Submit(c, TRUE) /\ scheduler' = scheduler
          /\ UNCHANGED <<gcs, inbox, polled, parser, datagrams, texts, main, todo, socket, vehicle_armed>>
        BY <1>4 DEF Mavlink!SendSetpoint, Mavlink!Submit
    <2> HIDE DEF c
    <2>4. SchedulerInvariant' /\ LineInvariant'
        BY <2>2, <2>3, SubmitStep
    <2>5. ServiceTypes' /\ SocketIsOpen'
        <3>1. setpoints' \in 0..MaxSetpoints
            BY <2>1, MessageConstants
        <3> QED
            BY <1>1, <2>3, <3>1 DEF ServiceTypes, SocketIsOpen
    <2> QED
        BY <2>4, <2>5 DEF MessagesInvariant
<1> QED
    BY <1>2, <1>3, <1>4

\* The main thread's view does not depend on what the worker does next.
LEMMA WorkerLeavesMain ==
    ASSUME ServiceTypes, SocketIsOpen, UNCHANGED <<main, todo, socket, vehicle_armed, texts, setpoints>>,
           datagrams' \in 0..MaxDatagrams, inbox' \in Seq(Datagrams), gcs' \in Stations,
           polled' \in 0..MaxPoll, parser' \in {"boundary", "inside"},
           scheduler' = "none" <=> scheduler = "none"
    PROVE  ServiceTypes' /\ SocketIsOpen'
<1>1. ServiceTypes'
    BY DEF ServiceTypes
<1>2. SocketIsOpen'
    BY DEF SocketIsOpen
<1> QED
    BY <1>1, <1>2

LEMMA WorkerMoves ==
    ASSUME MessagesInvariant, Mavlink!Scheduler
    PROVE  MessagesInvariant'
<1> USE DEF Mavlink!queueVars, Mavlink!workerVars, Mavlink!eventVars
<1>1. UNCHANGED <<main, todo, socket, vehicle_armed, inbox, polled, parser, gcs, texts, setpoints, datagrams>>
    BY DEF Mavlink!Scheduler, Mavlink!Worker, Mavlink!DueAt, Mavlink!serviceVars, Mavlink!mainVars,
           Mavlink!pollVars, Mavlink!countVars
<1>2. /\ SchedulerInvariant /\ LineInvariant /\ ServiceTypes /\ SocketIsOpen /\ SchedulerTypes
      /\ scheduler \in WorkerSteps
      /\ AtWork => scheduler_item \in Mavlink!Items
      /\ ~ AtWork => scheduler_item = None
    BY DEF MessagesInvariant, SchedulerInvariant, SchedulerTypes
<1>3. (scheduler' = "none" <=> scheduler = "none") => ServiceTypes' /\ SocketIsOpen'
    <2>1. /\ datagrams' \in 0..MaxDatagrams /\ inbox' \in Seq(Datagrams) /\ gcs' \in Stations
          /\ polled' \in 0..MaxPoll /\ parser' \in {"boundary", "inside"}
        BY <1>1, <1>2 DEF ServiceTypes
    <2> QED
        BY <1>1, <1>2, <2>1, WorkerLeavesMain
<1>4. CASE Mavlink!Pop
    <2>1. /\ SchedulerInvariant' /\ later' = later
          /\ NothingTaken \/ \E f \in Nat : Taken(f)
        BY <1>2, <1>4, PopKeeps
    <2>2. LineInvariant'
        BY <1>1, <1>2, <2>1, LineTaken, LineEmpty
    <2>3. scheduler = "pop" /\ scheduler' \in {"wait", "execute"}
        BY <1>4, <2>1 DEF Mavlink!Pop, Taken, NothingTaken
    <2> QED
        BY <1>2, <1>3, <2>1, <2>2, <2>3 DEF MessagesInvariant
<1>5. CASE Mavlink!Requeue
    <2>1. /\ SchedulerInvariant' /\ scheduler = "requeue"
          /\ due' = due /\ later' = later \cup {scheduler_item}
          /\ scheduler' = "top"
        BY <1>2, <1>5, RequeueKeeps
    <2>2. Reads /\ \A c \in Mavlink!Bodies : Waits(c)' => Waits(c)
        BY <1>1, <1>2, <2>1 DEF LineInvariant, LineInOrder, Waits, Reads
    <2>3. LineInvariant'
        BY <1>1, <1>2, <2>1, <2>2, LineStays
    <2> QED
        BY <1>2, <1>3, <2>1, <2>3 DEF MessagesInvariant
<1>6. CASE Mavlink!Top \/ Mavlink!Woken \/ Mavlink!Clear
    <2>1. /\ UNCHANGED <<due, later, scheduled, scheduler_item>>
          /\ scheduler \in {"top", "wait", "clear"} /\ scheduler' \in {"done", "pop", "clear", "top"}
        BY <1>6 DEF Mavlink!Top, Mavlink!Woken, Mavlink!Clear
    <2>2. ~ AtWork /\ ~ AtWork' /\ scheduler' \in WorkerSteps
        BY <2>1 DEF AtWork, WorkerSteps
    <2>3. SchedulerInvariant' /\ LineInvariant'
        BY <1>1, <1>2, <2>1, <2>2, QuietStep DEF Reads
    <2> QED
        BY <1>2, <1>3, <2>1, <2>3 DEF MessagesInvariant
<1>7. CASE Mavlink!AfterExecute
    <2>1. /\ UNCHANGED <<due, later, scheduled>> /\ scheduler = "executed"
          /\ \/ scheduler' = "requeue" /\ scheduler_item.command.repeats /\ scheduler_item' = scheduler_item
             \/ scheduler' = "top" /\ scheduler_item' = None
        BY <1>7 DEF Mavlink!AfterExecute
    <2>2. AtWork /\ (AtWork' <=> scheduler' = "requeue") /\ scheduler' \in WorkerSteps
        BY <2>1 DEF AtWork, WorkerSteps
    <2>3. scheduler' = "requeue" => ~ IsText(scheduler_item)
        BY <1>2, <2>1, <2>2, ItemShapes
    <2>4. SchedulerInvariant' /\ LineInvariant'
        BY <1>1, <1>2, <2>1, <2>2, <2>3, QuietStep DEF Reads
    <2> QED
        BY <1>2, <1>3, <2>1, <2>4 DEF MessagesInvariant
<1>8. ASSUME NEW i \in later, Mavlink!BecomeDue(i), IsText(i) => Mavlink!IsNext(i)
      PROVE  MessagesInvariant'
    <2>1. /\ SchedulerInvariant'
          /\ due' = Append(due, i) /\ later' = later \ {i}
          /\ scheduler' = scheduler /\ scheduler_item' = scheduler_item
        BY <1>2, <1>8, BecomeDueKeeps
    <2>2. i \in Mavlink!Items /\ Reads
        BY <1>1, <1>2 DEF SchedulerTypes, Reads
    <2>3. IsText(i) => Joins(Body(i))
        <3>1. ASSUME IsText(i) PROVE Body(i) \in Mavlink!Bodies /\ Waits(Body(i))
            BY <2>2, <3>1, ItemShapes DEF Waits
        <3> QED
            BY <1>1, <1>2, <2>2, <3>1, WaitingJoin
    <2>4. ASSUME NEW c \in Mavlink!Bodies, Waits(c)'
          PROVE  IsDelayed(c) /\ Joins(c) /\ (IsText(i) => Before(Body(i), c))
        <3>1. PICK j \in later \ {i} : IsText(j) /\ c = Body(j)
            BY <2>1, <2>4 DEF Waits
        <3>2. Waits(c)
            BY <3>1 DEF Waits
        <3>3. IsDelayed(c) /\ Joins(c)
            BY <1>1, <1>2, <2>2, <3>2, WaitingJoin
        <3>4. IsText(i) => ~ Mavlink!NotBehind(Body(j), Body(i))
            BY <1>8, <3>1 DEF Mavlink!IsNext, IsText, Body
        <3> QED
            BY <3>1, <3>3, <3>4 DEF Before
    <2>5. LineInvariant'
        BY <1>1, <1>2, <2>1, <2>2, <2>3, <2>4, LineGrows
    <2> QED
        BY <1>2, <1>3, <2>1, <2>5 DEF MessagesInvariant
<1>9. ASSUME NEW k, Mavlink!DueAt(k) PROVE MessagesInvariant'
    <2>1. PICK i \in later : i.command.key = k /\ (k = None => Mavlink!IsNext(i)) /\ Mavlink!BecomeDue(i)
        BY <1>9 DEF Mavlink!DueAt
    <2> QED
        BY <1>8, <2>1 DEF IsText
<1> QED
    BY <1>4, <1>5, <1>6, <1>7, <1>9
       DEF Mavlink!Scheduler, Mavlink!Worker, Mavlink!WorkerStep

\* A datagram that arrives.
LEMMA ArriveStep ==
    ASSUME MessagesInvariant, Mavlink!Arrivals
    PROVE  MessagesInvariant'
<1> USE DEF Mavlink!queueVars, Mavlink!workerVars, Mavlink!eventVars, Mavlink!schedulerVars, Mavlink!mainVars
<1>1. PICK kind \in {"read", "list", "malformed", "cut", "raising"} : Mavlink!Arrive(kind)
    BY DEF Mavlink!Arrivals, Mavlink!Requests
<1> DEFINE d == [kind |-> kind, number |-> MaxTexts + datagrams']
<1>2. /\ inbox' = Append(inbox, d) /\ datagrams' = datagrams + 1 /\ datagrams < MaxDatagrams
      /\ UNCHANGED <<due, later, scheduled, scheduler, scheduler_item, main, todo, socket, vehicle_armed,
                     polled, parser, gcs, texts, setpoints>>
    BY <1>1 DEF Mavlink!Arrive
<1>3. SchedulerInvariant /\ LineInvariant /\ ServiceTypes /\ SocketIsOpen /\ SchedulerTypes
    BY DEF MessagesInvariant, SchedulerInvariant
<1>4. datagrams' \in 1..MaxDatagrams /\ inbox \in Seq(Datagrams) /\ gcs \in Stations
    <2>1. datagrams \in 0..MaxDatagrams /\ inbox \in Seq(Datagrams) /\ gcs \in Stations
        BY <1>3 DEF ServiceTypes
    <2>2. datagrams' \in 1..MaxDatagrams
        BY <1>2, <2>1, MessageConstants
    <2> QED
        BY <2>1, <2>2
<1>5. d \in Datagrams /\ d.number = MaxTexts + datagrams'
    <2>1. MaxTexts + datagrams' \in Answers
        <3>1. \A a, b \in Nat : \A n \in 1..b : a + n \in a + 1..a + b
            OBVIOUS
        <3>2. MaxTexts \in Nat /\ MaxDatagrams \in Nat /\ datagrams' \in 1..MaxDatagrams
            BY <1>4, MessageConstants
        <3> QED
            BY Zenon, <3>1, <3>2 DEF Answers
    <2> QED
        BY <2>1 DEF Datagrams
<1> HIDE DEF d
<1>6. SchedulerInvariant'
    <2>1. AtWork' <=> AtWork
        BY <1>2 DEF AtWork
    <2> QED
        BY <1>2, <1>3, <2>1, NoItemMoves DEF SchedulerTypes
<1>7. LineInvariant'
    BY <1>2, <1>3, <1>5, LineArrives
<1>8. ServiceTypes' /\ SocketIsOpen'
    <2>1. /\ inbox' \in Seq(Datagrams) /\ datagrams' \in 0..MaxDatagrams
          /\ polled' \in 0..MaxPoll /\ parser' \in {"boundary", "inside"}
        BY <1>2, <1>3, <1>4, <1>5 DEF ServiceTypes
    <2> QED
        BY <1>2, <1>3, <1>4, <2>1, WorkerLeavesMain
<1> QED
    BY <1>6, <1>7, <1>8 DEF MessagesInvariant

\* A command that sends: telemetry, a set-point or a text.
LEMMA SendStep ==
    ASSUME MessagesInvariant, scheduler = "execute", Mavlink!ExecuteSend,
           UNCHANGED <<main, todo, socket, vehicle_armed, texts, setpoints, datagrams>>
    PROVE  MessagesInvariant'
<1> USE DEF Mavlink!queueVars, Mavlink!eventVars, Mavlink!pollVars
<1>1. /\ SchedulerInvariant /\ LineInvariant /\ ServiceTypes /\ SocketIsOpen /\ SchedulerTypes
      /\ scheduler_item \in Mavlink!Items /\ vehicle_armed \in BOOLEAN /\ gcs \in Stations
    BY DEF MessagesInvariant, SchedulerInvariant, SchedulerTypes, AtWork, ServiceTypes
<1>2. /\ UNCHANGED <<due, later, scheduled, inbox, polled, parser, scheduler_item>> /\ scheduler' = "executed"
      /\ scheduler_item.command.key # "receive_pending"
      /\ gcs' = gcs \/ gcs' = Mavlink!Sent(scheduler_item.command.body)
    BY DEF Mavlink!ExecuteSend, Mavlink!Executed, Mavlink!Receive
<1>3. AtWork /\ AtWork' /\ scheduler' \in WorkerSteps
    BY <1>2 DEF AtWork, WorkerSteps
<1>4. CASE gcs' = gcs
    <2>1. SchedulerInvariant' /\ LineInvariant'
        BY <1>2, <1>3, <1>4, QuietStep DEF Reads
    <2>2. /\ datagrams' \in 0..MaxDatagrams /\ inbox' \in Seq(Datagrams) /\ gcs' \in Stations
          /\ polled' \in 0..MaxPoll /\ parser' \in {"boundary", "inside"}
        BY <1>1, <1>2, <1>4 DEF ServiceTypes
    <2>3. ServiceTypes' /\ SocketIsOpen'
        BY <1>1, <1>2, <2>2, WorkerLeavesMain
    <2> QED
        BY <2>1, <2>3 DEF MessagesInvariant
<1>5. CASE gcs' = Mavlink!Sent(scheduler_item.command.body)
    <2> DEFINE key == scheduler_item.command.key  body == scheduler_item.command.body
    <2>1. /\ key \in {"heartbeat", "named_value_float", None} /\ None \notin {"heartbeat", "named_value_float"}
          /\ key = None => body \in Mavlink!Bodies
          /\ key = "named_value_float" => body \in Nat
        BY <1>1, <1>2, ItemShapes, CommandTypes, MessageConstants
    <2>2. /\ key = "heartbeat" => gcs' = [gcs EXCEPT !.armed = vehicle_armed]
          /\ key = "named_value_float" => gcs' = [gcs EXCEPT !.setpoint = body]
          /\ key = None => gcs' = [gcs EXCEPT !.texts = Append(@, body)]
        BY <1>5, <2>1 DEF Mavlink!Sent, Mavlink!Heartbeat, Mavlink!NamedValue
    <2>3. /\ gcs' \in Stations
          /\ key # None => gcs'.texts = gcs.texts
          /\ key = None => gcs'.texts = Append(gcs.texts, body)
        <3>1. gcs.texts \in Seq(Mavlink!Bodies)
            BY <1>1 DEF Stations
        <3>2. key = None => Append(gcs.texts, body) \in Seq(Mavlink!Bodies)
            BY <2>1, <3>1
        <3> HIDE DEF key, body
        <3> QED
            BY <1>1, <2>1, <2>2, <3>2 DEF Stations
    <2>4. SchedulerInvariant'
        BY <1>1, <1>2, <1>3, NoItemMoves
    <2>5. LineInvariant'
        <3>1. CASE key = None
            BY <1>1, <1>2, <2>3, <3>1, LineSent DEF IsText, Body
        <3>2. CASE key # None
            <4>1. Reads /\ \A c \in Mavlink!Bodies : Waits(c)' => Waits(c)
                BY <1>2 DEF Reads, Waits
            <4> QED
                BY <1>1, <1>2, <2>3, <3>2, <4>1, LineStays
        <3> QED
            BY <3>1, <3>2
    <2>6. /\ datagrams' \in 0..MaxDatagrams /\ inbox' \in Seq(Datagrams)
          /\ polled' \in 0..MaxPoll /\ parser' \in {"boundary", "inside"}
        BY <1>1, <1>2 DEF ServiceTypes
    <2>7. ServiceTypes' /\ SocketIsOpen'
        BY <1>1, <1>2, <2>3, <2>6, WorkerLeavesMain
    <2> QED
        BY <2>4, <2>5, <2>7 DEF MessagesInvariant
<1> QED
    BY <1>2, <1>4, <1>5

\* The command that reads the socket: it reads a datagram and answers it, or ends.
LEMMA ReceiveStep ==
    ASSUME MessagesInvariant, scheduler = "execute", Mavlink!ExecuteReceive,
           UNCHANGED <<main, todo, socket, vehicle_armed, texts, setpoints, datagrams>>
    PROVE  MessagesInvariant'
<1> USE DEF Mavlink!queueVars, Mavlink!workerVars, Mavlink!eventVars
<1>1. /\ SchedulerInvariant /\ LineInvariant /\ ServiceTypes /\ SocketIsOpen /\ SchedulerTypes
      /\ gcs \in Stations /\ inbox \in Seq(Datagrams) /\ datagrams \in 0..MaxDatagrams
      /\ polled \in 0..MaxPoll /\ parser \in {"boundary", "inside"} /\ BufferIsNewer
      /\ AtWork /\ later \in SUBSET Mavlink!Items
    BY DEF MessagesInvariant, SchedulerInvariant, SchedulerTypes, ServiceTypes, LineInvariant, AtWork
<1>2. gcs' = gcs
    BY DEF Mavlink!ExecuteReceive
<1>3. ASSUME Reads, polled' \in 0..MaxPoll, parser' \in {"boundary", "inside"},
             scheduler' \in {"execute", "executed"}
      PROVE  ServiceTypes' /\ SocketIsOpen'
    <2>1. inbox' \in Seq(Datagrams)
        BY <1>1, <1>3, InboxKept
    <2> QED
        BY <1>1, <1>2, <1>3, <2>1, WorkerLeavesMain
<1>4. ASSUME Reads, polled' \in 0..MaxPoll, parser' \in {"boundary", "inside"},
             UNCHANGED <<due, later, scheduled, scheduler_item>>, scheduler' \in {"execute", "executed"}
      PROVE  MessagesInvariant'
    <2>1. AtWork' /\ scheduler' \in WorkerSteps /\ scheduler' # "requeue"
        BY <1>4 DEF AtWork, WorkerSteps
    <2>2. SchedulerInvariant' /\ LineInvariant'
        BY <1>1, <1>2, <1>4, <2>1, QuietStep
    <2> QED
        BY <1>3, <1>4, <2>2 DEF MessagesInvariant
<1>5. CASE Mavlink!PollEnds
    <2>1. /\ inbox' = inbox /\ polled' = 0 /\ parser' = parser /\ scheduler' = "executed"
          /\ UNCHANGED <<due, later, scheduled, scheduler_item>>
        BY <1>5 DEF Mavlink!PollEnds, Mavlink!Executed
    <2>2. Reads /\ polled' \in 0..MaxPoll
        BY <2>1, MessageConstants DEF Reads
    <2> QED
        BY <1>1, <1>4, <2>1, <2>2
<1>6. CASE Mavlink!PollDatagram
    <2> DEFINE d == Head(inbox)
    <2>1. /\ inbox # <<>> /\ inbox' = Tail(inbox) /\ polled < MaxPoll
          /\ Mavlink!Swallow \/ Mavlink!Answer(d) \/ Mavlink!Discard(d) \/ Mavlink!Raise(d)
        BY <1>6 DEF Mavlink!PollDatagram, Mavlink!Rest
    <2>2. Reads /\ polled + 1 \in 0..MaxPoll /\ 0 \in 0..MaxPoll
        BY <1>1, <2>1, MessageConstants DEF Reads
    <2>3. d = inbox[1] /\ d \in Datagrams /\ d.number \in Answers
        <3>1. d = inbox[1] /\ d \in Datagrams
            BY <1>1, <2>1
        <3> QED
            BY <3>1 DEF Datagrams
    <2> HIDE DEF d
    <2>4. CASE Mavlink!Swallow \/ Mavlink!Discard(d)
        <3>1. /\ polled' = polled + 1 /\ parser' \in {"boundary", "inside"}
              /\ UNCHANGED <<due, later, scheduled, scheduler, scheduler_item>>
            BY <1>1, <2>4 DEF Mavlink!Swallow, Mavlink!Discard
        <3> QED
            BY <1>4, <2>2, <3>1
    <2>5. CASE Mavlink!Raise(d)
        <3>1. /\ polled' = 0 /\ parser' = parser /\ scheduler' = "executed"
              /\ UNCHANGED <<due, later, scheduled, scheduler_item>>
            BY <2>5 DEF Mavlink!Raise, Mavlink!Executed
        <3> QED
            BY <1>1, <1>4, <2>2, <3>1
    <2>6. CASE Mavlink!Answer(d)
        <3> DEFINE Answered(i) == [command |-> Mavlink!Response(d.number, i), token |-> 0]
                   delayed == Mavlink!Indices(d.kind) \ {0}
                   S == {Answered(i) : i \in delayed}
        <3>1. /\ due' = Append(due, Answered(0)) /\ later' = later \cup S
              /\ scheduled' = scheduled /\ scheduler' = scheduler /\ scheduler_item' = scheduler_item
              /\ polled' = polled + 1 /\ parser' = parser
            BY <2>6 DEF Mavlink!Answer, Mavlink!SubmitAll, Mavlink!AddDue
        <3>2. delayed \subseteq 1..Len(Names) /\ 0 \in 0..Len(Names) /\ 1..Len(Names) \subseteq 0..Len(Names)
            BY MessageConstants DEF Mavlink!Indices
        <3> HIDE DEF delayed
        <3>3. ASSUME NEW i \in 0..Len(Names)
              PROVE  /\ Answered(i) \in Mavlink!Items /\ IsText(Answered(i))
                     /\ Body(Answered(i)) = Mavlink!Body(d.number, i)
            <4>1. /\ Mavlink!Response(d.number, i) \in Mavlink!Commands
                  /\ Mavlink!Response(d.number, i).key = None
                  /\ Mavlink!Response(d.number, i).body = Mavlink!Body(d.number, i)
                BY <2>3, CommandTypes
            <4> QED
                BY <4>1, NewItem DEF IsText, Body
        <3> HIDE DEF Answered
        <3>4. S \in SUBSET Mavlink!Items /\ \A i \in S : IsText(i)
            BY <3>2, <3>3
        <3>5. SchedulerInvariant'
            BY <1>1, <3>1, <3>2, <3>3, <3>4, SubmitAllKeeps
        <3>6. \A c \in Mavlink!Bodies : Waits(c)' =>
                  Waits(c) \/ \E i \in 1..Len(Names) : c = Mavlink!Body(inbox[1].number, i)
            <4> SUFFICES ASSUME NEW c \in Mavlink!Bodies, Waits(c)', ~ Waits(c)
                         PROVE  \E i \in 1..Len(Names) : c = Mavlink!Body(inbox[1].number, i)
                OBVIOUS
            <4>1. PICK j \in later' : IsText(j) /\ c = Body(j)
                BY DEF Waits
            <4>2. j \in S
                BY <3>1, <4>1 DEF Waits
            <4>3. PICK i \in delayed : j = Answered(i)
                BY <4>2
            <4> QED
                BY <2>3, <3>2, <3>3, <4>1, <4>3
        <3>7. LineInvariant'
            BY <1>1, <1>2, <2>1, <2>3, <3>1, <3>2, <3>3, <3>6, LineAnswered
        <3>8. ServiceTypes' /\ SocketIsOpen'
            BY <1>1, <1>3, <2>2, <3>1
        <3> QED
            BY <3>5, <3>7, <3>8 DEF MessagesInvariant
    <2> QED
        BY <2>1, <2>4, <2>5, <2>6
<1> QED
    BY <1>5, <1>6 DEF Mavlink!ExecuteReceive

LEMMA MessagesInit ==
    ASSUME Mavlink!Init
    PROVE  MessagesInvariant
<1>1. /\ due = <<>> /\ later = {} /\ scheduled = [k \in Keys |-> 0] /\ scheduler = "none"
      /\ scheduler_item = None /\ main = "off" /\ socket = FALSE /\ vehicle_armed = FALSE /\ inbox = <<>>
      /\ gcs = [armed |-> None, setpoint |-> 0, texts |-> <<>>]
      /\ texts = 0 /\ setpoints = 0 /\ datagrams = 0 /\ polled = 0 /\ parser = "boundary"
    BY DEF Mavlink!Init, Mavlink!QueueInit
<1>2. Len(due) = 0 /\ Len(inbox) = 0 /\ Len(gcs.texts) = 0 /\ ~ AtWork
    BY <1>1 DEF AtWork
<1>3. /\ due \in Seq(Mavlink!Items) /\ inbox \in Seq(Datagrams) /\ gcs.texts \in Seq(Mavlink!Bodies)
    BY <1>1
<1>4. SchedulerTypes
    BY <1>1, <1>2, <1>3 DEF SchedulerTypes, WorkerSteps
<1>5. TokensAreSpent /\ NoTwins
    BY <1>1, <1>2 DEF TokensAreSpent, NoTwins
<1>6. ServiceTypes
    <2>1. gcs \in Stations
        BY <1>1, <1>3 DEF Stations
    <2> QED
        <3>1. 0 \in 0..MaxTexts /\ 0 \in 0..MaxSetpoints /\ 0 \in 0..MaxDatagrams /\ 0 \in 0..MaxPoll
            BY MessageConstants
        <3> QED
            BY <1>1, <1>3, <2>1, <3>1 DEF ServiceTypes
<1>7. SocketIsOpen
    BY <1>1 DEF SocketIsOpen
<1>8. LineInOrder
    BY <1>1, <1>2 DEF LineInOrder
<1>9. DelayedInOrder /\ BufferIsNewer
    BY <1>1, <1>2 DEF DelayedInOrder, BufferIsNewer, Sends, Waits, Ascending
<1> QED
    BY <1>4, <1>5, <1>6, <1>7, <1>8, <1>9 DEF MessagesInvariant, SchedulerInvariant, LineInvariant

LEMMA MessagesStep ==
    ASSUME MessagesInvariant, [Next]_vars
    PROVE  MessagesInvariant'
<1>1. CASE Mavlink!Next
    <2>1. CASE Mavlink!Execute
        <3>1. scheduler = "execute" /\ UNCHANGED <<main, todo, socket, vehicle_armed, texts, setpoints, datagrams>>
            BY <2>1 DEF Mavlink!Execute, Mavlink!mainVars
        <3> QED
            BY <2>1, <3>1, SendStep, ReceiveStep DEF Mavlink!Execute
    <2> QED
        BY <1>1, <2>1, MainQuiet, MainSubmits, WorkerMoves, ArriveStep DEF Mavlink!Next
<1>2. CASE UNCHANGED mavlinkVars
    <2>1. UNCHANGED <<due, later, scheduled, scheduler, scheduler_item, main, todo, socket, vehicle_armed,
                      inbox, polled, parser, gcs, texts, setpoints, datagrams>>
        BY Zenon, <1>2 DEF mavlinkVars
    <2>2. SchedulerInvariant'
        BY <2>1 DEF MessagesInvariant, SchedulerInvariant, SchedulerTypes, TokensAreSpent, NoTwins, AtWork
    <2>3. LineInvariant'
        BY <2>1 DEF MessagesInvariant, LineInvariant, LineInOrder, DelayedInOrder, BufferIsNewer, IsOlder,
                      Sends, Waits
    <2>4. ServiceTypes' /\ SocketIsOpen'
        BY <2>1 DEF MessagesInvariant, ServiceTypes, SocketIsOpen
    <2> QED
        BY <2>2, <2>3, <2>4 DEF MessagesInvariant
<1> QED
    BY Zenon, <1>1, <1>2
       DEF Next, vars, MavlinkMoves, ParametersMoves, BlackboxMoves, Moves

LEMMA MessagesSound ==
    ASSUME MessagesInvariant
    PROVE  MessagesAreInOrder
<1>1. /\ SchedulerTypes /\ TokensAreSpent /\ NoTwins /\ LineInOrder /\ ServiceTypes /\ SocketIsOpen
      /\ due \in Seq(Mavlink!Items) /\ later \in SUBSET Mavlink!Items /\ scheduler \in WorkerSteps
    BY DEF MessagesInvariant, SchedulerInvariant, SchedulerTypes, LineInvariant
<1>2. Mavlink!TypeOK
    <2>1. main \in {"off", "scheduling", "running", "stopping", "closed"} /\ socket \in BOOLEAN
        BY <1>1 DEF ServiceTypes
    <2>2. scheduler_item = None <=> scheduler \notin {"execute", "executed", "requeue"}
        BY <1>1, MessageConstants DEF SchedulerTypes, AtWork
    <2>3. socket <=> main \in {"scheduling", "running"} \/ (main = "stopping" /\ scheduler # "none")
        BY <1>1, <2>1 DEF SocketIsOpen
    <2>4. Mavlink!Held \subseteq Mavlink!Items
        <3>1. \A n \in DOMAIN due : due[n] \in Mavlink!Items
            BY <1>1
        <3>2. Mavlink!ToSet(due) \subseteq Mavlink!Items
            BY <3>1 DEF Mavlink!ToSet
        <3>3. AtWork => scheduler_item \in Mavlink!Items
            BY <1>1 DEF SchedulerTypes
        <3> QED
            BY <1>1, <3>2, <3>3 DEF Mavlink!Held, AtWork
    <2>5. polled \in 0..MaxPoll /\ parser \in {"boundary", "inside"}
        BY <1>1 DEF ServiceTypes
    <2> QED
        BY <1>1, <2>1, <2>2, <2>3, <2>4, <2>5 DEF Mavlink!TypeOK, WorkerSteps
<1>3. Mavlink!RepeatsDoNotMultiply
    <2> SUFFICES ASSUME NEW p \in Mavlink!Places, NEW q \in Mavlink!Places,
                        Mavlink!At(p).command.key = Mavlink!At(q).command.key,
                        Mavlink!At(p).command.key # None,
                        Mavlink!IsActive(Mavlink!At(p)), Mavlink!IsActive(Mavlink!At(q))
                 PROVE  p = q
        BY DEF Mavlink!RepeatsDoNotMultiply
    <2> DEFINE a == Mavlink!At(p)  b == Mavlink!At(q)
    <2>1. Twins(scheduled, a, b) /\ Twins(scheduled, b, a)
        BY DEF Twins, Mavlink!IsActive
    <2>2. \A r \in Mavlink!Places :
              \/ r[1] = "due" /\ r[2] \in 1..Len(due) /\ Mavlink!At(r) = due[r[2]] /\ r = <<"due", r[2]>>
              \/ r[1] = "later" /\ r[2] \in later /\ Mavlink!At(r) = r[2] /\ r = <<"later", r[2]>>
              \/ r = <<"worker", scheduler_item>> /\ Mavlink!At(r) = scheduler_item /\ AtWork
        <3> SUFFICES ASSUME NEW r \in Mavlink!Places
                     PROVE  \/ r[1] = "due" /\ r[2] \in 1..Len(due) /\ Mavlink!At(r) = due[r[2]] /\ r = <<"due", r[2]>>
                            \/ r[1] = "later" /\ r[2] \in later /\ Mavlink!At(r) = r[2] /\ r = <<"later", r[2]>>
                            \/ r = <<"worker", scheduler_item>> /\ Mavlink!At(r) = scheduler_item /\ AtWork
            OBVIOUS
        <3>1. CASE r \in {"due"} \X DOMAIN due
            <4>1. DOMAIN due = 1..Len(due)
                BY <1>1
            <4> QED
                BY <3>1, <4>1 DEF Mavlink!At
        <3>2. CASE r \in {"later"} \X later
            BY <3>2 DEF Mavlink!At
        <3>3. CASE AtWork /\ r = <<"worker", scheduler_item>>
            BY <3>3 DEF Mavlink!At
        <3> QED
            BY <3>1, <3>2, <3>3 DEF Mavlink!Places, AtWork
    <2> HIDE DEF a, b
    <2>3. /\ \A m, n \in 1..Len(due) : Twins(scheduled, due[m], due[n]) => m = n
          /\ \A n \in 1..Len(due), i \in later : ~ Twins(scheduled, due[n], i)
          /\ \A i, j \in later : Twins(scheduled, i, j) => i = j
          /\ AtWork => /\ \A n \in 1..Len(due) : ~ Twins(scheduled, due[n], scheduler_item)
                       /\ \A i \in later : ~ Twins(scheduled, i, scheduler_item)
        BY <1>1 DEF NoTwins
    <2> QED
        BY <2>1, <2>2, <2>3 DEF a, b
<1>4. Mavlink!TextsInOrder
    <2>1. DOMAIN gcs.texts = 1..Len(gcs.texts)
        BY <1>1 DEF ServiceTypes, Stations
    <2> QED
        BY <1>1, <2>1 DEF Mavlink!TextsInOrder, LineInOrder, Before
<1> QED
    BY <1>2, <1>3, <1>4 DEF MessagesAreInOrder

\* However commands repeat, are replaced, fail and wait, at most one command of a key is
\* active; texts reach the ground station in the order they were sent; of two answers the
\* one to the earlier request comes first unless it is further back in its list; each comes
\* at most once.
THEOREM MessagesInOrder == Spec => []MessagesAreInOrder
<1>1. Init => MessagesInvariant
    BY MessagesInit DEF Init
<1>2. MessagesInvariant /\ [Next]_vars => MessagesInvariant'
    BY MessagesStep
<1>3. MessagesInvariant => MessagesAreInOrder
    BY MessagesSound
<1> QED
    BY <1>1, <1>2, <1>3, PTL DEF Spec

----------------------------------------------------------------------------
(* Values of parameters.                                                      *)

LEMMA ParameterConstants ==
    /\ Grain \in Nat /\ Grain > 0 /\ Retries \in Nat /\ Retries >= 1
    /\ Operations \subseteq {"get", "set", "save", "list"}
    /\ Values \subseteq Int /\ NaN \in Int /\ Defaults \in [Parameters!Parameters -> Int]
    /\ TypeOf \in [Parameters!Parameters -> {"float", "int", "bool"}]
    /\ \A p \in Parameters!Parameters : {Minimum[p], Maximum[p]} \ {None} \subseteq Int \ {NaN}
    /\ \A p \in Parameters!Parameters : Parameters!Validates(p, Defaults[p])
<1>1. Parameters!ParameterAssumption
    BY InstancesAssumption
<1> QED
    BY <1>1 DEF Parameters!ParameterAssumption

\* A 32-bit float is its own rounding.
LEMMA RoundedTwice ==
    ASSUME NEW v \in Int
    PROVE  /\ Parameters!Rounded(v) \in Int
           /\ Parameters!Rounded(Parameters!Rounded(v)) = Parameters!Rounded(v)
<1> USE ParameterConstants DEF Parameters!Rounded
<1>1. CASE v = NaN
    BY <1>1
<1>2. CASE v # NaN
    <2> DEFINE k == v \div Grain
    <2>1. k \in Int
        OBVIOUS
    <2>2. Parameters!Rounded(v) = Grain * k
        BY <1>2
    <2> HIDE DEF k
    <2>3. Grain * k \in Int /\ (Grain * k) \div Grain = k
        BY <2>1
    <2> QED
        BY <2>2, <2>3
<1> QED
    BY <1>1, <1>2

LEMMA DoublesTypes ==
    /\ Values \subseteq Parameters!Doubles /\ Parameters!Doubles \subseteq Int
    /\ \A p \in Parameters!Parameters : Defaults[p] \in Parameters!Doubles
    /\ \A v \in Parameters!Doubles : Parameters!Rounded(v) \in Parameters!Doubles
    /\ \A p, v : v \in Parameters!Doubles => Parameters!EncodeWire(p, v) \in Parameters!Doubles
<1>1. Parameters!Asked \subseteq Int
    BY ParameterConstants DEF Parameters!Asked
<1>2. \A v \in Parameters!Asked : Parameters!Rounded(v) \in Int
    BY <1>1, RoundedTwice
<1>3. Parameters!Doubles \subseteq Int
    BY <1>1, <1>2 DEF Parameters!Doubles
<1>4. Values \subseteq Parameters!Doubles /\ \A p \in Parameters!Parameters : Defaults[p] \in Parameters!Doubles
    BY DEF Parameters!Doubles, Parameters!Asked
<1>5. ASSUME NEW v \in Parameters!Doubles PROVE Parameters!Rounded(v) \in Parameters!Doubles
    <2>1. CASE v \in Parameters!Asked
        BY <2>1 DEF Parameters!Doubles
    <2>2. CASE \E w \in Parameters!Asked : v = Parameters!Rounded(w)
        <3>1. PICK w \in Parameters!Asked : v = Parameters!Rounded(w)
            BY <2>2
        <3>2. Parameters!Rounded(v) = v
            BY <1>1, <3>1, RoundedTwice
        <3> QED
            BY <3>2
    <2> QED
        BY <2>1, <2>2 DEF Parameters!Doubles
<1>6. \A p, v : v \in Parameters!Doubles => Parameters!EncodeWire(p, v) \in Parameters!Doubles
    BY <1>5 DEF Parameters!EncodeWire
<1> QED
    BY <1>3, <1>4, <1>5, <1>6

----------------------------------------------------------------------------
(* The states of the tool, the vehicle's storage and the line between them.   *)

StepsOf == [get |-> {"read"}, set |-> {"read", "set"}, save |-> {"save"}, list |-> {"list"}]

ListedValues == UNION {[S -> Parameters!Doubles] : S \in SUBSET Parameters!Parameters}

Tools == [run : Nat, serial : Nat, op : Operations, step : {"read", "set", "save", "list"},
          attempt : 1..Retries, name : Parameters!Parameters \cup {Unknown, None},
          want : Values \cup {None},
          values : ListedValues]

\* The parameter p was x on the wire at some moment of this run.
WasHeld(h, p, x) == \E v \in h[p] : Parameters!EncodeWire(p, v) = x

StorageTypes ==
    /\ value \in [Parameters!Parameters -> Parameters!Doubles]
    /\ file \in [Parameters!Parameters -> Parameters!Doubles]
    /\ armed \in BOOLEAN /\ runs \in Nat
    /\ held \in [Parameters!Parameters -> SUBSET Parameters!Doubles]

\* What is in memory and on disk was validated, and what is in memory was held.
StorageIsValid ==
    \A p \in Parameters!Parameters :
        /\ Parameters!Validates(p, value[p]) /\ Parameters!Validates(p, file[p])
        /\ value[p] \in held[p]

ToolTypes(t, n) ==
    /\ t \in Tools /\ t.run = n /\ n >= 1 /\ t.step \in StepsOf[t.op]
    /\ t.op = "set" => t.want \in Values
    /\ t.step = "set" => t.name \in Parameters!Parameters

RequestTypes(r, n) ==
    /\ r.run \in 1..n /\ r.kind \in {"read", "set", "save", "list"}
    /\ r.kind = "set" => r.name \in Parameters!Parameters /\ r.value \in Parameters!Doubles

\* An answer m tells the truth about this run: h is what was held, w whether it saved.
AnswerIsTrue(m, h, w) ==
    /\ m.kind \in {"value", "ack"}
    /\ m.kind = "value" => /\ m.name \in Parameters!Parameters /\ m.value \in Parameters!Doubles
                           /\ WasHeld(h, m.name, m.value)
    /\ m.kind = "ack" /\ m.result = "accepted" => w

ListedIsTrue(vals, h) == \A p \in DOMAIN vals : WasHeld(h, p, vals[p])

\* The end e of a run tells the truth about it.
EndIsTrue(e, h, w) ==
    e.outcome = "ok" =>
        /\ e.op \in {"get", "set"} =>
               e.name \in Parameters!Parameters /\ WasHeld(h, e.name, e.result)
        /\ e.op = "list" => \A p \in Parameters!Parameters : WasHeld(h, p, e.result[p])
        /\ e.op = "save" => w

LineTypes ==
    /\ tool # None => ToolTypes(tool, runs) /\ ListedIsTrue(tool.values, held)
    /\ tool = None => replies = {}
    /\ \A r \in requests : RequestTypes(r, runs)
    /\ \A m \in replies : AnswerIsTrue(m, held, wrote)

LastIsTrue == last # None => EndIsTrue(last, held, wrote)

ParametersInvariant == StorageTypes /\ StorageIsValid /\ LineTypes /\ LastIsTrue

LEMMA ParametersInit == Parameters!Init => ParametersInvariant
<1> SUFFICES ASSUME Parameters!Init PROVE ParametersInvariant
    OBVIOUS
<1>1. StorageTypes
    BY ParameterConstants, DoublesTypes DEF StorageTypes, Parameters!Init
<1>2. StorageIsValid
    BY ParameterConstants DEF StorageIsValid, Parameters!Init
<1>3. LineTypes /\ LastIsTrue
    BY DEF LineTypes, LastIsTrue, Parameters!Init
<1> QED
    BY <1>1, <1>2, <1>3 DEF ParametersInvariant

----------------------------------------------------------------------------
(* A step of the vehicle, the station or the network.                         *)

\* What was held stays held.
Grows(h, g) == \A p \in Parameters!Parameters : h[p] \subseteq g[p]

LEMMA TruthStays ==
    ASSUME NEW h, NEW g, NEW w, NEW x, Grows(h, g), w => x
    PROVE  /\ \A m : AnswerIsTrue(m, h, w) => AnswerIsTrue(m, g, x)
           /\ \A vals : DOMAIN vals \subseteq Parameters!Parameters /\ ListedIsTrue(vals, h)
                          => ListedIsTrue(vals, g)
           /\ \A e : EndIsTrue(e, h, w) => EndIsTrue(e, g, x)
<1>1. \A p \in Parameters!Parameters : \A y : WasHeld(h, p, y) => WasHeld(g, p, y)
    BY DEF WasHeld, Grows
<1>2. \A m : AnswerIsTrue(m, h, w) => AnswerIsTrue(m, g, x)
    BY <1>1 DEF AnswerIsTrue
<1>3. \A vals : DOMAIN vals \subseteq Parameters!Parameters /\ ListedIsTrue(vals, h)
                 => ListedIsTrue(vals, g)
    BY <1>1 DEF ListedIsTrue
<1>4. \A e : EndIsTrue(e, h, w) => EndIsTrue(e, g, x)
    BY <1>1 DEF EndIsTrue
<1> QED
    BY <1>2, <1>3, <1>4

LEMMA ToolFields ==
    ASSUME NEW t, NEW n, ToolTypes(t, n)
    PROVE  /\ DOMAIN t.values \subseteq Parameters!Parameters
           /\ t.attempt \in 1..Retries /\ t.step \in {"read", "set", "save", "list"}
           /\ t.op \in {"get", "set", "save", "list"}
BY ParameterConstants DEF ToolTypes, Tools, ListedValues

LEMMA StepsApart ==
    \A op \in {"get", "set", "save", "list"} :
        /\ "set" \in StepsOf[op] => op = "set"
        /\ "read" \in StepsOf[op] => op \in {"get", "set"}
        /\ "save" \in StepsOf[op] => op = "save"
        /\ "list" \in StepsOf[op] => op = "list"
        /\ Parameters!FirstStep[op] \in StepsOf[op]
        /\ Parameters!FirstStep[op] \in {"read", "save", "list"}
BY DEF StepsOf, Parameters!FirstStep

\* A step that leaves the tool alone, takes nothing back of what was held, and adds only
\* true answers to those on their way.
LEMMA VehicleStep ==
    ASSUME ParametersInvariant, StorageTypes', StorageIsValid', Grows(held, held'), wrote => wrote',
           UNCHANGED <<tool, runs, last>>, requests' \subseteq requests,
           tool = None => replies' \subseteq replies,
           \A m \in replies' : m \in replies \/ AnswerIsTrue(m, held', wrote')
    PROVE  ParametersInvariant'
<1> USE DEF ParametersInvariant
<1>1. tool' # None => ToolTypes(tool', runs') /\ ListedIsTrue(tool'.values, held')
    BY TruthStays, ToolFields DEF LineTypes
<1>2. tool' = None => replies' = {}
    BY DEF LineTypes
<1>3. \A r \in requests' : RequestTypes(r, runs')
    BY DEF LineTypes
<1>4. \A m \in replies' : AnswerIsTrue(m, held', wrote')
    BY TruthStays DEF LineTypes
<1>5. LineTypes'
    BY <1>1, <1>2, <1>3, <1>4 DEF LineTypes
<1>6. LastIsTrue'
    BY TruthStays DEF LastIsTrue
<1> QED
    BY <1>5, <1>6

\* Storing a value in memory.
LEMMA StorageSets ==
    ASSUME StorageTypes, StorageIsValid, NEW p \in Parameters!Parameters, NEW v \in Parameters!Doubles,
           value' \in {value, Parameters!StorageSet(p, v)},
           held' = [held EXCEPT ![p] = @ \union {value'[p]}],
           UNCHANGED <<file, armed, runs>>
    PROVE  StorageTypes' /\ StorageIsValid' /\ Grows(held, held')
<1>1. value' = value \/ (Parameters!Validates(p, v) /\ value' = [value EXCEPT ![p] = v])
    BY DEF Parameters!StorageSet
<1>2. value' \in [Parameters!Parameters -> Parameters!Doubles]
    BY <1>1 DEF StorageTypes
<1>3. \A q \in Parameters!Parameters : Parameters!Validates(q, value'[q])
    BY <1>1 DEF StorageTypes, StorageIsValid
<1>4. \A q \in Parameters!Parameters : q # p => value'[q] = value[q]
    BY <1>1 DEF StorageTypes
<1>5. value'[p] \in Parameters!Doubles
    BY <1>2
<1>6. /\ held' \in [Parameters!Parameters -> SUBSET Parameters!Doubles]
      /\ held'[p] = held[p] \union {value'[p]}
      /\ \A q \in Parameters!Parameters : q # p => held'[q] = held[q]
    BY <1>5 DEF StorageTypes
<1>7. StorageTypes'
    BY <1>2, <1>6 DEF StorageTypes
<1>8. StorageIsValid'
    BY <1>3, <1>4, <1>6 DEF StorageIsValid
<1> QED
    BY <1>6, <1>7, <1>8 DEF Grows

\* The value of the moment is an answer that tells the truth.
LEMMA ValueIsTrue ==
    ASSUME NEW r, NEW p \in Parameters!Parameters, NEW vals, vals[p] \in Parameters!Doubles,
           NEW h, vals[p] \in h[p], NEW w
    PROVE  AnswerIsTrue(Parameters!ParamValue(r, p, vals), h, w)
<1> DEFINE m == Parameters!ParamValue(r, p, vals)
<1>1. m.kind = "value" /\ m.name = p /\ m.value = Parameters!EncodeWire(p, vals[p])
    BY DEF Parameters!ParamValue
<1>2. m.value \in Parameters!Doubles
    BY <1>1, DoublesTypes
<1>3. WasHeld(h, p, m.value)
    BY <1>1 DEF WasHeld
<1> HIDE DEF m
<1>4. AnswerIsTrue(m, h, w)
    BY <1>1, <1>2, <1>3 DEF AnswerIsTrue
<1> QED
    BY <1>4 DEF m

LEMMA DeliveredOnly ==
    ASSUME NEW r, NEW A, replies' = Parameters!Delivered(r, A)
    PROVE  /\ tool = None => replies' \subseteq replies
           /\ \A m \in replies' : m \in replies \/ (m \in A /\ r.run = runs)
BY DEF Parameters!Delivered

LEMMA HandleReads ==
    ASSUME ParametersInvariant, NEW r \in requests, NEW A \in SUBSET Parameters!Parameters,
           replies' = Parameters!Delivered(r, {Parameters!ParamValue(r, p, value) : p \in A}),
           UNCHANGED <<value, file, armed, held, wrote, tool, runs, last>>, requests' \subseteq requests
    PROVE  ParametersInvariant'
<1>1. StorageTypes' /\ StorageIsValid'
    BY DEF ParametersInvariant, StorageTypes, StorageIsValid
<1>2. \A p \in A : AnswerIsTrue(Parameters!ParamValue(r, p, value), held', wrote')
    BY ValueIsTrue DEF ParametersInvariant, StorageTypes, StorageIsValid
<1>3. Grows(held, held')
    BY DEF Grows
<1>4. /\ tool = None => replies' \subseteq replies
      /\ \A m \in replies' : m \in replies \/ AnswerIsTrue(m, held', wrote')
    BY <1>2, DeliveredOnly
<1> QED
    BY <1>1, <1>3, <1>4, VehicleStep

LEMMA HandleSets ==
    ASSUME ParametersInvariant, NEW r \in requests, Parameters!HandleSet(r),
           UNCHANGED <<tool, runs, last>>, requests' \subseteq requests
    PROVE  ParametersInvariant'
<1>1. r.name \in Parameters!Parameters /\ r.value \in Parameters!Doubles
    BY DEF ParametersInvariant, LineTypes, RequestTypes, Parameters!HandleSet
<1>2. StorageTypes' /\ StorageIsValid' /\ Grows(held, held')
    BY <1>1, StorageSets DEF ParametersInvariant, Parameters!HandleSet
<1>3. AnswerIsTrue(Parameters!ParamValue(r, r.name, value'), held', wrote')
    BY <1>1, <1>2, ValueIsTrue DEF StorageTypes, StorageIsValid
<1>4. /\ tool = None => replies' \subseteq replies
      /\ \A m \in replies' : m \in replies \/ AnswerIsTrue(m, held', wrote')
    BY <1>3, DeliveredOnly DEF Parameters!HandleSet
<1> QED
    BY <1>2, <1>4, VehicleStep DEF Parameters!HandleSet

LEMMA HandleSaves ==
    ASSUME ParametersInvariant, NEW r \in requests, Parameters!HandleSave(r),
           UNCHANGED <<tool, runs, last>>, requests' \subseteq requests
    PROVE  ParametersInvariant'
<1> DEFINE Saves(a) ==
          /\ replies' = Parameters!Delivered(r, {Parameters!Ack(r, a)})
          /\ file' \in {file, value}
          /\ wrote => wrote'
          /\ a = "accepted" /\ r.run = runs => wrote'
<1>1. PICK a \in {"denied", "accepted", "failed"} : Saves(a)
    <2>1. CASE Parameters!SaveDenied /\ replies' = Parameters!Delivered(r, {Parameters!Ack(r, "denied")})
        <3>1. Saves("denied")
            BY <2>1 DEF Parameters!SaveDenied
        <3> QED
            BY <3>1, Zenon
    <2>2. CASE Parameters!SaveWritten(r) /\ replies' = Parameters!Delivered(r, {Parameters!Ack(r, "accepted")})
        <3>1. file' = value /\ (wrote => wrote') /\ (r.run = runs => wrote')
            BY <2>2, Zenon DEF Parameters!SaveWritten
        <3>2. Saves("accepted")
            BY <2>2, <3>1
        <3> QED
            BY <3>2, Zenon
    <2>3. CASE Parameters!SaveFailed /\ replies' = Parameters!Delivered(r, {Parameters!Ack(r, "failed")})
        <3>1. Saves("failed")
            BY <2>3 DEF Parameters!SaveFailed
        <3> QED
            BY <3>1, Zenon
    <2> QED
        BY <2>1, <2>2, <2>3, Zenon DEF Parameters!HandleSave
<1>2. UNCHANGED <<value, armed, held>>
    BY DEF Parameters!HandleSave
<1>3. StorageTypes' /\ StorageIsValid' /\ Grows(held, held')
    BY <1>1, <1>2 DEF ParametersInvariant, StorageTypes, StorageIsValid, Grows
<1>4. r.run = runs => AnswerIsTrue(Parameters!Ack(r, a), held', wrote')
    BY <1>1 DEF AnswerIsTrue, Parameters!Ack
<1>5. /\ tool = None => replies' \subseteq replies
      /\ \A m \in replies' : m \in replies \/ AnswerIsTrue(m, held', wrote')
    BY <1>1, <1>4, DeliveredOnly
<1> QED
    BY <1>1, <1>3, <1>5, VehicleStep

LEMMA HandleStep ==
    ASSUME ParametersInvariant, Parameters!Handle
    PROVE  ParametersInvariant'
<1>1. PICK r \in requests :
          /\ Parameters!HandleRead(r) \/ Parameters!HandleList(r) \/ Parameters!HandleSet(r)
             \/ Parameters!HandleSave(r)
          /\ requests' = requests \ {r}
    BY DEF Parameters!Handle
<1>2. UNCHANGED <<tool, runs, last>> /\ requests' \subseteq requests
    BY <1>1 DEF Parameters!Handle
<1>3. CASE Parameters!HandleRead(r)
    BY <1>2, <1>3, HandleReads DEF Parameters!HandleRead, Parameters!storage, Parameters!history
<1>4. CASE Parameters!HandleList(r)
    BY <1>2, <1>4, HandleReads DEF Parameters!HandleList, Parameters!storage, Parameters!history
<1> QED
    BY <1>1, <1>2, <1>3, <1>4, HandleSets, HandleSaves

LEMMA StationStep ==
    ASSUME ParametersInvariant, Parameters!StationSets
    PROVE  ParametersInvariant'
<1>1. PICK p \in Parameters!Parameters, v \in Values, type \in {"float", "int", "bool"} :
          Parameters!StationSet(p, v, type)
    BY DEF Parameters!StationSets
<1>2. Parameters!EncodeWire(p, v) \in Parameters!Doubles
    BY DoublesTypes
<1>3. UNCHANGED <<file, armed, wrote, tool, requests, replies, runs, last>>
    BY <1>1 DEF Parameters!StationSet, Parameters!net
<1>4. StorageTypes' /\ StorageIsValid' /\ Grows(held, held')
    BY <1>1, <1>2, <1>3, StorageSets DEF ParametersInvariant, Parameters!StationSet
<1> QED
    BY <1>3, <1>4, VehicleStep

LEMMA SetArmedStep ==
    ASSUME ParametersInvariant, Parameters!SetArmed
    PROVE  ParametersInvariant'
<1>1. UNCHANGED <<value, file, held, wrote, tool, requests, replies, runs, last>> /\ armed' = ~ armed
    BY DEF Parameters!SetArmed, Parameters!net, Parameters!history
<1>2. StorageTypes' /\ StorageIsValid' /\ Grows(held, held')
    BY <1>1 DEF ParametersInvariant, StorageTypes, StorageIsValid, Grows
<1> QED
    BY <1>1, <1>2, VehicleStep

LEMMA RestartStep ==
    ASSUME ParametersInvariant, Parameters!Restart
    PROVE  ParametersInvariant'
<1>1. UNCHANGED <<file, wrote, tool, requests, replies, runs, last>>
    BY DEF Parameters!Restart, Parameters!net
<1>2. value' = file /\ armed' = FALSE /\ held' = [p \in Parameters!Parameters |-> held[p] \union {file[p]}]
    BY DEF Parameters!Restart
<1>3. StorageTypes'
    BY <1>1, <1>2 DEF ParametersInvariant, StorageTypes
<1>4. StorageIsValid'
    BY <1>1, <1>2 DEF ParametersInvariant, StorageIsValid
<1>5. Grows(held, held')
    BY <1>2 DEF Grows
<1> QED
    BY <1>1, <1>3, <1>4, <1>5, VehicleStep

LEMMA LoseStep ==
    ASSUME ParametersInvariant, Parameters!Lose
    PROVE  ParametersInvariant'
<1>1. UNCHANGED <<value, file, armed, held, wrote, tool, runs, last>>
    BY DEF Parameters!Lose, Parameters!storage, Parameters!history
<1>2. requests' \subseteq requests /\ replies' \subseteq replies
    BY DEF Parameters!Lose
<1>3. StorageTypes' /\ StorageIsValid' /\ Grows(held, held')
    BY <1>1 DEF ParametersInvariant, StorageTypes, StorageIsValid, Grows
<1> QED
    BY <1>1, <1>2, <1>3, VehicleStep

----------------------------------------------------------------------------
(* A step of the tool.                                                        *)

LEMMA RequestIsTyped ==
    ASSUME NEW t, NEW n \in Nat, ToolTypes(t, n), NEW r \in Parameters!Request(t)
    PROVE  RequestTypes(r, n)
<1>1. t.run \in 1..n /\ t.step \in {"read", "set", "save", "list"}
    BY DEF ToolTypes, Tools
<1>2. CASE t.step = "set"
    <2>1. t.op = "set" /\ t.name \in Parameters!Parameters
        BY <1>2, ToolFields, StepsApart DEF ToolTypes
    <2>2. Parameters!EncodeWire(t.name, t.want) \in Parameters!Doubles
        BY <2>1, DoublesTypes DEF ToolTypes
    <2>3. /\ r.run = t.run /\ r.kind = "set" /\ r.name = t.name
          /\ r.value = Parameters!EncodeWire(t.name, t.want)
        BY <1>2 DEF Parameters!Request
    <2> QED
        BY <1>1, <2>1, <2>2, <2>3 DEF RequestTypes
<1>3. CASE t.step # "set"
    <2>1. r.run = t.run /\ r.kind \in {"read", "save", "list"}
        BY <1>1, <1>3 DEF Parameters!Request
    <2> QED
        BY <1>1, <2>1 DEF RequestTypes
<1> QED
    BY <1>2, <1>3

LEMMA StartStep ==
    ASSUME ParametersInvariant, NEW op \in Operations, NEW p \in Parameters!Parameters \cup {Unknown, None},
           NEW v \in Values \cup {None}, op = "set" => v \in Values /\ p \in Parameters!Parameters,
           Parameters!Start(op, p, v)
    PROVE  ParametersInvariant'
<1> DEFINE t == [run |-> runs + 1, serial |-> 1, op |-> op, step |-> Parameters!FirstStep[op], attempt |-> 1,
                 name |-> p, want |-> v, values |-> <<>>]
<1>1. /\ tool = None /\ runs' = runs + 1 /\ tool' = t /\ last' = None
      /\ requests' = requests \union Parameters!Request(t)
      /\ held' = [q \in Parameters!Parameters |-> {value[q]}] /\ wrote' = FALSE
      /\ UNCHANGED <<value, file, armed, replies>>
    BY DEF Parameters!Start, Parameters!storage
<1>2. runs \in Nat /\ replies = {}
    BY <1>1 DEF ParametersInvariant, StorageTypes, LineTypes
<1>3. ToolTypes(t, runs') /\ ListedIsTrue(t.values, held')
    <2>1. op \in {"get", "set", "save", "list"}
        BY ParameterConstants
    <2>2. Parameters!FirstStep[op] \in {"read", "set", "save", "list"}
        BY <2>1, StepsApart
    <2>3. <<>> \in ListedValues
        <3>1. <<>> \in [{} -> Parameters!Doubles]
            OBVIOUS
        <3> QED
            BY <3>1 DEF ListedValues
    <2>4. 1 \in 1..Retries
        BY ParameterConstants
    <2>5. t \in Tools
        BY <1>2, <2>2, <2>3, <2>4 DEF Tools
    <2>6. t.run = runs' /\ runs' >= 1 /\ t.step \in StepsOf[t.op]
        BY <1>1, <1>2, <2>1, StepsApart
    <2>7. t.op = "set" => t.want \in Values
        OBVIOUS
    <2>8. t.step # "set"
        BY <2>1, StepsApart
    <2>9. ToolTypes(t, runs')
        BY <2>5, <2>6, <2>7, <2>8 DEF ToolTypes
    <2>10. ListedIsTrue(t.values, held')
        BY DEF ListedIsTrue
    <2> QED
        BY <2>9, <2>10
<1> HIDE DEF t
<1>4. StorageTypes' /\ StorageIsValid'
    BY <1>1, <1>2 DEF ParametersInvariant, StorageTypes, StorageIsValid
<1>5. \A r \in requests' : RequestTypes(r, runs')
    <2>1. \A r \in requests : RequestTypes(r, runs')
        BY <1>1, <1>2 DEF ParametersInvariant, LineTypes, RequestTypes
    <2>2. \A r \in Parameters!Request(t) : RequestTypes(r, runs')
        <3>1. runs' \in Nat
            BY <1>1, <1>2
        <3> QED
            BY <1>3, <3>1, RequestIsTyped
    <2> QED
        BY <1>1, <2>1, <2>2
<1>6. LineTypes'
    BY <1>1, <1>2, <1>3, <1>5 DEF LineTypes
<1>7. LastIsTrue'
    BY <1>1 DEF LastIsTrue
<1> QED
    BY <1>4, <1>6, <1>7 DEF ParametersInvariant

LEMMA RunToolStep ==
    ASSUME ParametersInvariant, Parameters!RunTool
    PROVE  ParametersInvariant'
<1>1. CASE \E p \in Parameters!Parameters \union {Unknown} : Parameters!Start("get", p, None)
    <2>1. PICK p \in Parameters!Parameters \union {Unknown} : Parameters!Start("get", p, None)
        BY <1>1
    <2>2. "get" \in Operations
        BY <2>1 DEF Parameters!Start
    <2> QED
        BY <2>1, <2>2, StartStep
<1>2. CASE \E p \in Parameters!Parameters, v \in Values :
              (v = NaN => TypeOf[p] = "float") /\ Parameters!Start("set", p, v)
    <2>1. PICK p \in Parameters!Parameters, v \in Values : Parameters!Start("set", p, v)
        BY <1>2
    <2>2. "set" \in Operations
        BY <2>1 DEF Parameters!Start
    <2> QED
        BY <2>1, <2>2, StartStep
<1>3. CASE Parameters!Start("save", None, None)
    <2>1. "save" \in Operations
        BY <1>3 DEF Parameters!Start
    <2> QED
        BY <1>3, <2>1, StartStep
<1>4. CASE Parameters!Start("list", None, None)
    <2>1. "list" \in Operations
        BY <1>4 DEF Parameters!Start
    <2> QED
        BY <1>4, <2>1, StartStep
<1> QED
    BY <1>1, <1>2, <1>3, <1>4, Zenon DEF Parameters!RunTool

\* A step of the tool in a run: it goes on with a typed attempt, or it ends with the truth;
\* the vehicle does not move, and the socket is closed with the run.
LEMMA ToolStep ==
    ASSUME ParametersInvariant, tool # None,
           UNCHANGED <<value, file, armed, runs, held, wrote>>,
           replies' \subseteq replies, tool' = None => replies' = {},
           \/ /\ ToolTypes(tool', runs) /\ ListedIsTrue(tool'.values, held)
              /\ requests' \subseteq requests \cup Parameters!Request(tool')
              /\ last' = last
           \/ /\ tool' = None /\ requests' = requests
              /\ EndIsTrue(last', held, wrote)
    PROVE  ParametersInvariant'
<1>1. StorageTypes' /\ StorageIsValid'
    BY DEF ParametersInvariant, StorageTypes, StorageIsValid
<1>2. runs \in Nat
    BY DEF ParametersInvariant, StorageTypes
<1>3. \A r \in requests' : RequestTypes(r, runs)
    BY <1>2, RequestIsTyped DEF ParametersInvariant, LineTypes
<1>4. LineTypes'
    BY <1>3 DEF ParametersInvariant, LineTypes
<1>5. LastIsTrue'
    BY DEF ParametersInvariant, LastIsTrue
<1> QED
    BY <1>1, <1>4, <1>5 DEF ParametersInvariant

LEMMA RetriedTypes ==
    ASSUME NEW t, NEW n, ToolTypes(t, n), t.attempt # Retries
    PROVE  ToolTypes(Parameters!Retried(t), n) /\ Parameters!Retried(t).values = t.values
<1> DEFINE u == Parameters!Retried(t)
<1>1. t.attempt + 1 \in 1..Retries /\ t.serial + 1 \in Nat
    BY ParameterConstants, ToolFields DEF ToolTypes, Tools
<1>2. u \in Tools
    BY <1>1 DEF ToolTypes, Tools, Parameters!Retried
<1>3. /\ u.run = t.run /\ u.step = t.step /\ u.op = t.op /\ u.want = t.want /\ u.name = t.name
      /\ u.values = t.values
    BY DEF ToolTypes, Tools, Parameters!Retried
<1> HIDE DEF u
<1>4. ToolTypes(u, n)
    BY <1>2, <1>3 DEF ToolTypes
<1> QED
    BY <1>3, <1>4 DEF u

LEMMA NextStepTypes ==
    ASSUME NEW t, NEW n, ToolTypes(t, n), t.op = "set", t.name \in Parameters!Parameters
    PROVE  ToolTypes(Parameters!NextStep(t), n) /\ Parameters!NextStep(t).values = t.values
<1> DEFINE u == Parameters!NextStep(t)
<1>1. 1 \in 1..Retries /\ t.serial + 1 \in Nat
    BY ParameterConstants DEF ToolTypes, Tools
<1>2. u \in Tools
    BY <1>1 DEF ToolTypes, Tools, Parameters!NextStep
<1>3. /\ u.run = t.run /\ u.step = "set" /\ u.op = t.op /\ u.want = t.want /\ u.name = t.name
      /\ u.values = t.values
    BY DEF ToolTypes, Tools, Parameters!NextStep
<1> HIDE DEF u
<1>4. "set" \in StepsOf["set"]
    BY DEF StepsOf
<1>5. ToolTypes(u, n)
    BY <1>2, <1>3, <1>4 DEF ToolTypes
<1> QED
    BY <1>3, <1>5 DEF u

LEMMA DeadlineStep ==
    ASSUME ParametersInvariant, Parameters!Deadline
    PROVE  ParametersInvariant'
<1>1. /\ tool # None /\ ToolTypes(tool, runs) /\ ListedIsTrue(tool.values, held)
      /\ UNCHANGED <<value, file, armed, runs, held, wrote>>
    BY DEF Parameters!Deadline, Parameters!storage, Parameters!history, ParametersInvariant, LineTypes
<1>2. replies' = IF tool' = None THEN {} ELSE replies
    BY DEF Parameters!Deadline
<1>3. CASE tool.attempt = Retries
    <2>1. Parameters!Finish("timeout", None)
        BY <1>3 DEF Parameters!Deadline
    <2>2. tool' = None /\ requests' = requests /\ EndIsTrue(last', held, wrote)
        BY <2>1 DEF Parameters!Finish, EndIsTrue
    <2> QED
        BY <1>1, <1>2, <2>2, ToolStep
<1>4. CASE tool.attempt # Retries
    <2>1. Parameters!Continue(Parameters!Retried(tool))
        BY <1>4 DEF Parameters!Deadline
    <2>2. /\ tool' = Parameters!Retried(tool) /\ last' = last
          /\ requests' = requests \union Parameters!Request(tool')
        BY <2>1 DEF Parameters!Continue
    <2>3. ToolTypes(tool', runs) /\ ListedIsTrue(tool'.values, held)
        BY <1>1, <1>4, <2>2, RetriedTypes
    <2> QED
        BY <1>1, <1>2, <2>2, <2>3, ToolStep
<1> QED
    BY <1>3, <1>4

\* A step of one answer: the run goes on with what it learnt, or ends.
LEMMA GotStep ==
    ASSUME ParametersInvariant, tool # None,
           UNCHANGED <<value, file, armed, runs, held, wrote>>,
           NEW m \in replies, AnswerIsTrue(m, held, wrote), ToolTypes(tool, runs),
           ListedIsTrue(tool.values, held),
           replies' \subseteq replies, tool' = None => replies' = {},
           Parameters!GotValue(m) \/ Parameters!GotSet(m) \/ Parameters!GotSave(m) \/ Parameters!GotListed(m)
    PROVE  ParametersInvariant'
<1>1. tool.op \in {"get", "set", "save", "list"} /\ tool.step \in StepsOf[tool.op]
      /\ DOMAIN tool.values \subseteq Parameters!Parameters
    BY ToolFields DEF ToolTypes
<1>2. /\ tool.step = "set" => tool.op = "set"
      /\ tool.step = "read" => tool.op \in {"get", "set"}
      /\ tool.step = "save" => tool.op = "save"
      /\ tool.step = "list" => tool.op = "list"
    BY <1>1, StepsApart
<1>3. m.kind = "value" => /\ m.name \in Parameters!Parameters /\ m.value \in Parameters!Doubles
                          /\ WasHeld(held, m.name, m.value)
    BY DEF AnswerIsTrue
<1>4. CASE Parameters!GotValue(m)
    <2>1. tool.step = "read" /\ m.kind = "value" /\ m.name = tool.name
        BY <1>4 DEF Parameters!GotValue
    <2>2. CASE tool.op = "set"
        <3>1. /\ tool' = Parameters!NextStep(tool) /\ last' = last
              /\ requests' = requests \union Parameters!Request(tool')
            BY <1>4, <2>2 DEF Parameters!GotValue, Parameters!Continue
        <3>2. ToolTypes(tool', runs) /\ ListedIsTrue(tool'.values, held)
            BY <1>3, <2>1, <2>2, <3>1, NextStepTypes
        <3> QED
            BY <3>1, <3>2, ToolStep
    <2>3. CASE tool.op # "set"
        <3>1. Parameters!Finish("ok", m.value)
            BY <1>4, <2>3 DEF Parameters!GotValue
        <3>2. tool' = None /\ requests' = requests /\ EndIsTrue(last', held, wrote)
            BY <1>2, <1>3, <2>1, <2>3, <3>1 DEF Parameters!Finish, EndIsTrue
        <3> QED
            BY <3>2, ToolStep
    <2> QED
        BY <2>2, <2>3
<1>5. CASE Parameters!GotSet(m)
    <2>1. tool.step = "set" /\ m.kind = "value" /\ m.name = tool.name
        BY <1>5 DEF Parameters!GotSet
    <2>2. Parameters!Finish("ok", m.value) \/ Parameters!Finish("rejected", m.value)
        BY <1>5 DEF Parameters!GotSet
    <2>3. tool' = None /\ requests' = requests /\ EndIsTrue(last', held, wrote)
        BY <1>2, <1>3, <2>1, <2>2 DEF Parameters!Finish, EndIsTrue
    <2> QED
        BY <2>3, ToolStep
<1>6. CASE Parameters!GotSave(m)
    <2>1. tool.step = "save" /\ m.kind = "ack"
        BY <1>6 DEF Parameters!GotSave
    <2>2. \/ Parameters!Finish("ok", None) /\ wrote
          \/ Parameters!Finish("rejected", m.result)
        BY <1>6, <2>1 DEF Parameters!GotSave, AnswerIsTrue
    <2>3. tool' = None /\ requests' = requests /\ EndIsTrue(last', held, wrote)
        BY <1>2, <2>1, <2>2 DEF Parameters!Finish, EndIsTrue
    <2> QED
        BY <2>3, ToolStep
<1>7. CASE Parameters!GotListed(m)
    <2> DEFINE vals == [p \in DOMAIN tool.values \union {m.name} |->
                           IF p = m.name THEN m.value ELSE tool.values[p]]
    <2>1. tool.step = "list" /\ m.kind = "value"
        BY <1>7 DEF Parameters!GotListed
    <2>2. /\ DOMAIN vals \subseteq Parameters!Parameters
          /\ ListedIsTrue(vals, held)
        BY <1>1, <1>3, <2>1 DEF ListedIsTrue
    <2>3. vals \in ListedValues
        <3>1. \A p \in DOMAIN tool.values : tool.values[p] \in Parameters!Doubles
            BY DEF ToolTypes, Tools, ListedValues
        <3>2. vals \in [DOMAIN vals -> Parameters!Doubles]
            BY <1>3, <2>1, <3>1
        <3> HIDE DEF vals
        <3> QED
            BY <2>2, <3>2 DEF ListedValues
    <2>4. IF DOMAIN vals = Parameters!Parameters THEN Parameters!Finish("ok", vals)
          ELSE tool' = [tool EXCEPT !.values = vals] /\ UNCHANGED <<requests, last>>
        BY <1>7 DEF Parameters!GotListed
    <2> HIDE DEF vals
    <2>5. CASE DOMAIN vals = Parameters!Parameters
        <3>1. Parameters!Finish("ok", vals)
            BY <2>4, <2>5
        <3>2. tool' = None /\ requests' = requests /\ EndIsTrue(last', held, wrote)
            BY <1>2, <2>1, <2>2, <2>5, <3>1 DEF Parameters!Finish, EndIsTrue, ListedIsTrue
        <3> QED
            BY <3>2, ToolStep
    <2>6. CASE DOMAIN vals # Parameters!Parameters
        <3>1. tool' = [tool EXCEPT !.values = vals] /\ requests' = requests /\ last' = last
            BY <2>4, <2>6
        <3>2. tool' \in Tools
            BY <2>3, <3>1 DEF ToolTypes, Tools
        <3>3. /\ tool'.run = tool.run /\ tool'.step = tool.step /\ tool'.op = tool.op
              /\ tool'.want = tool.want /\ tool'.name = tool.name /\ tool'.values = vals
            BY <3>1 DEF ToolTypes, Tools
        <3>4. ToolTypes(tool', runs) /\ ListedIsTrue(tool'.values, held)
            BY <2>2, <3>2, <3>3 DEF ToolTypes
        <3> QED
            BY <3>1, <3>4, ToolStep
    <2> QED
        BY <2>5, <2>6
<1> QED
    BY <1>4, <1>5, <1>6, <1>7

LEMMA AnswerStep ==
    ASSUME ParametersInvariant, Parameters!Receive
    PROVE  ParametersInvariant'
<1>1. PICK m \in replies :
          /\ Parameters!GotValue(m) \/ Parameters!GotSet(m) \/ Parameters!GotSave(m)
             \/ Parameters!GotListed(m)
          /\ IF tool' = None THEN replies' = {} /\ UNCHANGED faults
             ELSE \/ replies' = replies \ {m} /\ UNCHANGED faults
                  \/ faults < MaxFaults /\ faults' = faults + 1 /\ UNCHANGED replies
    BY DEF Parameters!Receive
<1>2. tool # None /\ UNCHANGED <<value, file, armed, runs, held, wrote>>
    BY DEF Parameters!Receive, Parameters!storage, Parameters!history
<1>3. replies' \subseteq replies /\ (tool' = None => replies' = {})
    BY <1>1
<1>4. /\ AnswerIsTrue(m, held, wrote) /\ ToolTypes(tool, runs)
      /\ ListedIsTrue(tool.values, held)
    BY <1>2 DEF ParametersInvariant, LineTypes
<1> QED
    BY <1>1, <1>2, <1>3, <1>4, GotStep

LEMMA ParametersStill ==
    ASSUME ParametersInvariant, UNCHANGED parametersVars
    PROVE  ParametersInvariant'
<1>1. UNCHANGED <<value, file, armed, tool, requests, replies, runs, last, held, wrote>>
    BY DEF parametersVars
<1>2. StorageTypes' /\ StorageIsValid'
    BY <1>1 DEF ParametersInvariant, StorageTypes, StorageIsValid
<1>3. LineTypes'
    BY <1>1 DEF ParametersInvariant, LineTypes
<1>4. LastIsTrue'
    BY <1>1 DEF ParametersInvariant, LastIsTrue
<1> QED
    BY <1>2, <1>3, <1>4 DEF ParametersInvariant

LEMMA ParametersStep ==
    ASSUME ParametersInvariant, [Next]_vars
    PROVE  ParametersInvariant'
<1>1. CASE UNCHANGED parametersVars
    BY <1>1, ParametersStill
<1>2. CASE Parameters!Next
    BY <1>2, HandleStep, StationStep, SetArmedStep, RestartStep, LoseStep, RunToolStep, DeadlineStep,
       AnswerStep, Zenon DEF Parameters!Next
<1> QED
    BY <1>1, <1>2, Zenon DEF Next, vars, Moves, MavlinkMoves, ParametersMoves, BlackboxMoves

----------------------------------------------------------------------------
(* What the tool reports.                                                     *)

LEMMA ReportsSound ==
    ASSUME ParametersInvariant
    PROVE  /\ Parameters!TypeOK /\ Parameters!ReportIsTrue /\ Parameters!ListIsTrue
           /\ Parameters!SavedIsWritten
<1> USE DEF ParametersInvariant
<1>1. Parameters!TypeOK
    <2>1. /\ value \in [Parameters!Parameters -> Parameters!Doubles]
          /\ file \in [Parameters!Parameters -> Parameters!Doubles] /\ armed \in BOOLEAN
        BY DEF StorageTypes
    <2>2. tool # None => /\ tool.attempt \in 1..Retries
                         /\ tool.step \in {"read", "set", "save", "list"}
                         /\ DOMAIN tool.values \subseteq Parameters!Parameters
        BY ToolFields DEF LineTypes
    <2>3. \A r \in requests : r.run \in 1..runs /\ r.kind \in {"read", "set", "save", "list"}
        BY DEF LineTypes, RequestTypes
    <2>4. \A m \in replies : m.kind = "value" =>
              m.name \in Parameters!Parameters /\ m.value \in Parameters!Doubles
        BY DEF LineTypes, AnswerIsTrue
    <2> QED
        BY <2>1, <2>2, <2>3, <2>4 DEF Parameters!TypeOK, LineTypes
<1>2. Parameters!ReportIsTrue
    BY DEF LastIsTrue, EndIsTrue, WasHeld, Parameters!ReportIsTrue
<1>3. Parameters!ListIsTrue
    BY DEF LastIsTrue, EndIsTrue, WasHeld, Parameters!ListIsTrue
<1>4. Parameters!SavedIsWritten
    BY DEF LastIsTrue, EndIsTrue, Parameters!SavedIsWritten
<1> QED
    BY <1>1, <1>2, <1>3, <1>4

\* Only a value that is no number escapes the comparisons of validate.
LEMMA LimitsSound ==
    ASSUME ParametersInvariant, NaN \notin Parameters!Doubles
    PROVE  Parameters!LimitsHold
<1> SUFFICES ASSUME NEW p \in Parameters!Parameters, NEW v \in {value[p], file[p]}
             PROVE  /\ Options[p] # None => v \in Options[p]
                    /\ Minimum[p] # None => v # NaN /\ v >= Minimum[p]
                    /\ Maximum[p] # None => v # NaN /\ v <= Maximum[p]
    BY DEF Parameters!LimitsHold
<1>1. v \in Parameters!Doubles /\ v \in Int /\ v # NaN
    BY DoublesTypes DEF ParametersInvariant, StorageTypes
<1>2. Parameters!Validates(p, v)
    BY DEF ParametersInvariant, StorageIsValid
<1>3. /\ Minimum[p] # None => Minimum[p] \in Int \ {NaN}
      /\ Maximum[p] # None => Maximum[p] \in Int \ {NaN}
    BY ParameterConstants
<1>4. Options[p] # None => v \in Options[p]
    BY <1>2 DEF Parameters!Validates, Parameters!InLimits, Parameters!Same
<1>5. Minimum[p] # None => v >= Minimum[p]
    BY <1>1, <1>2, <1>3 DEF Parameters!Validates, Parameters!InLimits, Parameters!Less
<1>6. Maximum[p] # None => v <= Maximum[p]
    BY <1>1, <1>2, <1>3 DEF Parameters!Validates, Parameters!InLimits, Parameters!Less
<1> QED
    BY <1>1, <1>4, <1>5, <1>6

\* Whatever the line loses, repeats or delays and whoever else sets parameters, a get and a
\* set report a value the vehicle held during that run, a list holds such a value of every
\* parameter, and a save that succeeds wrote the file.
THEOREM ReportsAreTrue ==
    Spec => [](/\ Parameters!TypeOK /\ Parameters!ReportIsTrue /\ Parameters!ListIsTrue
               /\ Parameters!SavedIsWritten)
<1>1. Init => ParametersInvariant
    BY ParametersInit DEF Init
<1>2. ParametersInvariant /\ [Next]_vars => ParametersInvariant'
    BY ParametersStep
<1>3. ParametersInvariant => /\ Parameters!TypeOK /\ Parameters!ReportIsTrue
                             /\ Parameters!ListIsTrue /\ Parameters!SavedIsWritten
    BY ReportsSound
<1> QED
    BY <1>1, <1>2, <1>3, PTL DEF Spec

\* If no value that is no number is ever asked for, the limits of parameters.yaml hold too, in
\* memory and on disk.  (Such a value passes them: section 5 of README.md.)
THEOREM ToolIsTruthful ==
    ASSUME NaN \notin Parameters!Doubles
    PROVE  Spec => []ToolReportsTheTruth
<1>1. Init => ParametersInvariant
    BY ParametersInit DEF Init
<1>2. ParametersInvariant /\ [Next]_vars => ParametersInvariant'
    BY ParametersStep
<1>3. ParametersInvariant => ToolReportsTheTruth
    BY ReportsSound, LimitsSound DEF ToolReportsTheTruth
<1> QED
    BY <1>1, <1>2, <1>3, PTL DEF Spec

----------------------------------------------------------------------------
(* Sequences.                                                                 *)

\* The function that the flattening of s is the last value of.
IsFlattening(s, f) ==
    f = [i \in 1..Len(s) |-> IF i = 1 THEN s[i] ELSE f[i - 1] \o s[i]]

LEMMA FlattenSeqValue ==
    ASSUME NEW S, NEW s \in Seq(S), Len(s) # 0
    PROVE  Blackbox!FlattenSeq(s) = (CHOOSE f : IsFlattening(s, f))[Len(s)]
BY DEF Blackbox!FlattenSeq, IsFlattening

\* There is at most one such function,
LEMMA FlatteningIsUnique ==
    ASSUME NEW S, NEW s \in Seq(S), NEW f, NEW g, IsFlattening(s, f), IsFlattening(s, g)
    PROVE  f = g
<1> DEFINE G == {i \in Nat : i \in 1..Len(s) => f[i] = g[i]}
<1>1. Len(s) \in Nat
    OBVIOUS
<1>2. 1 \in G
    BY DEF IsFlattening
<1>3. ASSUME NEW i \in 1..Len(s), i \in G PROVE i + 1 \in G
    <2>1. CASE i + 1 \in 1..Len(s)
        <3>1. i + 1 # 1 /\ (i + 1) - 1 = i
            BY <1>1
        <3>2. f[i + 1] = f[i] \o s[i + 1]
            BY <2>1, <3>1 DEF IsFlattening
        <3>3. g[i + 1] = g[i] \o s[i + 1]
            BY <2>1, <3>1 DEF IsFlattening
        <3>4. f[i] = g[i]
            BY <1>3
        <3>5. f[i + 1] = g[i + 1]
            BY Zenon, <3>2, <3>3, <3>4
        <3> QED
            BY <3>5, <1>3
    <2> QED
        BY <2>1, <1>1
<1>4. \A i \in 1..Len(s) : f[i] = g[i]
    <2> HIDE DEF G
    <2>1. 1..(Len(s) + 1) \subseteq G
        BY <1>1, <1>2, <1>3, FiniteInduction
    <2> QED
        BY <2>1, <1>1 DEF G
<1>5. f = [i \in 1..Len(s) |-> f[i]] /\ g = [i \in 1..Len(s) |-> g[i]]
    BY DEF IsFlattening
<1> QED
    BY <1>4, <1>5

\* Its first n values.
FlattensUpTo(s, n, f) ==
    f = [i \in 1..n |-> IF i = 1 THEN s[i] ELSE f[i - 1] \o s[i]]

\* and there is one.
LEMMA FlatteningExists ==
    ASSUME NEW S, NEW s \in Seq(S), Len(s) # 0
    PROVE  \E f : IsFlattening(s, f)
<1> DEFINE G == {n \in Nat : \E f : FlattensUpTo(s, n, f)}
<1>1. Len(s) \in Nat \ {0}
    BY EmptySeq, LenProperties
<1>2. 1 \in G
    <2>1. FlattensUpTo(s, 1, [i \in 1..1 |-> s[i]])
        BY DEF FlattensUpTo
    <2> QED
        BY <2>1
<1>3. ASSUME NEW n \in 1..Len(s), n \in G PROVE n + 1 \in G
    <2>1. PICK f : FlattensUpTo(s, n, f)
        BY <1>3
    <2> DEFINE g == [i \in 1..(n + 1) |-> IF i \in 1..n THEN f[i] ELSE f[n] \o s[i]]
    <2>2. ASSUME NEW i \in 1..(n + 1) PROVE g[i] = IF i = 1 THEN s[i] ELSE g[i - 1] \o s[i]
        <3>1. CASE i = 1
            BY <3>1, <2>1 DEF FlattensUpTo
        <3>2. CASE i \in 1..n /\ i # 1
            <4>1. f[i] = f[i - 1] \o s[i]
                BY <3>2, <2>1 DEF FlattensUpTo
            <4>2. i - 1 \in 1..n /\ i - 1 \in 1..(n + 1)
                BY <3>2, <1>3
            <4> QED
                BY <3>2, <4>1, <4>2
        <3>3. CASE i = n + 1
            <4>1. n \in 1..n /\ n \in 1..(n + 1) /\ i - 1 = n /\ i \notin 1..n /\ i # 1
                BY <3>3, <1>3, <1>1
            <4> QED
                BY <4>1
        <3> QED
            BY <3>1, <3>2, <3>3, <1>3, <1>1
    <2>3. FlattensUpTo(s, n + 1, g)
        <3>1. g = [i \in 1..(n + 1) |-> g[i]]
            OBVIOUS
        <3> HIDE DEF g
        <3> QED
            BY <3>1, <2>2 DEF FlattensUpTo
    <2> QED
        BY <2>3, <1>3, <1>1
<1>4. Len(s) \in G
    <2> HIDE DEF G
    <2>1. 1..(Len(s) + 1) \subseteq G
        BY <1>1, <1>2, <1>3, FiniteInduction
    <2> QED
        BY <2>1, <1>1
<1> QED
    BY <1>4 DEF FlattensUpTo, IsFlattening

\* Flattening goes sequence by sequence.
LEMMA FlattenAppend ==
    ASSUME NEW S, NEW s \in Seq(Seq(S)), NEW x \in Seq(S)
    PROVE  Blackbox!FlattenSeq(Append(s, x)) = Blackbox!FlattenSeq(s) \o x
<1> DEFINE t == Append(s, x)
<1>1. t \in Seq(Seq(S)) /\ Len(t) = Len(s) + 1 /\ Len(s) \in Nat
    BY AppendProperties, LenProperties
<1>2. \A i \in 1..Len(s) : t[i] = s[i]
    BY AppendProperties
<1>3. t[Len(s) + 1] = x
    BY AppendProperties
<1> HIDE DEF t
<1>4. PICK g : IsFlattening(t, g)
    BY <1>1, FlatteningExists
<1>5. Blackbox!FlattenSeq(t) = g[Len(s) + 1]
    <2>1. IsFlattening(t, CHOOSE f : IsFlattening(t, f))
        BY <1>4
    <2>2. (CHOOSE f : IsFlattening(t, f)) = g
        BY <2>1, <1>4, <1>1, FlatteningIsUnique
    <2> QED
        BY <2>2, <1>1, FlattenSeqValue
<1>6. CASE Len(s) = 0
    <2>1. s = <<>>
        BY <1>6, EmptySeq
    <2>2. Blackbox!FlattenSeq(s) = <<>>
        BY <1>6, <2>1 DEF Blackbox!FlattenSeq
    <2>3. g[Len(s) + 1] = x
        BY <1>6, <1>4, <1>3, <1>1 DEF IsFlattening
    <2> QED
        BY <1>5, <2>2, <2>3, ConcatEmptySeq DEF t
<1>7. CASE Len(s) # 0
    <2>1. PICK f : IsFlattening(s, f)
        BY <1>7, FlatteningExists
    <2>2. Blackbox!FlattenSeq(s) = f[Len(s)]
        <3>1. IsFlattening(s, CHOOSE h : IsFlattening(s, h))
            BY <2>1
        <3>2. (CHOOSE h : IsFlattening(s, h)) = f
            BY <3>1, <2>1, FlatteningIsUnique
        <3> QED
            BY <3>2, <1>7, FlattenSeqValue
    <2> DEFINE h == [i \in 1..Len(s) |-> g[i]]
    <2>3. IsFlattening(s, h)
        <3>1. ASSUME NEW i \in 1..Len(s) PROVE h[i] = IF i = 1 THEN s[i] ELSE h[i - 1] \o s[i]
            <4>0. i \in 1..Len(t)
                BY <1>1
            <4>1. t[i] = s[i]
                BY <1>2
            <4>2. g[i] = IF i = 1 THEN s[i] ELSE g[i - 1] \o s[i]
                BY <4>0, <4>1, <1>4 DEF IsFlattening
            <4>3. i # 1 => i - 1 \in 1..Len(s)
                BY <1>1
            <4> QED
                BY <4>2, <4>3
        <3>2. h = [i \in 1..Len(s) |-> h[i]]
            OBVIOUS
        <3> HIDE DEF h
        <3> QED
            BY <3>1, <3>2 DEF IsFlattening
    <2>4. f = h
        BY <2>1, <2>3, FlatteningIsUnique
    <2>5. f[Len(s)] = g[Len(s)]
        BY <2>4, <1>7, <1>1
    <2>6. Len(s) + 1 \in 1..Len(t) /\ Len(s) + 1 # 1 /\ (Len(s) + 1) - 1 = Len(s)
        BY <1>1, <1>7
    <2>7. g[Len(s) + 1] = g[Len(s)] \o x
        BY <2>6, <1>3, <1>4 DEF IsFlattening
    <2> QED
        BY <1>5, <2>2, <2>5, <2>7 DEF t
<1> QED
    BY <1>6, <1>7

----------------------------------------------------------------------------
(* The recorder's buffer.                                                     *)

\* Where the telemetry of a queue is.
TelemetryAt(q) == {i \in DOMAIN q : Blackbox!IsTelemetry(q[i])}

LEMMA TelemetryIsCounted ==
    ASSUME NEW S, NEW q \in Seq(S)
    PROVE  /\ IsFiniteSet(TelemetryAt(q))
           /\ Blackbox!TelemetryCount(q) = Cardinality(TelemetryAt(q))
           /\ Blackbox!TelemetryCount(q) \in Nat
<1>1. DOMAIN q = 1..Len(q) /\ Len(q) \in Nat
    BY LenProperties
<1>2. IsFiniteSet(1..Len(q))
    BY <1>1, FS_Interval
<1>3. TelemetryAt(q) \subseteq 1..Len(q)
    BY <1>1 DEF TelemetryAt
<1>4. IsFiniteSet(TelemetryAt(q))
    BY <1>2, <1>3, FS_Subset
<1>5. Blackbox!TelemetryCount(q) = Cardinality(TelemetryAt(q))
    BY DEF Blackbox!TelemetryCount, TelemetryAt, Blackbox!Cardinality, Cardinality
<1> QED
    BY <1>4, <1>5, FS_CardinalityType

\* An item at the end counts once, and only if it is telemetry.
LEMMA AppendCount ==
    ASSUME NEW S, NEW q \in Seq(S), NEW x \in S
    PROVE  Blackbox!TelemetryCount(Append(q, x)) =
               Blackbox!TelemetryCount(q) + IF Blackbox!IsTelemetry(x) THEN 1 ELSE 0
<1> DEFINE t == Append(q, x)
<1>1. /\ t \in Seq(S) /\ Len(t) = Len(q) + 1 /\ Len(q) \in Nat
      /\ \A i \in 1..Len(q) : t[i] = q[i]
      /\ t[Len(q) + 1] = x
    BY AppendProperties, LenProperties
<1>2. DOMAIN t = 1..(Len(q) + 1) /\ DOMAIN q = 1..Len(q)
    BY <1>1, LenProperties
<1> HIDE DEF t
<1>3. IsFiniteSet(TelemetryAt(q)) /\ Len(q) + 1 \notin TelemetryAt(q)
    BY <1>1, <1>2, TelemetryIsCounted DEF TelemetryAt
<1>4. Blackbox!TelemetryCount(q) = Cardinality(TelemetryAt(q)) /\ Blackbox!TelemetryCount(q) \in Nat
    BY TelemetryIsCounted
<1>5. Blackbox!TelemetryCount(t) = Cardinality(TelemetryAt(t))
    BY <1>1, TelemetryIsCounted
<1>6. CASE Blackbox!IsTelemetry(x)
    <2>1. TelemetryAt(t) = TelemetryAt(q) \cup {Len(q) + 1}
        <3>1. \A i \in 1..Len(q) : i \in TelemetryAt(t) <=> i \in TelemetryAt(q)
            BY <1>1, <1>2 DEF TelemetryAt
        <3>2. Len(q) + 1 \in TelemetryAt(t)
            BY <1>1, <1>2, <1>6 DEF TelemetryAt
        <3>3. TelemetryAt(t) \subseteq 1..(Len(q) + 1) /\ TelemetryAt(q) \subseteq 1..Len(q)
            BY <1>2 DEF TelemetryAt
        <3> QED
            BY <3>1, <3>2, <3>3, <1>1
    <2>2. Cardinality(TelemetryAt(t)) = Cardinality(TelemetryAt(q)) + 1
        BY <2>1, <1>3, FS_AddElement
    <2> QED
        BY <2>2, <1>6, <1>4, <1>5 DEF t
<1>7. CASE ~ Blackbox!IsTelemetry(x)
    <2>1. TelemetryAt(t) = TelemetryAt(q)
        <3>1. \A i \in 1..Len(q) : i \in TelemetryAt(t) <=> i \in TelemetryAt(q)
            BY <1>1, <1>2 DEF TelemetryAt
        <3>2. Len(q) + 1 \notin TelemetryAt(t)
            BY <1>1, <1>2, <1>7 DEF TelemetryAt
        <3>3. TelemetryAt(t) \subseteq 1..(Len(q) + 1) /\ TelemetryAt(q) \subseteq 1..Len(q)
            BY <1>2 DEF TelemetryAt
        <3>4. \A i \in 1..(Len(q) + 1) : i = Len(q) + 1 \/ i \in 1..Len(q)
            BY <1>1
        <3>5. TelemetryAt(t) \subseteq 1..Len(q)
            BY <3>2, <3>3, <3>4
        <3> QED
            BY <3>1, <3>3, <3>5
    <2> QED
        BY <2>1, <1>7, <1>4, <1>5 DEF t
<1> QED
    BY <1>6, <1>7

\* A queue whose telemetry is placed among telemetry of another has no more.
LEMMA PlacedCount ==
    ASSUME NEW S, NEW q \in Seq(S), NEW r \in Seq(S), NEW place,
           NEW T \in SUBSET TelemetryAt(q),
           place \in [TelemetryAt(r) -> T],
           \A i, j \in TelemetryAt(r) : place[i] = place[j] => i = j
    PROVE  Blackbox!TelemetryCount(r) <= Cardinality(T)
<1>1. place \in Injection(TelemetryAt(r), T)
    BY DEF Injection, IsInjective
<1>2. IsFiniteSet(T)
    BY TelemetryIsCounted, FS_Subset
<1>3. Cardinality(TelemetryAt(r)) <= Cardinality(T)
    BY <1>1, <1>2, FS_Injection
<1> QED
    BY <1>3, TelemetryIsCounted

LEMMA TailCount ==
    ASSUME NEW S, NEW q \in Seq(S), q # <<>>
    PROVE  Blackbox!TelemetryCount(Tail(q)) <= Blackbox!TelemetryCount(q)
<1> DEFINE t == Tail(q)
<1>1. /\ t \in Seq(S) /\ Len(t) = Len(q) - 1 /\ Len(q) \in Nat
      /\ \A i \in 1..Len(t) : t[i] = q[i + 1]
      /\ DOMAIN q = 1..Len(q) /\ DOMAIN t = 1..Len(t)
    BY HeadTailProperties, LenProperties
<1> HIDE DEF t
<1> DEFINE place == [i \in TelemetryAt(t) |-> i + 1]
<1>2. \A i \in TelemetryAt(t) : i \in Int /\ i + 1 \in TelemetryAt(q)
    BY <1>1 DEF TelemetryAt
<1>3. place \in [TelemetryAt(t) -> TelemetryAt(q)]
    BY <1>2
<1>4. \A i, j \in TelemetryAt(t) : place[i] = place[j] => i = j
    BY <1>2
<1> HIDE DEF place
<1>5. Blackbox!TelemetryCount(t) <= Cardinality(TelemetryAt(q))
    BY <1>1, <1>3, <1>4, PlacedCount
<1> QED
    BY <1>5, TelemetryIsCounted DEF t

\* What is left when one item is taken out.
LEMMA RemoveAtProperties ==
    ASSUME NEW S, NEW q \in Seq(S), NEW k \in 1..Len(q)
    PROVE  /\ Blackbox!RemoveAt(q, k) \in Seq(S)
           /\ Len(Blackbox!RemoveAt(q, k)) = Len(q) - 1
           /\ \A i \in 1..(Len(q) - 1) :
                 Blackbox!RemoveAt(q, k)[i] = IF i < k THEN q[i] ELSE q[i + 1]
<1> DEFINE a == SubSeq(q, 1, k - 1)
           b == SubSeq(q, k + 1, Len(q))
<1>1. Len(q) \in Nat /\ k \in Int /\ 1 <= k /\ k <= Len(q)
    BY LenProperties
<1>2. a \in Seq(S) /\ Len(a) = k - 1 /\ \A i \in 1..(k - 1) : a[i] = q[i]
    <2>1. \A i \in 1..(k - 1) : q[i] \in S
        BY <1>1, ElementOfSeq
    <2>2. /\ a \in Seq(S) /\ Len(a) = IF 1 <= k - 1 THEN k - 1 - 1 + 1 ELSE 0
          /\ \A i \in 1..(k - 1 - 1 + 1) : a[i] = q[1 + i - 1]
        BY <2>1, <1>1, SubSeqProperties
    <2> HIDE DEF a
    <2> QED
        BY <2>2, <1>1
<1>3. b \in Seq(S) /\ Len(b) = Len(q) - k /\ \A i \in 1..(Len(q) - k) : b[i] = q[k + i]
    <2>1. \A i \in (k + 1)..Len(q) : q[i] \in S
        BY <1>1, ElementOfSeq
    <2>2. /\ b \in Seq(S) /\ Len(b) = IF k + 1 <= Len(q) THEN Len(q) - (k + 1) + 1 ELSE 0
          /\ \A i \in 1..(Len(q) - (k + 1) + 1) : b[i] = q[(k + 1) + i - 1]
        BY <2>1, <1>1, SubSeqProperties
    <2> HIDE DEF b
    <2>3. /\ Len(q) - (k + 1) + 1 = Len(q) - k
          /\ (IF k + 1 <= Len(q) THEN Len(q) - (k + 1) + 1 ELSE 0) = Len(q) - k
        BY ONLY <1>1
    <2>4. \A i \in 1..(Len(q) - k) : (k + 1) + i - 1 = k + i
        BY ONLY <1>1
    <2>5. \A i \in 1..(Len(q) - k) : b[i] = q[(k + 1) + i - 1]
        BY Zenon, <2>2, <2>3
    <2>6. \A i \in 1..(Len(q) - k) : b[i] = q[k + i]
        BY Zenon, <2>4, <2>5
    <2> QED
        BY Zenon, <2>2, <2>3, <2>6
<1>4. Blackbox!RemoveAt(q, k) = a \o b
    BY DEF Blackbox!RemoveAt
<1> HIDE DEF a, b
<1>5. /\ a \o b \in Seq(S) /\ Len(a \o b) = Len(a) + Len(b)
      /\ \A i \in 1..(Len(a) + Len(b)) :
            (a \o b)[i] = IF i <= Len(a) THEN a[i] ELSE b[i - Len(a)]
    BY <1>2, <1>3, ConcatProperties
<1>6. Len(a) + Len(b) = Len(q) - 1
    BY <1>1, <1>2, <1>3
<1>7. ASSUME NEW i \in 1..(Len(q) - 1)
      PROVE  (a \o b)[i] = IF i < k THEN q[i] ELSE q[i + 1]
    <2>1. CASE i < k
        BY <2>1, <1>1, <1>2, <1>5, <1>6
    <2>2. CASE ~ (i < k)
        <3>1. i - (k - 1) \in 1..(Len(q) - k) /\ k + (i - (k - 1)) = i + 1
            BY <2>2, <1>1
        <3>2. b[i - (k - 1)] = q[i + 1]
            BY <3>1, <1>3
        <3>3. (a \o b)[i] = b[i - (k - 1)]
            BY <2>2, <1>1, <1>2, <1>5, <1>6
        <3> QED
            BY <2>2, <3>2, <3>3
    <2> QED
        BY <2>1, <2>2
<1> QED
    BY <1>4, <1>5, <1>6, <1>7

\* Taking a telemetry item out leaves one less.
LEMMA RemoveAtCount ==
    ASSUME NEW S, NEW q \in Seq(S), NEW k \in TelemetryAt(q)
    PROVE  Blackbox!TelemetryCount(Blackbox!RemoveAt(q, k)) <= Blackbox!TelemetryCount(q) - 1
<1> DEFINE t == Blackbox!RemoveAt(q, k)
<1>1. Len(q) \in Nat /\ DOMAIN q = 1..Len(q) /\ k \in 1..Len(q)
    BY LenProperties DEF TelemetryAt
<1>2. /\ t \in Seq(S) /\ Len(t) = Len(q) - 1
      /\ \A i \in 1..(Len(q) - 1) : t[i] = IF i < k THEN q[i] ELSE q[i + 1]
    BY <1>1, RemoveAtProperties
<1>3. DOMAIN t = 1..(Len(q) - 1)
    BY <1>2, LenProperties
<1> HIDE DEF t
<1> DEFINE T == TelemetryAt(q) \ {k}
           place == [i \in TelemetryAt(t) |-> IF i < k THEN i ELSE i + 1]
<1>4. ASSUME NEW i \in TelemetryAt(t)
      PROVE  i \in Int /\ (IF i < k THEN i ELSE i + 1) \in T
    BY <1>1, <1>2, <1>3 DEF TelemetryAt
<1>5. place \in [TelemetryAt(t) -> T]
    BY <1>4
<1>6. \A i, j \in TelemetryAt(t) : place[i] = place[j] => i = j
    <2>1. \A i \in TelemetryAt(t) : i \in Int /\ k \in Int
        BY <1>4, <1>1
    <2> QED
        BY <2>1
<1>7. Cardinality(T) = Cardinality(TelemetryAt(q)) - 1
    BY TelemetryIsCounted, FS_RemoveElement
<1>8. T \in SUBSET TelemetryAt(q)
    OBVIOUS
<1> HIDE DEF place, T
<1>9. Blackbox!TelemetryCount(t) <= Cardinality(T)
    BY <1>2, <1>5, <1>6, <1>8, PlacedCount
<1> QED
    BY <1>7, <1>9, TelemetryIsCounted DEF t

----------------------------------------------------------------------------
(* The recorder's types.                                                      *)

StreamNames == {"frames", "odometry"}
RowSets == [frames : Seq(Nat), odometry : Seq(0..MaxFlights)]
Items ==
    [kind : {"frame"}, row : Nat] \cup [kind : {"odometry"}, row : 0..MaxFlights]
    \cup [kind : {"start"}, id : Blackbox!Flights, dropped : Nat]
    \cup [kind : {"end"}, id : Blackbox!Flights, clean : BOOLEAN] \cup [kind : {"stop"}]
SessionStates ==
    [id : Blackbox!Flights \cup {None}, rows : RowSets, chunks : Seq(RowSets), count : Nat,
     dropped_start : Nat, todo : Seq(StreamNames), item : Items]
Directories ==
    [dir : BOOLEAN, status : {None, "recording", "complete", "unclean"}, chunks : Seq(RowSets),
     count : Nat, dropped : Int, reason : {None, "interrupted"},
     files : SUBSET [chunk : Nat, stream : StreamNames], tmp : BOOLEAN]
DiskStates == [Blackbox!Flights -> Directories]
PastStates ==
    [frames : [Blackbox!Flights -> Seq(Nat)], drops : [Blackbox!Flights -> Int],
     dropped : Int, lost : BOOLEAN, earlier : 0..MaxFlights]

ThreadTypes ==
    /\ recorder \in {"down", "idle", "reset", "start", "frame", "end", "stopped"}
    /\ writer \in {"done", "get", "mkdir", "meta", "append", "flush", "write", "close"}
    /\ odo \in [at : {"idle", "active", "row"}, start : 0..MaxFlights]
    /\ enabled \in BOOLEAN /\ flight_active \in BOOLEAN
    /\ session_id \in Blackbox!Flights \cup {None} /\ session_start \in 0..MaxFlights
    /\ sample_index \in Nat /\ flights \in 0..MaxFlights /\ dropped_frames \in Nat

RecordTypes ==
    /\ queue \in Seq(Items) /\ session \in SessionStates /\ disk \in DiskStates
    /\ past \in PastStates

\* The instance's constants.
LEMMA RecorderConstants ==
    /\ {Capacity, MaxFlights, MaxFrames, MaxOdometry} \subseteq Nat \ {0}
    /\ MaxRecorderFaults \in Nat
    /\ None \notin Nat \cup {"recording", "complete", "unclean", "interrupted"}
    /\ Blackbox!Flights \subseteq Nat \ {0} /\ None \notin Blackbox!Flights
BY InstancesAssumption DEF Blackbox!BlackboxAssumption, Blackbox!Flights

\* The fields that an item of each kind has.
LEMMA ItemTypes ==
    ASSUME NEW item \in Items
    PROVE  /\ item.kind \in {"frame", "odometry", "start", "end", "stop"}
           /\ item.kind = "frame" => item.row \in Nat
           /\ item.kind = "odometry" => item.row \in 0..MaxFlights
           /\ item.kind = "start" => item.id \in Blackbox!Flights /\ item.dropped \in Nat
           /\ item.kind = "end" => item.id \in Blackbox!Flights /\ item.clean \in BOOLEAN
<1> DEFINE F == [kind : {"frame"}, row : Nat]
           O == [kind : {"odometry"}, row : 0..MaxFlights]
           S == [kind : {"start"}, id : Blackbox!Flights, dropped : Nat]
           E == [kind : {"end"}, id : Blackbox!Flights, clean : BOOLEAN]
           X == [kind : {"stop"}]
<1>1. item \in F \/ item \in O \/ item \in S \/ item \in E \/ item \in X
    BY DEF Items
<1>2. CASE item \in F
    BY <1>2
<1>3. CASE item \in O
    BY <1>3
<1>4. CASE item \in S
    BY <1>4
<1>5. CASE item \in E
    BY <1>5
<1>6. CASE item \in X
    BY <1>6
<1> HIDE DEF F, O, S, E, X
<1> QED
    BY <1>1, <1>2, <1>3, <1>4, <1>5, <1>6

\* The items the threads put into the queue.
LEMMA ItemsArePut ==
    /\ \A n \in Nat : Blackbox!Frame(n) \in Items
    /\ \A n \in 0..MaxFlights : Blackbox!Odometry(n) \in Items
    /\ \A s \in Blackbox!Flights : dropped_frames \in Nat => Blackbox!StartFlight(s) \in Items
    /\ \A s \in Blackbox!Flights, clean \in BOOLEAN : Blackbox!EndFlight(s, clean) \in Items
    /\ Blackbox!StopWriter \in Items
<1>1. ASSUME NEW n \in Nat PROVE Blackbox!Frame(n) \in Items
    <2>1. Blackbox!Frame(n) \in [kind : {"frame"}, row : Nat]
        BY DEF Blackbox!Frame
    <2> QED
        BY <2>1 DEF Items
<1>2. ASSUME NEW n \in 0..MaxFlights PROVE Blackbox!Odometry(n) \in Items
    <2>1. Blackbox!Odometry(n) \in [kind : {"odometry"}, row : 0..MaxFlights]
        BY DEF Blackbox!Odometry
    <2> QED
        BY <2>1 DEF Items
<1>3. ASSUME NEW s \in Blackbox!Flights, dropped_frames \in Nat
      PROVE  Blackbox!StartFlight(s) \in Items
    <2>1. Blackbox!StartFlight(s) \in [kind : {"start"}, id : Blackbox!Flights, dropped : Nat]
        BY <1>3 DEF Blackbox!StartFlight
    <2> QED
        BY <2>1 DEF Items
<1>4. ASSUME NEW s \in Blackbox!Flights, NEW clean \in BOOLEAN
      PROVE  Blackbox!EndFlight(s, clean) \in Items
    <2>1. Blackbox!EndFlight(s, clean) \in [kind : {"end"}, id : Blackbox!Flights, clean : BOOLEAN]
        BY DEF Blackbox!EndFlight
    <2> QED
        BY <2>1 DEF Items
<1>5. Blackbox!StopWriter \in Items
    <2>1. Blackbox!StopWriter \in [kind : {"stop"}]
        BY DEF Blackbox!StopWriter
    <2> QED
        BY <2>1 DEF Items
<1> QED
    BY <1>1, <1>2, <1>3, <1>4, <1>5

----------------------------------------------------------------------------
(* The recorder's invariant.                                                  *)

\* Flights are numbered as they begin, and the control loop is in the last one.
FlightsAreNumbered ==
    /\ session_id \in {None, flights} /\ past.earlier <= flights
    /\ session_id = None => ~ flight_active
    /\ session_id # None => past.earlier < session_id
    /\ recorder \in {"reset", "start", "frame", "end"} => session_id # None
    /\ recorder \in {"reset", "start", "frame"} => flight_active
    /\ recorder = "idle" /\ session_id # None => flight_active
    /\ recorder = "end" => ~ flight_active
    /\ recorder \in {"down", "stopped"} => session_id = None

\* A process that is down holds nothing.
DownIsEmpty ==
    recorder = "down" =>
        queue = <<>> /\ writer = "done" /\ session = Blackbox!NoSession /\ odo = Blackbox!NoSample

\* The writer is at an item, which it took from the queue.
AtItem == writer \notin {"get", "done"}

\* What the writer does is what its item asks for, in the session it has open;
\* that session is the one its directory shows as being recorded.
WriterIsInSession ==
    /\ writer \in {"mkdir", "meta"} <=> AtItem /\ session.item.kind = "start"
    /\ AtItem => session.item.kind # "stop"
    /\ writer = "append" => session.item.kind \in {"frame", "odometry"}
    /\ writer \in {"flush", "close"} => session.item.kind = "end"
    /\ writer \in {"append", "flush", "write", "close"} => session.id # None
    /\ AtItem /\ session.item.kind = "end" => session.item.id = session.id
    /\ session.id = None => session.count = 0 /\ session.dropped_start = 0
    /\ session.id # None =>
         /\ session.id \in (past.earlier + 1)..flights
         /\ disk[session.id].chunks = session.chunks
         /\ disk[session.id].status = "recording"
    /\ writer = "close" => session.rows.frames = <<>>

\* The frames of a sequence of chunks.
FramesOf(chunks) == Blackbox!FlattenSeq([i \in DOMAIN chunks |-> chunks[i].frames])

\* What the open session has, in its chunks and in memory, is the beginning of
\* what its flight recorded.
SessionIsPrefix ==
    session.id # None =>
        /\ session.count <= Len(past.frames[session.id])
        /\ FramesOf(session.chunks) \o session.rows.frames =
               SubSeq(past.frames[session.id], 1, session.count)

\* A flight that ended.
Over(s) == s \in 1..flights /\ s # session_id

\* A flight nothing is on disk of but its directory.
IsNew(s) == disk[s].status = None /\ disk[s].chunks = <<>> /\ disk[s].reason = None

\* The flights whose starts are in a queue, and that each of them is there once.
StartsIn(q) == {i \in DOMAIN q : q[i].kind = "start"}
StartIds(q) == {q[i].id : i \in StartsIn(q)}
StartsAreDistinct(q) == \A i, j \in StartsIn(q) : q[i].id = q[j].id => i = j

\* Nothing is on disk of a flight before the writer is at its start, which is put
\* once.
StartsAreNew ==
    /\ \A s \in Blackbox!Flights : s > flights => IsNew(s) /\ past.frames[s] = <<>>
    /\ StartsAreDistinct(queue)
    /\ \A s \in StartIds(queue) : s \in (past.earlier + 1)..flights /\ IsNew(s)
    /\ writer \in {"mkdir", "meta"} =>
         /\ session.item.id \in (past.earlier + 1)..flights /\ IsNew(session.item.id)
         /\ session.item.id \notin StartIds(queue)
    /\ recorder \in {"reset", "start"} =>
         /\ IsNew(session_id) /\ past.frames[session_id] = <<>>
         /\ session_id \notin StartIds(queue)
         /\ writer \in {"mkdir", "meta"} => session.item.id # session_id

\* A complete session is that of a flight that ended, and has all of it; a
\* recovered one has no half-written file; after a start an earlier one is open
\* only if its recovery failed.
DirectoriesAreClosed ==
    \A s \in Blackbox!Flights :
        /\ disk[s].status = "complete" =>
             /\ Over(s) /\ FramesOf(disk[s].chunks) = past.frames[s]
             /\ disk[s].count = Len(past.frames[s]) /\ past.drops[s] <= disk[s].dropped
        /\ disk[s].reason = "interrupted" => disk[s].status = "unclean" /\ ~ disk[s].tmp
        /\ s <= past.earlier /\ recorder # "down" =>
             (disk[s].status = "recording" => s \in unrecovered)

\* Every row of a listed chunk is in a file; so is every row of the chunk that is
\* being written, but for the streams still to do.
FilesAreWritten ==
    /\ \A s \in Blackbox!Flights, x \in StreamNames : \A j \in DOMAIN disk[s].chunks :
          disk[s].chunks[j][x] # <<>> => [chunk |-> j - 1, stream |-> x] \in disk[s].files
    /\ writer = "write" =>
          \A x \in StreamNames : session.rows[x] # <<>> =>
              \/ \E i \in DOMAIN session.todo : session.todo[i] = x
              \/ [chunk |-> Len(session.chunks), stream |-> x] \in disk[session.id].files

----------------------------------------------------------------------------
(* What the writer will have done at each item of the queue: its session, the *)
(* frames that session has, and the drops counted before it.                  *)

WriterStates == {w \in [id : Blackbox!Flights \cup {None}, count : Nat, dropped : Nat] :
                    w.id = None => w.count = 0 /\ w.dropped = 0}
NoState == [id |-> None, count |-> 0, dropped |-> 0]

\* The writer with its session, after an item.
After(w, item) ==
    CASE item.kind = "start" -> [id |-> item.id, count |-> 0, dropped |-> item.dropped]
      [] item.kind = "frame" /\ w.id # None -> [w EXCEPT !.count = @ + 1]
      [] item.kind = "end" -> NoState
      [] item.kind \in {"odometry", "stop"} \/ (item.kind = "frame" /\ w.id = None) -> w

\* What the history says of the flights: their frames and drops, those counted so
\* far, and which flights ended.
History == [frames |-> past.frames, drops |-> past.drops, dropped |-> dropped_frames,
            over |-> {s \in Blackbox!Flights : Over(s)}]
Histories == [frames : [Blackbox!Flights -> Seq(Nat)], drops : [Blackbox!Flights -> Int],
              dropped : Nat, over : SUBSET Blackbox!Flights]

\* A frame is the next one of its flight, and a clean end comes after the last.
Fits(h, w, item) ==
    /\ item.kind = "frame" /\ w.id # None =>
         w.count < Len(h.frames[w.id]) /\ h.frames[w.id][w.count + 1] = item.row
    /\ item.kind = "end" => w.id \in {None, item.id}
    /\ item.kind = "end" /\ item.clean => item.id \in h.over
    /\ item.kind = "end" /\ item.clean /\ w.id # None =>
         w.count = Len(h.frames[item.id]) /\ h.drops[item.id] <= h.dropped - w.dropped

\* From w the writer comes through q to the state last.
IsReplay(h, replay, w, q) ==
    /\ replay \in [0..Len(q) -> WriterStates] /\ replay[0] = w
    /\ \A i \in 1..Len(q) :
         replay[i] = After(replay[i - 1], q[i]) /\ Fits(h, replay[i - 1], q[i])
Replays(h, w, q, v) == \E replay : IsReplay(h, replay, w, q) /\ replay[Len(q)] = v

SessionState == [id |-> session.id, count |-> session.count, dropped |-> session.dropped_start]
WriterState == IF AtItem THEN After(SessionState, session.item) ELSE SessionState

\* The writer that has done the whole queue is where the control loop is.
IsUpToDate(w) ==
    session_id # None /\ recorder \notin {"reset", "start"} =>
        /\ w.id \in {None, session_id}
        /\ w.id # None => w.count = Len(past.frames[session_id]) /\ w.dropped = past.dropped

QueueFits ==
    /\ AtItem => Fits(History, SessionState, session.item)
    /\ \E v \in WriterStates :
         Replays(History, WriterState, queue, v) /\ IsUpToDate(v)

BufferIsBounded == Blackbox!TelemetryCount(queue) <= Capacity

RecorderInvariant ==
    /\ ThreadTypes /\ RecordTypes /\ BufferIsBounded
    /\ FlightsAreNumbered /\ DownIsEmpty /\ WriterIsInSession /\ SessionIsPrefix
    /\ StartsAreNew /\ DirectoriesAreClosed /\ FilesAreWritten /\ QueueFits

----------------------------------------------------------------------------
(* The steps of the recorder: types.                                          *)

\* What becomes of a frame, or of the odometry in its way.
LEMMA PutFrameEffect ==
    ASSUME queue \in Seq(Items), NEW item, Blackbox!PutFrame(item)
    PROVE  \/ /\ queue' = Append(queue, item) /\ ~ Blackbox!Full(queue)
              /\ dropped_frames' = dropped_frames
           \/ /\ \E k \in 1..Len(queue) : /\ queue[k].kind = "odometry"
                                          /\ queue' = Append(Blackbox!RemoveAt(queue, k), item)
              /\ dropped_frames' = dropped_frames
           \/ queue' = queue /\ dropped_frames' = dropped_frames + 1
<1>1. CASE ~ Blackbox!Full(queue) /\ queue' = Append(queue, item) /\ UNCHANGED dropped_frames
    BY <1>1
<1>2. CASE /\ Blackbox!OdometryIn(queue) # {}
           /\ queue' = Append(Blackbox!RemoveAt(queue, Blackbox!Oldest(Blackbox!OdometryIn(queue))),
                              item)
           /\ UNCHANGED dropped_frames
    <2> DEFINE O == Blackbox!OdometryIn(queue)
    <2>1. DOMAIN queue = 1..Len(queue) /\ Len(queue) \in Nat
        BY LenProperties
    <2>2. O \in SUBSET Nat /\ O # {}
        BY <1>2, <2>1 DEF Blackbox!OdometryIn
    <2>3. PICK m \in O : \A i \in O : m <= i
        <3> HIDE DEF O
        <3> QED
            BY <2>2, LeastNumber
    <2>4. Blackbox!Oldest(O) \in O
        <3> HIDE DEF O
        <3> QED
            BY <2>3 DEF Blackbox!Oldest
    <2>5. Blackbox!Oldest(O) \in 1..Len(queue) /\ queue[Blackbox!Oldest(O)].kind = "odometry"
        BY <2>1, <2>4 DEF Blackbox!OdometryIn
    <2> QED
        BY <1>2, <2>5
<1>3. CASE UNCHANGED queue /\ dropped_frames' = dropped_frames + 1
    BY <1>3
<1> QED
    BY <1>1, <1>2, <1>3 DEF Blackbox!PutFrame, Blackbox!dropVars

\* A stop ends the flight, if there is one, and then the writer.
LEMMA StopItemsAreAppended ==
    ASSUME queue \in Seq(Items), session_id \in Blackbox!Flights \/ ~ flight_active
    PROVE  queue \o Blackbox!StopItems =
             IF flight_active
             THEN Append(Append(queue, Blackbox!EndFlight(session_id, FALSE)), Blackbox!StopWriter)
             ELSE Append(queue, Blackbox!StopWriter)
<1> DEFINE e == Blackbox!EndFlight(session_id, FALSE)
           x == Blackbox!StopWriter
<1>1. CASE flight_active
    <2>1. e \in Items /\ x \in Items
        BY <1>1, ItemsArePut
    <2> HIDE DEF e, x
    <2>2. <<e>> \in Seq(Items) /\ <<x>> \in Seq(Items)
        BY <2>1
    <2>3. Append(Append(queue, e), x) = (queue \o <<e>>) \o <<x>>
        BY <2>1, AppendIsConcat, AppendProperties
    <2>4. (queue \o <<e>>) \o <<x>> = queue \o (<<e>> \o <<x>>)
        BY <2>2, ConcatAssociative
    <2>5. Blackbox!StopItems = <<e>> \o <<x>>
        BY <1>1 DEF Blackbox!StopItems, e, x
    <2> QED
        BY <1>1, <2>3, <2>4, <2>5 DEF e, x
<1>2. CASE ~ flight_active
    <2>1. x \in Items
        BY ItemsArePut
    <2>2. Blackbox!StopItems = <<x>>
        <3>1. Blackbox!StopItems = <<>> \o <<x>>
            BY <1>2 DEF Blackbox!StopItems
        <3> HIDE DEF x
        <3>2. <<x>> \in Seq(Items)
            BY <2>1
        <3> QED
            BY <3>1, <3>2, ConcatEmptySeq
    <2> HIDE DEF x
    <2> QED
        BY <1>2, <2>1, <2>2, AppendIsConcat DEF x
<1> QED
    BY <1>1, <1>2

\* The streams that have rows, and a session that is not open.
LEMMA PendingType ==
    /\ Blackbox!Pending \in Seq(StreamNames)
    /\ \A x \in StreamNames : session.rows[x] # <<>> =>
           \E i \in DOMAIN Blackbox!Pending : Blackbox!Pending[i] = x
<1> DEFINE a == Blackbox!Written("frames")
           b == Blackbox!Written("odometry")
<1>1. /\ a \in Seq(StreamNames) /\ b \in Seq(StreamNames)
      /\ a = IF session.rows["frames"] # <<>> THEN <<"frames">> ELSE <<>>
      /\ b = IF session.rows["odometry"] # <<>> THEN <<"odometry">> ELSE <<>>
    <2>1. /\ <<>> \in Seq(StreamNames) /\ <<"frames">> \in Seq(StreamNames)
          /\ <<"odometry">> \in Seq(StreamNames)
        BY DEF StreamNames
    <2> QED
        BY <2>1 DEF Blackbox!Written
<1>2. Blackbox!Pending = a \o b
    BY DEF Blackbox!Pending
<1> HIDE DEF a, b
<1>3. /\ a \o b \in Seq(StreamNames) /\ Len(a \o b) = Len(a) + Len(b)
      /\ \A i \in 1..(Len(a) + Len(b)) : (a \o b)[i] = IF i <= Len(a) THEN a[i] ELSE b[i - Len(a)]
    BY <1>1, ConcatProperties
<1>4. DOMAIN (a \o b) = 1..(Len(a) + Len(b))
    BY <1>3, LenProperties
<1>5. ASSUME session.rows["frames"] # <<>> PROVE 1 \in DOMAIN (a \o b) /\ (a \o b)[1] = "frames"
    <2>1. Len(a) = 1 /\ a[1] = "frames" /\ Len(b) \in Nat
        BY <1>1, <1>5, LenProperties
    <2> QED
        BY <2>1, <1>3, <1>4
<1>6. ASSUME session.rows["odometry"] # <<>>
      PROVE  Len(a) + 1 \in DOMAIN (a \o b) /\ (a \o b)[Len(a) + 1] = "odometry"
    <2>1. Len(b) = 1 /\ b[1] = "odometry" /\ Len(a) \in Nat
        BY <1>1, <1>6, LenProperties
    <2> QED
        BY <2>1, <1>3, <1>4
<1> QED
    BY <1>2, <1>3, <1>5, <1>6 DEF StreamNames

\* A directory that changes in one way or another is one still.
LEMMA DirectoryTypes ==
    ASSUME NEW d \in Directories
    PROVE  /\ [d EXCEPT !.dir = TRUE] \in Directories
           /\ \A b \in BOOLEAN : [d EXCEPT !.tmp = b] \in Directories
           /\ [d EXCEPT !.status = "recording"] \in Directories
           /\ [d EXCEPT !.status = "unclean", !.reason = "interrupted", !.tmp = FALSE] \in Directories
           /\ \A f \in [chunk : Nat, stream : StreamNames] :
                 [d EXCEPT !.files = @ \cup {f}] \in Directories
           /\ \A c \in Seq(RowSets) : [d EXCEPT !.chunks = c] \in Directories
           /\ \A x \in {"complete", "unclean"}, n \in Nat, k \in Int :
                 [d EXCEPT !.status = x, !.count = n, !.dropped = k] \in Directories
           /\ \A c \in Seq(RowSets), n \in Nat, k \in Int :
                 [d EXCEPT !.status = "unclean", !.chunks = c, !.count = n, !.dropped = k, !.tmp = TRUE]
                     \in Directories
BY DEF Directories

LEMMA DiskType ==
    ASSUME disk \in DiskStates, NEW s \in Blackbox!Flights, NEW d \in Directories
    PROVE  disk[s] \in Directories /\ [disk EXCEPT ![s] = d] \in DiskStates
BY DEF DiskStates

\* So is the session, and the history.
LEMMA SessionTypes ==
    ASSUME NEW t \in SessionStates
    PROVE  /\ \A i \in Items : [t EXCEPT !.item = i] \in SessionStates
           /\ \A x \in Seq(StreamNames) : [t EXCEPT !.todo = x] \in SessionStates
           /\ \A r \in RowSets : [t EXCEPT !.rows = r] \in SessionStates
           /\ \A r \in RowSets, n \in Nat : [t EXCEPT !.rows = r, !.count = n] \in SessionStates
           /\ \A c \in Seq(RowSets), r \in RowSets :
                 [t EXCEPT !.chunks = c, !.rows = r] \in SessionStates
BY DEF SessionStates

LEMMA PastTypes ==
    ASSUME NEW t \in PastStates
    PROVE  /\ \A f \in [Blackbox!Flights -> Seq(Nat)] : [t EXCEPT !.frames = f] \in PastStates
           /\ \A d \in [Blackbox!Flights -> Int] : [t EXCEPT !.drops = d] \in PastStates
           /\ \A n \in Int : [t EXCEPT !.dropped = n] \in PastStates
           /\ \A b \in BOOLEAN : [t EXCEPT !.lost = b] \in PastStates
           /\ \A e \in 0..MaxFlights : [t EXCEPT !.earlier = e] \in PastStates
BY DEF PastStates

LEMMA NoSessionType == Blackbox!NoSession \in SessionStates
<1>1. <<>> \in Seq(RowSets) /\ <<>> \in Seq(Nat) /\ <<>> \in Seq(0..MaxFlights)
      /\ <<>> \in Seq(StreamNames)
    BY EmptySeq
<1> QED
    BY <1>1, ItemsArePut DEF Blackbox!NoSession, SessionStates, RowSets

\* Every step keeps the types.
LEMMA RecorderTypesKept ==
    ASSUME ThreadTypes, RecordTypes, FlightsAreNumbered, WriterIsInSession, Blackbox!Next
    PROVE  ThreadTypes' /\ RecordTypes'
<1> USE RecorderConstants
<1>25. writer \in {"mkdir", "meta"} => session.item.id \in Blackbox!Flights
    BY ItemTypes DEF RecordTypes, SessionStates, WriterIsInSession, AtItem
<1>26. writer \in {"append", "flush", "write", "close"} => session.id \in Blackbox!Flights
    BY DEF RecordTypes, SessionStates, WriterIsInSession
<1>27. session.id # None => session.id \in Blackbox!Flights
    BY DEF RecordTypes, SessionStates
<1>28. \A s \in Blackbox!Flights : disk[s] \in Directories
    BY DEF RecordTypes, DiskStates
<1>1. CASE Blackbox!BeginFlight
    <2>1. flights + 1 \in Blackbox!Flights /\ flights + 1 \in 0..MaxFlights
        BY <1>1 DEF Blackbox!BeginFlight, ThreadTypes, Blackbox!Flights
    <2> QED
        BY <1>1, <2>1 DEF Blackbox!BeginFlight, ThreadTypes, RecordTypes, Blackbox!writeVars, Blackbox!dropVars
<1>2. CASE Blackbox!ResetSamples
    <2>1. session_id \in 0..MaxFlights
        BY <1>2 DEF Blackbox!ResetSamples, ThreadTypes, FlightsAreNumbered, Blackbox!Flights
    <2> QED
        BY <1>2, <2>1 DEF Blackbox!ResetSamples, ThreadTypes, RecordTypes, Blackbox!writeVars,
           Blackbox!dropVars, Blackbox!countVars
<1>3. CASE Blackbox!PutStart
    <2>1. Blackbox!StartFlight(session_id) \in Items
        BY <1>3, ItemsArePut DEF Blackbox!PutStart, ThreadTypes, FlightsAreNumbered
    <2>2. queue' \in Seq(Items)
        BY <1>3, <2>1, AppendProperties DEF Blackbox!PutStart, RecordTypes
    <2>3. past' \in PastStates
        BY <1>3, PastTypes DEF Blackbox!PutStart, RecordTypes, ThreadTypes
    <2> QED
        BY <1>3, <2>2, <2>3 DEF Blackbox!PutStart, ThreadTypes, RecordTypes, Blackbox!writeVars,
           Blackbox!dropVars, Blackbox!countVars
<1>4. CASE Blackbox!Record
    <2>1. Blackbox!Frame(sample_index) \in Items
        BY ItemsArePut DEF ThreadTypes
    <2>2. queue' \in Seq(Items) /\ dropped_frames' \in Nat
        <3>1. queue \in Seq(Items) /\ Blackbox!PutFrame(Blackbox!Frame(sample_index))
            BY <1>4 DEF Blackbox!Record, RecordTypes
        <3>2. dropped_frames' \in Nat
            BY <3>1, PutFrameEffect DEF ThreadTypes
        <3>3. ASSUME NEW k \in 1..Len(queue),
                     queue' = Append(Blackbox!RemoveAt(queue, k), Blackbox!Frame(sample_index))
              PROVE  queue' \in Seq(Items)
            <4>1. Blackbox!RemoveAt(queue, k) \in Seq(Items)
                BY <3>1, RemoveAtProperties
            <4> QED
                BY <2>1, <3>3, <4>1, AppendProperties
        <3>4. Append(queue, Blackbox!Frame(sample_index)) \in Seq(Items)
            BY <2>1, <3>1, AppendProperties
        <3> QED
            BY <3>1, <3>2, <3>3, <3>4, PutFrameEffect
    <2>3. session_id \in Blackbox!Flights
        BY <1>4 DEF Blackbox!Record, ThreadTypes, FlightsAreNumbered
    <2>4. past' \in PastStates
        <3>1. past.frames \in [Blackbox!Flights -> Seq(Nat)]
            BY DEF RecordTypes, PastStates
        <3>2. Append(past.frames[session_id], sample_index) \in Seq(Nat)
            BY <2>3, <3>1, AppendProperties DEF ThreadTypes
        <3>3. [past.frames EXCEPT ![session_id] = Append(past.frames[session_id], sample_index)]
                  \in [Blackbox!Flights -> Seq(Nat)]
            BY <3>1, <3>2
        <3>4. \/ past' = past
              \/ past' = [past EXCEPT !.frames =
                     [past.frames EXCEPT ![session_id] = Append(past.frames[session_id], sample_index)]]
            BY <1>4 DEF Blackbox!Record
        <3> DEFINE frames == [past.frames EXCEPT ![session_id] =
                                 Append(past.frames[session_id], sample_index)]
        <3>5. frames \in [Blackbox!Flights -> Seq(Nat)]
              /\ (past' = past \/ past' = [past EXCEPT !.frames = frames])
            BY <3>3, <3>4
        <3> HIDE DEF frames
        <3> QED
            BY <3>5, PastTypes DEF RecordTypes
    <2> QED
        BY <1>4, <2>2, <2>4 DEF Blackbox!Record, ThreadTypes, RecordTypes, Blackbox!writeVars,
           Blackbox!countVars
<1>5. CASE Blackbox!CaptureFails
    BY <1>5 DEF Blackbox!CaptureFails, ThreadTypes, RecordTypes, Blackbox!writeVars, Blackbox!dropVars
<1>6. CASE Blackbox!Disarm
    BY <1>6 DEF Blackbox!Disarm, ThreadTypes, RecordTypes, Blackbox!writeVars, Blackbox!dropVars,
       Blackbox!countVars
<1>7. CASE Blackbox!PutEnd
    <2>1. session_id \in Blackbox!Flights
        BY <1>7 DEF Blackbox!PutEnd, ThreadTypes, FlightsAreNumbered
    <2>2. queue' \in Seq(Items)
        BY <1>7, <2>1, ItemsArePut, AppendProperties DEF Blackbox!PutEnd, RecordTypes
    <2>3. past' \in PastStates
        <3> DEFINE drops == [past.drops EXCEPT ![session_id] = dropped_frames - past.dropped]
        <3>1. drops \in [Blackbox!Flights -> Int]
            BY <2>1 DEF RecordTypes, PastStates, ThreadTypes
        <3>2. past' = [past EXCEPT !.drops = drops]
            BY <1>7 DEF Blackbox!PutEnd
        <3> HIDE DEF drops
        <3> QED
            BY <3>1, <3>2, PastTypes DEF RecordTypes
    <2> QED
        BY <1>7, <2>2, <2>3 DEF Blackbox!PutEnd, ThreadTypes, RecordTypes, Blackbox!writeVars,
           Blackbox!dropVars, Blackbox!countVars
<1>8. CASE Blackbox!Stop
    <2>1. session_id \in Blackbox!Flights \/ ~ flight_active
        BY DEF ThreadTypes, FlightsAreNumbered
    <2>2. queue' \in Seq(Items)
        <3>1. queue \in Seq(Items) /\ queue' = queue \o Blackbox!StopItems
            BY <1>8 DEF Blackbox!Stop, RecordTypes
        <3>2. CASE flight_active
            <4>1. Blackbox!EndFlight(session_id, FALSE) \in Items /\ Blackbox!StopWriter \in Items
                BY <2>1, <3>2, ItemsArePut
            <4>2. Append(queue, Blackbox!EndFlight(session_id, FALSE)) \in Seq(Items)
                BY <3>1, <4>1, AppendProperties
            <4>3. queue' = Append(Append(queue, Blackbox!EndFlight(session_id, FALSE)),
                                  Blackbox!StopWriter)
                BY <2>1, <3>1, <3>2, StopItemsAreAppended
            <4> QED
                BY <4>1, <4>2, <4>3, AppendProperties
        <3>3. CASE ~ flight_active
            <4>1. Blackbox!StopWriter \in Items
                BY ItemsArePut
            <4>2. queue' = Append(queue, Blackbox!StopWriter)
                BY <2>1, <3>1, <3>3, StopItemsAreAppended
            <4> QED
                BY <3>1, <4>1, <4>2, AppendProperties
        <3> QED
            BY <3>2, <3>3
    <2> QED
        BY <1>8, <2>2 DEF Blackbox!Stop, ThreadTypes, RecordTypes, Blackbox!writeVars,
           Blackbox!dropVars, Blackbox!countVars
<1>9. CASE Blackbox!OdometryCheck
    BY <1>9 DEF Blackbox!OdometryCheck, ThreadTypes, RecordTypes, Blackbox!writeVars, Blackbox!dropVars,
       Blackbox!appVars
<1>10. CASE Blackbox!OdometryRow
    BY <1>10 DEF Blackbox!OdometryRow, ThreadTypes, RecordTypes, Blackbox!writeVars, Blackbox!dropVars,
       Blackbox!countVars, Blackbox!appVars
<1>11. CASE Blackbox!OdometryPut
    <2>1. queue' \in Seq(Items)
        <3>1. Blackbox!Odometry(odo.start) \in Items
            BY ItemsArePut DEF ThreadTypes
        <3>2. Append(queue, Blackbox!Odometry(odo.start)) \in Seq(Items)
            BY <3>1, AppendProperties DEF RecordTypes
        <3> QED
            BY <1>11, <3>2 DEF Blackbox!OdometryPut, RecordTypes
    <2> QED
        BY <1>11, <2>1 DEF Blackbox!OdometryPut, ThreadTypes, RecordTypes, Blackbox!writeVars,
           Blackbox!countVars, Blackbox!appVars, Blackbox!NoSample
<1>12. CASE Blackbox!Get
    <2>1. Head(queue) \in Items /\ queue' \in Seq(Items)
        BY <1>12, HeadTailProperties DEF Blackbox!Get, RecordTypes
    <2>2. writer' \in {"done", "mkdir", "flush", "append", "get"}
        BY <1>12 DEF Blackbox!Get, Blackbox!Taken
    <2>3. session' \in SessionStates
        BY <1>12, <2>1 DEF Blackbox!Get, RecordTypes, SessionStates
    <2>4. past' \in PastStates
        <3> DEFINE b == past.lost \/ (Head(queue).kind = "odometry" /\ session.id = None)
        <3>1. b \in BOOLEAN
            OBVIOUS
        <3>2. past' = [past EXCEPT !.lost = b]
            BY <1>12 DEF Blackbox!Get
        <3> HIDE DEF b
        <3> QED
            BY <3>1, <3>2, PastTypes DEF RecordTypes
    <2> QED
        BY <1>12, <2>1, <2>2, <2>3, <2>4 DEF Blackbox!Get, ThreadTypes, RecordTypes,
           Blackbox!dropVars, Blackbox!countVars, Blackbox!appVars
<1>13. CASE Blackbox!MakeDirectory
    <2>1. disk' \in DiskStates
        <3> DEFINE s == session.item.id
        <3>1. s \in Blackbox!Flights /\ disk[s] \in Directories
            BY <1>13, <1>25, <1>28 DEF Blackbox!MakeDirectory
        <3>2. disk' = [disk EXCEPT ![s] = [disk[s] EXCEPT !.dir = TRUE]]
            BY <1>13 DEF Blackbox!MakeDirectory
        <3> HIDE DEF s
        <3> QED
            BY <3>1, <3>2, DirectoryTypes, DiskType DEF RecordTypes
    <2> QED
        BY <1>13, <2>1 DEF Blackbox!MakeDirectory, ThreadTypes, RecordTypes,
           Blackbox!dropVars, Blackbox!countVars, Blackbox!appVars
<1>14. CASE Blackbox!FirstMetadata
    <2>1. disk' \in DiskStates
        <3> DEFINE s == session.item.id
        <3>1. s \in Blackbox!Flights /\ disk[s] \in Directories
            BY <1>14, <1>25, <1>28 DEF Blackbox!FirstMetadata
        <3>2. disk' = [disk EXCEPT ![s] = [disk[s] EXCEPT !.status = "recording"]]
            BY <1>14 DEF Blackbox!FirstMetadata
        <3> HIDE DEF s
        <3> QED
            BY <3>1, <3>2, DirectoryTypes, DiskType DEF RecordTypes
    <2>2. session.item \in Items /\ session.item.kind = "start"
        BY <1>14 DEF Blackbox!FirstMetadata, RecordTypes, SessionStates, WriterIsInSession
    <2>3. session.item.id \in Blackbox!Flights /\ session.item.dropped \in Nat
        BY <2>2, ItemTypes
    <2>4. session' \in SessionStates
        <3>1. <<>> \in Seq(RowSets) /\ <<>> \in Seq(Nat) /\ <<>> \in Seq(0..MaxFlights)
              /\ <<>> \in Seq(StreamNames)
            BY EmptySeq
        <3> QED
            BY <1>14, <2>2, <2>3, <3>1 DEF Blackbox!FirstMetadata, RecordTypes, SessionStates,
               Blackbox!NoSession, RowSets
    <2> QED
        BY <1>14, <2>1, <2>4 DEF Blackbox!FirstMetadata, ThreadTypes, RecordTypes,
           Blackbox!dropVars, Blackbox!countVars, Blackbox!appVars
<1>15. CASE Blackbox!AppendRow
    <2>1. session.item \in Items /\ session.item.kind \in {"frame", "odometry"}
        BY <1>15 DEF Blackbox!AppendRow, RecordTypes, SessionStates, WriterIsInSession
    <2>2. /\ session.item.kind = "frame" => session.item.row \in Nat
          /\ session.item.kind # "frame" => session.item.row \in 0..MaxFlights
        BY <2>1, ItemTypes
    <2>3. session' \in SessionStates
        <3>1. CASE session' = [session EXCEPT !.todo = Blackbox!Pending]
            BY <3>1, PendingType DEF RecordTypes, SessionStates
        <3>2. CASE /\ session.item.kind = "frame"
                   /\ session' = [session EXCEPT !.rows.frames = Append(@, session.item.row),
                                                 !.count = @ + 1]
            <4>1. session.rows \in RowSets /\ session.rows.frames \in Seq(Nat)
                BY DEF RecordTypes, SessionStates, RowSets
            <4>2. Append(session.rows.frames, session.item.row) \in Seq(Nat)
                BY <3>2, <4>1, <2>2, AppendProperties
            <4>3. [session.rows EXCEPT !.frames = Append(session.rows.frames, session.item.row)] \in RowSets
                BY <4>1, <4>2 DEF RowSets
            <4>4. session.count + 1 \in Nat
                BY DEF RecordTypes, SessionStates
            <4> DEFINE r == [session.rows EXCEPT !.frames =
                                Append(session.rows.frames, session.item.row)]
                       n == session.count + 1
            <4>5. session' = [session EXCEPT !.rows = r, !.count = n]
                BY <3>2
            <4>6. r \in RowSets /\ n \in Nat
                BY <4>3, <4>4
            <4> HIDE DEF r, n
            <4> QED
                BY <4>5, <4>6, SessionTypes DEF RecordTypes
        <3>3. CASE /\ session.item.kind # "frame"
                   /\ session' = [session EXCEPT !.rows.odometry = Append(@, session.item.row)]
            <4>1. session.rows \in RowSets /\ session.rows.odometry \in Seq(0..MaxFlights)
                BY DEF RecordTypes, SessionStates, RowSets
            <4>2. Append(session.rows.odometry, session.item.row) \in Seq(0..MaxFlights)
                BY <3>3, <4>1, <2>2, AppendProperties
            <4>3. [session.rows EXCEPT !.odometry = Append(session.rows.odometry, session.item.row)]
                      \in RowSets
                BY <4>1, <4>2 DEF RowSets
            <4> DEFINE r == [session.rows EXCEPT !.odometry =
                                Append(session.rows.odometry, session.item.row)]
            <4>4. session' = [session EXCEPT !.rows = r]
                BY <3>3
            <4>5. r \in RowSets
                BY <4>3
            <4> HIDE DEF r
            <4> QED
                BY <4>4, <4>5, SessionTypes DEF RecordTypes
        <3> QED
            BY <1>15, <3>1, <3>2, <3>3 DEF Blackbox!AppendRow
    <2> QED
        BY <1>15, <2>3 DEF Blackbox!AppendRow, ThreadTypes, RecordTypes,
           Blackbox!dropVars, Blackbox!countVars, Blackbox!appVars
<1>16. CASE Blackbox!BeginFinish
    <2>1. session' \in SessionStates
        BY <1>16, PendingType DEF Blackbox!BeginFinish, RecordTypes, SessionStates
    <2> QED
        BY <1>16, <2>1 DEF Blackbox!BeginFinish, ThreadTypes, RecordTypes,
           Blackbox!dropVars, Blackbox!countVars, Blackbox!appVars
<1>17. CASE Blackbox!WriteStream
    <2>1. /\ session.todo \in Seq(StreamNames) /\ Len(session.chunks) \in Nat
          /\ session.id \in Blackbox!Flights
        BY <1>17, LenProperties DEF Blackbox!WriteStream, RecordTypes, SessionStates, WriterIsInSession
    <2>2. Tail(session.todo) \in Seq(StreamNames) /\ Head(session.todo) \in StreamNames
        BY <1>17, <2>1, HeadTailProperties DEF Blackbox!WriteStream
    <2>3. session' \in SessionStates
        BY <1>17, <2>2 DEF Blackbox!WriteStream, RecordTypes, SessionStates
    <2>4. disk' \in DiskStates
        <3> DEFINE s == session.id
                   f == [chunk |-> Len(session.chunks), stream |-> Head(session.todo)]
        <3>1. s \in Blackbox!Flights /\ disk[s] \in Directories
            BY <2>1, <1>28
        <3>2. f \in [chunk : Nat, stream : StreamNames]
            BY <2>1, <2>2
        <3>3. disk' = [disk EXCEPT ![s] = [disk[s] EXCEPT !.files = disk[s].files \cup {f}]]
            BY <1>17 DEF Blackbox!WriteStream
        <3> HIDE DEF s, f
        <3>4. [disk[s] EXCEPT !.files = disk[s].files \cup {f}] \in Directories
            BY <3>1, <3>2, DirectoryTypes
        <3> QED
            BY <3>1, <3>3, <3>4, DiskType DEF RecordTypes
    <2> QED
        BY <1>17, <2>3, <2>4 DEF Blackbox!WriteStream, ThreadTypes, RecordTypes,
           Blackbox!dropVars, Blackbox!countVars, Blackbox!appVars
<1>18. CASE Blackbox!ListChunk
    <2> DEFINE chunks == Append(session.chunks, session.rows)
    <2>1. chunks \in Seq(RowSets)
        BY AppendProperties DEF RecordTypes, SessionStates
    <2> HIDE DEF chunks
    <2>2. session' = [session EXCEPT !.chunks = chunks, !.rows = Blackbox!NoSession.rows]
          /\ disk' = [disk EXCEPT ![session.id].chunks = chunks]
        BY <1>18 DEF Blackbox!ListChunk, chunks
    <2>3. Blackbox!NoSession.rows \in RowSets
        BY EmptySeq DEF Blackbox!NoSession, RowSets
    <2>4. session' \in SessionStates
        BY <2>1, <2>2, <2>3 DEF RecordTypes, SessionStates
    <2>5. disk' \in DiskStates
        <3> DEFINE s == session.id
        <3>1. s \in Blackbox!Flights /\ disk[s] \in Directories
            BY <1>18, <1>26, <1>28 DEF Blackbox!ListChunk
        <3>2. disk' = [disk EXCEPT ![s] = [disk[s] EXCEPT !.chunks = chunks]]
            BY <2>2
        <3> HIDE DEF s
        <3>3. [disk[s] EXCEPT !.chunks = chunks] \in Directories
            BY <2>1, <3>1, DirectoryTypes
        <3> QED
            BY <3>1, <3>2, <3>3, DiskType DEF RecordTypes
    <2> QED
        BY <1>18, <2>4, <2>5 DEF Blackbox!ListChunk, ThreadTypes, RecordTypes,
           Blackbox!dropVars, Blackbox!countVars, Blackbox!appVars
<1>19. CASE Blackbox!Close
    <2>1. disk' \in DiskStates
        <3>1. session.id \in Blackbox!Flights /\ session.count \in Nat
              /\ Blackbox!DropsOfFlight \in Int
            BY <1>19, <1>26 DEF Blackbox!Close, RecordTypes, SessionStates, ThreadTypes,
               Blackbox!DropsOfFlight
        <3> DEFINE s == session.id
                   x == IF session.item.clean THEN "complete" ELSE "unclean"
                   d == [disk[s] EXCEPT !.status = x, !.count = session.count,
                                        !.dropped = Blackbox!DropsOfFlight]
        <3>2. disk' = [disk EXCEPT ![s] = d]
            BY <1>19 DEF Blackbox!Close
        <3>3. x \in {"complete", "unclean"} /\ s \in Blackbox!Flights /\ disk[s] \in Directories
            BY <3>1, <1>28
        <3> HIDE DEF s, x
        <3>4. d \in Directories
            BY <3>1, <3>3, DirectoryTypes
        <3> HIDE DEF d
        <3> QED
            BY <3>2, <3>3, <3>4, DiskType DEF RecordTypes
    <2> QED
        BY <1>19, <2>1, NoSessionType DEF Blackbox!Close, ThreadTypes, RecordTypes,
           Blackbox!dropVars, Blackbox!countVars, Blackbox!appVars
<1>20. CASE Blackbox!WriteFails
    <2>1. disk' \in DiskStates
        <3>1. /\ session.chunks \in Seq(RowSets) /\ session.count \in Nat
              /\ Blackbox!DropsOfFlight \in Int
            BY DEF RecordTypes, SessionStates, ThreadTypes, Blackbox!DropsOfFlight
        <3> DEFINE s == session.id
                   d == [disk[s] EXCEPT !.status = "unclean", !.chunks = session.chunks,
                                        !.count = session.count,
                                        !.dropped = Blackbox!DropsOfFlight, !.tmp = TRUE]
        <3>2. disk' = disk \/ (s # None /\ disk' = [disk EXCEPT ![s] = d])
            BY <1>20 DEF Blackbox!WriteFails
        <3>3. s # None => s \in Blackbox!Flights /\ disk[s] \in Directories
            BY <1>27, <1>28
        <3> HIDE DEF s
        <3>4. s # None => d \in Directories
            BY <3>1, <3>3, DirectoryTypes
        <3> HIDE DEF d
        <3> QED
            BY <3>2, <3>3, <3>4, DiskType DEF RecordTypes
    <2> QED
        BY <1>20, <2>1, NoSessionType DEF Blackbox!WriteFails, ThreadTypes, RecordTypes,
           Blackbox!dropVars
<1>21. CASE Blackbox!Crash
    <2>1. disk' \in DiskStates
        <3> DEFINE s == Blackbox!Writing
        <3>1. s # None => s \in Blackbox!Flights /\ disk[s] \in Directories
            BY <1>25, <1>26, <1>28 DEF Blackbox!Writing
        <3>2. disk' = disk \/ (s # None /\ disk' = [disk EXCEPT ![s] = [disk[s] EXCEPT !.tmp = TRUE]])
            BY <1>21 DEF Blackbox!Crash
        <3> HIDE DEF s
        <3>3. s # None => [disk[s] EXCEPT !.tmp = TRUE] \in Directories
            BY <3>1, DirectoryTypes
        <3> QED
            BY <3>1, <3>2, <3>3, DiskType DEF RecordTypes
    <2>2. queue' \in Seq(Items)
        BY <1>21, EmptySeq DEF Blackbox!Crash
    <2>3. RecordTypes'
        BY <1>21, <2>1, <2>2, NoSessionType DEF Blackbox!Crash, RecordTypes
    <2>4. /\ recorder' = "down" /\ writer' = "done" /\ odo' = Blackbox!NoSample
          /\ enabled' = FALSE /\ flight_active' = FALSE /\ session_id' = None
          /\ session_start' = 0 /\ sample_index' = 0 /\ dropped_frames' = 0
          /\ flights' = flights
        BY <1>21 DEF Blackbox!Crash
    <2>5. ThreadTypes'
        <3>1. 0 \in 0..MaxFlights
            OBVIOUS
        <3>2. odo' \in [at : {"idle", "active", "row"}, start : 0..MaxFlights]
            BY <2>4, <3>1 DEF Blackbox!NoSample
        <3>3. flights' \in 0..MaxFlights
            BY <2>4 DEF ThreadTypes
        <3> QED
            BY <2>4, <3>1, <3>2, <3>3 DEF ThreadTypes
    <2> QED
        BY <2>3, <2>5
<1>22. CASE Blackbox!Recover
    <2>1. disk' \in DiskStates
        <3>1. PICK s \in Blackbox!Flights :
                disk' = [disk EXCEPT ![s] = [disk[s] EXCEPT !.status = "unclean",
                                                !.reason = "interrupted", !.tmp = FALSE]]
            BY <1>22 DEF Blackbox!Recover
        <3>2. [disk[s] EXCEPT !.status = "unclean", !.reason = "interrupted", !.tmp = FALSE]
                  \in Directories
            BY <1>28, DirectoryTypes
        <3> QED
            BY <3>1, <3>2, DiskType DEF RecordTypes
    <2> QED
        BY <1>22, <2>1 DEF Blackbox!Recover, ThreadTypes, RecordTypes,
           Blackbox!dropVars, Blackbox!countVars, Blackbox!appVars
<1>29. CASE Blackbox!RecoverFails
    <2>1. disk' \in DiskStates
        <3>1. PICK s \in Blackbox!Flights, torn \in BOOLEAN :
                disk' = [disk EXCEPT ![s] = [disk[s] EXCEPT !.tmp = torn]]
            BY <1>29 DEF Blackbox!RecoverFails
        <3> DEFINE d == [disk[s] EXCEPT !.tmp = torn]
        <3>2. d \in Directories
            BY <1>28, DirectoryTypes
        <3>3. disk' = [disk EXCEPT ![s] = d]
            BY <3>1
        <3> HIDE DEF d
        <3> QED
            BY <3>2, <3>3, DiskType DEF RecordTypes
    <2> QED
        BY <1>29, <2>1 DEF Blackbox!RecoverFails, ThreadTypes, RecordTypes, Blackbox!dropVars
<1>23. CASE Blackbox!Start
    <2>1. past' \in PastStates
        BY <1>23, PastTypes DEF Blackbox!Start, ThreadTypes, RecordTypes
    <2> QED
        BY <1>23, <2>1 DEF Blackbox!Start, ThreadTypes, RecordTypes, Blackbox!dropVars,
           Blackbox!countVars
<1>24. CASE Blackbox!Stopped
    BY <1>24 DEF Blackbox!Stopped, Blackbox!vars, ThreadTypes, RecordTypes, Blackbox!dropVars,
       Blackbox!countVars, Blackbox!appVars, Blackbox!writeVars
<1> QED
    BY <1>1, <1>2, <1>3, <1>4, <1>5, <1>6, <1>7, <1>8, <1>9, <1>10, <1>11, <1>12, <1>13, <1>14,
       <1>15, <1>16, <1>17, <1>18, <1>19, <1>20, <1>21, <1>22, <1>23, <1>24, <1>29
    DEF Blackbox!Next, Blackbox!MainStep, Blackbox!OdometryStep, Blackbox!WriterStep

----------------------------------------------------------------------------
(* Replays: what becomes of one when the queue changes.                       *)

\* What the writer has after each kind of item.
LEMMA AfterValue ==
    ASSUME NEW w \in WriterStates, NEW item \in Items
    PROVE  /\ item.kind = "start" =>
                After(w, item) = [id |-> item.id, count |-> 0, dropped |-> item.dropped]
           /\ item.kind = "frame" /\ w.id # None => After(w, item) = [w EXCEPT !.count = w.count + 1]
           /\ item.kind = "frame" /\ w.id = None => After(w, item) = w
           /\ item.kind = "end" => After(w, item) = NoState
           /\ item.kind \in {"odometry", "stop"} => After(w, item) = w
<1>1. CASE item.kind = "start"
    BY <1>1 DEF After
<1>2. CASE item.kind = "frame" /\ w.id # None
    BY <1>2 DEF After
<1>3. CASE item.kind = "frame" /\ w.id = None
    BY <1>3 DEF After
<1>4. CASE item.kind = "end"
    BY <1>4 DEF After
<1>5. CASE item.kind \in {"odometry", "stop"}
    BY <1>5 DEF After
<1> QED
    BY <1>1, <1>2, <1>3, <1>4, <1>5

LEMMA NoStateType == NoState \in WriterStates /\ NoState.id = None
BY DEF NoState, WriterStates

LEMMA AfterType ==
    ASSUME NEW w \in WriterStates, NEW item \in Items
    PROVE  After(w, item) \in WriterStates
<1> DEFINE R == [id : Blackbox!Flights \cup {None}, count : Nat, dropped : Nat]
<1>1. w \in R /\ (w.id = None => w.count = 0 /\ w.dropped = 0)
    BY DEF WriterStates
<1>2. \A x \in R : x.id # None => x \in WriterStates
    BY DEF WriterStates
<1>3. CASE item.kind = "start"
    <2>1. item.id \in Blackbox!Flights /\ item.dropped \in Nat
        BY <1>3, ItemTypes
    <2> DEFINE x == [id |-> item.id, count |-> 0, dropped |-> item.dropped]
    <2>2. x \in R /\ x.id # None
        BY <2>1, RecorderConstants
    <2>3. After(w, item) = x
        BY <1>3, AfterValue
    <2> HIDE DEF x, R
    <2> QED
        BY <2>2, <2>3, <1>2
<1>4. CASE item.kind = "frame" /\ w.id # None
    <2> DEFINE x == [w EXCEPT !.count = w.count + 1]
    <2>1. x \in R /\ x.id # None
        BY <1>1, <1>4
    <2>2. After(w, item) = x
        BY <1>4, AfterValue
    <2> HIDE DEF x, R
    <2> QED
        BY <2>1, <2>2, <1>2
<1>5. CASE item.kind = "end"
    BY <1>5, AfterValue, NoStateType
<1>6. CASE item.kind \in {"odometry", "stop"} \/ (item.kind = "frame" /\ w.id = None)
    BY <1>6, AfterValue
<1> QED
    BY <1>3, <1>4, <1>5, <1>6, ItemTypes

\* A history that goes on: flights that ended stay as they are, frames are added
\* at the end of the others'.
Continues(h, g) ==
    /\ h.over \subseteq g.over
    /\ \A s \in h.over : g.frames[s] = h.frames[s] /\ g.drops[s] = h.drops[s]
    /\ \A s \in Blackbox!Flights :
         /\ Len(h.frames[s]) <= Len(g.frames[s])
         /\ \A i \in 1..Len(h.frames[s]) : g.frames[s][i] = h.frames[s][i]

\* What fitted the history fits it when it went on, and more drops are counted.
LEMMA FitsKept ==
    ASSUME NEW h \in Histories, NEW g \in Histories, Continues(h, g), h.dropped <= g.dropped,
           NEW w \in WriterStates, NEW item \in Items, Fits(h, w, item)
    PROVE  Fits(g, w, item)
<1>1. /\ w.id # None => w.id \in Blackbox!Flights
      /\ w.count \in Nat /\ w.dropped \in Nat
      /\ h.dropped \in Nat /\ g.dropped \in Nat
    BY DEF WriterStates, Histories
<1>2. \A s \in Blackbox!Flights : h.frames[s] \in Seq(Nat) /\ g.frames[s] \in Seq(Nat)
                                   /\ h.drops[s] \in Int /\ g.drops[s] \in Int
    BY DEF Histories
<1>3. ASSUME item.kind = "frame", w.id # None
      PROVE  w.count < Len(g.frames[w.id]) /\ g.frames[w.id][w.count + 1] = item.row
    <2> DEFINE a == h.frames[w.id]
               b == g.frames[w.id]
    <2>1. w.count < Len(a) /\ a[w.count + 1] = item.row
        BY <1>3 DEF Fits
    <2>2. Len(a) <= Len(b) /\ \A i \in 1..Len(a) : b[i] = a[i]
        BY <1>1, <1>3 DEF Continues
    <2>3. Len(a) \in Nat /\ Len(b) \in Nat
        BY <1>1, <1>2, <1>3, LenProperties
    <2> HIDE DEF a, b
    <2>4. w.count < Len(b) /\ b[w.count + 1] = item.row
        BY <1>1, <2>1, <2>2, <2>3
    <2> QED
        BY <2>4 DEF b
<1>4. ASSUME item.kind = "end", item.clean
      PROVE  /\ item.id \in g.over
             /\ w.id # None =>
                  w.count = Len(g.frames[item.id]) /\ g.drops[item.id] <= g.dropped - w.dropped
    <2>1. item.id \in h.over /\ item.id \in Blackbox!Flights
        BY <1>4, ItemTypes DEF Fits
    <2>2. g.frames[item.id] = h.frames[item.id] /\ g.drops[item.id] = h.drops[item.id]
        BY <2>1 DEF Continues
    <2>3. w.id # None =>
            w.count = Len(h.frames[item.id]) /\ h.drops[item.id] <= h.dropped - w.dropped
        BY <1>4 DEF Fits
    <2>4. item.id \in g.over
        BY <2>1 DEF Continues
    <2>5. h.drops[item.id] \in Int
        BY <1>2, <2>1
    <2>6. w.id # None => h.drops[item.id] <= g.dropped - w.dropped
        BY <2>3, <2>5, <1>1
    <2> QED
        BY <2>2, <2>3, <2>4, <2>6
<1> QED
    BY <1>3, <1>4 DEF Fits

LEMMA ReplaysKept ==
    ASSUME NEW h \in Histories, NEW g \in Histories, Continues(h, g), h.dropped <= g.dropped,
           NEW q \in Seq(Items), NEW w, NEW v, Replays(h, w, q, v)
    PROVE  Replays(g, w, q, v)
<1>1. PICK replay : IsReplay(h, replay, w, q) /\ replay[Len(q)] = v
    BY DEF Replays
<1>2. ASSUME NEW i \in 1..Len(q) PROVE Fits(g, replay[i - 1], q[i])
    <2>1. q[i] \in Items
        BY ElementOfSeq
    <2>2. replay[i - 1] \in WriterStates
        BY <1>1, LenProperties DEF IsReplay
    <2>3. Fits(h, replay[i - 1], q[i])
        BY <1>1 DEF IsReplay
    <2> QED
        BY <2>1, <2>2, <2>3, FitsKept
<1>3. IsReplay(g, replay, w, q)
    BY <1>1, <1>2 DEF IsReplay
<1> QED
    BY <1>1, <1>3 DEF Replays

\* What is put at the end has to fit the state the replay came to.
LEMMA ReplayAppend ==
    ASSUME NEW h, NEW q \in Seq(Items), NEW item \in Items, NEW w, NEW v \in WriterStates,
           Replays(h, w, q, v), Fits(h, v, item)
    PROVE  Replays(h, w, Append(q, item), After(v, item))
<1> DEFINE t == Append(q, item)
           n == Len(q)
<1>1. PICK replay : IsReplay(h, replay, w, q) /\ replay[n] = v
    BY DEF Replays
<1>2. /\ t \in Seq(Items) /\ Len(t) = n + 1 /\ n \in Nat
      /\ \A i \in 1..n : t[i] = q[i]
      /\ t[n + 1] = item
    BY AppendProperties, LenProperties
<1>3. replay \in [0..n -> WriterStates] /\ replay[0] = w
    BY <1>1 DEF IsReplay
<1>4. \A i \in 1..n : replay[i] = After(replay[i - 1], q[i]) /\ Fits(h, replay[i - 1], q[i])
    BY <1>1 DEF IsReplay
<1> HIDE DEF t, n
<1> DEFINE r == [i \in 0..(n + 1) |-> IF i = n + 1 THEN After(v, item) ELSE replay[i]]
<1>5. r \in [0..(n + 1) -> WriterStates] /\ r[n + 1] = After(v, item)
    <2>1. After(v, item) \in WriterStates
        BY AfterType
    <2> QED
        BY <2>1, <1>2, <1>3
<1>6. \A i \in 0..n : r[i] = replay[i]
    BY <1>2
<1> HIDE DEF r
<1>7. ASSUME NEW i \in 1..(n + 1)
      PROVE  r[i] = After(r[i - 1], t[i]) /\ Fits(h, r[i - 1], t[i])
    <2>1. CASE i \in 1..n
        <3>1. r[i] = replay[i] /\ r[i - 1] = replay[i - 1] /\ t[i] = q[i]
            BY <2>1, <1>2, <1>6
        <3> QED
            BY <2>1, <3>1, <1>4
    <2>2. CASE i = n + 1
        <3>0. i - 1 = n /\ n \in 0..n
            BY <2>2, <1>2
        <3>4. r[n] = v
            BY Zenon, <3>0, <1>1, <1>6
        <3>1. r[i - 1] = v /\ t[i] = item /\ r[i] = After(v, item)
            BY Zenon, <2>2, <3>0, <3>4, <1>2, <1>5
        <3>2. Fits(h, r[i - 1], t[i])
            BY Zenon, <3>1
        <3>3. r[i] = After(r[i - 1], t[i])
            BY Zenon, <3>1
        <3> QED
            BY <3>2, <3>3
    <2> QED
        BY <2>1, <2>2, <1>2
<1>8. r[0] = w
    BY <1>2, <1>3, <1>6
<1>9. IsReplay(h, r, w, t)
    BY <1>2, <1>5, <1>7, <1>8 DEF IsReplay
<1> QED
    BY <1>2, <1>5, <1>9 DEF Replays, t

\* Taking the first item moves the writer past it.
LEMMA ReplayTail ==
    ASSUME NEW h, NEW q \in Seq(Items), q # <<>>, NEW w, NEW v, Replays(h, w, q, v)
    PROVE  Fits(h, w, Head(q)) /\ Replays(h, After(w, Head(q)), Tail(q), v)
<1> DEFINE t == Tail(q)
           n == Len(q)
<1>1. PICK replay : IsReplay(h, replay, w, q) /\ replay[n] = v
    BY DEF Replays
<1>2. /\ t \in Seq(Items) /\ Len(t) = n - 1 /\ n \in Nat \ {0}
      /\ \A i \in 1..(n - 1) : t[i] = q[i + 1]
      /\ Head(q) = q[1]
    BY HeadTailProperties, LenProperties, EmptySeq
<1>3. replay \in [0..n -> WriterStates] /\ replay[0] = w
    BY <1>1 DEF IsReplay
<1>4. \A i \in 1..n : replay[i] = After(replay[i - 1], q[i]) /\ Fits(h, replay[i - 1], q[i])
    BY <1>1 DEF IsReplay
<1> HIDE DEF t, n
<1>5. Fits(h, w, q[1]) /\ replay[1] = After(w, q[1])
    <2>1. 1 \in 1..n /\ 1 - 1 = 0
        BY <1>2
    <2> QED
        BY <2>1, <1>3, <1>4
<1> DEFINE r == [i \in 0..(n - 1) |-> replay[i + 1]]
<1>6. r \in [0..(n - 1) -> WriterStates]
    BY <1>2, <1>3
<1>7. \A i \in 0..(n - 1) : r[i] = replay[i + 1]
    OBVIOUS
<1> HIDE DEF r
<1>8. ASSUME NEW i \in 1..(n - 1)
      PROVE  r[i] = After(r[i - 1], t[i]) /\ Fits(h, r[i - 1], t[i])
    <2>1. i + 1 \in 1..n /\ (i + 1) - 1 = i /\ i - 1 \in 0..(n - 1) /\ (i - 1) + 1 = i
          /\ i \in 0..(n - 1)
        BY <1>2
    <2>2. r[i] = replay[i + 1] /\ r[i - 1] = replay[i] /\ t[i] = q[i + 1]
        BY <2>1, <1>2, <1>7
    <2>3. replay[i + 1] = After(replay[i], q[i + 1]) /\ Fits(h, replay[i], q[i + 1])
        BY <2>1, <1>4
    <2> QED
        BY <2>2, <2>3
<1>9. r[0] = After(w, q[1]) /\ r[n - 1] = v
    <2>1. 0 \in 0..(n - 1) /\ n - 1 \in 0..(n - 1) /\ (n - 1) + 1 = n /\ 0 + 1 = 1
        BY <1>2
    <2> QED
        BY <2>1, <1>1, <1>5, <1>7
<1>10. IsReplay(h, r, After(w, q[1]), t)
    BY <1>2, <1>6, <1>8, <1>9 DEF IsReplay
<1> QED
    BY <1>2, <1>5, <1>9, <1>10 DEF Replays, t

\* Odometry may be taken out.
LEMMA ReplayRemove ==
    ASSUME NEW h, NEW q \in Seq(Items), NEW k \in 1..Len(q), q[k].kind = "odometry", NEW w, NEW v,
           Replays(h, w, q, v)
    PROVE  Replays(h, w, Blackbox!RemoveAt(q, k), v)
<1> DEFINE t == Blackbox!RemoveAt(q, k)
           n == Len(q)
<1>1. PICK replay : IsReplay(h, replay, w, q) /\ replay[n] = v
    BY DEF Replays
<1>2. /\ t \in Seq(Items) /\ Len(t) = n - 1 /\ n \in Nat /\ k \in 1..n
      /\ \A i \in 1..(n - 1) : t[i] = IF i < k THEN q[i] ELSE q[i + 1]
    BY RemoveAtProperties, LenProperties
<1>3. replay \in [0..n -> WriterStates] /\ replay[0] = w
    BY <1>1 DEF IsReplay
<1>4. \A i \in 1..n : replay[i] = After(replay[i - 1], q[i]) /\ Fits(h, replay[i - 1], q[i])
    BY <1>1 DEF IsReplay
<1>5. replay[k] = replay[k - 1]
    <2>1. q[k] \in Items
        BY ElementOfSeq
    <2>2. replay[k - 1] \in WriterStates
        BY <1>2, <1>3
    <2>3. After(replay[k - 1], q[k]) = replay[k - 1]
        BY <2>1, <2>2, AfterValue
    <2> QED
        BY <2>3, <1>2, <1>4
<1> HIDE DEF t, n
<1> DEFINE r == [i \in 0..(n - 1) |-> IF i < k THEN replay[i] ELSE replay[i + 1]]
<1>6. r \in [0..(n - 1) -> WriterStates]
    <2>1. \A i \in 0..(n - 1) : i \in 0..n /\ i + 1 \in 0..n
        BY <1>2
    <2> QED
        BY <2>1, <1>3
<1>7. \A i \in 0..(n - 1) : r[i] = IF i < k THEN replay[i] ELSE replay[i + 1]
    OBVIOUS
<1> HIDE DEF r
<1>8. ASSUME NEW i \in 1..(n - 1)
      PROVE  r[i] = After(r[i - 1], t[i]) /\ Fits(h, r[i - 1], t[i])
    <2>0. i - 1 \in 0..(n - 1) /\ i \in 0..(n - 1) /\ (i - 1) + 1 = i /\ (i + 1) - 1 = i
        BY <1>2
    <2>1. CASE i < k
        <3>1. i \in 1..n /\ i - 1 < k
            BY <1>2, <2>1
        <3>2. r[i] = replay[i] /\ r[i - 1] = replay[i - 1] /\ t[i] = q[i]
            BY <2>0, <2>1, <3>1, <1>2, <1>7
        <3> QED
            BY <3>1, <3>2, <1>4
    <2>2. CASE ~ (i < k)
        <3>1. i + 1 \in 1..n /\ (i - 1 < k <=> i = k)
            BY <1>2, <2>2
        <3>2. r[i] = replay[i + 1] /\ t[i] = q[i + 1]
            BY <2>0, <2>2, <1>2, <1>7
        <3>3. r[i - 1] = IF i = k THEN replay[i - 1] ELSE replay[i]
            BY <2>0, <3>1, <1>7
        <3>4. r[i - 1] = replay[i]
            BY <3>3, <1>5
        <3> QED
            BY <2>0, <3>1, <3>2, <3>4, <1>4
    <2> QED
        BY <2>1, <2>2
<1>9. r[0] = w /\ r[n - 1] = v
    <2>1. 0 \in 0..(n - 1) /\ n - 1 \in 0..(n - 1) /\ (n - 1) + 1 = n /\ 0 < k
        BY <1>2
    <2>2. r[n - 1] = IF n - 1 < k THEN replay[n - 1] ELSE replay[n]
        BY <2>1, <1>7
    <2>3. n - 1 < k => k = n
        BY <1>2
    <2> QED
        BY <2>1, <2>2, <2>3, <1>1, <1>3, <1>5, <1>7
<1>10. IsReplay(h, r, w, t)
    BY <1>2, <1>6, <1>8, <1>9 DEF IsReplay
<1> QED
    BY <1>2, <1>9, <1>10 DEF Replays, t

\* A writer that lost its session does nothing up to the next start, and from
\* there what it would have done.
LEMMA ReplayLost ==
    ASSUME NEW h, NEW q \in Seq(Items), NEW w, NEW v, Replays(h, w, q, v)
    PROVE  Replays(h, NoState, q, v) \/ Replays(h, NoState, q, NoState)
<1> DEFINE n == Len(q)
           Started(i) == \E j \in 1..i : q[j].kind = "start"
<1>1. PICK replay : IsReplay(h, replay, w, q) /\ replay[n] = v
    BY DEF Replays
<1>2. n \in Nat
    BY LenProperties
<1>3. replay \in [0..n -> WriterStates] /\ replay[0] = w
    BY <1>1 DEF IsReplay
<1>4. \A i \in 1..n : replay[i] = After(replay[i - 1], q[i]) /\ Fits(h, replay[i - 1], q[i])
    BY <1>1 DEF IsReplay
<1>5. \A i \in 1..n : q[i] \in Items
    BY ElementOfSeq
<1> HIDE DEF n
<1> DEFINE r == [i \in 0..n |-> IF Started(i) THEN replay[i] ELSE NoState]
<1>6. r \in [0..n -> WriterStates]
    BY <1>3, NoStateType
<1>7. \A i \in 0..n : r[i] = IF Started(i) THEN replay[i] ELSE NoState
    OBVIOUS
<1>8. r[0] = NoState
    <2>1. ~ Started(0)
        OBVIOUS
    <2> QED
        BY <2>1, <1>2
<1> HIDE DEF r
<1>9. ASSUME NEW i \in 1..n
      PROVE  r[i] = After(r[i - 1], q[i]) /\ Fits(h, r[i - 1], q[i])
    <2>1. i - 1 \in 0..n /\ i \in 0..n
        BY <1>2
    <2>2. Started(i) <=> Started(i - 1) \/ q[i].kind = "start"
        <3>1. \A j : j \in 1..i <=> j \in 1..(i - 1) \/ j = i
            BY <1>2
        <3> QED
            BY <3>1
    <2>3. r[i] = (IF Started(i) THEN replay[i] ELSE NoState)
          /\ r[i - 1] = IF Started(i - 1) THEN replay[i - 1] ELSE NoState
        BY <2>1, <1>7
    <2>4. replay[i] = After(replay[i - 1], q[i]) /\ Fits(h, replay[i - 1], q[i])
        BY <1>4
    <2>5. replay[i - 1] \in WriterStates /\ q[i] \in Items
        BY <2>1, <1>3, <1>5
    <2> HIDE DEF Started
    <2>6. CASE Started(i - 1)
        BY <2>2, <2>3, <2>4, <2>6
    <2>7. CASE ~ Started(i - 1) /\ q[i].kind = "start"
        <3>1. After(NoState, q[i]) = After(replay[i - 1], q[i])
            BY <2>5, <2>7, AfterValue, NoStateType
        <3>2. Fits(h, NoState, q[i])
            BY <2>7 DEF Fits
        <3> QED
            BY <2>2, <2>3, <2>4, <2>7, <3>1, <3>2
    <2>8. CASE ~ Started(i - 1) /\ q[i].kind # "start"
        <3>1. After(NoState, q[i]) = NoState
            BY <2>5, <2>8, AfterValue, NoStateType, ItemTypes
        <3>2. Fits(h, NoState, q[i])
            BY <2>4, NoStateType DEF Fits
        <3> QED
            BY <2>2, <2>3, <2>8, <3>1, <3>2
    <2> QED
        BY <2>6, <2>7, <2>8
<1>10. IsReplay(h, r, NoState, q)
    BY <1>6, <1>8, <1>9 DEF IsReplay, n
<1>11. r[n] = v \/ r[n] = NoState
    <2>1. r[n] = replay[n] \/ r[n] = NoState
        BY <1>2, <1>7
    <2> QED
        BY <2>1, <1>1
<1> QED
    BY <1>10, <1>11 DEF Replays, n

----------------------------------------------------------------------------
(* Starts in the queue.                                                       *)

LEMMA StartsAppended ==
    ASSUME NEW q \in Seq(Items), NEW item \in Items
    PROVE  /\ item.kind # "start" =>
                /\ StartIds(Append(q, item)) = StartIds(q)
                /\ StartsAreDistinct(q) => StartsAreDistinct(Append(q, item))
           /\ item.kind = "start" =>
                /\ StartIds(Append(q, item)) = StartIds(q) \cup {item.id}
                /\ StartsAreDistinct(q) /\ item.id \notin StartIds(q) =>
                     StartsAreDistinct(Append(q, item))
<1> DEFINE t == Append(q, item)
           n == Len(q)
<1>1. /\ t \in Seq(Items) /\ Len(t) = n + 1 /\ n \in Nat
      /\ \A i \in 1..n : t[i] = q[i]
      /\ t[n + 1] = item
    BY AppendProperties, LenProperties
<1>2. DOMAIN t = 1..(n + 1) /\ DOMAIN q = 1..n
    BY <1>1, LenProperties
<1> HIDE DEF t, n
<1>3. StartsIn(q) \subseteq 1..n
    BY <1>2 DEF StartsIn
<1>4. StartsIn(t) = IF item.kind = "start" THEN StartsIn(q) \cup {n + 1} ELSE StartsIn(q)
    <2>1. \A i : i \in StartsIn(t) <=> i \in 1..(n + 1) /\ t[i].kind = "start"
        BY <1>2 DEF StartsIn
    <2>2. \A i : i \in StartsIn(q) <=> i \in 1..n /\ q[i].kind = "start"
        BY <1>2 DEF StartsIn
    <2>3. \A i : i \in 1..(n + 1) <=> i \in 1..n \/ i = n + 1
        BY <1>1
    <2>4. \A i : i \in StartsIn(t) <=> i \in StartsIn(q) \/ (i = n + 1 /\ item.kind = "start")
        BY <2>1, <2>2, <2>3, <1>1
    <2>5. CASE item.kind = "start"
        BY <2>4, <2>5
    <2>6. CASE item.kind # "start"
        BY <2>4, <2>6
    <2> QED
        BY <2>5, <2>6
<1>5. \A i \in StartsIn(q) : t[i] = q[i]
    BY <1>1, <1>3
<1>6. CASE item.kind # "start"
    <2>1. StartsIn(t) = StartsIn(q)
        BY <1>4, <1>6
    <2>2. StartIds(t) = StartIds(q)
        BY <2>1, <1>5 DEF StartIds
    <2>3. StartsAreDistinct(q) => StartsAreDistinct(t)
        BY <2>1, <1>5 DEF StartsAreDistinct
    <2> QED
        BY <2>2, <2>3, <1>6 DEF t
<1>7. CASE item.kind = "start"
    <2>1. StartsIn(t) = StartsIn(q) \cup {n + 1}
        BY <1>4, <1>7
    <2>2. StartIds(t) = StartIds(q) \cup {item.id}
        BY <2>1, <1>1, <1>5 DEF StartIds
    <2>3. ASSUME StartsAreDistinct(q), item.id \notin StartIds(q) PROVE StartsAreDistinct(t)
        <3>1. \A i \in StartsIn(q) : t[i].id # item.id
            BY <2>3, <1>5 DEF StartIds
        <3>2. t[n + 1].id = item.id
            BY <1>1
        <3> QED
            BY <2>1, <2>3, <3>1, <3>2, <1>5 DEF StartsAreDistinct
    <2> QED
        BY <2>2, <2>3, <1>7 DEF t
<1> QED
    BY <1>6, <1>7

\* A queue whose starts are placed among those of another, in other places.
LEMMA StartsPlaced ==
    ASSUME NEW q \in Seq(Items), NEW r \in Seq(Items), NEW place \in [StartsIn(r) -> StartsIn(q)],
           \A i \in StartsIn(r) : r[i] = q[place[i]],
           \A i, j \in StartsIn(r) : place[i] = place[j] => i = j
    PROVE  /\ StartIds(r) \subseteq StartIds(q)
           /\ StartsAreDistinct(q) => StartsAreDistinct(r)
<1>1. StartIds(r) \subseteq StartIds(q)
    BY DEF StartIds
<1>2. StartsAreDistinct(q) => StartsAreDistinct(r)
    BY DEF StartsAreDistinct
<1> QED
    BY <1>1, <1>2

LEMMA StartsRemoved ==
    ASSUME NEW q \in Seq(Items), NEW k \in 1..Len(q)
    PROVE  /\ StartIds(Blackbox!RemoveAt(q, k)) \subseteq StartIds(q)
           /\ StartsAreDistinct(q) => StartsAreDistinct(Blackbox!RemoveAt(q, k))
<1> DEFINE t == Blackbox!RemoveAt(q, k)
           n == Len(q)
<1>1. /\ t \in Seq(Items) /\ Len(t) = n - 1 /\ n \in Nat /\ k \in 1..n
      /\ \A i \in 1..(n - 1) : t[i] = IF i < k THEN q[i] ELSE q[i + 1]
    BY RemoveAtProperties, LenProperties
<1>2. DOMAIN t = 1..(n - 1) /\ DOMAIN q = 1..n
    BY <1>1, LenProperties
<1> HIDE DEF t, n
<1> DEFINE place == [i \in StartsIn(t) |-> IF i < k THEN i ELSE i + 1]
<1>3. StartsIn(t) \subseteq 1..(n - 1)
    BY <1>2 DEF StartsIn
<1>4. ASSUME NEW i \in StartsIn(t)
      PROVE  (IF i < k THEN i ELSE i + 1) \in StartsIn(q)
    BY <1>1, <1>2 DEF StartsIn
<1>5. place \in [StartsIn(t) -> StartsIn(q)]
    BY <1>4
<1>6. \A i \in StartsIn(t) : t[i] = q[place[i]]
    BY <1>1, <1>3
<1>7. \A i, j \in StartsIn(t) : place[i] = place[j] => i = j
    <2>1. \A i \in StartsIn(t) : i \in Int /\ k \in Int
        BY <1>1, <1>3
    <2> QED
        BY <2>1
<1> HIDE DEF place
<1> QED
    BY <1>1, <1>5, <1>6, <1>7, StartsPlaced DEF t

LEMMA StartsTaken ==
    ASSUME NEW q \in Seq(Items), q # <<>>
    PROVE  /\ StartIds(Tail(q)) \subseteq StartIds(q)
           /\ StartsAreDistinct(q) => StartsAreDistinct(Tail(q))
           /\ Head(q).kind = "start" => Head(q).id \in StartIds(q)
           /\ Head(q).kind = "start" /\ StartsAreDistinct(q) => Head(q).id \notin StartIds(Tail(q))
<1> DEFINE t == Tail(q)
           n == Len(q)
<1>1. /\ t \in Seq(Items) /\ Len(t) = n - 1 /\ n \in Nat \ {0}
      /\ \A i \in 1..(n - 1) : t[i] = q[i + 1]
      /\ Head(q) = q[1]
    BY HeadTailProperties, LenProperties, EmptySeq
<1>2. DOMAIN t = 1..(n - 1) /\ DOMAIN q = 1..n
    BY <1>1, LenProperties
<1> HIDE DEF t, n
<1> DEFINE place == [i \in StartsIn(t) |-> i + 1]
<1>3. StartsIn(t) \subseteq 1..(n - 1)
    BY <1>2 DEF StartsIn
<1>4. ASSUME NEW i \in StartsIn(t)
      PROVE  i + 1 \in StartsIn(q) /\ t[i] = q[i + 1]
    BY <1>1, <1>2 DEF StartsIn
<1>5. place \in [StartsIn(t) -> StartsIn(q)]
    BY <1>4
<1>6. \A i \in StartsIn(t) : t[i] = q[place[i]]
    BY <1>4
<1>7. \A i, j \in StartsIn(t) : place[i] = place[j] => i = j
    <2>1. \A i \in StartsIn(t) : i \in Int
        BY <1>3
    <2> QED
        BY <2>1
<1> HIDE DEF place
<1>8. StartIds(t) \subseteq StartIds(q) /\ (StartsAreDistinct(q) => StartsAreDistinct(t))
    BY <1>1, <1>5, <1>6, <1>7, StartsPlaced
<1>9. q[1].kind = "start" => 1 \in StartsIn(q)
    BY <1>1, <1>2 DEF StartsIn
<1>10. q[1].kind = "start" => q[1].id \in StartIds(q)
    BY <1>9 DEF StartIds
<1>11. ASSUME q[1].kind = "start", StartsAreDistinct(q), q[1].id \in StartIds(t) PROVE FALSE
    <2>1. PICK i \in StartsIn(t) : t[i].id = q[1].id
        BY <1>11 DEF StartIds
    <2>2. i + 1 = 1
        BY <2>1, <1>4, <1>9, <1>11 DEF StartsAreDistinct
    <2> QED
        BY <2>2, <1>3
<1> QED
    BY <1>1, <1>8, <1>10, <1>11 DEF t

LEMMA NoStarts == StartIds(<<>>) = {} /\ StartsAreDistinct(<<>>)
<1>1. DOMAIN <<>> = {}
    BY EmptySeq
<1> QED
    BY <1>1 DEF StartIds, StartsAreDistinct, StartsIn

----------------------------------------------------------------------------
(* The steps of the recorder: who changes what.                               *)

\* The control loop and the MAVLink thread leave the writer and the disk alone,
LEMMA LoopLeavesWriter ==
    ASSUME Blackbox!MainStep \/ Blackbox!OdometryStep
    PROVE  UNCHANGED <<writer, session, disk>>
BY Zenon DEF Blackbox!MainStep, Blackbox!OdometryStep, Blackbox!BeginFlight, Blackbox!ResetSamples,
   Blackbox!PutStart, Blackbox!Record, Blackbox!CaptureFails, Blackbox!Disarm, Blackbox!PutEnd,
   Blackbox!Stop, Blackbox!OdometryCheck, Blackbox!OdometryRow, Blackbox!OdometryPut,
   Blackbox!writeVars

\* and the writer leaves the control loop and the counters alone.
LEMMA WriterLeavesLoop ==
    ASSUME Blackbox!WriterStep
    PROVE  /\ UNCHANGED <<recorder, flight_active, session_id, session_start, sample_index, odo,
                          dropped_frames, flights>>
           /\ Blackbox!Get \/ (UNCHANGED past /\ UNCHANGED queue)
<1>1. UNCHANGED <<recorder, flight_active, session_id, session_start, sample_index, odo,
                  dropped_frames, flights>>
    BY Zenon DEF Blackbox!WriterStep, Blackbox!Get, Blackbox!MakeDirectory, Blackbox!FirstMetadata,
       Blackbox!AppendRow, Blackbox!BeginFinish, Blackbox!WriteStream, Blackbox!ListChunk,
       Blackbox!Close, Blackbox!appVars, Blackbox!dropVars, Blackbox!countVars
<1>2. Blackbox!Get \/ (UNCHANGED past /\ UNCHANGED queue)
    BY Zenon DEF Blackbox!WriterStep, Blackbox!MakeDirectory, Blackbox!FirstMetadata,
       Blackbox!AppendRow, Blackbox!BeginFinish, Blackbox!WriteStream, Blackbox!ListChunk,
       Blackbox!Close, Blackbox!appVars, Blackbox!dropVars, Blackbox!countVars
<1> QED
    BY <1>1, <1>2

\* The writer reads no history: what it changes in it is whether odometry was lost.
LEMMA GetKeepsHistory ==
    ASSUME RecordTypes, Blackbox!Get
    PROVE  /\ past'.frames = past.frames /\ past'.drops = past.drops
           /\ past'.dropped = past.dropped /\ past'.earlier = past.earlier
<1> DEFINE b == past.lost \/ (Head(queue).kind = "odometry" /\ session.id = None)
<1>1. past' = [past EXCEPT !.lost = b]
    BY DEF Blackbox!Get
<1> HIDE DEF b
<1> QED
    BY <1>1 DEF RecordTypes, PastStates

----------------------------------------------------------------------------
(* The steps of the recorder: the buffer is bounded.                          *)

LEMMA BufferKept ==
    ASSUME ThreadTypes, RecordTypes, FlightsAreNumbered, BufferIsBounded, Blackbox!Next
    PROVE  BufferIsBounded'
<1> USE RecorderConstants
<1>1. queue \in Seq(Items) /\ Capacity \in Nat /\ Blackbox!TelemetryCount(queue) \in Nat
    BY TelemetryIsCounted DEF RecordTypes
<1>2. CASE UNCHANGED queue
    BY <1>2 DEF BufferIsBounded
<1>3. ASSUME NEW item \in Items, ~ Blackbox!IsTelemetry(item), NEW q \in Seq(Items),
             Blackbox!TelemetryCount(q) <= Capacity
      PROVE  Append(q, item) \in Seq(Items) /\ Blackbox!TelemetryCount(Append(q, item)) <= Capacity
    <2>1. Blackbox!TelemetryCount(q) \in Nat
        BY TelemetryIsCounted
    <2>2. Blackbox!TelemetryCount(Append(q, item)) = Blackbox!TelemetryCount(q) + 0
        BY <1>3, AppendCount
    <2> QED
        BY <1>1, <1>3, <2>1, <2>2, AppendProperties
<1>4. ASSUME NEW item \in Items, NEW q \in Seq(Items), Blackbox!TelemetryCount(q) < Capacity
      PROVE  Blackbox!TelemetryCount(Append(q, item)) <= Capacity
    <2>1. Blackbox!TelemetryCount(q) \in Nat
        BY TelemetryIsCounted
    <2>2. Blackbox!TelemetryCount(Append(q, item)) =
             Blackbox!TelemetryCount(q) + IF Blackbox!IsTelemetry(item) THEN 1 ELSE 0
        BY AppendCount
    <2> QED
        BY <1>1, <1>4, <2>1, <2>2
<1>5. CASE Blackbox!PutStart
    <2>1. Blackbox!StartFlight(session_id) \in Items
        BY <1>5, ItemsArePut DEF Blackbox!PutStart, ThreadTypes, FlightsAreNumbered
    <2>2. ~ Blackbox!IsTelemetry(Blackbox!StartFlight(session_id))
        BY DEF Blackbox!IsTelemetry, Blackbox!StartFlight
    <2> QED
        BY <1>1, <1>3, <1>5, <2>1, <2>2 DEF Blackbox!PutStart, BufferIsBounded
<1>6. CASE Blackbox!Record
    <2> DEFINE item == Blackbox!Frame(sample_index)
    <2>1. item \in Items
        BY ItemsArePut DEF ThreadTypes
    <2>2. Blackbox!PutFrame(item)
        BY <1>6 DEF Blackbox!Record
    <2> HIDE DEF item
    <2>3. CASE queue' = Append(queue, item) /\ ~ Blackbox!Full(queue)
        <3>1. Blackbox!TelemetryCount(queue) < Capacity
            BY <2>3, <1>1 DEF Blackbox!Full
        <3> QED
            BY <3>1, <2>1, <2>3, <1>1, <1>4 DEF BufferIsBounded
    <2>4. CASE \E k \in 1..Len(queue) : /\ queue[k].kind = "odometry"
                                        /\ queue' = Append(Blackbox!RemoveAt(queue, k), item)
        <3>1. PICK k \in 1..Len(queue) : /\ queue[k].kind = "odometry"
                                         /\ queue' = Append(Blackbox!RemoveAt(queue, k), item)
            BY <2>4
        <3> DEFINE t == Blackbox!RemoveAt(queue, k)
        <3>2. k \in TelemetryAt(queue)
            BY <3>1, <1>1, LenProperties DEF TelemetryAt, Blackbox!IsTelemetry
        <3>3. Blackbox!TelemetryCount(t) <= Blackbox!TelemetryCount(queue) - 1
            BY <3>2, <1>1, RemoveAtCount
        <3>4. t \in Seq(Items)
            BY <1>1, RemoveAtProperties
        <3> HIDE DEF t
        <3>5. Blackbox!TelemetryCount(t) \in Nat
            BY <3>4, TelemetryIsCounted
        <3>6. Blackbox!TelemetryCount(t) < Capacity
            BY <3>3, <3>5, <1>1 DEF BufferIsBounded
        <3> QED
            BY <3>1, <3>4, <3>6, <2>1, <1>4 DEF BufferIsBounded, t
    <2> QED
        BY <2>2, <2>3, <2>4, <1>1, <1>2, PutFrameEffect
<1>7. CASE Blackbox!PutEnd
    <2>1. Blackbox!EndFlight(session_id, TRUE) \in Items
        BY <1>7, ItemsArePut DEF Blackbox!PutEnd, ThreadTypes, FlightsAreNumbered
    <2>2. ~ Blackbox!IsTelemetry(Blackbox!EndFlight(session_id, TRUE))
        BY DEF Blackbox!IsTelemetry, Blackbox!EndFlight
    <2> QED
        BY <1>1, <1>3, <1>7, <2>1, <2>2 DEF Blackbox!PutEnd, BufferIsBounded
<1>8. CASE Blackbox!Stop
    <2> DEFINE e == Blackbox!EndFlight(session_id, FALSE)
               x == Blackbox!StopWriter
    <2>1. session_id \in Blackbox!Flights \/ ~ flight_active
        BY DEF ThreadTypes, FlightsAreNumbered
    <2>2. x \in Items /\ (flight_active => e \in Items)
        BY <2>1, ItemsArePut
    <2>3. ~ Blackbox!IsTelemetry(e) /\ ~ Blackbox!IsTelemetry(x)
        BY DEF Blackbox!IsTelemetry, Blackbox!EndFlight, Blackbox!StopWriter
    <2>4. queue' = IF flight_active THEN Append(Append(queue, e), x) ELSE Append(queue, x)
        BY <1>1, <1>8, <2>1, StopItemsAreAppended DEF Blackbox!Stop
    <2> HIDE DEF e, x
    <2>5. CASE flight_active
        <3>1. /\ Append(queue, e) \in Seq(Items)
              /\ Blackbox!TelemetryCount(Append(queue, e)) <= Capacity
            BY <1>1, <1>3, <2>2, <2>3, <2>5 DEF BufferIsBounded
        <3>2. Blackbox!TelemetryCount(Append(Append(queue, e), x)) <= Capacity
            BY <1>3, <2>2, <2>3, <3>1
        <3> QED
            BY <2>4, <2>5, <3>2 DEF BufferIsBounded
    <2>6. CASE ~ flight_active
        BY <1>1, <1>3, <2>2, <2>3, <2>4, <2>6 DEF BufferIsBounded
    <2> QED
        BY <2>5, <2>6
<1>9. CASE Blackbox!OdometryPut
    <2>1. Blackbox!Odometry(odo.start) \in Items
        BY ItemsArePut DEF ThreadTypes
    <2>2. UNCHANGED queue \/
          (queue' = Append(queue, Blackbox!Odometry(odo.start)) /\ ~ Blackbox!Full(queue))
        BY <1>9 DEF Blackbox!OdometryPut
    <2>3. ASSUME queue' = Append(queue, Blackbox!Odometry(odo.start)), ~ Blackbox!Full(queue)
          PROVE  BufferIsBounded'
        <3>1. Blackbox!TelemetryCount(queue) < Capacity
            BY <2>3, <1>1 DEF Blackbox!Full
        <3> QED
            BY <3>1, <2>1, <2>3, <1>1, <1>4 DEF BufferIsBounded
    <2> QED
        BY <2>2, <2>3, <1>2
<1>10. CASE Blackbox!Get
    <2>1. queue # <<>> /\ queue' = Tail(queue)
        BY <1>10 DEF Blackbox!Get
    <2>2. Tail(queue) \in Seq(Items)
        BY <1>1, <2>1, HeadTailProperties
    <2>3. Blackbox!TelemetryCount(Tail(queue)) \in Nat
        BY <2>2, TelemetryIsCounted
    <2>4. Blackbox!TelemetryCount(Tail(queue)) <= Blackbox!TelemetryCount(queue)
        BY <1>1, <2>1, TailCount
    <2> QED
        BY <1>1, <2>1, <2>3, <2>4 DEF BufferIsBounded
<1>11. CASE Blackbox!Crash
    <2>1. Blackbox!TelemetryCount(<<>>) = 0
        <3>1. <<>> \in Seq(Items) /\ DOMAIN <<>> = {}
            BY EmptySeq
        <3>2. TelemetryAt(<<>>) = {}
            BY <3>1 DEF TelemetryAt
        <3> QED
            BY <3>1, <3>2, TelemetryIsCounted, FS_EmptySet
    <2> QED
        BY <1>1, <1>11, <2>1 DEF Blackbox!Crash, BufferIsBounded
<1>12. CASE UNCHANGED queue \/ Blackbox!WriterStep
    BY <1>2, <1>10, <1>12, WriterLeavesLoop
<1>13. CASE \/ Blackbox!BeginFlight \/ Blackbox!ResetSamples \/ Blackbox!CaptureFails
            \/ Blackbox!Disarm \/ Blackbox!OdometryCheck \/ Blackbox!OdometryRow
            \/ Blackbox!WriteFails \/ Blackbox!Recover \/ Blackbox!RecoverFails \/ Blackbox!Start
            \/ Blackbox!Stopped
    <2>1. UNCHANGED queue
        BY Zenon, <1>13 DEF Blackbox!BeginFlight, Blackbox!ResetSamples, Blackbox!CaptureFails,
           Blackbox!Disarm, Blackbox!OdometryCheck, Blackbox!OdometryRow, Blackbox!WriteFails,
           Blackbox!Recover, Blackbox!RecoverFails, Blackbox!Start, Blackbox!Stopped, Blackbox!vars
    <2> QED
        BY <2>1, <1>2
<1> QED
    BY <1>5, <1>6, <1>7, <1>8, <1>9, <1>11, <1>12, <1>13
    DEF Blackbox!Next, Blackbox!MainStep, Blackbox!OdometryStep

----------------------------------------------------------------------------
(* The steps of the recorder: flights, and a process that is down.            *)

LEMMA FlightsKept ==
    ASSUME ThreadTypes, RecordTypes, FlightsAreNumbered, Blackbox!Next
    PROVE  FlightsAreNumbered'
<1> USE RecorderConstants
<1>1. /\ past.earlier \in Nat /\ flights \in Nat
      /\ session_id \in Blackbox!Flights \cup {None}
    BY DEF ThreadTypes, RecordTypes, PastStates
<1>2. ASSUME past'.earlier = past.earlier,
             UNCHANGED <<recorder, flight_active, session_id, flights>>
      PROVE  FlightsAreNumbered'
    BY <1>2 DEF FlightsAreNumbered
<1>3. CASE Blackbox!BeginFlight
    <2>1. /\ recorder' = "reset" /\ flight_active' = TRUE /\ session_id' = flights + 1
          /\ flights' = flights + 1 /\ past' = past
        BY <1>3 DEF Blackbox!BeginFlight
    <2>2. past.earlier <= flights
        BY DEF FlightsAreNumbered
    <2>3. past.earlier < session_id' /\ past.earlier <= flights' /\ session_id' # None
        BY <2>1, <2>2, <1>1
    <2> QED
        BY <2>1, <2>3 DEF FlightsAreNumbered
<1>4. CASE Blackbox!ResetSamples
    BY <1>4 DEF Blackbox!ResetSamples, FlightsAreNumbered, Blackbox!countVars
<1>5. CASE Blackbox!PutStart
    <2>1. past'.earlier = past.earlier
        BY <1>5 DEF Blackbox!PutStart, RecordTypes, PastStates
    <2> QED
        BY <1>5, <2>1 DEF Blackbox!PutStart, FlightsAreNumbered, Blackbox!countVars
<1>6. CASE Blackbox!Record
    <2>1. past'.earlier = past.earlier
        BY <1>6 DEF Blackbox!Record, RecordTypes, PastStates
    <2> QED
        BY <1>6, <2>1 DEF Blackbox!Record, FlightsAreNumbered, Blackbox!countVars
<1>7. CASE Blackbox!CaptureFails
    BY <1>7 DEF Blackbox!CaptureFails, FlightsAreNumbered
<1>8. CASE Blackbox!Disarm
    BY <1>8 DEF Blackbox!Disarm, FlightsAreNumbered, Blackbox!countVars
<1>9. CASE Blackbox!PutEnd
    <2>1. past'.earlier = past.earlier
        BY <1>9 DEF Blackbox!PutEnd, RecordTypes, PastStates
    <2> QED
        BY <1>9, <2>1 DEF Blackbox!PutEnd, FlightsAreNumbered, Blackbox!countVars
<1>10. CASE Blackbox!Stop
    BY <1>10 DEF Blackbox!Stop, FlightsAreNumbered, Blackbox!countVars
<1>11. CASE Blackbox!OdometryStep
    BY <1>11, <1>2 DEF Blackbox!OdometryStep, Blackbox!OdometryCheck, Blackbox!OdometryRow,
       Blackbox!OdometryPut, Blackbox!appVars, Blackbox!countVars
<1>12. CASE Blackbox!WriterStep
    BY <1>12, <1>2, WriterLeavesLoop, GetKeepsHistory
<1>13. CASE Blackbox!WriteFails \/ Blackbox!Recover \/ Blackbox!RecoverFails \/ Blackbox!Stopped
    <2>1. UNCHANGED <<recorder, flight_active, session_id, flights, past>>
        BY Zenon, <1>13 DEF Blackbox!WriteFails, Blackbox!Recover, Blackbox!RecoverFails,
           Blackbox!Stopped, Blackbox!vars, Blackbox!appVars, Blackbox!countVars
    <2> QED
        BY <2>1, <1>2
<1>14. CASE Blackbox!Crash
    <2>1. /\ recorder' = "down" /\ flight_active' = FALSE /\ session_id' = None
          /\ flights' = flights /\ past' = past
        BY <1>14 DEF Blackbox!Crash
    <2> QED
        BY <2>1 DEF FlightsAreNumbered
<1>15. CASE Blackbox!Start
    <2>1. past'.earlier = flights
        BY <1>15 DEF Blackbox!Start, RecordTypes, PastStates
    <2>2. /\ recorder = "down" /\ recorder' = "idle" /\ session_id' = session_id
          /\ flight_active' = flight_active /\ flights' = flights
        BY <1>15 DEF Blackbox!Start, Blackbox!countVars
    <2>3. session_id = None
        BY <2>2 DEF FlightsAreNumbered
    <2> QED
        BY <2>1, <2>2, <2>3, <1>1 DEF FlightsAreNumbered
<1> QED
    BY <1>3, <1>4, <1>5, <1>6, <1>7, <1>8, <1>9, <1>10, <1>11, <1>12, <1>13, <1>14, <1>15
    DEF Blackbox!Next, Blackbox!MainStep

LEMMA DownKept ==
    ASSUME DownIsEmpty, Blackbox!Next
    PROVE  DownIsEmpty'
<1>1. ASSUME recorder' # "down" PROVE DownIsEmpty'
    BY <1>1 DEF DownIsEmpty
<1>2. CASE Blackbox!MainStep
    <2>1. recorder' \in {"reset", "start", "frame", "idle", "end", "stopped"}
        BY <1>2 DEF Blackbox!MainStep, Blackbox!BeginFlight, Blackbox!ResetSamples,
           Blackbox!PutStart, Blackbox!Record, Blackbox!CaptureFails, Blackbox!Disarm,
           Blackbox!PutEnd, Blackbox!Stop
    <2> QED
        BY <2>1, <1>1
<1>3. CASE Blackbox!OdometryStep
    <2>1. recorder # "down"
        BY <1>3 DEF Blackbox!OdometryStep, Blackbox!OdometryCheck, Blackbox!OdometryRow,
           Blackbox!OdometryPut, DownIsEmpty, Blackbox!NoSample
    <2>2. recorder' = recorder
        BY Zenon, <1>3 DEF Blackbox!OdometryStep, Blackbox!OdometryCheck, Blackbox!OdometryRow,
           Blackbox!OdometryPut, Blackbox!appVars
    <2> QED
        BY <2>1, <2>2, <1>1
<1>4. CASE Blackbox!WriterStep \/ Blackbox!WriteFails
    <2>1. writer # "done"
        BY <1>4 DEF Blackbox!WriterStep, Blackbox!Get, Blackbox!MakeDirectory,
           Blackbox!FirstMetadata, Blackbox!AppendRow, Blackbox!BeginFinish, Blackbox!WriteStream,
           Blackbox!ListChunk, Blackbox!Close, Blackbox!WriteFails
    <2>2. recorder' = recorder
        BY <1>4, WriterLeavesLoop DEF Blackbox!WriteFails
    <2> QED
        BY <2>1, <2>2, <1>1 DEF DownIsEmpty
<1>5. CASE Blackbox!Crash
    BY <1>5 DEF Blackbox!Crash, DownIsEmpty
<1>6. CASE Blackbox!Recover \/ Blackbox!RecoverFails \/ Blackbox!Stopped
    <2>1. UNCHANGED <<recorder, queue, writer, session, odo>>
        BY Zenon, <1>6 DEF Blackbox!Recover, Blackbox!RecoverFails, Blackbox!Stopped,
           Blackbox!vars, Blackbox!appVars, Blackbox!writeVars
    <2> QED
        BY <2>1 DEF DownIsEmpty
<1>7. CASE Blackbox!Start
    BY <1>7, <1>1 DEF Blackbox!Start
<1> QED
    BY <1>2, <1>3, <1>4, <1>5, <1>6, <1>7 DEF Blackbox!Next

----------------------------------------------------------------------------
(* The steps of the recorder: what they do on disk.                           *)

\* One directory changes.
Changes(x, d) ==
    x \in Blackbox!Flights /\ \A s \in Blackbox!Flights : disk'[s] = IF s = x THEN d ELSE disk[s]

LEMMA DiskValues ==
    ASSUME disk \in DiskStates, NEW x \in Blackbox!Flights, NEW d, disk' = [disk EXCEPT ![x] = d]
    PROVE  Changes(x, d)
BY DEF DiskStates, Changes

\* How the writer closes a session at its end.
ClosedAs == IF session.item.clean THEN "complete" ELSE "unclean"

\* What each step changes on disk.
LEMMA DiskEffect ==
    ASSUME RecordTypes, WriterIsInSession, Blackbox!Next
    PROVE  /\ Blackbox!MakeDirectory =>
                Changes(session.item.id, [disk[session.item.id] EXCEPT !.dir = TRUE])
           /\ Blackbox!FirstMetadata =>
                Changes(session.item.id, [disk[session.item.id] EXCEPT !.status = "recording"])
           /\ Blackbox!WriteStream =>
                Changes(session.id, [disk[session.id] EXCEPT !.files = disk[session.id].files \cup
                             {[chunk |-> Len(session.chunks), stream |-> Head(session.todo)]}])
           /\ Blackbox!ListChunk =>
                Changes(session.id,
                        [disk[session.id] EXCEPT !.chunks = Append(session.chunks, session.rows)])
           /\ Blackbox!Close =>
                Changes(session.id,
                        [disk[session.id] EXCEPT !.status = ClosedAs, !.count = session.count,
                                                 !.dropped = Blackbox!DropsOfFlight])
           /\ Blackbox!WriteFails =>
                \/ disk' = disk
                \/ session.id # None /\
                     Changes(session.id,
                             [disk[session.id] EXCEPT !.status = "unclean", !.chunks = session.chunks,
                                 !.count = session.count, !.dropped = Blackbox!DropsOfFlight,
                                 !.tmp = TRUE])
           /\ Blackbox!Crash =>
                \/ disk' = disk
                \/ Blackbox!Writing # None /\
                     Changes(Blackbox!Writing, [disk[Blackbox!Writing] EXCEPT !.tmp = TRUE])
           /\ Blackbox!Recover =>
                \E x \in Blackbox!Flights :
                     /\ disk[x].status = "recording"
                     /\ Changes(x, [disk[x] EXCEPT !.status = "unclean", !.reason = "interrupted",
                                                   !.tmp = FALSE])
           /\ Blackbox!RecoverFails =>
                \E x \in Blackbox!Flights, torn \in BOOLEAN :
                     disk[x].status = "recording" /\ Changes(x, [disk[x] EXCEPT !.tmp = torn])
           /\ \/ Blackbox!MainStep \/ Blackbox!OdometryStep \/ Blackbox!Get \/ Blackbox!AppendRow
              \/ Blackbox!BeginFinish \/ Blackbox!Start \/ Blackbox!Stopped
              => disk' = disk
<1> USE RecorderConstants
<1>1. writer \in {"mkdir", "meta"} => session.item.id \in Blackbox!Flights
    BY ItemTypes DEF RecordTypes, SessionStates, WriterIsInSession, AtItem
<1>2. writer \in {"append", "flush", "write", "close"} => session.id \in Blackbox!Flights
    BY DEF RecordTypes, SessionStates, WriterIsInSession
<1>3. session.id # None => session.id \in Blackbox!Flights
    BY DEF RecordTypes, SessionStates
<1>4. disk \in DiskStates
    BY DEF RecordTypes
<1>5. ASSUME Blackbox!MakeDirectory
      PROVE  Changes(session.item.id, [disk[session.item.id] EXCEPT !.dir = TRUE])
    <2> DEFINE x == session.item.id
               d == [disk[x] EXCEPT !.dir = TRUE]
    <2>1. x \in Blackbox!Flights /\ disk' = [disk EXCEPT ![x] = d]
        BY <1>1, <1>5 DEF Blackbox!MakeDirectory
    <2>2. Changes(x, d)
        <3> HIDE DEF x, d
        <3> QED
            BY <2>1, <1>4, DiskValues
    <2> QED
        BY <2>1, <2>2, <1>5
<1>6. ASSUME Blackbox!FirstMetadata
      PROVE  Changes(session.item.id, [disk[session.item.id] EXCEPT !.status = "recording"])
    <2> DEFINE x == session.item.id
               d == [disk[x] EXCEPT !.status = "recording"]
    <2>1. x \in Blackbox!Flights /\ disk' = [disk EXCEPT ![x] = d]
        BY <1>1, <1>6 DEF Blackbox!FirstMetadata
    <2>2. Changes(x, d)
        <3> HIDE DEF x, d
        <3> QED
            BY <2>1, <1>4, DiskValues
    <2> QED
        BY <2>1, <2>2, <1>6
<1>7. ASSUME Blackbox!WriteStream
      PROVE  Changes(session.id, [disk[session.id] EXCEPT !.files = disk[session.id].files \cup
                          {[chunk |-> Len(session.chunks), stream |-> Head(session.todo)]}])
    <2> DEFINE x == session.id
               d == [disk[x] EXCEPT !.files = disk[x].files \cup
                       {[chunk |-> Len(session.chunks), stream |-> Head(session.todo)]}]
    <2>1. x \in Blackbox!Flights /\ disk' = [disk EXCEPT ![x] = d]
        BY <1>2, <1>7 DEF Blackbox!WriteStream
    <2>2. Changes(x, d)
        <3> HIDE DEF x, d
        <3> QED
            BY <2>1, <1>4, DiskValues
    <2> QED
        BY <2>1, <2>2, <1>7
<1>8. ASSUME Blackbox!ListChunk
      PROVE  Changes(session.id,
                     [disk[session.id] EXCEPT !.chunks = Append(session.chunks, session.rows)])
    <2> DEFINE x == session.id
               d == [disk[x] EXCEPT !.chunks = Append(session.chunks, session.rows)]
    <2>1. x \in Blackbox!Flights /\ disk' = [disk EXCEPT ![x] = d]
        BY <1>2, <1>8 DEF Blackbox!ListChunk
    <2>2. Changes(x, d)
        <3> HIDE DEF x, d
        <3> QED
            BY <2>1, <1>4, DiskValues
    <2> QED
        BY <2>1, <2>2, <1>8
<1>9. ASSUME Blackbox!Close
      PROVE  Changes(session.id,
                     [disk[session.id] EXCEPT !.status = ClosedAs, !.count = session.count,
                                              !.dropped = Blackbox!DropsOfFlight])
    <2> DEFINE x == session.id
               d == [disk[x] EXCEPT !.status = ClosedAs,
                                    !.count = session.count, !.dropped = Blackbox!DropsOfFlight]
    <2>1. x \in Blackbox!Flights /\ disk' = [disk EXCEPT ![x] = d]
        BY <1>2, <1>9 DEF Blackbox!Close, ClosedAs
    <2>2. Changes(x, d)
        <3> HIDE DEF x, d
        <3> QED
            BY <2>1, <1>4, DiskValues
    <2> QED
        BY <2>1, <2>2, <1>9
<1>10. ASSUME Blackbox!WriteFails
      PROVE  \/ disk' = disk
             \/ session.id # None /\
                  Changes(session.id,
                          [disk[session.id] EXCEPT !.status = "unclean", !.chunks = session.chunks,
                              !.count = session.count, !.dropped = Blackbox!DropsOfFlight,
                              !.tmp = TRUE])
    <2> DEFINE x == session.id
               d == [disk[x] EXCEPT !.status = "unclean", !.chunks = session.chunks,
                                    !.count = session.count,
                                    !.dropped = Blackbox!DropsOfFlight, !.tmp = TRUE]
    <2> SUFFICES ASSUME disk' # disk PROVE x # None /\ Changes(x, d)
        OBVIOUS
    <2>1. x # None /\ disk' = [disk EXCEPT ![x] = d]
        BY <1>10 DEF Blackbox!WriteFails
    <2>2. x \in Blackbox!Flights
        BY <2>1, <1>3
    <2>3. Changes(x, d)
        <3> HIDE DEF x, d
        <3> QED
            BY <2>1, <2>2, <1>4, DiskValues
    <2> QED
        BY <2>1, <2>3
<1>11. ASSUME Blackbox!Crash
      PROVE  \/ disk' = disk
             \/ Blackbox!Writing # None /\
                  Changes(Blackbox!Writing, [disk[Blackbox!Writing] EXCEPT !.tmp = TRUE])
    <2> DEFINE x == Blackbox!Writing
               d == [disk[x] EXCEPT !.tmp = TRUE]
    <2> SUFFICES ASSUME disk' # disk PROVE x # None /\ Changes(x, d)
        OBVIOUS
    <2>1. x # None /\ disk' = [disk EXCEPT ![x] = d]
        BY <1>11 DEF Blackbox!Crash
    <2>2. x \in Blackbox!Flights
        BY <2>1, <1>1, <1>2 DEF Blackbox!Writing
    <2>3. Changes(x, d)
        <3> HIDE DEF x, d
        <3> QED
            BY <2>1, <2>2, <1>4, DiskValues
    <2> QED
        BY <2>1, <2>3
<1>12. ASSUME Blackbox!Recover
      PROVE  \E x \in Blackbox!Flights :
                  /\ disk[x].status = "recording"
                  /\ Changes(x, [disk[x] EXCEPT !.status = "unclean", !.reason = "interrupted",
                                                !.tmp = FALSE])
    <2>1. PICK x \in Blackbox!Flights :
            /\ disk[x].status = "recording"
            /\ disk' = [disk EXCEPT ![x] = [disk[x] EXCEPT !.status = "unclean",
                                                !.reason = "interrupted", !.tmp = FALSE]]
        BY <1>12 DEF Blackbox!Recover, Blackbox!Interrupted
    <2> DEFINE d == [disk[x] EXCEPT !.status = "unclean", !.reason = "interrupted", !.tmp = FALSE]
    <2>2. disk' = [disk EXCEPT ![x] = d]
        BY <2>1
    <2>3. Changes(x, d)
        <3> HIDE DEF d
        <3> QED
            BY <2>2, <1>4, DiskValues
    <2> QED
        BY <2>1, <2>3, <1>12
<1>16. ASSUME Blackbox!RecoverFails
      PROVE  \E x \in Blackbox!Flights, torn \in BOOLEAN :
                  disk[x].status = "recording" /\ Changes(x, [disk[x] EXCEPT !.tmp = torn])
    <2>1. PICK x \in Blackbox!Flights, torn \in BOOLEAN :
            /\ disk[x].status = "recording"
            /\ disk' = [disk EXCEPT ![x] = [disk[x] EXCEPT !.tmp = torn]]
        BY <1>16 DEF Blackbox!RecoverFails, Blackbox!Interrupted
    <2> DEFINE d == [disk[x] EXCEPT !.tmp = torn]
    <2>2. disk' = [disk EXCEPT ![x] = d]
        BY <2>1
    <2>3. Changes(x, d)
        <3> HIDE DEF d
        <3> QED
            BY <2>2, <1>4, DiskValues
    <2> QED
        BY <2>1, <2>3
<1>13. Blackbox!MainStep \/ Blackbox!OdometryStep => disk' = disk
    BY LoopLeavesWriter
<1>14. Blackbox!Get \/ Blackbox!AppendRow \/ Blackbox!BeginFinish => disk' = disk
    BY Zenon DEF Blackbox!Get, Blackbox!AppendRow, Blackbox!BeginFinish
<1>15. Blackbox!Start \/ Blackbox!Stopped => disk' = disk
    BY Zenon DEF Blackbox!Start, Blackbox!Stopped, Blackbox!vars, Blackbox!writeVars
<1> QED
    BY <1>5, <1>6, <1>7, <1>8, <1>9, <1>10, <1>11, <1>12, <1>13, <1>14, <1>15, <1>16

----------------------------------------------------------------------------
(* The steps of the recorder: the writer is in its session.                   *)

LEMMA NoSessionFields ==
    /\ Blackbox!NoSession.id = None /\ Blackbox!NoSession.count = 0
    /\ Blackbox!NoSession.dropped_start = 0 /\ Blackbox!NoSession.chunks = <<>>
    /\ Blackbox!NoSession.rows.frames = <<>> /\ Blackbox!NoSession.rows.odometry = <<>>
    /\ Blackbox!NoSession.todo = <<>> /\ Blackbox!NoSession.item.kind = "stop"
BY DEF Blackbox!NoSession, Blackbox!StopWriter

\* Which step an item takes the writer to.
LEMMA TakenValue ==
    ASSUME NEW item \in Items
    PROVE  /\ Blackbox!Taken(item) = "mkdir" <=> item.kind = "start"
           /\ Blackbox!Taken(item) = "flush" => item.kind = "end" /\ item.id = session.id
           /\ Blackbox!Taken(item) = "append" =>
                item.kind \in {"frame", "odometry"} /\ session.id # None
           /\ Blackbox!Taken(item) = "get" =>
                \/ item.kind \in {"frame", "odometry"} /\ session.id = None
                \/ item.kind = "end" /\ session.id # item.id
           /\ Blackbox!Taken(item) = "done" => item.kind = "stop"
           /\ Blackbox!Taken(item) \in {"done", "get", "mkdir", "flush", "append"}
<1>1. item.kind \in {"frame", "odometry", "start", "end", "stop"}
    BY ItemTypes
<1>2. CASE item.kind = "start"
    BY <1>2 DEF Blackbox!Taken
<1>3. CASE item.kind = "stop"
    BY <1>3 DEF Blackbox!Taken
<1>4. CASE item.kind = "end" /\ session.id = item.id
    BY <1>4 DEF Blackbox!Taken
<1>5. CASE item.kind = "end" /\ session.id # item.id
    BY <1>5 DEF Blackbox!Taken
<1>6. CASE item.kind \in {"frame", "odometry"} /\ session.id # None
    BY <1>6 DEF Blackbox!Taken
<1>7. CASE item.kind \in {"frame", "odometry"} /\ session.id = None
    BY <1>7 DEF Blackbox!Taken
<1> QED
    BY <1>1, <1>2, <1>3, <1>4, <1>5, <1>6, <1>7

\* The fields of the session after a step of the writer.
LEMMA SessionEffect ==
    ASSUME RecordTypes
    PROVE  /\ Blackbox!Get =>
                /\ session'.item = Head(queue) /\ session'.id = session.id
                /\ session'.rows = session.rows /\ session'.chunks = session.chunks
                /\ session'.count = session.count /\ session'.todo = session.todo
                /\ session'.dropped_start = session.dropped_start
           /\ Blackbox!FirstMetadata =>
                /\ session'.item = session.item /\ session'.id = session.item.id
                /\ session'.rows.frames = <<>> /\ session'.rows.odometry = <<>>
                /\ session'.chunks = <<>> /\ session'.count = 0
                /\ session'.dropped_start = session.item.dropped
           /\ Blackbox!BeginFinish \/ (Blackbox!AppendRow /\ writer' = "write") =>
                /\ session'.item = session.item /\ session'.id = session.id
                /\ session'.rows = session.rows /\ session'.chunks = session.chunks
                /\ session'.count = session.count /\ session'.todo = Blackbox!Pending
                /\ session'.dropped_start = session.dropped_start
           /\ Blackbox!WriteStream =>
                /\ session'.item = session.item /\ session'.id = session.id
                /\ session'.rows = session.rows /\ session'.chunks = session.chunks
                /\ session'.count = session.count /\ session'.todo = Tail(session.todo)
                /\ session'.dropped_start = session.dropped_start
           /\ Blackbox!ListChunk =>
                /\ session'.item = session.item /\ session'.id = session.id
                /\ session'.rows = Blackbox!NoSession.rows
                /\ session'.chunks = Append(session.chunks, session.rows)
                /\ session'.count = session.count
                /\ session'.dropped_start = session.dropped_start
<1>1. session \in SessionStates
    BY DEF RecordTypes
<1>2. ASSUME Blackbox!Get
      PROVE  /\ session'.item = Head(queue) /\ session'.id = session.id
             /\ session'.rows = session.rows /\ session'.chunks = session.chunks
             /\ session'.count = session.count /\ session'.todo = session.todo
             /\ session'.dropped_start = session.dropped_start
    <2>1. session' = [session EXCEPT !.item = Head(queue)]
        BY <1>2 DEF Blackbox!Get
    <2> QED
        BY <1>1, <2>1 DEF SessionStates
<1>3. ASSUME Blackbox!FirstMetadata
      PROVE  /\ session'.item = session.item /\ session'.id = session.item.id
             /\ session'.rows.frames = <<>> /\ session'.rows.odometry = <<>>
             /\ session'.chunks = <<>> /\ session'.count = 0
             /\ session'.dropped_start = session.item.dropped
    <2>1. session' = [Blackbox!NoSession EXCEPT !.id = session.item.id, !.item = session.item,
                                                !.dropped_start = session.item.dropped]
        BY <1>3 DEF Blackbox!FirstMetadata
    <2> QED
        BY <2>1 DEF Blackbox!NoSession
<1>4. ASSUME Blackbox!BeginFinish \/ (Blackbox!AppendRow /\ writer' = "write")
      PROVE  /\ session'.item = session.item /\ session'.id = session.id
             /\ session'.rows = session.rows /\ session'.chunks = session.chunks
             /\ session'.count = session.count /\ session'.todo = Blackbox!Pending
             /\ session'.dropped_start = session.dropped_start
    <2>1. session' = [session EXCEPT !.todo = Blackbox!Pending]
        BY <1>4 DEF Blackbox!BeginFinish, Blackbox!AppendRow
    <2> QED
        BY <1>1, <2>1 DEF SessionStates
<1>5. ASSUME Blackbox!WriteStream
      PROVE  /\ session'.item = session.item /\ session'.id = session.id
             /\ session'.rows = session.rows /\ session'.chunks = session.chunks
             /\ session'.count = session.count /\ session'.todo = Tail(session.todo)
             /\ session'.dropped_start = session.dropped_start
    <2>1. session' = [session EXCEPT !.todo = Tail(session.todo)]
        BY <1>5 DEF Blackbox!WriteStream
    <2> QED
        BY <1>1, <2>1 DEF SessionStates
<1>6. ASSUME Blackbox!ListChunk
      PROVE  /\ session'.item = session.item /\ session'.id = session.id
             /\ session'.rows = Blackbox!NoSession.rows
             /\ session'.chunks = Append(session.chunks, session.rows)
             /\ session'.count = session.count
             /\ session'.dropped_start = session.dropped_start
    <2> DEFINE chunks == Append(session.chunks, session.rows)
    <2>1. session' = [session EXCEPT !.chunks = chunks, !.rows = Blackbox!NoSession.rows]
        BY <1>6 DEF Blackbox!ListChunk
    <2> HIDE DEF chunks
    <2>2. /\ session'.item = session.item /\ session'.id = session.id
          /\ session'.rows = Blackbox!NoSession.rows
          /\ session'.chunks = chunks
          /\ session'.count = session.count
          /\ session'.dropped_start = session.dropped_start
        BY <1>1, <2>1 DEF SessionStates
    <2> QED
        BY <2>2 DEF chunks
<1> QED
    BY <1>2, <1>3, <1>4, <1>5, <1>6

\* and after a row is appended.
LEMMA AppendEffect ==
    ASSUME RecordTypes, WriterIsInSession, Blackbox!AppendRow, writer' # "write"
    PROVE  /\ writer' = "get" /\ session'.item = session.item /\ session'.id = session.id
           /\ session'.chunks = session.chunks /\ session'.dropped_start = session.dropped_start
           /\ session.item.kind = "frame" =>
                /\ session'.rows.frames = Append(session.rows.frames, session.item.row)
                /\ session'.count = session.count + 1
           /\ session.item.kind # "frame" =>
                /\ session'.rows.frames = session.rows.frames /\ session'.count = session.count
<1>1. session \in SessionStates /\ session.rows \in RowSets
    BY DEF RecordTypes, SessionStates
<1>2. writer' = "get"
    BY DEF Blackbox!AppendRow
<1>3. CASE session.item.kind = "frame"
    <2> DEFINE rows == [session.rows EXCEPT !.frames = Append(session.rows.frames, session.item.row)]
    <2>1. session' = [session EXCEPT !.rows = rows, !.count = session.count + 1]
        BY <1>3 DEF Blackbox!AppendRow
    <2>2. rows.frames = Append(session.rows.frames, session.item.row)
        BY <1>1 DEF RowSets
    <2> HIDE DEF rows
    <2>3. /\ session'.item = session.item /\ session'.id = session.id
          /\ session'.chunks = session.chunks /\ session'.dropped_start = session.dropped_start
          /\ session'.rows = rows /\ session'.count = session.count + 1
        BY <1>1, <2>1 DEF SessionStates
    <2> QED
        BY <1>2, <1>3, <2>2, <2>3
<1>4. CASE session.item.kind # "frame"
    <2> DEFINE rows == [session.rows EXCEPT !.odometry = Append(session.rows.odometry, session.item.row)]
    <2>1. session' = [session EXCEPT !.rows = rows]
        BY <1>4 DEF Blackbox!AppendRow
    <2>2. rows.frames = session.rows.frames
        BY <1>1 DEF RowSets
    <2> HIDE DEF rows
    <2>3. /\ session'.item = session.item /\ session'.id = session.id
          /\ session'.chunks = session.chunks /\ session'.dropped_start = session.dropped_start
          /\ session'.rows = rows /\ session'.count = session.count
        BY <1>1, <2>1 DEF SessionStates
    <2> QED
        BY <1>2, <1>4, <2>2, <2>3
<1> QED
    BY <1>3, <1>4

LEMMA WriterKept ==
    ASSUME ThreadTypes, RecordTypes, FlightsAreNumbered, DownIsEmpty, WriterIsInSession, StartsAreNew,
           Blackbox!Next
    PROVE  WriterIsInSession'
<1> USE RecorderConstants
<1>1. /\ past.earlier \in Nat /\ flights \in Nat /\ queue \in Seq(Items)
      /\ session \in SessionStates /\ session.item \in Items
    BY DEF ThreadTypes, RecordTypes, PastStates, SessionStates
<1>2. session.item.kind \in {"frame", "odometry", "start", "end", "stop"}
    BY <1>1, ItemTypes
\* A session that is not open.
<1>3. ASSUME session' = Blackbox!NoSession, writer' \in {"get", "done"}
      PROVE  WriterIsInSession'
    BY <1>3, NoSessionFields DEF WriterIsInSession, AtItem
\* The open session, and its directory.
<1>4. session.id # None => session.id \in Blackbox!Flights /\ disk[session.id] \in Directories
    BY <1>1 DEF SessionStates, RecordTypes, DiskStates
<1>5. /\ session.id = None => session.count = 0 /\ session.dropped_start = 0
      /\ session.id # None =>
           /\ session.id \in (past.earlier + 1)..flights
           /\ disk[session.id].chunks = session.chunks
           /\ disk[session.id].status = "recording"
    BY DEF WriterIsInSession
<1>6. CASE Blackbox!MainStep \/ Blackbox!OdometryStep
    <2>1. writer' = writer /\ session' = session /\ disk' = disk
        BY <1>6, LoopLeavesWriter
    <2>2. past'.earlier = past.earlier /\ flights' \in {flights, flights + 1}
        BY <1>6 DEF Blackbox!MainStep, Blackbox!OdometryStep, Blackbox!BeginFlight,
           Blackbox!ResetSamples, Blackbox!PutStart, Blackbox!Record, Blackbox!CaptureFails,
           Blackbox!Disarm, Blackbox!PutEnd, Blackbox!Stop, Blackbox!OdometryCheck,
           Blackbox!OdometryRow, Blackbox!OdometryPut, Blackbox!countVars, RecordTypes, PastStates
    <2>3. (past.earlier + 1)..flights \subseteq (past'.earlier + 1)..flights'
        BY <1>1, <2>2
    <2> QED
        BY <2>1, <2>3 DEF WriterIsInSession, AtItem
<1>7. CASE Blackbox!Get
    <2>1. writer = "get" /\ queue # <<>> /\ writer' = Blackbox!Taken(Head(queue)) /\ disk' = disk
        BY <1>7 DEF Blackbox!Get
    <2>2. Head(queue) \in Items
        BY <1>1, <2>1, HeadTailProperties
    <2>3. past'.earlier = past.earlier /\ flights' = flights
        BY <1>7, GetKeepsHistory DEF Blackbox!Get, Blackbox!countVars
    <2>4. /\ session'.item = Head(queue) /\ session'.id = session.id
          /\ session'.chunks = session.chunks /\ session'.count = session.count
          /\ session'.dropped_start = session.dropped_start
        BY <1>7, SessionEffect
    <2> DEFINE item == Head(queue)
    <2> HIDE DEF item
    <2>5. /\ writer' = "mkdir" <=> item.kind = "start"
          /\ writer' = "flush" => item.kind = "end" /\ item.id = session.id
          /\ writer' = "append" => item.kind \in {"frame", "odometry"} /\ session.id # None
          /\ writer' \in {"done", "get", "mkdir", "flush", "append"}
        BY <2>1, <2>2, TakenValue DEF item
    <2>6. session'.item = item
        BY <2>4 DEF item
    <2>7. writer' = "flush" => session.id # None
        <3>1. writer' = "flush" => item.id \in Blackbox!Flights
            BY <2>2, <2>5, ItemTypes DEF item
        <3> QED
            BY <2>5, <3>1
    <2>8. /\ session'.id = None => session'.count = 0 /\ session'.dropped_start = 0
          /\ session'.id # None =>
               /\ session'.id \in (past'.earlier + 1)..flights'
               /\ disk'[session'.id].chunks = session'.chunks
               /\ disk'[session'.id].status = "recording"
        BY <2>1, <2>3, <2>4, <1>5
    <2> QED
        BY <2>4, <2>5, <2>6, <2>7, <2>8 DEF WriterIsInSession, AtItem
<1>8. CASE Blackbox!MakeDirectory
    <2>1. writer = "mkdir" /\ writer' = "meta" /\ session' = session /\ past' = past /\ flights' = flights
        BY <1>8 DEF Blackbox!MakeDirectory, Blackbox!countVars
    <2>2. Changes(session.item.id, [disk[session.item.id] EXCEPT !.dir = TRUE])
        BY <1>8, DiskEffect
    <2>3. session.id # None => disk'[session.id].chunks = session.chunks
                               /\ disk'[session.id].status = "recording"
        <3> SUFFICES ASSUME session.id # None
                     PROVE  /\ disk'[session.id].chunks = session.chunks
                            /\ disk'[session.id].status = "recording"
            OBVIOUS
        <3> DEFINE d == disk[session.id]
        <3>1. disk'[session.id] \in {d, [d EXCEPT !.dir = TRUE]}
            BY <2>2, <1>4 DEF Changes
        <3>2. d \in Directories /\ d.chunks = session.chunks /\ d.status = "recording"
            BY <1>4, <1>5
        <3> HIDE DEF d
        <3> QED
            BY <3>1, <3>2 DEF Directories
    <2> QED
        BY <2>1, <2>3 DEF WriterIsInSession, AtItem
<1>9. CASE Blackbox!FirstMetadata
    <2>1. writer = "meta" /\ writer' = "get" /\ past' = past /\ flights' = flights
        BY <1>9 DEF Blackbox!FirstMetadata, Blackbox!countVars
    <2>2. Changes(session.item.id, [disk[session.item.id] EXCEPT !.status = "recording"])
        BY <1>9, DiskEffect
    <2>3. /\ session.item.id \in (past.earlier + 1)..flights
          /\ disk[session.item.id].chunks = <<>> /\ session.item.id \in Blackbox!Flights
        <3>1. session.item.id \in (past.earlier + 1)..flights /\ IsNew(session.item.id)
            BY <2>1 DEF StartsAreNew
        <3>2. session.item.id \in Blackbox!Flights
            BY <2>2 DEF Changes
        <3> QED
            BY <3>1, <3>2 DEF IsNew
    <2>4. disk'[session.item.id].chunks = <<>> /\ disk'[session.item.id].status = "recording"
        <3> DEFINE x == session.item.id
                   d == disk[x]
        <3>1. d \in Directories /\ d.chunks = <<>>
            BY <2>3 DEF RecordTypes, DiskStates
        <3>2. disk'[x] = [d EXCEPT !.status = "recording"]
            BY <2>2 DEF Changes
        <3> HIDE DEF d
        <3>3. disk'[x].chunks = <<>> /\ disk'[x].status = "recording"
            BY <3>1, <3>2 DEF Directories
        <3> QED
            BY <3>3
    <2>5. session'.id = session.item.id /\ session'.chunks = <<>>
        BY <1>9, SessionEffect
    <2>6. session'.id # None
        BY <2>3, <2>5
    <2> QED
        BY <2>1, <2>3, <2>4, <2>5, <2>6 DEF WriterIsInSession, AtItem
<1>10. CASE Blackbox!AppendRow
    <2>1. writer = "append" /\ past' = past /\ flights' = flights /\ disk' = disk
        BY <1>10 DEF Blackbox!AppendRow, Blackbox!countVars
    <2>2. session.item.kind \in {"frame", "odometry"} /\ session.id # None
        BY <2>1 DEF WriterIsInSession
    <2>3. CASE writer' = "write"
        <3>1. /\ session'.item = session.item /\ session'.id = session.id
              /\ session'.chunks = session.chunks /\ session'.count = session.count
              /\ session'.dropped_start = session.dropped_start
            BY <1>10, <2>3, SessionEffect
        <3> QED
            BY <2>1, <2>2, <2>3, <3>1, <1>5 DEF WriterIsInSession, AtItem
    <2>4. CASE writer' # "write"
        <3>1. /\ writer' = "get" /\ session'.id = session.id /\ session'.chunks = session.chunks
            BY <1>10, <2>4, AppendEffect
        <3> QED
            BY <2>1, <2>2, <3>1, <1>5 DEF WriterIsInSession, AtItem
    <2> QED
        BY <2>3, <2>4
<1>11. CASE Blackbox!BeginFinish
    <2>1. /\ writer = "flush" /\ past' = past /\ flights' = flights /\ disk' = disk
          /\ writer' = IF Blackbox!HasRows THEN "write" ELSE "close"
        BY <1>11 DEF Blackbox!BeginFinish, Blackbox!countVars
    <2>2. /\ session.item.kind = "end" /\ session.id # None /\ session.item.id = session.id
        BY <2>1 DEF WriterIsInSession, AtItem
    <2>3. /\ session'.item = session.item /\ session'.id = session.id
          /\ session'.rows = session.rows
          /\ session'.chunks = session.chunks /\ session'.count = session.count
          /\ session'.dropped_start = session.dropped_start
        BY <1>11, SessionEffect
    <2>4. writer' = "close" => session'.rows.frames = <<>>
        BY <2>1, <2>3 DEF Blackbox!HasRows
    <2> QED
        BY <2>1, <2>2, <2>3, <2>4, <1>5 DEF WriterIsInSession, AtItem
<1>12. CASE Blackbox!WriteStream
    <2>1. writer = "write" /\ writer' = writer /\ past' = past /\ flights' = flights
        BY <1>12 DEF Blackbox!WriteStream, Blackbox!countVars
    <2>2. /\ session'.item = session.item /\ session'.id = session.id
          /\ session'.rows = session.rows
          /\ session'.chunks = session.chunks /\ session'.count = session.count
          /\ session'.dropped_start = session.dropped_start
        BY <1>12, SessionEffect
    <2>3. session.id # None
        BY <2>1 DEF WriterIsInSession
    <2> DEFINE f == disk[session.id].files \cup
                      {[chunk |-> Len(session.chunks), stream |-> Head(session.todo)]}
    <2>4. Changes(session.id, [disk[session.id] EXCEPT !.files = f])
        BY <1>12, DiskEffect
    <2> HIDE DEF f
    <2>5. disk'[session.id].chunks = session.chunks /\ disk'[session.id].status = "recording"
        BY <2>3, <2>4, <1>4, <1>5 DEF Changes, Directories
    <2> QED
        BY <2>1, <2>2, <2>3, <2>5, <1>5 DEF WriterIsInSession, AtItem
<1>13. CASE Blackbox!ListChunk
    <2>1. /\ writer = "write" /\ past' = past /\ flights' = flights
          /\ writer' = IF session.item.kind = "end" THEN "close" ELSE "append"
        BY <1>13 DEF Blackbox!ListChunk, Blackbox!countVars
    <2> DEFINE chunks == Append(session.chunks, session.rows)
    <2>2. /\ session'.item = session.item /\ session'.id = session.id
          /\ session'.rows = Blackbox!NoSession.rows /\ session'.chunks = chunks
        BY <1>13, SessionEffect
    <2>3. Changes(session.id, [disk[session.id] EXCEPT !.chunks = chunks])
        BY <1>13, DiskEffect
    <2> HIDE DEF chunks
    <2>4. /\ session.id # None /\ session.item.kind \in {"frame", "odometry", "end"}
          /\ session.item.kind = "end" => session.item.id = session.id
        BY <2>1, <1>2 DEF WriterIsInSession, AtItem
    <2>5. disk'[session.id].chunks = chunks /\ disk'[session.id].status = "recording"
        BY <2>3, <2>4, <1>4, <1>5 DEF Changes, Directories
    <2>6. session'.rows.frames = <<>>
        BY <2>2, NoSessionFields
    <2> QED
        BY <2>1, <2>2, <2>4, <2>5, <2>6, <1>5 DEF WriterIsInSession, AtItem
<1>14. CASE Blackbox!Close \/ Blackbox!WriteFails
    BY <1>3, <1>14 DEF Blackbox!Close, Blackbox!WriteFails
<1>15. CASE Blackbox!Crash
    BY <1>3, <1>15 DEF Blackbox!Crash
<1>16. CASE Blackbox!Recover \/ Blackbox!RecoverFails
    <2>1. session = Blackbox!NoSession /\ writer = "done" /\ session' = session /\ writer' = writer
        BY <1>16 DEF Blackbox!Recover, Blackbox!RecoverFails, DownIsEmpty
    <2> QED
        BY <2>1, <1>3
<1>17. CASE Blackbox!Start
    <2>1. session = Blackbox!NoSession /\ writer' = "get" /\ session' = session
        BY <1>17 DEF Blackbox!Start, DownIsEmpty
    <2> QED
        BY <2>1, <1>3
<1>18. CASE Blackbox!Stopped
    <2>1. UNCHANGED <<writer, session, disk, past, flights>>
        BY Zenon, <1>18 DEF Blackbox!Stopped, Blackbox!vars, Blackbox!writeVars, Blackbox!countVars
    <2> QED
        BY <2>1 DEF WriterIsInSession, AtItem
<1> QED
    BY <1>6, <1>7, <1>8, <1>9, <1>10, <1>11, <1>12, <1>13, <1>14, <1>15, <1>16, <1>17, <1>18
    DEF Blackbox!Next, Blackbox!WriterStep

----------------------------------------------------------------------------
(* The steps of the recorder: the history, and the session as its prefix.     *)

LEMMA HistoryType ==
    ASSUME ThreadTypes, RecordTypes
    PROVE  History \in Histories
<1>1. past.frames \in [Blackbox!Flights -> Seq(Nat)] /\ past.drops \in [Blackbox!Flights -> Int]
    BY DEF RecordTypes, PastStates
<1>2. dropped_frames \in Nat /\ {s \in Blackbox!Flights : Over(s)} \in SUBSET Blackbox!Flights
    BY DEF ThreadTypes
<1> QED
    BY <1>1, <1>2 DEF History, Histories

\* The history of the flights only goes on.
LEMMA HistoryContinues ==
    ASSUME ThreadTypes, RecordTypes, FlightsAreNumbered, Blackbox!Next
    PROVE  Continues(History, History')
<1> USE RecorderConstants
<1>1. /\ past.frames \in [Blackbox!Flights -> Seq(Nat)] /\ past.drops \in [Blackbox!Flights -> Int]
      /\ flights \in Nat /\ session_id \in Blackbox!Flights \cup {None} /\ sample_index \in Nat
    BY DEF ThreadTypes, RecordTypes, PastStates
<1>2. ASSUME \A s \in Blackbox!Flights : Over(s) => Over(s)',
             \A s \in Blackbox!Flights : Over(s) => past'.frames[s] = past.frames[s]
                                                    /\ past'.drops[s] = past.drops[s],
             \A s \in Blackbox!Flights :
                /\ Len(past.frames[s]) <= Len(past'.frames[s])
                /\ \A i \in 1..Len(past.frames[s]) : past'.frames[s][i] = past.frames[s][i]
      PROVE  Continues(History, History')
    <2>1. /\ History.frames = past.frames /\ History'.frames = past'.frames
          /\ History.drops = past.drops /\ History'.drops = past'.drops
          /\ History.over = {s \in Blackbox!Flights : Over(s)}
          /\ History'.over = {s \in Blackbox!Flights : Over(s)'}
        BY DEF History
    <2> QED
        BY <1>2, <2>1 DEF Continues
<1>3. \A s \in Blackbox!Flights : Len(past.frames[s]) \in Nat
    BY <1>1, LenProperties
<1>4. ASSUME UNCHANGED flights, session_id' \in {session_id, None}
      PROVE  \A s \in Blackbox!Flights : Over(s) => Over(s)'
    BY <1>4 DEF Over
<1>5. ASSUME past'.frames = past.frames, past'.drops = past.drops, UNCHANGED flights,
             session_id' \in {session_id, None}
      PROVE  Continues(History, History')
    BY <1>2, <1>3, <1>4, <1>5
<1>6. CASE Blackbox!BeginFlight
    <2>1. session_id' = flights + 1 /\ flights' = flights + 1 /\ past' = past
        BY <1>6 DEF Blackbox!BeginFlight
    <2>2. \A s \in Blackbox!Flights : Over(s) => Over(s)'
        BY <1>1, <2>1 DEF Over
    <2> QED
        BY <2>1, <2>2, <1>2, <1>3
<1>7. CASE Blackbox!Record
    <2>1. session_id' = session_id /\ flights' = flights /\ session_id \in Blackbox!Flights
        BY <1>7, <1>1 DEF Blackbox!Record, Blackbox!countVars, FlightsAreNumbered
    <2> DEFINE f == [past.frames EXCEPT ![session_id] = Append(past.frames[session_id], sample_index)]
    <2>2. past' = past \/ past' = [past EXCEPT !.frames = f]
        BY <1>7 DEF Blackbox!Record
    <2> HIDE DEF f
    <2>3. CASE past' = past
        BY <2>1, <2>3, <1>5
    <2>4. CASE past' = [past EXCEPT !.frames = f]
        <3>1. past'.frames = f /\ past'.drops = past.drops
            BY <2>4 DEF RecordTypes, PastStates
        <3>2. \A s \in Blackbox!Flights :
                 f[s] = IF s = session_id THEN Append(past.frames[session_id], sample_index)
                                          ELSE past.frames[s]
            BY <1>1 DEF f
        <3>3. \A s \in Blackbox!Flights : Over(s) => s # session_id
            BY DEF Over
        <3>4. ASSUME NEW s \in Blackbox!Flights
              PROVE  /\ Len(past.frames[s]) <= Len(f[s])
                     /\ \A i \in 1..Len(past.frames[s]) : f[s][i] = past.frames[s][i]
            <4>1. CASE s = session_id
                <5> DEFINE a == past.frames[s]
                <5>1. a \in Seq(Nat) /\ f[s] = Append(a, sample_index)
                    BY <1>1, <3>2, <4>1
                <5> HIDE DEF a
                <5>2. /\ Len(Append(a, sample_index)) = Len(a) + 1 /\ Len(a) \in Nat
                      /\ \A i \in 1..Len(a) : Append(a, sample_index)[i] = a[i]
                    BY <1>1, <5>1, AppendProperties, LenProperties
                <5>3. Len(a) <= Len(f[s]) /\ \A i \in 1..Len(a) : f[s][i] = a[i]
                    BY <5>1, <5>2
                <5> QED
                    BY <5>3 DEF a
            <4>2. CASE s # session_id
                BY <3>2, <4>2, <1>3
            <4> QED
                BY <4>1, <4>2
        <3>5. \A s \in Blackbox!Flights : Over(s) => Over(s)'
            BY <2>1, <1>4
        <3> QED
            BY <3>1, <3>2, <3>3, <3>4, <3>5, <1>2
    <2> QED
        BY <2>2, <2>3, <2>4
<1>8. CASE Blackbox!PutEnd
    <2>1. session_id' = None /\ flights' = flights /\ session_id \in Blackbox!Flights
        BY <1>8, <1>1 DEF Blackbox!PutEnd, Blackbox!countVars, FlightsAreNumbered
    <2> DEFINE d == [past.drops EXCEPT ![session_id] = dropped_frames - past.dropped]
    <2>2. past' = [past EXCEPT !.drops = d]
        BY <1>8 DEF Blackbox!PutEnd
    <2> HIDE DEF d
    <2>3. past'.frames = past.frames /\ past'.drops = d
        BY <2>2 DEF RecordTypes, PastStates
    <2>4. \A s \in Blackbox!Flights : s # session_id => d[s] = past.drops[s]
        BY <1>1 DEF d
    <2>5. \A s \in Blackbox!Flights : Over(s) => s # session_id
        BY DEF Over
    <2>6. \A s \in Blackbox!Flights : Over(s) => Over(s)'
        BY <2>1, <1>4
    <2> QED
        BY <2>3, <2>4, <2>5, <2>6, <1>2, <1>3
<1>9. CASE Blackbox!PutStart \/ Blackbox!Start
    <2>1. past'.frames = past.frames /\ past'.drops = past.drops
        BY <1>9 DEF Blackbox!PutStart, Blackbox!Start, RecordTypes, PastStates
    <2>2. flights' = flights /\ session_id' = session_id
        BY <1>9 DEF Blackbox!PutStart, Blackbox!Start, Blackbox!countVars
    <2> QED
        BY <2>1, <2>2, <1>5
<1>10. CASE \/ Blackbox!ResetSamples \/ Blackbox!CaptureFails \/ Blackbox!Disarm \/ Blackbox!Stop
            \/ Blackbox!WriteFails \/ Blackbox!Crash
    <2>1. past' = past /\ flights' = flights /\ session_id' \in {session_id, None}
        BY <1>10 DEF Blackbox!ResetSamples, Blackbox!CaptureFails, Blackbox!Disarm, Blackbox!Stop,
           Blackbox!WriteFails, Blackbox!Crash, Blackbox!countVars
    <2> QED
        BY <2>1, <1>5
<1>11. CASE Blackbox!OdometryStep \/ Blackbox!Recover \/ Blackbox!RecoverFails \/ Blackbox!Stopped
    <2>1. past' = past /\ flights' = flights /\ session_id' = session_id
        BY Zenon, <1>11 DEF Blackbox!OdometryStep, Blackbox!OdometryCheck, Blackbox!OdometryRow,
           Blackbox!OdometryPut, Blackbox!Recover, Blackbox!RecoverFails, Blackbox!Stopped,
           Blackbox!vars, Blackbox!appVars, Blackbox!countVars
    <2> QED
        BY <2>1, <1>5
<1>12. CASE Blackbox!WriterStep
    BY <1>12, <1>5, WriterLeavesLoop, GetKeepsHistory
<1> QED
    BY <1>6, <1>7, <1>8, <1>9, <1>10, <1>11, <1>12 DEF Blackbox!Next, Blackbox!MainStep

\* Flattening sequences of S gives one.
LEMMA FlattenType ==
    ASSUME NEW S, NEW s \in Seq(Seq(S))
    PROVE  Blackbox!FlattenSeq(s) \in Seq(S)
<1>1. Len(s) \in Nat
    BY LenProperties
<1>2. CASE Len(s) = 0
    <2>1. Blackbox!FlattenSeq(s) = <<>>
        <3>1. s = <<>>
            BY <1>2, EmptySeq
        <3> QED
            BY <1>2, <3>1 DEF Blackbox!FlattenSeq
    <2> QED
        BY <2>1, EmptySeq
<1>3. CASE Len(s) # 0
    <2>1. PICK f : IsFlattening(s, f)
        BY <1>3, FlatteningExists
    <2>2. Blackbox!FlattenSeq(s) = f[Len(s)]
        <3>1. IsFlattening(s, CHOOSE h : IsFlattening(s, h))
            BY <2>1
        <3>2. (CHOOSE h : IsFlattening(s, h)) = f
            BY <3>1, <2>1, FlatteningIsUnique
        <3> QED
            BY <3>2, <1>3, FlattenSeqValue
    <2> DEFINE G == {i \in Nat : i \in 1..Len(s) => f[i] \in Seq(S)}
    <2>3. \A i \in 1..Len(s) : s[i] \in Seq(S)
        BY ElementOfSeq
    <2>4. 1 \in G
        BY <2>1, <2>3, <1>1 DEF IsFlattening
    <2>5. ASSUME NEW i \in 1..Len(s), i \in G PROVE i + 1 \in G
        <3>1. CASE i + 1 \in 1..Len(s)
            <4>1. i + 1 # 1 /\ (i + 1) - 1 = i
                BY <1>1
            <4>2. f[i + 1] = f[i] \o s[i + 1]
                BY <2>1, <3>1, <4>1 DEF IsFlattening
            <4>3. f[i] \in Seq(S) /\ s[i + 1] \in Seq(S)
                BY <2>3, <2>5, <3>1
            <4>4. f[i] \o s[i + 1] \in Seq(S)
                BY <4>3, ConcatProperties
            <4>5. f[i + 1] \in Seq(S) /\ i + 1 \in Nat
                BY <4>2, <4>4, <1>1
            <4> QED
                BY <4>5
        <3> QED
            BY <3>1, <1>1
    <2> HIDE DEF G
    <2>6. 1..(Len(s) + 1) \subseteq G
        BY <1>1, <2>4, <2>5, FiniteInduction
    <2>7. f[Len(s)] \in Seq(S)
        BY <2>6, <1>1, <1>3 DEF G
    <2> QED
        BY <2>2, <2>7
<1> QED
    BY <1>2, <1>3

\* The frames of chunks, chunk by chunk.
LEMMA FramesOfChunks ==
    /\ FramesOf(<<>>) = <<>>
    /\ \A chunks \in Seq(RowSets) :
         /\ FramesOf(chunks) \in Seq(Nat)
         /\ \A rows \in RowSets : FramesOf(Append(chunks, rows)) = FramesOf(chunks) \o rows.frames
<1>1. FramesOf(<<>>) = <<>>
    <2> DEFINE e == [i \in DOMAIN <<>> |-> <<>>[i].frames]
    <2>1. e = <<>>
        BY EmptySeq
    <2>2. Blackbox!FlattenSeq(<<>>) = <<>>
        <3>1. Len(<<>>) = 0
            BY EmptySeq
        <3> QED
            BY <3>1 DEF Blackbox!FlattenSeq
    <2> QED
        BY <2>1, <2>2 DEF FramesOf
<1>2. ASSUME NEW chunks \in Seq(RowSets)
      PROVE  /\ FramesOf(chunks) \in Seq(Nat)
             /\ \A rows \in RowSets :
                  FramesOf(Append(chunks, rows)) = FramesOf(chunks) \o rows.frames
    <2> DEFINE n == Len(chunks)
               s == [i \in DOMAIN chunks |-> chunks[i].frames]
    <2>1. DOMAIN chunks = 1..n /\ n \in Nat /\ \A i \in 1..n : chunks[i] \in RowSets
        BY LenProperties, ElementOfSeq
    <2>2. s \in Seq(Seq(Nat)) /\ Len(s) = n
        <3>1. \A i \in 1..n : chunks[i].frames \in Seq(Nat)
            BY <2>1 DEF RowSets
        <3>2. s = [i \in 1..n |-> chunks[i].frames]
            BY <2>1
        <3> HIDE DEF n
        <3> QED
            BY <2>1, <3>1, <3>2, IsASeq
    <2>3. FramesOf(chunks) = Blackbox!FlattenSeq(s)
        BY DEF FramesOf
    <2>4. FramesOf(chunks) \in Seq(Nat)
        BY <2>2, <2>3, FlattenType
    <2>5. ASSUME NEW rows \in RowSets
          PROVE  FramesOf(Append(chunks, rows)) = FramesOf(chunks) \o rows.frames
        <3> DEFINE t == Append(chunks, rows)
                   u == [i \in DOMAIN t |-> t[i].frames]
        <3>1. /\ t \in Seq(RowSets) /\ Len(t) = n + 1
              /\ \A i \in 1..n : t[i] = chunks[i]
              /\ t[n + 1] = rows
            BY AppendProperties
        <3>2. DOMAIN t = 1..(n + 1)
            BY <3>1, LenProperties
        <3>3. rows.frames \in Seq(Nat)
            BY DEF RowSets
        <3> HIDE DEF t, n
        <3>4. \A i \in 1..n : s[i] = chunks[i].frames
            BY <2>1
        <3> HIDE DEF s
        <3> DEFINE v == Append(s, rows.frames)
        <3>5. /\ v \in Seq(Seq(Nat)) /\ Len(v) = n + 1
              /\ \A i \in 1..n : v[i] = s[i]
              /\ v[n + 1] = rows.frames
            BY <2>2, <3>3, AppendProperties
        <3>6. DOMAIN v = 1..(n + 1) /\ v = [i \in DOMAIN v |-> v[i]]
            BY <3>5, LenProperties
        <3> HIDE DEF v
        <3>7. \A i \in 1..(n + 1) : t[i].frames = v[i]
            <4>1. \A i \in 1..(n + 1) : i \in 1..n \/ i = n + 1
                BY <2>1
            <4> QED
                BY <4>1, <3>1, <3>4, <3>5
        <3>8. u = v
            BY <3>2, <3>6, <3>7
        <3>9. FramesOf(t) = Blackbox!FlattenSeq(v)
            BY <3>8 DEF FramesOf
        <3>10. Blackbox!FlattenSeq(v) = Blackbox!FlattenSeq(s) \o rows.frames
            BY <2>2, <3>3, FlattenAppend DEF v
        <3> QED
            BY <2>3, <3>9, <3>10 DEF t
    <2> QED
        BY <2>4, <2>5
<1> QED
    BY <1>1, <1>2

\* What is appended to the second of two sequences is appended to both.
LEMMA AppendConcat ==
    ASSUME NEW S, NEW a \in Seq(S), NEW b \in Seq(S), NEW x \in S
    PROVE  a \o Append(b, x) = Append(a \o b, x)
<1> DEFINE y == <<x>>
<1>1. y \in Seq(S)
    OBVIOUS
<1>2. Append(b, x) = b \o y
    BY AppendIsConcat
<1>3. a \o b \in Seq(S)
    BY ConcatProperties
<1>4. Append(a \o b, x) = (a \o b) \o y
    BY <1>3, AppendIsConcat
<1> HIDE DEF y
<1>5. (a \o b) \o y = a \o (b \o y)
    BY <1>1, ConcatAssociative
<1> QED
    BY <1>2, <1>4, <1>5

\* A prefix with the next element.
LEMMA PrefixAppend ==
    ASSUME NEW S, NEW a \in Seq(S), NEW b \in Seq(S), NEW f \in Seq(S), NEW n \in Nat
    PROVE  n < Len(f) /\ a \o b = SubSeq(f, 1, n) =>
           a \o Append(b, f[n + 1]) = SubSeq(f, 1, n + 1)
<1>0. SUFFICES ASSUME n < Len(f), a \o b = SubSeq(f, 1, n)
             PROVE  a \o Append(b, f[n + 1]) = SubSeq(f, 1, n + 1)
    OBVIOUS
<1> DEFINE x == f[n + 1]
<1>1. Len(f) \in Nat
    BY LenProperties
<1>2. x \in S
    <2>1. n + 1 \in 1..Len(f)
        BY <1>1, <1>0
    <2>2. x \in S
        BY <2>1, ElementOfSeq
    <2> QED
        BY <2>2
<1>3. SubSeq(f, 1, n + 1) = Append(SubSeq(f, 1, n), x)
    <2> DEFINE p == SubSeq(f, 1, n)
               r == SubSeq(f, 1, n + 1)
    <2>1. /\ p \in Seq(S) /\ Len(p) = n /\ \A i \in 1..n : p[i] = f[i]
          /\ r \in Seq(S) /\ Len(r) = n + 1 /\ \A i \in 1..(n + 1) : r[i] = f[i]
        <3>1. \A i \in 1..(n + 1) : f[i] \in S
            BY <1>1, <1>0, ElementOfSeq
        <3> QED
            BY <1>1, <1>0, <3>1, SubSeqProperties
    <2> HIDE DEF p, r, x
    <2>2. /\ Append(p, x) \in Seq(S) /\ Len(Append(p, x)) = n + 1
          /\ \A i \in 1..n : Append(p, x)[i] = p[i]
          /\ Append(p, x)[n + 1] = x
        BY <1>2, <2>1, AppendProperties
    <2>3. \A i \in 1..(n + 1) : r[i] = Append(p, x)[i]
        <3>1. \A i \in 1..(n + 1) : i \in 1..n \/ i = n + 1
            OBVIOUS
        <3> QED
            BY <2>1, <2>2, <3>1 DEF x
    <2>4. r = Append(p, x)
        BY <2>1, <2>2, <2>3, SeqEqual
    <2> QED
        BY <2>4 DEF p, r
<1> HIDE DEF x
<1>4. a \o Append(b, x) = Append(a \o b, x)
    BY <1>2, AppendConcat
<1> QED
    BY <1>3, <1>4, <1>0 DEF x

\* A sequence that goes on has the same prefixes.
LEMMA PrefixKept ==
    ASSUME NEW f \in Seq(Nat), NEW g \in Seq(Nat), NEW n \in Nat, n <= Len(f), Len(f) <= Len(g),
           \A i \in 1..Len(f) : g[i] = f[i]
    PROVE  SubSeq(g, 1, n) = SubSeq(f, 1, n)
<1> DEFINE p == SubSeq(f, 1, n)
           r == SubSeq(g, 1, n)
<1>1. Len(f) \in Nat /\ Len(g) \in Nat
    BY LenProperties
<1>2. \A i \in 1..n : f[i] \in Nat /\ g[i] \in Nat
    BY <1>1, ElementOfSeq
<1>3. p \in Seq(Nat) /\ Len(p) = n /\ \A i \in 1..n : p[i] = f[i]
    BY <1>1, <1>2, SubSeqProperties
<1>4. r \in Seq(Nat) /\ Len(r) = n /\ \A i \in 1..n : r[i] = g[i]
    <2>1. \A i \in 1..n : g[i] \in Nat
        BY <1>2
    <2>2. /\ r \in Seq(Nat) /\ Len(r) = IF 1 <= n THEN n - 1 + 1 ELSE 0
          /\ \A i \in 1..(n - 1 + 1) : r[i] = g[1 + i - 1]
        BY <2>1, SubSeqProperties
    <2> HIDE DEF r
    <2>3. n - 1 + 1 = n /\ (IF 1 <= n THEN n - 1 + 1 ELSE 0) = n
        OBVIOUS
    <2>4. \A i \in 1..n : 1 + i - 1 = i
        OBVIOUS
    <2>5. \A i \in 1..n : r[i] = g[1 + i - 1]
        BY Zenon, <2>2, <2>3
    <2> QED
        BY Zenon, <2>2, <2>3, <2>4, <2>5
<1> HIDE DEF p, r
<1>5. \A i \in 1..n : p[i] = r[i]
    <2>1. \A i \in 1..n : i \in 1..Len(f)
        BY <1>1
    <2> QED
        BY <2>1, <1>3, <1>4
<1>6. p = r
    BY <1>3, <1>4, <1>5, SeqEqual
<1> QED
    BY <1>6 DEF p, r

LEMMA SessionPrefixKept ==
    ASSUME ThreadTypes, RecordTypes, FlightsAreNumbered, WriterIsInSession, SessionIsPrefix,
           AtItem => Fits(History, SessionState, session.item), Blackbox!Next
    PROVE  SessionIsPrefix'
<1> USE RecorderConstants
<1>1. /\ session \in SessionStates /\ session.rows \in RowSets /\ session.chunks \in Seq(RowSets)
      /\ session.count \in Nat /\ session.item \in Items /\ session.rows.frames \in Seq(Nat)
      /\ session.id # None => session.id \in Blackbox!Flights
    BY DEF RecordTypes, SessionStates, RowSets
<1>2. /\ past.frames \in [Blackbox!Flights -> Seq(Nat)]
      /\ past'.frames \in [Blackbox!Flights -> Seq(Nat)]
    <2>1. RecordTypes'
        BY RecorderTypesKept
    <2> QED
        BY <2>1 DEF RecordTypes, PastStates
\* A session that has the same frames.
<1>3. ASSUME session'.id = session.id, session'.count = session.count,
             FramesOf(session'.chunks) \o session'.rows.frames =
                 FramesOf(session.chunks) \o session.rows.frames
      PROVE  SessionIsPrefix'
    <2> SUFFICES ASSUME session'.id # None
                 PROVE  /\ session'.count <= Len(past'.frames[session'.id])
                        /\ FramesOf(session'.chunks) \o session'.rows.frames =
                               SubSeq(past'.frames[session'.id], 1, session'.count)
        BY DEF SessionIsPrefix
    <2> DEFINE f == past.frames[session.id]
               g == past'.frames[session.id]
               n == session.count
    <2>1. session.id # None /\ session.id \in Blackbox!Flights
        BY <1>1, <1>3
    <2>2. f \in Seq(Nat) /\ g \in Seq(Nat) /\ n \in Nat /\ Len(f) \in Nat /\ Len(g) \in Nat
        BY <1>1, <1>2, <2>1, LenProperties
    <2>3. n <= Len(f) /\ FramesOf(session.chunks) \o session.rows.frames = SubSeq(f, 1, n)
        BY <2>1 DEF SessionIsPrefix
    <2>4. Len(f) <= Len(g) /\ \A i \in 1..Len(f) : g[i] = f[i]
        BY <2>1, HistoryContinues DEF Continues, History
    <2>5. session'.id = session.id /\ session'.count = n
        BY <1>3
    <2>6. past'.frames[session'.id] = g
        BY <2>5
    <2> HIDE DEF f, g, n
    <2>7. SubSeq(g, 1, n) = SubSeq(f, 1, n) /\ n <= Len(g)
        BY <2>2, <2>3, <2>4, PrefixKept
    <2> QED
        BY <1>3, <2>3, <2>5, <2>6, <2>7
<1>4. CASE session' = session
    BY <1>3, <1>4
<1>5. CASE session' = Blackbox!NoSession
    BY <1>5, NoSessionFields DEF SessionIsPrefix
<1>6. CASE Blackbox!MainStep \/ Blackbox!OdometryStep
    BY <1>4, <1>6, LoopLeavesWriter
<1>7. CASE Blackbox!Get \/ Blackbox!BeginFinish \/ Blackbox!WriteStream
           \/ (Blackbox!AppendRow /\ writer' = "write")
    <2>1. /\ session'.id = session.id /\ session'.rows = session.rows
          /\ session'.chunks = session.chunks /\ session'.count = session.count
        BY <1>7, SessionEffect
    <2> QED
        BY <2>1, <1>3
<1>8. CASE Blackbox!ListChunk
    <2>1. /\ session'.id = session.id /\ session'.count = session.count
          /\ session'.rows = Blackbox!NoSession.rows
          /\ session'.chunks = Append(session.chunks, session.rows)
        BY <1>8, SessionEffect
    <2> DEFINE a == FramesOf(session.chunks)
               c == Append(session.chunks, session.rows)
    <2>2. FramesOf(c) = a \o session.rows.frames /\ a \in Seq(Nat)
        BY <1>1, FramesOfChunks
    <2>3. a \o session.rows.frames \in Seq(Nat)
        BY <1>1, <2>2, ConcatProperties
    <2> HIDE DEF a, c
    <2>4. FramesOf(c) \o <<>> = a \o session.rows.frames
        BY <2>2, <2>3, ConcatEmptySeq
    <2>5. session'.rows.frames = <<>> /\ session'.chunks = c
        BY <2>1, NoSessionFields DEF c
    <2>6. FramesOf(session'.chunks) \o session'.rows.frames = a \o session.rows.frames
        BY <2>4, <2>5
    <2> QED
        BY <1>3, <2>1, <2>6 DEF a
<1>9. CASE Blackbox!FirstMetadata
    <2>1. /\ session'.id = session.item.id /\ session'.rows.frames = <<>>
          /\ session'.chunks = <<>> /\ session'.count = 0
        BY <1>9, SessionEffect
    <2>2. session.item.id \in Blackbox!Flights
        BY <1>1, <1>9, ItemTypes DEF Blackbox!FirstMetadata, WriterIsInSession
    <2> DEFINE g == past'.frames[session.item.id]
    <2>3. g \in Seq(Nat) /\ Len(g) \in Nat /\ past'.frames[session'.id] = g
        BY <1>2, <2>1, <2>2, LenProperties
    <2> HIDE DEF g
    <2>4. SubSeq(g, 1, 0) = <<>>
        BY SubSeqEmpty
    <2>5. <<>> \o <<>> = <<>>
        BY EmptySeq, ConcatEmptySeq
    <2>6. FramesOf(session'.chunks) \o session'.rows.frames = <<>>
        BY <2>1, <2>5, FramesOfChunks
    <2>7. 0 <= Len(g)
        BY <2>3
    <2> QED
        BY <2>1, <2>3, <2>4, <2>6, <2>7 DEF SessionIsPrefix
<1>10. CASE Blackbox!AppendRow /\ writer' # "write"
    <2>1. session'.id = session.id /\ session'.chunks = session.chunks
        BY <1>10, AppendEffect
    <2>2. past' = past /\ writer = "append"
        BY <1>10 DEF Blackbox!AppendRow
    <2>3. CASE session.item.kind # "frame"
        <3>1. session'.rows.frames = session.rows.frames /\ session'.count = session.count
            BY <1>10, <2>3, AppendEffect
        <3> QED
            BY <1>3, <2>1, <3>1
    <2>4. CASE session.item.kind = "frame"
        <3>1. /\ session'.rows.frames = Append(session.rows.frames, session.item.row)
              /\ session'.count = session.count + 1
            BY <1>10, <2>4, AppendEffect
        <3>2. session.id # None /\ session.id \in Blackbox!Flights
            BY <2>2, <1>1 DEF WriterIsInSession
        <3> DEFINE f == past.frames[session.id]
                   n == session.count
                   a == FramesOf(session.chunks)
                   b == session.rows.frames
        <3>3. n < Len(f) /\ f[n + 1] = session.item.row
            BY <2>2, <2>4, <3>2 DEF AtItem, Fits, History, SessionState
        <3>4. a \o b = SubSeq(f, 1, n)
            BY <3>2 DEF SessionIsPrefix
        <3>5. /\ f \in Seq(Nat) /\ n \in Nat /\ a \in Seq(Nat) /\ b \in Seq(Nat) /\ Len(f) \in Nat
              /\ past'.frames[session'.id] = f
            BY <1>1, <1>2, <2>1, <2>2, <3>2, FramesOfChunks, LenProperties
        <3>6. /\ FramesOf(session'.chunks) = a /\ session'.rows.frames = Append(b, f[n + 1])
              /\ session'.count = n + 1
            BY <2>1, <3>1, <3>3
        <3> HIDE DEF f, n, a, b
        <3>7. a \o Append(b, f[n + 1]) = SubSeq(f, 1, n + 1)
            <4> DEFINE Rows == Nat
            <4>1. f \in Seq(Rows) /\ a \in Seq(Rows) /\ b \in Seq(Rows)
                BY <3>5
            <4>2. n \in Nat /\ n < Len(f)
                BY <3>3, <3>5
            <4> HIDE DEF Rows
            <4>3. n < Len(f) /\ a \o b = SubSeq(f, 1, n) =>
                     a \o Append(b, f[n + 1]) = SubSeq(f, 1, n + 1)
                BY <4>1, <4>2, PrefixAppend
            <4> QED
                BY Zenon, <3>4, <4>2, <4>3
        <3>8. n + 1 <= Len(f)
            BY <3>3, <3>5
        <3>9. session'.count <= Len(past'.frames[session'.id])
            BY <3>5, <3>6, <3>8
        <3>10. FramesOf(session'.chunks) \o session'.rows.frames =
                  SubSeq(past'.frames[session'.id], 1, session'.count)
            BY Zenon, <3>5, <3>6, <3>7
        <3> QED
            BY <3>9, <3>10 DEF SessionIsPrefix
    <2> QED
        BY <2>3, <2>4
<1>11. CASE Blackbox!Close \/ Blackbox!WriteFails \/ Blackbox!Crash
    BY <1>5, <1>11 DEF Blackbox!Close, Blackbox!WriteFails, Blackbox!Crash
<1>12. CASE \/ Blackbox!MakeDirectory \/ Blackbox!Recover \/ Blackbox!RecoverFails
            \/ Blackbox!Start \/ Blackbox!Stopped
    <2>1. session' = session
        BY Zenon, <1>12 DEF Blackbox!MakeDirectory, Blackbox!Recover, Blackbox!RecoverFails, Blackbox!Start,
           Blackbox!Stopped, Blackbox!vars, Blackbox!writeVars
    <2> QED
        BY <2>1, <1>4
<1> QED
    BY <1>6, <1>7, <1>8, <1>9, <1>10, <1>11, <1>12 DEF Blackbox!Next, Blackbox!WriterStep

----------------------------------------------------------------------------
(* The steps of the recorder: starts are put once.                            *)

\* Only the start of a flight puts a start into the queue.
LEMMA QueueStarts ==
    ASSUME ThreadTypes, RecordTypes, FlightsAreNumbered, Blackbox!Next, ~ Blackbox!PutStart,
           StartsAreDistinct(queue)
    PROVE  StartIds(queue') \subseteq StartIds(queue) /\ StartsAreDistinct(queue')
<1> USE RecorderConstants
<1>1. queue \in Seq(Items)
    BY DEF RecordTypes
<1>2. ASSUME NEW item \in Items, item.kind # "start", NEW q \in Seq(Items),
             StartIds(q) \subseteq StartIds(queue), StartsAreDistinct(q)
      PROVE  /\ Append(q, item) \in Seq(Items)
             /\ StartIds(Append(q, item)) \subseteq StartIds(queue)
             /\ StartsAreDistinct(Append(q, item))
    BY <1>2, StartsAppended, AppendProperties
<1>3. CASE Blackbox!Record
    <2> DEFINE item == Blackbox!Frame(sample_index)
    <2>1. item \in Items /\ item.kind # "start"
        BY ItemsArePut DEF ThreadTypes, Blackbox!Frame
    <2>2. Blackbox!PutFrame(item)
        BY <1>3 DEF Blackbox!Record
    <2> HIDE DEF item
    <2>3. CASE queue' = Append(queue, item)
        BY <2>1, <2>3, <1>1, <1>2
    <2>4. ASSUME NEW k \in 1..Len(queue), queue' = Append(Blackbox!RemoveAt(queue, k), item)
          PROVE  StartIds(queue') \subseteq StartIds(queue) /\ StartsAreDistinct(queue')
        <3> DEFINE t == Blackbox!RemoveAt(queue, k)
        <3>1. t \in Seq(Items) /\ StartIds(t) \subseteq StartIds(queue) /\ StartsAreDistinct(t)
            BY <1>1, StartsRemoved, RemoveAtProperties
        <3>2. queue' = Append(t, item)
            BY <2>4
        <3> HIDE DEF t
        <3> QED
            BY <2>1, <3>1, <3>2, <1>2
    <2>5. CASE queue' = queue
        BY <2>5
    <2> QED
        BY <2>2, <2>3, <2>4, <2>5, <1>1, PutFrameEffect
<1>4. CASE Blackbox!PutEnd
    <2>1. /\ Blackbox!EndFlight(session_id, TRUE) \in Items
          /\ Blackbox!EndFlight(session_id, TRUE).kind # "start"
        BY <1>4, ItemsArePut DEF Blackbox!PutEnd, ThreadTypes, FlightsAreNumbered, Blackbox!EndFlight
    <2>2. queue' = Append(queue, Blackbox!EndFlight(session_id, TRUE))
        BY <1>4 DEF Blackbox!PutEnd
    <2> QED
        BY <2>1, <2>2, <1>1, <1>2
<1>5. CASE Blackbox!Stop
    <2> DEFINE e == Blackbox!EndFlight(session_id, FALSE)
               x == Blackbox!StopWriter
    <2>1. session_id \in Blackbox!Flights \/ ~ flight_active
        BY DEF ThreadTypes, FlightsAreNumbered
    <2>2. x \in Items /\ (flight_active => e \in Items)
        BY <2>1, ItemsArePut
    <2>3. e.kind # "start" /\ x.kind # "start"
        BY DEF Blackbox!EndFlight, Blackbox!StopWriter
    <2>4. queue' = IF flight_active THEN Append(Append(queue, e), x) ELSE Append(queue, x)
        BY <1>1, <1>5, <2>1, StopItemsAreAppended DEF Blackbox!Stop
    <2> HIDE DEF e, x
    <2>5. CASE flight_active
        <3> DEFINE q == Append(queue, e)
        <3>1. q \in Seq(Items) /\ StartIds(q) \subseteq StartIds(queue) /\ StartsAreDistinct(q)
            BY <1>1, <1>2, <2>2, <2>3, <2>5
        <3>2. queue' = Append(q, x)
            BY <2>4, <2>5
        <3> HIDE DEF q
        <3> QED
            BY <1>2, <2>2, <2>3, <3>1, <3>2
    <2>6. CASE ~ flight_active
        BY <1>1, <1>2, <2>2, <2>3, <2>4, <2>6
    <2> QED
        BY <2>5, <2>6
<1>6. CASE Blackbox!OdometryPut
    <2>1. /\ Blackbox!Odometry(odo.start) \in Items
          /\ Blackbox!Odometry(odo.start).kind # "start"
        BY ItemsArePut DEF ThreadTypes, Blackbox!Odometry
    <2>2. queue' = queue \/ queue' = Append(queue, Blackbox!Odometry(odo.start))
        BY <1>6 DEF Blackbox!OdometryPut
    <2>3. CASE queue' = Append(queue, Blackbox!Odometry(odo.start))
        BY <2>1, <2>3, <1>1, <1>2
    <2>4. CASE queue' = queue
        BY <2>4
    <2> QED
        BY <2>2, <2>3, <2>4
<1>7. CASE Blackbox!Get
    <2>1. queue # <<>> /\ queue' = Tail(queue)
        BY <1>7 DEF Blackbox!Get
    <2> QED
        BY <2>1, <1>1, StartsTaken
<1>8. CASE Blackbox!Crash
    <2>1. queue' = <<>>
        BY <1>8 DEF Blackbox!Crash
    <2> QED
        BY <2>1, NoStarts
<1>9. CASE \/ Blackbox!BeginFlight \/ Blackbox!ResetSamples \/ Blackbox!CaptureFails
           \/ Blackbox!Disarm \/ Blackbox!OdometryCheck \/ Blackbox!OdometryRow
           \/ Blackbox!WriteFails \/ Blackbox!Recover \/ Blackbox!RecoverFails \/ Blackbox!Start
           \/ Blackbox!Stopped \/ (Blackbox!WriterStep /\ ~ Blackbox!Get)
    <2>1. queue' = queue
        BY Zenon, <1>9, WriterLeavesLoop DEF Blackbox!BeginFlight, Blackbox!ResetSamples,
           Blackbox!CaptureFails, Blackbox!Disarm, Blackbox!OdometryCheck, Blackbox!OdometryRow,
           Blackbox!WriteFails, Blackbox!Recover, Blackbox!RecoverFails, Blackbox!Start,
           Blackbox!Stopped, Blackbox!vars
    <2> QED
        BY <2>1
<1> QED
    BY <1>3, <1>4, <1>5, <1>6, <1>7, <1>8, <1>9
    DEF Blackbox!Next, Blackbox!MainStep, Blackbox!OdometryStep

\* A directory stays new but for the first metadata of its session.
LEMMA NewDirectoriesKept ==
    ASSUME RecordTypes, WriterIsInSession, Blackbox!Next, NEW s \in Blackbox!Flights, IsNew(s)
    PROVE  IsNew(s)' \/ (Blackbox!FirstMetadata /\ s = session.item.id)
<1>1. disk[s] \in Directories
    BY DEF RecordTypes, DiskStates
<1>2. disk[s].status = None /\ disk[s].chunks = <<>> /\ disk[s].reason = None
    BY DEF IsNew
<1>3. s # session.id
    <2>1. session.id = s => disk[s].status = "recording"
        BY RecorderConstants DEF WriterIsInSession
    <2> QED
        BY <2>1, <1>2, RecorderConstants
<1>4. CASE disk'[s] = disk[s]
    BY <1>4 DEF IsNew
<1>5. CASE Blackbox!MakeDirectory
    <2>1. Changes(session.item.id, [disk[session.item.id] EXCEPT !.dir = TRUE])
        BY <1>5, DiskEffect
    <2>2. disk'[s] \in {disk[s], [disk[s] EXCEPT !.dir = TRUE]}
        BY <2>1 DEF Changes
    <2>3. disk'[s].status = None /\ disk'[s].chunks = <<>> /\ disk'[s].reason = None
        BY <2>2, <1>1, <1>2 DEF Directories
    <2> QED
        BY <2>3 DEF IsNew
<1>6. CASE Blackbox!FirstMetadata
    <2>1. Changes(session.item.id, [disk[session.item.id] EXCEPT !.status = "recording"])
        BY <1>6, DiskEffect
    <2>2. s # session.item.id => disk'[s] = disk[s]
        BY <2>1 DEF Changes
    <2> QED
        BY <2>2, <1>4, <1>6
<1>7. CASE Blackbox!WriteStream \/ Blackbox!ListChunk \/ Blackbox!Close \/ Blackbox!WriteFails
    <2>1. disk' = disk \/ \E d : Changes(session.id, d)
        <3>1. CASE Blackbox!WriteStream
            BY <3>1, DiskEffect
        <3>2. CASE Blackbox!ListChunk
            BY <3>2, DiskEffect
        <3>3. CASE Blackbox!Close
            BY <3>3, DiskEffect
        <3>4. CASE Blackbox!WriteFails
            BY <3>4, DiskEffect
        <3> QED
            BY <1>7, <3>1, <3>2, <3>3, <3>4
    <2>2. disk'[s] = disk[s]
        BY <2>1, <1>3 DEF Changes
    <2> QED
        BY <2>2, <1>4
<1>8. CASE Blackbox!Crash
    <2>1. disk' = disk \/
             Changes(Blackbox!Writing, [disk[Blackbox!Writing] EXCEPT !.tmp = TRUE])
        BY <1>8, DiskEffect
    <2>2. disk'[s] \in {disk[s], [disk[s] EXCEPT !.tmp = TRUE]}
        BY <2>1 DEF Changes
    <2>3. disk'[s].status = None /\ disk'[s].chunks = <<>> /\ disk'[s].reason = None
        BY <2>2, <1>1, <1>2 DEF Directories
    <2> QED
        BY <2>3 DEF IsNew
<1>9. CASE Blackbox!Recover \/ Blackbox!RecoverFails
    <2>1. PICK x \in Blackbox!Flights : /\ disk[x].status = "recording"
                                        /\ \E d : Changes(x, d)
        BY <1>9, DiskEffect
    <2>2. s # x
        BY <2>1, <1>2, RecorderConstants
    <2>3. disk'[s] = disk[s]
        BY <2>1, <2>2 DEF Changes
    <2> QED
        BY <2>3, <1>4
<1>10. CASE \/ Blackbox!MainStep \/ Blackbox!OdometryStep \/ Blackbox!Get \/ Blackbox!AppendRow
            \/ Blackbox!BeginFinish \/ Blackbox!Start \/ Blackbox!Stopped
    BY <1>4, <1>10, DiskEffect
<1> QED
    BY <1>5, <1>6, <1>7, <1>8, <1>9, <1>10 DEF Blackbox!Next, Blackbox!WriterStep

\* What a step changes in the history and in the count of the flights.
LEMMA HistoryEffect ==
    ASSUME RecordTypes, Blackbox!Next
    PROVE  /\ flights' \in {flights, flights + 1}
           /\ Blackbox!Start \/ past'.earlier = past.earlier
           /\ \A s \in Blackbox!Flights :
                 past'.frames[s] = past.frames[s] \/ (Blackbox!Record /\ s = session_id)
           /\ \A s \in Blackbox!Flights :
                 past'.drops[s] = past.drops[s] \/ (Blackbox!PutEnd /\ s = session_id)
<1>1. past \in PastStates
    BY DEF RecordTypes
<1>2. CASE past' = past /\ flights' \in {flights, flights + 1}
    BY <1>2
<1>3. CASE Blackbox!PutStart
    <2>1. flights' = flights /\ past' = [past EXCEPT !.dropped = dropped_frames]
        BY <1>3 DEF Blackbox!PutStart, Blackbox!countVars
    <2> QED
        BY <1>1, <2>1 DEF PastStates
<1>4. CASE Blackbox!Record
    <2> DEFINE f == [past.frames EXCEPT ![session_id] = Append(@, sample_index)]
    <2>1. flights' = flights /\ past' \in {past, [past EXCEPT !.frames = f]}
        BY <1>4 DEF Blackbox!Record, Blackbox!countVars
    <2>2. \A s \in Blackbox!Flights : s = session_id \/ f[s] = past.frames[s]
        BY <1>1 DEF PastStates
    <2> HIDE DEF f
    <2>3. /\ past'.earlier = past.earlier /\ past'.drops = past.drops
          /\ past'.frames \in {past.frames, f}
        BY <1>1, <2>1 DEF PastStates
    <2> QED
        BY <1>4, <2>1, <2>2, <2>3
<1>5. CASE Blackbox!PutEnd
    <2> DEFINE n == dropped_frames - past.dropped
               d == [past.drops EXCEPT ![session_id] = n]
    <2>1. flights' = flights /\ past' = [past EXCEPT !.drops = d]
        BY <1>5 DEF Blackbox!PutEnd, Blackbox!countVars
    <2>2. \A s \in Blackbox!Flights : s = session_id \/ d[s] = past.drops[s]
        BY <1>1 DEF PastStates
    <2> HIDE DEF d
    <2>3. past'.earlier = past.earlier /\ past'.frames = past.frames /\ past'.drops = d
        BY <1>1, <2>1 DEF PastStates
    <2> QED
        BY <1>5, <2>1, <2>2, <2>3
<1>6. CASE Blackbox!Get
    BY <1>6, GetKeepsHistory DEF Blackbox!Get, Blackbox!countVars
<1>7. CASE Blackbox!Start
    <2>1. flights' = flights /\ past' = [past EXCEPT !.earlier = flights]
        BY <1>7 DEF Blackbox!Start, Blackbox!countVars
    <2>2. past'.frames = past.frames /\ past'.drops = past.drops
        BY <1>1, <2>1 DEF PastStates
    <2> QED
        BY <1>7, <2>1, <2>2
<1>8. CASE \/ Blackbox!BeginFlight \/ Blackbox!ResetSamples \/ Blackbox!CaptureFails
           \/ Blackbox!Disarm \/ Blackbox!Stop \/ Blackbox!OdometryStep \/ Blackbox!WriteFails
           \/ Blackbox!Crash \/ Blackbox!Recover \/ Blackbox!RecoverFails \/ Blackbox!Stopped
           \/ (Blackbox!WriterStep /\ ~ Blackbox!Get)
    <2>1. past' = past /\ (flights' = flights \/ flights' = flights + 1)
        BY Zenon, <1>8, WriterLeavesLoop DEF Blackbox!BeginFlight, Blackbox!ResetSamples,
           Blackbox!CaptureFails, Blackbox!Disarm, Blackbox!Stop, Blackbox!OdometryStep,
           Blackbox!OdometryCheck, Blackbox!OdometryRow, Blackbox!OdometryPut,
           Blackbox!WriteFails, Blackbox!Crash, Blackbox!Recover, Blackbox!RecoverFails,
           Blackbox!Stopped, Blackbox!vars, Blackbox!countVars
    <2> QED
        BY <2>1, <1>2
<1> QED
    BY <1>3, <1>4, <1>5, <1>6, <1>7, <1>8 DEF Blackbox!Next, Blackbox!MainStep

\* How the writer comes to the start of a session, and the loop to that of a flight.
LEMMA StartsBegin ==
    ASSUME RecordTypes, DownIsEmpty, Blackbox!Next
    PROVE  /\ writer' \in {"mkdir", "meta"} =>
                /\ ~ Blackbox!FirstMetadata /\ ~ Blackbox!Start
                /\ \/ /\ Blackbox!Get /\ Head(queue).kind = "start" /\ queue # <<>>
                      /\ session'.item = Head(queue) /\ queue' = Tail(queue)
                   \/ writer \in {"mkdir", "meta"} /\ session'.item = session.item
           /\ recorder' \in {"reset", "start"} =>
                /\ ~ Blackbox!PutStart /\ ~ Blackbox!Record /\ ~ Blackbox!Start
                /\ \/ Blackbox!BeginFlight
                   \/ recorder \in {"reset", "start"} /\ session_id' = session_id
<1>1. ASSUME writer' \in {"mkdir", "meta"}
      PROVE  /\ ~ Blackbox!FirstMetadata /\ ~ Blackbox!Start
             /\ \/ /\ Blackbox!Get /\ Head(queue).kind = "start" /\ queue # <<>>
                   /\ session'.item = Head(queue) /\ queue' = Tail(queue)
                \/ writer \in {"mkdir", "meta"} /\ session'.item = session.item
    <2>1. ~ Blackbox!FirstMetadata /\ ~ Blackbox!Start
        BY <1>1 DEF Blackbox!FirstMetadata, Blackbox!Start
    <2>2. CASE Blackbox!Get
        <3>1. /\ queue # <<>> /\ writer' = Blackbox!Taken(Head(queue)) /\ session'.item = Head(queue)
              /\ queue' = Tail(queue)
            BY <2>2, SessionEffect DEF Blackbox!Get
        <3>2. Head(queue) \in Items
            BY <3>1, HeadTailProperties DEF RecordTypes
        <3>3. Blackbox!Taken(Head(queue)) = "mkdir"
            BY <1>1, <3>1, <3>2, TakenValue
        <3> QED
            BY <2>1, <2>2, <3>1, <3>2, <3>3, TakenValue
    <2>3. CASE Blackbox!MakeDirectory
        BY <2>1, <2>3 DEF Blackbox!MakeDirectory
    <2>4. CASE Blackbox!MainStep \/ Blackbox!OdometryStep
        BY <1>1, <2>1, <2>4, LoopLeavesWriter
    <2>5. CASE Blackbox!Recover \/ Blackbox!RecoverFails \/ Blackbox!Stopped
        <3>1. UNCHANGED <<writer, session>>
            BY Zenon, <2>5 DEF Blackbox!Recover, Blackbox!RecoverFails, Blackbox!Stopped, Blackbox!vars, Blackbox!writeVars
        <3> QED
            BY <1>1, <2>1, <3>1
    <2>6. ~ (\/ Blackbox!AppendRow \/ Blackbox!BeginFinish \/ Blackbox!WriteStream \/ Blackbox!ListChunk
             \/ Blackbox!Close \/ Blackbox!WriteFails \/ Blackbox!Crash)
        BY <1>1 DEF Blackbox!AppendRow, Blackbox!BeginFinish, Blackbox!WriteStream,
           Blackbox!ListChunk, Blackbox!Close, Blackbox!WriteFails, Blackbox!Crash
    <2> QED
        BY <2>1, <2>2, <2>3, <2>4, <2>5, <2>6 DEF Blackbox!Next, Blackbox!WriterStep
<1>2. ASSUME recorder' \in {"reset", "start"}
      PROVE  /\ ~ Blackbox!PutStart /\ ~ Blackbox!Record /\ ~ Blackbox!Start
             /\ \/ Blackbox!BeginFlight
                \/ recorder \in {"reset", "start"} /\ session_id' = session_id
    <2>1. /\ ~ Blackbox!PutStart /\ ~ Blackbox!Record /\ ~ Blackbox!Start
          /\ ~ Blackbox!CaptureFails /\ ~ Blackbox!Disarm /\ ~ Blackbox!PutEnd /\ ~ Blackbox!Stop
          /\ ~ Blackbox!Crash
        BY <1>2 DEF Blackbox!PutStart, Blackbox!Record, Blackbox!Start, Blackbox!CaptureFails,
           Blackbox!Disarm, Blackbox!PutEnd, Blackbox!Stop, Blackbox!Crash
    <2>2. CASE Blackbox!ResetSamples
        BY <2>1, <2>2 DEF Blackbox!ResetSamples
    <2>3. CASE \/ Blackbox!OdometryStep \/ Blackbox!WriterStep \/ Blackbox!WriteFails
               \/ Blackbox!Recover \/ Blackbox!RecoverFails \/ Blackbox!Stopped
        <3>1. UNCHANGED <<recorder, session_id>>
            BY Zenon, <2>3, WriterLeavesLoop DEF Blackbox!OdometryStep, Blackbox!OdometryCheck,
               Blackbox!OdometryRow, Blackbox!OdometryPut, Blackbox!WriteFails, Blackbox!Recover,
               Blackbox!RecoverFails, Blackbox!Stopped, Blackbox!vars, Blackbox!appVars
        <3> QED
            BY <1>2, <2>1, <3>1
    <2> QED
        BY <2>1, <2>2, <2>3 DEF Blackbox!Next, Blackbox!MainStep
<1> QED
    BY <1>1, <1>2

LEMMA StartsKept ==
    ASSUME ThreadTypes, RecordTypes, FlightsAreNumbered, DownIsEmpty, WriterIsInSession, StartsAreNew,
           Blackbox!Next
    PROVE  StartsAreNew'
<1> USE RecorderConstants
<1>1. /\ past.earlier \in Nat /\ flights \in Nat /\ queue \in Seq(Items)
      /\ session.item \in Items /\ session_id \in {None, flights}
      /\ \A s \in Blackbox!Flights : s \in Nat
    BY DEF ThreadTypes, RecordTypes, PastStates, SessionStates, FlightsAreNumbered, Blackbox!Flights
<1>2. /\ flights' \in {flights, flights + 1} /\ (Blackbox!Start \/ past'.earlier = past.earlier)
      /\ \A s \in Blackbox!Flights :
            past'.frames[s] = past.frames[s] \/ (Blackbox!Record /\ s = session_id)
    BY HistoryEffect
<1>3. flights' >= flights /\ \A e : e \in (past.earlier + 1)..flights => e <= flights
    BY <1>1, <1>2
\* What the invariant says, part by part.
<1>4. \A s \in Blackbox!Flights : s > flights => IsNew(s) /\ past.frames[s] = <<>>
    BY DEF StartsAreNew
<1>5. /\ StartsAreDistinct(queue)
      /\ \A s \in StartIds(queue) : s \in (past.earlier + 1)..flights /\ IsNew(s)
    BY DEF StartsAreNew
<1>6. writer \in {"mkdir", "meta"} =>
         /\ session.item.id \in (past.earlier + 1)..flights /\ IsNew(session.item.id)
         /\ session.item.id \notin StartIds(queue)
    BY DEF StartsAreNew
<1>7. recorder \in {"reset", "start"} =>
         /\ IsNew(session_id) /\ past.frames[session_id] = <<>>
         /\ session_id \notin StartIds(queue)
         /\ writer \in {"mkdir", "meta"} => session.item.id # session_id
    BY DEF StartsAreNew
<1>8. ASSUME NEW s \in Blackbox!Flights, IsNew(s), ~ Blackbox!FirstMetadata \/ s # session.item.id
      PROVE  IsNew(s)'
    BY <1>8, NewDirectoriesKept
<1>9. Blackbox!FirstMetadata => writer = "meta" /\ queue' = queue
    BY DEF Blackbox!FirstMetadata
<1>10. \A e \in (past.earlier + 1)..flights : e \in Blackbox!Flights
    BY <1>1 DEF ThreadTypes, Blackbox!Flights
<1>11. ~ Blackbox!PutStart => StartIds(queue') \subseteq StartIds(queue) /\ StartsAreDistinct(queue')
    BY <1>5, QueueStarts
<1>12. Blackbox!PutStart =>
          /\ recorder = "start" /\ session_id # None /\ session_id \in Blackbox!Flights
          /\ queue' = Append(queue, Blackbox!StartFlight(session_id))
          /\ UNCHANGED <<writer, session, disk, flights, session_id>>
    BY Zenon DEF Blackbox!PutStart, FlightsAreNumbered, ThreadTypes, Blackbox!writeVars,
       Blackbox!countVars
\* Flights to come.
<1>13. ASSUME NEW s \in Blackbox!Flights, s > flights'
       PROVE  IsNew(s)' /\ past'.frames[s] = <<>>
    <2>1. s > flights
        BY <1>1, <1>2, <1>13
    <2>2. IsNew(s) /\ past.frames[s] = <<>>
        BY <2>1, <1>4
    <2>3. Blackbox!FirstMetadata => s # session.item.id
        BY <2>1, <1>1, <1>3, <1>6, <1>9
    <2>4. s # session_id
        BY <2>1, <1>1
    <2> QED
        BY <2>2, <2>3, <2>4, <1>2, <1>8
\* The starts in the queue.
<1>14. StartsAreDistinct(queue') /\
       \A s \in StartIds(queue') : s \in (past'.earlier + 1)..flights' /\ IsNew(s)'
    <2>1. ASSUME NEW s \in StartIds(queue)
          PROVE  /\ IsNew(s)'
                 /\ ~ Blackbox!Start => s \in (past'.earlier + 1)..flights'
        <3>1. s \in (past.earlier + 1)..flights /\ IsNew(s)
            BY <1>5
        <3>2. s \in Blackbox!Flights /\ (Blackbox!FirstMetadata => s # session.item.id)
            BY <3>1, <1>6, <1>9, <1>10
        <3>3. IsNew(s)'
            BY <3>1, <3>2, <1>8
        <3>4. ~ Blackbox!Start => s \in (past'.earlier + 1)..flights'
            BY <3>1, <1>1, <1>2
        <3> QED
            BY <3>3, <3>4
    <2>2. CASE Blackbox!PutStart
        <3> DEFINE item == Blackbox!StartFlight(session_id)
        <3>1. item \in Items /\ item.kind = "start" /\ item.id = session_id
            BY <1>12, <2>2, ItemsArePut DEF ThreadTypes, Blackbox!StartFlight
        <3>2. queue' = Append(queue, item) /\ session_id \notin StartIds(queue)
            BY <1>7, <1>12, <2>2
        <3> HIDE DEF item
        <3>3. /\ StartIds(queue') = StartIds(queue) \cup {session_id}
              /\ StartsAreDistinct(queue')
            BY <3>1, <3>2, <1>1, <1>5, StartsAppended
        <3>4. IsNew(session_id)' /\ session_id \in (past'.earlier + 1)..flights'
            <4>1. IsNew(session_id) /\ disk' = disk /\ session_id' = session_id
                BY <1>7, <1>12, <2>2
            <4>2. past.earlier < session_id /\ session_id = flights /\ flights' = flights
                BY <1>1, <1>12, <2>2 DEF FlightsAreNumbered
            <4>3. ~ Blackbox!Start
                BY <1>12, <2>2 DEF Blackbox!Start
            <4>4. session_id \in (past'.earlier + 1)..flights'
                BY <4>2, <4>3, <1>1, <1>2
            <4> QED
                BY <4>1, <4>4 DEF IsNew
        <3>5. ~ Blackbox!Start /\ disk' = disk /\ session_id' = session_id
            BY <1>12, <2>2 DEF Blackbox!Start
        <3>6. IsNew(session_id)' <=> disk'[session_id].status = None /\ disk'[session_id].chunks = <<>>
                                     /\ disk'[session_id].reason = None
            BY <3>5 DEF IsNew
        <3>7. ASSUME NEW s \in StartIds(queue')
              PROVE  s \in (past'.earlier + 1)..flights' /\ IsNew(s)'
            <4>1. CASE s \in StartIds(queue)
                BY <4>1, <3>5, <2>1
            <4>2. CASE s = session_id
                <5>1. IsNew(s)'
                    BY <4>2, <3>4, <3>6 DEF IsNew
                <5> QED
                    BY <4>2, <3>4, <5>1
            <4> QED
                BY <4>1, <4>2, <3>3
        <3> QED
            BY <3>3, <3>7
    <2>3. CASE ~ Blackbox!PutStart
        <3>1. StartIds(queue') \subseteq StartIds(queue) /\ StartsAreDistinct(queue')
            BY <1>11, <2>3
        <3>2. Blackbox!Start => StartIds(queue') = {}
            <4> SUFFICES ASSUME Blackbox!Start PROVE StartIds(queue') = {}
                OBVIOUS
            <4>1. queue = <<>>
                BY DEF Blackbox!Start, DownIsEmpty
            <4>2. StartIds(queue) = {}
                BY <4>1, NoStarts
            <4> QED
                BY <3>1, <4>2
        <3>3. ASSUME NEW s \in StartIds(queue')
              PROVE  s \in (past'.earlier + 1)..flights' /\ IsNew(s)'
            BY <3>1, <3>2, <2>1
        <3> QED
            BY <3>1, <3>3
    <2> QED
        BY <2>2, <2>3
\* The start the writer is at.
<1>15. ASSUME writer' \in {"mkdir", "meta"}
       PROVE  /\ session'.item.id \in (past'.earlier + 1)..flights'
              /\ IsNew(session.item.id)'
              /\ session'.item.id \notin StartIds(queue')
    <2>1. ~ Blackbox!FirstMetadata /\ ~ Blackbox!Start
        BY <1>15, StartsBegin
    <2>2. ASSUME NEW s, s \in (past.earlier + 1)..flights, IsNew(s), s = session'.item.id
          PROVE  /\ session'.item.id \in (past'.earlier + 1)..flights'
                 /\ IsNew(session.item.id)'
        <3>1. IsNew(s)'
            BY <2>1, <2>2, <1>8, <1>10
        <3>2. s \in (past'.earlier + 1)..flights'
            BY <2>1, <2>2, <1>1, <1>2
        <3>3. IsNew(session.item.id)'
            BY <2>2, <3>1 DEF IsNew
        <3> QED
            BY <2>2, <3>2, <3>3
    <2>3. CASE /\ Blackbox!Get /\ Head(queue).kind = "start" /\ queue # <<>>
               /\ session'.item = Head(queue) /\ queue' = Tail(queue)
        <3>1. Head(queue).id \in StartIds(queue) /\ Head(queue).id \notin StartIds(queue')
            BY <2>3, <1>1, <1>5, StartsTaken
        <3>2. Head(queue).id \in (past.earlier + 1)..flights /\ IsNew(Head(queue).id)
            BY <3>1, <1>5
        <3>3. Head(queue).id = session'.item.id
            BY <2>3
        <3> DEFINE s == Head(queue).id
        <3> HIDE DEF s
        <3>4. s \in (past.earlier + 1)..flights /\ IsNew(s) /\ s = session'.item.id
            BY <3>2, <3>3 DEF s
        <3> QED
            BY <2>2, <3>1, <3>3, <3>4
    <2>4. CASE writer \in {"mkdir", "meta"} /\ session'.item = session.item
        <3>1. /\ session.item.id \in (past.earlier + 1)..flights /\ IsNew(session.item.id)
              /\ session.item.id \notin StartIds(queue)
            BY <2>4, <1>6
        <3> DEFINE s == session.item.id
        <3>2. s \in (past.earlier + 1)..flights /\ IsNew(s) /\ s = session'.item.id
            BY <2>4, <3>1
        <3>3. s \notin StartIds(queue')
            <4>1. CASE ~ Blackbox!PutStart
                BY <4>1, <3>1, <1>11
            <4>2. CASE Blackbox!PutStart
                <5> DEFINE item == Blackbox!StartFlight(session_id)
                <5>1. item \in Items /\ item.kind = "start" /\ item.id = session_id
                    BY <1>12, <4>2, ItemsArePut DEF ThreadTypes, Blackbox!StartFlight
                <5>2. queue' = Append(queue, item) /\ session.item.id # session_id
                    BY <1>7, <1>12, <2>4, <4>2
                <5> HIDE DEF item
                <5>3. StartIds(queue') = StartIds(queue) \cup {session_id}
                    BY <5>1, <5>2, <1>1, StartsAppended
                <5> QED
                    BY <3>1, <5>2, <5>3
            <4> QED
                BY <4>1, <4>2
        <3> HIDE DEF s
        <3> QED
            BY <2>2, <3>2, <3>3
    <2> QED
        BY <1>15, <2>3, <2>4, StartsBegin
\* The start the control loop is at.
<1>16. ASSUME recorder' \in {"reset", "start"}
       PROVE  /\ IsNew(session_id)' /\ past'.frames[session_id'] = <<>>
              /\ session_id' \notin StartIds(queue')
              /\ writer' \in {"mkdir", "meta"} => session'.item.id # session_id'
    <2>1. ~ Blackbox!PutStart /\ ~ Blackbox!Record /\ ~ Blackbox!Start
        BY <1>16, StartsBegin
    <2>2. StartIds(queue') \subseteq StartIds(queue)
        BY <2>1, <1>11
    <2>3. ASSUME NEW s \in Blackbox!Flights, s = session_id', IsNew(s), past.frames[s] = <<>>,
                 s \notin StartIds(queue),
                 writer \in {"mkdir", "meta"} => session.item.id # s
          PROVE  /\ IsNew(session_id)' /\ past'.frames[session_id'] = <<>>
                 /\ session_id' \notin StartIds(queue')
                 /\ writer' \in {"mkdir", "meta"} => session'.item.id # session_id'
        <3>1. IsNew(s)'
            BY <2>3, <1>8, <1>9
        <3>2. IsNew(session_id)'
            BY <2>3, <3>1 DEF IsNew
        <3>3. past'.frames[s] = <<>> /\ s \notin StartIds(queue')
            BY <2>1, <2>2, <2>3, <1>2
        <3>4. ASSUME writer' \in {"mkdir", "meta"} PROVE session'.item.id # s
            <4>1. CASE Head(queue).kind = "start" /\ queue # <<>> /\ session'.item = Head(queue)
                BY <4>1, <2>3, <1>1, StartsTaken
            <4>2. CASE writer \in {"mkdir", "meta"} /\ session'.item = session.item
                BY <4>2, <2>3
            <4> QED
                BY <4>1, <4>2, <3>4, StartsBegin
        <3> QED
            BY <2>3, <3>2, <3>3, <3>4
    <2>4. CASE Blackbox!BeginFlight
        <3> DEFINE s == flights + 1
        <3>1. s = session_id' /\ s \in Blackbox!Flights /\ s > flights
            BY <2>4, <1>1 DEF Blackbox!BeginFlight, ThreadTypes, Blackbox!Flights
        <3>2. IsNew(s) /\ past.frames[s] = <<>>
            BY <3>1, <1>4
        <3>3. \A e \in (past.earlier + 1)..flights : e # s
            BY <1>1
        <3>4. /\ s \notin StartIds(queue)
              /\ writer \in {"mkdir", "meta"} => session.item.id # s
            BY <3>3, <1>5, <1>6
        <3> HIDE DEF s
        <3> QED
            BY <3>1, <3>2, <3>4, <2>3
    <2>5. CASE recorder \in {"reset", "start"} /\ session_id' = session_id
        <3>1. session_id \in Blackbox!Flights
            BY <2>5 DEF FlightsAreNumbered, ThreadTypes
        <3> QED
            BY <3>1, <2>3, <2>5, <1>7
    <2> QED
        BY <1>16, <2>4, <2>5, StartsBegin
<1>17. \A s \in Blackbox!Flights : s > flights' => IsNew(s)' /\ past'.frames[s] = <<>>
    BY <1>13
<1>18. writer' \in {"mkdir", "meta"} =>
          /\ session'.item.id \in (past'.earlier + 1)..flights' /\ IsNew(session.item.id)'
          /\ session'.item.id \notin StartIds(queue')
    BY <1>15
<1>19. recorder' \in {"reset", "start"} =>
          /\ IsNew(session_id)' /\ past'.frames[session_id'] = <<>>
          /\ session_id' \notin StartIds(queue')
          /\ writer' \in {"mkdir", "meta"} => session'.item.id # session_id'
    BY <1>16
<1> QED
    BY Zenon, <1>14, <1>17, <1>18, <1>19 DEF StartsAreNew, IsNew

----------------------------------------------------------------------------
(* The steps of the recorder: directories are closed.                         *)

\* A directory says of its session what it said.
SaysTheSame(s) ==
    /\ disk'[s].status = disk[s].status /\ disk'[s].chunks = disk[s].chunks
    /\ disk'[s].count = disk[s].count /\ disk'[s].dropped = disk[s].dropped
    /\ disk'[s].reason = disk[s].reason

\* What a step says of a session in its directory.
LEMMA DirectoryEffect ==
    ASSUME ThreadTypes, RecordTypes, WriterIsInSession, Blackbox!Next, NEW s \in Blackbox!Flights
    PROVE  \/ SaysTheSame(s) /\ (disk'[s].tmp = disk[s].tmp \/ s = Blackbox!Writing)
           \/ /\ Blackbox!FirstMetadata /\ s = session.item.id
              /\ disk'[s].status = "recording" /\ disk'[s].reason = disk[s].reason
           \/ /\ Blackbox!ListChunk /\ s = session.id
              /\ disk'[s].status = disk[s].status /\ disk'[s].reason = disk[s].reason
           \/ /\ Blackbox!Close /\ s = session.id
              /\ disk'[s].status = ClosedAs /\ disk'[s].chunks = disk[s].chunks
              /\ disk'[s].count = session.count /\ disk'[s].reason = disk[s].reason
              /\ disk'[s].dropped = Blackbox!DropsOfFlight
           \/ /\ Blackbox!WriteFails /\ s = session.id
              /\ disk'[s].status = "unclean" /\ disk'[s].reason = disk[s].reason
           \/ /\ Blackbox!Recover /\ disk'[s].status = "unclean" /\ disk'[s].reason = "interrupted"
              /\ ~ disk'[s].tmp
           \/ Blackbox!RecoverFails /\ SaysTheSame(s) /\ disk[s].status = "recording"
<1> DEFINE d == disk[s]
<1>1. d \in Directories
    BY DEF RecordTypes, DiskStates
<1>2. CASE disk'[s] = d
    BY <1>2 DEF SaysTheSame
<1>3. CASE Blackbox!MakeDirectory
    <2>1. disk'[s] \in {d, [d EXCEPT !.dir = TRUE]}
        BY <1>3, DiskEffect DEF Changes
    <2> HIDE DEF d
    <2>2. /\ disk'[s].status = d.status /\ disk'[s].chunks = d.chunks /\ disk'[s].count = d.count
          /\ disk'[s].dropped = d.dropped /\ disk'[s].reason = d.reason /\ disk'[s].tmp = d.tmp
        BY <1>1, <2>1 DEF Directories
    <2> QED
        BY <2>2 DEF SaysTheSame, d
<1>4. CASE Blackbox!FirstMetadata
    <2> DEFINE x == session.item.id
               r == [disk[x] EXCEPT !.status = "recording"]
    <2>0. Changes(x, r)
        BY <1>4, DiskEffect
    <2>1. disk'[s] = IF s = session.item.id THEN [d EXCEPT !.status = "recording"] ELSE d
        BY <2>0 DEF Changes
    <2>2. CASE s = session.item.id
        <3> HIDE DEF d
        <3>1. disk'[s].status = "recording" /\ disk'[s].reason = d.reason
            BY <1>1, <2>1, <2>2 DEF Directories
        <3> QED
            BY <1>4, <2>2, <3>1 DEF d
    <2>3. CASE s # session.item.id
        <3>1. disk'[s] = d
            BY <2>1, <2>3
        <3> QED
            BY <3>1, <1>2
    <2> QED
        BY <2>2, <2>3
<1>5. CASE Blackbox!WriteStream
    <2> DEFINE f == disk[session.id].files \cup
                      {[chunk |-> Len(session.chunks), stream |-> Head(session.todo)]}
    <2>1. Changes(session.id, [disk[session.id] EXCEPT !.files = f])
        BY <1>5, DiskEffect
    <2> HIDE DEF f
    <2>2. disk'[s] \in {d, [d EXCEPT !.files = f]}
        BY <2>1 DEF Changes
    <2> HIDE DEF d
    <2>3. /\ disk'[s].status = d.status /\ disk'[s].chunks = d.chunks /\ disk'[s].count = d.count
          /\ disk'[s].dropped = d.dropped /\ disk'[s].reason = d.reason /\ disk'[s].tmp = d.tmp
        BY <1>1, <2>2 DEF Directories
    <2> QED
        BY <2>3 DEF SaysTheSame, d
<1>6. CASE Blackbox!ListChunk
    <2> DEFINE c == Append(session.chunks, session.rows)
    <2>1. Changes(session.id, [disk[session.id] EXCEPT !.chunks = c])
        BY <1>6, DiskEffect
    <2> HIDE DEF c
    <2>2. disk'[s] = IF s = session.id THEN [d EXCEPT !.chunks = c] ELSE d
        BY <2>1 DEF Changes
    <2>3. CASE s = session.id
        <3> HIDE DEF d
        <3>1. disk'[s].status = d.status /\ disk'[s].reason = d.reason
            BY <1>1, <2>2, <2>3 DEF Directories
        <3> QED
            BY <1>6, <2>3, <3>1 DEF d
    <2> QED
        BY <2>2, <2>3, <1>2
<1>7. CASE Blackbox!Close
    <2> DEFINE x == ClosedAs
               n == session.count
               k == Blackbox!DropsOfFlight
    <2>1. Changes(session.id, [disk[session.id] EXCEPT !.status = x, !.count = n, !.dropped = k])
        BY <1>7, DiskEffect
    <2> HIDE DEF x, n, k
    <2>2. disk'[s] = IF s = session.id
                     THEN [d EXCEPT !.status = x, !.count = n, !.dropped = k] ELSE d
        BY <2>1 DEF Changes
    <2>3. CASE s = session.id
        <3> HIDE DEF d
        <3>1. /\ disk'[s].status = x /\ disk'[s].chunks = d.chunks /\ disk'[s].count = n
              /\ disk'[s].dropped = k /\ disk'[s].reason = d.reason
            BY <1>1, <2>2, <2>3 DEF Directories
        <3> QED
            BY <1>7, <2>3, <3>1 DEF d, x, n, k
    <2> QED
        BY <2>2, <2>3, <1>2
<1>8. CASE Blackbox!WriteFails
    <2> DEFINE c == session.chunks
               n == session.count
               k == Blackbox!DropsOfFlight
    <2>1. disk' = disk \/
             Changes(session.id, [disk[session.id] EXCEPT !.status = "unclean", !.chunks = c,
                                     !.count = n, !.dropped = k, !.tmp = TRUE])
        BY <1>8, DiskEffect
    <2> HIDE DEF c, n, k
    <2>2. disk'[s] = d \/ (s = session.id /\
             disk'[s] = [d EXCEPT !.status = "unclean", !.chunks = c, !.count = n, !.dropped = k,
                                  !.tmp = TRUE])
        BY <2>1 DEF Changes
    <2>3. CASE s = session.id /\ disk'[s] # d
        <3>1. disk'[s] = [d EXCEPT !.status = "unclean", !.chunks = c, !.count = n, !.dropped = k,
                                   !.tmp = TRUE]
            BY <2>2, <2>3
        <3> HIDE DEF d
        <3>2. disk'[s].status = "unclean" /\ disk'[s].reason = d.reason
            BY <1>1, <3>1 DEF Directories
        <3> QED
            BY <1>8, <2>3, <3>2 DEF d
    <2> QED
        BY <2>2, <2>3, <1>2
<1>9. CASE Blackbox!Crash
    <2>1. disk' = disk \/
             Changes(Blackbox!Writing, [disk[Blackbox!Writing] EXCEPT !.tmp = TRUE])
        BY <1>9, DiskEffect
    <2>2. disk'[s] = d \/ (s = Blackbox!Writing /\ disk'[s] = [d EXCEPT !.tmp = TRUE])
        BY <2>1 DEF Changes
    <2>3. CASE s = Blackbox!Writing /\ disk'[s] = [d EXCEPT !.tmp = TRUE]
        <3> HIDE DEF d
        <3>1. /\ disk'[s].status = d.status /\ disk'[s].chunks = d.chunks /\ disk'[s].count = d.count
              /\ disk'[s].dropped = d.dropped /\ disk'[s].reason = d.reason
            BY <1>1, <2>3 DEF Directories
        <3> QED
            BY <2>3, <3>1 DEF SaysTheSame, d
    <2> QED
        BY <2>2, <2>3, <1>2
<1>10. CASE Blackbox!Recover
    <2>1. disk'[s] = d \/ disk'[s] = [d EXCEPT !.status = "unclean", !.reason = "interrupted",
                                               !.tmp = FALSE]
        BY <1>10, DiskEffect DEF Changes
    <2>2. CASE disk'[s] = [d EXCEPT !.status = "unclean", !.reason = "interrupted", !.tmp = FALSE]
        <3> HIDE DEF d
        <3>1. disk'[s].status = "unclean" /\ disk'[s].reason = "interrupted" /\ ~ disk'[s].tmp
            BY <1>1, <2>2 DEF Directories
        <3> QED
            BY <1>10, <3>1
    <2> QED
        BY <2>1, <2>2, <1>2
<1>11. CASE \/ Blackbox!MainStep \/ Blackbox!OdometryStep \/ Blackbox!Get \/ Blackbox!AppendRow
            \/ Blackbox!BeginFinish \/ Blackbox!Start \/ Blackbox!Stopped
    BY <1>2, <1>11, DiskEffect
<1>12. CASE Blackbox!RecoverFails
    <2>1. PICK x \in Blackbox!Flights, torn \in BOOLEAN :
             disk[x].status = "recording" /\ Changes(x, [disk[x] EXCEPT !.tmp = torn])
        BY <1>12, DiskEffect
    <2>2. disk'[s] = d \/ (s = x /\ disk'[s] = [d EXCEPT !.tmp = torn])
        BY <2>1 DEF Changes
    <2>3. CASE s = x /\ disk'[s] = [d EXCEPT !.tmp = torn]
        <3>0. d.status = "recording"
            BY <2>1, <2>3
        <3> HIDE DEF d
        <3>1. /\ disk'[s].status = d.status /\ disk'[s].chunks = d.chunks
              /\ disk'[s].count = d.count /\ disk'[s].dropped = d.dropped
              /\ disk'[s].reason = d.reason
            BY <1>1, <2>3 DEF Directories
        <3> QED
            BY <1>12, <3>0, <3>1 DEF SaysTheSame, d
    <2> QED
        BY <2>2, <2>3, <1>2
<1> QED
    BY <1>3, <1>4, <1>5, <1>6, <1>7, <1>8, <1>9, <1>10, <1>11, <1>12 DEF Blackbox!Next, Blackbox!WriterStep

\* A clean end closes a session that has all its flight's frames.
LEMMA ClosedIsComplete ==
    ASSUME ThreadTypes, RecordTypes, WriterIsInSession, SessionIsPrefix,
           AtItem => Fits(History, SessionState, session.item),
           Blackbox!Close, ClosedAs = "complete"
    PROVE  /\ Over(session.id) /\ FramesOf(session.chunks) = past.frames[session.id]
           /\ session.count = Len(past.frames[session.id])
           /\ past.drops[session.id] <= Blackbox!DropsOfFlight
<1>1. writer = "close" /\ AtItem /\ session.item.clean
    BY DEF Blackbox!Close, AtItem, ClosedAs
<1>2. /\ session.item.kind = "end" /\ session.item.id = session.id /\ session.id # None
      /\ session.rows.frames = <<>> /\ session.id \in Blackbox!Flights
    BY <1>1 DEF WriterIsInSession, RecordTypes, SessionStates
<1>3. /\ session.item.id \in History.over
      /\ session.count = Len(past.frames[session.item.id])
      /\ past.drops[session.item.id] <= dropped_frames - session.dropped_start
    BY <1>1, <1>2 DEF Fits, SessionState, History
<1>4. Over(session.id)
    BY <1>2, <1>3 DEF History
<1> DEFINE f == past.frames[session.id]
           a == FramesOf(session.chunks)
<1>5. f \in Seq(Nat) /\ a \in Seq(Nat)
    BY <1>2, FramesOfChunks DEF RecordTypes, PastStates, SessionStates
<1>6. a \o <<>> = SubSeq(f, 1, Len(f))
    BY <1>2, <1>3 DEF SessionIsPrefix
<1> HIDE DEF f, a
<1>7. a \o <<>> = a
    BY <1>5, ConcatEmptySeq
<1>8. SubSeq(f, 1, Len(f)) = f
    <2> DEFINE p == SubSeq(f, 1, Len(f))
    <2>1. Len(f) \in Nat /\ \A i \in 1..Len(f) : f[i] \in Nat
        BY <1>5, ElementOfSeq, LenProperties
    <2>2. p \in Seq(Nat) /\ Len(p) = Len(f) /\ \A i \in 1..Len(f) : p[i] = f[i]
        BY <1>5, <2>1, SubSeqProperties
    <2> HIDE DEF p
    <2>3. p = f
        BY <1>5, <2>2, SeqEqual
    <2> QED
        BY <2>3 DEF p
<1>9. a = f
    BY <1>6, <1>7, <1>8
<1> QED
    BY <1>2, <1>3, <1>4, <1>9 DEF f, a, Blackbox!DropsOfFlight

\* While the process runs, the sessions that its start could not recover are these.
LEMMA UnrecoveredKept ==
    ASSUME Blackbox!Next
    PROVE  recorder' = "down" \/ unrecovered' = unrecovered
<1>1. CASE Blackbox!MainStep
    BY Zenon, <1>1 DEF Blackbox!MainStep, Blackbox!BeginFlight, Blackbox!ResetSamples,
       Blackbox!PutStart, Blackbox!Record, Blackbox!CaptureFails, Blackbox!Disarm,
       Blackbox!PutEnd, Blackbox!Stop
<1>2. CASE Blackbox!OdometryStep
    BY Zenon, <1>2 DEF Blackbox!OdometryStep, Blackbox!OdometryCheck, Blackbox!OdometryRow,
       Blackbox!OdometryPut, Blackbox!appVars
<1>3. CASE Blackbox!WriterStep
    BY Zenon, <1>3 DEF Blackbox!WriterStep, Blackbox!Get, Blackbox!MakeDirectory,
       Blackbox!FirstMetadata, Blackbox!AppendRow, Blackbox!BeginFinish, Blackbox!WriteStream,
       Blackbox!ListChunk, Blackbox!Close, Blackbox!appVars
<1>4. CASE Blackbox!WriteFails \/ Blackbox!Start \/ Blackbox!Stopped \/ Blackbox!Recover
    BY Zenon, <1>4 DEF Blackbox!WriteFails, Blackbox!Start, Blackbox!Stopped, Blackbox!Recover,
       Blackbox!vars, Blackbox!appVars
<1>5. CASE Blackbox!Crash \/ Blackbox!RecoverFails
    BY <1>5 DEF Blackbox!Crash, Blackbox!RecoverFails
<1> QED
    BY <1>1, <1>2, <1>3, <1>4, <1>5 DEF Blackbox!Next

LEMMA DirectoriesKept ==
    ASSUME ThreadTypes, RecordTypes, FlightsAreNumbered, DownIsEmpty, WriterIsInSession,
           SessionIsPrefix, StartsAreNew, DirectoriesAreClosed,
           AtItem => Fits(History, SessionState, session.item), Blackbox!Next
    PROVE  DirectoriesAreClosed'
<1> USE RecorderConstants
<1> SUFFICES ASSUME NEW s \in Blackbox!Flights
             PROVE  /\ disk'[s].status = "complete" =>
                         /\ Over(s)' /\ FramesOf(disk'[s].chunks) = past'.frames[s]
                         /\ disk'[s].count = Len(past'.frames[s])
                         /\ past'.drops[s] <= disk'[s].dropped
                    /\ disk'[s].reason = "interrupted" => disk'[s].status = "unclean" /\ ~ disk'[s].tmp
                    /\ s <= past'.earlier /\ recorder' # "down" =>
                         (disk'[s].status = "recording" => s \in unrecovered')
    BY DEF DirectoriesAreClosed
<1>1. /\ disk[s].status = "complete" =>
           /\ Over(s) /\ FramesOf(disk[s].chunks) = past.frames[s]
           /\ disk[s].count = Len(past.frames[s]) /\ past.drops[s] <= disk[s].dropped
      /\ disk[s].reason = "interrupted" => disk[s].status = "unclean" /\ ~ disk[s].tmp
      /\ s <= past.earlier /\ recorder # "down" =>
           (disk[s].status = "recording" => s \in unrecovered)
    BY DEF DirectoriesAreClosed
<1>2. Over(s) => Over(s)' /\ past'.frames[s] = past.frames[s] /\ past'.drops[s] = past.drops[s]
    <2>1. Continues(History, History')
        BY HistoryContinues
    <2>2. /\ History.frames = past.frames /\ History'.frames = past'.frames
          /\ History.drops = past.drops /\ History'.drops = past'.drops
          /\ History.over = {x \in Blackbox!Flights : Over(x)}
          /\ History'.over = {x \in Blackbox!Flights : Over(x)'}
        BY DEF History
    <2> QED
        BY <2>1, <2>2 DEF Continues
<1>3. s = session.id => disk[s].status = "recording" /\ disk[s].chunks = session.chunks
                        /\ disk[s].reason # "interrupted"
    BY <1>1 DEF WriterIsInSession
<1>4. Blackbox!Start => (disk[s].status = "recording" => s \in unrecovered)
    BY DEF Blackbox!Start, Blackbox!Interrupted
<1>5. Blackbox!Start \/ past'.earlier = past.earlier
    BY HistoryEffect
<1>6. recorder' # "down" /\ ~ Blackbox!Start => recorder # "down"
    <2>1. Blackbox!MainStep => recorder # "down"
        BY DEF Blackbox!MainStep, Blackbox!BeginFlight, Blackbox!ResetSamples, Blackbox!PutStart,
           Blackbox!Record, Blackbox!CaptureFails, Blackbox!Disarm, Blackbox!PutEnd, Blackbox!Stop
    <2>2. Blackbox!Crash => recorder' = "down"
        BY DEF Blackbox!Crash
    <2>3. (\/ Blackbox!OdometryStep \/ Blackbox!WriterStep \/ Blackbox!WriteFails
           \/ Blackbox!Recover \/ Blackbox!RecoverFails \/ Blackbox!Stopped) => recorder' = recorder
        BY Zenon, WriterLeavesLoop DEF Blackbox!OdometryStep, Blackbox!OdometryCheck,
           Blackbox!OdometryRow, Blackbox!OdometryPut, Blackbox!WriteFails, Blackbox!Recover,
           Blackbox!RecoverFails, Blackbox!Stopped, Blackbox!vars, Blackbox!appVars
    <2> QED
        BY <2>1, <2>2, <2>3 DEF Blackbox!Next
<1>7. ASSUME disk'[s].status # "recording" \/ disk[s].status = "recording"
      PROVE  s <= past'.earlier /\ recorder' # "down" =>
                (disk'[s].status = "recording" => s \in unrecovered')
    BY <1>1, <1>4, <1>5, <1>6, <1>7, UnrecoveredKept
<1>8. CASE SaysTheSame(s) /\ (disk'[s].tmp = disk[s].tmp \/ s = Blackbox!Writing)
    <2>1. /\ disk'[s].status = disk[s].status /\ disk'[s].chunks = disk[s].chunks
          /\ disk'[s].count = disk[s].count /\ disk'[s].dropped = disk[s].dropped
          /\ disk'[s].reason = disk[s].reason
        BY <1>8 DEF SaysTheSame
    <2>2. disk[s].status = "complete" =>
             /\ Over(s)' /\ FramesOf(disk[s].chunks) = past'.frames[s]
             /\ disk[s].count = Len(past'.frames[s]) /\ past'.drops[s] <= disk[s].dropped
        BY <1>1, <1>2
    <2>3. disk'[s].status = "complete" =>
             /\ Over(s)' /\ FramesOf(disk'[s].chunks) = past'.frames[s]
             /\ disk'[s].count = Len(past'.frames[s]) /\ past'.drops[s] <= disk'[s].dropped
        BY <2>1, <2>2
    <2>4. s = Blackbox!Writing => disk[s].reason # "interrupted"
        <3>1. writer = "meta" /\ s = session.item.id => disk[s].reason = None
            BY DEF StartsAreNew, IsNew
        <3> QED
            BY <1>3, <3>1 DEF Blackbox!Writing
    <2>5. disk'[s].reason = "interrupted" => disk'[s].status = "unclean" /\ ~ disk'[s].tmp
        BY <1>1, <1>8, <2>1, <2>4
    <2>6. s <= past'.earlier /\ recorder' # "down" =>
             (disk'[s].status = "recording" => s \in unrecovered')
        BY <1>7, <2>1
    <2> QED
        BY <2>3, <2>5, <2>6
<1>9. CASE /\ Blackbox!FirstMetadata /\ s = session.item.id
           /\ disk'[s].status = "recording" /\ disk'[s].reason = disk[s].reason
    <2>1. writer = "meta" /\ ~ Blackbox!Start
        BY <1>9 DEF Blackbox!FirstMetadata, Blackbox!Start, DownIsEmpty
    <2>2. disk[s].reason = None /\ s \in (past.earlier + 1)..flights
        BY <1>9, <2>1 DEF StartsAreNew, IsNew
    <2>3. ~ (s <= past'.earlier)
        BY <1>5, <2>1, <2>2 DEF ThreadTypes, RecordTypes, PastStates
    <2> QED
        BY <1>9, <2>2, <2>3
<1>10. CASE /\ Blackbox!ListChunk /\ s = session.id
            /\ disk'[s].status = disk[s].status /\ disk'[s].reason = disk[s].reason
    BY <1>3, <1>7, <1>10
<1>11. CASE /\ Blackbox!Close /\ s = session.id
            /\ disk'[s].status = ClosedAs /\ disk'[s].chunks = disk[s].chunks
            /\ disk'[s].count = session.count /\ disk'[s].reason = disk[s].reason
            /\ disk'[s].dropped = Blackbox!DropsOfFlight
    <2>1. disk'[s].status \in {"complete", "unclean"} /\ disk'[s].reason # "interrupted"
        BY <1>3, <1>11 DEF ClosedAs
    <2>2. ASSUME disk'[s].status = "complete"
          PROVE  /\ Over(s)' /\ FramesOf(disk'[s].chunks) = past'.frames[s]
                 /\ disk'[s].count = Len(past'.frames[s]) /\ past'.drops[s] <= disk'[s].dropped
        <3>1. /\ Over(s) /\ FramesOf(session.chunks) = past.frames[s]
              /\ session.count = Len(past.frames[s]) /\ past.drops[s] <= Blackbox!DropsOfFlight
            BY <1>11, <2>2, ClosedIsComplete
        <3>2. disk'[s].chunks = session.chunks
            BY <1>3, <1>11
        <3> QED
            BY <1>2, <1>11, <3>1, <3>2
    <2> QED
        BY <2>1, <2>2
<1>12. CASE /\ Blackbox!WriteFails /\ s = session.id
            /\ disk'[s].status = "unclean" /\ disk'[s].reason = disk[s].reason
    BY <1>3, <1>12
<1>13. CASE /\ Blackbox!Recover /\ disk'[s].status = "unclean" /\ disk'[s].reason = "interrupted"
            /\ ~ disk'[s].tmp
    BY <1>13
<1>14. CASE Blackbox!RecoverFails /\ SaysTheSame(s) /\ disk[s].status = "recording"
    <2>1. recorder' = "down"
        BY <1>14 DEF Blackbox!RecoverFails
    <2>2. disk'[s].status = "recording" /\ disk'[s].reason # "interrupted"
        BY <1>1, <1>14 DEF SaysTheSame
    <2> QED
        BY <2>1, <2>2
<1> QED
    BY <1>8, <1>9, <1>10, <1>11, <1>12, <1>13, <1>14, DirectoryEffect

----------------------------------------------------------------------------
(* The steps of the recorder: listed chunks have their files.                 *)

\* What a step does to the chunks and the files of a session.
LEMMA FilesEffect ==
    ASSUME RecordTypes, WriterIsInSession, Blackbox!Next, NEW s \in Blackbox!Flights
    PROVE  \/ disk'[s].chunks = disk[s].chunks /\ disk[s].files \subseteq disk'[s].files
           \/ /\ Blackbox!ListChunk /\ s = session.id /\ disk'[s].files = disk[s].files
              /\ disk'[s].chunks = Append(session.chunks, session.rows)
<1> DEFINE d == disk[s]
<1>1. d \in Directories
    BY DEF RecordTypes, DiskStates
<1>2. CASE disk'[s] = d
    BY <1>2
<1>3. CASE Blackbox!MakeDirectory \/ Blackbox!FirstMetadata
    <2>1. \/ Changes(session.item.id, [disk[session.item.id] EXCEPT !.dir = TRUE])
          \/ Changes(session.item.id, [disk[session.item.id] EXCEPT !.status = "recording"])
        BY <1>3, DiskEffect
    <2>2. disk'[s] \in {d, [d EXCEPT !.dir = TRUE], [d EXCEPT !.status = "recording"]}
        BY <2>1 DEF Changes
    <2> HIDE DEF d
    <2>3. disk'[s].chunks = d.chunks /\ disk'[s].files = d.files
        BY <1>1, <2>2 DEF Directories
    <2> QED
        BY <2>3 DEF d
<1>4. CASE Blackbox!WriteStream
    <2> DEFINE r == {[chunk |-> Len(session.chunks), stream |-> Head(session.todo)]}
    <2>1. Changes(session.id, [disk[session.id] EXCEPT !.files = disk[session.id].files \cup r])
        BY <1>4, DiskEffect
    <2> HIDE DEF r
    <2>2. disk'[s] \in {d, [d EXCEPT !.files = d.files \cup r]}
        BY <2>1 DEF Changes
    <2> HIDE DEF d
    <2>3. disk'[s].chunks = d.chunks /\ d.files \subseteq disk'[s].files
        BY <1>1, <2>2 DEF Directories
    <2> QED
        BY <2>3 DEF d
<1>5. CASE Blackbox!ListChunk
    <2> DEFINE c == Append(session.chunks, session.rows)
    <2>1. Changes(session.id, [disk[session.id] EXCEPT !.chunks = c])
        BY <1>5, DiskEffect
    <2> HIDE DEF c
    <2>2. disk'[s] = IF s = session.id THEN [d EXCEPT !.chunks = c] ELSE d
        BY <2>1 DEF Changes
    <2>3. CASE s = session.id
        <3> HIDE DEF d
        <3>1. disk'[s].chunks = c /\ disk'[s].files = d.files
            BY <1>1, <2>2, <2>3 DEF Directories
        <3> QED
            BY <1>5, <2>3, <3>1 DEF d, c
    <2> QED
        BY <2>2, <2>3, <1>2
<1>6. CASE Blackbox!Close
    <2> DEFINE x == ClosedAs
               n == session.count
               k == Blackbox!DropsOfFlight
    <2>1. Changes(session.id, [disk[session.id] EXCEPT !.status = x, !.count = n, !.dropped = k])
        BY <1>6, DiskEffect
    <2> HIDE DEF x, n, k
    <2>2. disk'[s] \in {d, [d EXCEPT !.status = x, !.count = n, !.dropped = k]}
        BY <2>1 DEF Changes
    <2> HIDE DEF d
    <2>3. disk'[s].chunks = d.chunks /\ disk'[s].files = d.files
        BY <1>1, <2>2 DEF Directories
    <2> QED
        BY <2>3 DEF d
<1>7. CASE Blackbox!WriteFails
    <2> DEFINE c == session.chunks
               n == session.count
               k == Blackbox!DropsOfFlight
    <2>1. disk' = disk \/ (session.id # None /\
             Changes(session.id, [disk[session.id] EXCEPT !.status = "unclean", !.chunks = c,
                                     !.count = n, !.dropped = k, !.tmp = TRUE]))
        BY <1>7, DiskEffect
    <2>2. session.id # None => disk[session.id].chunks = c
        BY DEF WriterIsInSession
    <2> HIDE DEF c, n, k
    <2>3. disk'[s] = d \/ (d.chunks = c /\
             disk'[s] = [d EXCEPT !.status = "unclean", !.chunks = c, !.count = n, !.dropped = k,
                                  !.tmp = TRUE])
        BY <2>1, <2>2 DEF Changes
    <2> HIDE DEF d
    <2>4. disk'[s].chunks = d.chunks /\ disk'[s].files = d.files
        BY <1>1, <2>3 DEF Directories
    <2> QED
        BY <2>4 DEF d
<1>8. CASE Blackbox!Crash
    <2>1. disk' = disk \/
             Changes(Blackbox!Writing, [disk[Blackbox!Writing] EXCEPT !.tmp = TRUE])
        BY <1>8, DiskEffect
    <2>2. disk'[s] \in {d, [d EXCEPT !.tmp = TRUE]}
        BY <2>1 DEF Changes
    <2> HIDE DEF d
    <2>3. disk'[s].chunks = d.chunks /\ disk'[s].files = d.files
        BY <1>1, <2>2 DEF Directories
    <2> QED
        BY <2>3 DEF d
<1>9. CASE Blackbox!Recover
    <2>1. disk'[s] \in {d, [d EXCEPT !.status = "unclean", !.reason = "interrupted", !.tmp = FALSE]}
        BY <1>9, DiskEffect DEF Changes
    <2> HIDE DEF d
    <2>2. disk'[s].chunks = d.chunks /\ disk'[s].files = d.files
        BY <1>1, <2>1 DEF Directories
    <2> QED
        BY <2>2 DEF d
<1>10. CASE \/ Blackbox!MainStep \/ Blackbox!OdometryStep \/ Blackbox!Get \/ Blackbox!AppendRow
            \/ Blackbox!BeginFinish \/ Blackbox!Start \/ Blackbox!Stopped
    BY <1>2, <1>10, DiskEffect
<1>11. CASE Blackbox!RecoverFails
    <2>1. \E torn \in BOOLEAN : disk'[s] \in {d, [d EXCEPT !.tmp = torn]}
        BY <1>11, DiskEffect DEF Changes
    <2> HIDE DEF d
    <2>2. disk'[s].chunks = d.chunks /\ disk'[s].files = d.files
        BY <1>1, <2>1 DEF Directories
    <2> QED
        BY <2>2 DEF d
<1> QED
    BY <1>3, <1>4, <1>5, <1>6, <1>7, <1>8, <1>9, <1>10, <1>11 DEF Blackbox!Next, Blackbox!WriterStep

\* How the writer comes to the writing of a chunk, or goes on with it.
LEMMA WritesBegin ==
    ASSUME RecordTypes, DownIsEmpty, Blackbox!Next, writer' = "write"
    PROVE  \/ writer = "write" /\ UNCHANGED <<session, disk>>
           \/ Blackbox!WriteStream
           \/ Blackbox!BeginFinish \/ (Blackbox!AppendRow /\ writer' = "write")
<1>1. CASE Blackbox!MainStep \/ Blackbox!OdometryStep
    BY <1>1, LoopLeavesWriter
<1>2. ~ Blackbox!Get
    <2> SUFFICES ASSUME Blackbox!Get PROVE FALSE
        OBVIOUS
    <2>1. queue # <<>> /\ writer' = Blackbox!Taken(Head(queue))
        BY DEF Blackbox!Get
    <2>2. Head(queue) \in Items
        BY <2>1, HeadTailProperties DEF RecordTypes
    <2>3. Blackbox!Taken(Head(queue)) # "write"
        <3> DEFINE item == Head(queue)
        <3>1. item \in Items
            BY <2>2
        <3> HIDE DEF item
        <3>2. Blackbox!Taken(item) \in {"done", "get", "mkdir", "flush", "append"}
            BY <3>1, TakenValue
        <3> QED
            BY <3>2 DEF item
    <2> QED
        BY <2>1, <2>3
<1>3. ~ (\/ Blackbox!MakeDirectory \/ Blackbox!FirstMetadata \/ Blackbox!ListChunk \/ Blackbox!Close
         \/ Blackbox!WriteFails \/ Blackbox!Crash \/ Blackbox!Start)
    BY DEF Blackbox!MakeDirectory, Blackbox!FirstMetadata, Blackbox!ListChunk, Blackbox!Close,
       Blackbox!WriteFails, Blackbox!Crash, Blackbox!Start
<1>4. ~ (Blackbox!Recover \/ Blackbox!RecoverFails)
    BY DEF Blackbox!Recover, Blackbox!RecoverFails, DownIsEmpty
<1>5. CASE Blackbox!Stopped
    <2>1. UNCHANGED <<writer, session, disk>>
        BY Zenon, <1>5 DEF Blackbox!Stopped, Blackbox!vars, Blackbox!writeVars
    <2> QED
        BY <2>1
<1> QED
    BY <1>1, <1>2, <1>3, <1>4, <1>5 DEF Blackbox!Next, Blackbox!WriterStep

LEMMA FilesKept ==
    ASSUME ThreadTypes, RecordTypes, DownIsEmpty, WriterIsInSession, FilesAreWritten, Blackbox!Next
    PROVE  FilesAreWritten'
<1> USE RecorderConstants
<1>1. /\ session \in SessionStates /\ session.chunks \in Seq(RowSets) /\ session.rows \in RowSets
      /\ session.todo \in Seq(StreamNames) /\ Len(session.chunks) \in Nat
      /\ session.id # None => session.id \in Blackbox!Flights
      /\ \A s \in Blackbox!Flights : disk[s].chunks \in Seq(RowSets)
    BY LenProperties DEF RecordTypes, SessionStates, DiskStates, Directories
<1>2. writer = "write" => session.id # None /\ session.id \in Blackbox!Flights
                          /\ disk[session.id].chunks = session.chunks
    BY <1>1 DEF WriterIsInSession
<1>3. writer = "write" =>
         \A x \in StreamNames : session.rows[x] # <<>> =>
             \/ \E i \in DOMAIN session.todo : session.todo[i] = x
             \/ [chunk |-> Len(session.chunks), stream |-> x] \in disk[session.id].files
    BY DEF FilesAreWritten
<1>4. ASSUME NEW s \in Blackbox!Flights, NEW x \in StreamNames, NEW j \in DOMAIN disk'[s].chunks,
             disk'[s].chunks[j][x] # <<>>
      PROVE  [chunk |-> j - 1, stream |-> x] \in disk'[s].files
    <2> DEFINE f(i) == [chunk |-> i, stream |-> x]
    <2>1. \A i \in DOMAIN disk[s].chunks : disk[s].chunks[i][x] # <<>> => f(i - 1) \in disk[s].files
        BY DEF FilesAreWritten
    <2>2. CASE disk'[s].chunks = disk[s].chunks /\ disk[s].files \subseteq disk'[s].files
        BY <1>4, <2>1, <2>2
    <2>3. CASE /\ Blackbox!ListChunk /\ s = session.id /\ disk'[s].files = disk[s].files
               /\ disk'[s].chunks = Append(session.chunks, session.rows)
        <3> DEFINE c == session.chunks
                   r == session.rows
        <3>1. writer = "write" /\ session.todo = <<>>
            BY <2>3 DEF Blackbox!ListChunk, Blackbox!ReadyToList
        <3>2. disk[s].chunks = c /\ c \in Seq(RowSets) /\ r \in RowSets /\ Len(c) \in Nat
            BY <1>1, <1>2, <2>3, <3>1
        <3>3. DOMAIN session.todo = {}
            BY <3>1, EmptySeq
        <3>4. r[x] # <<>> => f(Len(c)) \in disk[s].files
            BY <1>3, <2>3, <3>1, <3>3
        <3> HIDE DEF f, c, r
        <3>5. /\ Append(c, r) \in Seq(RowSets) /\ Len(Append(c, r)) = Len(c) + 1
              /\ \A i \in 1..Len(c) : Append(c, r)[i] = c[i]
              /\ Append(c, r)[Len(c) + 1] = r
            BY <3>2, AppendProperties
        <3>6. j \in 1..(Len(c) + 1) /\ Append(c, r)[j][x] # <<>>
            <4>1. disk'[s].chunks = Append(c, r)
                BY <2>3 DEF c, r
            <4>2. DOMAIN Append(c, r) = 1..(Len(c) + 1)
                BY <3>5, LenProperties
            <4> QED
                BY <1>4, <4>1, <4>2
        <3>7. CASE j \in 1..Len(c)
            <4>1. DOMAIN disk[s].chunks = 1..Len(c) /\ disk[s].chunks[j] = Append(c, r)[j]
                BY <3>2, <3>5, <3>7, LenProperties
            <4>2. f(j - 1) \in disk[s].files
                BY <2>1, <3>6, <3>7, <4>1
            <4> QED
                BY <2>3, <4>2 DEF f
        <3>8. CASE j = Len(c) + 1
            <4>1. r[x] # <<>> /\ j - 1 = Len(c)
                BY <3>2, <3>5, <3>6, <3>8
            <4>2. f(j - 1) \in disk[s].files
                BY <3>4, <4>1
            <4> QED
                BY <2>3, <4>2 DEF f
        <3> QED
            BY <3>2, <3>6, <3>7, <3>8
    <2> QED
        BY <2>2, <2>3, FilesEffect
<1>5. ASSUME writer' = "write", NEW x \in StreamNames, session'.rows[x] # <<>>
      PROVE  \/ \E i \in DOMAIN session'.todo : session'.todo[i] = x
             \/ [chunk |-> Len(session'.chunks), stream |-> x] \in disk'[session'.id].files
    <2>1. CASE writer = "write" /\ UNCHANGED <<session, disk>>
        BY <1>3, <1>5, <2>1
    <2>2. CASE Blackbox!BeginFinish \/ (Blackbox!AppendRow /\ writer' = "write")
        <3>1. session'.rows = session.rows /\ session'.todo = Blackbox!Pending
            BY <2>2, SessionEffect
        <3> QED
            BY <1>5, <3>1, PendingType
    <2>3. CASE Blackbox!WriteStream
        <3>1. writer = "write" /\ session.todo # <<>>
            BY <2>3 DEF Blackbox!WriteStream
        <3>2. /\ session'.rows = session.rows /\ session'.chunks = session.chunks
              /\ session'.id = session.id /\ session'.todo = Tail(session.todo)
            BY <2>3, SessionEffect
        <3> DEFINE h == Head(session.todo)
                   F == disk[session.id].files
                   n == Len(session.chunks)
                   t == session.todo
        <3>3. Changes(session.id, [disk[session.id] EXCEPT !.files = F \cup {[chunk |-> n, stream |-> h]}])
            BY <2>3, DiskEffect
        <3>4. session.id \in Blackbox!Flights /\ disk[session.id] \in Directories
            BY <1>2, <3>1 DEF RecordTypes, DiskStates
        <3>5. disk'[session.id].files = F \cup {[chunk |-> n, stream |-> h]}
            <4> HIDE DEF n, h
            <4>1. disk'[session.id] =
                    [disk[session.id] EXCEPT !.files = F \cup {[chunk |-> n, stream |-> h]}]
                BY <3>3, <3>4 DEF Changes
            <4> QED
                BY <3>4, <4>1 DEF Directories
        <3>6. \/ \E i \in DOMAIN t : t[i] = x
              \/ [chunk |-> n, stream |-> x] \in F
            BY <1>3, <1>5, <3>1, <3>2
        <3>7. t \in Seq(StreamNames) /\ t # <<>>
            BY <1>1, <3>1
        <3> HIDE DEF t, n, F
        <3>8. ASSUME NEW i \in DOMAIN t, t[i] = x
              PROVE  x = h \/ \E k \in DOMAIN Tail(t) : Tail(t)[k] = x
            <4>1. /\ Len(t) \in Nat /\ DOMAIN t = 1..Len(t) /\ Tail(t) \in Seq(StreamNames)
                  /\ Len(Tail(t)) = Len(t) - 1
                  /\ \A k \in 1..Len(Tail(t)) : Tail(t)[k] = t[k + 1]
                BY <3>7, HeadTailProperties, LenProperties
            <4>2. h = t[1]
                BY <3>7, HeadTailProperties DEF t
            <4>3. CASE i = 1
                BY <3>8, <4>2, <4>3
            <4>4. CASE i # 1
                <5>1. i - 1 \in 1..Len(Tail(t)) /\ (i - 1) + 1 = i
                    BY <4>1, <4>4
                <5>2. Tail(t)[i - 1] = x
                    BY <3>8, <4>1, <5>1
                <5>3. DOMAIN Tail(t) = 1..Len(Tail(t))
                    BY <4>1, LenProperties
                <5> QED
                    BY <5>1, <5>2, <5>3
            <4> QED
                BY <4>3, <4>4
        <3>9. session'.todo = Tail(t) /\ Len(session'.chunks) = n
            BY <3>2 DEF t, n
        <3> HIDE DEF h
        <3> QED
            BY <3>2, <3>5, <3>6, <3>8, <3>9
    <2> QED
        BY <1>5, <2>1, <2>2, <2>3, WritesBegin
<1> QED
    BY <1>4, <1>5 DEF FilesAreWritten

----------------------------------------------------------------------------
(* The steps of the recorder: the queue fits the history.                     *)

\* The types of the histories and of the writer's states.
LEMMA HistoryTypes ==
    ASSUME NEW p \in PastStates, NEW n \in Nat, NEW o \in SUBSET Blackbox!Flights
    PROVE  [frames |-> p.frames, drops |-> p.drops, dropped |-> n, over |-> o] \in Histories
BY DEF PastStates, Histories

LEMMA SessionStateType ==
    ASSUME NEW t \in SessionStates, t.id = None => t.count = 0 /\ t.dropped_start = 0
    PROVE  [id |-> t.id, count |-> t.count, dropped |-> t.dropped_start] \in WriterStates
BY DEF SessionStates, WriterStates

\* The writer where it is, and at an empty queue.
LEMMA WriterStateType ==
    ASSUME RecordTypes, WriterIsInSession
    PROVE  SessionState \in WriterStates /\ session.item \in Items /\ WriterState \in WriterStates
<1>1. session \in SessionStates /\ session.item \in Items
    BY DEF RecordTypes, SessionStates
<1>2. SessionState \in WriterStates
    BY <1>1, SessionStateType DEF SessionState, WriterIsInSession
<1> QED
    BY <1>1, <1>2, AfterType DEF WriterState

LEMMA ReplayEmpty ==
    ASSUME NEW h, NEW w \in WriterStates
    PROVE  Replays(h, w, <<>>, w)
<1> DEFINE replay == [i \in 0..0 |-> w]
<1>1. Len(<<>>) = 0
    BY EmptySeq
<1>2. replay \in [0..0 -> WriterStates] /\ replay[0] = w
    OBVIOUS
<1> HIDE DEF replay
<1>3. IsReplay(h, replay, w, <<>>)
    BY <1>1, <1>2 DEF IsReplay
<1> QED
    BY <1>1, <1>2, <1>3 DEF Replays

\* A step that leaves the history of the flights and the control loop alone.
SameLoop ==
    /\ History' = History /\ UNCHANGED <<recorder, session_id, queue>>
    /\ past'.frames = past.frames /\ past'.dropped = past.dropped

LEMMA QueueStillFits ==
    ASSUME QueueFits, SameLoop, WriterState' = WriterState,
           AtItem' => Fits(History, SessionState', session'.item)
    PROVE  QueueFits'
<1>1. PICK v \in WriterStates : Replays(History, WriterState, queue, v) /\ IsUpToDate(v)
    BY DEF QueueFits
<1>2. Replays(History', WriterState', queue', v)
    BY <1>1 DEF SameLoop
<1>3. IsUpToDate(v)'
    BY <1>1 DEF SameLoop, IsUpToDate
<1>4. AtItem' => Fits(History', SessionState', session'.item)
    BY DEF SameLoop
<1> QED
    BY <1>2, <1>3, <1>4 DEF QueueFits

\* The writer's own steps, but the taking of an item, do what the item asks for.
LEMMA WriterDoesItem ==
    ASSUME RecordTypes, WriterIsInSession, Blackbox!WriterStep, ~ Blackbox!Get
    PROVE  /\ WriterState' = WriterState
           /\ AtItem /\ (AtItem' => SessionState' = SessionState /\ session'.item = session.item)
<1> DEFINE w == SessionState
           item == session.item
<1>1. w \in WriterStates /\ item \in Items
    BY WriterStateType
<1>2. w = [id |-> session.id, count |-> session.count, dropped |-> session.dropped_start]
    BY DEF SessionState
<1>3. ASSUME AtItem, AtItem', session'.item = session.item, session'.id = session.id,
             session'.count = session.count, session'.dropped_start = session.dropped_start
      PROVE  /\ WriterState' = WriterState
             /\ AtItem /\ (AtItem' => SessionState' = SessionState /\ session'.item = session.item)
    <2>1. SessionState' = SessionState
        BY <1>3 DEF SessionState
    <2> QED
        BY <1>3, <2>1 DEF WriterState
<1>4. ASSUME AtItem, ~ AtItem',
             [id |-> session'.id, count |-> session'.count, dropped |-> session'.dropped_start] =
                 After(w, item)
      PROVE  /\ WriterState' = WriterState
             /\ AtItem /\ (AtItem' => SessionState' = SessionState /\ session'.item = session.item)
    <2>1. SessionState' = After(w, item)
        BY <1>4 DEF SessionState
    <2> QED
        BY <1>4, <2>1 DEF WriterState
<1>5. CASE Blackbox!MakeDirectory
    <2>1. writer = "mkdir" /\ writer' = "meta" /\ session' = session
        BY <1>5 DEF Blackbox!MakeDirectory
    <2> QED
        BY <2>1, <1>3 DEF AtItem
<1>6. CASE Blackbox!FirstMetadata
    <2>1. writer = "meta" /\ writer' = "get"
        BY <1>6 DEF Blackbox!FirstMetadata
    <2>2. item.kind = "start"
        BY <2>1 DEF WriterIsInSession
    <2>3. session'.id = item.id /\ session'.count = 0 /\ session'.dropped_start = item.dropped
        BY <1>6, SessionEffect
    <2>4. After(w, item) = [id |-> item.id, count |-> 0, dropped |-> item.dropped]
        BY <1>1, <2>2, AfterValue
    <2> QED
        BY <2>1, <2>3, <2>4, <1>4 DEF AtItem
<1>7. CASE Blackbox!AppendRow
    <2>1. writer = "append"
        BY <1>7 DEF Blackbox!AppendRow
    <2>2. item.kind \in {"frame", "odometry"} /\ session.id # None
        BY <2>1 DEF WriterIsInSession
    <2>3. CASE writer' = "write"
        <3>1. /\ session'.item = session.item /\ session'.id = session.id
              /\ session'.count = session.count /\ session'.dropped_start = session.dropped_start
            BY <1>7, <2>3, SessionEffect
        <3> QED
            BY <2>1, <2>3, <3>1, <1>3 DEF AtItem
    <2>4. CASE writer' # "write"
        <3>1. /\ writer' = "get" /\ session'.id = session.id
              /\ session'.dropped_start = session.dropped_start
              /\ item.kind = "frame" => session'.count = session.count + 1
              /\ item.kind # "frame" => session'.count = session.count
            BY <1>7, <2>4, AppendEffect
        <3>2. CASE item.kind = "frame"
            <4>1. w.id # None /\ w.count = session.count
                BY <1>2, <2>2
            <4>2. After(w, item) = [w EXCEPT !.count = w.count + 1]
                BY <1>1, <3>2, <4>1, AfterValue
            <4>3. After(w, item) = [id |-> session.id, count |-> session.count + 1,
                                    dropped |-> session.dropped_start]
                BY <4>2, <1>2
            <4> HIDE DEF w, item
            <4> QED
                BY <2>1, <3>1, <3>2, <4>3, <1>4 DEF AtItem
        <3>3. CASE item.kind = "odometry"
            <4>1. After(w, item) = w
                BY <1>1, <3>3, AfterValue
            <4> QED
                BY <2>1, <3>1, <3>3, <4>1, <1>2, <1>4 DEF AtItem
        <3> QED
            BY <2>2, <3>2, <3>3
    <2> QED
        BY <2>3, <2>4
<1>8. CASE Blackbox!BeginFinish
    <2>1. writer = "flush" /\ writer' \in {"write", "close"}
        BY <1>8 DEF Blackbox!BeginFinish
    <2>2. /\ session'.item = session.item /\ session'.id = session.id
          /\ session'.count = session.count /\ session'.dropped_start = session.dropped_start
        BY <1>8, SessionEffect
    <2> QED
        BY <2>1, <2>2, <1>3 DEF AtItem
<1>9. CASE Blackbox!WriteStream
    <2>1. writer = "write" /\ writer' = "write"
        BY <1>9 DEF Blackbox!WriteStream
    <2>2. /\ session'.item = session.item /\ session'.id = session.id
          /\ session'.count = session.count /\ session'.dropped_start = session.dropped_start
        BY <1>9, SessionEffect
    <2> QED
        BY <2>1, <2>2, <1>3 DEF AtItem
<1>10. CASE Blackbox!ListChunk
    <2>1. writer = "write" /\ writer' \in {"close", "append"}
        BY <1>10 DEF Blackbox!ListChunk
    <2>2. /\ session'.item = session.item /\ session'.id = session.id
          /\ session'.count = session.count /\ session'.dropped_start = session.dropped_start
        BY <1>10, SessionEffect
    <2> QED
        BY <2>1, <2>2, <1>3 DEF AtItem
<1>11. CASE Blackbox!Close
    <2>1. writer = "close" /\ writer' = "get" /\ session' = Blackbox!NoSession
        BY <1>11 DEF Blackbox!Close
    <2>2. item.kind = "end"
        BY <2>1 DEF WriterIsInSession
    <2>3. After(w, item) = NoState
        BY <1>1, <2>2, AfterValue
    <2>4. session'.id = None /\ session'.count = 0 /\ session'.dropped_start = 0
        BY <2>1, NoSessionFields
    <2> QED
        BY <2>1, <2>3, <2>4, <1>4 DEF AtItem, NoState
<1> QED
    BY <1>5, <1>6, <1>7, <1>8, <1>9, <1>10, <1>11 DEF Blackbox!WriterStep

\* The writer at the next item.
LEMMA GetFits ==
    ASSUME ThreadTypes, RecordTypes, WriterIsInSession, QueueFits, Blackbox!Get
    PROVE  QueueFits'
<1> DEFINE w == SessionState
           item == Head(queue)
           h == History
<1>1. /\ writer = "get" /\ queue # <<>> /\ queue \in Seq(Items) /\ queue' = Tail(queue)
      /\ writer' = Blackbox!Taken(item)
    BY DEF Blackbox!Get, RecordTypes
<1>2. item \in Items /\ w \in WriterStates
    BY <1>1, HeadTailProperties, WriterStateType
<1>3. session'.item = item /\ SessionState' = w
    BY SessionEffect DEF SessionState
<1>4. History' = h /\ past'.frames = past.frames /\ past'.dropped = past.dropped
      /\ UNCHANGED <<recorder, session_id>>
    <2>1. UNCHANGED <<recorder, session_id, flights, dropped_frames>>
        BY WriterLeavesLoop DEF Blackbox!WriterStep
    <2>2. past'.frames = past.frames /\ past'.drops = past.drops /\ past'.dropped = past.dropped
        BY GetKeepsHistory
    <2> QED
        BY <2>1, <2>2 DEF History, Over
<1>5. ~ AtItem /\ WriterState = w
    BY <1>1 DEF AtItem, WriterState
<1>6. PICK v \in WriterStates : Replays(h, w, queue, v) /\ IsUpToDate(v)
    BY <1>5 DEF QueueFits
<1> HIDE DEF h
<1>7. Fits(h, w, item) /\ Replays(h, After(w, item), Tail(queue), v)
    BY <1>1, <1>6, ReplayTail
<1>8. WriterState' = After(w, item)
    <2>1. CASE AtItem'
        BY <1>3, <2>1 DEF WriterState
    <2>2. CASE ~ AtItem'
        <3>1. WriterState' = w /\ writer' \in {"get", "done"}
            BY <1>3, <2>2 DEF WriterState, AtItem
        <3>2. CASE item.kind \in {"odometry", "stop"}
            BY <1>2, <3>1, <3>2, AfterValue
        <3>3. CASE item.kind = "frame" /\ session.id = None
            <4>1. w.id = None
                BY <3>3 DEF SessionState
            <4> HIDE DEF w, item
            <4> QED
                BY <1>2, <3>1, <3>3, <4>1, AfterValue
        <3>4. CASE item.kind = "end" /\ session.id # item.id
            <4>1. w.id = session.id
                BY DEF SessionState
            <4>2. w.id = None
                BY <1>7, <3>4, <4>1 DEF Fits
            <4>3. w = NoState
                <5>1. session.id = None /\ session.count = 0 /\ session.dropped_start = 0
                    BY <4>1, <4>2 DEF WriterIsInSession
                <5> QED
                    BY <5>1 DEF SessionState, NoState
            <4>4. After(w, item) = NoState
                <5> HIDE DEF w, item
                <5> QED
                    BY <1>2, <3>4, AfterValue
            <4> QED
                BY <3>1, <4>3, <4>4
        <3>5. \/ item.kind = "stop"
              \/ item.kind \in {"frame", "odometry"} /\ session.id = None
              \/ item.kind = "end" /\ session.id # item.id
            <4> HIDE DEF item
            <4> QED
                BY <1>1, <1>2, <3>1, TakenValue
        <3> QED
            BY <3>2, <3>3, <3>4, <3>5
    <2> QED
        BY <2>1, <2>2
<1>9. IsUpToDate(v)'
    BY <1>4, <1>6 DEF IsUpToDate
<1>10. Replays(History', WriterState', queue', v)
    BY <1>1, <1>4, <1>7, <1>8
<1>11. AtItem' => Fits(History', SessionState', session'.item)
    BY <1>3, <1>4, <1>7
<1> QED
    BY <1>9, <1>10, <1>11 DEF QueueFits

\* A writer that lost its session.
LEMMA FailureFits ==
    ASSUME ThreadTypes, RecordTypes, WriterIsInSession, QueueFits, Blackbox!WriteFails
    PROVE  QueueFits'
<1>1. /\ queue \in Seq(Items) /\ queue' = queue /\ past' = past /\ writer' = "get"
      /\ session' = Blackbox!NoSession
      /\ UNCHANGED <<recorder, session_id, flights, dropped_frames>>
    BY Zenon DEF Blackbox!WriteFails, RecordTypes, Blackbox!dropVars
<1>2. History' = History
    BY <1>1 DEF History, Over
<1>3. ~ AtItem' /\ WriterState' = NoState
    <2>1. ~ AtItem'
        BY <1>1 DEF AtItem
    <2>2. SessionState' = NoState
        BY <1>1, NoSessionFields DEF SessionState, NoState
    <2> QED
        BY <2>1, <2>2 DEF WriterState
<1>4. PICK v \in WriterStates : Replays(History, WriterState, queue, v) /\ IsUpToDate(v)
    BY DEF QueueFits
<1> DEFINE h == History
           w == WriterState
<1>5. Replays(h, NoState, queue, v) \/ Replays(h, NoState, queue, NoState)
    <2>1. Replays(h, w, queue, v)
        BY <1>4
    <2> HIDE DEF h, w
    <2> QED
        BY <1>1, <2>1, ReplayLost
<1>6. IsUpToDate(v)' /\ IsUpToDate(NoState)' /\ NoState \in WriterStates
    <2>1. IsUpToDate(v)'
        BY <1>1, <1>4 DEF IsUpToDate
    <2>2. IsUpToDate(NoState)'
        BY NoStateType DEF IsUpToDate, NoState
    <2> QED
        BY <2>1, <2>2, NoStateType
<1>7. \E u \in WriterStates : Replays(History', WriterState', queue', u) /\ IsUpToDate(u)'
    BY <1>1, <1>2, <1>3, <1>5, <1>6
<1> QED
    BY <1>3, <1>7 DEF QueueFits

\* A process that was killed, is down, or has just started.
LEMMA EmptyFits ==
    ASSUME queue' = <<>>, session' = Blackbox!NoSession, writer' \in {"get", "done"},
           session_id' = None
    PROVE  QueueFits'
<1>1. ~ AtItem'
    BY DEF AtItem
<1>2. WriterState' = NoState
    <2>1. SessionState' = NoState
        BY NoSessionFields DEF SessionState, NoState
    <2> QED
        BY <1>1, <2>1 DEF WriterState
<1>3. NoState \in WriterStates
    BY NoStateType
<1>4. Replays(History', WriterState', queue', NoState)
    <2> DEFINE h == History'
    <2> HIDE DEF h
    <2>1. Replays(h, NoState, <<>>, NoState)
        BY <1>3, ReplayEmpty
    <2> QED
        BY <2>1, <1>2 DEF h
<1>5. IsUpToDate(NoState)'
    BY DEF IsUpToDate
<1> QED
    BY <1>1, <1>3, <1>4, <1>5 DEF QueueFits

\* What the control loop and the MAVLink thread put fits the history.
LEMMA LoopFits ==
    ASSUME ThreadTypes, RecordTypes, FlightsAreNumbered, WriterIsInSession, StartsAreNew, QueueFits,
           ThreadTypes', RecordTypes', Blackbox!Next,
           Blackbox!MainStep \/ Blackbox!OdometryStep
    PROVE  QueueFits'
<1> USE RecorderConstants
<1> DEFINE h == History
           g == History'
           w == WriterState
           s == session_id
           Now(u) == session_id' # None /\ recorder' \notin {"reset", "start"} =>
                         /\ u.id \in {None, session_id'}
                         /\ u.id # None =>
                              u.count = Len(past'.frames[session_id']) /\ u.dropped = past'.dropped
<1>1. /\ queue \in Seq(Items) /\ session_id \in Blackbox!Flights \cup {None}
      /\ sample_index \in Nat /\ dropped_frames \in Nat /\ dropped_frames' \in Nat
      /\ past.frames \in [Blackbox!Flights -> Seq(Nat)] /\ past.dropped \in Int
      /\ past.drops \in [Blackbox!Flights -> Int] /\ past \in PastStates
      /\ flights \in Nat /\ session_id \in {None, flights}
    <2>1. /\ session_id \in Blackbox!Flights \cup {None} /\ sample_index \in Nat
          /\ dropped_frames \in Nat /\ dropped_frames' \in Nat /\ flights \in Nat
        BY DEF ThreadTypes
    <2>2. queue \in Seq(Items) /\ past \in PastStates
        BY DEF RecordTypes
    <2>3. /\ past.frames \in [Blackbox!Flights -> Seq(Nat)] /\ past.dropped \in Int
          /\ past.drops \in [Blackbox!Flights -> Int]
        BY <2>2 DEF PastStates
    <2>4. session_id \in {None, flights}
        BY DEF FlightsAreNumbered
    <2> QED
        BY <2>1, <2>2, <2>3, <2>4
<1>2. h \in Histories
    <2> DEFINE o == {x \in Blackbox!Flights : Over(x)}
    <2>1. o \in SUBSET Blackbox!Flights
        OBVIOUS
    <2> HIDE DEF o
    <2>2. [frames |-> past.frames, drops |-> past.drops, dropped |-> dropped_frames, over |-> o]
              \in Histories
        BY <1>1, <2>1, HistoryTypes
    <2> QED
        BY <2>2 DEF o, History
<1>3. g \in Histories
    <2> DEFINE o == {x \in Blackbox!Flights : Over(x)'}
    <2>1. o \in SUBSET Blackbox!Flights /\ past' \in PastStates
        BY DEF RecordTypes
    <2> HIDE DEF o
    <2>2. [frames |-> past'.frames, drops |-> past'.drops, dropped |-> dropped_frames', over |-> o]
              \in Histories
        BY <1>1, <2>1, HistoryTypes
    <2> QED
        BY <2>2 DEF o, History
<1>4. Continues(h, g)
    BY HistoryContinues
<1>5. dropped_frames <= dropped_frames'
    <2>1. CASE Blackbox!Record
        <3>1. Blackbox!PutFrame(Blackbox!Frame(sample_index))
            BY <2>1 DEF Blackbox!Record
        <3>2. dropped_frames' = dropped_frames \/ dropped_frames' = dropped_frames + 1
            BY <3>1 DEF Blackbox!PutFrame, Blackbox!dropVars
        <3> QED
            BY <3>2, <1>1
    <2>2. CASE ~ Blackbox!Record
        <3>1. dropped_frames' = dropped_frames
            BY Zenon, <2>2 DEF Blackbox!MainStep, Blackbox!OdometryStep, Blackbox!BeginFlight,
               Blackbox!ResetSamples, Blackbox!PutStart, Blackbox!CaptureFails, Blackbox!Disarm,
               Blackbox!PutEnd, Blackbox!Stop, Blackbox!OdometryCheck, Blackbox!OdometryRow,
               Blackbox!OdometryPut, Blackbox!dropVars
        <3> QED
            BY <3>1, <1>1
    <2> QED
        BY <2>1, <2>2
<1>6. h.dropped <= g.dropped /\ g.frames = past'.frames /\ g.drops = past'.drops
      /\ g.dropped = dropped_frames' /\ g.over = {x \in Blackbox!Flights : Over(x)'}
      /\ h.frames = past.frames
    BY <1>5 DEF History
<1>7. UNCHANGED <<writer, session, disk>>
    BY LoopLeavesWriter
<1>8. (AtItem' <=> AtItem) /\ SessionState' = SessionState /\ session'.item = session.item
    BY <1>7 DEF AtItem, SessionState
<1>9. WriterState' = w
    BY <1>8 DEF WriterState
<1>10. SessionState \in WriterStates /\ session.item \in Items /\ w \in WriterStates
    BY WriterStateType
<1>11. PICK v \in WriterStates : Replays(h, w, queue, v) /\ IsUpToDate(v)
    BY DEF QueueFits
<1>12. AtItem => Fits(h, SessionState, session.item)
    BY DEF QueueFits
<1> HIDE DEF h, g, w
<1>13. AtItem => Fits(g, SessionState, session.item)
    BY <1>2, <1>3, <1>4, <1>6, <1>10, <1>12, FitsKept
<1>14. Replays(g, w, queue, v)
    BY <1>1, <1>2, <1>3, <1>4, <1>6, <1>11, ReplaysKept
<1>15. SUFFICES \E u \in WriterStates : Replays(g, w, queue', u) /\ Now(u)
    BY <1>8, <1>9, <1>13 DEF QueueFits, g, IsUpToDate
<1> HIDE DEF Now
<1>16. ASSUME NEW item \in Items, NEW q \in Seq(Items), Replays(g, w, q, v), Fits(g, v, item),
              queue' = Append(q, item), Now(After(v, item))
       PROVE  \E u \in WriterStates : Replays(g, w, queue', u) /\ Now(u)
    <2>1. After(v, item) \in WriterStates
        BY <1>16, AfterType
    <2>2. Replays(g, w, queue', After(v, item))
        BY <1>16, ReplayAppend
    <2> QED
        BY <1>16, <2>1, <2>2
<1>17. ASSUME queue' = queue, Now(v)
       PROVE  \E u \in WriterStates : Replays(g, w, queue', u) /\ Now(u)
    BY <1>14, <1>17
<1>18. s # None /\ recorder \notin {"reset", "start"} =>
          /\ v.id \in {None, s}
          /\ v.id # None => v.count = Len(past.frames[s]) /\ v.dropped = past.dropped
    BY <1>11 DEF IsUpToDate
<1>19. v.count \in Nat /\ v.dropped \in Nat
    BY <1>11 DEF WriterStates
\* Nothing is put.
<1>20. CASE Blackbox!BeginFlight \/ Blackbox!ResetSamples
    <2>1. queue' = queue /\ recorder' \in {"reset", "start"}
        BY <1>20 DEF Blackbox!BeginFlight, Blackbox!ResetSamples
    <2> QED
        BY <2>1, <1>17 DEF Now
<1>21. CASE Blackbox!CaptureFails \/ Blackbox!Disarm \/ Blackbox!OdometryCheck \/ Blackbox!OdometryRow
    <2>1. /\ queue' = queue /\ session_id' = session_id /\ past' = past
          /\ recorder' = recorder \/ recorder \notin {"reset", "start"}
        BY <1>21 DEF Blackbox!CaptureFails, Blackbox!Disarm, Blackbox!OdometryCheck,
           Blackbox!OdometryRow, Blackbox!appVars
    <2>2. Now(v)
        BY <2>1, <1>18 DEF Now
    <2> QED
        BY <2>1, <2>2, <1>17
<1>22. CASE Blackbox!OdometryPut
    <2>1. session_id' = session_id /\ past' = past /\ recorder' = recorder
        BY <1>22 DEF Blackbox!OdometryPut, Blackbox!appVars
    <2>2. Now(v)
        BY <2>1, <1>18 DEF Now
    <2> DEFINE item == Blackbox!Odometry(odo.start)
    <2>3. item \in Items /\ item.kind = "odometry"
        BY ItemsArePut DEF ThreadTypes, Blackbox!Odometry
    <2>4. queue' = queue \/ queue' = Append(queue, item)
        BY <1>22 DEF Blackbox!OdometryPut
    <2> HIDE DEF item
    <2>5. Fits(g, v, item) /\ After(v, item) = v
        BY <2>3, <1>11, AfterValue DEF Fits
    <2> QED
        BY <2>2, <2>3, <2>4, <2>5, <1>1, <1>14, <1>16, <1>17
\* A start, a frame and an end are put.
<1>23. CASE Blackbox!PutStart
    <2> DEFINE item == Blackbox!StartFlight(s)
    <2>1. /\ recorder = "start" /\ recorder' = "frame" /\ queue' = Append(queue, item)
          /\ session_id' = s /\ past' = [past EXCEPT !.dropped = dropped_frames]
        BY <1>23 DEF Blackbox!PutStart
    <2>2. s \in Blackbox!Flights
        BY <2>1, <1>1 DEF FlightsAreNumbered
    <2>3. /\ item \in Items /\ item.kind = "start" /\ item.id = s
          /\ item.dropped = dropped_frames
        BY <2>2, <1>1, ItemsArePut DEF Blackbox!StartFlight
    <2>4. past'.frames = past.frames /\ past'.dropped = dropped_frames
        BY <2>1, <1>1 DEF PastStates
    <2>5. past.frames[s] = <<>> /\ Len(<<>>) = 0
        BY <2>1, EmptySeq DEF StartsAreNew
    <2> HIDE DEF item
    <2>6. Fits(g, v, item) /\ After(v, item) = [id |-> s, count |-> 0, dropped |-> dropped_frames]
        BY <2>3, <1>11, AfterValue DEF Fits
    <2>7. Now([id |-> s, count |-> 0, dropped |-> dropped_frames])
        BY <2>1, <2>4, <2>5 DEF Now
    <2> QED
        BY <2>1, <2>3, <2>6, <2>7, <1>1, <1>14, <1>16
<1>24. CASE Blackbox!Record
    <2> DEFINE item == Blackbox!Frame(sample_index)
               f == past.frames[s]
    <2>1. /\ recorder \in {"frame", "idle"} /\ recorder' = "idle" /\ session_id' = s
          /\ Blackbox!PutFrame(item)
          /\ past' = IF dropped_frames' > dropped_frames THEN past
                     ELSE [past EXCEPT !.frames[s] = Append(@, sample_index)]
        BY <1>24 DEF Blackbox!Record
    <2>2. s \in Blackbox!Flights
        BY <1>24, <1>1 DEF Blackbox!Record, FlightsAreNumbered
    <2>3. item \in Items /\ item.kind = "frame" /\ item.row = sample_index
        BY <1>1, ItemsArePut DEF Blackbox!Frame
    <2>4. f \in Seq(Nat) /\ Len(f) \in Nat
        BY <2>2, <1>1, LenProperties
    <2>5. /\ v.id \in {None, s}
          /\ v.id # None => v.count = Len(f) /\ v.dropped = past.dropped
        BY <2>1, <2>2, <1>18
    <2>6. CASE queue' = queue /\ dropped_frames' = dropped_frames + 1
        <3>1. past' = past
            BY <2>1, <2>6, <1>1
        <3>2. Now(v)
            BY <2>1, <2>5, <3>1 DEF Now
        <3> QED
            BY <2>6, <3>2, <1>17
    <2>7. ASSUME dropped_frames' = dropped_frames
          PROVE  Fits(g, v, item) /\ Now(After(v, item))
        <3> DEFINE a == Append(f, sample_index)
        <3>1. past' = [past EXCEPT !.frames = [past.frames EXCEPT ![s] = a]]
            BY <2>1, <2>7, <1>1
        <3>2. past'.frames[s] = a /\ past'.dropped = past.dropped
            <4> DEFINE F == [past.frames EXCEPT ![s] = a]
            <4>1. F[s] = a
                BY <2>2, <1>1
            <4> HIDE DEF F, a
            <4>2. past'.frames = F /\ past'.dropped = past.dropped
                BY <3>1, <1>1 DEF PastStates, F
            <4> QED
                BY <4>1, <4>2
        <3>3. Len(a) = Len(f) + 1 /\ a[Len(f) + 1] = sample_index
            BY <2>4, <1>1, AppendProperties
        <3> HIDE DEF item, f, a
        <3>4. Fits(g, v, item)
            <4>1. item.kind # "end" /\ Len(f) < Len(f) + 1
                BY <2>3, <2>4
            <4>2. v.id # None => v.id = s /\ v.count = Len(f)
                BY <2>5
            <4>3. g.frames[s] = a
                BY <3>2, <1>6
            <4>4. v.id # None => v.count < Len(g.frames[v.id]) /\ g.frames[v.id][v.count + 1] = item.row
                BY <2>3, <3>3, <4>1, <4>2, <4>3
            <4> QED
                BY <4>1, <4>4 DEF Fits
        <3>5. CASE v.id = None
            <4>1. After(v, item) = v
                BY <2>3, <3>5, <1>11, AfterValue
            <4> QED
                BY <3>4, <3>5, <4>1 DEF Now
        <3>6. CASE v.id # None
            <4>1. After(v, item) = [v EXCEPT !.count = v.count + 1]
                BY <2>3, <3>6, <1>11, AfterValue
            <4>2. After(v, item).id = s /\ After(v, item).count = Len(a)
                  /\ After(v, item).dropped = past.dropped
                BY <2>5, <3>3, <3>6, <4>1, <1>11 DEF WriterStates
            <4> DEFINE u == After(v, item)
            <4>3. u.id = s /\ u.count = Len(past'.frames[s]) /\ u.dropped = past'.dropped
                BY <3>2, <4>2
            <4> HIDE DEF u
            <4>4. Now(u)
                BY <2>1, <4>3 DEF Now
            <4> QED
                BY <3>4, <4>4 DEF u
        <3> QED
            BY <3>5, <3>6
    <2>8. CASE queue' = Append(queue, item) /\ dropped_frames' = dropped_frames
        <3> HIDE DEF item
        <3> QED
            BY <2>3, <2>7, <2>8, <1>1, <1>14, <1>16
    <2>9. ASSUME dropped_frames' = dropped_frames, NEW k \in 1..Len(queue),
                 queue[k].kind = "odometry", queue' = Append(Blackbox!RemoveAt(queue, k), item)
          PROVE  \E u \in WriterStates : Replays(g, w, queue', u) /\ Now(u)
        <3> HIDE DEF item
        <3> DEFINE q == Blackbox!RemoveAt(queue, k)
        <3>1. q \in Seq(Items) /\ Replays(g, w, q, v)
            BY <2>9, <1>1, <1>14, ReplayRemove, RemoveAtProperties
        <3>2. queue' = Append(q, item)
            BY <2>9
        <3> HIDE DEF q
        <3> QED
            BY <2>3, <2>7, <2>9, <3>1, <3>2, <1>16
    <2>10. \/ queue' = Append(queue, item) /\ dropped_frames' = dropped_frames
           \/ /\ \E k \in 1..Len(queue) : /\ queue[k].kind = "odometry"
                                          /\ queue' = Append(Blackbox!RemoveAt(queue, k), item)
              /\ dropped_frames' = dropped_frames
           \/ queue' = queue /\ dropped_frames' = dropped_frames + 1
        <3> HIDE DEF item
        <3> QED
            BY <2>1, <1>1, PutFrameEffect
    <2> QED
        BY <2>6, <2>8, <2>9, <2>10
<1>25. CASE Blackbox!PutEnd
    <2> DEFINE item == Blackbox!EndFlight(s, TRUE)
               n == dropped_frames - past.dropped
    <2>1. /\ recorder = "end" /\ queue' = Append(queue, item) /\ session_id' = None
          /\ past' = [past EXCEPT !.drops = [past.drops EXCEPT ![s] = n]]
          /\ flights' = flights /\ dropped_frames' = dropped_frames
        BY <1>25 DEF Blackbox!PutEnd, Blackbox!countVars, Blackbox!dropVars
    <2>2. s \in Blackbox!Flights
        BY <2>1, <1>1 DEF FlightsAreNumbered
    <2>3. item \in Items /\ item.kind = "end" /\ item.id = s
        BY <2>2, ItemsArePut DEF Blackbox!EndFlight
    <2>4. past'.frames = past.frames /\ past'.drops[s] = n
        <3> DEFINE D == [past.drops EXCEPT ![s] = n]
        <3>1. D[s] = n
            BY <2>2, <1>1
        <3> HIDE DEF D
        <3>2. past'.drops = D /\ past'.frames = past.frames
            BY <2>1, <1>1 DEF PastStates, D
        <3> QED
            BY <3>1, <3>2
    <2>5. s \in g.over
        <3>1. g.over = {x \in Blackbox!Flights : x \in 1..flights' /\ x # session_id'}
            BY <1>6 DEF Over
        <3>2. s \in 1..flights' /\ s # session_id'
            BY <2>1, <2>2, <1>1
        <3> QED
            BY <2>2, <3>1, <3>2
    <2>6. /\ v.id \in {None, s}
          /\ v.id # None => v.count = Len(past.frames[s]) /\ v.dropped = past.dropped
        BY <2>1, <2>2, <1>18
    <2>7. g.frames[s] = past.frames[s] /\ g.drops[s] = dropped_frames - past.dropped
          /\ g.dropped = dropped_frames
        BY <2>1, <2>4, <1>6
    <2> HIDE DEF item, n
    <2>8. Fits(g, v, item)
        <3>1. v.id # None => v.count = Len(g.frames[s]) /\ g.drops[s] <= g.dropped - v.dropped
            BY <2>6, <2>7, <1>1
        <3> QED
            BY <2>3, <2>5, <2>6, <3>1 DEF Fits
    <2>9. Now(After(v, item))
        BY <2>1 DEF Now
    <2> QED
        BY <2>1, <2>3, <2>8, <2>9, <1>1, <1>14, <1>16
\* The writer is stopped.
<1>26. CASE Blackbox!Stop
    <2> DEFINE e == Blackbox!EndFlight(s, FALSE)
               x == Blackbox!StopWriter
    <2>1. recorder = "idle" /\ session_id' = None /\ queue' = queue \o Blackbox!StopItems
        BY <1>26 DEF Blackbox!Stop
    <2>2. session_id \in Blackbox!Flights \/ ~ flight_active
        BY <1>1 DEF FlightsAreNumbered
    <2>3. x \in Items /\ x.kind = "stop" /\ \A u : Now(u)
        BY <2>1, ItemsArePut DEF Blackbox!StopWriter, Now
    <2>4. queue' = IF flight_active THEN Append(Append(queue, e), x) ELSE Append(queue, x)
        BY <2>1, <2>2, <1>1, StopItemsAreAppended
    <2>5. \A u : Fits(g, u, x)
        BY <2>3 DEF Fits
    <2>6. CASE flight_active
        <3>1. s \in Blackbox!Flights
            BY <2>2, <2>6
        <3>2. e \in Items /\ e.kind = "end" /\ e.id = s /\ ~ e.clean
            BY <3>1, ItemsArePut DEF Blackbox!EndFlight
        <3>3. v.id \in {None, s}
            BY <2>1, <3>1, <1>18
        <3> HIDE DEF e, x
        <3>4. Fits(g, v, e)
            BY <3>2, <3>3 DEF Fits
        <3> DEFINE q == Append(queue, e)
                   u == After(v, e)
        <3>5. q \in Seq(Items)
            BY <3>2, <1>1, AppendProperties
        <3>6. u \in WriterStates
            BY <3>2, <1>11, AfterType
        <3>7. Replays(g, w, q, u)
            BY <3>2, <3>4, <1>1, <1>11, <1>14, ReplayAppend
        <3>8. queue' = Append(q, x)
            BY <2>4, <2>6
        <3> HIDE DEF q, u
        <3>9. Replays(g, w, Append(q, x), After(u, x))
            BY <2>3, <2>5, <3>5, <3>6, <3>7, ReplayAppend
        <3>10. After(u, x) \in WriterStates
            BY <2>3, <3>6, AfterType
        <3> QED
            BY <2>3, <3>8, <3>9, <3>10
    <2>7. CASE ~ flight_active
        <3> HIDE DEF x
        <3>1. queue' = Append(queue, x)
            BY <2>4, <2>7
        <3> QED
            BY <2>3, <2>5, <3>1, <1>1, <1>14, <1>16
    <2> QED
        BY <2>6, <2>7
<1> QED
    BY <1>20, <1>21, <1>22, <1>23, <1>24, <1>25, <1>26
    DEF Blackbox!MainStep, Blackbox!OdometryStep

LEMMA QueueFitsKept ==
    ASSUME ThreadTypes, RecordTypes, FlightsAreNumbered, DownIsEmpty, WriterIsInSession,
           StartsAreNew, QueueFits, ThreadTypes', RecordTypes', Blackbox!Next
    PROVE  QueueFits'
<1>1. CASE Blackbox!MainStep \/ Blackbox!OdometryStep
    BY <1>1, LoopFits
<1>2. CASE Blackbox!WriterStep /\ ~ Blackbox!Get
    <2>1. /\ WriterState' = WriterState
          /\ AtItem /\ (AtItem' => SessionState' = SessionState /\ session'.item = session.item)
        BY <1>2, WriterDoesItem
    <2>2. past' = past /\ UNCHANGED <<recorder, session_id, queue, flights, dropped_frames>>
        BY <1>2, WriterLeavesLoop
    <2>3. SameLoop
        BY <2>2 DEF SameLoop, History, Over
    <2>4. AtItem' => Fits(History, SessionState', session'.item)
        BY <2>1 DEF QueueFits
    <2> QED
        BY <2>1, <2>3, <2>4, QueueStillFits
<1>3. CASE Blackbox!Get
    BY <1>3, GetFits
<1>4. CASE Blackbox!WriteFails
    BY <1>4, FailureFits
<1>5. CASE Blackbox!Crash
    BY <1>5, EmptyFits DEF Blackbox!Crash
<1>6. CASE Blackbox!Recover \/ Blackbox!RecoverFails \/ Blackbox!Start
    <2>1. recorder = "down"
        BY <1>6 DEF Blackbox!Recover, Blackbox!RecoverFails, Blackbox!Start
    <2>2. /\ queue = <<>> /\ writer = "done" /\ session = Blackbox!NoSession /\ session_id = None
        BY <2>1 DEF DownIsEmpty, FlightsAreNumbered
    <2>3. queue' = queue /\ session' = session /\ session_id' = session_id
        BY Zenon, <1>6 DEF Blackbox!Recover, Blackbox!RecoverFails, Blackbox!Start, Blackbox!appVars
    <2>4. writer' \in {writer, "get"}
        BY <1>6 DEF Blackbox!Recover, Blackbox!RecoverFails, Blackbox!Start
    <2> QED
        BY <2>2, <2>3, <2>4, EmptyFits
<1>7. CASE Blackbox!Stopped
    <2>1. UNCHANGED <<recorder, session_id, queue, flights, dropped_frames, past, writer, session>>
        BY Zenon, <1>7 DEF Blackbox!Stopped, Blackbox!vars, Blackbox!appVars, Blackbox!writeVars,
           Blackbox!dropVars, Blackbox!countVars
    <2>2. SameLoop
        BY <2>1 DEF SameLoop, History, Over
    <2>3. (AtItem' <=> AtItem) /\ SessionState' = SessionState
        BY <2>1 DEF AtItem, SessionState
    <2>4. WriterState' = WriterState
        BY <2>1, <2>3 DEF WriterState
    <2>5. AtItem' => Fits(History, SessionState', session'.item)
        BY <2>1, <2>3 DEF QueueFits
    <2> QED
        BY <2>2, <2>4, <2>5, QueueStillFits
<1> QED
    BY <1>1, <1>2, <1>3, <1>4, <1>5, <1>6, <1>7 DEF Blackbox!Next

----------------------------------------------------------------------------
(* The recorder is sound.                                                     *)

LEMMA RecorderInit ==
    ASSUME Blackbox!Init
    PROVE  RecorderInvariant
<1> USE RecorderConstants
<1>1. /\ recorder = "down" /\ enabled = FALSE /\ flight_active = FALSE
      /\ session_id = None /\ session_start = 0 /\ sample_index = 0
      /\ odo = Blackbox!NoSample /\ queue = <<>> /\ writer = "done"
      /\ session = Blackbox!NoSession /\ dropped_frames = 0 /\ flights = 0
      /\ disk = [s \in Blackbox!Flights |-> Blackbox!NoDirectory]
      /\ past = [frames |-> [s \in Blackbox!Flights |-> <<>>],
                 drops |-> [s \in Blackbox!Flights |-> 0],
                 dropped |-> 0, lost |-> FALSE, earlier |-> 0]
    BY DEF Blackbox!Init
<1>2. <<>> \in Seq(Nat) /\ <<>> \in Seq(RowSets) /\ <<>> \in Seq(Items)
    BY EmptySeq
<1>3. ThreadTypes
    <2>1. 0 \in 0..MaxFlights
        OBVIOUS
    <2> QED
        BY <1>1, <2>1 DEF ThreadTypes, Blackbox!NoSample
<1>4. /\ Blackbox!NoDirectory \in Directories
      /\ Blackbox!NoDirectory.status = None /\ Blackbox!NoDirectory.chunks = <<>>
      /\ Blackbox!NoDirectory.reason = None
    BY <1>2 DEF Blackbox!NoDirectory, Directories
<1>5. \A s \in Blackbox!Flights : disk[s] = Blackbox!NoDirectory /\ past.frames[s] = <<>>
    BY <1>1
<1>6. RecordTypes
    <2>1. disk \in DiskStates
        BY <1>1, <1>4 DEF DiskStates
    <2>2. past \in PastStates
        <3> DEFINE f == [s \in Blackbox!Flights |-> <<>>]
                   d == [s \in Blackbox!Flights |-> 0]
        <3>1. f \in [Blackbox!Flights -> Seq(Nat)] /\ d \in [Blackbox!Flights -> Int]
            BY <1>2
        <3>2. past = [frames |-> f, drops |-> d, dropped |-> 0, lost |-> FALSE, earlier |-> 0]
            BY <1>1
        <3> HIDE DEF f, d
        <3> QED
            BY <3>1, <3>2 DEF PastStates
    <2> QED
        BY <1>1, <1>2, <2>1, <2>2, NoSessionType DEF RecordTypes
<1>7. BufferIsBounded
    <2>1. Blackbox!TelemetryCount(queue) = 0
        <3>1. DOMAIN queue = {}
            BY <1>1, EmptySeq
        <3>2. TelemetryAt(queue) = {}
            BY <3>1 DEF TelemetryAt
        <3>3. Blackbox!TelemetryCount(queue) = Cardinality(TelemetryAt(queue))
            BY <1>1, <1>2, TelemetryIsCounted
        <3> QED
            BY <3>2, <3>3, FS_EmptySet
    <2> QED
        BY <2>1 DEF BufferIsBounded
<1>8. FlightsAreNumbered /\ DownIsEmpty
    BY <1>1 DEF FlightsAreNumbered, DownIsEmpty
<1>9. WriterIsInSession /\ SessionIsPrefix
    BY <1>1, NoSessionFields DEF WriterIsInSession, SessionIsPrefix, AtItem
<1>10. StartsAreNew
    BY <1>1, <1>4, <1>5, NoStarts DEF StartsAreNew, IsNew
<1>11. DirectoriesAreClosed
    BY <1>4, <1>5 DEF DirectoriesAreClosed
<1>12. FilesAreWritten
    <2>1. DOMAIN <<>> = {}
        BY EmptySeq
    <2> QED
        BY <1>1, <1>4, <1>5, <2>1 DEF FilesAreWritten
<1>13. QueueFits
    <2>1. ~ AtItem
        BY <1>1 DEF AtItem
    <2>2. WriterState = NoState
        <3>1. SessionState = NoState
            BY <1>1, NoSessionFields DEF SessionState, NoState
        <3> QED
            BY <2>1, <3>1 DEF WriterState
    <2>3. NoState \in WriterStates
        BY NoStateType
    <2>4. Replays(History, WriterState, queue, NoState)
        <3> DEFINE h == History
        <3> HIDE DEF h
        <3>1. Replays(h, NoState, <<>>, NoState)
            BY <2>3, ReplayEmpty
        <3> QED
            BY <3>1, <2>2, <1>1 DEF h
    <2>5. IsUpToDate(NoState)
        BY <1>1 DEF IsUpToDate
    <2> QED
        BY <2>1, <2>3, <2>4, <2>5 DEF QueueFits
<1> QED
    BY <1>3, <1>6, <1>7, <1>8, <1>9, <1>10, <1>11, <1>12, <1>13 DEF RecorderInvariant

LEMMA RecorderStep ==
    ASSUME RecorderInvariant, [Next]_vars
    PROVE  RecorderInvariant'
<1>1. CASE Blackbox!Next
    <2>1. /\ ThreadTypes /\ RecordTypes /\ BufferIsBounded
          /\ FlightsAreNumbered /\ DownIsEmpty /\ WriterIsInSession /\ SessionIsPrefix
          /\ StartsAreNew /\ DirectoriesAreClosed /\ FilesAreWritten /\ QueueFits
        BY DEF RecorderInvariant
    <2>2. AtItem => Fits(History, SessionState, session.item)
        BY <2>1 DEF QueueFits
    <2>3. ThreadTypes' /\ RecordTypes'
        BY <1>1, <2>1, RecorderTypesKept
    <2>4. BufferIsBounded' /\ FlightsAreNumbered' /\ DownIsEmpty'
        BY <1>1, <2>1, BufferKept, FlightsKept, DownKept
    <2>5. WriterIsInSession' /\ SessionIsPrefix'
        BY <1>1, <2>1, <2>2, WriterKept, SessionPrefixKept
    <2>6. StartsAreNew' /\ FilesAreWritten'
        BY <1>1, <2>1, StartsKept, FilesKept
    <2>7. DirectoriesAreClosed'
        BY <1>1, <2>1, <2>2, DirectoriesKept
    <2>8. QueueFits'
        BY <1>1, <2>1, <2>3, QueueFitsKept
    <2> QED
        BY <2>3, <2>4, <2>5, <2>6, <2>7, <2>8 DEF RecorderInvariant
<1>2. CASE UNCHANGED blackboxVars
    <2>1. UNCHANGED <<recorder, enabled, flight_active, session_id, session_start, sample_index,
                      unrecovered, odo, queue, writer, session, dropped_frames, disk, flights, past>>
        BY Zenon, <1>2 DEF blackboxVars
    <2>2. ThreadTypes' /\ RecordTypes' /\ BufferIsBounded'
        BY Zenon, <2>1 DEF RecorderInvariant, ThreadTypes, RecordTypes, BufferIsBounded
    <2>3. FlightsAreNumbered' /\ DownIsEmpty'
        BY Zenon, <2>1 DEF RecorderInvariant, FlightsAreNumbered, DownIsEmpty
    <2>4. WriterIsInSession' /\ SessionIsPrefix'
        BY Zenon, <2>1 DEF RecorderInvariant, WriterIsInSession, SessionIsPrefix, AtItem
    <2>5. StartsAreNew'
        BY <2>1 DEF RecorderInvariant, StartsAreNew, IsNew
    <2>6. DirectoriesAreClosed'
        BY <2>1 DEF RecorderInvariant, DirectoriesAreClosed, Over
    <2>7. FilesAreWritten'
        BY <2>1 DEF RecorderInvariant, FilesAreWritten
    <2>8. QueueFits'
        <3>1. SameLoop /\ (AtItem' <=> AtItem) /\ SessionState' = SessionState
            BY <2>1 DEF SameLoop, History, Over, AtItem, SessionState
        <3>2. WriterState' = WriterState /\ session'.item = session.item
            BY <2>1, <3>1 DEF WriterState
        <3>3. AtItem' => Fits(History, SessionState', session'.item)
            BY <3>1, <3>2 DEF RecorderInvariant, QueueFits
        <3> QED
            BY <3>1, <3>2, <3>3, QueueStillFits DEF RecorderInvariant
    <2> QED
        BY <2>2, <2>3, <2>4, <2>5, <2>6, <2>7, <2>8 DEF RecorderInvariant
<1> QED
    BY Zenon, <1>1, <1>2
       DEF Next, vars, MavlinkMoves, ParametersMoves, BlackboxMoves, Moves

LEMMA RecorderIsSound ==
    ASSUME RecorderInvariant
    PROVE  RecordIsSound
<1> USE RecorderConstants
<1>1. /\ ThreadTypes /\ RecordTypes /\ BufferIsBounded /\ FlightsAreNumbered
      /\ DirectoriesAreClosed /\ FilesAreWritten
    BY DEF RecorderInvariant
<1>2. Blackbox!TypeOK
    <2>1. session.id \in Blackbox!Flights \cup {None}
        BY <1>1 DEF RecordTypes, SessionStates
    <2> QED
        BY <1>1, <2>1 DEF Blackbox!TypeOK, ThreadTypes, BufferIsBounded, FlightsAreNumbered
<1>3. Blackbox!CompleteIsComplete
    <2> SUFFICES ASSUME NEW s \in Blackbox!Flights, disk[s].status = "complete"
                 PROVE  /\ FramesOf(disk[s].chunks) = past.frames[s]
                        /\ disk[s].count = Len(FramesOf(disk[s].chunks))
        BY DEF Blackbox!CompleteIsComplete, FramesOf
    <2> QED
        BY <1>1 DEF DirectoriesAreClosed
<1>4. Blackbox!DropsAreReported
    BY <1>1 DEF Blackbox!DropsAreReported, DirectoriesAreClosed, RecordTypes, PastStates, DiskStates,
       Directories
<1>5. Blackbox!ListedChunksExist
    <2> SUFFICES ASSUME NEW s \in Blackbox!Flights, NEW i \in DOMAIN Blackbox!Streams
                 PROVE  Blackbox!Loaded(s, Blackbox!Streams[i]) \subseteq disk[s].files
        BY DEF Blackbox!ListedChunksExist, Blackbox!Sessions
    <2> DEFINE x == Blackbox!Streams[i]
    <2>1. x \in StreamNames
        BY DEF Blackbox!Streams, StreamNames
    <2> HIDE DEF x
    <2>2. \A j \in DOMAIN disk[s].chunks :
             disk[s].chunks[j][x] # <<>> => [chunk |-> j - 1, stream |-> x] \in disk[s].files
        BY <1>1, <2>1 DEF FilesAreWritten
    <2>3. Blackbox!Loaded(s, x) \subseteq disk[s].files
        BY <2>2 DEF Blackbox!Loaded
    <2> QED
        BY <2>3 DEF x
<1>6. Blackbox!RestartClosesSessions
    <2> SUFFICES ASSUME NEW s \in 1..past.earlier, recorder # "down"
                 PROVE  /\ disk[s].status = "recording" => s \in unrecovered
                        /\ disk[s].reason = "interrupted" => ~ disk[s].tmp
        BY DEF Blackbox!RestartClosesSessions
    <2>1. s \in Blackbox!Flights /\ s <= past.earlier
        BY <1>1 DEF RecordTypes, PastStates, Blackbox!Flights
    <2> QED
        BY <1>1, <2>1 DEF DirectoriesAreClosed
<1> QED
    BY <1>2, <1>3, <1>4, <1>5, <1>6 DEF RecordIsSound

\* What the recorder leaves on disk is sound, whatever is dropped, fails or is killed:
\* a complete session holds every frame its flight's buffer took, and counts its
\* drops; every listed chunk is there; a start closes every session it finds open
\* whose recovery does not fail, and leaves no half-written file of those it closes.
THEOREM RecordSound == Spec => []RecordIsSound
<1>1. Init => RecorderInvariant
    BY RecorderInit DEF Init
<1>2. RecorderInvariant /\ [Next]_vars => RecorderInvariant'
    BY RecorderStep
<1>3. RecorderInvariant => RecordIsSound
    BY RecorderIsSound
<1> QED
    BY <1>1, <1>2, <1>3, PTL DEF Spec

=============================================================================
