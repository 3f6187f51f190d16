---------------------------- MODULE MspStack_proofs ----------------------------
(* The MSP side.  The command dispatcher for every set of keys, intervals    *)
(* and frames, and every interleaving of set_rc, repeats, failures and stop; *)
(* below it, that frames, payloads and late answers are read right, for      *)
(* every frame, payload, value and number of requests.                       *)
EXTENDS MspStack, SequenceTheorems, FiniteSetTheorems, WellFoundedInduction, TLAPS

----------------------------------------------------------------------------
(* Type correctness.                                                        *)

\* An item of the heap is an item of its type, and carries a token.
LEMMA ItemType ==
    ASSUME NEW k \in Keys, NEW t \in Tokens, NEW c \in Channels \cup {None}, NEW d \in Int
    PROVE  Item(k, t, c, d) \in Items
BY DEF Item, Items

\* The dispatcher starts with one item per telemetry command.
LEMMA InitType == Init => TypeOK
<1> SUFFICES ASSUME Init PROVE TypeOK
    OBVIOUS
<1>1. PICK t \in [Telemetry -> Tokens] :
        /\ heap = {Item(k, t[k], None, 0) : k \in Telemetry}
        /\ active = [k \in Keys |-> IF k = "rc" THEN None ELSE t[k]]
    BY DEF Init
<1>2. heap \subseteq Items
    BY <1>1, ItemType DEF Telemetry
<1>3. active \in [Keys -> Tokens \cup {None}]
    BY <1>1 DEF Telemetry
<1> QED
    BY <1>2, <1>3 DEF Init, TypeOK, WorkerStates, Busy

\* Every step is well typed.
LEMMA TypeStep ==
    ASSUME TypeOK, [Next]_vars
    PROVE  TypeOK'
<1> USE DEF TypeOK, WorkerStates, Busy, eventVars
<1>1. CASE App
    <2>1. ASSUME NEW c \in Channels, SetRc(c)
          PROVE  TypeOK'
        <3>1. PICK t \in Tokens : /\ active' = [active EXCEPT !["rc"] = t]
                                  /\ heap' = heap \cup {Item("rc", t, c, 0)}
            BY <2>1 DEF SetRc, Free, TokenOfKey
        <3>2. Item("rc", t, c, 0) \in Items
            BY ItemType, KeysAssumption
        <3> QED
            BY <2>1, <3>1, <3>2 DEF SetRc
    <2>2. CASE AppStep \/ RequestStop \/ Join
        BY <2>2 DEF AppStep, SetRcWake, RaiseIfFailed, Stop, StopWake, RequestStop, Join
    <2> QED
        BY <1>1, <2>1, <2>2 DEF App
<1>2. CASE Worker
    <2>1. CASE LoopHead
        BY <2>1 DEF LoopHead, WorkerGoes, AfterHead
    <2>7. CASE PopNothing
        BY <2>7 DEF PopNothing, WorkerGoes
    <2>8. CASE WakeUp
        BY <2>8 DEF WakeUp, WorkerGoes
    <2>9. CASE ClearWake
        BY <2>9 DEF ClearWake, WorkerGoes
    <2>2. CASE Pop
        <3>1. item' \in Items /\ item' # None /\ heap' \subseteq Items
            BY <2>2, NoneAssumption DEF Pop, Due
        <3> QED
            BY <2>2, <3>1 DEF Pop, WorkerGoes
    <2>3. CASE MeasureWait
        <3>1. deadline' \in Nat
            BY <2>3, BoundsAssumption DEF MeasureWait, WaitTime, Items
        <3> QED
            BY <2>3, <3>1 DEF MeasureWait, WorkerGoes
    <2>4. CASE Execute \/ ExecuteFails
        <3>1. fcu' \in Channels \cup {None}
            BY <2>4 DEF Execute, ExecuteFails, Wire, Items, WorkerGoes
        <3> QED
            BY <2>4, <3>1 DEF Execute, ExecuteFails, WorkerGoes
    <2>5. CASE Release \/ DecideRepeat \/ RepeatWake
        BY <2>5 DEF Release, DecideRepeat, RepeatWake, WorkerGoes
    <2>6. CASE Repeat
        <3>1. item \in Items
            BY <2>6 DEF Repeat, WorkerGoes
        <3>2. [item EXCEPT !.due = Interval[item.key]] \in Items
            BY <3>1, IntervalAssumption DEF Items
        <3> QED
            BY <2>6, <3>2 DEF Repeat, WorkerGoes
    <2> QED
        BY <1>2, <2>1, <2>2, <2>3, <2>4, <2>5, <2>6, <2>7, <2>8, <2>9 DEF Worker
<1>3. CASE Tick
    <2>1. heap' \subseteq Items
        BY <1>3 DEF Tick, Items
    <2>2. deadline' \in Nat
        BY <1>3 DEF Tick
    <2> QED
        BY <1>3, <2>1, <2>2 DEF Tick
<1>4. CASE UNCHANGED vars
    BY <1>4 DEF vars
<1> QED
    BY <1>1, <1>2, <1>3, <1>4 DEF Next

\* Heap, tokens and threads keep every variable within its type; the worker
\* holds an item exactly while it executes or repeats one.
THEOREM TypeCorrect == Spec => []TypeOK
<1>1. TypeOK /\ [Next]_vars => TypeOK'
    BY TypeStep
<1> QED
    BY InitType, <1>1, PTL DEF Spec

----------------------------------------------------------------------------
(* One current command per key, carrying the channels of the last set_rc.   *)

\* RC items carry channels: they come from set_rc only.
RcItemsCarryChannels ==
    \A i \in heap \cup (IF item = None THEN {} ELSE {item}) :
        i.key = "rc" => i.channels \in Channels

CommandInv == OneCommandPerKey /\ CurrentIsLatest /\ RcItemsCarryChannels

\* Initially each telemetry key has the one item of its own token.
LEMMA CommandInit == Init => CommandInv /\ NoCommandLost
<1> SUFFICES ASSUME Init PROVE CommandInv /\ NoCommandLost
    OBVIOUS
<1>1. PICK t \in [Telemetry -> Tokens] :
        /\ heap = {Item(k, t[k], None, 0) : k \in Telemetry}
        /\ active = [k \in Keys |-> IF k = "rc" THEN None ELSE t[k]]
    BY DEF Init
<1>2. item = None /\ \A i \in heap : i.key # "rc"
    BY <1>1 DEF Init, Item, Telemetry
<1>3. \A i, j \in heap : i.key = j.key => i = j
    BY <1>1 DEF Item
<1>4. \A k \in Keys : active[k] # None => \E i \in heap : i.key = k /\ IsActive(i)
    <2>1. SUFFICES ASSUME NEW k \in Keys, active[k] # None
                   PROVE  \E i \in heap : i.key = k /\ IsActive(i)
        OBVIOUS
    <2>2. k \in Telemetry /\ active[k] = t[k]
        BY <1>1, <2>1 DEF Telemetry
    <2>3. Item(k, t[k], None, 0) \in heap
        BY <1>1, <2>2
    <2> QED
        BY <2>2, <2>3 DEF Item, IsActive
<1> QED
    BY <1>2, <1>3, <1>4
    DEF CommandInv, OneCommandPerKey, CurrentIsLatest, RcItemsCarryChannels, NoCommandLost, Current

\* A set_rc leaves one current RC command, the new one: no item in the heap or
\* in the worker's hands has its token.
LEMMA SetRcReplaces ==
    ASSUME TypeOK, NEW c \in Channels, SetRc(c)
    PROVE  \E t \in Tokens :
              /\ heap' = heap \cup {Item("rc", t, c, 0)}
              /\ active' = [active EXCEPT !["rc"] = t]
              /\ \A i \in heap : i.token # t
              /\ item # None => item.token # t
              /\ item' = item /\ latest' = c /\ stop_event' = stop_event
<1>1. PICK t \in Free : /\ active' = [active EXCEPT !["rc"] = t]
                        /\ heap' = heap \cup {Item("rc", t, c, 0)}
    BY DEF SetRc, TokenOfKey
<1>2. t \in Tokens /\ (\A i \in heap : i.token # t) /\ (item # None => item.token # t)
    BY <1>1 DEF Free, Held
<1> QED
    BY <1>1, <1>2 DEF SetRc, eventVars

\* What a step can do to the commands: a set_rc, the worker taking, releasing
\* or repeating an item, time, or nothing.
LEMMA CommandSteps ==
    ASSUME TypeOK, [Next]_vars
    PROVE  \/ \E c \in Channels : SetRc(c)
           \/ Pop \/ PopNothing \/ Release \/ Repeat \/ Tick
           \/ UNCHANGED <<heap, active, item, latest>> /\ (stop_event => stop_event')
BY DEF Next, App, AppStep, SetRcWake, RaiseIfFailed, RequestStop, Stop, StopWake, Join,
       Worker, LoopHead, MeasureWait, WakeUp, ClearWake, Execute, ExecuteFails,
       DecideRepeat, RepeatWake, vars, eventVars, TypeOK

\* Time moves items without merging or changing them otherwise.
LEMMA TickMoves ==
    ASSUME TypeOK, Tick
    PROVE  /\ \A j \in heap' : \E i \in heap : j = [i EXCEPT !.due = i.due - 1]
           /\ \A i \in heap : [i EXCEPT !.due = i.due - 1] \in heap'
           /\ UNCHANGED <<active, item, latest, stop_event>>
BY DEF Tick, eventVars

\* Every step keeps the heap, the worker's item and the tokens in agreement.
LEMMA CommandStep ==
    ASSUME TypeOK, CommandInv, [Next]_vars
    PROVE  CommandInv'
<1> USE DEF CommandInv, OneCommandPerKey, CurrentIsLatest, RcItemsCarryChannels, Current, IsActive
<1>0. heap \subseteq Items /\ active \in [Keys -> Tokens \cup {None}]
      /\ (item # None => item \in Items)
    BY DEF TypeOK
<1>1. ASSUME NEW c \in Channels, SetRc(c)
      PROVE  CommandInv'
    <2>1. PICK t \in Tokens :
              /\ heap' = heap \cup {Item("rc", t, c, 0)}
              /\ active' = [active EXCEPT !["rc"] = t]
              /\ \A i \in heap : i.token # t
              /\ item # None => item.token # t
              /\ item' = item /\ latest' = c
        BY <1>1, SetRcReplaces
    <2> DEFINE new == Item("rc", t, c, 0)
    <2>2. new.key = "rc" /\ new.token = t /\ new.channels = c
        BY DEF Item
    <2>3. active'["rc"] = t /\ \A k \in Keys : k # "rc" => active'[k] = active[k]
        BY <2>1, <1>0, KeysAssumption
    <2> HIDE DEF new
    <2>4. \A i \in heap : i.key = "rc" => i.token # active'[i.key]
        BY <2>1, <2>3
    <2>5. item # None /\ item.key = "rc" => item.token # active'[item.key]
        BY <2>1, <2>3
    <2>6. \A i \in heap : i.key \in Keys
        BY <1>0 DEF Items
    <2>7. item # None => item.key \in Keys
        BY <1>0 DEF Items
    <2>8. heap' = heap \cup {new} /\ item' = item /\ latest' = c
        BY <2>1 DEF new
    <2>9. CurrentIsLatest'
        BY <2>2, <2>3, <2>4, <2>5, <2>8
    <2>10. RcItemsCarryChannels'
        BY <2>2, <2>8
    <2>11. ASSUME NEW k \in Keys, k # "rc"
           PROVE  /\ \A i, j \in Current(k)' : i = j
                  /\ Current(k)' # {} =>
                        ~(item' # None /\ item'.key = k /\ IsActive(item)')
        <3>1. Current(k)' = Current(k)
            BY <2>2, <2>3, <2>8, <2>11
        <3>2. item # None /\ item.key = k => (IsActive(item)' <=> IsActive(item))
            BY <2>3, <2>8, <2>11
        <3> QED
            BY <3>1, <3>2, <2>8
    <2>12. /\ \A i, j \in Current("rc")' : i = j
           /\ Current("rc")' # {} =>
                 ~(item' # None /\ item'.key = "rc" /\ IsActive(item)')
        <3>1. \A i \in Current("rc")' : i = new
            BY <2>2, <2>4, <2>8
        <3> QED
            BY <3>1, <2>5, <2>8
    <2>13. OneCommandPerKey'
        BY <2>11, <2>12
    <2> QED
        BY <2>9, <2>10, <2>13
<1>2. CASE Pop
    <2>1. PICK i \in Due(TRUE), dropped \in SUBSET Due(FALSE) :
            heap' = heap \ (dropped \cup {i}) /\ item' = i
        BY <1>2 DEF Pop
    <2>2. UNCHANGED <<active, latest>> /\ item = None
        BY <1>2 DEF Pop, WorkerGoes, TypeOK, Busy
    <2>3. i \in heap /\ i.token = active[i.key] /\ i # None
        BY <2>1, <1>0, NoneAssumption DEF Due
    <2>4. \A k \in Keys : Current(k)' \subseteq Current(k) \ {i}
        BY <2>1, <2>2
    <2>5. OneCommandPerKey'
        <3>1. SUFFICES ASSUME NEW k \in Keys
                       PROVE  /\ \A a, b \in Current(k)' : a = b
                              /\ Current(k)' # {} =>
                                   ~(item' # None /\ item'.key = k /\ IsActive(item)')
            OBVIOUS
        <3>2. i.key = k => Current(k)' = {}
            BY <2>3, <2>4
        <3> QED
            BY <2>1, <2>4, <3>2
    <2>6. CurrentIsLatest' /\ RcItemsCarryChannels'
        BY <2>1, <2>2, <2>3
    <2> QED
        BY <2>5, <2>6
<1>3. CASE PopNothing
    <2>1. heap' \subseteq heap /\ UNCHANGED <<active, item, latest>>
        BY <1>3 DEF PopNothing
    <2> QED
        BY <2>1
<1>4. CASE Release
    <2>1. item' = None /\ UNCHANGED <<heap, active, latest>>
        BY <1>4 DEF Release
    <2> QED
        BY <2>1
<1>5. CASE Repeat
    <2> DEFINE again == [item EXCEPT !.due = Interval[item.key]]
    <2>1. heap' = heap \cup {again} /\ item' = None /\ UNCHANGED <<active, latest>>
        BY <1>5 DEF Repeat
    <2>2. item # None /\ item \in Items
        BY <1>5 DEF Repeat, WorkerGoes, TypeOK, Busy
    <2>3. again.key = item.key /\ again.token = item.token /\ again.channels = item.channels
        BY <2>2 DEF Items
    <2> HIDE DEF again
    <2>4. OneCommandPerKey'
        <3>1. SUFFICES ASSUME NEW k \in Keys
                       PROVE  \A a, b \in Current(k)' : a = b
            BY <2>1
        <3>2. CASE item.key = k /\ IsActive(item)
            <4>1. Current(k) = {}
                BY <2>2, <3>2
            <4> QED
                BY <2>1, <4>1
        <3>3. CASE ~(item.key = k /\ IsActive(item))
            <4>1. Current(k)' \subseteq Current(k)
                BY <2>1, <2>3, <3>3
            <4> QED
                BY <4>1
        <3> QED
            BY <3>2, <3>3
    <2>5. CurrentIsLatest' /\ RcItemsCarryChannels'
        BY <2>1, <2>2, <2>3
    <2> QED
        BY <2>4, <2>5
<1>6. CASE Tick
    <2>1. /\ \A j \in heap' : \E i \in heap : j = [i EXCEPT !.due = i.due - 1]
          /\ UNCHANGED <<active, item, latest>>
        BY <1>6, TickMoves
    <2>2. \A j \in heap' : \E i \in heap :
            /\ j = [i EXCEPT !.due = i.due - 1]
            /\ j.key = i.key /\ j.token = i.token /\ j.channels = i.channels
        BY <2>1, <1>0 DEF Items
    <2>3. CurrentIsLatest' /\ RcItemsCarryChannels'
        BY <2>1, <2>2
    <2>4. OneCommandPerKey'
        <3>1. SUFFICES ASSUME NEW k \in Keys
                       PROVE  /\ \A a, b \in Current(k)' : a = b
                              /\ Current(k)' # {} => Current(k) # {}
            BY <2>1
        <3>2. \A a \in Current(k)' : \E i \in Current(k) : a = [i EXCEPT !.due = i.due - 1]
            BY <2>1, <2>2
        <3> QED
            BY <3>2
    <2> QED
        BY <2>3, <2>4
<1>7. CASE UNCHANGED <<heap, active, item, latest>>
    BY <1>7
<1> QED
    BY <1>1, <1>2, <1>3, <1>4, <1>5, <1>6, <1>7, CommandSteps

\* However set_rc, failures and repeats interleave, a key never has two
\* commands that can still be executed.
THEOREM AtMostOneCommand == Spec => []OneCommandPerKey
<1>1. TypeOK /\ CommandInv /\ [Next]_vars => CommandInv'
    BY CommandStep
<1>2. CommandInv => OneCommandPerKey
    BY DEF CommandInv
<1> QED
    BY CommandInit, <1>1, <1>2, TypeCorrect, PTL DEF Spec

----------------------------------------------------------------------------
(* No command is lost.                                                      *)

\* Every step that takes a current command out of the heap hands it to the
\* worker, and the worker gives it back unless it was replaced or stopped.
LEMMA KeptStep ==
    ASSUME TypeOK, NoCommandLost, [Next]_vars
    PROVE  NoCommandLost'
<1> USE DEF NoCommandLost, Current, IsActive
<1>0. heap \subseteq Items /\ active \in [Keys -> Tokens \cup {None}]
      /\ (item # None => item \in Items)
    BY DEF TypeOK
<1>1. ASSUME NEW c \in Channels, SetRc(c)
      PROVE  NoCommandLost'
    <2>1. PICK t \in Tokens :
              /\ heap' = heap \cup {Item("rc", t, c, 0)}
              /\ active' = [active EXCEPT !["rc"] = t]
              /\ item' = item /\ stop_event' = stop_event
        BY <1>1, SetRcReplaces
    <2>2. active'["rc"] = t /\ \A k \in Keys : k # "rc" => active'[k] = active[k]
        BY <2>1, <1>0, KeysAssumption
    <2>3. Item("rc", t, c, 0) \in heap' /\ Item("rc", t, c, 0).key = "rc"
          /\ Item("rc", t, c, 0).token = t
        BY <2>1 DEF Item
    <2>4. heap \subseteq heap'
        BY <2>1
    <2>5. SUFFICES ASSUME ~stop_event, NEW k \in Keys, active'[k] # None
                   PROVE  \/ Current(k)' # {}
                          \/ item' # None /\ item'.key = k /\ IsActive(item)'
        BY <2>1
    <2>6. CASE k = "rc"
        BY <2>2, <2>3, <2>6
    <2>7. CASE k # "rc"
        <3>1. Current(k) # {} \/ (item # None /\ item.key = k /\ IsActive(item))
            BY <2>2, <2>5, <2>7
        <3> QED
            BY <2>1, <2>2, <2>4, <2>7, <3>1
    <2> QED
        BY <2>6, <2>7
<1>2. CASE Pop
    <2>1. PICK i \in Due(TRUE), dropped \in SUBSET Due(FALSE) :
            heap' = heap \ (dropped \cup {i}) /\ item' = i
        BY <1>2 DEF Pop
    <2>2. UNCHANGED <<active, stop_event>> /\ item = None
        BY <1>2 DEF Pop, WorkerGoes, TypeOK, Busy, eventVars
    <2>3. i \in heap /\ i.token = active[i.key] /\ i # None
        BY <2>1, <1>0, NoneAssumption DEF Due
    <2>4. \A j \in heap \ heap' : IsActive(j) => j = i
        BY <2>1 DEF Due
    <2>5. SUFFICES ASSUME ~stop_event, NEW k \in Keys, active[k] # None
                   PROVE  Current(k)' # {} \/ (item' # None /\ item'.key = k /\ IsActive(item)')
        BY <2>2
    <2>6. PICK j \in heap : j.key = k /\ IsActive(j)
        BY <2>2, <2>5
    <2> QED
        BY <2>1, <2>2, <2>3, <2>4, <2>6
<1>3. CASE PopNothing
    <2>1. UNCHANGED <<active, item, stop_event>> /\ \A j \in heap \ heap' : ~IsActive(j)
        BY <1>3 DEF PopNothing, Due, eventVars
    <2> QED
        BY <2>1
<1>4. CASE Release
    <2>1. item' = None /\ UNCHANGED <<heap, active, stop_event>>
          /\ (stop_event \/ ~IsActive(item))
        BY <1>4 DEF Release, eventVars
    <2> QED
        BY <2>1
<1>5. CASE Repeat
    <2> DEFINE again == [item EXCEPT !.due = Interval[item.key]]
    <2>1. heap' = heap \cup {again} /\ UNCHANGED <<active, stop_event>>
        BY <1>5 DEF Repeat, eventVars
    <2>2. item # None /\ item \in Items
        BY <1>5 DEF Repeat, WorkerGoes, TypeOK, Busy
    <2>3. again.key = item.key /\ again.token = item.token
        BY <2>2 DEF Items
    <2> HIDE DEF again
    <2> QED
        BY <2>1, <2>3
<1>6. CASE Tick
    <2>1. /\ \A i \in heap : [i EXCEPT !.due = i.due - 1] \in heap'
          /\ UNCHANGED <<active, item, stop_event>>
        BY <1>6, TickMoves
    <2>2. \A i \in heap : \E j \in heap' : j.key = i.key /\ j.token = i.token
        BY <2>1, <1>0 DEF Items
    <2> QED
        BY <2>1, <2>2
<1>7. CASE UNCHANGED <<heap, active, item, latest>> /\ (stop_event => stop_event')
    BY <1>7
<1> QED
    BY <1>1, <1>2, <1>3, <1>4, <1>5, <1>6, <1>7, CommandSteps

\* Until the dispatcher is stopped every command that was ever scheduled under
\* a key, or the one that replaced it, is in the heap or in the worker's hands.
THEOREM NoCommandIsLost == Spec => []NoCommandLost
<1>1. TypeOK /\ NoCommandLost /\ [Next]_vars => NoCommandLost'
    BY KeptStep
<1> QED
    BY CommandInit, <1>1, TypeCorrect, PTL DEF Spec

----------------------------------------------------------------------------
(* The wire shows samples of the register.                                  *)

\* One step of the dispatcher is one step of the register, or none.
LEMMA StreamStep ==
    ASSUME TypeOK, CommandInv, [Next]_vars
    PROVE  [Stream!Next]_<<latest, RcInHand, fcu>>
<1> USE DEF RcInHand
<1>1. ASSUME NEW c \in Channels, SetRc(c)
      PROVE  Stream!SetRc(c)
    BY <1>1 DEF SetRc, Stream!SetRc
<1>2. CASE Pop
    <2>1. PICK i \in Due(TRUE) : item' = i /\ UNCHANGED <<latest, fcu>>
        BY <1>2 DEF Pop
    <2>2. worker = "pop" /\ worker' = "execute" /\ item = None
        BY <1>2 DEF Pop, WorkerGoes, TypeOK, Busy
    <2>3. RcInHand = None /\ RcInHand' = IF i.key = "rc" THEN i.channels ELSE None
        BY <2>1, <2>2
    <2>4. i \in heap /\ IsActive(i)
        BY <2>1 DEF Due
    <2>5. CASE i.key = "rc"
        <3>1. i.channels = latest /\ i.channels \in Channels
            BY <2>4, <2>5 DEF CommandInv, CurrentIsLatest, RcItemsCarryChannels
        <3>2. Stream!Take
            BY <2>1, <2>3, <2>5, <3>1, NoneAssumption DEF Stream!Take
        <3> QED
            BY <3>2 DEF Stream!Next
    <2>6. CASE i.key # "rc"
        BY <2>1, <2>3, <2>6
    <2> QED
        BY <2>5, <2>6
<1>3. CASE Execute \/ ExecuteFails
    <2>1. worker = "execute" /\ worker' = "test" /\ latest' = latest /\ item \in Items
        BY <1>3 DEF Execute, ExecuteFails, WorkerGoes, TypeOK, Busy
    <2>2. fcu' \in {fcu, Wire(item)}
        BY <1>3 DEF Execute, ExecuteFails
    <2>3. RcInHand' = None
        BY <2>1
    <2>4. CASE item.key = "rc"
        <3>1. RcInHand = item.channels /\ Wire(item) = item.channels
            BY <2>1, <2>4 DEF Wire
        <3>2. RcInHand # None
            BY <2>1, <2>4, <3>1, NoneAssumption DEF CommandInv, RcItemsCarryChannels
        <3>3. Stream!Finish
            BY <2>1, <2>2, <2>3, <3>1, <3>2 DEF Stream!Finish
        <3> QED
            BY <3>3 DEF Stream!Next
    <2>5. CASE item.key # "rc"
        BY <2>1, <2>2, <2>3, <2>5 DEF Wire
    <2> QED
        BY <2>4, <2>5
<1>4. CASE AppStep \/ RequestStop \/ Join
    BY <1>4 DEF AppStep, SetRcWake, RaiseIfFailed, RequestStop, Stop, StopWake, Join
<1>5. CASE LoopHead \/ PopNothing \/ MeasureWait \/ WakeUp \/ ClearWake
    BY <1>5 DEF LoopHead, AfterHead, PopNothing, MeasureWait, WakeUp, ClearWake, WorkerGoes
<1>6. CASE Release \/ DecideRepeat \/ Repeat \/ RepeatWake
    BY <1>6 DEF Release, DecideRepeat, Repeat, RepeatWake, WorkerGoes
<1>7. CASE Tick \/ UNCHANGED vars
    BY <1>7 DEF Tick, vars
<1> QED
    BY <1>1, <1>2, <1>3, <1>4, <1>5, <1>6, <1>7 DEF Next, App, Worker, Stream!Next

\* For every set of keys and frames the dispatcher implements the register:
\* every frame sent was the latest when it was taken, and at most the frame in
\* hand is older than the last set_rc.
THEOREM DispatcherImplementsStream == Spec => ImplementsStream
<1>1. Init => Stream!Init
    BY DEF Init, Stream!Init, RcInHand
<1>2. TypeOK /\ CommandInv /\ [Next]_vars => CommandInv'
    BY CommandStep
<1>3. TypeOK /\ CommandInv /\ [Next]_vars => [Stream!Next]_<<latest, RcInHand, fcu>>
    BY StreamStep
<1> QED
    BY <1>1, <1>2, <1>3, CommandInit, TypeCorrect, PTL DEF Spec, ImplementsStream, Stream!Spec

----------------------------------------------------------------------------
(* The stop event, wake-ups and failures.                                   *)

\* A requested stop is not forgotten: its wake-up stays set until the worker
\* reads the stop event.
StopInv ==
    /\ app \in {"stop_wake", "join", "closed"} => stop_event
    /\ app \in {"join", "closed"} /\ worker \in {"pop", "measure", "wait"} => wake_event

\* A failed RC command has stopped the worker before it executes again.
FatalInv == fatal => stop_event /\ worker \in {"test", "head", "exited"}

\* Every step keeps the wake-up of a stop and the stop of a failure.
LEMMA StopStep ==
    ASSUME TypeOK, StopInv, FatalInv, [Next]_vars
    PROVE  StopInv' /\ FatalInv'
<1> USE DEF StopInv, FatalInv, eventVars
<1>1. CASE App
    <2>1. CASE \E c \in Channels : SetRc(c)
        BY <2>1 DEF SetRc
    <2>2. CASE SetRcWake \/ RaiseIfFailed \/ RequestStop
        BY <2>2 DEF SetRcWake, RaiseIfFailed, RequestStop
    <2>3. CASE Stop
        BY <2>3 DEF Stop
    <2>4. CASE StopWake
        BY <2>4 DEF StopWake
    <2>5. CASE Join
        BY <2>5 DEF Join, TypeOK, Busy
    <2> QED
        BY <1>1, <2>1, <2>2, <2>3, <2>4, <2>5 DEF App, AppStep
<1>2. CASE LoopHead \/ PopNothing \/ MeasureWait
    <2>1. CASE LoopHead
        BY <2>1 DEF LoopHead, AfterHead, WorkerGoes
    <2>2. CASE PopNothing
        BY <2>2 DEF PopNothing, WorkerGoes
    <2>3. CASE MeasureWait
        BY <2>3 DEF MeasureWait, WorkerGoes
    <2> QED
        BY <1>2, <2>1, <2>2, <2>3
<1>3. CASE Pop \/ WakeUp \/ ClearWake
    <2>1. CASE Pop
        BY <2>1 DEF Pop, WorkerGoes
    <2>2. CASE WakeUp \/ ClearWake
        BY <2>2 DEF WakeUp, ClearWake, WorkerGoes
    <2> QED
        BY <1>3, <2>1, <2>2
<1>4. CASE Execute \/ ExecuteFails
    BY <1>4 DEF Execute, ExecuteFails, WorkerGoes, TypeOK
<1>5. CASE Release \/ DecideRepeat \/ Repeat \/ RepeatWake
    BY <1>5 DEF Release, DecideRepeat, Repeat, RepeatWake, WorkerGoes
<1>6. CASE Tick \/ UNCHANGED vars
    BY <1>6 DEF Tick, vars
<1> QED
    BY <1>1, <1>2, <1>3, <1>4, <1>5, <1>6 DEF Next, Worker

\* Both hold at the start.
LEMMA StopInit == Init => StopInv /\ FatalInv
BY DEF Init, StopInv, FatalInv

\* After a failed RC command nothing reaches the wire any more.
THEOREM FatalIsFinal == Spec => NothingAfterFatal
<1>1. TypeOK /\ StopInv /\ FatalInv /\ [Next]_vars => StopInv' /\ FatalInv'
    BY StopStep
<1>2. ASSUME FatalInv, [Next]_vars, fatal
      PROVE  fcu' = fcu
    <2>1. ~Execute /\ ~ExecuteFails
        BY <1>2 DEF FatalInv, Execute, ExecuteFails, WorkerGoes
    <2> QED
        BY <1>2, <2>1
        DEF Next, App, AppStep, SetRc, SetRcWake, RaiseIfFailed, RequestStop, Stop, StopWake,
            Join, Worker, LoopHead, Pop, PopNothing, MeasureWait, WakeUp, ClearWake, Release,
            DecideRepeat, Repeat, RepeatWake, Tick, vars
<1>3. FatalInv /\ [Next]_vars => [fatal => fcu' = fcu]_vars
    BY <1>2
<1> QED
    BY StopInit, <1>1, <1>3, TypeCorrect, PTL DEF Spec, NothingAfterFatal

\* While the worker waits unwoken it waits no longer than its earliest item;
\* only a set_rc whose wake-up is on its way may have added an earlier one.
LEMMA WakeStep ==
    ASSUME TypeOK, StopInv, StopInv', NoLostWakeUp, [Next]_vars
    PROVE  NoLostWakeUp'
<1> USE DEF NoLostWakeUp, IsActive
<1>1. app' \in {"join", "closed"} => ~(worker' = "wait" /\ ~wake_event')
    BY DEF StopInv
<1>2. SUFFICES ASSUME worker' = "wait", ~wake_event', app' # "wake"
               PROVE  \A i \in heap' : IsActive(i)' => deadline' <= 0 \/ deadline' <= i.due
    BY <1>1
<1>3. CASE \E c \in Channels : SetRc(c)
    BY <1>2, <1>3 DEF SetRc
<1>4. CASE AppStep \/ RequestStop \/ Join
    BY <1>2, <1>4 DEF AppStep, SetRcWake, RaiseIfFailed, RequestStop, Stop, StopWake, Join,
       eventVars
<1>5. CASE MeasureWait
    <2>1. WaitTime(deadline') /\ heap' = heap /\ heap \subseteq Items
        BY <1>5 DEF MeasureWait, TypeOK
    <2>2. CASE heap = {}
        BY <2>1, <2>2
    <2>3. CASE heap # {}
        <3>1. PICK m \in heap : /\ \A j \in heap : m.due <= j.due
                                /\ deadline' = IF m.due > 0 THEN m.due ELSE 0
            BY <2>1, <2>3 DEF WaitTime
        <3> QED
            BY <2>1, <3>1 DEF Items
    <2> QED
        BY <2>2, <2>3
<1>6. CASE Worker /\ ~MeasureWait
    BY <1>2, <1>6
    DEF Worker, LoopHead, AfterHead, Pop, PopNothing, WakeUp, ClearWake, Execute, ExecuteFails,
        Release, DecideRepeat, Repeat, RepeatWake, WorkerGoes
<1>7. CASE Tick
    <2>1. /\ \A j \in heap' : \E i \in heap : j = [i EXCEPT !.due = i.due - 1]
          /\ active' = active
        BY <1>7, TickMoves
    <2>2. \A j \in heap' : \E i \in heap :
            j.key = i.key /\ j.token = i.token /\ j.due = i.due - 1 /\ i.due \in Int
        BY <2>1 DEF TypeOK, Items
    <2>3. worker = "wait" /\ ~wake_event /\ app # "wake" /\ deadline \in Nat
          /\ deadline' = IF deadline > 0 THEN deadline - 1 ELSE deadline
        BY <1>2, <1>7 DEF Tick, eventVars, TypeOK
    <2>4. \A i \in heap : IsActive(i) => deadline <= 0 \/ deadline <= i.due
        BY <2>3
    <2> QED
        BY <2>1, <2>2, <2>3, <2>4
<1>8. CASE UNCHANGED vars
    BY <1>2, <1>8 DEF vars, eventVars
<1> QED
    BY <1>3, <1>4, <1>5, <1>6, <1>7, <1>8 DEF Next, App

\* The worker never sleeps past a due command or a stop: no order of set_rc,
\* repeat, wake-up and clear loses a wake-up.
THEOREM WakeUpsAreKept == Spec => []NoLostWakeUp
<1>1. Init => NoLostWakeUp
    BY DEF Init, NoLostWakeUp
<1>2. TypeOK /\ StopInv /\ FatalInv /\ [Next]_vars => StopInv' /\ FatalInv'
    BY StopStep
<1>3. TypeOK /\ StopInv /\ StopInv' /\ NoLostWakeUp /\ [Next]_vars => NoLostWakeUp'
    BY WakeStep
<1> QED
    BY <1>1, <1>2, <1>3, StopInit, TypeCorrect, PTL DEF Spec

----------------------------------------------------------------------------
(* Bytes, exclusive or, and a run of a recursive function.                  *)

Byte == 0..255

\* A byte as a number.
LEMMA ByteRange == \A n : n \in Byte <=> n \in Nat /\ n <= 255
BY DEF Byte

\* Each place of an exclusive or is empty or its weight.
LEMMA XorType ==
    ASSUME NEW a \in Byte, NEW b \in Byte
    PROVE  Xor(a, b) \in Byte
BY DEF Byte, Xor

\* Exclusive or takes its operands in either order.
LEMMA XorCommutes ==
    ASSUME NEW a \in Byte, NEW b \in Byte
    PROVE  Xor(a, b) = Xor(b, a)
BY DEF Xor

\* A byte is the sum of its places.
LEMMA BitsOfByte ==
    ASSUME NEW a \in Byte
    PROVE  a = (a % 2) + 2 * ((a \div 2) % 2) + 4 * ((a \div 4) % 2) + 8 * ((a \div 8) % 2)
               + 16 * ((a \div 16) % 2) + 32 * ((a \div 32) % 2) + 64 * ((a \div 64) % 2)
               + 128 * ((a \div 128) % 2)
BY DEF Byte

\* Two sums of places are equal only place by place.
LEMMA PlacesAreUnique ==
    ASSUME NEW p1 \in {0, 1}, NEW p2 \in {0, 2}, NEW p4 \in {0, 4}, NEW p8 \in {0, 8},
           NEW p16 \in {0, 16}, NEW p32 \in {0, 32}, NEW p64 \in {0, 64}, NEW p128 \in {0, 128},
           NEW q1 \in {0, 1}, NEW q2 \in {0, 2}, NEW q4 \in {0, 4}, NEW q8 \in {0, 8},
           NEW q16 \in {0, 16}, NEW q32 \in {0, 32}, NEW q64 \in {0, 64}, NEW q128 \in {0, 128},
           p1 + p2 + p4 + p8 + p16 + p32 + p64 + p128 = q1 + q2 + q4 + q8 + q16 + q32 + q64 + q128
    PROVE  /\ p1 = q1 /\ p2 = q2 /\ p4 = q4 /\ p8 = q8
           /\ p16 = q16 /\ p32 = q32 /\ p64 = q64 /\ p128 = q128
OBVIOUS

Place(a, b, w) == IF (a \div w) % 2 = (b \div w) % 2 THEN 0 ELSE w

\* Two numbers that agree with a third in a place agree there, and so do two that do not.
LEMMA PlaceDetermines ==
    ASSUME NEW a \in Nat, NEW b \in Nat, NEW c \in Nat, NEW w \in Nat \ {0},
           Place(a, c, w) = Place(b, c, w)
    PROVE  (a \div w) % 2 = (b \div w) % 2
<1>1. (a \div w) \in Int /\ (b \div w) \in Int /\ (c \div w) \in Int
    OBVIOUS
<1> QED
    BY <1>1 DEF Place

\* A changed operand changes the exclusive or.
LEMMA XorIsInjective ==
    ASSUME NEW a \in Byte, NEW b \in Byte, NEW c \in Byte, Xor(a, c) = Xor(b, c)
    PROVE  a = b
<1>1. \A x, y \in Byte : Xor(x, y) = Place(x, y, 1) + Place(x, y, 2) + Place(x, y, 4) + Place(x, y, 8)
        + Place(x, y, 16) + Place(x, y, 32) + Place(x, y, 64) + Place(x, y, 128)
    BY DEF Xor, Place
<1>2. \A x, y, w : Place(x, y, w) \in {0, w}
    BY DEF Place
<1>3. /\ Place(a, c, 1) = Place(b, c, 1) /\ Place(a, c, 2) = Place(b, c, 2)
      /\ Place(a, c, 4) = Place(b, c, 4) /\ Place(a, c, 8) = Place(b, c, 8)
      /\ Place(a, c, 16) = Place(b, c, 16) /\ Place(a, c, 32) = Place(b, c, 32)
      /\ Place(a, c, 64) = Place(b, c, 64) /\ Place(a, c, 128) = Place(b, c, 128)
    BY <1>1, <1>2, PlacesAreUnique
<1>4. /\ (a \div 1) % 2 = (b \div 1) % 2 /\ (a \div 2) % 2 = (b \div 2) % 2
      /\ (a \div 4) % 2 = (b \div 4) % 2 /\ (a \div 8) % 2 = (b \div 8) % 2
      /\ (a \div 16) % 2 = (b \div 16) % 2 /\ (a \div 32) % 2 = (b \div 32) % 2
      /\ (a \div 64) % 2 = (b \div 64) % 2 /\ (a \div 128) % 2 = (b \div 128) % 2
    <2> USE DEF Byte
    <2>1. a \in Nat /\ b \in Nat /\ c \in Nat
        OBVIOUS
    <2> QED
        BY <2>1, <1>3, PlaceDetermines
<1>5. a \div 1 = a /\ b \div 1 = b
    BY DEF Byte
<1> QED
    BY <1>4, <1>5, BitsOfByte

\* The table's entries,
LEMMA ShiftOutValue ==
    ASSUME NEW c \in Byte
    PROVE  ShiftOut[c] = IF c >= 128 THEN Xor((2 * c) % 256, 213) ELSE 2 * c
BY DEF ShiftOut, Byte

\* which are bytes.
LEMMA ShiftOutType ==
    ASSUME NEW c \in Byte
    PROVE  ShiftOut[c] \in Byte
<1>1. (2 * c) % 256 \in Byte /\ 213 \in Byte
    BY DEF Byte
<1>2. Xor((2 * c) % 256, 213) \in Byte
    BY <1>1, XorType
<1> QED
    BY <1>2, ShiftOutValue DEF Byte

\* The feedback makes the last place of what leaves with a carry odd.
LEMMA ShiftOutIsInjective ==
    ASSUME NEW c \in Byte, NEW d \in Byte, ShiftOut[c] = ShiftOut[d]
    PROVE  c = d
<1>1. (2 * c) % 256 \in Byte /\ (2 * d) % 256 \in Byte /\ 213 \in Byte
    BY DEF Byte
<1>2. \A e \in Byte : e % 2 = 0 => Xor(e, 213) % 2 = 1
    BY DEF Byte, Xor
<1>3. ASSUME NEW e \in Byte, NEW f \in Byte, e >= 128, ~ (f >= 128), ShiftOut[e] = ShiftOut[f]
      PROVE  FALSE
    <2>1. (2 * e) % 256 \in Byte /\ ((2 * e) % 256) % 2 = 0
        BY DEF Byte
    <2>2. ShiftOut[e] % 2 = 1
        BY <2>1, <1>2, <1>3, ShiftOutValue
    <2>3. ShiftOut[f] = 2 * f /\ (2 * f) % 2 = 0
        BY <1>3, ShiftOutValue DEF Byte
    <2> QED
        BY <2>2, <2>3, <1>3
<1>4. CASE c >= 128 /\ d >= 128
    <2>1. (2 * c) % 256 = (2 * d) % 256
        BY <1>4, <1>1, ShiftOutValue, XorIsInjective
    <2> QED
        BY <2>1, <1>4 DEF Byte
<1>5. CASE ~ (c >= 128) /\ ~ (d >= 128)
    <2>1. \A e \in Byte : ~ (e >= 128) => ShiftOut[e] = 2 * e
        BY ShiftOutValue, Zenon
    <2>2. ShiftOut[c] = 2 * c /\ ShiftOut[d] = 2 * d
        BY <2>1, <1>5
    <2>3. 2 * c = 2 * d
        BY <2>2, Zenon
    <2>4. c \in Nat /\ d \in Nat
        BY ByteRange
    <2> QED
        BY ONLY <2>3, <2>4
<1>6. CASE c >= 128 /\ ~ (d >= 128)
    BY <1>6, <1>3
<1>7. CASE ~ (c >= 128) /\ d >= 128
    BY <1>7, <1>3
<1> QED
    BY <1>4, <1>5, <1>6, <1>7

\* Eight places of a byte leave a byte,
LEMMA ShiftByteType ==
    ASSUME NEW c \in Byte
    PROVE  ShiftByte(c) \in Byte
<1>1. \A d \in Byte : ShiftOutTwice(d) \in Byte
    BY ShiftOutType DEF ShiftOutTwice
<1> QED
    BY <1>1 DEF ShiftByte

\* and different ones leave different ones.
LEMMA ShiftByteIsInjective ==
    ASSUME NEW c \in Byte, NEW d \in Byte, ShiftByte(c) = ShiftByte(d)
    PROVE  c = d
<1>1. \A e \in Byte : ShiftOutTwice(e) \in Byte
    BY ShiftOutType DEF ShiftOutTwice
<1>2. \A e, f \in Byte : ShiftOutTwice(e) = ShiftOutTwice(f) => e = f
    BY ShiftOutType, ShiftOutIsInjective DEF ShiftOutTwice
<1> DEFINE four(e) == ShiftOutTwice(ShiftOutTwice(e))
<1>3. \A e \in Byte : four(e) \in Byte
    BY <1>1
<1>4. \A e, f \in Byte : four(e) = four(f) => e = f
    BY <1>1, <1>2
<1>5. \A e \in Byte : ShiftByte(e) = four(four(e))
    BY DEF ShiftByte
<1> HIDE DEF four
<1> QED
    BY <1>3, <1>4, <1>5

----------------------------------------------------------------------------
(* Recursive functions over a sequence: the state before its first element    *)
(* and behind each of its elements.                                           *)

\* A set of numbers has a least one.
LEMMA LeastNumber ==
    ASSUME NEW S \in SUBSET Nat, S # {}
    PROVE  \E m \in S : \A i \in S : m <= i
<1> DEFINE R == OpToRel(<, Nat)
<1>1. \A i, j \in Nat : <<i, j>> \in R <=> i < j
    BY DEF OpToRel
<1>2. IsWellFoundedOn(R, Nat)
    BY NatLessThanWellFounded
<1> HIDE DEF R
<1>3. PICK m \in S : \A i \in S : ~ (<<i, m>> \in R)
    BY <1>2, WFMin
<1>4. \A i \in S : i \in Nat /\ m \in Nat /\ ~ (i < m)
    BY <1>1, <1>3
<1>5. \A i \in S : m <= i
    BY <1>4
<1> QED
    BY <1>5

\* Induction up to n.
LEMMA InductionUpTo ==
    ASSUME NEW n \in Nat, NEW G, 0 \in G, \A i \in 1..n : i - 1 \in G => i \in G
    PROVE  0..n \subseteq G
<1> SUFFICES ASSUME NEW k \in 0..n, k \notin G PROVE FALSE
    OBVIOUS
<1> DEFINE B == {i \in 0..n : i \notin G}
<1>1. PICK m \in B : \A i \in B : m <= i
    <2>1. B \in SUBSET Nat /\ B # {}
        OBVIOUS
    <2> HIDE DEF B
    <2> QED
        BY <2>1, LeastNumber
<1>2. m # 0 /\ m \in 1..n /\ m - 1 \in 0..n
    BY <1>1
<1>3. m - 1 \in G
    BY <1>1, <1>2
<1> QED
    BY <1>1, <1>2, <1>3

\* f is the run of step over the first n elements of s.
IsRun(f, step, init, s, n) ==
    f = [i \in 0..n |-> IF i = 0 THEN init ELSE step[<<f[i - 1], s[i]>>]]

\* There is one,
LEMMA RunExists ==
    ASSUME NEW R, NEW B, NEW init \in R, NEW step \in [R \X B -> R], NEW s \in Seq(B)
    PROVE  \E f \in [0..Len(s) -> R] : IsRun(f, step, init, s, Len(s))
<1>1. Len(s) \in Nat /\ \A i \in 1..Len(s) : s[i] \in B
    BY LenProperties, ElementOfSeq
<1> DEFINE G == {n \in 0..Len(s) : \E f \in [0..n -> R] : IsRun(f, step, init, s, n)}
<1>2. 0 \in G
    <2> DEFINE f == [i \in 0..0 |-> init]
    <2>1. f \in [0..0 -> R]
        OBVIOUS
    <2>2. IsRun(f, step, init, s, 0)
        BY DEF IsRun
    <2> QED
        BY <2>1, <2>2, <1>1
<1>3. ASSUME NEW n \in 1..Len(s), n - 1 \in G PROVE n \in G
    <2>1. PICK f \in [0..(n - 1) -> R] : IsRun(f, step, init, s, n - 1)
        BY <1>3
    <2> DEFINE g == [i \in 0..n |-> IF i = n THEN step[<<f[n - 1], s[n]>>] ELSE f[i]]
    <2>2. g \in [0..n -> R]
        <3>1. n - 1 \in 0..(n - 1) /\ s[n] \in B
            BY <1>1, <1>3
        <3>2. step[<<f[n - 1], s[n]>>] \in R
            BY <3>1
        <3>3. \A i \in 0..n : i # n => i \in 0..(n - 1)
            BY <1>3
        <3> QED
            BY <3>2, <3>3
    <2>3. ASSUME NEW i \in 0..n PROVE g[i] = IF i = 0 THEN init ELSE step[<<g[i - 1], s[i]>>]
        <3>1. CASE i = n
            <4>1. n # 0 /\ n - 1 \in 0..n /\ n - 1 # n
                BY <1>3
            <4>2. g[n - 1] = f[n - 1]
                BY <4>1
            <4> QED
                BY <3>1, <4>1, <4>2
        <3>2. CASE i # n
            <4>1. i \in 0..(n - 1)
                BY <3>2, <1>3
            <4>2. f[i] = IF i = 0 THEN init ELSE step[<<f[i - 1], s[i]>>]
                BY <4>1, <2>1 DEF IsRun
            <4>3. i # 0 => g[i - 1] = f[i - 1]
                <5>1. i # 0 => i - 1 \in 0..n /\ i - 1 # n
                    BY <4>1, <1>3
                <5> QED
                    BY <5>1
            <4>4. g[i] = f[i]
                BY <3>2
            <4> HIDE DEF g
            <4> QED
                BY <4>2, <4>3, <4>4
        <3> QED
            BY <3>1, <3>2
    <2>4. IsRun(g, step, init, s, n)
        <3>1. g = [i \in 0..n |-> g[i]]
            OBVIOUS
        <3> HIDE DEF g
        <3> QED
            BY <3>1, <2>3 DEF IsRun
    <2> HIDE DEF g
    <2>5. n \in 0..Len(s)
        BY <1>3
    <2> QED
        BY <2>2, <2>4, <2>5
<1>4. Len(s) \in G
    <2> HIDE DEF G
    <2>1. 0..Len(s) \subseteq G
        BY <1>1, <1>2, <1>3, InductionUpTo
    <2> QED
        BY <2>1, <1>1
<1> QED
    BY <1>4

\* so a function defined by recursion satisfies its equation: the exclusive or,
IsXorRun(f, s) ==
    f = [i \in 0..Len(s) |-> IF i = 0 THEN 0 ELSE Xor(f[i - 1], s[i])]

\* The checksum of v1 as a run.
LEMMA XorRun ==
    ASSUME NEW s \in Seq(Byte)
    PROVE  \E f \in [0..Len(s) -> Byte] : IsXorRun(f, s) /\ XorOf(s) = f[Len(s)]
<1> DEFINE step == [p \in Byte \X Byte |-> Xor(p[1], p[2])]
<1>1. step \in [Byte \X Byte -> Byte]
    BY XorType
<1>2. 0 \in Byte /\ Len(s) \in Nat
    BY LenProperties DEF Byte
<1>3. \A x, y \in Byte : step[<<x, y>>] = Xor(x, y)
    OBVIOUS
<1> HIDE DEF step
<1>4. PICK f \in [0..Len(s) -> Byte] : IsRun(f, step, 0, s, Len(s))
    BY <1>1, <1>2, RunExists
<1>5. ASSUME NEW i \in 1..Len(s) PROVE step[<<f[i - 1], s[i]>>] = Xor(f[i - 1], s[i])
    <2>1. i - 1 \in 0..Len(s) /\ s[i] \in Byte
        BY <1>2, ElementOfSeq
    <2> QED
        BY <2>1, <1>3
<1>6. \A i \in 0..Len(s) : f[i] = IF i = 0 THEN 0 ELSE Xor(f[i - 1], s[i])
    <2> TAKE i \in 0..Len(s)
    <2>1. f[i] = IF i = 0 THEN 0 ELSE step[<<f[i - 1], s[i]>>]
        BY <1>4 DEF IsRun
    <2>2. i # 0 => i \in 1..Len(s)
        BY <1>2
    <2> QED
        BY <2>1, <2>2, <1>5
<1>7. IsXorRun(f, s)
    BY <1>6 DEF IsXorRun
<1> DEFINE h == CHOOSE g : IsXorRun(g, s)
<1>8. IsXorRun(h, s)
    BY <1>7
<1>9. XorOf(s) = h[Len(s)]
    BY DEF XorOf, IsXorRun
<1> HIDE DEF h
<1>10. h \in [0..Len(s) -> Byte]
    <2> DEFINE G == {i \in 0..Len(s) : h[i] \in Byte}
    <2>1. 0 \in G
        BY <1>8, <1>2 DEF IsXorRun
    <2>2. ASSUME NEW i \in 1..Len(s), i - 1 \in G PROVE i \in G
        <3>1. h[i] = Xor(h[i - 1], s[i])
            BY <1>8, <1>2 DEF IsXorRun
        <3>2. s[i] \in Byte /\ h[i - 1] \in Byte
            BY <2>2, ElementOfSeq
        <3>3. h[i] \in Byte
            BY <3>1, <3>2, XorType
        <3> QED
            BY <3>3, <1>2
    <2> HIDE DEF G
    <2>3. 0..Len(s) \subseteq G
        BY <1>2, <2>1, <2>2, InductionUpTo
    <2>4. h = [i \in 0..Len(s) |-> h[i]]
        BY <1>8 DEF IsXorRun
    <2> QED
        BY <2>3, <2>4 DEF G
<1> QED
    BY <1>8, <1>9, <1>10

\* the cyclic checksum,
IsCrcRun(f, s) ==
    f = [i \in 0..Len(s) |-> IF i = 0 THEN 0 ELSE ShiftByte(Xor(f[i - 1], s[i]))]

\* The checksum of v2 as a run.
LEMMA CrcRun ==
    ASSUME NEW s \in Seq(Byte)
    PROVE  \E f \in [0..Len(s) -> Byte] : IsCrcRun(f, s) /\ crc8_dvb_s2(s) = f[Len(s)]
<1> DEFINE step == [p \in Byte \X Byte |-> ShiftByte(Xor(p[1], p[2]))]
<1>1. step \in [Byte \X Byte -> Byte]
    BY XorType, ShiftByteType
<1>2. 0 \in Byte /\ Len(s) \in Nat
    BY LenProperties DEF Byte
<1>3. \A x, y \in Byte : step[<<x, y>>] = ShiftByte(Xor(x, y))
    OBVIOUS
<1> HIDE DEF step
<1>4. PICK f \in [0..Len(s) -> Byte] : IsRun(f, step, 0, s, Len(s))
    BY <1>1, <1>2, RunExists
<1>5. ASSUME NEW i \in 1..Len(s) PROVE step[<<f[i - 1], s[i]>>] = ShiftByte(Xor(f[i - 1], s[i]))
    <2>1. i - 1 \in 0..Len(s) /\ s[i] \in Byte
        BY <1>2, ElementOfSeq
    <2> QED
        BY <2>1, <1>3
<1>6. \A i \in 0..Len(s) : f[i] = IF i = 0 THEN 0 ELSE ShiftByte(Xor(f[i - 1], s[i]))
    <2> TAKE i \in 0..Len(s)
    <2>1. f[i] = IF i = 0 THEN 0 ELSE step[<<f[i - 1], s[i]>>]
        BY <1>4 DEF IsRun
    <2>2. i # 0 => i \in 1..Len(s)
        BY <1>2
    <2> QED
        BY <2>1, <2>2, <1>5
<1>7. IsCrcRun(f, s)
    BY <1>6 DEF IsCrcRun
<1> DEFINE h == CHOOSE g : IsCrcRun(g, s)
<1>8. IsCrcRun(h, s)
    BY <1>7
<1>9. crc8_dvb_s2(s) = h[Len(s)]
    BY DEF crc8_dvb_s2, IsCrcRun
<1> HIDE DEF h
<1>10. h \in [0..Len(s) -> Byte]
    <2> DEFINE G == {i \in 0..Len(s) : h[i] \in Byte}
    <2>1. 0 \in G
        BY <1>8, <1>2 DEF IsCrcRun
    <2>2. ASSUME NEW i \in 1..Len(s), i - 1 \in G PROVE i \in G
        <3>1. h[i] = ShiftByte(Xor(h[i - 1], s[i]))
            BY <1>8, <1>2 DEF IsCrcRun
        <3>2. s[i] \in Byte /\ h[i - 1] \in Byte
            BY <2>2, ElementOfSeq
        <3>3. h[i] \in Byte
            BY <3>1, <3>2, XorType, ShiftByteType
        <3> QED
            BY <3>3, <1>2
    <2> HIDE DEF G
    <2>3. 0..Len(s) \subseteq G
        BY <1>2, <2>1, <2>2, InductionUpTo
    <2>4. h = [i \in 0..Len(s) |-> h[i]]
        BY <1>8 DEF IsCrcRun
    <2> QED
        BY <2>3, <2>4 DEF G
<1> QED
    BY <1>8, <1>9, <1>10

\* and the reader of a frame.
Readers ==
    [at : {"scan", "version", "direction", "body", "done", "bad"}, version : {1, 2},
     direction : Byte, body : Seq(Byte), used : Nat]

\* A reader stays a reader.
LEMMA ReadByteType ==
    ASSUME NEW r \in Readers, NEW b \in Byte
    PROVE  ReadByte(r, b) \in Readers
<1> DEFINE s == [r EXCEPT !.used = @ + 1]
<1>1. s \in Readers /\ s.at = r.at
    BY DEF Readers
<1> HIDE DEF s
<1>2. Scan(s, b) \in Readers
    BY <1>1 DEF Scan, Readers
<1>3. TakeVersion(s, b) \in Readers
    BY <1>1 DEF TakeVersion, Readers
<1>4. TakeDirection(s, b) \in Readers
    BY <1>1 DEF TakeDirection, Readers
<1>5. TakeBody(s, b) \in Readers
    <2>1. s.body \in Seq(Byte) /\ Append(s.body, b) \in Seq(Byte)
        BY <1>1, AppendProperties DEF Readers
    <2>2. [s EXCEPT !.body = Append(s.body, b)] \in Readers
        BY <2>1, <1>1 DEF Readers
    <2>3. [s EXCEPT !.at = "done"] \in Readers /\ [s EXCEPT !.at = "bad"] \in Readers
        BY <1>1 DEF Readers
    <2> QED
        BY <2>2, <2>3 DEF TakeBody
<1>6. ReadByte(r, b) \in {Scan(s, b), TakeVersion(s, b), TakeDirection(s, b), TakeBody(s, b), r}
    BY DEF ReadByte, s
<1> QED
    BY <1>2, <1>3, <1>4, <1>5, <1>6

IsReaderRun(f, s) ==
    f = [i \in 0..Len(s) |-> IF i = 0 THEN Start ELSE ReadByte(f[i - 1], s[i])]

\* Every read starts with a reader.
LEMMA StartType == Start \in Readers
<1>1. <<>> \in Seq(Byte)
    OBVIOUS
<1> QED
    BY <1>1 DEF Start, Readers, Byte, Request

\* read_frame as a run.
LEMMA ReaderRun ==
    ASSUME NEW s \in Seq(Byte)
    PROVE  \E f \in [0..Len(s) -> Readers] : IsReaderRun(f, s) /\ ReadFrame(s) = f[Len(s)]
<1> DEFINE step == [p \in Readers \X Byte |-> ReadByte(p[1], p[2])]
<1>1. step \in [Readers \X Byte -> Readers]
    BY ReadByteType
<1>2. Start \in Readers /\ Len(s) \in Nat
    BY LenProperties, StartType
<1>3. \A x \in Readers, y \in Byte : step[<<x, y>>] = ReadByte(x, y)
    OBVIOUS
<1> HIDE DEF step
<1>4. PICK f \in [0..Len(s) -> Readers] : IsRun(f, step, Start, s, Len(s))
    BY <1>1, <1>2, RunExists
<1>5. ASSUME NEW i \in 1..Len(s) PROVE step[<<f[i - 1], s[i]>>] = ReadByte(f[i - 1], s[i])
    <2>1. i - 1 \in 0..Len(s) /\ s[i] \in Byte
        BY <1>2, ElementOfSeq
    <2> QED
        BY <2>1, <1>3
<1>6. \A i \in 0..Len(s) : f[i] = IF i = 0 THEN Start ELSE ReadByte(f[i - 1], s[i])
    <2> TAKE i \in 0..Len(s)
    <2>1. f[i] = IF i = 0 THEN Start ELSE step[<<f[i - 1], s[i]>>]
        BY <1>4 DEF IsRun
    <2>2. i # 0 => i \in 1..Len(s)
        BY <1>2
    <2> QED
        BY <2>1, <2>2, <1>5
<1>7. IsReaderRun(f, s)
    BY <1>6 DEF IsReaderRun
<1> DEFINE h == CHOOSE g : IsReaderRun(g, s)
<1>8. IsReaderRun(h, s)
    BY <1>7
<1>9. ReadFrame(s) = h[Len(s)]
    BY DEF ReadFrame, IsReaderRun
<1> HIDE DEF h
<1>10. h \in [0..Len(s) -> Readers]
    <2> DEFINE G == {i \in 0..Len(s) : h[i] \in Readers}
    <2>1. 0 \in G
        BY <1>8, <1>2 DEF IsReaderRun
    <2>2. ASSUME NEW i \in 1..Len(s), i - 1 \in G PROVE i \in G
        <3>1. h[i] = ReadByte(h[i - 1], s[i])
            BY <1>8, <1>2 DEF IsReaderRun
        <3>2. s[i] \in Byte /\ h[i - 1] \in Readers
            BY <2>2, ElementOfSeq
        <3>3. h[i] \in Readers
            BY <3>1, <3>2, ReadByteType
        <3> QED
            BY <3>3, <1>2
    <2> HIDE DEF G
    <2>3. 0..Len(s) \subseteq G
        BY <1>2, <2>1, <2>2, InductionUpTo
    <2>4. h = [i \in 0..Len(s) |-> h[i]]
        BY <1>8 DEF IsReaderRun
    <2> QED
        BY <2>3, <2>4 DEF G
<1> QED
    BY <1>8, <1>9, <1>10

\* The state before the first byte, and one step for every byte.
LEMMA ReaderSteps ==
    ASSUME NEW s \in Seq(Byte), NEW f, IsReaderRun(f, s)
    PROVE  f[0] = Start /\ \A i \in 1..Len(s) : f[i] = ReadByte(f[i - 1], s[i])
<1>1. Len(s) \in Nat
    BY LenProperties
<1> QED
    BY <1>1 DEF IsReaderRun

----------------------------------------------------------------------------
(* What the checksums are worth.                                              *)

\* A checksum is a byte.
LEMMA ChecksumType ==
    ASSUME NEW s \in Seq(Byte), NEW version \in {1, 2}
    PROVE  Checksum(version, s) \in Byte
<1>1. Len(s) \in 0..Len(s)
    BY LenProperties
<1> QED
    BY <1>1, XorRun, CrcRun DEF Checksum

\* One changed byte changes either checksum: before it the two sums agree, and
\* from it on they differ, since every step is injective.
LEMMA ChecksumNoticesAByte ==
    ASSUME NEW s \in Seq(Byte), NEW j \in 1..Len(s), NEW b \in Byte, b # s[j],
           NEW version \in {1, 2}
    PROVE  Checksum(version, [s EXCEPT ![j] = b]) # Checksum(version, s)
<1> DEFINE t == [s EXCEPT ![j] = b]
<1>1. /\ t \in Seq(Byte) /\ Len(t) = Len(s) /\ t[j] = b
      /\ \A i \in 1..Len(s) : i # j => t[i] = s[i]
    <2>1. t \in Seq(Byte) /\ Len(t) = Len(s)
        BY ExceptSeq
    <2>2. DOMAIN s = 1..Len(s)
        OBVIOUS
    <2> QED
        BY <2>1, <2>2
<1> HIDE DEF t
<1>2. Len(s) \in Nat /\ \A i \in 1..Len(s) : s[i] \in Byte /\ t[i] \in Byte
    BY <1>1, LenProperties, ElementOfSeq
<1> DEFINE stepped(v, x, y) == IF v = 1 THEN Xor(x, y) ELSE ShiftByte(Xor(x, y))
<1>3. PICK f \in [0..Len(s) -> Byte] :
        /\ \A i \in 1..Len(s) : f[i] = stepped(version, f[i - 1], s[i])
        /\ f[0] = 0 /\ Checksum(version, s) = f[Len(s)]
    <2>1. PICK g \in [0..Len(s) -> Byte] : IsXorRun(g, s) /\ XorOf(s) = g[Len(s)]
        BY XorRun
    <2>2. PICK h \in [0..Len(s) -> Byte] : IsCrcRun(h, s) /\ crc8_dvb_s2(s) = h[Len(s)]
        BY CrcRun
    <2>3. CASE version = 1
        <3>1. \A i \in 1..Len(s) : g[i] = stepped(version, g[i - 1], s[i])
            BY <2>3, <2>1, <1>2 DEF IsXorRun
        <3>2. g[0] = 0 /\ Checksum(version, s) = g[Len(s)]
            BY <2>3, <2>1, <1>2 DEF IsXorRun, Checksum
        <3> QED
            BY <3>1, <3>2
    <2>4. CASE version = 2
        <3>1. \A i \in 1..Len(s) : h[i] = stepped(version, h[i - 1], s[i])
            BY <2>4, <2>2, <1>2 DEF IsCrcRun
        <3>2. h[0] = 0 /\ Checksum(version, s) = h[Len(s)]
            BY <2>4, <2>2, <1>2 DEF IsCrcRun, Checksum
        <3> QED
            BY <3>1, <3>2
    <2> QED
        BY <2>3, <2>4
<1>4. PICK g \in [0..Len(s) -> Byte] :
        /\ \A i \in 1..Len(s) : g[i] = stepped(version, g[i - 1], t[i])
        /\ g[0] = 0 /\ Checksum(version, t) = g[Len(s)]
    <2>1. PICK k \in [0..Len(s) -> Byte] : IsXorRun(k, t) /\ XorOf(t) = k[Len(s)]
        BY XorRun, <1>1
    <2>2. PICK h \in [0..Len(s) -> Byte] : IsCrcRun(h, t) /\ crc8_dvb_s2(t) = h[Len(s)]
        BY CrcRun, <1>1
    <2>3. CASE version = 1
        <3>1. \A i \in 1..Len(s) : k[i] = stepped(version, k[i - 1], t[i])
            BY <2>3, <2>1, <1>1, <1>2 DEF IsXorRun
        <3>2. k[0] = 0 /\ Checksum(version, t) = k[Len(s)]
            BY <2>3, <2>1, <1>1, <1>2 DEF IsXorRun, Checksum
        <3> QED
            BY <3>1, <3>2
    <2>4. CASE version = 2
        <3>1. \A i \in 1..Len(s) : h[i] = stepped(version, h[i - 1], t[i])
            BY <2>4, <2>2, <1>1, <1>2 DEF IsCrcRun
        <3>2. h[0] = 0 /\ Checksum(version, t) = h[Len(s)]
            BY <2>4, <2>2, <1>1, <1>2 DEF IsCrcRun, Checksum
        <3> QED
            BY <3>1, <3>2
    <2> QED
        BY <2>3, <2>4
<1>5. \A x, y, z \in Byte : stepped(version, x, z) = stepped(version, y, z) => x = y
    <2> SUFFICES ASSUME NEW x \in Byte, NEW y \in Byte, NEW z \in Byte,
                        stepped(version, x, z) = stepped(version, y, z)
                 PROVE  x = y
        OBVIOUS
    <2>1. Xor(x, z) \in Byte /\ Xor(y, z) \in Byte
        BY XorType
    <2>2. Xor(x, z) = Xor(y, z)
        BY <2>1, ShiftByteIsInjective
    <2> QED
        BY <2>2, XorIsInjective
<1>6. \A x, y, z \in Byte : stepped(version, x, y) = stepped(version, x, z) => y = z
    <2> SUFFICES ASSUME NEW x \in Byte, NEW y \in Byte, NEW z \in Byte,
                        stepped(version, x, y) = stepped(version, x, z)
                 PROVE  y = z
        OBVIOUS
    <2>1. Xor(x, y) \in Byte /\ Xor(x, z) \in Byte
        BY XorType
    <2>2. Xor(x, y) = Xor(x, z)
        BY <2>1, ShiftByteIsInjective
    <2>3. Xor(y, x) = Xor(z, x)
        BY <2>2, XorCommutes
    <2> QED
        BY <2>3, XorIsInjective
<1> HIDE DEF stepped
<1> DEFINE G == {i \in 0..Len(s) : f[i] = g[i] <=> i < j}
<1>7. 0 \in G
    BY <1>2, <1>3, <1>4
<1>8. ASSUME NEW i \in 1..Len(s), i - 1 \in G PROVE i \in G
    <2>1. /\ f[i] = stepped(version, f[i - 1], s[i])
          /\ g[i] = stepped(version, g[i - 1], t[i])
        BY <1>3, <1>4
    <2>2. i - 1 \in 0..Len(s) /\ f[i - 1] \in Byte /\ g[i - 1] \in Byte
        BY <1>2
    <2>3. s[i] \in Byte /\ t[i] \in Byte
        BY <1>2
    <2>4. CASE i < j
        <3>1. f[i - 1] = g[i - 1] /\ s[i] = t[i]
            BY <2>4, <1>8, <1>1
        <3> QED
            BY <3>1, <2>1, <2>4
    <2>5. CASE i = j
        <3>1. f[i - 1] = g[i - 1] /\ s[i] # t[i]
            BY <2>5, <1>8, <1>1
        <3> QED
            BY <3>1, <2>1, <2>2, <2>3, <2>5, <1>6
    <2>6. CASE i > j
        <3>1. f[i - 1] # g[i - 1] /\ s[i] = t[i]
            BY <2>6, <1>8, <1>1
        <3> QED
            BY <3>1, <2>1, <2>2, <2>3, <2>6, <1>5
    <2> QED
        BY <2>4, <2>5, <2>6
<1>9. Len(s) \in G
    <2> HIDE DEF G
    <2>1. 0..Len(s) \subseteq G
        BY <1>2, <1>7, <1>8, InductionUpTo
    <2> QED
        BY <2>1, <1>2
<1> QED
    BY <1>9, <1>3, <1>4, <1>2 DEF t

----------------------------------------------------------------------------
(* What the reader makes of a frame.                                          *)

Reader(at, version, direction, body, used) ==
    [at |-> at, version |-> version, direction |-> direction, body |-> body, used |-> used]

\* The reader at the start, and a step of it in each place.
LEMMA StartReader == Start = Reader("scan", 1, Request, <<>>, 0)
BY DEF Start, Reader

LEMMA ScanStep ==
    ASSUME NEW v, NEW d, NEW body, NEW u, NEW b
    PROVE  ReadByte(Reader("scan", v, d, body, u), b)
               = Reader(IF b = Dollar THEN "version" ELSE "scan", v, d, body, u + 1)
BY DEF Reader, ReadByte, Scan

LEMMA VersionStep ==
    ASSUME NEW v, NEW d, NEW body, NEW u, NEW b
    PROVE  ReadByte(Reader("version", v, d, body, u), b) =
               IF b \in {VersionByte[1], VersionByte[2]}
               THEN Reader("direction", IF b = VersionByte[1] THEN 1 ELSE 2, d, body, u + 1)
               ELSE Reader("scan", v, d, body, u + 1)
<1> DEFINE s == Reader("version", v, d, body, u + 1)
<1>1. ReadByte(Reader("version", v, d, body, u), b) = TakeVersion(s, b)
    BY DEF Reader, ReadByte
<1>2. [s EXCEPT !.at = "scan"] = Reader("scan", v, d, body, u + 1)
    BY DEF Reader
<1>5. ASSUME NEW w
      PROVE  [s EXCEPT !.at = "direction", !.version = w] = Reader("direction", w, d, body, u + 1)
    <2>1. [s EXCEPT !.at = "direction"] = Reader("direction", v, d, body, u + 1)
        BY DEF Reader
    <2>2. [Reader("direction", v, d, body, u + 1) EXCEPT !.version = w] = Reader("direction", w, d, body, u + 1)
        BY DEF Reader
    <2> QED
        BY <2>1, <2>2
<1> HIDE DEF s
<1>3. CASE b \in {VersionByte[1], VersionByte[2]}
    <2>1. TakeVersion(s, b) = [s EXCEPT !.at = "direction",
                                        !.version = IF b = VersionByte[1] THEN 1 ELSE 2]
        BY Zenon, <1>3 DEF TakeVersion
    <2>2. TakeVersion(s, b) = Reader("direction", IF b = VersionByte[1] THEN 1 ELSE 2, d, body, u + 1)
        BY Zenon, <2>1, <1>5
    <2> QED
        BY Zenon, <2>2, <1>1, <1>3
<1>4. CASE b \notin {VersionByte[1], VersionByte[2]}
    <2>1. TakeVersion(s, b) = [s EXCEPT !.at = "scan"]
        BY Zenon, <1>4 DEF TakeVersion
    <2> QED
        BY Zenon, <2>1, <1>1, <1>2, <1>4
<1> QED
    BY <1>3, <1>4

LEMMA DirectionStep ==
    ASSUME NEW v, NEW d, NEW body, NEW u, NEW b
    PROVE  ReadByte(Reader("direction", v, d, body, u), b) =
               IF b \in Directions THEN Reader("body", v, b, body, u + 1)
               ELSE Reader("bad", v, d, body, u + 1)
<1> DEFINE s == Reader("direction", v, d, body, u + 1)
<1>1. ReadByte(Reader("direction", v, d, body, u), b) = TakeDirection(s, b)
    BY DEF Reader, ReadByte
<1>2. [s EXCEPT !.at = "bad"] = Reader("bad", v, d, body, u + 1)
    BY DEF Reader
<1>4. [s EXCEPT !.at = "body", !.direction = b] = Reader("body", v, b, body, u + 1)
    <2>1. [s EXCEPT !.at = "body"] = Reader("body", v, d, body, u + 1)
        BY DEF Reader
    <2>2. [Reader("body", v, d, body, u + 1) EXCEPT !.direction = b] = Reader("body", v, b, body, u + 1)
        BY DEF Reader
    <2> QED
        BY <2>1, <2>2
<1> HIDE DEF s
<1>3. TakeDirection(s, b) = IF b \in Directions THEN [s EXCEPT !.at = "body", !.direction = b]
                            ELSE [s EXCEPT !.at = "bad"]
    BY Zenon DEF TakeDirection
<1> QED
    BY Zenon, <1>1, <1>2, <1>3, <1>4

\* The body is complete: its header is, and it is as long as the header says.
Whole(version, body) ==
    /\ Len(body) >= HeaderLength(version)
    /\ Len(body) = HeaderLength(version)
                     + (IF version = 1 THEN body[1] ELSE body[4] + 256 * body[5])

LEMMA BodyStep ==
    ASSUME NEW v, NEW d, NEW body, NEW u, NEW b
    PROVE  ReadByte(Reader("body", v, d, body, u), b) =
               IF ~ Whole(v, body) THEN Reader("body", v, d, Append(body, b), u + 1)
               ELSE Reader(IF b = Checksum(v, body) THEN "done" ELSE "bad", v, d, body, u + 1)
<1> DEFINE s == Reader("body", v, d, body, u + 1)
<1>1. ReadByte(Reader("body", v, d, body, u), b) = TakeBody(s, b)
    BY DEF Reader, ReadByte
<1>2. BodyComplete(s) <=> Whole(v, body)
    BY DEF Reader, BodyComplete, HeaderComplete, Size, Whole
<1>3. s.body = body /\ s.version = v
    BY DEF Reader
<1>4. [s EXCEPT !.body = Append(@, b)] = Reader("body", v, d, Append(body, b), u + 1)
    BY DEF Reader
<1>5. /\ [s EXCEPT !.at = "done"] = Reader("done", v, d, body, u + 1)
      /\ [s EXCEPT !.at = "bad"] = Reader("bad", v, d, body, u + 1)
    BY DEF Reader
<1> HIDE DEF s
<1>6. CASE ~ Whole(v, body)
    <2>1. TakeBody(s, b) = [s EXCEPT !.body = Append(@, b)]
        BY Zenon, <1>6, <1>2 DEF TakeBody
    <2> QED
        BY <2>1, <1>1, <1>4, <1>6
<1>7. CASE Whole(v, body) /\ b = Checksum(v, body)
    <2>1. TakeBody(s, b) = [s EXCEPT !.at = "done"]
        BY <1>7, <1>2, <1>3 DEF TakeBody
    <2> QED
        BY <2>1, <1>1, <1>5, <1>7
<1>8. CASE Whole(v, body) /\ b # Checksum(v, body)
    <2>1. TakeBody(s, b) = [s EXCEPT !.at = "bad"]
        BY <1>8, <1>2, <1>3 DEF TakeBody
    <2> QED
        BY <2>1, <1>1, <1>5, <1>8
<1> QED
    BY <1>6, <1>7, <1>8

\* s is n bytes of which none is "$", a head, a body and one byte more.
IsFrameBehind(s, n, version, direction, body, c) ==
    /\ s \in Seq(Byte) /\ n \in Nat /\ Len(s) = n + 4 + Len(body)
    /\ \A i \in 1..n : s[i] # Dollar
    /\ s[n + 1] = Dollar /\ s[n + 2] = VersionByte[version] /\ s[n + 3] = direction
    /\ \A i \in 1..Len(body) : s[n + 3 + i] = body[i]
    /\ s[n + 4 + Len(body)] = c

\* A prefix of a body is whole only when it is all of it.
LEMMA PrefixIsNotWhole ==
    ASSUME NEW version \in {1, 2}, NEW body \in Seq(Byte), Whole(version, body), NEW m \in 0..Len(body)
    PROVE  Whole(version, SubSeq(body, 1, m)) <=> m = Len(body)
<1> DEFINE p == SubSeq(body, 1, m)
<1>1. Len(body) \in Nat
    BY LenProperties
<1>2. Len(p) = m /\ \A i \in 1..m : p[i] = body[i]
    BY <1>1
<1> HIDE DEF p
<1>3. HeaderLength(version) = IF version = 1 THEN 2 ELSE 5
    BY DEF HeaderLength
<1>4. m >= HeaderLength(version) =>
        /\ version = 1 => p[1] = body[1]
        /\ version = 2 => p[4] = body[4] /\ p[5] = body[5]
    <2>1. m >= HeaderLength(version) =>
            (version = 1 => 1 \in 1..m) /\ (version = 2 => 4 \in 1..m /\ 5 \in 1..m)
        BY <1>3, <1>1
    <2> QED
        BY <2>1, <1>2
<1>5. version = 1 \/ version = 2
    OBVIOUS
<1>6. Whole(version, p) <=> m >= HeaderLength(version) /\ m = Len(body)
    BY <1>2, <1>4, <1>5 DEF Whole
<1>7. Len(body) >= HeaderLength(version)
    BY DEF Whole
<1> QED
    BY <1>6, <1>7 DEF p

\* The reader skips the junk, takes the head and the body, and compares the
\* byte behind them with the checksum of the body.
LEMMA BodyIsRead ==
    ASSUME NEW s, NEW n, NEW version \in {1, 2}, NEW direction \in Directions,
           NEW body \in Seq(Byte), Whole(version, body), NEW c \in Byte,
           IsFrameBehind(s, n, version, direction, body, c)
    PROVE  ReadFrame(s) = Reader(IF c = Checksum(version, body) THEN "done" ELSE "bad",
                                 version, direction, body, Len(s))
<1>1. Len(body) \in Nat /\ n \in Nat /\ s \in Seq(Byte) /\ Len(s) = n + 4 + Len(body)
    BY LenProperties DEF IsFrameBehind
<1>2. PICK f \in [0..Len(s) -> Readers] : IsReaderRun(f, s) /\ ReadFrame(s) = f[Len(s)]
    BY <1>1, ReaderRun
<1>3. f[0] = Start /\ \A i \in 1..Len(s) : f[i] = ReadByte(f[i - 1], s[i])
    BY <1>1, <1>2, ReaderSteps
<1>4. f[n] = Reader("scan", 1, Request, <<>>, n)
    <2> DEFINE G == {i \in 0..n : f[i] = Reader("scan", 1, Request, <<>>, i)}
    <2>1. 0 \in G
        BY <1>1, <1>3, StartReader
    <2>2. ASSUME NEW i \in 1..n, i - 1 \in G PROVE i \in G
        <3>1. f[i] = ReadByte(f[i - 1], s[i]) /\ s[i] # Dollar
            BY <1>1, <1>3 DEF IsFrameBehind
        <3>2. f[i - 1] = Reader("scan", 1, Request, <<>>, i - 1) /\ (i - 1) + 1 = i
            BY <2>2, <1>1
        <3>3. f[i] = Reader("scan", 1, Request, <<>>, i)
            BY <3>1, <3>2, ScanStep
        <3> QED
            BY <3>3, <1>1
    <2> HIDE DEF G
    <2>3. 0..n \subseteq G
        BY <1>1, <2>1, <2>2, InductionUpTo
    <2> QED
        BY <2>3, <1>1 DEF G
<1>5. f[n + 1] = Reader("version", 1, Request, <<>>, n + 1)
    <2>1. n + 1 \in 1..Len(s) /\ (n + 1) - 1 = n
        BY <1>1
    <2>2. f[n + 1] = ReadByte(f[n], s[n + 1]) /\ s[n + 1] = Dollar
        BY <2>1, <1>3 DEF IsFrameBehind
    <2> QED
        BY <2>2, <1>4, ScanStep
<1>6. f[n + 2] = Reader("direction", version, Request, <<>>, n + 2)
    <2>1. n + 2 \in 1..Len(s) /\ (n + 2) - 1 = n + 1 /\ (n + 1) + 1 = n + 2
        BY <1>1
    <2>2. f[n + 2] = ReadByte(f[n + 1], s[n + 2]) /\ s[n + 2] = VersionByte[version]
        BY <2>1, <1>3 DEF IsFrameBehind
    <2>3. /\ VersionByte[version] \in {VersionByte[1], VersionByte[2]}
          /\ (IF VersionByte[version] = VersionByte[1] THEN 1 ELSE 2) = version
        BY DEF VersionByte
    <2>4. f[n + 2] = Reader("direction", version, Request, <<>>, (n + 1) + 1)
        BY <2>2, <2>3, <1>5, VersionStep
    <2> QED
        BY <2>4, <2>1
<1>7. f[n + 3] = Reader("body", version, direction, <<>>, n + 3)
    <2>1. n + 3 \in 1..Len(s) /\ (n + 3) - 1 = n + 2 /\ (n + 2) + 1 = n + 3
        BY <1>1
    <2>2. f[n + 3] = ReadByte(f[n + 2], s[n + 3]) /\ s[n + 3] = direction
        BY <2>1, <1>3 DEF IsFrameBehind
    <2>3. f[n + 3] = Reader("body", version, direction, <<>>, (n + 2) + 1)
        BY <2>2, <1>6, DirectionStep
    <2> QED
        BY <2>3, <2>1
<1>8. f[n + 3 + Len(body)] = Reader("body", version, direction, body, n + 3 + Len(body))
    <2> DEFINE G == {m \in 0..Len(body) :
                        f[n + 3 + m] = Reader("body", version, direction, SubSeq(body, 1, m), n + 3 + m)}
    <2>1. 0 \in G
        <3>1. SubSeq(body, 1, 0) = <<>> /\ n + 3 + 0 = n + 3
            BY <1>1
        <3> QED
            BY <3>1, <1>7, <1>1
    <2>2. ASSUME NEW m \in 1..Len(body), m - 1 \in G PROVE m \in G
        <3>1. /\ n + 3 + m \in 1..Len(s) /\ (n + 3 + m) - 1 = n + 3 + (m - 1)
              /\ (n + 3 + (m - 1)) + 1 = n + 3 + m
              /\ m - 1 \in 0..Len(body) /\ m - 1 # Len(body)
            BY <1>1
        <3>2. f[n + 3 + m] = ReadByte(f[n + 3 + (m - 1)], s[n + 3 + m]) /\ s[n + 3 + m] = body[m]
            BY <3>1, <1>3 DEF IsFrameBehind
        <3>3. f[n + 3 + (m - 1)] =
                Reader("body", version, direction, SubSeq(body, 1, m - 1), n + 3 + (m - 1))
            BY <2>2
        <3>4. ~ Whole(version, SubSeq(body, 1, m - 1))
            BY <3>1, PrefixIsNotWhole
        <3>5. Append(SubSeq(body, 1, m - 1), body[m]) = SubSeq(body, 1, m)
            BY <1>1
        <3>6. f[n + 3 + m] = Reader("body", version, direction,
                                    Append(SubSeq(body, 1, m - 1), body[m]), (n + 3 + (m - 1)) + 1)
            BY <3>2, <3>3, <3>4, BodyStep
        <3>7. f[n + 3 + m] = Reader("body", version, direction, SubSeq(body, 1, m), n + 3 + m)
            BY <3>6, <3>5, <3>1
        <3> QED
            BY <3>7
    <2> HIDE DEF G
    <2>3. 0..Len(body) \subseteq G
        BY <1>1, <2>1, <2>2, InductionUpTo
    <2>4. Len(body) \in G
        BY <2>3, <1>1
    <2>5. SubSeq(body, 1, Len(body)) = body
        BY <1>1
    <2> QED
        BY <2>4, <2>5 DEF G
<1>9. f[Len(s)] = ReadByte(f[n + 3 + Len(body)], c)
    <2>1. Len(s) \in 1..Len(s) /\ Len(s) - 1 = n + 3 + Len(body)
        BY <1>1
    <2>2. s[Len(s)] = c
        BY <1>1 DEF IsFrameBehind
    <2> QED
        BY <2>1, <2>2, <1>3
<1>10. (n + 3 + Len(body)) + 1 = Len(s)
    BY <1>1
<1> QED
    BY <1>2, <1>8, <1>9, <1>10, BodyStep

----------------------------------------------------------------------------
(* A frame comes back as it was encoded.                                      *)

\* A sequence and one behind it.
LEMMA Concatenation ==
    ASSUME NEW S, NEW s \in Seq(S), NEW t \in Seq(S)
    PROVE  /\ s \o t \in Seq(S) /\ Len(s \o t) = Len(s) + Len(t)
           /\ \A i \in 1..Len(s) : (s \o t)[i] = s[i]
           /\ \A i \in 1..Len(t) : (s \o t)[Len(s) + i] = t[i]
<1>1. Len(s) \in Nat /\ Len(t) \in Nat
    BY LenProperties
<1>2. s \o t \in Seq(S) /\ Len(s \o t) = Len(s) + Len(t)
    BY ConcatProperties
<1>3. ASSUME NEW i \in 1..Len(s) PROVE (s \o t)[i] = s[i]
    BY <1>1
<1>4. ASSUME NEW i \in 1..Len(t) PROVE (s \o t)[Len(s) + i] = t[i]
    BY <1>1
<1> QED
    BY <1>2, <1>3, <1>4

\* What is behind the first part is the second.
LEMMA SecondPart ==
    ASSUME NEW S, NEW s \in Seq(S), NEW t \in Seq(S)
    PROVE  SubSeq(s \o t, Len(s) + 1, Len(s \o t)) = t
<1> DEFINE u == s \o t
           v == SubSeq(u, Len(s) + 1, Len(u))
<1>1. /\ Len(s) \in Nat /\ Len(t) \in Nat /\ u \in Seq(S) /\ Len(u) = Len(s) + Len(t)
      /\ \A i \in 1..Len(t) : u[Len(s) + i] = t[i]
    BY LenProperties, Concatenation
<1> HIDE DEF u
<1>2. v \in Seq(S) /\ Len(v) = Len(t)
    BY <1>1
<1>3. ASSUME NEW i \in 1..Len(t) PROVE v[i] = t[i]
    <2>1. v[i] = u[Len(s) + 1 + i - 1]
        BY <1>1
    <2>2. Len(s) + 1 + i - 1 = Len(s) + i
        BY <1>1
    <2> QED
        BY <2>1, <2>2, <1>1
<1> HIDE DEF v
<1> QED
    BY <1>1, <1>2, <1>3, SeqEqual DEF u, v
FrameHeader(version, command, payload) ==
    IF version = 1 THEN HeaderV1(Low(command), Len(payload)) ELSE HeaderV2(command, Len(payload))

FrameBody(version, command, payload) == FrameHeader(version, command, payload) \o payload

\* What the version can carry.
Fits(version, command, payload) ==
    /\ version \in {1, 2} /\ command \in Nat /\ command <= 65535
    /\ payload \in Seq(Byte) /\ Len(payload) <= 65535
    /\ version = 1 => command <= 255 /\ Len(payload) <= 255

\* The two bytes of a number below 2^16.
LEMMA TwoBytes ==
    ASSUME NEW n \in Nat, n <= 65535
    PROVE  Low(n) \in Byte /\ High(n) \in Byte /\ Low(n) + 256 * High(n) = n
<1>1. Low(n) \in Byte
    BY DEF Low, Byte
<1>2. High(n) \in Nat /\ High(n) <= 255 /\ Low(n) + 256 * High(n) = n
    BY DEF Low, High
<1>3. High(n) \in Byte
    BY <1>2 DEF Byte
<1> QED
    BY <1>1, <1>2, <1>3

\* A header tells the size and the command.
LEMMA HeaderOfFrame ==
    ASSUME NEW version, NEW command, NEW payload, Fits(version, command, payload)
    PROVE  LET header == FrameHeader(version, command, payload)
           IN  /\ header \in Seq(Byte) /\ Len(header) = HeaderLength(version)
               /\ version = 1 => header[1] = Len(payload) /\ header[2] = command
               /\ version = 2 => /\ header[2] + 256 * header[3] = command
                                /\ header[4] + 256 * header[5] = Len(payload)
<1>1. /\ Len(payload) \in Nat /\ Len(payload) <= 65535
      /\ command \in Nat /\ command <= 65535 /\ version \in {1, 2}
    BY LenProperties DEF Fits
<1>2. CASE version = 1
    <2>1. command <= 255 /\ Len(payload) <= 255
        BY <1>2 DEF Fits
    <2>2. Len(payload) \in Byte /\ command \in Byte
        BY <1>1, <2>1, ByteRange
    <2>3. Low(command) = command
        BY <1>1, <2>1 DEF Low
    <2>4. FrameHeader(version, command, payload) = <<Len(payload), command>>
        BY Zenon, <1>2, <2>3 DEF FrameHeader, HeaderV1
    <2> QED
        BY <2>2, <2>4, <1>2 DEF HeaderLength
<1>3. CASE version = 2
    <2>1. /\ Low(command) \in Byte /\ High(command) \in Byte
          /\ Low(command) + 256 * High(command) = command
        BY <1>1, TwoBytes
    <2>2. /\ Low(Len(payload)) \in Byte /\ High(Len(payload)) \in Byte
          /\ Low(Len(payload)) + 256 * High(Len(payload)) = Len(payload)
        BY <1>1, TwoBytes
    <2>3. 0 \in Byte
        BY DEF Byte
    <2>4. FrameHeader(version, command, payload)
            = <<0, Low(command), High(command), Low(Len(payload)), High(Len(payload))>>
        BY <1>3 DEF FrameHeader, HeaderV2
    <2> QED
        BY <2>1, <2>2, <2>3, <2>4, <1>3 DEF HeaderLength
<1> QED
    BY <1>1, <1>2, <1>3

\* A body has its header and its payload, and says how long it is.
LEMMA BodyOfFrame ==
    ASSUME NEW version, NEW command, NEW payload, Fits(version, command, payload)
    PROVE  LET body == FrameBody(version, command, payload)
           IN  /\ body \in Seq(Byte) /\ Whole(version, body)
               /\ command = IF version = 1 THEN body[2] ELSE body[2] + 256 * body[3]
               /\ SubSeq(body, HeaderLength(version) + 1, Len(body)) = payload
<1> DEFINE header == FrameHeader(version, command, payload)
           body == header \o payload
<1>1. /\ header \in Seq(Byte) /\ Len(header) = HeaderLength(version)
      /\ version = 1 => header[1] = Len(payload) /\ header[2] = command
      /\ version = 2 => /\ header[2] + 256 * header[3] = command
                       /\ header[4] + 256 * header[5] = Len(payload)
    BY HeaderOfFrame
<1>2. payload \in Seq(Byte) /\ Len(payload) \in Nat /\ version \in {1, 2}
    BY LenProperties DEF Fits
<1>3. FrameBody(version, command, payload) = body
    BY DEF FrameBody
<1> HIDE DEF header
<1>4. /\ body \in Seq(Byte) /\ Len(body) = HeaderLength(version) + Len(payload)
      /\ \A i \in 1..HeaderLength(version) : body[i] = header[i]
    <2>1. /\ header \o payload \in Seq(Byte) /\ Len(header \o payload) = Len(header) + Len(payload)
          /\ \A i \in 1..Len(header) : (header \o payload)[i] = header[i]
          /\ \A i \in 1..Len(payload) : (header \o payload)[Len(header) + i] = payload[i]
        <3>1. header \in Seq(Byte) /\ payload \in Seq(Byte)
            BY <1>1, <1>2
        <3> QED
            BY ONLY <3>1, Concatenation
    <2> QED
        BY Zenon, <2>1, <1>1
<1>5. SubSeq(body, HeaderLength(version) + 1, Len(body)) = payload
    BY <1>1, <1>2, SecondPart
<1> HIDE DEF body
<1>6. CASE version = 1
    <2>1. HeaderLength(version) = 2 /\ body[1] = header[1] /\ body[2] = header[2]
        BY <1>4, <1>6 DEF HeaderLength
    <2> QED
        BY <2>1, <1>1, <1>2, <1>3, <1>4, <1>5, <1>6 DEF Whole
<1>7. CASE version = 2
    <2>1. /\ HeaderLength(version) = 5
          /\ body[2] = header[2] /\ body[3] = header[3] /\ body[4] = header[4] /\ body[5] = header[5]
        BY <1>4, <1>7 DEF HeaderLength
    <2> QED
        BY <2>1, <1>1, <1>2, <1>3, <1>4, <1>5, <1>7 DEF Whole
<1> QED
    BY <1>2, <1>6, <1>7

\* A head, a body and one byte more, one by one.
LEMMA FrameBytes ==
    ASSUME NEW version \in {1, 2}, NEW direction \in Directions, NEW body \in Seq(Byte), NEW c \in Byte
    PROVE  LET e == <<Dollar, VersionByte[version], direction>> \o body \o <<c>>
           IN  /\ e \in Seq(Byte) /\ Len(e) = 4 + Len(body)
               /\ e[1] = Dollar /\ e[2] = VersionByte[version] /\ e[3] = direction
               /\ \A i \in 1..Len(body) : e[3 + i] = body[i]
               /\ e[4 + Len(body)] = c
<1> DEFINE head == <<Dollar, VersionByte[version], direction>>
           e == head \o body \o <<c>>
<1>1. Len(body) \in Nat
    BY LenProperties
<1>2. Dollar \in Byte /\ VersionByte[version] \in Byte /\ direction \in Byte
    BY DEF Dollar, VersionByte, Directions, Request, Response, Error, Byte
<1>3. /\ head \in Seq(Byte) /\ Len(head) = 3
      /\ head[1] = Dollar /\ head[2] = VersionByte[version] /\ head[3] = direction
    BY <1>2
<1>4. <<c>> \in Seq(Byte) /\ Len(<<c>>) = 1 /\ <<c>>[1] = c
    OBVIOUS
<1> HIDE DEF head
<1>5. /\ head \o body \in Seq(Byte) /\ Len(head \o body) = 3 + Len(body)
      /\ \A i \in 1..3 : (head \o body)[i] = head[i]
      /\ \A i \in 1..Len(body) : (head \o body)[3 + i] = body[i]
    <2>1. /\ head \o body \in Seq(Byte) /\ Len(head \o body) = Len(head) + Len(body)
          /\ \A i \in 1..Len(head) : (head \o body)[i] = head[i]
          /\ \A i \in 1..Len(body) : (head \o body)[Len(head) + i] = body[i]
        <3>1. head \in Seq(Byte) /\ body \in Seq(Byte)
            BY <1>3
        <3> QED
            BY ONLY <3>1, Concatenation
    <2> QED
        BY Zenon, <2>1, <1>3
<1> DEFINE first == head \o body
<1>6. /\ e \in Seq(Byte) /\ Len(e) = Len(first) + 1
      /\ \A i \in 1..Len(first) : e[i] = first[i]
      /\ \A i \in 1..1 : e[Len(first) + i] = <<c>>[i]
    <2>1. e = first \o <<c>>
        OBVIOUS
    <2> HIDE DEF e, first
    <2>2. first \in Seq(Byte)
        BY <1>5 DEF first
    <2> QED
        BY <2>1, <2>2, <1>4, Concatenation
<1> HIDE DEF e
<1>7. Len(first) = 3 + Len(body)
    BY <1>5
<1>8. e[1] = head[1] /\ e[2] = head[2] /\ e[3] = head[3]
    BY <1>1, <1>5, <1>6, <1>7
<1>9. \A i \in 1..Len(body) : e[3 + i] = body[i]
    <2> TAKE i \in 1..Len(body)
    <2>1. 3 + i \in 1..Len(first)
        BY <1>1, <1>7
    <2>2. e[3 + i] = first[3 + i] /\ first[3 + i] = body[i]
        BY <2>1, <1>5, <1>6
    <2> QED
        BY <2>2
<1>10. e[4 + Len(body)] = c
    <2>1. Len(first) + 1 = 4 + Len(body) /\ 1 \in 1..1
        BY <1>1, <1>7
    <2>2. e[Len(first) + 1] = <<c>>[1]
        BY <2>1, <1>6
    <2> QED
        BY <2>1, <2>2
<1>11. Len(e) = 4 + Len(body)
    BY <1>1, <1>6, <1>7
<1> QED
    BY <1>3, <1>6, <1>8, <1>9, <1>10, <1>11 DEF e, head

Fitting(f) == Fits(VersionFor(f.command, f.payload), f.command, f.payload) /\ f.direction \in Directions

BodyOf(f) == FrameBody(VersionFor(f.command, f.payload), f.command, f.payload)

\* Every frame sent fits its version,
LEMMA FramesFit ==
    ASSUME NEW f \in Frames
    PROVE  Fitting(f)
<1>1. /\ f.command \in Nat /\ f.command <= 65535 /\ f.direction \in Directions
      /\ f.payload \in Seq(Byte) /\ Len(f.payload) <= 65535
    BY InstancesAssumption DEF Line!FramesAssumption, Line!Directions, Directions, Line!Request,
       Request, Line!Response, Response, Line!Error, Error, Byte
<1>2. MaxPayloadV1 \in Nat /\ MaxPayloadV1 <= 255
    BY InstancesAssumption DEF MaxPayloadAssumption
<1>3. Len(f.payload) \in Nat
    BY <1>1, LenProperties
<1> QED
    BY <1>1, <1>2, <1>3 DEF Fitting, Fits, VersionFor

\* and is its head, its body and the checksum of its body.
LEMMA BytesOfFrame ==
    ASSUME NEW f \in Frames
    PROVE  LET version == VersionFor(f.command, f.payload)
               body == BodyOf(f)
           IN  /\ Line!Version(f) = version
               /\ Line!Bytes(f) = <<Dollar, VersionByte[version], f.direction>> \o body
                                    \o <<Checksum(version, body)>>
<1> DEFINE version == VersionFor(f.command, f.payload)
<1>1. Line!Version(f) = version
    BY DEF Line!Version, Line!VersionFor, VersionFor
<1>2. Line!Bytes(f) = Line!Encode(version, f.command, f.payload, f.direction)
    BY Zenon, <1>1 DEF Line!Bytes
<1>3. Line!Encode(version, f.command, f.payload, f.direction)
        = Encode(version, f.command, f.payload, f.direction)
    BY DEF Line!Encode, Encode, Line!HeaderV1, HeaderV1, Line!HeaderV2, HeaderV2, Line!Low, Low,
       Line!High, High, Line!Dollar, Dollar, Line!VersionByte, VersionByte, Line!Checksum, Checksum,
       Line!XorOf, XorOf, Line!Xor, Xor, Line!crc8_dvb_s2, crc8_dvb_s2, Line!ShiftByte, ShiftByte,
       Line!ShiftOutTwice, ShiftOutTwice, Line!ShiftOut, ShiftOut
<1>4. Encode(version, f.command, f.payload, f.direction)
        = <<Dollar, VersionByte[version], f.direction>> \o BodyOf(f) \o <<Checksum(version, BodyOf(f))>>
    BY DEF Encode, BodyOf, FrameBody, FrameHeader
<1> QED
    BY <1>1, <1>2, <1>3, <1>4

----------------------------------------------------------------------------
(* The line (MspLine): a frame behind noise, damaged or cut.                *)

\* The reader of MspLine is that of MspCodec.
LEMMA LineReader ==
    ASSUME NEW s
    PROVE  Line!ReadFrame(s) = ReadFrame(s)
BY Zenon DEF Line!ReadFrame, ReadFrame, Line!ReadByte, ReadByte, Line!Start, Start, Line!Scan, Scan,
   Line!TakeVersion, TakeVersion, Line!TakeDirection, TakeDirection, Line!TakeBody, TakeBody,
   Line!BodyComplete, BodyComplete, Line!HeaderComplete, HeaderComplete, Line!HeaderLength, HeaderLength,
   Line!Size, Size, Line!Checksum, Checksum, Line!XorOf, XorOf, Line!crc8_dvb_s2, crc8_dvb_s2,
   Line!Xor, Xor, Line!ShiftByte, ShiftByte, Line!ShiftOutTwice, ShiftOutTwice, Line!ShiftOut, ShiftOut,
   Line!Dollar, Dollar, Line!VersionByte, VersionByte, Line!Request, Request, Line!Response, Response,
   Line!Error, Error, Line!Directions, Directions

\* What MspLine expects of a whole frame, in terms of MspCodec.
LEMMA LineReturns ==
    ASSUME NEW r, NEW f
    PROVE  Line!Returns(r, f) <=>
               /\ r.at = "done"
               /\ r.version = VersionFor(f.command, f.payload) /\ r.direction = f.direction
               /\ Command(r) = f.command /\ Payload(r) = f.payload
BY Zenon DEF Line!Returns, Line!Version, Line!VersionFor, VersionFor, Line!Command, Command, Line!Payload, Payload,
   Line!HeaderLength, HeaderLength

\* The line ends with the bytes e of the frame, but for the damaged one; before
\* them is noise without "$", or what is left of the frame when its head is lost.
Carries(e, ln, ns, dm, ls) ==
    /\ ln \in Seq(Byte) /\ Len(ln) >= Len(e)
    /\ ns \in Nat /\ ns <= 2 /\ dm \in Nat /\ dm <= MaxDamaged /\ ls \in Nat /\ ls <= MaxDamaged
    /\ \A i \in 1..Len(e) : i # dm => ln[Len(ln) - Len(e) + i] = e[i]
    /\ ls = 0 => Len(ln) = ns + Len(e) /\ \A i \in 1..ns : ln[i] # Dollar
    /\ dm > 0 => ls = 0 /\ dm <= Len(e) /\ ln[ns + dm] # e[dm]

\* The frames and the noise of the line.
LEMMA LineAssumptions ==
    /\ MaxDamaged \in Nat /\ Values \subseteq Byte
    /\ \A b \in Noise : b \in Byte /\ b # Dollar
<1>1. Line!NoiseAssumption
    BY InstancesAssumption
<1> QED
    BY <1>1, Zenon DEF Line!NoiseAssumption, Line!Dollar, Dollar, Byte

\* A frame is bytes.
LEMMA BytesType ==
    ASSUME NEW f \in Frames
    PROVE  Line!Bytes(f) \in Seq(Byte) /\ Len(Line!Bytes(f)) = 4 + Len(BodyOf(f))
<1> DEFINE version == VersionFor(f.command, f.payload)
           body == BodyOf(f)
           c == Checksum(version, body)
<1>1. version \in {1, 2} /\ f.direction \in Directions /\ body \in Seq(Byte)
    BY FramesFit, BodyOfFrame DEF Fitting, Fits, BodyOf
<1>2. c \in Byte
    BY <1>1, ChecksumType
<1>3. Line!Bytes(f) = <<Dollar, VersionByte[version], f.direction>> \o body \o <<c>>
    BY BytesOfFrame
<1> HIDE DEF version, body, c
<1> QED
    BY <1>1, <1>2, <1>3, FrameBytes DEF body

\* Noise before it,
LEMMA PrecedeCarries ==
    ASSUME NEW e \in Seq(Byte), NEW ln, NEW ns, NEW dm, Carries(e, ln, ns, dm, 0),
           NEW b \in Noise, ns < 2
    PROVE  Carries(e, <<b>> \o ln, ns + 1, dm, 0)
<1> DEFINE after == <<b>> \o ln
<1>1. /\ ln \in Seq(Byte) /\ Len(ln) = ns + Len(e) /\ ns \in Nat /\ dm \in Nat /\ Len(e) \in Nat
      /\ dm <= MaxDamaged /\ MaxDamaged \in Nat
      /\ \A i \in 1..Len(e) : i # dm => ln[Len(ln) - Len(e) + i] = e[i]
      /\ \A i \in 1..ns : ln[i] # Dollar
      /\ dm > 0 => dm <= Len(e) /\ ln[ns + dm] # e[dm]
    BY LineAssumptions DEF Carries
<1>2. b \in Byte /\ b # Dollar /\ <<b>> \in Seq(Byte) /\ Len(<<b>>) = 1 /\ <<b>>[1] = b
    BY LineAssumptions
<1>3. /\ after \in Seq(Byte) /\ Len(after) = 1 + Len(ln)
      /\ \A i \in 1..1 : after[i] = <<b>>[i]
      /\ \A i \in 1..Len(ln) : after[1 + i] = ln[i]
    <2>1. ln \in Seq(Byte) /\ <<b>> \in Seq(Byte)
        BY <1>1, <1>2
    <2>2. /\ after \in Seq(Byte) /\ Len(after) = Len(<<b>>) + Len(ln)
          /\ \A i \in 1..Len(<<b>>) : after[i] = <<b>>[i]
          /\ \A i \in 1..Len(ln) : after[Len(<<b>>) + i] = ln[i]
        BY ONLY <2>1, Concatenation
    <2> QED
        BY <2>2, <1>2, Zenon
<1> HIDE DEF after
<1>4. ASSUME NEW i \in 1..Len(e), i # dm
      PROVE  after[Len(after) - Len(e) + i] = e[i]
    <2>1. Len(ln) - Len(e) + i = ns + i /\ ns + i \in 1..Len(ln)
          /\ Len(after) - Len(e) + i = 1 + (ns + i)
        BY <1>1, <1>3
    <2> QED
        BY <2>1, <1>1, <1>3, <1>4
<1>5. ASSUME NEW i \in 1..ns + 1
      PROVE  after[i] # Dollar
    <2>1. CASE i = 1
        BY <2>1, <1>2, <1>3
    <2>2. CASE i # 1
        <3>1. i - 1 \in 1..ns /\ i - 1 \in 1..Len(ln) /\ 1 + (i - 1) = i
            BY <2>2, <1>1
        <3> QED
            BY <3>1, <1>1, <1>3
    <2> QED
        BY <2>1, <2>2
<1>6. ASSUME dm > 0
      PROVE  after[ns + 1 + dm] # e[dm]
    <2>1. ns + dm \in 1..Len(ln) /\ 1 + (ns + dm) = ns + 1 + dm
        BY <1>1, <1>6
    <2> QED
        BY <2>1, <1>1, <1>3, <1>6
<1>7. Len(after) = ns + 1 + Len(e) /\ Len(after) >= Len(e) /\ ns + 1 \in Nat /\ ns + 1 <= 2
      /\ 0 \in Nat /\ 0 <= MaxDamaged
    BY <1>1, <1>3
<1> QED
    BY <1>1, <1>3, <1>4, <1>5, <1>6, <1>7 DEF Carries, after

\* damage to one byte
LEMMA DamageCarries ==
    ASSUME NEW e \in Seq(Byte), NEW ln, Carries(e, ln, 0, 0, 0),
           NEW i \in 1..Len(ln), i <= MaxDamaged, NEW b \in Values, b # ln[i]
    PROVE  Carries(e, [ln EXCEPT ![i] = b], 0, i, 0)
<1> DEFINE after == [ln EXCEPT ![i] = b]
<1>1. /\ ln \in Seq(Byte) /\ Len(ln) = Len(e) /\ Len(e) \in Nat
      /\ \A j \in 1..Len(e) : j # 0 => ln[Len(ln) - Len(e) + j] = e[j]
      /\ b \in Byte /\ MaxDamaged \in Nat
    BY LineAssumptions DEF Carries
<1>2. \A j \in 1..Len(e) : ln[j] = e[j]
    <2> SUFFICES ASSUME NEW j \in 1..Len(e)
                 PROVE  ln[j] = e[j]
        OBVIOUS
    <2>1. Len(ln) - Len(e) + j = j /\ j # 0
        BY <1>1
    <2> QED
        BY <2>1, <1>1
<1>3. /\ after \in Seq(Byte) /\ Len(after) = Len(ln) /\ after[i] = b
      /\ \A j \in 1..Len(ln) : j # i => after[j] = ln[j]
    BY <1>1
<1> HIDE DEF after
<1>4. ASSUME NEW j \in 1..Len(e), j # i
      PROVE  after[Len(after) - Len(e) + j] = e[j]
    <2>1. Len(after) - Len(e) + j = j /\ j \in 1..Len(ln)
        BY <1>1, <1>3
    <2> QED
        BY <2>1, <1>2, <1>3, <1>4
<1>5. after[0 + i] # e[i] /\ i <= Len(e) /\ i \in Nat /\ Len(after) = 0 + Len(e) /\ Len(after) >= Len(e)
      /\ 0 <= MaxDamaged
    BY <1>1, <1>2, <1>3
<1>6. \A j \in 1..0 : after[j] # Dollar
    OBVIOUS
<1> QED
    BY <1>3, <1>4, <1>5, <1>6 DEF Carries, after

\* and a cut leave the line what Carries says.
LEMMA CutCarries ==
    ASSUME NEW e \in Seq(Byte), NEW ln, Carries(e, ln, 0, 0, 0),
           NEW k \in 1..Len(ln), k <= MaxDamaged
    PROVE  Carries(e, SubSeq(ln, k + 1, Len(ln)) \o e, 0, 0, k)
<1> DEFINE left == SubSeq(ln, k + 1, Len(ln))
           after == left \o e
<1>1. ln \in Seq(Byte) /\ Len(e) \in Nat /\ MaxDamaged \in Nat
    BY LineAssumptions DEF Carries
<1>2. left \in Seq(Byte) /\ Len(left) \in Nat
    BY <1>1
<1>3. /\ after \in Seq(Byte) /\ Len(after) = Len(left) + Len(e)
      /\ \A i \in 1..Len(e) : after[Len(left) + i] = e[i]
    <2> HIDE DEF left
    <2> QED
        BY ONLY <1>2, e \in Seq(Byte), Concatenation DEF after
<1> HIDE DEF left, after
<1>4. ASSUME NEW i \in 1..Len(e)
      PROVE  after[Len(after) - Len(e) + i] = e[i]
    <2>1. Len(after) - Len(e) + i = Len(left) + i
        BY <1>1, <1>2, <1>3
    <2> QED
        BY <2>1, <1>3
<1>5. Len(after) >= Len(e) /\ k \in Nat /\ k # 0 /\ 0 <= MaxDamaged
    BY <1>1, <1>2, <1>3
<1>6. Carries(e, after, 0, 0, k)
    BY <1>3, <1>4, <1>5 DEF Carries
<1> QED
    BY <1>6, Zenon DEF left, after

----------------------------------------------------------------------------
(* A frame is read back.                                                    *)

\* A step of the line keeps its frame and what it carries.
LEMMA LineStep ==
    ASSUME frame \in Frames, Carries(Line!Bytes(frame), line, noise, damaged, lost), Line!Next
    PROVE  frame' = frame /\ Carries(Line!Bytes(frame), line', noise', damaged', lost')
<1> DEFINE e == Line!Bytes(frame)
<1>1. e \in Seq(Byte)
    BY BytesType
<1>2. Carries(e, line, noise, damaged, lost)
    OBVIOUS
<1>3. CASE Line!Precede
    <2>1. PICK b \in Noise : line' = <<b>> \o line /\ noise' = noise + 1
        BY <1>3 DEF Line!Precede
    <2>2. lost = 0 /\ noise < 2 /\ frame' = frame /\ damaged' = damaged /\ lost' = lost
        BY <1>3, Zenon DEF Line!Precede
    <2>3. Carries(e, line, noise, damaged, 0)
        BY <1>2, <2>2, Zenon
    <2> HIDE DEF e
    <2>4. Carries(e, <<b>> \o line, noise + 1, damaged, 0)
        BY <1>1, <2>2, <2>3, PrecedeCarries
    <2>5. Carries(e, line', noise', damaged', lost')
        BY <2>1, <2>2, <2>4, Zenon
    <2> QED
        BY <2>2, <2>5 DEF e
<1>4. CASE Line!Damage
    <2>1. PICK i \in 1..Len(line), b \in Values :
              /\ i <= MaxDamaged /\ b # line[i]
              /\ damaged' = i /\ line' = [line EXCEPT ![i] = b]
        BY <1>4 DEF Line!Damage
    <2>2. damaged = 0 /\ noise = 0 /\ lost = 0 /\ frame' = frame /\ noise' = noise /\ lost' = lost
        BY <1>4, Zenon DEF Line!Damage
    <2>3. Carries(e, line, 0, 0, 0)
        BY <1>2, <2>2, Zenon
    <2> HIDE DEF e
    <2>4. Carries(e, [line EXCEPT ![i] = b], 0, i, 0)
        BY <1>1, <2>1, <2>3, DamageCarries
    <2>5. Carries(e, line', noise', damaged', lost')
        BY <2>1, <2>2, <2>4, Zenon
    <2> QED
        BY <2>2, <2>5 DEF e
<1>5. CASE Line!Cut
    <2>1. PICK k \in 1..Len(line) :
              /\ k <= MaxDamaged /\ lost' = k
              /\ line' = SubSeq(line, k + 1, Len(line)) \o e
        BY <1>5 DEF Line!Cut
    <2>2. damaged = 0 /\ noise = 0 /\ lost = 0 /\ frame' = frame /\ noise' = noise /\ damaged' = damaged
        BY <1>5, Zenon DEF Line!Cut
    <2>3. Carries(e, line, 0, 0, 0)
        BY <1>2, <2>2, Zenon
    <2> HIDE DEF e
    <2>4. Carries(e, SubSeq(line, k + 1, Len(line)) \o e, 0, 0, k)
        BY <1>1, <2>1, <2>3, CutCarries
    <2>5. Carries(e, line', noise', damaged', lost')
        BY <2>1, <2>2, <2>4, Zenon
    <2> QED
        BY <2>2, <2>5 DEF e
<1> QED
    BY <1>3, <1>4, <1>5 DEF Line!Next

\* The bytes of a frame, one by one.
LEMMA BytesOneByOne ==
    ASSUME NEW f \in Frames
    PROVE  LET version == VersionFor(f.command, f.payload)
               body == BodyOf(f)
               e == Line!Bytes(f)
           IN  /\ version \in {1, 2} /\ f.direction \in Directions
               /\ body \in Seq(Byte) /\ Whole(version, body)
               /\ Checksum(version, body) \in Byte
               /\ e \in Seq(Byte) /\ Len(e) = 4 + Len(body)
               /\ e[1] = Dollar /\ e[2] = VersionByte[version] /\ e[3] = f.direction
               /\ \A i \in 1..Len(body) : e[3 + i] = body[i]
               /\ e[4 + Len(body)] = Checksum(version, body)
<1> DEFINE version == VersionFor(f.command, f.payload)
           body == BodyOf(f)
           c == Checksum(version, body)
<1>1. version \in {1, 2} /\ f.direction \in Directions /\ body \in Seq(Byte) /\ Whole(version, body)
    BY FramesFit, BodyOfFrame DEF Fitting, Fits, BodyOf
<1>2. c \in Byte
    BY <1>1, ChecksumType
<1>3. Line!Bytes(f) = <<Dollar, VersionByte[version], f.direction>> \o body \o <<c>>
    BY BytesOfFrame
<1> DEFINE e == Line!Bytes(f)
<1>4. /\ e \in Seq(Byte) /\ Len(e) = 4 + Len(body)
      /\ e[1] = Dollar /\ e[2] = VersionByte[version] /\ e[3] = f.direction
      /\ \A i \in 1..Len(body) : e[3 + i] = body[i]
      /\ e[4 + Len(body)] = c
    <2> HIDE DEF version, body, c
    <2> QED
        BY <1>1, <1>2, <1>3, FrameBytes
<1> QED
    BY <1>1, <1>2, <1>4, Zenon

\* Behind n bytes without "$", a whole frame is returned and nothing is left.
LEMMA FrameIsReturned ==
    ASSUME NEW f \in Frames, NEW s \in Seq(Byte), NEW n \in Nat,
           Len(s) = n + Len(Line!Bytes(f)),
           \A i \in 1..n : s[i] # Dollar,
           \A i \in 1..Len(Line!Bytes(f)) : s[n + i] = Line!Bytes(f)[i]
    PROVE  Line!Returns(Line!ReadFrame(s), f) /\ Line!ReadFrame(s).used = Len(s)
<1> DEFINE version == VersionFor(f.command, f.payload)
           body == BodyOf(f)
           c == Checksum(version, body)
           e == Line!Bytes(f)
           r == Reader("done", version, f.direction, body, Len(s))
<1>1. /\ version \in {1, 2} /\ f.direction \in Directions
      /\ body \in Seq(Byte) /\ Whole(version, body) /\ c \in Byte
      /\ e \in Seq(Byte) /\ Len(e) = 4 + Len(body)
      /\ e[1] = Dollar /\ e[2] = VersionByte[version] /\ e[3] = f.direction
      /\ \A i \in 1..Len(body) : e[3 + i] = body[i]
      /\ e[4 + Len(body)] = c
    BY BytesOneByOne
<1>2. /\ Len(s) = n + Len(e)
      /\ \A i \in 1..Len(e) : s[n + i] = e[i]
    OBVIOUS
<1>3. c = Checksum(version, body)
    OBVIOUS
<1>4. /\ body = FrameBody(version, f.command, f.payload)
      /\ f.command = IF version = 1 THEN body[2] ELSE body[2] + 256 * body[3]
      /\ SubSeq(body, HeaderLength(version) + 1, Len(body)) = f.payload
    BY FramesFit, BodyOfFrame DEF Fitting, BodyOf
<1>5. ReadFrame(s) = r
    <2> HIDE DEF version, body, c, e
    <2>1. Len(body) \in Nat
        BY <1>1
    <2>2. IsFrameBehind(s, n, version, f.direction, body, c)
        <3>1. Len(s) = n + 4 + Len(body)
            <4>1. n \in Nat /\ Len(s) = n + Len(e) /\ Len(e) = 4 + Len(body)
                BY <1>1, <1>2, Zenon
            <4> QED
                BY ONLY <4>1, <2>1
        <3>2. s[n + 1] = Dollar /\ s[n + 2] = VersionByte[version] /\ s[n + 3] = f.direction
            <4>1. 1 \in 1..Len(e) /\ 2 \in 1..Len(e) /\ 3 \in 1..Len(e)
                BY <1>1, <2>1
            <4>2. s[n + 1] = e[1] /\ s[n + 2] = e[2] /\ s[n + 3] = e[3]
                BY <4>1, <1>2, Zenon
            <4> QED
                BY <4>2, <1>1, Zenon
        <3>3. ASSUME NEW i \in 1..Len(body)
              PROVE  s[n + 3 + i] = body[i]
            <4>1. 3 + i \in 1..Len(e) /\ n + 3 + i = n + (3 + i)
                BY <1>1, <2>1
            <4> QED
                BY <4>1, <1>1, <1>2
        <3>4. s[n + 4 + Len(body)] = c
            <4>1. 4 + Len(body) \in 1..Len(e) /\ n + 4 + Len(body) = n + (4 + Len(body))
                BY <1>1, <2>1
            <4> QED
                BY <4>1, <1>1, <1>2
        <3> QED
            BY <3>1, <3>2, <3>3, <3>4 DEF IsFrameBehind
    <2>3. ReadFrame(s) = Reader(IF c = Checksum(version, body) THEN "done" ELSE "bad",
                                version, f.direction, body, Len(s))
        BY <1>1, <2>2, BodyIsRead
    <2> QED
        BY <1>3, <2>3, Zenon
<1>6. Command(r) = f.command /\ Payload(r) = f.payload
    BY <1>4 DEF Command, Payload, Reader
<1>7. r.at = "done" /\ r.version = version /\ r.direction = f.direction /\ r.used = Len(s)
    BY DEF Reader
<1>8. Line!Returns(r, f)
    BY <1>6, <1>7, LineReturns
<1> QED
    BY <1>5, <1>7, <1>8, LineReader, Zenon

\* The frame is returned behind noise,
LEMMA RoundTripHolds ==
    ASSUME NEW f \in Frames, NEW ln, NEW ns, Carries(Line!Bytes(f), ln, ns, 0, 0)
    PROVE  Line!Returns(Line!ReadFrame(ln), f) /\ Line!ReadFrame(ln).used = Len(ln)
<1> DEFINE e == Line!Bytes(f)
<1>1. e \in Seq(Byte)
    BY BytesType
<1>2. Len(e) \in Nat
    BY <1>1
<1> HIDE DEF e
<1>3. /\ ln \in Seq(Byte) /\ ns \in Nat /\ Len(ln) = ns + Len(e)
      /\ \A i \in 1..ns : ln[i] # Dollar
      /\ \A i \in 1..Len(e) : i # 0 => ln[Len(ln) - Len(e) + i] = e[i]
    BY DEF Carries, e
<1>4. \A i \in 1..Len(e) : ln[ns + i] = e[i]
    <2> SUFFICES ASSUME NEW i \in 1..Len(e)
                 PROVE  ln[ns + i] = e[i]
        OBVIOUS
    <2>1. Len(ln) - Len(e) + i = ns + i /\ i # 0
        BY <1>2, <1>3
    <2> QED
        BY <2>1, <1>3
<1> QED
    BY <1>3, <1>4, FrameIsReturned DEF e

\* and behind what is left of another.
LEMMA ResynchronisesHolds ==
    ASSUME NEW f \in Frames, NEW ln, NEW ns, NEW ls, Carries(Line!Bytes(f), ln, ns, 0, ls),
           Dollar \notin Range(SubSeq(ln, 1, Len(ln) - Len(Line!Bytes(f))))
    PROVE  Line!Returns(Line!ReadFrame(ln), f) /\ Line!ReadFrame(ln).used = Len(ln)
<1> DEFINE e == Line!Bytes(f)
           n == Len(ln) - Len(e)
           junk == SubSeq(ln, 1, n)
<1>1. e \in Seq(Byte)
    BY BytesType
<1>2. Len(e) \in Nat
    BY <1>1
<1>3. /\ ln \in Seq(Byte) /\ Len(ln) >= Len(e)
      /\ \A i \in 1..Len(e) : i # 0 => ln[Len(ln) - Len(e) + i] = e[i]
    BY DEF Carries
<1>4. Dollar \notin Range(junk)
    OBVIOUS
<1> HIDE DEF e
<1>5. n \in Nat /\ n <= Len(ln) /\ Len(ln) = n + Len(e)
    BY <1>2, <1>3
<1>6. Len(junk) = n /\ \A i \in 1..n : junk[i] = ln[i]
    BY <1>3, <1>5
<1>7. \A i \in 1..n : ln[i] # Dollar
    BY <1>4, <1>6, <1>5 DEF Range
<1>8. \A i \in 1..Len(e) : ln[n + i] = e[i]
    BY <1>3
<1> QED
    <2> HIDE DEF n
    <2> QED
        BY <1>3, <1>5, <1>7, <1>8, FrameIsReturned DEF e

----------------------------------------------------------------------------
(* A reader does behind junk what it does without it.                       *)

\* A reader that has read n bytes more.
Later(r, n) == Reader(r.at, r.version, r.direction, r.body, r.used + n)

\* A reader is its fields.
LEMMA ReaderOfFields ==
    ASSUME NEW r \in Readers
    PROVE  r = Reader(r.at, r.version, r.direction, r.body, r.used)
BY DEF Readers, Reader

\* What it does with a byte does not depend on how many it has read.
LEMMA ReadLater ==
    ASSUME NEW r \in Readers, NEW n \in Nat, NEW b \in Byte
    PROVE  ReadByte(Later(r, n), b) = Later(ReadByte(r, b), n)
<1> DEFINE at == r.at  v == r.version  d == r.direction  body == r.body  u == r.used
<1>1. /\ r = Reader(at, v, d, body, u)
      /\ Later(r, n) = Reader(at, v, d, body, u + n)
    BY ReaderOfFields DEF Later
<1>2. u \in Nat /\ u + n + 1 = u + 1 + n
    BY DEF Readers
<1>3. ASSUME NEW a, NEW w, NEW x, NEW y, NEW z
      PROVE  Later(Reader(a, w, x, y, z), n) = Reader(a, w, x, y, z + n)
    BY DEF Later, Reader
<1>4. at \in {"scan", "version", "direction", "body", "done", "bad"}
    BY DEF Readers
<1> HIDE DEF at, v, d, body, u
<1>5. CASE at = "scan"
    <2>1. ReadByte(r, b) = Reader(IF b = Dollar THEN "version" ELSE "scan", v, d, body, u + 1)
        BY <1>1, <1>5, ScanStep
    <2>2. ReadByte(Later(r, n), b)
              = Reader(IF b = Dollar THEN "version" ELSE "scan", v, d, body, u + n + 1)
        BY <1>1, <1>5, ScanStep
    <2> QED
        BY <2>1, <2>2, <1>2, <1>3
<1>6. CASE at = "version"
    <2>1. CASE b \in {VersionByte[1], VersionByte[2]}
        <3> DEFINE w == IF b = VersionByte[1] THEN 1 ELSE 2
        <3>1. ReadByte(r, b) = Reader("direction", w, d, body, u + 1)
            BY <1>1, <1>6, <2>1, VersionStep
        <3>2. ReadByte(Later(r, n), b) = Reader("direction", w, d, body, u + n + 1)
            BY <1>1, <1>6, <2>1, VersionStep
        <3> HIDE DEF w
        <3> QED
            BY <3>1, <3>2, <1>2, <1>3
    <2>2. CASE b \notin {VersionByte[1], VersionByte[2]}
        <3>1. ReadByte(r, b) = Reader("scan", v, d, body, u + 1)
            BY <1>1, <1>6, <2>2, VersionStep
        <3>2. ReadByte(Later(r, n), b) = Reader("scan", v, d, body, u + n + 1)
            BY <1>1, <1>6, <2>2, VersionStep
        <3> QED
            BY <3>1, <3>2, <1>2, <1>3
    <2> QED
        BY <2>1, <2>2
<1>7. CASE at = "direction"
    <2>1. CASE b \in Directions
        <3>1. ReadByte(r, b) = Reader("body", v, b, body, u + 1)
            BY <1>1, <1>7, <2>1, DirectionStep
        <3>2. ReadByte(Later(r, n), b) = Reader("body", v, b, body, u + n + 1)
            BY <1>1, <1>7, <2>1, DirectionStep
        <3> QED
            BY <3>1, <3>2, <1>2, <1>3
    <2>2. CASE b \notin Directions
        <3>1. ReadByte(r, b) = Reader("bad", v, d, body, u + 1)
            BY <1>1, <1>7, <2>2, DirectionStep
        <3>2. ReadByte(Later(r, n), b) = Reader("bad", v, d, body, u + n + 1)
            BY <1>1, <1>7, <2>2, DirectionStep
        <3> QED
            BY <3>1, <3>2, <1>2, <1>3
    <2> QED
        BY <2>1, <2>2
<1>8. CASE at = "body"
    <2>1. CASE Whole(v, body)
        <3> DEFINE a == IF b = Checksum(v, body) THEN "done" ELSE "bad"
        <3>1. ReadByte(r, b) = Reader(a, v, d, body, u + 1)
            BY <1>1, <1>8, <2>1, BodyStep
        <3>2. ReadByte(Later(r, n), b) = Reader(a, v, d, body, u + n + 1)
            BY <1>1, <1>8, <2>1, BodyStep
        <3> HIDE DEF a
        <3> QED
            BY <3>1, <3>2, <1>2, <1>3
    <2>2. CASE ~ Whole(v, body)
        <3>1. ReadByte(r, b) = Reader("body", v, d, Append(body, b), u + 1)
            BY <1>1, <1>8, <2>2, BodyStep
        <3>2. ReadByte(Later(r, n), b) = Reader("body", v, d, Append(body, b), u + n + 1)
            BY <1>1, <1>8, <2>2, BodyStep
        <3> QED
            BY <3>1, <3>2, <1>2, <1>3
    <2> QED
        BY <2>1, <2>2
<1>9. CASE at \in {"done", "bad"}
    <2>1. ReadByte(r, b) = r
        BY <1>9 DEF ReadByte, at
    <2>2. Later(r, n).at = at
        BY <1>1 DEF Reader
    <2>3. ReadByte(Later(r, n), b) = Later(r, n)
        BY <2>2, <1>9 DEF ReadByte
    <2> QED
        BY <2>1, <2>3, Zenon
<1> QED
    BY <1>4, <1>5, <1>6, <1>7, <1>8, <1>9

\* A run over junk without "$" stays at its start.
LEMMA JunkSteps ==
    ASSUME NEW s \in Seq(Byte), NEW f, IsReaderRun(f, s), NEW n \in 0..Len(s), \A i \in 1..n : s[i] # Dollar
    PROVE  f[n] = Later(Start, n)
<1> DEFINE G == {i \in 0..n : f[i] = Reader("scan", 1, Request, <<>>, i)}
<1>1. f[0] = Start /\ \A i \in 1..Len(s) : f[i] = ReadByte(f[i - 1], s[i])
    BY ReaderSteps
<1>2. 0 \in G
    BY <1>1, StartReader
<1>3. ASSUME NEW i \in 1..n, i - 1 \in G
      PROVE  i \in G
    <2>1. f[i] = ReadByte(Reader("scan", 1, Request, <<>>, i - 1), s[i]) /\ s[i] # Dollar
        BY <1>1, <1>3
    <2>2. f[i] = Reader("scan", 1, Request, <<>>, i - 1 + 1)
        BY <2>1, ScanStep
    <2>3. i - 1 + 1 = i
        OBVIOUS
    <2> QED
        BY <2>2, <2>3
<1>4. n \in Nat
    OBVIOUS
<1> HIDE DEF G
<1>5. 0..n \subseteq G
    BY <1>2, <1>3, <1>4, InductionUpTo
<1>6. f[n] = Reader("scan", 1, Request, <<>>, n)
    BY <1>4, <1>5 DEF G
<1>7. Later(Start, n) = Reader("scan", 1, Request, <<>>, 0 + n) /\ 0 + n = n
    BY <1>4, StartReader DEF Later, Reader
<1> QED
    BY <1>6, <1>7, Zenon

\* The first n elements,
LEMMA FirstElements ==
    ASSUME NEW S, NEW s \in Seq(S), NEW n \in 0..Len(s)
    PROVE  LET t == SubSeq(s, 1, n)
           IN  t \in Seq(S) /\ Len(t) = n /\ \A i \in 1..Len(t) : t[i] = s[i]
OBVIOUS

\* and what is behind them.
LEMMA Rest ==
    ASSUME NEW S, NEW s \in Seq(S), NEW n \in 0..Len(s)
    PROVE  LET t == SubSeq(s, n + 1, Len(s))
           IN  t \in Seq(S) /\ Len(t) = Len(s) - n /\ \A i \in 1..Len(t) : t[i] = s[n + i]
OBVIOUS

\* A reader does behind junk what it does without it.
LEMMA JunkIsSkipped ==
    ASSUME NEW s \in Seq(Byte), NEW n \in 0..Len(s), \A i \in 1..n : s[i] # Dollar
    PROVE  ReadFrame(s) = Later(ReadFrame(SubSeq(s, n + 1, Len(s))), n)
<1> DEFINE t == SubSeq(s, n + 1, Len(s))
<1>1. n \in Nat /\ t \in Seq(Byte) /\ Len(t) = Len(s) - n /\ \A i \in 1..Len(t) : t[i] = s[n + i]
    BY Rest
<1> HIDE DEF t
<1>2. PICK f \in [0..Len(s) -> Readers] : IsReaderRun(f, s) /\ ReadFrame(s) = f[Len(s)]
    BY ReaderRun
<1>3. PICK g \in [0..Len(t) -> Readers] : IsReaderRun(g, t) /\ ReadFrame(t) = g[Len(t)]
    BY <1>1, ReaderRun
<1> DEFINE G == {i \in 0..Len(t) : f[n + i] = Later(g[i], n)}
<1>4. f[n] = Later(Start, n)
    BY <1>2, JunkSteps
<1>5. g[0] = Start /\ \A i \in 1..Len(t) : g[i] = ReadByte(g[i - 1], t[i])
    BY <1>1, <1>3, ReaderSteps
<1>6. \A i \in 1..Len(s) : f[i] = ReadByte(f[i - 1], s[i])
    BY <1>2, ReaderSteps
<1>7. Len(t) \in Nat /\ Len(s) \in Nat /\ n + Len(t) = Len(s)
    BY <1>1
<1>8. 0 \in G
    BY <1>1, <1>4, <1>5, <1>7
<1>9. ASSUME NEW i \in 1..Len(t), i - 1 \in G
      PROVE  i \in G
    <2>1. n + i \in 1..Len(s) /\ n + i - 1 = n + (i - 1) /\ i - 1 \in 0..Len(t) /\ i \in 0..Len(t)
        BY <1>1, <1>7
    <2>2. f[n + i] = ReadByte(f[n + i - 1], s[n + i])
        BY <2>1, <1>6
    <2>3. f[n + (i - 1)] = Later(g[i - 1], n)
        BY <1>9
    <2>4. g[i - 1] \in Readers /\ t[i] \in Byte /\ t[i] = s[n + i]
        <3>1. g[i - 1] \in Readers
            BY ONLY g \in [0..Len(t) -> Readers], <2>1
        <3>2. t[i] = s[n + i]
            BY <1>1, Zenon
        <3>3. t[i] \in Byte
            BY ONLY <1>1, i \in 1..Len(t)
        <3> QED
            BY <3>1, <3>2, <3>3, Zenon
    <2>5. f[n + i] = ReadByte(Later(g[i - 1], n), t[i])
        BY <2>1, <2>2, <2>3, <2>4, Zenon
    <2>6. ReadByte(Later(g[i - 1], n), t[i]) = Later(ReadByte(g[i - 1], t[i]), n)
        BY <2>4, <1>1, ReadLater
    <2>7. f[n + i] = Later(g[i], n)
        BY <2>5, <2>6, <1>5, Zenon
    <2> QED
        BY <2>1, <2>7
<1> HIDE DEF G
<1>10. 0..Len(t) \subseteq G
    BY <1>7, <1>8, <1>9, InductionUpTo
<1>11. f[n + Len(t)] = Later(g[Len(t)], n)
    BY <1>7, <1>10 DEF G
<1> QED
    BY <1>2, <1>3, <1>7, <1>11, Zenon DEF t

----------------------------------------------------------------------------
(* One damaged byte is noticed.                                             *)

\* A frame whose first byte is changed is junk up to what it holds.
LEMMA HeadDamageIsNoticed ==
    ASSUME NEW f \in Frames, FramesHideNone, NEW ln, NEW ns, Carries(Line!Bytes(f), ln, ns, 1, 0)
    PROVE  ReadFrame(ln).at # "done"
<1> DEFINE e == Line!Bytes(f)
           n == ns + 1
           tail == SubSeq(ln, n + 1, Len(ln))
           behind == SubSeq(e, 2, Len(e))
<1>1. e \in Seq(Byte) /\ e[1] = Dollar /\ Len(e) \in Nat
    BY BytesOneByOne
<1>2. ReadFrame(behind).at # "done"
    <2>1. Len(e) = 4 + Len(BodyOf(f)) /\ BodyOf(f) \in Seq(Byte)
        BY BytesOneByOne
    <2>2. e # <<>>
        <3>1. Len(e) # 0
            BY <2>1
        <3> HIDE DEF e
        <3> QED
            BY <3>1
    <2>3. Tail(e) = behind
        <3> HIDE DEF e
        <3> QED
            BY <1>1, <2>2, TailIsSubSeq
    <2>4. Line!ReadFrame(Tail(e)).at # "done"
        BY Zenon DEF FramesHideNone
    <2> QED
        BY <2>3, <2>4, LineReader, Zenon
<1> HIDE DEF e
<1>3. /\ ln \in Seq(Byte) /\ ns \in Nat /\ Len(ln) = ns + Len(e)
      /\ \A i \in 1..ns : ln[i] # Dollar
      /\ \A i \in 1..Len(e) : i # 1 => ln[Len(ln) - Len(e) + i] = e[i]
      /\ 1 <= Len(e) /\ ln[ns + 1] # e[1]
    BY DEF Carries, e
<1>4. n \in 0..Len(ln) /\ \A i \in 1..n : ln[i] # Dollar
    <2>1. n \in 0..Len(ln)
        BY <1>1, <1>3
    <2>2. ASSUME NEW i \in 1..n
          PROVE  ln[i] # Dollar
        <3>1. i \in 1..ns \/ i = ns + 1
            BY <1>3
        <3> QED
            BY <3>1, <1>1, <1>3, Zenon
    <2> QED
        BY <2>1, <2>2
<1>5. tail = behind
    <2>1. tail \in Seq(Byte) /\ behind \in Seq(Byte)
        BY <1>1, <1>3
    <2>2. Len(tail) = Len(e) - 1 /\ Len(behind) = Len(e) - 1
        <3>1. n \in Nat /\ Len(ln) = n + (Len(e) - 1) /\ ln \in Seq(Byte)
            BY <1>1, <1>3
        <3>2. Len(tail) = Len(ln) - n
            <4> HIDE DEF n
            <4> QED
                BY ONLY <3>1, <1>1, <1>3 DEF tail
        <3>3. Len(behind) = Len(e) - 1
            <4>1. e \in Seq(Byte) /\ Len(e) \in Nat /\ 1 <= Len(e)
                BY <1>1, <1>3
            <4>2. 1 \in 0..Len(e) /\ 1 + 1 = 2
                BY ONLY <4>1
            <4>3. Len(SubSeq(e, 1 + 1, Len(e))) = Len(e) - 1
                BY ONLY <4>1, <4>2, Rest
            <4> QED
                BY ONLY <4>2, <4>3, Zenon DEF behind
        <3> QED
            BY ONLY <3>1, <3>2, <3>3, <1>1
    <2>3. ASSUME NEW i \in 1..Len(e) - 1
          PROVE  tail[i] = behind[i]
        <3>1. tail[i] = ln[n + i]
            BY <1>1, <1>3
        <3>4. behind[i] = e[i + 1]
            BY ONLY <1>1, i \in 1..Len(e) - 1
        <3>2. i + 1 \in 1..Len(e) /\ i + 1 # 1 /\ Len(ln) - Len(e) + (i + 1) = n + i
            BY <1>1, <1>3
        <3>3. ln[n + i] = e[i + 1]
            BY <1>3, <3>2
        <3> QED
            BY <3>1, <3>3, <3>4, Zenon
    <2> HIDE DEF tail, behind
    <2> QED
        BY <2>1, <2>2, <2>3, SeqEqual
<1>6. ReadFrame(ln) = Later(ReadFrame(behind), n)
    <2> HIDE DEF behind
    <2> QED
        BY <1>3, <1>4, <1>5, JunkIsSkipped
<1>7. ReadFrame(ln).at = ReadFrame(behind).at
    BY <1>6 DEF Later, Reader
<1> QED
    BY <1>2, <1>7

\* A byte of the body that is not of its size changes the checksum, and a
\* changed checksum is not that of the body.
LEMMA BodyDamageIsNoticed ==
    ASSUME NEW f \in Frames, NEW ln, NEW ns, NEW dm, Carries(Line!Bytes(f), ln, ns, dm, 0),
           dm >= 4, dm \notin IF VersionFor(f.command, f.payload) = 1 THEN {4} ELSE {7, 8}
    PROVE  ReadFrame(ln).at # "done"
<1> DEFINE e == Line!Bytes(f)
           version == VersionFor(f.command, f.payload)
           body == BodyOf(f)
           c == Checksum(version, body)
           b == ln[ns + dm]
<1>1. /\ version \in {1, 2} /\ f.direction \in Directions
      /\ body \in Seq(Byte) /\ Whole(version, body) /\ c \in Byte
      /\ e \in Seq(Byte) /\ Len(e) = 4 + Len(body)
      /\ e[1] = Dollar /\ e[2] = VersionByte[version] /\ e[3] = f.direction
      /\ \A i \in 1..Len(body) : e[3 + i] = body[i]
      /\ e[4 + Len(body)] = c
    BY BytesOneByOne
<1>2. c = Checksum(version, body)
    OBVIOUS
<1>3. dm \notin IF version = 1 THEN {4} ELSE {7, 8}
    OBVIOUS
<1> HIDE DEF e, version, body, c
<1>4. Len(body) \in Nat
    BY <1>1
<1>5. /\ ln \in Seq(Byte) /\ ns \in Nat /\ dm \in Nat /\ dm > 0 /\ Len(ln) = ns + Len(e)
      /\ \A i \in 1..ns : ln[i] # Dollar
      /\ \A i \in 1..Len(e) : i # dm => ln[Len(ln) - Len(e) + i] = e[i]
      /\ dm <= Len(e) /\ ln[ns + dm] # e[dm]
    <2>1. Carries(e, ln, ns, dm, 0)
        BY DEF e
    <2>2. dm \in Nat /\ dm > 0
        BY <2>1 DEF Carries
    <2> QED
        BY ONLY <2>1, <2>2, Zenon DEF Carries
<1>6. Len(e) \in Nat
    BY <1>1
<1>7. ASSUME NEW i \in 1..Len(e), i # dm
      PROVE  ln[ns + i] = e[i]
    <2>1. Len(ln) - Len(e) + i = ns + i
        BY ONLY <1>5, <1>6, i \in 1..Len(e)
    <2> QED
        BY <2>1, <1>5, <1>7
<1>8. ln[ns + 1] = Dollar /\ ln[ns + 2] = VersionByte[version] /\ ln[ns + 3] = f.direction
    <2>1. 1 \in 1..Len(e) /\ 2 \in 1..Len(e) /\ 3 \in 1..Len(e) /\ 1 # dm /\ 2 # dm /\ 3 # dm
        BY <1>1, <1>4, <1>5
    <2>2. ln[ns + 1] = e[1] /\ ln[ns + 2] = e[2] /\ ln[ns + 3] = e[3]
        BY <2>1, <1>7, Zenon
    <2> QED
        BY <2>2, <1>1, Zenon
<1>9. Len(ln) = ns + 4 + Len(body)
    <2>1. Len(ln) = ns + Len(e) /\ Len(e) = 4 + Len(body) /\ ns \in Nat
        BY <1>1, <1>5, Zenon
    <2> QED
        BY ONLY <2>1, <1>4
<1>10. b \in Byte
    <2>1. ns + dm \in 1..Len(ln)
        BY ONLY <1>5, <1>6
    <2> QED
        BY <2>1, <1>5
<1>11. CASE dm = 4 + Len(body)
    <2>1. b # c
        BY <1>11, <1>1, <1>5, Zenon
    <2>2. ASSUME NEW i \in 1..Len(body)
          PROVE  ln[ns + 3 + i] = body[i]
        <3>1. 3 + i \in 1..Len(e) /\ 3 + i # dm /\ ns + (3 + i) = ns + 3 + i
            BY <1>1, <1>4, <1>5, <1>11
        <3> QED
            BY <3>1, <1>1, <1>7
    <2>3. ln[ns + 4 + Len(body)] = b
        <3>1. ns + 4 + Len(body) = ns + dm
            BY ONLY <1>4, <1>5, <1>11
        <3> QED
            BY <3>1, Zenon
    <2> HIDE DEF b
    <2>4. IsFrameBehind(ln, ns, version, f.direction, body, b)
        BY <1>5, <1>8, <1>9, <2>2, <2>3, Zenon DEF IsFrameBehind
    <2>5. ReadFrame(ln) = Reader(IF b = Checksum(version, body) THEN "done" ELSE "bad",
                                 version, f.direction, body, Len(ln))
        BY <1>1, <1>10, <2>4, BodyIsRead
    <2>6. ReadFrame(ln) = Reader("bad", version, f.direction, body, Len(ln))
        BY <2>1, <2>5, <1>2, Zenon
    <2> QED
        BY <2>6 DEF Reader
<1>12. CASE dm # 4 + Len(body)
    <2> DEFINE j == dm - 3
               changed == [body EXCEPT ![j] = b]
    <2>1. j \in 1..Len(body) /\ 3 + j = dm /\ ns + 3 + j = ns + dm
        BY ONLY <1>1, <1>4, <1>5, <1>12, dm >= 4
    <2>2. e[dm] = body[j] /\ b # body[j]
        <3>1. e[3 + j] = body[j]
            BY <1>1, <2>1
        <3> QED
            BY <3>1, <2>1, <1>5
    <2> HIDE DEF b, j
    <2>3. /\ changed \in Seq(Byte) /\ Len(changed) = Len(body) /\ changed[j] = b
          /\ \A i \in 1..Len(body) : i # j => changed[i] = body[i]
        BY ONLY <1>1, <1>4, <1>10, <2>1
    <2>4. Checksum(version, changed) # c
        <3>1. Checksum(version, [body EXCEPT ![j] = b]) # Checksum(version, body)
            BY <1>1, <1>10, <2>1, <2>2, ChecksumNoticesAByte
        <3> QED
            BY <3>1, <1>2, Zenon
    <2> HIDE DEF changed
    <2>5. Whole(version, changed)
        <3>1. CASE version = 1
            <4>1. 1 \in 1..Len(body) /\ 1 # j
                BY <3>1, <1>1, <1>3, <1>4, <2>1 DEF Whole, HeaderLength
            <4>2. changed[1] = body[1]
                BY <4>1, <2>3
            <4> QED
                BY <4>2, <3>1, <1>1, <2>3 DEF Whole
        <3>2. CASE version # 1
            <4>1. 4 \in 1..Len(body) /\ 5 \in 1..Len(body) /\ 4 # j /\ 5 # j
                BY <3>2, <1>1, <1>3, <1>4, <2>1 DEF Whole, HeaderLength
            <4>2. changed[4] = body[4] /\ changed[5] = body[5]
                BY <4>1, <2>3
            <4> QED
                BY <4>2, <3>2, <1>1, <2>3 DEF Whole
        <3> QED
            BY <3>1, <3>2
    <2>6. ASSUME NEW i \in 1..Len(changed)
          PROVE  ln[ns + 3 + i] = changed[i]
        <3>1. CASE i = j
            BY <3>1, <2>1, <2>3 DEF b
        <3>2. CASE i # j
            <4>1. i \in 1..Len(body) /\ 3 + i \in 1..Len(e) /\ 3 + i # dm /\ ns + (3 + i) = ns + 3 + i
                BY <1>1, <1>4, <1>5, <2>1, <2>3, <3>2
            <4>2. ln[ns + 3 + i] = e[3 + i]
                BY <4>1, <1>7
            <4>3. e[3 + i] = body[i]
                BY <4>1, <1>1
            <4>4. changed[i] = body[i]
                BY <4>1, <3>2, <2>3
            <4> QED
                BY <4>2, <4>3, <4>4
        <3> QED
            BY <3>1, <3>2
    <2>7. ln[ns + 4 + Len(changed)] = c
        <3>1. 4 + Len(body) \in 1..Len(e) /\ ns + (4 + Len(body)) = ns + 4 + Len(body)
            BY ONLY <1>1, <1>4, <1>5
        <3>2. ln[ns + (4 + Len(body))] = e[4 + Len(body)]
            BY <3>1, <1>12, <1>7
        <3> QED
            BY <3>1, <3>2, <2>3, <1>1, Zenon
    <2>8. Len(ln) = ns + 4 + Len(changed)
        BY <1>9, <2>3, Zenon
    <2>9. IsFrameBehind(ln, ns, version, f.direction, changed, c)
        BY <1>5, <1>8, <2>3, <2>6, <2>7, <2>8, Zenon DEF IsFrameBehind
    <2>10. ReadFrame(ln) = Reader(IF c = Checksum(version, changed) THEN "done" ELSE "bad",
                                  version, f.direction, changed, Len(ln))
        BY <1>1, <2>3, <2>5, <2>9, BodyIsRead
    <2>11. ReadFrame(ln) = Reader("bad", version, f.direction, changed, Len(ln))
        BY <2>10, <2>4, Zenon
    <2> QED
        BY <2>11 DEF Reader
<1> QED
    BY <1>11, <1>12

----------------------------------------------------------------------------
(* Payloads (MspAnswers): flags as bits, and percentages.                   *)

\* The bytes that answers are built from.
LEMMA AnswersAssumptions ==
    /\ KnownFlags \subseteq 0..31 /\ Masks \subseteq SUBSET (0..31) /\ ModeBytes \subseteq Byte
    /\ Capacities \subseteq Nat /\ MaxConsumed \in Nat
<1>1. Answers!FlagsAssumption /\ Answers!ByteAssumption /\ Answers!CapacityAssumption
    BY InstancesAssumption
<1>3. KnownFlags \subseteq 0..31 /\ Masks \subseteq SUBSET (0..31)
    BY <1>1 DEF Answers!FlagsAssumption
<1>4. ModeBytes \subseteq Byte
    BY <1>1 DEF Answers!ByteAssumption, Byte
<1>6. Capacities \subseteq Nat /\ MaxConsumed \in Nat
    BY <1>1, Zenon DEF Answers!CapacityAssumption
<1> QED
    BY <1>3, <1>4, <1>6

\* A byte of a mask holds a bit for every element of the mask in it, and no more.
LEMMA PlaceOfByte ==
    ASSUME NEW p0 \in {0, 1}, NEW p1 \in {0, 2}, NEW p2 \in {0, 4}, NEW p3 \in {0, 8},
           NEW p4 \in {0, 16}, NEW p5 \in {0, 32}, NEW p6 \in {0, 64}, NEW p7 \in {0, 128}
    PROVE  LET s == p0 + p1 + p2 + p3 + p4 + p5 + p6 + p7
           IN  /\ s \in Byte
               /\ s % 2 = 1 <=> p0 = 1
               /\ (s \div 2) % 2 = 1 <=> p1 = 2
               /\ (s \div 4) % 2 = 1 <=> p2 = 4
               /\ (s \div 8) % 2 = 1 <=> p3 = 8
               /\ (s \div 16) % 2 = 1 <=> p4 = 16
               /\ (s \div 32) % 2 = 1 <=> p5 = 32
               /\ (s \div 64) % 2 = 1 <=> p6 = 64
               /\ (s \div 128) % 2 = 1 <=> p7 = 128
BY DEF Byte

\* The weights of a byte's places.
LEMMA PowersOfTwo ==
    2 ^ 0 = 1 /\ 2 ^ 1 = 2 /\ 2 ^ 2 = 4 /\ 2 ^ 3 = 8 /\ 2 ^ 4 = 16 /\ 2 ^ 5 = 32 /\ 2 ^ 6 = 64 /\ 2 ^ 7 = 128
OBVIOUS

\* A byte that is the sum of some weights has just those places set.
LEMMA BitOfByte ==
    ASSUME NEW bits, NEW k \in Nat
    PROVE  /\ Answers!ByteOf(bits, k) \in Byte
           /\ \A j \in 0..7 : (Answers!ByteOf(bits, k) \div (2 ^ j)) % 2 = 1 <=> 8 * k + j \in bits
<1> DEFINE p(j, w) == IF 8 * k + j \in bits THEN w ELSE 0
           s == p(0, 1) + p(1, 2) + p(2, 4) + p(3, 8) + p(4, 16) + p(5, 32) + p(6, 64) + p(7, 128)
<1>1. Answers!ByteOf(bits, k) = s
    BY PowersOfTwo DEF Answers!ByteOf
<1>2. /\ p(0, 1) \in {0, 1} /\ p(1, 2) \in {0, 2} /\ p(2, 4) \in {0, 4} /\ p(3, 8) \in {0, 8}
      /\ p(4, 16) \in {0, 16} /\ p(5, 32) \in {0, 32} /\ p(6, 64) \in {0, 64} /\ p(7, 128) \in {0, 128}
    OBVIOUS
<1>3. /\ p(0, 1) = 1 <=> 8 * k + 0 \in bits
      /\ p(1, 2) = 2 <=> 8 * k + 1 \in bits
      /\ p(2, 4) = 4 <=> 8 * k + 2 \in bits
      /\ p(3, 8) = 8 <=> 8 * k + 3 \in bits
      /\ p(4, 16) = 16 <=> 8 * k + 4 \in bits
      /\ p(5, 32) = 32 <=> 8 * k + 5 \in bits
      /\ p(6, 64) = 64 <=> 8 * k + 6 \in bits
      /\ p(7, 128) = 128 <=> 8 * k + 7 \in bits
    OBVIOUS
<1> HIDE DEF p
<1>4. /\ s \in Byte
      /\ s % 2 = 1 <=> p(0, 1) = 1
      /\ (s \div 2) % 2 = 1 <=> p(1, 2) = 2
      /\ (s \div 4) % 2 = 1 <=> p(2, 4) = 4
      /\ (s \div 8) % 2 = 1 <=> p(3, 8) = 8
      /\ (s \div 16) % 2 = 1 <=> p(4, 16) = 16
      /\ (s \div 32) % 2 = 1 <=> p(5, 32) = 32
      /\ (s \div 64) % 2 = 1 <=> p(6, 64) = 64
      /\ (s \div 128) % 2 = 1 <=> p(7, 128) = 128
    BY ONLY <1>2, PlaceOfByte
<1>5. s \div 1 = s
    BY <1>4 DEF Byte
<1> HIDE DEF s
<1>6. ASSUME NEW j \in 0..7
      PROVE  (s \div (2 ^ j)) % 2 = 1 <=> 8 * k + j \in bits
    <2>1. j = 0 \/ j = 1 \/ j = 2 \/ j = 3 \/ j = 4 \/ j = 5 \/ j = 6 \/ j = 7
        OBVIOUS
    <2>2. CASE j = 0
        BY <2>2, <1>3, <1>4, <1>5, PowersOfTwo
    <2>3. CASE j = 1
        BY <2>3, <1>3, <1>4, <1>5, PowersOfTwo
    <2>4. CASE j = 2
        BY <2>4, <1>3, <1>4, <1>5, PowersOfTwo
    <2>5. CASE j = 3
        BY <2>5, <1>3, <1>4, <1>5, PowersOfTwo
    <2>6. CASE j = 4
        BY <2>6, <1>3, <1>4, <1>5, PowersOfTwo
    <2>7. CASE j = 5
        BY <2>7, <1>3, <1>4, <1>5, PowersOfTwo
    <2>8. CASE j = 6
        BY <2>8, <1>3, <1>4, <1>5, PowersOfTwo
    <2>9. CASE j = 7
        BY <2>9, <1>3, <1>4, <1>5, PowersOfTwo
    <2> QED
        BY <2>1, <2>2, <2>3, <2>4, <2>5, <2>6, <2>7, <2>8, <2>9
<1> QED
    BY <1>1, <1>4, <1>6, Zenon

\* A quotient of at most a hundred times the divisor is at most a hundred.
LEMMA PercentInRange ==
    ASSUME NEW x \in Nat, NEW c \in Nat, c # 0, x <= 100 * c
    PROVE  x \div c \in 0..100
OBVIOUS

----------------------------------------------------------------------------
(* A payload is read right.                                                 *)

\* Where a status has its count and its flags.
LEMMA StatusBytes ==
    ASSUME NEW n \in Byte, NEW bits
    PROVE  LET p == Answers!StatusPayload(n, bits)
           IN  /\ p \in Seq(Byte) /\ Len(p) = 21 + n
               /\ p[16] = n
               /\ \A k \in 0..3 : p[18 + n + k] = Answers!ByteOf(bits, k)
<1> DEFINE zeros == [i \in 1..15 |-> 0]
           modes == [i \in 1..n |-> 255]
           flags == [k \in 1..4 |-> Answers!ByteOf(bits, k - 1)]
           count == <<n>>
           sensors == <<29>>
           a == zeros \o count
           b == a \o modes
           c == b \o sensors
           p == c \o flags
<1>1. n \in Nat /\ n <= 255
    BY ByteRange
<1>2. zeros \in Seq(Byte) /\ Len(zeros) = 15 /\ modes \in Seq(Byte) /\ Len(modes) = n
    BY <1>1 DEF Byte
<1>3. /\ flags \in Seq(Byte) /\ Len(flags) = 4
      /\ \A k \in 0..3 : flags[k + 1] = Answers!ByteOf(bits, k)
    <2>1. \A k \in 1..4 : Answers!ByteOf(bits, k - 1) \in Byte
        BY BitOfByte
    <2>2. flags \in Seq(Byte) /\ Len(flags) = 4
        BY <2>1
    <2>3. ASSUME NEW k \in 0..3
          PROVE  flags[k + 1] = Answers!ByteOf(bits, k)
        <3>1. k + 1 \in 1..4 /\ k + 1 - 1 = k
            OBVIOUS
        <3> QED
            BY <3>1
    <2> QED
        BY <2>2, <2>3
<1>4. Answers!StatusPayload(n, bits) = p
    BY Zenon DEF Answers!StatusPayload
<1>5. count \in Seq(Byte) /\ Len(count) = 1 /\ count[1] = n /\ sensors \in Seq(Byte) /\ Len(sensors) = 1
    <2>1. 29 \in Byte
        BY DEF Byte
    <2> QED
        BY <2>1
<1> HIDE DEF count, sensors, zeros, modes, flags, a, b, c, p
<1>6. /\ a \in Seq(Byte) /\ Len(a) = Len(zeros) + Len(count)
      /\ \A i \in 1..Len(count) : a[Len(zeros) + i] = count[i]
    <2>1. zeros \in Seq(Byte) /\ count \in Seq(Byte)
        BY <1>2, <1>5
    <2> QED
        BY ONLY <2>1, Concatenation DEF a
<1>7. Len(a) = 16 /\ a[16] = n
    <2>1. 1 \in 1..Len(count) /\ Len(zeros) + 1 = 16 /\ Len(zeros) + Len(count) = 16
        BY ONLY <1>2, <1>5
    <2> QED
        BY <2>1, <1>5, <1>6, Zenon
<1>8. b \in Seq(Byte) /\ Len(b) = 16 + n /\ b[16] = n
    <2>1. /\ b \in Seq(Byte) /\ Len(b) = Len(a) + Len(modes)
          /\ \A i \in 1..Len(a) : b[i] = a[i]
        <3>1. a \in Seq(Byte) /\ modes \in Seq(Byte)
            BY <1>2, <1>6
        <3> QED
            BY ONLY <3>1, Concatenation DEF b
    <2>2. 16 \in 1..Len(a)
        BY <1>7
    <2> QED
        BY <2>1, <2>2, <1>2, <1>7, Zenon
<1>9. c \in Seq(Byte) /\ Len(c) = 17 + n /\ c[16] = n
    <2>1. /\ c \in Seq(Byte) /\ Len(c) = Len(b) + Len(sensors)
          /\ \A i \in 1..Len(b) : c[i] = b[i]
        BY ONLY <1>5, <1>8, Concatenation DEF c
    <2>2. 16 \in 1..Len(b) /\ Len(b) + Len(sensors) = 17 + n
        BY <1>1, <1>5, <1>8
    <2> QED
        BY <2>1, <2>2, <1>8, Zenon
<1>10. /\ p \in Seq(Byte) /\ Len(p) = Len(c) + Len(flags)
       /\ \A i \in 1..Len(c) : p[i] = c[i]
       /\ \A i \in 1..Len(flags) : p[Len(c) + i] = flags[i]
    <2>1. c \in Seq(Byte) /\ flags \in Seq(Byte)
        BY <1>3, <1>9
    <2> QED
        BY ONLY <2>1, Concatenation DEF p
<1>11. Len(p) = 21 + n /\ p[16] = n
    <2>1. 16 \in 1..Len(c) /\ Len(c) + Len(flags) = 21 + n
        BY <1>1, <1>3, <1>9
    <2> QED
        BY <2>1, <1>9, <1>10, Zenon
<1>12. ASSUME NEW k \in 0..3
       PROVE  p[18 + n + k] = Answers!ByteOf(bits, k)
    <2>1. k + 1 \in 1..Len(flags) /\ Len(c) + (k + 1) = 18 + n + k
        BY <1>1, <1>3, <1>9
    <2>2. p[Len(c) + (k + 1)] = flags[k + 1]
        BY <2>1, <1>10
    <2> QED
        BY <2>1, <2>2, <1>3, Zenon
<1> QED
    BY <1>4, <1>10, <1>11, <1>12, Zenon

\* A status is a part of the payload from its start, or the payload and one byte.
Received(n, bits, st) ==
    LET p == Answers!StatusPayload(n, bits)
    IN  /\ st \in Seq(Byte) /\ Len(st) <= Len(p) + 1
        /\ \A i \in 1..Len(st) : i <= Len(p) => st[i] = p[i]

\* Every part that lacks a byte of the mask is refused, and every other one
\* yields the known flags of the mask.
LEMMA StatusIsRead ==
    ASSUME NEW n \in Byte, NEW bits \in SUBSET (0..31), NEW st, Received(n, bits, st)
    PROVE  Answers!parse_status_ex(st) =
               IF Len(st) < Len(Answers!StatusPayload(n, bits)) THEN Refused ELSE bits \cap KnownFlags
<1> DEFINE p == Answers!StatusPayload(n, bits)
<1>1. /\ p \in Seq(Byte) /\ Len(p) = 21 + n /\ p[16] = n
      /\ \A k \in 0..3 : p[18 + n + k] = Answers!ByteOf(bits, k)
    BY StatusBytes
<1> HIDE DEF p
<1>2. /\ st \in Seq(Byte) /\ Len(st) <= Len(p) + 1
      /\ \A i \in 1..Len(st) : i <= Len(p) => st[i] = p[i]
    BY DEF Received, p
<1>3. n \in Nat /\ Len(st) \in Nat
    BY <1>2, ByteRange
<1>4. Answers!parse_status_ex(st) =
          IF Len(st) < 16 \/ Len(st) < 16 + st[16] + 5 THEN Refused
          ELSE {i \in KnownFlags : (st[16 + st[16] + 2 + i \div 8] \div 2 ^ (i % 8)) % 2 = 1}
    BY Zenon DEF Answers!parse_status_ex, Answers!Needed, Answers!Bit
<1>5. CASE Len(st) < 16
    <2>1. Len(st) < Len(p)
        BY <1>1, <1>3, <1>5
    <2> QED
        BY <2>1, <1>4, <1>5, Zenon DEF p
<1>6. CASE ~ (Len(st) < 16)
    <2>1. st[16] = n
        <3>1. 16 \in 1..Len(st) /\ 16 <= Len(p)
            BY <1>1, <1>3, <1>6
        <3> QED
            BY <3>1, <1>1, <1>2
    <2>2. 16 + n + 5 = Len(p)
        BY <1>1, <1>3
    <2>3. CASE Len(st) < Len(p)
        BY <2>1, <2>2, <2>3, <1>4, Zenon DEF p
    <2>4. CASE ~ (Len(st) < Len(p))
        <3>1. ASSUME NEW i \in KnownFlags
              PROVE  (st[16 + st[16] + 2 + i \div 8] \div 2 ^ (i % 8)) % 2 = 1 <=> i \in bits
            <4> DEFINE k == i \div 8
                       j == i % 8
            <4>1. i \in 0..31
                BY AnswersAssumptions
            <4>2. k \in 0..3 /\ j \in 0..7 /\ i = 8 * k + j
                BY <4>1
            <4> HIDE DEF k, j
            <4>3. 18 + n + k \in 1..Len(st) /\ 18 + n + k <= Len(p) /\ 16 + n + 2 + k = 18 + n + k
                BY <4>2, <2>4, <1>1, <1>3
            <4>4. st[18 + n + k] = Answers!ByteOf(bits, k)
                BY <4>2, <4>3, <1>1, <1>2
            <4>5. (Answers!ByteOf(bits, k) \div (2 ^ j)) % 2 = 1 <=> 8 * k + j \in bits
                <5>1. k \in Nat /\ j \in 0..7
                    BY ONLY <4>2
                <5>2. \A g \in 0..7 : (Answers!ByteOf(bits, k) \div (2 ^ g)) % 2 = 1 <=> 8 * k + g \in bits
                    BY ONLY <5>1, BitOfByte
                <5> QED
                    BY <5>1, <5>2, Zenon
            <4>6. st[16 + st[16] + 2 + k] = Answers!ByteOf(bits, k)
                BY <4>3, <4>4, <2>1, Zenon
            <4>7. (st[16 + st[16] + 2 + k] \div (2 ^ j)) % 2 = 1 <=> i \in bits
                BY <4>2, <4>5, <4>6, Zenon
            <4> QED
                BY <4>7, Zenon DEF k, j
        <3>2. {i \in KnownFlags : (st[16 + st[16] + 2 + i \div 8] \div 2 ^ (i % 8)) % 2 = 1}
                  = bits \cap KnownFlags
            BY <3>1, Zenon
        <3> QED
            BY <3>2, <2>1, <2>2, <2>4, <1>4, <1>6, Zenon DEF p
    <2> QED
        BY <2>3, <2>4
<1> QED
    BY <1>5, <1>6

\* The remaining battery, from either payload.
LEMMA RemainingIsAPercentage ==
    ASSUME NEW cap \in Nat, NEW used \in Nat
    PROVE  Answers!Remaining(cap, used) \in IF cap = 0 THEN {-1} ELSE 0..100
<1>1. CASE cap = 0
    BY <1>1, Zenon DEF Answers!Remaining
<1>2. CASE cap # 0 /\ used > cap
    <2>1. Answers!Remaining(cap, used) = 0
        BY <1>2, Zenon DEF Answers!Remaining
    <2> QED
        BY <2>1, <1>2
<1>3. CASE cap # 0 /\ ~ (used > cap)
    <2>1. Answers!Remaining(cap, used) = (100 * (cap - used)) \div cap
        BY <1>3, Zenon DEF Answers!Remaining
    <2>2. 100 * (cap - used) \in Nat /\ 100 * (cap - used) <= 100 * cap
        BY <1>3
    <2>3. (100 * (cap - used)) \div cap \in 0..100
        BY ONLY cap \in Nat, <1>3, <2>2, PercentInRange
    <2> QED
        BY <2>1, <2>3, <1>3
<1> QED
    BY <1>1, <1>2, <1>3

AnswersHold(bits, n, st, cap, used) ==
    /\ bits \in Masks /\ n \in ModeBytes /\ Received(n, bits, st)
    /\ cap \in Capacities /\ used \in Nat /\ used <= MaxConsumed

\* What the client reads of such answers.
LEMMA AnswersAreRead ==
    ASSUME NEW bits, NEW n, NEW st, NEW cap, NEW used, AnswersHold(bits, n, st, cap, used)
    PROVE  /\ st \in Seq(0..255) /\ used \in 0..MaxConsumed
           /\ Answers!parse_status_ex(st) =
                  IF Len(st) < Len(Answers!StatusPayload(n, bits)) THEN Refused ELSE bits \cap KnownFlags
           /\ Answers!Remaining(cap, used) \in IF cap = 0 THEN {-1} ELSE 0..100
<1>1. /\ bits \in SUBSET (0..31) /\ n \in Byte /\ Received(n, bits, st)
      /\ cap \in Nat /\ used \in Nat /\ used <= MaxConsumed /\ MaxConsumed \in Nat
    BY AnswersAssumptions DEF AnswersHold
<1>2. st \in Seq(0..255) /\ used \in 0..MaxConsumed
    BY <1>1 DEF Received, Byte
<1> QED
    BY <1>1, <1>2, StatusIsRead, RemainingIsAPercentage

----------------------------------------------------------------------------
(* The invariant of the line and the payloads.                              *)

LineHolds(fr, ln, ns, dm, ls) == fr \in Frames /\ Carries(Line!Bytes(fr), ln, ns, dm, ls)

\* The inductive invariant: the line ends with its frame, and a status is a
\* part of its payload.
CodecInv ==
    /\ LineHolds(frame, line, noise, damaged, lost)
    /\ AnswersHold(mask, modeBytes, box_status, capacity, consumed)

\* The payloads at the start.
LEMMA AnswersStart ==
    ASSUME NEW bits \in Masks, NEW n \in ModeBytes, NEW cap \in Capacities
    PROVE  AnswersHold(bits, n, Answers!StatusPayload(n, bits), cap, 0)
<1> DEFINE p == Answers!StatusPayload(n, bits)
<1>1. p \in Seq(Byte)
    BY AnswersAssumptions, StatusBytes
<1> HIDE DEF p
<1>2. Len(p) \in Nat
    BY <1>1
<1>3. Len(p) <= Len(p) + 1
    BY <1>2
<1>4. Received(n, bits, p)
    BY <1>1, <1>3, Zenon DEF Received, p
<1>5. 0 <= MaxConsumed /\ 0 \in Nat
    BY AnswersAssumptions
<1> QED
    BY <1>4, <1>5, Zenon DEF AnswersHold, p

\* The invariant holds at the start,
LEMMA CodecStart ==
    ASSUME StackInit
    PROVE  CodecInv
<1>1. frame \in Frames /\ line = Line!Bytes(frame) /\ noise = 0 /\ damaged = 0 /\ lost = 0
    BY Zenon DEF StackInit, Line!Init
<1>2. LineHolds(frame, line, noise, damaged, lost)
    <2> DEFINE e == Line!Bytes(frame)
    <2>1. e \in Seq(Byte)
        BY <1>1, BytesType
    <2> HIDE DEF e
    <2>2. Len(e) \in Nat /\ Len(e) = 0 + Len(e) /\ Len(e) >= Len(e) /\ 0 <= MaxDamaged
        BY <2>1, LineAssumptions
    <2>3. \A i \in 1..Len(e) : e[Len(e) - Len(e) + i] = e[i]
        BY <2>2
    <2>4. Carries(e, e, 0, 0, 0)
        BY <2>1, <2>2, <2>3 DEF Carries
    <2> QED
        BY <2>4, <1>1, Zenon DEF LineHolds, e
<1>3. /\ mask \in Masks /\ modeBytes \in ModeBytes /\ capacity \in Capacities /\ consumed = 0
      /\ box_status = Answers!StatusPayload(modeBytes, mask)
    BY Zenon DEF StackInit, Answers!Init
<1>4. AnswersHold(mask, modeBytes, box_status, capacity, consumed)
    BY <1>3, AnswersStart, Zenon
<1> QED
    BY <1>2, <1>4 DEF CodecInv

\* a change of a payload keeps it,
LEMMA AnswersStep ==
    ASSUME AnswersHold(mask, modeBytes, box_status, capacity, consumed), Answers!Next
    PROVE  AnswersHold(mask', modeBytes', box_status', capacity', consumed')
<1> DEFINE p == Answers!StatusPayload(modeBytes, mask)
<1>1. /\ mask \in Masks /\ modeBytes \in ModeBytes
      /\ box_status \in Seq(Byte) /\ Len(box_status) <= Len(p) + 1
      /\ \A i \in 1..Len(box_status) : i <= Len(p) => box_status[i] = p[i]
      /\ capacity \in Capacities /\ consumed \in Nat /\ consumed <= MaxConsumed
    BY Zenon DEF AnswersHold, Received
<1>2. p \in Seq(Byte)
    BY <1>1, AnswersAssumptions, StatusBytes
<1>3. Received(modeBytes, mask, box_status)
    BY Zenon DEF AnswersHold
<1>4. CASE Answers!Extend
    <2>1. /\ Len(box_status) = Len(p) /\ box_status' = Append(box_status, 170)
          /\ mask' = mask /\ modeBytes' = modeBytes /\ capacity' = capacity /\ consumed' = consumed
        BY <1>4, Zenon DEF Answers!Extend
    <2> HIDE DEF p
    <2> DEFINE st == Append(box_status, 170)
    <2>2. Len(p) \in Nat /\ 170 \in Byte
        BY <1>2 DEF Byte
    <2>3. /\ st \in Seq(Byte) /\ Len(st) = Len(box_status) + 1
          /\ \A i \in 1..Len(box_status) : st[i] = box_status[i]
        BY <2>2, <1>1
    <2> HIDE DEF st
    <2>4. Len(st) <= Len(p) + 1
        BY <2>1, <2>2, <2>3
    <2>5. ASSUME NEW i \in 1..Len(st), i <= Len(p)
          PROVE  st[i] = p[i]
        <3>1. i \in 1..Len(box_status)
            BY <2>1, <2>2, <2>3, <2>5
        <3> QED
            BY <3>1, <2>3, <2>5, <1>1
    <2>6. Received(modeBytes, mask, st)
        BY <2>3, <2>4, <2>5, Zenon DEF Received, p
    <2> QED
        BY <2>1, <2>6, <1>1, Zenon DEF AnswersHold, st
<1>5. CASE Answers!Shorten
    <2>1. /\ box_status # <<>> /\ Len(box_status) <= Len(p)
          /\ box_status' = SubSeq(box_status, 1, Len(box_status) - 1)
          /\ mask' = mask /\ modeBytes' = modeBytes /\ capacity' = capacity /\ consumed' = consumed
        BY <1>5, Zenon DEF Answers!Shorten
    <2> HIDE DEF p
    <2> DEFINE st == SubSeq(box_status, 1, Len(box_status) - 1)
    <2>2. Len(p) \in Nat
        BY <1>2
    <2>3. /\ st \in Seq(Byte) /\ Len(st) = Len(box_status) - 1
          /\ \A i \in 1..Len(st) : st[i] = box_status[i] /\ i \in 1..Len(box_status)
        <3>1. box_status \in Seq(Byte) /\ box_status # <<>>
            BY <2>1, <1>1
        <3>2. Len(box_status) \in Nat /\ Len(box_status) # 0 /\ Len(box_status) - 1 \in 0..Len(box_status)
            BY <3>1
        <3>3. /\ st \in Seq(Byte) /\ Len(st) = Len(box_status) - 1
              /\ \A i \in 1..Len(st) : st[i] = box_status[i]
            BY ONLY <3>1, <3>2, FirstElements DEF st
        <3> QED
            BY ONLY <3>2, <3>3
    <2> HIDE DEF st
    <2>4. Len(st) <= Len(p) + 1
        BY <2>1, <2>2, <2>3, <1>1
    <2>5. \A i \in 1..Len(st) : i <= Len(p) => st[i] = p[i]
        BY <2>3, <1>1, Zenon
    <2>6. Received(modeBytes, mask, st)
        BY <2>3, <2>4, <2>5, Zenon DEF Received, p
    <2> QED
        BY <2>1, <2>6, <1>1, Zenon DEF AnswersHold, st
<1>6. CASE Answers!Discharge
    <2>1. /\ consumed < MaxConsumed /\ consumed' = consumed + 1
          /\ mask' = mask /\ modeBytes' = modeBytes /\ capacity' = capacity /\ box_status' = box_status
        BY <1>6, Zenon DEF Answers!Discharge
    <2>2. consumed + 1 \in Nat /\ consumed + 1 <= MaxConsumed
        BY <2>1, <1>1, AnswersAssumptions
    <2> QED
        BY <2>1, <2>2, <1>1, <1>3, Zenon DEF AnswersHold
<1> QED
    BY <1>4, <1>5, <1>6 DEF Answers!Next

\* and so does every step.
LEMMA CodecStep ==
    ASSUME CodecInv, [StackNext]_allVars
    PROVE  CodecInv'
<1>1. /\ frame \in Frames /\ Carries(Line!Bytes(frame), line, noise, damaged, lost)
      /\ LineHolds(frame, line, noise, damaged, lost)
      /\ AnswersHold(mask, modeBytes, box_status, capacity, consumed)
    BY Zenon DEF CodecInv, LineHolds
<1>2. ASSUME UNCHANGED lineVars
      PROVE  LineHolds(frame', line', noise', damaged', lost')
    BY <1>1, <1>2 DEF lineVars
<1>3. ASSUME UNCHANGED answersVars
      PROVE  AnswersHold(mask', modeBytes', box_status', capacity', consumed')
    BY <1>1, <1>3 DEF answersVars
<1>4. ASSUME Line!Next
      PROVE  LineHolds(frame', line', noise', damaged', lost')
    BY <1>1, <1>4, LineStep, Zenon DEF LineHolds
<1>5. ASSUME Answers!Next
      PROVE  AnswersHold(mask', modeBytes', box_status', capacity', consumed')
    BY <1>1, <1>5, AnswersStep
<1>6. CASE DispatcherMoves(Next)
    <2>1. UNCHANGED lineVars /\ UNCHANGED answersVars
        BY <1>6, Zenon DEF DispatcherMoves
    <2> QED
        BY <2>1, <1>2, <1>3, Zenon DEF CodecInv
<1>7. CASE LineMoves("line", Line!Next)
    <2>1. Line!Next /\ UNCHANGED answersVars
        BY <1>7, Zenon DEF LineMoves, Moves
    <2> QED
        BY <2>1, <1>3, <1>4, Zenon DEF CodecInv
<1>8. CASE LinkMoves("link", Link!Next)
    <2>1. UNCHANGED lineVars /\ UNCHANGED answersVars
        BY <1>8, Zenon DEF LinkMoves
    <2> QED
        BY <2>1, <1>2, <1>3, Zenon DEF CodecInv
<1>9. CASE AnswersMoves("answers", Answers!Next)
    <2>1. Answers!Next /\ UNCHANGED lineVars
        BY <1>9, Zenon DEF AnswersMoves, Moves
    <2> QED
        BY <2>1, <1>2, <1>5, Zenon DEF CodecInv
<1>10. CASE UNCHANGED allVars
    <2>1. UNCHANGED lineVars /\ UNCHANGED answersVars
        BY <1>10, Zenon DEF allVars
    <2> QED
        BY <2>1, <1>2, <1>3, Zenon DEF CodecInv
<1> QED
    BY <1>6, <1>7, <1>8, <1>9, <1>10 DEF StackNext

\* A line carries its frame, and a status is a part of its payload.
THEOREM CodecInvariant == StackSpec => []CodecInv
<1>1. StackInit => CodecInv
    BY CodecStart
<1>2. CodecInv /\ [StackNext]_allVars => CodecInv'
    BY CodecStep
<1> QED
    BY <1>1, <1>2, PTL DEF StackSpec

\* What holds of every frame, whatever it holds.
CodecHolds ==
    /\ Line!TypeOK /\ Line!RoundTrip /\ Line!Resynchronises
    /\ damaged # 1 => Line!DamageIsNoticed
    /\ Answers!TypeOK /\ Answers!StatusIsWhole /\ Answers!RemainingInRange

\* What follows from it.
LEMMA CodecInvSuffices ==
    ASSUME CodecInv
    PROVE  CodecHolds
<1>1. frame \in Frames /\ Carries(Line!Bytes(frame), line, noise, damaged, lost)
    BY Zenon DEF CodecInv, LineHolds
<1>2. Line!TypeOK
    <2>1. /\ line \in Seq(Byte) /\ noise \in Nat /\ noise <= 2 /\ damaged \in Nat /\ damaged <= MaxDamaged
          /\ lost \in Nat /\ lost <= MaxDamaged /\ MaxDamaged \in Nat
        BY <1>1, LineAssumptions, Zenon DEF Carries
    <2>2. noise \in 0..2 /\ damaged \in 0..MaxDamaged /\ lost \in 0..MaxDamaged
        BY <2>1
    <2> QED
        BY <2>1, <2>2, <1>1, Zenon DEF Line!TypeOK, Byte
<1>3. Line!RoundTrip
    <2>1. damaged = 0 /\ lost = 0 =>
              Line!Returns(Line!ReadFrame(line), frame) /\ Line!ReadFrame(line).used = Len(line)
        BY <1>1, RoundTripHolds, Zenon
    <2> QED
        BY <2>1, Zenon DEF Line!RoundTrip
<1>4. Line!Resynchronises
    <2>1. SUFFICES ASSUME lost > 0,
                          Dollar \notin Range(SubSeq(line, 1, Len(line) - Len(Line!Bytes(frame))))
                   PROVE  Line!Returns(Line!ReadFrame(line), frame) /\ Line!ReadFrame(line).used = Len(line)
        BY Zenon DEF Line!Resynchronises, Line!Dollar, Dollar, Line!Range, Range
    <2>2. damaged = 0
        BY <1>1, <2>1 DEF Carries
    <2> QED
        BY <1>1, <2>1, <2>2, ResynchronisesHolds, Zenon
<1>5. damaged # 1 => Line!DamageIsNoticed
    <2> SUFFICES ASSUME damaged # 1, damaged > 0,
                        damaged \notin Line!SizeField \cup Line!VersionAndDirection
                 PROVE  Line!ReadFrame(line).at # "done"
        BY Zenon DEF Line!DamageIsNoticed
    <2>1. lost = 0 /\ damaged \in Nat
        BY <1>1 DEF Carries
    <2>2. damaged \notin IF VersionFor(frame.command, frame.payload) = 1 THEN {4} ELSE {7, 8}
        BY Zenon DEF Line!SizeField, Line!Version, Line!VersionFor, VersionFor
    <2>3. damaged # 2 /\ damaged # 3
        BY Zenon DEF Line!VersionAndDirection
    <2>4. damaged >= 4
        BY <2>1, <2>3
    <2>5. Carries(Line!Bytes(frame), line, noise, damaged, 0)
        BY <1>1, <2>1, Zenon
    <2>6. ReadFrame(line).at # "done"
        BY <1>1, <2>2, <2>4, <2>5, BodyDamageIsNoticed, Zenon
    <2> QED
        BY <2>6, LineReader, Zenon
<1>6. Answers!TypeOK /\ Answers!StatusIsWhole /\ Answers!RemainingInRange
    <2>1. AnswersHold(mask, modeBytes, box_status, capacity, consumed)
        BY Zenon DEF CodecInv
    <2>2. mask \in Masks /\ modeBytes \in ModeBytes /\ capacity \in Capacities
        BY <2>1, Zenon DEF AnswersHold
    <2>3. /\ box_status \in Seq(0..255) /\ consumed \in 0..MaxConsumed
          /\ Answers!parse_status_ex(box_status) =
                 IF Len(box_status) < Len(Answers!StatusPayload(modeBytes, mask)) THEN Refused
                 ELSE mask \cap KnownFlags
          /\ Answers!Remaining(capacity, consumed) \in IF capacity = 0 THEN {-1} ELSE 0..100
        BY <2>1, AnswersAreRead, Zenon
    <2> QED
        BY <2>2, <2>3, Zenon DEF Answers!TypeOK, Answers!StatusIsWhole, Answers!RemainingInRange
<1> QED
    BY <1>2, <1>3, <1>4, <1>5, <1>6 DEF CodecHolds

\* Every frame is read back behind noise and behind what is left of another; one
\* changed byte behind its direction and outside its size is noticed; and the
\* payloads of MSP_STATUS_EX and MSP_BATTERY_STATE are read right.
THEOREM CodecHoldsAlways == StackSpec => []CodecHolds
<1>1. CodecInv => CodecHolds
    BY CodecInvSuffices
<1> QED
    BY <1>1, CodecInvariant, PTL

\* The run's invariant, for frames that hold no other frame.
THEOREM CodecSound ==
    ASSUME FramesHideNone
    PROVE  StackSpec => []CodecIsSound
<1>1. CodecInv => CodecIsSound
    <2> SUFFICES ASSUME CodecInv
                 PROVE  CodecIsSound
        OBVIOUS
    <2>1. CodecHolds
        BY CodecInvSuffices
    <2>2. frame \in Frames /\ Carries(Line!Bytes(frame), line, noise, damaged, lost)
        BY Zenon DEF CodecInv, LineHolds
    <2>3. Line!DamageIsNoticed
        <3>1. CASE damaged = 1
            <4>1. lost = 0
                BY <2>2, <3>1 DEF Carries
            <4>2. Carries(Line!Bytes(frame), line, noise, 1, 0)
                BY <2>2, <3>1, <4>1, Zenon
            <4>3. Line!ReadFrame(line).at # "done"
                BY <2>2, <4>2, HeadDamageIsNoticed, LineReader, Zenon
            <4> QED
                BY <4>3, Zenon DEF Line!DamageIsNoticed
        <3>2. CASE damaged # 1
            BY <2>1, <3>2, Zenon DEF CodecHolds
        <3> QED
            BY <3>1, <3>2
    <2> QED
        BY <2>1, <2>3, Zenon DEF CodecHolds, CodecIsSound
<1> QED
    BY <1>1, CodecInvariant, PTL

----------------------------------------------------------------------------
(* Requests and answers (MspLink): the codec of the link, and its answers.  *)

Commands == Reads \cup {SET_RAW_RC}

PayloadTo(c, n) == IF c = SET_RAW_RC THEN <<>> ELSE <<Value[n]>>

\* The commands, values and bounds of the link.
LEMMA LinkAssumptions ==
    /\ MaxRequests \in Nat /\ MaxDamage \in Nat /\ Value \in [1..MaxRequests -> Byte]
    /\ Commands \subseteq Byte /\ SET_RAW_RC \notin Reads
<1>1. Link!CommandsAssumption /\ Link!ValueAssumption /\ Link!DamageAssumption
    BY InstancesAssumption
<1> QED
    BY <1>1, Zenon DEF Link!CommandsAssumption, Link!ValueAssumption, Link!DamageAssumption, Commands, Byte

\* The reader and the encoder of MspLink are those of MspCodec.
LEMMA LinkReader ==
    ASSUME NEW s
    PROVE  Link!ReadFrame(s) = ReadFrame(s)
BY Zenon DEF Link!ReadFrame, ReadFrame, Link!ReadByte, ReadByte, Link!Start, Start, Link!Scan, Scan,
   Link!TakeVersion, TakeVersion, Link!TakeDirection, TakeDirection, Link!TakeBody, TakeBody,
   Link!BodyComplete, BodyComplete, Link!HeaderComplete, HeaderComplete, Link!HeaderLength, HeaderLength,
   Link!Size, Size, Link!Checksum, Checksum, Link!XorOf, XorOf, Link!crc8_dvb_s2, crc8_dvb_s2,
   Link!Xor, Xor, Link!ShiftByte, ShiftByte, Link!ShiftOutTwice, ShiftOutTwice, Link!ShiftOut, ShiftOut,
   Link!Dollar, Dollar, Link!VersionByte, VersionByte, Link!Request, Request, Link!Response, Response,
   Link!Error, Error, Link!Directions, Directions

\* Its answers,
LEMMA LinkAnswer ==
    ASSUME NEW c, NEW n
    PROVE  Link!AnswerOf(c, n) = Encode(1, c, PayloadTo(c, n), Response)
BY Zenon DEF Link!AnswerOf, PayloadTo, Link!Encode, Encode, Link!HeaderV1, HeaderV1, Link!HeaderV2, HeaderV2,
   Link!Low, Low, Link!High, High, Link!Checksum, Checksum, Link!XorOf, XorOf, Link!crc8_dvb_s2, crc8_dvb_s2,
   Link!Xor, Xor, Link!ShiftByte, ShiftByte, Link!ShiftOutTwice, ShiftOutTwice, Link!ShiftOut, ShiftOut,
   Link!Dollar, Dollar, Link!VersionByte, VersionByte, Link!Response, Response

\* its fields of a frame
LEMMA LinkPayload ==
    ASSUME NEW r
    PROVE  Link!Command(r) = Command(r) /\ Link!Payload(r) = Payload(r)
BY Zenon DEF Link!Command, Command, Link!Payload, Payload, Link!HeaderLength, HeaderLength

\* and its counting are those of the library and of MspCodec.
LEMMA LinkCardinality ==
    ASSUME NEW S
    PROVE  Link!Cardinality(S) = Cardinality(S)
BY Zenon DEF Link!Cardinality, Cardinality

BodyTo(c, n) == FrameBody(1, c, PayloadTo(c, n))

\* The bytes of an answer, one by one.
LEMMA AnswerBytes ==
    ASSUME NEW c \in Commands, NEW n \in 1..MaxRequests
    PROVE  LET e == Link!AnswerOf(c, n)
               body == BodyTo(c, n)
           IN  /\ body \in Seq(Byte) /\ Whole(1, body) /\ body[2] = c
               /\ SubSeq(body, 3, Len(body)) = PayloadTo(c, n)
               /\ Checksum(1, body) \in Byte
               /\ e \in Seq(Byte) /\ Len(e) = 4 + Len(body)
               /\ e[1] = Dollar /\ e[2] = VersionByte[1] /\ e[3] = Response
               /\ \A i \in 1..Len(body) : e[3 + i] = body[i]
               /\ e[4 + Len(body)] = Checksum(1, body)
<1> DEFINE payload == PayloadTo(c, n)
           body == BodyTo(c, n)
           check == Checksum(1, body)
           e == Link!AnswerOf(c, n)
<1>1. c \in Nat /\ c <= 255
    BY LinkAssumptions, ByteRange
<1>2. payload \in Seq(Byte) /\ Len(payload) <= 1
    <2>1. CASE c = SET_RAW_RC
        BY <2>1 DEF PayloadTo
    <2>2. CASE c # SET_RAW_RC
        <3>1. Value[n] \in Byte
            BY LinkAssumptions
        <3>2. payload = <<Value[n]>>
            BY <2>2, Zenon DEF PayloadTo
        <3> QED
            BY <3>1, <3>2
    <2> QED
        BY <2>1, <2>2
<1> HIDE DEF payload
<1>3. Fits(1, c, payload)
    <2>1. Len(payload) \in Nat
        BY <1>2
    <2> QED
        BY <1>1, <1>2, <2>1 DEF Fits
<1>4. /\ body \in Seq(Byte) /\ Whole(1, body)
      /\ c = IF 1 = 1 THEN body[2] ELSE body[2] + 256 * body[3]
      /\ SubSeq(body, HeaderLength(1) + 1, Len(body)) = payload
    BY <1>3, BodyOfFrame DEF BodyTo, payload
<1>5. body[2] = c /\ SubSeq(body, 3, Len(body)) = payload
    <2>1. HeaderLength(1) + 1 = 3
        BY DEF HeaderLength
    <2> QED
        BY <1>4, <2>1, Zenon
<1>6. check \in Byte
    BY <1>4, ChecksumType
<1>7. e = <<Dollar, VersionByte[1], Response>> \o body \o <<check>>
    <2>1. Low(c) = c
        BY <1>1 DEF Low
    <2>2. e = Encode(1, c, payload, Response)
        BY LinkAnswer, Zenon DEF payload
    <2> QED
        BY <2>1, <2>2, Zenon DEF Encode, BodyTo, FrameBody, FrameHeader, payload
<1>8. /\ e \in Seq(Byte) /\ Len(e) = 4 + Len(body)
      /\ e[1] = Dollar /\ e[2] = VersionByte[1] /\ e[3] = Response
      /\ \A i \in 1..Len(body) : e[3 + i] = body[i]
      /\ e[4 + Len(body)] = check
    <2>1. 1 \in {1, 2} /\ Response \in Directions
        BY DEF Directions
    <2> HIDE DEF body, check, e
    <2> QED
        BY <2>1, <1>4, <1>6, <1>7, FrameBytes
<1> QED
    BY <1>4, <1>5, <1>6, <1>8, Zenon DEF payload

\* A byte is read, or the reader has ended.
LEMMA ReadByteUses ==
    ASSUME NEW r \in Readers, NEW b \in Byte
    PROVE  ReadByte(r, b) = r \/ ReadByte(r, b).used = r.used + 1
<1> DEFINE at == r.at  v == r.version  d == r.direction  body == r.body  u == r.used
<1>1. r = Reader(at, v, d, body, u)
    BY ReaderOfFields
<1>2. at \in {"scan", "version", "direction", "body", "done", "bad"}
    BY DEF Readers
<1>3. ASSUME NEW a, NEW w, NEW x, NEW y, NEW z
      PROVE  Reader(a, w, x, y, z).used = z
    BY DEF Reader
<1> HIDE DEF v, d, body, u, at
<1>4. CASE at = "scan"
    BY <1>1, <1>3, <1>4, ScanStep DEF u
<1>5. CASE at = "version"
    BY <1>1, <1>3, <1>5, VersionStep DEF u
<1>6. CASE at = "direction"
    BY <1>1, <1>3, <1>6, DirectionStep DEF u
<1>7. CASE at = "body"
    BY <1>1, <1>3, <1>7, BodyStep DEF u
<1>8. CASE at \in {"done", "bad"}
    BY <1>8 DEF ReadByte, at
<1> QED
    BY <1>2, <1>4, <1>5, <1>6, <1>7, <1>8

\* No more bytes are taken than there are, and a frame takes one at least.
LEMMA ReadFrameUses ==
    ASSUME NEW s \in Seq(Byte)
    PROVE  /\ ReadFrame(s) \in Readers
           /\ ReadFrame(s).used \in 0..Len(s)
           /\ ReadFrame(s).at = "done" => ReadFrame(s).used >= 1
<1>1. PICK f \in [0..Len(s) -> Readers] : IsReaderRun(f, s) /\ ReadFrame(s) = f[Len(s)]
    BY ReaderRun
<1>2. f[0] = Start /\ \A i \in 1..Len(s) : f[i] = ReadByte(f[i - 1], s[i])
    BY <1>1, ReaderSteps
<1>3. Len(s) \in Nat
    OBVIOUS
<1> DEFINE Good(i) == f[i].used <= i /\ (f[i].at = "done" => f[i].used >= 1)
           G == {i \in 0..Len(s) : Good(i)}
<1>4. 0 \in G
    BY <1>2, <1>3 DEF Start
<1>5. ASSUME NEW i \in 1..Len(s), i - 1 \in G
      PROVE  i \in G
    <2>1. f[i - 1] \in Readers /\ s[i] \in Byte /\ i \in 0..Len(s) /\ i \in Nat /\ i - 1 <= i
        <3>1. i - 1 \in 0..Len(s) /\ i \in 0..Len(s) /\ i \in Nat /\ i - 1 <= i
            BY <1>3
        <3>2. f[i - 1] \in Readers
            BY <3>1, <1>1
        <3> QED
            BY <3>1, <3>2
    <2>2. Good(i - 1)
        BY <1>5
    <2>3. f[i] = f[i - 1] \/ f[i].used = f[i - 1].used + 1
        BY <2>1, <1>2, ReadByteUses
    <2>4. f[i - 1].used \in Nat
        BY <2>1 DEF Readers
    <2>5. Good(i)
        BY <2>1, <2>2, <2>3, <2>4
    <2> QED
        BY <2>1, <2>5
<1> HIDE DEF G, Good
<1>6. 0..Len(s) \subseteq G
    BY <1>3, <1>4, <1>5, InductionUpTo
<1>7. Good(Len(s)) /\ f[Len(s)] \in Readers
    BY <1>1, <1>3, <1>6 DEF G
<1>8. f[Len(s)].used \in Nat
    BY <1>7 DEF Readers
<1> QED
    BY <1>1, <1>3, <1>7, <1>8 DEF Good

----------------------------------------------------------------------------
(* What the link's variables hold, whatever noise does.                     *)

\* The bounds of the link.
LEMMA LinkBounds == MaxRequests \in Nat /\ MaxDamage \in Nat
BY LinkAssumptions, Zenon

\* f holds the last of n requests, and every byte belongs to one of the first m.
Numbered(f, n) == Len(f) <= n /\ \A i \in 1..Len(f) : f[i] = n - Len(f) + i
OwnedUpTo(ow, m) == \A i \in 1..Len(ow) : ow[i] >= 1 /\ ow[i] <= m

\* What was missed, and what the last answer says of its request.
MissedUpTo(ms, w, n) ==
    /\ ms \in [Reads -> Nat]
    /\ \A c \in Reads : ms[c] <= n /\ (w = "reading" => ms[c] + 1 <= n)
AnsweredUpTo(an, n) == an.of \in Nat /\ an.at \in Nat /\ an.of <= an.at /\ an.at <= n

\* The requests are numbered in order, fc holds the last ones, and each byte on
\* the wire belongs to an earlier one; a read that missed its answer had a request.
LinkTypes(w, sent, f, wr, ow, dm, ms, an) ==
    /\ w \in {"idle", "reading", "stopped"}
    /\ sent \in Seq(Commands) /\ Len(sent) <= MaxRequests /\ (w = "reading" => Len(sent) > 0)
    /\ f \in Seq(Nat) /\ Numbered(f, Len(sent))
    /\ wr \in Seq(Byte) /\ ow \in Seq(Nat) /\ Len(ow) = Len(wr) /\ OwnedUpTo(ow, Len(sent) - Len(f))
    /\ dm \in Nat /\ dm <= MaxDamage
    /\ MissedUpTo(ms, w, Len(sent)) /\ AnsweredUpTo(an, Len(sent))

\* What is left when the first u bytes are consumed.
LEMMA ConsumeTypes ==
    ASSUME NEW wr \in Seq(Byte), NEW ow \in Seq(Nat), Len(ow) = Len(wr), NEW u \in 0..Len(wr), NEW m,
           \A i \in 1..Len(ow) : ow[i] >= 1 /\ ow[i] <= m
    PROVE  LET x == SubSeq(wr, u + 1, Len(wr))
               o == SubSeq(ow, u + 1, Len(ow))
           IN  /\ x \in Seq(Byte) /\ o \in Seq(Nat) /\ Len(o) = Len(x) /\ Len(x) = Len(wr) - u
               /\ \A i \in 1..Len(o) : o[i] >= 1 /\ o[i] <= m
               /\ \A i \in 1..Len(x) : x[i] = wr[u + i] /\ o[i] = ow[u + i]
<1> DEFINE x == SubSeq(wr, u + 1, Len(wr))
           o == SubSeq(ow, u + 1, Len(ow))
<1>1. u \in 0..Len(ow)
    OBVIOUS
<1>2. x \in Seq(Byte) /\ Len(x) = Len(wr) - u /\ \A i \in 1..Len(x) : x[i] = wr[u + i]
    BY Rest
<1>3. o \in Seq(Nat) /\ Len(o) = Len(ow) - u /\ \A i \in 1..Len(o) : o[i] = ow[u + i]
    BY <1>1, Rest
<1> HIDE DEF x, o
<1>4. Len(o) = Len(x)
    BY <1>2, <1>3
<1>5. \A i \in 1..Len(o) : o[i] >= 1 /\ o[i] <= m
    <2> SUFFICES ASSUME NEW i \in 1..Len(o)
                 PROVE  o[i] >= 1 /\ o[i] <= m
        OBVIOUS
    <2>1. u + i \in 1..Len(ow)
        BY <1>3, <1>1
    <2> QED
        BY <2>1, <1>3
<1> QED
    BY <1>2, <1>3, <1>4, <1>5 DEF x, o

\* Reading types: what a read takes and gives.
LEMMA DecodeTypes ==
    ASSUME NEW wr \in Seq(Byte), NEW k \in 0..Len(wr)
    PROVE  LET r == ReadFrame(SubSeq(wr, 1, k))
           IN  /\ r \in Readers /\ r.used \in 0..Len(wr) /\ r.used <= k
               /\ r.at = "done" => r.used \in 1..Len(wr)
<1> DEFINE s == SubSeq(wr, 1, k)
           r == ReadFrame(s)
<1>1. s \in Seq(Byte) /\ Len(s) = k
    BY FirstElements
<1> HIDE DEF s
<1>2. r \in Readers /\ r.used \in 0..Len(s) /\ (r.at = "done" => r.used >= 1)
    BY <1>1, ReadFrameUses
<1> HIDE DEF r
<1> QED
    BY <1>1, <1>2 DEF r, s

\* A read of the link in terms of MspCodec.
LEMMA LinkDecode ==
    ASSUME NEW k
    PROVE  Link!Decode(k) = ReadFrame(SubSeq(link_wire, 1, k))
BY LinkReader, Zenon DEF Link!Decode

\* The link at the start,
LEMMA LinkStart ==
    ASSUME StackInit
    PROVE  /\ link_worker = "idle" /\ asked = <<>> /\ fc = <<>> /\ link_wire = <<>> /\ owner = <<>>
           /\ damage = 0 /\ missed = [c \in Reads |-> 0] /\ answer = Link!NoAnswer
BY Zenon DEF StackInit, Link!Init

\* where its types hold.
LEMMA LinkTypesStart ==
    ASSUME StackInit
    PROVE  LinkTypes(link_worker, asked, fc, link_wire, owner, damage, missed, answer)
<1>1. /\ link_worker = "idle" /\ asked = <<>> /\ fc = <<>> /\ link_wire = <<>> /\ owner = <<>>
      /\ damage = 0 /\ missed = [c \in Reads |-> 0] /\ answer.of = 0 /\ answer.at = 0
    BY LinkStart DEF Link!NoAnswer
<1>2. 0 <= MaxRequests /\ 0 <= MaxDamage
    BY LinkBounds
<1> QED
    BY <1>1, <1>2 DEF LinkTypes, Numbered, OwnedUpTo, MissedUpTo, AnsweredUpTo

\* The first of fc is the first request without an answer.
LEMMA HeadOfFc ==
    ASSUME NEW n \in Nat, NEW f \in Seq(Nat), f # <<>>, Numbered(f, n)
    PROVE  /\ Head(f) = n - Len(f) + 1 /\ Head(f) \in 1..n
           /\ Tail(f) \in Seq(Nat) /\ Len(Tail(f)) = Len(f) - 1 /\ Numbered(Tail(f), n)
<1>1. Len(f) \in Nat /\ Len(f) # 0 /\ Head(f) = f[1]
    BY ONLY f \in Seq(Nat), f # <<>>
<1>2. Len(f) <= n /\ \A i \in 1..Len(f) : f[i] = n - Len(f) + i
    BY Zenon DEF Numbered
<1>3. Head(f) = n - Len(f) + 1
    <2>1. 1 \in 1..Len(f)
        BY ONLY <1>1
    <2> QED
        BY <2>1, <1>1, <1>2, Zenon
<1>4. Head(f) \in 1..n
    BY ONLY <1>1, <1>2, <1>3, n \in Nat
<1>5. Tail(f) \in Seq(Nat) /\ Len(Tail(f)) = Len(f) - 1 /\ \A i \in 1..Len(Tail(f)) : Tail(f)[i] = f[i + 1]
    BY ONLY f \in Seq(Nat), f # <<>>, HeadTailProperties
<1> DEFINE t == Tail(f)
<1>6. t \in Seq(Nat) /\ Len(t) = Len(f) - 1
    BY <1>5
<1>7. \A i \in 1..Len(t) : t[i] = f[i + 1]
    BY <1>5
<1> HIDE DEF t
<1>8. ASSUME NEW i \in 1..Len(t)
      PROVE  t[i] = n - Len(t) + i
    <2>1. i + 1 \in 1..Len(f) /\ n - Len(f) + (i + 1) = n - Len(t) + i
        BY ONLY <1>1, <1>6, n \in Nat, i \in 1..Len(t)
    <2> QED
        BY <2>1, <1>2, <1>7, Zenon
<1>9. Len(t) <= n
    BY ONLY <1>1, <1>2, <1>6, n \in Nat
<1>10. Numbered(t, n)
    BY <1>8, <1>9, Zenon DEF Numbered
<1> QED
    BY <1>3, <1>4, <1>6, <1>10 DEF t

\* One more request behind the others.
LEMMA NumberedSend ==
    ASSUME NEW n \in Nat, NEW f \in Seq(Nat), Numbered(f, n)
    PROVE  /\ Append(f, n + 1) \in Seq(Nat) /\ Len(Append(f, n + 1)) = Len(f) + 1
           /\ Numbered(Append(f, n + 1), n + 1)
<1> DEFINE g == Append(f, n + 1)
<1>1. /\ g \in Seq(Nat) /\ Len(g) = Len(f) + 1 /\ Len(f) \in Nat /\ g[Len(f) + 1] = n + 1
      /\ \A i \in 1..Len(f) : g[i] = f[i]
    BY ONLY n \in Nat, f \in Seq(Nat)
<1>2. Len(f) <= n /\ \A i \in 1..Len(f) : f[i] = n - Len(f) + i
    BY Zenon DEF Numbered
<1> HIDE DEF g
<1>3. ASSUME NEW i \in 1..Len(g)
      PROVE  g[i] = (n + 1) - Len(g) + i
    <2>1. (n + 1) - Len(g) + i = n - Len(f) + i
        BY ONLY <1>1, n \in Nat, i \in 1..Len(g)
    <2>2. CASE i \in 1..Len(f)
        BY <2>1, <2>2, <1>1, <1>2, Zenon
    <2>3. CASE i \notin 1..Len(f)
        <3>1. i = Len(f) + 1 /\ n - Len(f) + (Len(f) + 1) = n + 1
            BY ONLY <2>3, <1>1, n \in Nat, i \in 1..Len(g)
        <3> QED
            BY <3>1, <2>1, <1>1, Zenon
    <2> QED
        BY <2>2, <2>3
<1>4. Len(g) <= n + 1
    BY ONLY <1>1, <1>2, n \in Nat
<1>5. Numbered(g, n + 1)
    BY <1>3, <1>4, Zenon DEF Numbered
<1> QED
    BY <1>1, <1>5 DEF g

\* The bytes of request m + 1 behind those of the first m.
LEMMA OwnedAnswer ==
    ASSUME NEW m \in Nat, NEW ow \in Seq(Nat), OwnedUpTo(ow, m), NEW k \in Nat
    PROVE  LET g == [i \in 1..k |-> m + 1]
           IN  /\ g \in Seq(Nat) /\ Len(g) = k
               /\ ow \o g \in Seq(Nat) /\ Len(ow \o g) = Len(ow) + k
               /\ \A i \in 1..Len(ow) : (ow \o g)[i] = ow[i]
               /\ \A i \in 1..k : (ow \o g)[Len(ow) + i] = m + 1
               /\ OwnedUpTo(ow \o g, m + 1)
<1> DEFINE g == [i \in 1..k |-> m + 1]
           o == ow \o g
<1>1. g \in Seq(Nat) /\ Len(g) = k /\ \A i \in 1..k : g[i] = m + 1
    BY ONLY m \in Nat, k \in Nat
<1> HIDE DEF g
<1>2. /\ o \in Seq(Nat) /\ Len(o) = Len(ow) + Len(g)
      /\ \A i \in 1..Len(ow) : o[i] = ow[i]
      /\ \A i \in 1..Len(g) : o[Len(ow) + i] = g[i]
    <2>1. ow \in Seq(Nat) /\ g \in Seq(Nat)
        BY <1>1
    <2> QED
        BY ONLY <2>1, Concatenation
<1> HIDE DEF o
<1>3. \A i \in 1..k : o[Len(ow) + i] = m + 1
    BY <1>1, <1>2, Zenon
<1>4. Len(ow) \in Nat /\ Len(o) = Len(ow) + k
    BY <1>1, <1>2
<1>5. ASSUME NEW i \in 1..Len(o)
      PROVE  o[i] >= 1 /\ o[i] <= m + 1
    <2>1. CASE i \in 1..Len(ow)
        <3>1. o[i] = ow[i] /\ ow[i] >= 1 /\ ow[i] <= m
            BY <2>1, <1>2, Zenon DEF OwnedUpTo
        <3>2. ow[i] \in Nat
            BY ONLY <2>1, ow \in Seq(Nat)
        <3> QED
            BY ONLY <3>1, <3>2, m \in Nat
    <2>2. CASE i \notin 1..Len(ow)
        <3>1. i - Len(ow) \in 1..k /\ Len(ow) + (i - Len(ow)) = i
            BY ONLY <2>2, <1>4, k \in Nat, i \in 1..Len(o)
        <3>2. o[i] = m + 1
            BY <3>1, <1>3, Zenon
        <3> QED
            BY ONLY <3>2, m \in Nat
    <2> QED
        BY <2>1, <2>2
<1>6. OwnedUpTo(o, m + 1)
    BY <1>5, Zenon DEF OwnedUpTo
<1> QED
    BY <1>1, <1>2, <1>3, <1>4, <1>6, Zenon DEF g, o

\* Answering, sending and consuming keep the types.
LEMMA AnswerTypes ==
    ASSUME NEW w, NEW sent, NEW f, NEW wr, NEW ow, NEW dm, NEW ms, NEW an,
           LinkTypes(w, sent, f, wr, ow, dm, ms, an), f # <<>>
    PROVE  LET n == Head(f)
               e == Link!AnswerOf(sent[n], n)
           IN  LinkTypes(w, sent, Tail(f), wr \o e, ow \o [i \in 1..Len(e) |-> n], dm, ms, an)
<1> DEFINE n == Head(f)
           m == Len(sent) - Len(f)
           e == Link!AnswerOf(sent[n], n)
<1>1. /\ w \in {"idle", "reading", "stopped"}
      /\ sent \in Seq(Commands) /\ Len(sent) <= MaxRequests /\ (w = "reading" => Len(sent) > 0)
      /\ f \in Seq(Nat) /\ Numbered(f, Len(sent))
      /\ wr \in Seq(Byte) /\ ow \in Seq(Nat) /\ Len(ow) = Len(wr) /\ OwnedUpTo(ow, m)
      /\ dm \in Nat /\ dm <= MaxDamage
      /\ MissedUpTo(ms, w, Len(sent)) /\ AnsweredUpTo(an, Len(sent))
    BY Zenon DEF LinkTypes
<1>2. Len(sent) \in Nat /\ Len(f) \in Nat /\ Len(f) <= Len(sent)
    <2>1. sent \in Seq(Commands) /\ f \in Seq(Nat)
        BY <1>1, Zenon
    <2>2. Len(f) <= Len(sent)
        BY <1>1, Zenon DEF Numbered
    <2> QED
        BY ONLY <2>1, <2>2
<1>3. /\ n = Len(sent) - Len(f) + 1 /\ n \in 1..Len(sent)
      /\ Tail(f) \in Seq(Nat) /\ Len(Tail(f)) = Len(f) - 1 /\ Numbered(Tail(f), Len(sent))
    BY <1>1, <1>2, HeadOfFc
<1> HIDE DEF n
<1>4. n \in 1..MaxRequests /\ sent[n] \in Commands
    <2>1. n \in 1..MaxRequests
        <3>1. Len(sent) <= MaxRequests /\ n \in 1..Len(sent)
            BY <1>1, <1>3, Zenon
        <3> QED
            BY ONLY <3>1, <1>2, LinkBounds
    <2>2. sent[n] \in Commands
        <3>1. sent \in Seq(Commands) /\ n \in 1..Len(sent)
            BY <1>1, <1>3, Zenon
        <3> QED
            BY ONLY <3>1
    <2> QED
        BY <2>1, <2>2
<1>5. e \in Seq(Byte)
    BY <1>4, AnswerBytes
<1> HIDE DEF e
<1>6. m \in Nat /\ n = m + 1 /\ Len(sent) - Len(Tail(f)) = n /\ Len(e) \in Nat
    <2>1. n = Len(sent) - Len(f) + 1 /\ Len(Tail(f)) = Len(f) - 1
        BY <1>3, Zenon
    <2>2. Len(e) \in Nat
        BY ONLY <1>5
    <2> DEFINE left == Len(Tail(f))
    <2>3. left = Len(f) - 1
        BY <2>1
    <2> HIDE DEF left
    <2>4. m \in Nat /\ n = m + 1 /\ Len(sent) - left = n
        BY ONLY <2>1, <2>3, <1>2 DEF m
    <2> QED
        BY ONLY <2>2, <2>4 DEF left
<1> HIDE DEF m
<1> DEFINE g == [i \in 1..Len(e) |-> m + 1]
<1>7. wr \o e \in Seq(Byte) /\ Len(wr \o e) = Len(wr) + Len(e)
    <2>1. wr \in Seq(Byte) /\ e \in Seq(Byte)
        BY <1>1, <1>5
    <2> QED
        BY ONLY <2>1, Concatenation
<1>8. ow \o g \in Seq(Nat) /\ Len(ow \o g) = Len(ow) + Len(e) /\ OwnedUpTo(ow \o g, m + 1)
    BY <1>1, <1>6, OwnedAnswer
<1> HIDE DEF g
<1>9. LinkTypes(w, sent, Tail(f), wr \o e, ow \o g, dm, ms, an)
    BY <1>1, <1>3, <1>6, <1>7, <1>8, Zenon DEF LinkTypes
<1> QED
    BY <1>6, <1>9, Zenon DEF n, e, g

\* A request is sent.
LEMMA SendTypes ==
    ASSUME NEW sent, NEW f, NEW wr, NEW ow, NEW dm, NEW ms, NEW an,
           LinkTypes("idle", sent, f, wr, ow, dm, ms, an), Len(sent) < MaxRequests, NEW c \in Commands
    PROVE  LinkTypes("reading", Append(sent, c), Append(f, Len(sent) + 1), wr, ow, dm, ms, an)
<1> DEFINE a == Append(sent, c)
           n == Len(sent)
           g == Append(f, n + 1)
<1>1. /\ sent \in Seq(Commands)
      /\ f \in Seq(Nat) /\ Numbered(f, n)
      /\ wr \in Seq(Byte) /\ ow \in Seq(Nat) /\ Len(ow) = Len(wr) /\ OwnedUpTo(ow, n - Len(f))
      /\ dm \in Nat /\ dm <= MaxDamage
      /\ MissedUpTo(ms, "idle", n) /\ AnsweredUpTo(an, n)
    BY Zenon DEF LinkTypes
<1>2. a \in Seq(Commands) /\ Len(a) = n + 1 /\ n \in Nat /\ n < MaxRequests
    <2>1. sent \in Seq(Commands) /\ c \in Commands
        BY <1>1, Zenon
    <2>2. a \in Seq(Commands) /\ Len(a) = Len(sent) + 1 /\ Len(sent) \in Nat
        BY ONLY <2>1 DEF a
    <2> QED
        BY <2>2, Zenon
<1> HIDE DEF a, n
<1>3. g \in Seq(Nat) /\ Len(g) = Len(f) + 1 /\ Numbered(g, n + 1) /\ Len(f) \in Nat
    BY <1>1, <1>2, NumberedSend
<1> HIDE DEF g
<1>4. n + 1 <= MaxRequests /\ n + 1 > 0 /\ (n + 1) - Len(g) = n - Len(f)
    BY ONLY <1>2, <1>3, LinkBounds
<1>5. MissedUpTo(ms, "reading", n + 1)
    <2>1. ms \in [Reads -> Nat] /\ \A d \in Reads : ms[d] <= n
        BY <1>1, Zenon DEF MissedUpTo
    <2>2. \A d \in Reads : ms[d] <= n + 1 /\ ms[d] + 1 <= n + 1
        BY ONLY <2>1, <1>2
    <2> QED
        BY <2>1, <2>2, Zenon DEF MissedUpTo
<1>6. AnsweredUpTo(an, n + 1)
    BY <1>1, <1>2 DEF AnsweredUpTo
<1>7. LinkTypes("reading", a, g, wr, ow, dm, ms, an)
    BY <1>1, <1>2, <1>3, <1>4, <1>5, <1>6, Zenon DEF LinkTypes
<1> QED
    BY <1>7 DEF a, g, n

\* Bytes are taken.
LEMMA ConsumedTypes ==
    ASSUME NEW w, NEW sent, NEW f, NEW wr, NEW ow, NEW dm, NEW ms, NEW an,
           LinkTypes(w, sent, f, wr, ow, dm, ms, an), NEW u \in 0..Len(wr)
    PROVE  LinkTypes(w, sent, f, SubSeq(wr, u + 1, Len(wr)), SubSeq(ow, u + 1, Len(ow)), dm, ms, an)
<1> DEFINE x == SubSeq(wr, u + 1, Len(wr))
           o == SubSeq(ow, u + 1, Len(ow))
           m == Len(sent) - Len(f)
<1>1. wr \in Seq(Byte) /\ ow \in Seq(Nat) /\ Len(ow) = Len(wr) /\ OwnedUpTo(ow, m)
    BY Zenon DEF LinkTypes
<1> HIDE DEF m
<1>2. x \in Seq(Byte) /\ o \in Seq(Nat) /\ Len(o) = Len(x) /\ OwnedUpTo(o, m)
    BY <1>1, ConsumeTypes DEF OwnedUpTo
<1> HIDE DEF x, o
<1>3. LinkTypes(w, sent, f, x, o, dm, ms, an)
    BY <1>2, Zenon DEF LinkTypes, m
<1> QED
    BY <1>3 DEF x, o

----------------------------------------------------------------------------
(* Steps of the link.                                                       *)

\* A read that ends leaves the worker idle or stopped,
LEMMA EndedTypes ==
    ASSUME NEW w, NEW v \in {"idle", "stopped"}, NEW sent, NEW f, NEW wr, NEW ow, NEW dm, NEW ms, NEW an,
           LinkTypes(w, sent, f, wr, ow, dm, ms, an)
    PROVE  LinkTypes(v, sent, f, wr, ow, dm, ms, an)
<1>1. v \in {"idle", "reading", "stopped"} /\ v # "reading"
    OBVIOUS
<1>2. MissedUpTo(ms, w, Len(sent))
    BY Zenon DEF LinkTypes
<1>3. MissedUpTo(ms, v, Len(sent))
    BY <1>1, <1>2, Zenon DEF MissedUpTo
<1> QED
    BY <1>1, <1>3, Zenon DEF LinkTypes

\* with an answer
LEMMA TakenTypes ==
    ASSUME NEW sent, NEW f, NEW wr, NEW ow, NEW dm, NEW ms, NEW an,
           LinkTypes("reading", sent, f, wr, ow, dm, ms, an), NEW u \in 1..Len(wr), NEW c, NEW value
    PROVE  LinkTypes("idle", sent, f, wr, ow, dm, ms,
                     [command |-> c, value |-> value, of |-> ow[u], at |-> Len(sent)])
<1> DEFINE new == [command |-> c, value |-> value, of |-> ow[u], at |-> Len(sent)]
<1>1. LinkTypes("idle", sent, f, wr, ow, dm, ms, an)
    BY EndedTypes
<1>2. /\ sent \in Seq(Commands) /\ f \in Seq(Nat) /\ ow \in Seq(Nat) /\ Len(ow) = Len(wr)
      /\ OwnedUpTo(ow, Len(sent) - Len(f))
    BY Zenon DEF LinkTypes
<1>3. u \in 1..Len(ow)
    BY <1>2
<1>4. ow[u] <= Len(sent) - Len(f)
    BY <1>2, <1>3, Zenon DEF OwnedUpTo
<1>5. ow[u] \in Nat /\ Len(sent) \in Nat /\ Len(f) \in Nat
    BY <1>2, <1>3
<1>6. ow[u] <= Len(sent)
    <2> DEFINE o == ow[u]
    <2>1. o \in Nat /\ o <= Len(sent) - Len(f)
        BY <1>4, <1>5
    <2> HIDE DEF o
    <2>2. o <= Len(sent)
        BY ONLY <2>1, <1>5
    <2> QED
        BY <2>2 DEF o
<1>7. new.of = ow[u] /\ new.at = Len(sent)
    OBVIOUS
<1> HIDE DEF new
<1>8. AnsweredUpTo(new, Len(sent))
    <2>1. Len(sent) <= Len(sent)
        BY ONLY <1>5
    <2> QED
        BY <2>1, <1>5, <1>6, <1>7, Zenon DEF AnsweredUpTo
<1>9. LinkTypes("idle", sent, f, wr, ow, dm, ms, new)
    BY <1>1, <1>8, Zenon DEF LinkTypes
<1> QED
    BY <1>9 DEF new

\* or without one.
LEMMA MissedTypes ==
    ASSUME NEW sent, NEW f, NEW wr, NEW ow, NEW dm, NEW ms, NEW an,
           LinkTypes("reading", sent, f, wr, ow, dm, ms, an), NEW c \in Reads
    PROVE  LinkTypes("idle", sent, f, wr, ow, dm, [ms EXCEPT ![c] = @ + 1], an)
<1> DEFINE new == [ms EXCEPT ![c] = @ + 1]
           n == Len(sent)
<1>1. LinkTypes("idle", sent, f, wr, ow, dm, ms, an)
    BY EndedTypes
<1>2. MissedUpTo(ms, "reading", n)
    BY Zenon DEF LinkTypes
<1> HIDE DEF n
<1>3. ms \in [Reads -> Nat] /\ \A d \in Reads : ms[d] <= n /\ ms[d] + 1 <= n
    BY <1>2, Zenon DEF MissedUpTo
<1>4. new \in [Reads -> Nat] /\ \A d \in Reads : new[d] = IF d = c THEN ms[d] + 1 ELSE ms[d]
    BY <1>3
<1> HIDE DEF new
<1>5. \A d \in Reads : new[d] <= n
    BY <1>3, <1>4, Zenon
<1>6. MissedUpTo(new, "idle", n)
    BY <1>4, <1>5 DEF MissedUpTo
<1>7. LinkTypes("idle", sent, f, wr, ow, dm, new, an)
    BY <1>1, <1>6, Zenon DEF LinkTypes, n
<1> QED
    BY <1>7 DEF new

\* Noise keeps the types.
LEMMA DamageTypes ==
    ASSUME NEW w, NEW sent, NEW f, NEW wr, NEW ow, NEW dm, NEW ms, NEW an,
           LinkTypes(w, sent, f, wr, ow, dm, ms, an), dm < MaxDamage, NEW i \in DOMAIN wr
    PROVE  LinkTypes(w, sent, f, [wr EXCEPT ![i] = Xor(@, 1)], ow, dm + 1, ms, an)
<1> DEFINE x == [wr EXCEPT ![i] = Xor(@, 1)]
<1>1. wr \in Seq(Byte) /\ dm \in Nat /\ dm < MaxDamage /\ i \in 1..Len(wr)
    BY DEF LinkTypes
<1>2. Xor(wr[i], 1) \in Byte
    <2>1. wr[i] \in Byte /\ 1 \in Byte
        BY <1>1, ByteRange
    <2> QED
        BY <2>1, XorType
<1>3. x \in Seq(Byte) /\ Len(x) = Len(wr)
    BY ONLY <1>1, <1>2
<1> HIDE DEF x
<1>4. dm + 1 \in Nat /\ dm + 1 <= MaxDamage
    BY ONLY <1>1, LinkBounds
<1>5. LinkTypes(w, sent, f, x, ow, dm + 1, ms, an)
    BY <1>3, <1>4, Zenon DEF LinkTypes
<1> QED
    BY <1>5 DEF x

\* What a step of the link does, in terms of MspCodec.
LEMMA LinkActions ==
    /\ Link!Answer =>
           LET n == Head(fc)
               e == Link!AnswerOf(asked[n], n)
           IN  /\ fc # <<>> /\ link_wire' = link_wire \o e /\ owner' = owner \o [i \in DOMAIN e |-> n]
               /\ fc' = Tail(fc) /\ link_worker' = link_worker /\ asked' = asked
               /\ damage' = damage /\ missed' = missed /\ answer' = answer
    /\ Link!Damage =>
           /\ damage < MaxDamage /\ damage' = damage + 1
           /\ \E i \in DOMAIN link_wire : link_wire' = [link_wire EXCEPT ![i] = Xor(@, 1)]
           /\ link_worker' = link_worker /\ asked' = asked /\ fc' = fc /\ owner' = owner
           /\ missed' = missed /\ answer' = answer
    /\ \A c : Link!Send(c) =>
           /\ link_worker = "idle" /\ Len(asked) < MaxRequests
           /\ asked' = Append(asked, c) /\ fc' = Append(fc, Len(asked) + 1) /\ link_worker' = "reading"
           /\ link_wire' = link_wire /\ owner' = owner /\ damage' = damage
           /\ missed' = missed /\ answer' = answer
BY Zenon DEF Link!Answer, Link!AnswerTo, Link!Damage, Link!Send,
   Link!Xor, Xor

\* What a read does with the r that it decodes.
Consumes(r) ==
    /\ link_worker = "reading"
    /\ link_wire' = SubSeq(link_wire, r.used + 1, Len(link_wire))
    /\ owner' = SubSeq(owner, r.used + 1, Len(owner))
    /\ asked' = asked /\ fc' = fc /\ damage' = damage

\* The four ends of a read, in terms of MspCodec.
LEMMA ReadActions ==
    ASSUME NEW k
    PROVE  LET r == ReadFrame(SubSeq(link_wire, 1, k))
               c == asked[Len(asked)]
           IN  /\ Link!AcknowledgeRc(k) =>
                      /\ Consumes(r) /\ c = SET_RAW_RC
                      /\ link_worker' = IF r.at = "bad" THEN "stopped" ELSE "idle"
                      /\ missed' = missed /\ answer' = answer
               /\ Link!SkipFrame(k) =>
                      /\ Consumes(r) /\ c \in Reads /\ r.at = "done" /\ Command(r) # c
                      /\ link_worker' = link_worker /\ missed' = missed /\ answer' = answer
               /\ Link!TakeAnswer(k) =>
                      /\ Consumes(r) /\ c \in Reads /\ r.at = "done" /\ Command(r) = c
                      /\ answer' = [command |-> c, value |-> Payload(r),
                                    of |-> owner[r.used], at |-> Len(asked)]
                      /\ link_worker' = "idle" /\ missed' = missed
               /\ Link!Miss(k) =>
                      /\ Consumes(r) /\ c \in Reads
                      /\ r.at # "done" \/ r.direction = Error
                      /\ missed' = [missed EXCEPT ![c] = @ + 1]
                      /\ link_worker' = "idle" /\ answer' = answer
<1> DEFINE r == ReadFrame(SubSeq(link_wire, 1, k))
           c == asked[Len(asked)]
<1>1. Link!Decode(k) = r
    BY LinkDecode
<1>2. Link!Awaited = c
    BY Zenon DEF Link!Awaited, Link!Last
<1>3. Link!Command(r) = Command(r) /\ Link!Payload(r) = Payload(r)
    BY LinkPayload
<1>4. Link!IsAnswer(r) <=> r.at = "done" /\ Command(r) = c
    BY <1>2, <1>3, Zenon DEF Link!IsAnswer
<1>5. Link!Error = Error
    BY DEF Link!Error, Error
<1> HIDE DEF r, c
<1>6. ASSUME Link!AcknowledgeRc(k)
      PROVE  /\ Consumes(r) /\ c = SET_RAW_RC
             /\ link_worker' = IF r.at = "bad" THEN "stopped" ELSE "idle"
             /\ missed' = missed /\ answer' = answer
    BY <1>1, <1>2, <1>6, Zenon DEF Link!AcknowledgeRc, Link!Consume, Consumes
<1>7. ASSUME Link!SkipFrame(k)
      PROVE  /\ Consumes(r) /\ c \in Reads /\ r.at = "done" /\ Command(r) # c
             /\ link_worker' = link_worker /\ missed' = missed /\ answer' = answer
    BY <1>1, <1>2, <1>4, <1>7, Zenon DEF Link!SkipFrame, Link!Consume, Consumes
<1>8. ASSUME Link!TakeAnswer(k)
      PROVE  /\ Consumes(r) /\ c \in Reads /\ r.at = "done" /\ Command(r) = c
             /\ answer' = [command |-> c, value |-> Payload(r), of |-> owner[r.used], at |-> Len(asked)]
             /\ link_worker' = "idle" /\ missed' = missed
    BY <1>1, <1>2, <1>3, <1>4, <1>8, Zenon DEF Link!TakeAnswer, Link!Consume, Consumes
<1>9. ASSUME Link!Miss(k)
      PROVE  /\ Consumes(r) /\ c \in Reads
             /\ r.at # "done" \/ r.direction = Error
             /\ missed' = [missed EXCEPT ![c] = @ + 1]
             /\ link_worker' = "idle" /\ answer' = answer
    BY <1>1, <1>2, <1>4, <1>5, <1>9, Zenon DEF Link!Miss, Link!Consume, Consumes
<1> QED
    BY <1>6, <1>7, <1>8, <1>9, Zenon DEF r, c

\* A sequence of elements of T.
LEMMA ElementsInside ==
    ASSUME NEW S, NEW T, NEW s \in Seq(S), \A i \in 1..Len(s) : s[i] \in T
    PROVE  s \in Seq(T)
<1>1. s \in [1..Len(s) -> S] /\ Len(s) \in Nat
    BY LenProperties
<1> DEFINE n == Len(s)
<1>2. n \in Nat /\ s \in [1..n -> T]
    BY <1>1
<1> HIDE DEF n
<1> QED
    BY ONLY <1>2

\* Every step keeps the types.
LEMMA LinkTypesStep ==
    ASSUME LinkTypes(link_worker, asked, fc, link_wire, owner, damage, missed, answer), Link!Next
    PROVE  LinkTypes(link_worker', asked', fc', link_wire', owner', damage', missed', answer')
<1>1. LinkTypes(link_worker, asked, fc, link_wire, owner, damage, missed, answer)
    OBVIOUS
<1>2. link_wire \in Seq(Byte)
    BY Zenon DEF LinkTypes
<1>3. CASE Link!Answer
    <2> DEFINE n == Head(fc)
               e == Link!AnswerOf(asked[n], n)
    <2>1. /\ fc # <<>> /\ link_wire' = link_wire \o e /\ owner' = owner \o [i \in DOMAIN e |-> n]
          /\ fc' = Tail(fc) /\ link_worker' = link_worker /\ asked' = asked
          /\ damage' = damage /\ missed' = missed /\ answer' = answer
        BY <1>3, LinkActions, Zenon
    <2>2. DOMAIN e = 1..Len(e)
        <3>1. asked \in Seq(Commands) /\ Len(asked) <= MaxRequests /\ fc \in Seq(Nat) /\ Numbered(fc, Len(asked))
            BY <1>1, Zenon DEF LinkTypes
        <3>2. Len(asked) \in Nat
            BY <3>1
        <3>3. n \in 1..Len(asked)
            BY <2>1, <3>1, <3>2, HeadOfFc
        <3>4. n \in 1..MaxRequests /\ asked[n] \in Commands
            BY <3>1, <3>2, <3>3, LinkBounds
        <3>5. e \in Seq(Byte)
            BY <3>4, AnswerBytes
        <3> HIDE DEF e
        <3> QED
            BY <3>5
    <2>3. LinkTypes(link_worker, asked, Tail(fc), link_wire \o e, owner \o [i \in 1..Len(e) |-> n],
                    damage, missed, answer)
        BY <1>1, <2>1, AnswerTypes, Zenon
    <2> HIDE DEF e, n
    <2> QED
        BY <2>1, <2>2, <2>3, Zenon
<1>4. CASE Link!Damage
    <2>1. /\ damage < MaxDamage /\ damage' = damage + 1
          /\ link_worker' = link_worker /\ asked' = asked /\ fc' = fc /\ owner' = owner
          /\ missed' = missed /\ answer' = answer
        BY <1>4, LinkActions, Zenon
    <2>2. PICK i \in DOMAIN link_wire : link_wire' = [link_wire EXCEPT ![i] = Xor(@, 1)]
        BY <1>4, LinkActions, Zenon
    <2>3. LinkTypes(link_worker, asked, fc, [link_wire EXCEPT ![i] = Xor(@, 1)], owner, damage + 1, missed, answer)
        BY <1>1, <2>1, <2>2, DamageTypes, Zenon
    <2> QED
        BY <2>1, <2>2, <2>3, Zenon
<1>5. ASSUME NEW c \in Commands, Link!Send(c)
      PROVE  LinkTypes(link_worker', asked', fc', link_wire', owner', damage', missed', answer')
    <2>1. /\ link_worker = "idle" /\ Len(asked) < MaxRequests
          /\ asked' = Append(asked, c) /\ fc' = Append(fc, Len(asked) + 1) /\ link_worker' = "reading"
          /\ link_wire' = link_wire /\ owner' = owner /\ damage' = damage
          /\ missed' = missed /\ answer' = answer
        BY <1>5, LinkActions, Zenon
    <2>2. LinkTypes("idle", asked, fc, link_wire, owner, damage, missed, answer)
        BY <1>1, <2>1, Zenon
    <2>3. LinkTypes("reading", Append(asked, c), Append(fc, Len(asked) + 1), link_wire, owner,
                    damage, missed, answer)
        BY <2>1, <2>2, SendTypes
    <2> QED
        BY <2>1, <2>3, Zenon
<1>6. ASSUME NEW k \in 0..Len(link_wire),
             Link!AcknowledgeRc(k) \/ Link!SkipFrame(k) \/ Link!TakeAnswer(k) \/ Link!Miss(k)
      PROVE  LinkTypes(link_worker', asked', fc', link_wire', owner', damage', missed', answer')
    <2> DEFINE r == ReadFrame(SubSeq(link_wire, 1, k))
               c == asked[Len(asked)]
               x == SubSeq(link_wire, r.used + 1, Len(link_wire))
               o == SubSeq(owner, r.used + 1, Len(owner))
    <2>1. r.used \in 0..Len(link_wire) /\ (r.at = "done" => r.used \in 1..Len(link_wire))
        BY <1>2, DecodeTypes
    <2>2. CASE Link!AcknowledgeRc(k)
        <3>1. /\ Consumes(r) /\ missed' = missed /\ answer' = answer
              /\ link_worker' = IF r.at = "bad" THEN "stopped" ELSE "idle"
            BY <2>2, ReadActions, Zenon
        <3>2. link_worker' \in {"idle", "stopped"}
            BY <3>1
        <3> HIDE DEF r
        <3>3. LinkTypes(link_worker', asked, fc, link_wire, owner, damage, missed, answer)
            BY <1>1, <3>2, EndedTypes
        <3>4. LinkTypes(link_worker', asked, fc, x, o, damage, missed, answer)
            BY <2>1, <3>3, ConsumedTypes
        <3> QED
            BY <3>1, <3>4, Zenon DEF Consumes
    <2>3. CASE Link!SkipFrame(k)
        <3>1. Consumes(r) /\ link_worker' = link_worker /\ missed' = missed /\ answer' = answer
            BY <2>3, ReadActions, Zenon
        <3> HIDE DEF r
        <3>2. LinkTypes(link_worker, asked, fc, x, o, damage, missed, answer)
            BY <1>1, <2>1, ConsumedTypes
        <3> QED
            BY <3>1, <3>2, Zenon DEF Consumes
    <2>4. CASE Link!TakeAnswer(k)
        <3>1. /\ Consumes(r) /\ r.at = "done" /\ link_worker' = "idle" /\ missed' = missed
              /\ answer' = [command |-> c, value |-> Payload(r), of |-> owner[r.used], at |-> Len(asked)]
            BY <2>4, ReadActions, Zenon
        <3> HIDE DEF r
        <3>2. LinkTypes("reading", asked, fc, link_wire, owner, damage, missed, answer)
            BY <1>1, <3>1, Zenon DEF Consumes
        <3>3. LinkTypes("idle", asked, fc, link_wire, owner, damage, missed, answer')
            BY <2>1, <3>1, <3>2, TakenTypes
        <3>4. LinkTypes("idle", asked, fc, x, o, damage, missed, answer')
            BY <2>1, <3>3, ConsumedTypes
        <3> QED
            BY <3>1, <3>4, Zenon DEF Consumes
    <2>5. CASE Link!Miss(k)
        <3>1. /\ Consumes(r) /\ c \in Reads /\ link_worker' = "idle" /\ answer' = answer
              /\ missed' = [missed EXCEPT ![c] = @ + 1]
            BY <2>5, ReadActions, Zenon
        <3> HIDE DEF r
        <3>2. LinkTypes("reading", asked, fc, link_wire, owner, damage, missed, answer)
            BY <1>1, <3>1, Zenon DEF Consumes
        <3>3. LinkTypes("idle", asked, fc, link_wire, owner, damage, missed', answer)
            BY <3>1, <3>2, MissedTypes
        <3>4. LinkTypes("idle", asked, fc, x, o, damage, missed', answer)
            BY <2>1, <3>3, ConsumedTypes
        <3> QED
            BY <3>1, <3>4, Zenon DEF Consumes
    <2> QED
        BY <1>6, <2>2, <2>3, <2>4, <2>5
<1> QED
    BY <1>3, <1>4, <1>5, <1>6, Zenon DEF Link!Next, Commands

LinkTypesInv == LinkTypes(link_worker, asked, fc, link_wire, owner, damage, missed, answer)

\* A step of the stack is one of the link or leaves its variables alone.
LEMMA LinkMovesOrNot ==
    ASSUME [StackNext]_allVars
    PROVE  Link!Next \/ UNCHANGED linkVars
<1>1. CASE DispatcherMoves(Next)
    BY <1>1, Zenon DEF DispatcherMoves
<1>2. CASE LineMoves("line", Line!Next)
    BY <1>2, Zenon DEF LineMoves
<1>3. CASE LinkMoves("link", Link!Next)
    BY <1>3, Zenon DEF LinkMoves, Moves
<1>4. CASE AnswersMoves("answers", Answers!Next)
    BY <1>4, Zenon DEF AnswersMoves
<1>5. CASE UNCHANGED allVars
    BY <1>5, Zenon DEF allVars
<1> QED
    BY <1>1, <1>2, <1>3, <1>4, <1>5 DEF StackNext

\* Requests are numbered in order, and no byte answers one that was not sent.
THEOREM LinkTypesInvariant == StackSpec => []LinkTypesInv
<1>1. StackInit => LinkTypesInv
    BY LinkTypesStart DEF LinkTypesInv
<1>2. LinkTypesInv /\ [StackNext]_allVars => LinkTypesInv'
    <2> SUFFICES ASSUME LinkTypesInv, [StackNext]_allVars
                 PROVE  LinkTypesInv'
        OBVIOUS
    <2>1. LinkTypes(link_worker, asked, fc, link_wire, owner, damage, missed, answer)
        BY DEF LinkTypesInv
    <2>2. CASE Link!Next
        BY <2>1, <2>2, LinkTypesStep DEF LinkTypesInv
    <2>3. CASE UNCHANGED linkVars
        BY <2>1, <2>3 DEF LinkTypesInv, linkVars
    <2> QED
        BY <2>2, <2>3, LinkMovesOrNot
<1> QED
    BY <1>1, <1>2, PTL DEF StackSpec

\* Whatever noise does, a read counts as missed once, and no answer is of a
\* request that was not made.
THEOREM LinkTypeCorrect == StackSpec => []Link!TypeOK
<1>1. LinkTypesInv => Link!TypeOK
    <2> SUFFICES ASSUME LinkTypesInv
                 PROVE  Link!TypeOK
        OBVIOUS
    <2>1. /\ link_worker \in {"idle", "reading", "stopped"}
          /\ asked \in Seq(Commands) /\ Len(asked) <= MaxRequests
          /\ fc \in Seq(Nat) /\ Numbered(fc, Len(asked))
          /\ link_wire \in Seq(Byte) /\ owner \in Seq(Nat) /\ Len(owner) = Len(link_wire)
          /\ OwnedUpTo(owner, Len(asked) - Len(fc))
          /\ damage \in Nat /\ damage <= MaxDamage
          /\ MissedUpTo(missed, link_worker, Len(asked)) /\ AnsweredUpTo(answer, Len(asked))
        BY Zenon DEF LinkTypesInv, LinkTypes
    <2>2. Len(asked) \in Nat /\ Len(fc) \in Nat
        BY <2>1
    <2>3. Len(asked) <= MaxRequests
        BY <2>1
    <2>4. fc \in Seq(1..MaxRequests)
        <3>1. \A i \in 1..Len(fc) : fc[i] \in 1..MaxRequests
            <4> SUFFICES ASSUME NEW i \in 1..Len(fc)
                         PROVE  fc[i] \in 1..MaxRequests
                OBVIOUS
            <4>1. fc[i] = Len(asked) - Len(fc) + i /\ Len(fc) <= Len(asked)
                BY <2>1, Zenon DEF Numbered
            <4> QED
                BY ONLY <4>1, <2>2, <2>3, LinkBounds, i \in 1..Len(fc)
        <3>2. fc \in Seq(Nat)
            BY <2>1, Zenon
        <3> QED
            BY ONLY <3>1, <3>2, ElementsInside
    <2>5. owner \in Seq(1..MaxRequests)
        <3>1. \A i \in 1..Len(owner) : owner[i] \in 1..MaxRequests
            <4> SUFFICES ASSUME NEW i \in 1..Len(owner)
                         PROVE  owner[i] \in 1..MaxRequests
                OBVIOUS
            <4>1. owner[i] >= 1 /\ owner[i] <= Len(asked) - Len(fc) /\ owner \in Seq(Nat)
                BY <2>1, Zenon DEF OwnedUpTo
            <4>2. owner[i] \in Nat
                BY ONLY <4>1, i \in 1..Len(owner)
            <4> DEFINE o == owner[i]
            <4>3. o \in Nat /\ o >= 1 /\ o <= Len(asked) - Len(fc)
                BY <4>1, <4>2
            <4> HIDE DEF o
            <4>4. o \in 1..MaxRequests
                BY ONLY <4>3, <2>2, <2>3, LinkBounds
            <4> QED
                BY <4>4 DEF o
        <3>2. owner \in Seq(Nat)
            BY <2>1, Zenon
        <3> QED
            BY ONLY <3>1, <3>2, ElementsInside
    <2>6. missed \in [Reads -> 0..MaxRequests]
        <3>1. missed \in [Reads -> Nat] /\ \A c \in Reads : missed[c] <= Len(asked)
            BY <2>1, Zenon DEF MissedUpTo
        <3> QED
            BY ONLY <3>1, <2>2, <2>3, LinkBounds
    <2>7. damage \in 0..MaxDamage
        BY ONLY <2>1, LinkBounds
    <2>8. answer.of \in 0..answer.at /\ answer.at \in 0..MaxRequests
        <3>1. answer.of \in Nat /\ answer.at \in Nat /\ answer.of <= answer.at /\ answer.at <= Len(asked)
            BY <2>1, Zenon DEF AnsweredUpTo
        <3> QED
            BY <3>1, <2>2, <2>3, LinkBounds
    <2> QED
        BY <2>1, <2>4, <2>5, <2>6, <2>7, <2>8, Zenon DEF Link!TypeOK, Byte, Commands
<1> QED
    BY <1>1, LinkTypesInvariant, PTL

----------------------------------------------------------------------------
(* A reader on a wire of answers.                                           *)

\* The bytes that answer the n-th request, and their body.
EncodedTo(sent, n) == Link!AnswerOf(sent[n], n)
BodyOfAnswer(sent, n) == BodyTo(sent[n], n)

\* m requests have been answered.
Answered(sent, m) == sent \in Seq(Commands) /\ Len(sent) <= MaxRequests /\ m \in Nat /\ m <= Len(sent)

\* An answer byte by byte.
LEMMA AnswerIs ==
    ASSUME NEW sent, NEW m, Answered(sent, m), NEW n \in 1..m
    PROVE  LET e == EncodedTo(sent, n)
               body == BodyOfAnswer(sent, n)
           IN  /\ sent[n] \in Commands /\ n \in 1..MaxRequests
               /\ body \in Seq(Byte) /\ Whole(1, body) /\ body[2] = sent[n]
               /\ SubSeq(body, 3, Len(body)) = PayloadTo(sent[n], n)
               /\ e \in Seq(Byte) /\ Len(body) \in Nat /\ Len(e) = 4 + Len(body)
               /\ e[1] = Dollar /\ e[2] = VersionByte[1] /\ e[3] = Response
               /\ \A i \in 1..Len(body) : e[3 + i] = body[i]
               /\ e[4 + Len(body)] = Checksum(1, body)
<1>1. sent \in Seq(Commands) /\ Len(sent) <= MaxRequests /\ m \in Nat /\ m <= Len(sent)
    BY Zenon DEF Answered
<1>2. Len(sent) \in Nat
    BY ONLY <1>1
<1>3. n \in 1..Len(sent) /\ n \in 1..MaxRequests
    BY ONLY <1>1, <1>2, LinkBounds, n \in 1..m
<1>4. sent[n] \in Commands
    BY ONLY <1>1, <1>3
<1> DEFINE c == sent[n]
<1> HIDE DEF c
<1>5. c \in Commands
    BY <1>4 DEF c
<1> DEFINE e == Link!AnswerOf(c, n)
           body == BodyTo(c, n)
<1>6. /\ body \in Seq(Byte) /\ Whole(1, body) /\ body[2] = c
      /\ SubSeq(body, 3, Len(body)) = PayloadTo(c, n)
      /\ e \in Seq(Byte) /\ Len(e) = 4 + Len(body)
      /\ e[1] = Dollar /\ e[2] = VersionByte[1] /\ e[3] = Response
      /\ \A i \in 1..Len(body) : e[3 + i] = body[i]
      /\ e[4 + Len(body)] = Checksum(1, body)
    BY <1>3, <1>5, AnswerBytes
<1> HIDE DEF e, body
<1>7. Len(body) \in Nat
    BY <1>6
<1> QED
    BY <1>3, <1>5, <1>6, <1>7, Zenon DEF EncodedTo, BodyOfAnswer, c, e, body

\* Only the first two bytes of an answer look like a head.
LEMMA PlainAnswer ==
    ASSUME Link!PlainAnswers, NEW sent, NEW m, Answered(sent, m), NEW n \in 1..m,
           NEW i \in 2..Len(EncodedTo(sent, n)) - 1
    PROVE  ~ (/\ EncodedTo(sent, n)[i] = Dollar
              /\ EncodedTo(sent, n)[i + 1] \in {VersionByte[1], VersionByte[2]})
<1>1. sent[n] \in Reads \cup {SET_RAW_RC} /\ n \in 1..MaxRequests
    BY AnswerIs DEF Commands
<1> QED
    BY <1>1, Zenon DEF Link!PlainAnswers, EncodedTo, Link!Dollar, Dollar, Link!VersionByte, VersionByte

\* The byte behind p bytes of an answer, for a reader that has its head.
LEMMA BodyGrows ==
    ASSUME NEW body \in Seq(Byte), Whole(1, body), NEW e, Len(e) = 4 + Len(body),
           \A i \in 1..Len(body) : e[3 + i] = body[i], e[4 + Len(body)] = Checksum(1, body),
           NEW p \in Nat, p >= 3, p < Len(e), NEW u \in Nat
    PROVE  ReadByte(Reader("body", 1, Response, SubSeq(body, 1, p - 3), u), e[p + 1]) =
               IF p + 1 < Len(e) THEN Reader("body", 1, Response, SubSeq(body, 1, (p + 1) - 3), u + 1)
               ELSE Reader("done", 1, Response, body, u + 1)
<1>1. Len(body) \in Nat
    OBVIOUS
<1> DEFINE k == p - 3
           b == e[p + 1]
<1>2. k \in 0..Len(body) /\ (p + 1 < Len(e) <=> k < Len(body)) /\ (p + 1) - 3 = k + 1
    BY <1>1
<1>3. 1 \in {1, 2}
    OBVIOUS
<1>4. Whole(1, SubSeq(body, 1, k)) <=> k = Len(body)
    BY <1>2, <1>3, PrefixIsNotWhole
<1>5. CASE k < Len(body)
    <2>1. k + 1 \in 1..Len(body) /\ p + 1 = 3 + (k + 1) /\ k # Len(body) /\ (k + 1) - 1 = k
        BY <1>1, <1>2, <1>5
    <2> HIDE DEF k
    <2>2. b = body[k + 1]
        <3>1. e[3 + (k + 1)] = body[k + 1]
            BY <2>1, Zenon
        <3> QED
            BY ONLY <3>1, <2>1
    <2> HIDE DEF b
    <2>3. Append(SubSeq(body, 1, (k + 1) - 1), body[k + 1]) = SubSeq(body, 1, k + 1)
        BY ONLY <2>1, body \in Seq(Byte), <1>1
    <2>4. Append(SubSeq(body, 1, k), b) = SubSeq(body, 1, k + 1)
        BY <2>1, <2>2, <2>3, Zenon
    <2>5. ReadByte(Reader("body", 1, Response, SubSeq(body, 1, k), u), b)
              = Reader("body", 1, Response, Append(SubSeq(body, 1, k), b), u + 1)
        BY <1>4, <2>1, BodyStep
    <2> QED
        BY <1>2, <1>5, <2>4, <2>5, Zenon DEF k, b
<1>6. CASE ~ (k < Len(body))
    <2>1. k = Len(body) /\ p + 1 = 4 + Len(body)
        BY <1>1, <1>2, <1>6
    <2>2. b = Checksum(1, body)
        BY <2>1, Zenon
    <2>3. SubSeq(body, 1, k) = body
        BY <2>1, SubSeqFull, Zenon
    <2> HIDE DEF k, b
    <2>4. Whole(1, body)
        OBVIOUS
    <2>5. ReadByte(Reader("body", 1, Response, body, u), b) = Reader("done", 1, Response, body, u + 1)
        BY <2>2, <2>4, BodyStep
    <2> QED
        BY <1>2, <1>6, <2>3, <2>5, Zenon DEF k, b
<1> QED
    BY <1>5, <1>6

\* What is on the wire: byte i is byte ps[i] of the answer to request ow[i], one
\* byte behind the other, and answers follow each other.
IsByteOf(b, sent, m, n, p) ==
    n \in 1..m /\ p \in 1..Len(EncodedTo(sent, n)) /\ b = EncodedTo(sent, n)[p]
Follows(sent, n, p, n2, p2) ==
    IF p < Len(EncodedTo(sent, n)) THEN n2 = n /\ p2 = p + 1 ELSE n2 = n + 1 /\ p2 = 1

WireHolds(wr, ow, ps, sent, m) ==
    /\ Answered(sent, m)
    /\ wr \in Seq(Byte) /\ ow \in Seq(Nat) /\ ps \in Seq(Nat) /\ Len(ow) = Len(wr) /\ Len(ps) = Len(wr)
    /\ \A i \in 1..Len(wr) : IsByteOf(wr[i], sent, m, ow[i], ps[i])
    /\ \A i \in 1..Len(wr) : i < Len(wr) => Follows(sent, ow[i], ps[i], ow[i + 1], ps[i + 1])
    /\ Len(wr) > 0 => ow[Len(wr)] = m /\ ps[Len(wr)] = Len(EncodedTo(sent, m))

\* A reader that has read i bytes of it: it scans, or it reads the answer that
\* byte i is of, or it has read a whole one.
Scanning(r, i) == r = Reader("scan", 1, Request, <<>>, i)
AtVersion(r, i, b) == b = Dollar /\ r = Reader("version", 1, Request, <<>>, i)
AtDirection(r, i, p) == p = 2 /\ r = Reader("direction", 1, Request, <<>>, i)
InBody(r, i, sent, n, p) ==
    /\ p >= 3 /\ p < Len(EncodedTo(sent, n))
    /\ r = Reader("body", 1, Response, SubSeq(BodyOfAnswer(sent, n), 1, p - 3), i)
HasRead(r, j, sent, n, p) ==
    p = Len(EncodedTo(sent, n)) /\ r = Reader("done", 1, Response, BodyOfAnswer(sent, n), j)

ReaderIs(r, i, wr, ow, ps, sent) ==
    \/ Scanning(r, i)
    \/ i >= 1 /\ AtVersion(r, i, wr[i])
    \/ i >= 1 /\ AtDirection(r, i, ps[i])
    \/ i >= 1 /\ InBody(r, i, sent, ow[i], ps[i])
    \/ \E j \in 1..i : HasRead(r, j, sent, ow[j], ps[j])

\* One byte more.
LEMMA ReaderOnWire ==
    ASSUME Link!PlainAnswers, NEW wr, NEW ow, NEW ps, NEW sent, NEW m, WireHolds(wr, ow, ps, sent, m),
           NEW i \in 1..Len(wr), NEW r, ReaderIs(r, i - 1, wr, ow, ps, sent)
    PROVE  ReaderIs(ReadByte(r, wr[i]), i, wr, ow, ps, sent)
<1> DEFINE b == wr[i]
           n == ow[i]
           p == ps[i]
           q == ReadByte(r, b)
           e == EncodedTo(sent, n)
<1>1. /\ Answered(sent, m) /\ IsByteOf(b, sent, m, n, p)
      /\ i - 1 >= 1 => /\ IsByteOf(wr[i - 1], sent, m, ow[i - 1], ps[i - 1])
                       /\ Follows(sent, ow[i - 1], ps[i - 1], n, p)
    <2>1. Answered(sent, m) /\ IsByteOf(b, sent, m, n, p)
        BY Zenon DEF WireHolds
    <2>2. ASSUME i - 1 >= 1
          PROVE  /\ IsByteOf(wr[i - 1], sent, m, ow[i - 1], ps[i - 1])
                 /\ Follows(sent, ow[i - 1], ps[i - 1], n, p)
        <3>1. wr \in Seq(Byte)
            BY Zenon DEF WireHolds
        <3>2. i - 1 \in 1..Len(wr) /\ i - 1 < Len(wr) /\ (i - 1) + 1 = i
            BY ONLY <3>1, <2>2, i \in 1..Len(wr)
        <3> QED
            BY <3>2, Zenon DEF WireHolds
    <2> QED
        BY <2>1, <2>2
<1>2. n \in 1..m /\ p \in 1..Len(e) /\ b = e[p]
    BY <1>1, Zenon DEF IsByteOf
<1>3. i \in Nat /\ i >= 1 /\ (i - 1) + 1 = i
    OBVIOUS
<1> HIDE DEF b, n, p, e
<1>4. CASE Scanning(r, i - 1)
    <2>1. q = Reader(IF b = Dollar THEN "version" ELSE "scan", 1, Request, <<>>, (i - 1) + 1)
        BY <1>4, ScanStep DEF Scanning
    <2>2. Scanning(q, i) \/ AtVersion(q, i, b)
        BY <2>1, <1>3, Zenon DEF Scanning, AtVersion
    <2> QED
        BY <2>2, <1>3, Zenon DEF ReaderIs, b
<1>5. CASE i - 1 >= 1 /\ AtVersion(r, i - 1, wr[i - 1])
    <2>1. CASE b \notin {VersionByte[1], VersionByte[2]}
        <3>1. q = Reader("scan", 1, Request, <<>>, (i - 1) + 1)
            BY <1>5, <2>1, VersionStep DEF AtVersion
        <3> QED
            BY <3>1, <1>3, Zenon DEF ReaderIs, Scanning, b
    <2>2. CASE b \in {VersionByte[1], VersionByte[2]}
        <3> DEFINE n1 == ow[i - 1]
                   p1 == ps[i - 1]
                   e1 == EncodedTo(sent, n1)
        <3>1. n1 \in 1..m /\ p1 \in 1..Len(e1) /\ wr[i - 1] = e1[p1] /\ Follows(sent, n1, p1, n, p)
            BY <1>1, <1>5, Zenon DEF IsByteOf
        <3>2. e1[p1] = Dollar
            BY <3>1, <1>5, Zenon DEF AtVersion
        <3> HIDE DEF n1, p1
        <3>3. Len(e1) \in Nat
            BY <1>1, <3>1, AnswerIs
        <3>4. CASE p1 < Len(e1)
            <4>1. n = n1 /\ p = p1 + 1
                BY <3>1, <3>4, Zenon DEF Follows
            <4>2. b = e1[p1 + 1]
                BY <4>1, <1>2, Zenon DEF e
            <4>3. p1 = 1
                <5> SUFFICES ASSUME p1 # 1
                             PROVE  FALSE
                    OBVIOUS
                <5>1. p1 \in 2..Len(e1) - 1
                    BY <3>1, <3>3, <3>4
                <5> QED
                    BY <5>1, <3>1, <3>2, <4>2, <2>2, <1>1, PlainAnswer
            <4>4. p = 2 /\ b = VersionByte[1]
                <5>1. p = 2
                    BY <4>1, <4>3
                <5>2. e[2] = VersionByte[1]
                    BY <1>1, <1>2, AnswerIs DEF e
                <5> QED
                    BY <5>1, <5>2, <1>2, Zenon
            <4>5. q = Reader("direction", IF b = VersionByte[1] THEN 1 ELSE 2, Request, <<>>, (i - 1) + 1)
                BY <1>5, <2>2, VersionStep DEF AtVersion
            <4>6. AtDirection(q, i, p)
                BY <4>4, <4>5, <1>3, Zenon DEF AtDirection
            <4> QED
                BY <4>6, <1>3, Zenon DEF ReaderIs, p, b
        <3>5. CASE ~ (p1 < Len(e1))
            <4>1. p = 1
                BY <3>1, <3>5, Zenon DEF Follows
            <4>2. e[1] = Dollar
                BY <1>1, <1>2, AnswerIs DEF e
            <4>3. b = Dollar
                BY <4>1, <4>2, <1>2, Zenon
            <4> QED
                BY <4>3, <2>2 DEF Dollar, VersionByte
        <3> QED
            BY <3>4, <3>5
    <2> QED
        BY <2>1, <2>2
<1>6. CASE i - 1 >= 1 /\ AtDirection(r, i - 1, ps[i - 1])
    <2> DEFINE n1 == ow[i - 1]
    <2>1. n1 \in 1..m /\ ps[i - 1] = 2 /\ Follows(sent, n1, 2, n, p)
        BY <1>1, <1>6, Zenon DEF IsByteOf, AtDirection
    <2> HIDE DEF n1
    <2>2. 2 < Len(EncodedTo(sent, n1))
        <3>1. Len(BodyOfAnswer(sent, n1)) \in Nat /\ Len(EncodedTo(sent, n1)) = 4 + Len(BodyOfAnswer(sent, n1))
            BY <1>1, <2>1, AnswerIs
        <3> QED
            BY ONLY <3>1
    <2>3. n = n1 /\ p = 3
        BY <2>1, <2>2 DEF Follows
    <2>4. /\ e[3] = Response /\ Len(BodyOfAnswer(sent, n)) \in Nat /\ Len(e) = 4 + Len(BodyOfAnswer(sent, n))
          /\ BodyOfAnswer(sent, n) \in Seq(Byte)
        BY <1>1, <1>2, AnswerIs DEF e
    <2>5. b = Response /\ b \in Directions
        <3>1. b = Response
            BY <2>3, <2>4, <1>2, Zenon
        <3> QED
            BY <3>1 DEF Directions
    <2>6. q = Reader("body", 1, Response, <<>>, (i - 1) + 1)
        BY <1>6, <2>5, DirectionStep DEF AtDirection
    <2>7. SubSeq(BodyOfAnswer(sent, n), 1, p - 3) = <<>>
        <3>1. p - 3 \in Int /\ 1 \in Int /\ p - 3 < 1
            BY ONLY <2>3
        <3> QED
            BY ONLY <3>1, SubSeqEmpty
    <2>8. p >= 3 /\ p < Len(e)
        BY ONLY <2>3, <2>4
    <2>9. InBody(q, i, sent, n, p)
        BY <2>6, <2>7, <2>8, <1>3, Zenon DEF InBody, e
    <2> QED
        BY <2>9, <1>3, Zenon DEF ReaderIs, n, p, b
<1>7. CASE i - 1 >= 1 /\ InBody(r, i - 1, sent, ow[i - 1], ps[i - 1])
    <2> DEFINE n1 == ow[i - 1]
               p1 == ps[i - 1]
               e1 == EncodedTo(sent, n1)
               body == BodyOfAnswer(sent, n1)
    <2>1. n1 \in 1..m /\ p1 \in 1..Len(e1) /\ Follows(sent, n1, p1, n, p)
        BY <1>1, <1>7, Zenon DEF IsByteOf
    <2>2. p1 >= 3 /\ p1 < Len(e1) /\ r = Reader("body", 1, Response, SubSeq(body, 1, p1 - 3), i - 1)
        BY <1>7, Zenon DEF InBody
    <2> HIDE DEF n1, p1
    <2>3. n = n1 /\ p = p1 + 1 /\ b = e1[p1 + 1]
        <3>1. n = n1 /\ p = p1 + 1
            BY <2>1, <2>2, Zenon DEF Follows
        <3> QED
            BY <3>1, <1>2, Zenon DEF e
    <2>4. /\ body \in Seq(Byte) /\ Whole(1, body) /\ Len(e1) = 4 + Len(body)
          /\ \A g \in 1..Len(body) : e1[3 + g] = body[g]
          /\ e1[4 + Len(body)] = Checksum(1, body) /\ Len(body) \in Nat
        BY <1>1, <2>1, AnswerIs
    <2> HIDE DEF e1, body
    <2>5. p1 \in Nat /\ i - 1 \in Nat
        BY ONLY <2>1, <1>3
    <2>6. q = IF p1 + 1 < Len(e1) THEN Reader("body", 1, Response, SubSeq(body, 1, (p1 + 1) - 3), (i - 1) + 1)
              ELSE Reader("done", 1, Response, body, (i - 1) + 1)
        <3>1. ReadByte(Reader("body", 1, Response, SubSeq(body, 1, p1 - 3), i - 1), e1[p1 + 1]) =
                  IF p1 + 1 < Len(e1) THEN Reader("body", 1, Response, SubSeq(body, 1, (p1 + 1) - 3), (i - 1) + 1)
                  ELSE Reader("done", 1, Response, body, (i - 1) + 1)
            BY <2>2, <2>4, <2>5, BodyGrows
        <3> QED
            BY <3>1, <2>2, <2>3, Zenon
    <2>7. CASE p1 + 1 < Len(e1)
        <3>1. p >= 3 /\ p < Len(e1) /\ q = Reader("body", 1, Response, SubSeq(body, 1, p - 3), i)
            <4>1. p1 + 1 >= 3
                BY ONLY <2>2, <2>5
            <4> QED
                BY <4>1, <2>3, <2>6, <2>7, <1>3, Zenon
        <3>2. InBody(q, i, sent, n, p)
            BY <3>1, <2>3, Zenon DEF InBody, e1, body
        <3> QED
            BY <3>2, <1>3, Zenon DEF ReaderIs, n, p, b
    <2>8. CASE ~ (p1 + 1 < Len(e1))
        <3>1. p = Len(e1)
            BY ONLY <2>2, <2>3, <2>4, <2>5, <2>8
        <3>2. q = Reader("done", 1, Response, body, i)
            BY <2>6, <2>8, <1>3, Zenon
        <3>3. HasRead(q, i, sent, n, p)
            BY <3>1, <3>2, <2>3, Zenon DEF HasRead, e1, body
        <3>4. \E j \in 1..i : HasRead(q, j, sent, ow[j], ps[j])
            <4>1. i \in 1..i
                BY ONLY <1>3
            <4> QED
                BY <4>1, <3>3, Zenon DEF n, p
        <3> QED
            BY <3>4, Zenon DEF ReaderIs, b
    <2> QED
        BY <2>7, <2>8
<1>8. CASE \E j \in 1..i - 1 : HasRead(r, j, sent, ow[j], ps[j])
    <2>1. PICK j \in 1..i - 1 : HasRead(r, j, sent, ow[j], ps[j])
        BY <1>8
    <2>2. r.at = "done"
        BY <2>1 DEF HasRead, Reader
    <2>3. q = r
        BY <2>2 DEF ReadByte
    <2>4. j \in 1..i
        BY ONLY <1>3, j \in 1..i - 1
    <2> QED
        BY <2>1, <2>3, <2>4, Zenon DEF ReaderIs, b
<1> QED
    BY <1>4, <1>5, <1>6, <1>7, <1>8, Zenon DEF ReaderIs, b

\* Whatever the number of bytes that come in time.
LEMMA ReaderIsOnWire ==
    ASSUME Link!PlainAnswers, NEW wr, NEW ow, NEW ps, NEW sent, NEW m, WireHolds(wr, ow, ps, sent, m),
           NEW k \in 0..Len(wr)
    PROVE  ReaderIs(ReadFrame(SubSeq(wr, 1, k)), k, wr, ow, ps, sent)
<1> DEFINE s == SubSeq(wr, 1, k)
<1>1. wr \in Seq(Byte) /\ Len(wr) \in Nat
    <2>1. wr \in Seq(Byte)
        BY Zenon DEF WireHolds
    <2> QED
        BY <2>1
<1>2. s \in Seq(Byte) /\ Len(s) = k /\ \A i \in 1..k : s[i] = wr[i]
    BY <1>1, FirstElements
<1> HIDE DEF s
<1>3. PICK f \in [0..Len(s) -> Readers] : IsReaderRun(f, s) /\ ReadFrame(s) = f[Len(s)]
    BY <1>2, ReaderRun
<1>4. f[0] = Start /\ \A i \in 1..Len(s) : f[i] = ReadByte(f[i - 1], s[i])
    BY <1>2, <1>3, ReaderSteps
<1> DEFINE Good(i) == ReaderIs(f[i], i, wr, ow, ps, sent)
           G == {i \in 0..k : Good(i)}
<1>5. 0 \in G
    <2>1. f[0] = Reader("scan", 1, Request, <<>>, 0)
        BY <1>4, StartReader, Zenon
    <2>2. Good(0)
        BY <2>1, Zenon DEF ReaderIs, Scanning
    <2> QED
        BY <2>2
<1>6. ASSUME NEW i \in 1..k, i - 1 \in G
      PROVE  i \in G
    <2>1. Good(i - 1)
        BY <1>6
    <2>2. i \in 1..Len(wr) /\ i \in 0..k /\ i \in 1..Len(s)
        BY <1>1, <1>2
    <2> HIDE DEF Good
    <2>3. ReaderIs(f[i - 1], i - 1, wr, ow, ps, sent)
        BY <2>1 DEF Good
    <2>4. ReaderIs(ReadByte(f[i - 1], wr[i]), i, wr, ow, ps, sent)
        BY <2>2, <2>3, ReaderOnWire
    <2>5. f[i] = ReadByte(f[i - 1], wr[i])
        BY <2>2, <1>2, <1>4
    <2>6. Good(i)
        BY <2>4, <2>5, Zenon DEF Good
    <2> QED
        BY <2>2, <2>6
<1> HIDE DEF G, Good
<1>7. k \in Nat /\ k \in 0..k
    BY <1>1
<1>8. 0..k \subseteq G
    BY <1>5, <1>6, <1>7, InductionUpTo
<1>9. Good(k)
    BY <1>7, <1>8 DEF G
<1> QED
    BY <1>2, <1>3, <1>9, Zenon DEF Good, s

\* A read of a wire without noise meets no malformed frame, and what it takes
\* for a frame is a whole answer.
LEMMA DecodeOnWire ==
    ASSUME Link!PlainAnswers, NEW wr, NEW ow, NEW ps, NEW sent, NEW m, WireHolds(wr, ow, ps, sent, m),
           NEW k \in 0..Len(wr)
    PROVE  LET r == ReadFrame(SubSeq(wr, 1, k))
           IN  /\ r.at # "bad"
               /\ r.at = "done" =>
                      /\ r.used \in 1..Len(wr) /\ ow[r.used] \in 1..m
                      /\ ps[r.used] = Len(EncodedTo(sent, ow[r.used]))
                      /\ Command(r) = sent[ow[r.used]] /\ r.direction # Error
                      /\ Payload(r) = PayloadTo(sent[ow[r.used]], ow[r.used])
<1> DEFINE r == ReadFrame(SubSeq(wr, 1, k))
<1>1. ReaderIs(r, k, wr, ow, ps, sent)
    BY ReaderIsOnWire
<1> HIDE DEF r
<1>2. wr \in Seq(Byte) /\ Answered(sent, m) /\ \A i \in 1..Len(wr) : IsByteOf(wr[i], sent, m, ow[i], ps[i])
    BY Zenon DEF WireHolds
<1>3. Len(wr) \in Nat
    BY <1>2
<1>4. CASE \E j \in 1..k : HasRead(r, j, sent, ow[j], ps[j])
    <2>1. PICK j \in 1..k : HasRead(r, j, sent, ow[j], ps[j])
        BY <1>4
    <2>2. j \in 1..Len(wr)
        BY <1>3
    <2> DEFINE n == ow[j]
               body == BodyOfAnswer(sent, n)
    <2>3. ps[j] = Len(EncodedTo(sent, n)) /\ r = Reader("done", 1, Response, body, j)
        BY <2>1, Zenon DEF HasRead
    <2>4. n \in 1..m
        BY <2>2, <1>2, Zenon DEF IsByteOf
    <2> HIDE DEF n
    <2>5. body[2] = sent[n] /\ SubSeq(body, 3, Len(body)) = PayloadTo(sent[n], n)
        BY <2>4, <1>2, AnswerIs
    <2> HIDE DEF body
    <2>6. r.at = "done" /\ r.version = 1 /\ r.direction = Response /\ r.body = body /\ r.used = j
        BY <2>3 DEF Reader
    <2>7. Command(r) = sent[n]
        BY <2>5, <2>6, Zenon DEF Command
    <2>8. Payload(r) = PayloadTo(sent[n], n)
        <3>1. HeaderLength(1) + 1 = 3
            BY DEF HeaderLength
        <3> QED
            BY <3>1, <2>5, <2>6, Zenon DEF Payload
    <2>9. r.at # "bad" /\ r.direction # Error
        BY <2>6 DEF Response, Error
    <2> QED
        BY <2>2, <2>3, <2>4, <2>6, <2>7, <2>8, <2>9, Zenon DEF n, r
<1>5. CASE ~ \E j \in 1..k : HasRead(r, j, sent, ow[j], ps[j])
    <2>1. r.at \notin {"bad", "done"}
        BY <1>1, <1>5 DEF ReaderIs, Scanning, AtVersion, AtDirection, InBody, Reader
    <2> QED
        BY <2>1 DEF r
<1> QED
    BY <1>4, <1>5

----------------------------------------------------------------------------
(* The wire without noise.                                                  *)

\* The first request of which something can still come.
FirstOf(ow, m) == IF Len(ow) > 0 THEN ow[1] ELSE m + 1

\* What a wire of answers is.
LEMMA WireFacts ==
    ASSUME NEW wr, NEW ow, NEW ps, NEW sent, NEW m, WireHolds(wr, ow, ps, sent, m)
    PROVE  /\ Answered(sent, m) /\ m \in Nat /\ Len(sent) \in Nat /\ m <= Len(sent)
           /\ wr \in Seq(Byte) /\ ow \in Seq(Nat) /\ ps \in Seq(Nat)
           /\ Len(wr) \in Nat /\ Len(ow) = Len(wr) /\ Len(ps) = Len(wr)
           /\ \A i \in 1..Len(wr) : IsByteOf(wr[i], sent, m, ow[i], ps[i])
           /\ \A i \in 1..Len(wr) : i < Len(wr) => Follows(sent, ow[i], ps[i], ow[i + 1], ps[i + 1])
           /\ Len(wr) > 0 => ow[Len(wr)] = m /\ ps[Len(wr)] = Len(EncodedTo(sent, m))
<1>1. /\ Answered(sent, m)
      /\ wr \in Seq(Byte) /\ ow \in Seq(Nat) /\ ps \in Seq(Nat) /\ Len(ow) = Len(wr) /\ Len(ps) = Len(wr)
      /\ \A i \in 1..Len(wr) : IsByteOf(wr[i], sent, m, ow[i], ps[i])
      /\ \A i \in 1..Len(wr) : i < Len(wr) => Follows(sent, ow[i], ps[i], ow[i + 1], ps[i + 1])
      /\ Len(wr) > 0 => ow[Len(wr)] = m /\ ps[Len(wr)] = Len(EncodedTo(sent, m))
    BY Zenon DEF WireHolds
<1>2. sent \in Seq(Commands) /\ m \in Nat /\ m <= Len(sent)
    BY <1>1, Zenon DEF Answered
<1>3. Len(sent) \in Nat /\ Len(wr) \in Nat
    <2>1. wr \in Seq(Byte)
        BY <1>1, Zenon
    <2> QED
        BY ONLY <1>2, <2>1
<1> QED
    BY <1>1, <1>2, <1>3, Zenon

\* The flight controller answers the next request.
LEMMA WireAnswer ==
    ASSUME NEW wr, NEW ow, NEW ps, NEW sent, NEW m, WireHolds(wr, ow, ps, sent, m), m + 1 <= Len(sent)
    PROVE  LET e == EncodedTo(sent, m + 1)
               o == ow \o [i \in 1..Len(e) |-> m + 1]
           IN  /\ WireHolds(wr \o e, o, ps \o [i \in 1..Len(e) |-> i], sent, m + 1)
               /\ FirstOf(o, m + 1) = FirstOf(ow, m)
<1> DEFINE n == m + 1
           e == EncodedTo(sent, n)
           g == [i \in 1..Len(e) |-> n]
           h == [i \in 1..Len(e) |-> i]
           x == wr \o e
           o == ow \o g
           q == ps \o h
           l == Len(wr)
           k == Len(e)
<1>1. /\ Answered(sent, m) /\ m \in Nat /\ Len(sent) \in Nat /\ m <= Len(sent)
      /\ wr \in Seq(Byte) /\ ow \in Seq(Nat) /\ ps \in Seq(Nat)
      /\ l \in Nat /\ Len(ow) = l /\ Len(ps) = l
      /\ \A i \in 1..l : IsByteOf(wr[i], sent, m, ow[i], ps[i])
      /\ \A i \in 1..l : i < l => Follows(sent, ow[i], ps[i], ow[i + 1], ps[i + 1])
      /\ l > 0 => ow[l] = m /\ ps[l] = Len(EncodedTo(sent, m))
    BY WireFacts
<1>2. Answered(sent, n) /\ n \in Nat /\ n \in 1..n /\ (\A j \in 1..m : j \in 1..n) /\ m + 1 = n
    <2>1. n \in Nat /\ n <= Len(sent) /\ n \in 1..n /\ \A j \in 1..m : j \in 1..n
        BY ONLY <1>1, m + 1 <= Len(sent)
    <2>2. sent \in Seq(Commands) /\ Len(sent) <= MaxRequests
        BY <1>1, Zenon DEF Answered
    <2> QED
        BY <2>1, <2>2, Zenon DEF Answered
<1> HIDE DEF n
<1>3. e \in Seq(Byte) /\ k \in Nat /\ k >= 4
    <2>1. e \in Seq(Byte) /\ Len(BodyOfAnswer(sent, n)) \in Nat /\ k = 4 + Len(BodyOfAnswer(sent, n))
        BY <1>2, AnswerIs
    <2> HIDE DEF e, k
    <2> QED
        BY <2>1
<1> HIDE DEF e
<1>4. /\ g \in Seq(Nat) /\ Len(g) = k /\ \A i \in 1..k : g[i] = n
      /\ h \in Seq(Nat) /\ Len(h) = k /\ \A i \in 1..k : h[i] = i
    BY ONLY <1>2, <1>3
<1> HIDE DEF g, h, k, l
<1>5. x \in Seq(Byte) /\ Len(x) = l + k /\ (\A i \in 1..l : x[i] = wr[i]) /\ (\A i \in 1..k : x[l + i] = e[i])
    <2>1. wr \in Seq(Byte) /\ e \in Seq(Byte)
        BY <1>1, <1>3, Zenon
    <2> QED
        BY ONLY <2>1, Concatenation DEF k, l
<1>6. o \in Seq(Nat) /\ Len(o) = l + k /\ (\A i \in 1..l : o[i] = ow[i]) /\ (\A i \in 1..k : o[l + i] = n)
    <2>1. ow \in Seq(Nat) /\ g \in Seq(Nat)
        BY <1>1, <1>4, Zenon
    <2>2. /\ o \in Seq(Nat) /\ Len(o) = Len(ow) + Len(g)
          /\ \A i \in 1..Len(ow) : o[i] = ow[i]
          /\ \A i \in 1..Len(g) : o[Len(ow) + i] = g[i]
        BY ONLY <2>1, Concatenation
    <2> QED
        BY <2>2, <1>1, <1>4, Zenon
<1>7. q \in Seq(Nat) /\ Len(q) = l + k /\ (\A i \in 1..l : q[i] = ps[i]) /\ (\A i \in 1..k : q[l + i] = i)
    <2>1. ps \in Seq(Nat) /\ h \in Seq(Nat)
        BY <1>1, <1>4, Zenon
    <2>2. /\ q \in Seq(Nat) /\ Len(q) = Len(ps) + Len(h)
          /\ \A i \in 1..Len(ps) : q[i] = ps[i]
          /\ \A i \in 1..Len(h) : q[Len(ps) + i] = h[i]
        BY ONLY <2>1, Concatenation
    <2> QED
        BY <2>2, <1>1, <1>4, Zenon
<1> HIDE DEF x, o, q
<1>8. ASSUME NEW i \in 1..Len(x)
      PROVE  IsByteOf(x[i], sent, n, o[i], q[i])
    <2>1. CASE i \in 1..l
        <3>1. ow[i] \in 1..m /\ ps[i] \in 1..Len(EncodedTo(sent, ow[i])) /\ wr[i] = EncodedTo(sent, ow[i])[ps[i]]
            BY <2>1, <1>1, Zenon DEF IsByteOf
        <3>2. ow[i] \in 1..n
            BY <3>1, <1>2, Zenon
        <3>3. x[i] = wr[i] /\ o[i] = ow[i] /\ q[i] = ps[i]
            BY <2>1, <1>5, <1>6, <1>7, Zenon
        <3> QED
            BY <3>1, <3>2, <3>3, Zenon DEF IsByteOf
    <2>2. CASE i \notin 1..l
        <3>1. i - l \in 1..k /\ l + (i - l) = i
            BY ONLY <2>2, <1>1, <1>3, <1>5, i \in 1..Len(x)
        <3>2. x[i] = e[i - l] /\ o[i] = n /\ q[i] = i - l
            BY <3>1, <1>5, <1>6, <1>7, Zenon
        <3> QED
            BY <3>1, <3>2, <1>2, Zenon DEF IsByteOf, e, k
    <2> QED
        BY <2>1, <2>2
<1>9. ASSUME NEW i \in 1..Len(x), i < Len(x)
      PROVE  Follows(sent, o[i], q[i], o[i + 1], q[i + 1])
    <2>1. CASE i < l
        <3>1. i \in 1..l /\ i + 1 \in 1..l
            BY ONLY <2>1, <1>1, i \in 1..Len(x)
        <3>2. Follows(sent, ow[i], ps[i], ow[i + 1], ps[i + 1])
            BY <3>1, <2>1, <1>1, Zenon
        <3>3. o[i] = ow[i] /\ q[i] = ps[i] /\ o[i + 1] = ow[i + 1] /\ q[i + 1] = ps[i + 1]
            BY <3>1, <1>6, <1>7, Zenon
        <3> QED
            BY <3>2, <3>3, Zenon
    <2>2. CASE i = l
        <3>1. i \in 1..l /\ l > 0 /\ 1 \in 1..k
            BY ONLY <2>2, <1>1, <1>3, i \in 1..Len(x)
        <3>2. o[i] = m /\ q[i] = Len(EncodedTo(sent, m))
            BY <3>1, <2>2, <1>1, <1>6, <1>7, Zenon
        <3>3. o[i + 1] = n /\ q[i + 1] = 1
            BY <3>1, <2>2, <1>6, <1>7, Zenon
        <3>4. q[i] \in Nat
            <4>1. q \in Seq(Nat) /\ i \in 1..Len(q)
                BY <1>5, <1>7, Zenon
            <4> QED
                BY ONLY <4>1
        <3>5. ~ (q[i] < Len(EncodedTo(sent, m)))
            <4> DEFINE z == q[i]
            <4>1. z \in Nat /\ z = Len(EncodedTo(sent, m))
                BY <3>2, <3>4
            <4> HIDE DEF z
            <4>2. ~ (z < Len(EncodedTo(sent, m)))
                BY ONLY <4>1
            <4> QED
                BY <4>2 DEF z
        <3> QED
            BY <3>2, <3>3, <3>5, <1>2, Zenon DEF Follows
    <2>3. CASE i > l
        <3> DEFINE j == i - l
        <3>1. j \in 1..k /\ j + 1 \in 1..k /\ l + j = i /\ l + (j + 1) = i + 1 /\ j < k
            BY ONLY <2>3, <1>1, <1>3, <1>5, i \in 1..Len(x), i < Len(x)
        <3> HIDE DEF j
        <3>2. o[i] = n /\ q[i] = j /\ o[i + 1] = n /\ q[i + 1] = j + 1
            <4>1. o[l + j] = n /\ o[l + (j + 1)] = n
                BY <3>1, <1>6, Zenon
            <4>2. q[l + j] = j /\ q[l + (j + 1)] = j + 1
                BY <3>1, <1>7, Zenon
            <4> QED
                BY <4>1, <4>2, <3>1
        <3> QED
            BY <3>1, <3>2, Zenon DEF Follows, e, k
    <2> QED
        BY <2>1, <2>2, <2>3, <1>1, <1>5
<1>10. o[Len(x)] = n /\ q[Len(x)] = k
    <2>1. k \in 1..k
        BY ONLY <1>3
    <2> QED
        BY <2>1, <1>5, <1>6, <1>7, Zenon
<1>11. WireHolds(x, o, q, sent, n)
    BY <1>2, <1>5, <1>6, <1>7, <1>8, <1>9, <1>10, Zenon DEF WireHolds, e, k
<1>12. FirstOf(o, n) = FirstOf(ow, m)
    <2>1. Len(o) > 0
        BY ONLY <1>1, <1>3, <1>6
    <2>2. CASE l > 0
        <3>1. 1 \in 1..l
            BY ONLY <2>2, <1>1
        <3>2. o[1] = ow[1]
            BY <3>1, <1>6, Zenon
        <3> QED
            BY <2>1, <2>2, <3>2, <1>1, Zenon DEF FirstOf
    <2>3. CASE ~ (l > 0)
        <3>1. l + 1 = 1 /\ 1 \in 1..k
            BY ONLY <2>3, <1>1, <1>3
        <3>2. o[l + 1] = n
            BY <3>1, <1>6, Zenon
        <3>3. o[1] = n
            BY <3>1, <3>2
        <3> QED
            BY <2>1, <2>3, <3>3, <1>1, <1>2, Zenon DEF FirstOf
    <2> QED
        BY <2>2, <2>3
<1> QED
    BY <1>11, <1>12, Zenon DEF n, e, g, h, x, o, q, k

\* A request that is sent changes nothing of the answers to earlier ones.
LEMMA WireSend ==
    ASSUME NEW wr, NEW ow, NEW ps, NEW sent, NEW m, WireHolds(wr, ow, ps, sent, m),
           NEW new, Answered(new, m), \A n \in 1..m : new[n] = sent[n]
    PROVE  WireHolds(wr, ow, ps, new, m)
<1>1. /\ Answered(sent, m) /\ m \in Nat /\ Len(sent) \in Nat /\ m <= Len(sent)
      /\ wr \in Seq(Byte) /\ ow \in Seq(Nat) /\ ps \in Seq(Nat)
      /\ Len(wr) \in Nat /\ Len(ow) = Len(wr) /\ Len(ps) = Len(wr)
      /\ \A i \in 1..Len(wr) : IsByteOf(wr[i], sent, m, ow[i], ps[i])
      /\ \A i \in 1..Len(wr) : i < Len(wr) => Follows(sent, ow[i], ps[i], ow[i + 1], ps[i + 1])
      /\ Len(wr) > 0 => ow[Len(wr)] = m /\ ps[Len(wr)] = Len(EncodedTo(sent, m))
    BY WireFacts
<1>2. \A n \in 1..m : EncodedTo(new, n) = EncodedTo(sent, n)
    BY Zenon DEF EncodedTo
<1>3. ASSUME NEW i \in 1..Len(wr)
      PROVE  ow[i] \in 1..m /\ IsByteOf(wr[i], new, m, ow[i], ps[i])
    <2>1. IsByteOf(wr[i], sent, m, ow[i], ps[i])
        BY <1>1, Zenon
    <2>2. ow[i] \in 1..m
        BY <2>1, Zenon DEF IsByteOf
    <2>3. EncodedTo(new, ow[i]) = EncodedTo(sent, ow[i])
        BY <2>2, <1>2, Zenon
    <2> QED
        BY <2>1, <2>2, <2>3, Zenon DEF IsByteOf
<1>4. ASSUME NEW i \in 1..Len(wr), i < Len(wr)
      PROVE  Follows(new, ow[i], ps[i], ow[i + 1], ps[i + 1])
    <2>1. Follows(sent, ow[i], ps[i], ow[i + 1], ps[i + 1])
        BY <1>1, <1>4, Zenon
    <2>2. EncodedTo(new, ow[i]) = EncodedTo(sent, ow[i])
        BY <1>2, <1>3, Zenon
    <2> QED
        BY <2>1, <2>2, Zenon DEF Follows
<1>5. ASSUME Len(wr) > 0
      PROVE  ow[Len(wr)] = m /\ ps[Len(wr)] = Len(EncodedTo(new, m))
    <2>1. Len(wr) \in 1..Len(wr)
        BY ONLY <1>1, <1>5
    <2>2. ow[Len(wr)] = m /\ ps[Len(wr)] = Len(EncodedTo(sent, m))
        BY <1>1, <1>5, Zenon
    <2>3. m \in 1..m
        BY <2>1, <2>2, <1>3
    <2>4. EncodedTo(new, m) = EncodedTo(sent, m)
        BY <2>3, <1>2, Zenon
    <2> QED
        BY <2>2, <2>4, Zenon
<1> QED
    BY <1>1, <1>3, <1>4, <1>5, Zenon DEF WireHolds

\* Answers come in the order of their requests.
LEMMA OwnersGrow ==
    ASSUME NEW wr, NEW ow, NEW ps, NEW sent, NEW m, WireHolds(wr, ow, ps, sent, m), NEW j \in 1..Len(wr)
    PROVE  ow[j] \in Nat /\ ow[1] <= ow[j] /\ ow[j] <= m
<1>1. /\ m \in Nat /\ ow \in Seq(Nat) /\ Len(wr) \in Nat /\ Len(ow) = Len(wr)
      /\ \A i \in 1..Len(wr) : IsByteOf(wr[i], sent, m, ow[i], ps[i])
      /\ \A i \in 1..Len(wr) : i < Len(wr) => Follows(sent, ow[i], ps[i], ow[i + 1], ps[i + 1])
    BY WireFacts
<1> DEFINE l == Len(wr) - 1
           G == {i \in 0..l : ow[1] <= ow[i + 1]}
<1>2. l \in Nat /\ (\A i \in 0..l : i + 1 \in 1..Len(wr)) /\ j - 1 \in 0..l /\ (j - 1) + 1 = j /\ 0 + 1 = 1
    BY ONLY <1>1, j \in 1..Len(wr)
<1>3. \A i \in 1..Len(wr) : ow[i] \in Nat /\ ow[i] <= m
    <2> SUFFICES ASSUME NEW i \in 1..Len(wr)
                 PROVE  ow[i] \in Nat /\ ow[i] <= m
        OBVIOUS
    <2>1. ow[i] \in 1..m
        BY <1>1, Zenon DEF IsByteOf
    <2> QED
        BY ONLY <2>1, <1>1
<1> HIDE DEF l
<1>4. 0 \in G
    <2>1. 0 \in 0..l
        BY ONLY <1>2
    <2>2. 0 + 1 \in 1..Len(wr)
        BY <2>1, <1>2, Zenon
    <2>3. ow[1] <= ow[0 + 1]
        BY <2>2, <1>3
    <2> QED
        BY <2>1, <2>3
<1>5. ASSUME NEW i \in 1..l, i - 1 \in G
      PROVE  i \in G
    <2>1. i \in 0..l /\ i - 1 \in 0..l /\ (i - 1) + 1 = i /\ i < Len(wr) /\ i \in 1..Len(wr) /\ 1 \in 1..Len(wr)
          /\ i + 1 \in 1..Len(wr)
        BY ONLY <1>1, <1>2, i \in 1..l DEF l
    <2>2. ow[1] <= ow[i]
        BY <1>5, <2>1
    <2>3. Follows(sent, ow[i], ps[i], ow[i + 1], ps[i + 1])
        BY <2>1, <1>1, Zenon
    <2>4. ow[i + 1] = ow[i] \/ ow[i + 1] = ow[i] + 1
        BY <2>3 DEF Follows
    <2>5. ow[1] \in Nat /\ ow[i] \in Nat /\ ow[i + 1] \in Nat
        BY <2>1, <1>3
    <2> DEFINE a == ow[1]
               b == ow[i]
               c == ow[i + 1]
    <2>6. a \in Nat /\ b \in Nat /\ c \in Nat /\ a <= b /\ (c = b \/ c = b + 1)
        BY <2>2, <2>4, <2>5, Zenon
    <2> HIDE DEF a, b, c
    <2>7. a <= c
        BY ONLY <2>6
    <2> QED
        BY <2>1, <2>7, Zenon DEF a, c
<1> HIDE DEF G
<1>6. 0..l \subseteq G
    BY <1>2, <1>4, <1>5, InductionUpTo
<1>7. ow[1] <= ow[(j - 1) + 1]
    BY <1>2, <1>6 DEF G
<1>8. ow[1] <= ow[j]
    BY <1>2, <1>7, Zenon
<1> QED
    BY <1>3, <1>8

\* A read takes the first u bytes; what can still come is no older than before,
\* and newer than an answer that the bytes end with.
LEMMA WireConsume ==
    ASSUME NEW wr, NEW ow, NEW ps, NEW sent, NEW m, WireHolds(wr, ow, ps, sent, m), NEW u \in 0..Len(wr)
    PROVE  LET o == SubSeq(ow, u + 1, Len(ow))
           IN  /\ WireHolds(SubSeq(wr, u + 1, Len(wr)), o, SubSeq(ps, u + 1, Len(ps)), sent, m)
               /\ FirstOf(ow, m) \in Nat /\ FirstOf(o, m) \in Nat
               /\ FirstOf(ow, m) <= FirstOf(o, m)
               /\ (u > 0 /\ ps[u] = Len(EncodedTo(sent, ow[u]))) =>
                      FirstOf(ow, m) <= ow[u] /\ FirstOf(o, m) = ow[u] + 1
<1> DEFINE x == SubSeq(wr, u + 1, Len(wr))
           o == SubSeq(ow, u + 1, Len(ow))
           q == SubSeq(ps, u + 1, Len(ps))
           l == Len(wr)
<1>1. /\ Answered(sent, m) /\ m \in Nat
      /\ wr \in Seq(Byte) /\ ow \in Seq(Nat) /\ ps \in Seq(Nat)
      /\ l \in Nat /\ Len(ow) = l /\ Len(ps) = l
      /\ \A i \in 1..l : IsByteOf(wr[i], sent, m, ow[i], ps[i])
      /\ \A i \in 1..l : i < l => Follows(sent, ow[i], ps[i], ow[i + 1], ps[i + 1])
      /\ l > 0 => ow[l] = m /\ ps[l] = Len(EncodedTo(sent, m))
    BY WireFacts
<1>2. u \in Nat /\ u <= l /\ u \in 0..Len(ow) /\ u \in 0..Len(ps)
    BY <1>1
<1>3. x \in Seq(Byte) /\ Len(x) = l - u /\ \A i \in 1..Len(x) : x[i] = wr[u + i]
    BY <1>1, Rest
<1>4. o \in Seq(Nat) /\ Len(o) = Len(ow) - u /\ \A i \in 1..Len(o) : o[i] = ow[u + i]
    BY <1>1, <1>2, Rest
<1>5. q \in Seq(Nat) /\ Len(q) = Len(ps) - u /\ \A i \in 1..Len(q) : q[i] = ps[u + i]
    BY <1>1, <1>2, Rest
<1> HIDE DEF x, o, q, l
<1>6. Len(o) = Len(x) /\ Len(q) = Len(x) /\ Len(x) \in Nat /\ (Len(x) > 0 <=> u < l)
    BY ONLY <1>1, <1>2, <1>3, <1>4, <1>5
<1>7. ASSUME NEW i \in 1..Len(x)
      PROVE  u + i \in 1..l /\ x[i] = wr[u + i] /\ o[i] = ow[u + i] /\ q[i] = ps[u + i]
    <2>1. u + i \in 1..l
        BY ONLY <1>1, <1>2, <1>3, i \in 1..Len(x)
    <2>2. i \in 1..Len(o) /\ i \in 1..Len(q)
        BY <1>6, Zenon
    <2> QED
        BY <2>1, <2>2, <1>3, <1>4, <1>5, Zenon
<1>8. ASSUME NEW i \in 1..Len(x)
      PROVE  IsByteOf(x[i], sent, m, o[i], q[i])
    <2>1. IsByteOf(wr[u + i], sent, m, ow[u + i], ps[u + i])
        BY <1>1, <1>7, Zenon
    <2> QED
        BY <2>1, <1>7, Zenon
<1>9. ASSUME NEW i \in 1..Len(x), i < Len(x)
      PROVE  Follows(sent, o[i], q[i], o[i + 1], q[i + 1])
    <2>1. u + i < l /\ i + 1 \in 1..Len(x) /\ u + (i + 1) = (u + i) + 1
        BY ONLY <1>1, <1>2, <1>3, <1>9
    <2>2. Follows(sent, ow[u + i], ps[u + i], ow[(u + i) + 1], ps[(u + i) + 1])
        BY <2>1, <1>1, <1>7, Zenon
    <2>3. o[i] = ow[u + i] /\ q[i] = ps[u + i]
        BY <1>7, Zenon
    <2>4. o[i + 1] = ow[u + (i + 1)] /\ q[i + 1] = ps[u + (i + 1)]
        BY <2>1, <1>7, Zenon
    <2> QED
        BY <2>1, <2>2, <2>3, <2>4, Zenon
<1>10. ASSUME Len(x) > 0
       PROVE  o[Len(x)] = m /\ q[Len(x)] = Len(EncodedTo(sent, m))
    <2>1. Len(x) \in 1..Len(x) /\ u + Len(x) = l /\ l > 0
        BY ONLY <1>1, <1>2, <1>3, <1>10
    <2>2. o[Len(x)] = ow[u + Len(x)] /\ q[Len(x)] = ps[u + Len(x)]
        BY <2>1, <1>7, Zenon
    <2> QED
        BY <2>1, <2>2, <1>1
<1>11. WireHolds(x, o, q, sent, m)
    BY <1>1, <1>3, <1>4, <1>5, <1>6, <1>8, <1>9, <1>10, Zenon DEF WireHolds
<1>12. \A i \in 1..l : ow[i] \in Nat /\ ow[1] <= ow[i] /\ ow[i] <= m
    BY OwnersGrow DEF l
<1>13. CASE u < l
    <2>1. Len(x) > 0 /\ l > 0 /\ 1 \in 1..Len(x) /\ 1 \in 1..l /\ u + 1 \in 1..l
        BY ONLY <1>13, <1>1, <1>2, <1>3
    <2>2. FirstOf(o, m) = ow[u + 1] /\ FirstOf(ow, m) = ow[1]
        <3>1. o[1] = ow[u + 1]
            BY <2>1, <1>7, Zenon
        <3>2. Len(o) > 0 /\ Len(ow) > 0
            BY <2>1, <1>1, <1>6, Zenon
        <3> QED
            BY <3>1, <3>2, Zenon DEF FirstOf
    <2>3. ASSUME u > 0, ps[u] = Len(EncodedTo(sent, ow[u]))
          PROVE  FirstOf(ow, m) <= ow[u] /\ FirstOf(o, m) = ow[u] + 1
        <3>1. u \in 1..l
            BY ONLY <2>3, <1>2, <1>1
        <3>2. Follows(sent, ow[u], ps[u], ow[u + 1], ps[u + 1])
            BY <3>1, <1>1, <1>13, Zenon
        <3>3. ps[u] \in Nat
            BY <3>1, <1>1
        <3>4. ~ (ps[u] < Len(EncodedTo(sent, ow[u])))
            <4> DEFINE z == ps[u]
            <4>1. z \in Nat /\ z = Len(EncodedTo(sent, ow[u]))
                BY <2>3, <3>3
            <4> HIDE DEF z
            <4>2. ~ (z < Len(EncodedTo(sent, ow[u])))
                BY ONLY <4>1
            <4> QED
                BY <4>2 DEF z
        <3>5. ow[u + 1] = ow[u] + 1
            BY <3>2, <3>4, Zenon DEF Follows
        <3> QED
            BY <3>1, <3>5, <2>2, <1>12, Zenon
    <2> QED
        BY <2>1, <2>2, <2>3, <1>11, <1>12, Zenon DEF x, o, q, l
<1>14. CASE ~ (u < l)
    <2>1. u = l /\ ~ (Len(x) > 0)
        BY ONLY <1>14, <1>1, <1>2, <1>3
    <2>2. FirstOf(o, m) = m + 1
        BY <2>1, <1>6, Zenon DEF FirstOf
    <2>3. FirstOf(ow, m) \in Nat /\ FirstOf(ow, m) <= m + 1 /\ (l > 0 => FirstOf(ow, m) <= m)
        <3>1. CASE l > 0
            <4>1. 1 \in 1..l
                BY ONLY <3>1, <1>1
            <4>2. FirstOf(ow, m) = ow[1]
                BY <3>1, <1>1, Zenon DEF FirstOf
            <4>3. ow[1] \in Nat /\ ow[1] <= m
                BY <4>1, <1>12, Zenon
            <4> DEFINE z == FirstOf(ow, m)
            <4>4. z \in Nat /\ z <= m
                BY <4>2, <4>3, Zenon
            <4> HIDE DEF z
            <4>5. z <= m + 1
                BY ONLY <4>4, <1>1
            <4> QED
                BY <4>4, <4>5, Zenon DEF z
        <3>2. CASE ~ (l > 0)
            <4>1. FirstOf(ow, m) = m + 1
                BY <3>2, <1>1, Zenon DEF FirstOf
            <4>2. m + 1 \in Nat /\ m + 1 <= m + 1
                BY ONLY <1>1
            <4> QED
                BY <3>2, <4>1, <4>2, Zenon
        <3> QED
            BY <3>1, <3>2, Zenon
    <2>4. m + 1 \in Nat
        BY ONLY <1>1
    <2>5. u > 0 => ow[u] = m
        BY <2>1, <1>1, Zenon
    <2> QED
        BY <2>1, <2>2, <2>3, <2>4, <2>5, <1>11, Zenon DEF x, o, q, l
<1> QED
    BY <1>13, <1>14, Zenon

----------------------------------------------------------------------------
(* How far an answer is behind.                                             *)

\* The requests of command c from first to last,
RequestsOf(sent, first, last, c) == {n \in first..last : sent[n] = c}

\* and how many.
Behind(sent, first, last, c) == Cardinality(RequestsOf(sent, first, last, c))

\* They are finitely many,
LEMMA RequestsFinite ==
    ASSUME NEW sent, NEW first \in Nat, NEW last \in Nat, NEW c
    PROVE  IsFiniteSet(RequestsOf(sent, first, last, c)) /\ Behind(sent, first, last, c) \in Nat
<1> DEFINE S == RequestsOf(sent, first, last, c)
<1>1. IsFiniteSet(first..last)
    BY FS_Interval
<1>2. S \in SUBSET (first..last)
    BY DEF RequestsOf
<1> HIDE DEF S
<1>3. IsFiniteSet(S)
    BY <1>1, <1>2, FS_Subset
<1>4. Cardinality(S) \in Nat
    BY <1>3, FS_CardinalityType
<1> QED
    BY <1>3, <1>4, Zenon DEF Behind, S

\* fewer from a later one on,
LEMMA BehindLess ==
    ASSUME NEW sent, NEW first \in Nat, NEW last \in Nat, NEW c, NEW later \in Nat, first <= later
    PROVE  Behind(sent, later, last, c) <= Behind(sent, first, last, c)
<1> DEFINE S == RequestsOf(sent, first, last, c)
           T == RequestsOf(sent, later, last, c)
<1>1. T \in SUBSET S
    BY DEF RequestsOf
<1>2. IsFiniteSet(S)
    BY RequestsFinite
<1> HIDE DEF S, T
<1>3. Cardinality(T) <= Cardinality(S)
    BY <1>1, <1>2, FS_Subset
<1> QED
    BY <1>3, Zenon DEF Behind, S, T

\* one less behind one of them,
LEMMA BehindWithout ==
    ASSUME NEW sent, NEW first \in Nat, NEW last \in Nat, NEW n \in first..last
    PROVE  Behind(sent, n + 1, last, sent[n]) + 1 <= Behind(sent, first, last, sent[n])
<1> DEFINE c == sent[n]
           S == RequestsOf(sent, first, last, c)
           T == RequestsOf(sent, n + 1, last, c)
           R == S \ {n}
<1>1. T \in SUBSET R /\ n \in S
    BY DEF RequestsOf
<1>2. IsFiniteSet(S)
    BY RequestsFinite
<1> HIDE DEF S, T
<1>3. IsFiniteSet(R) /\ Cardinality(R) = Cardinality(S) - 1
    BY <1>1, <1>2, FS_RemoveElement
<1> HIDE DEF R
<1>4. Cardinality(T) <= Cardinality(R) /\ IsFiniteSet(T)
    BY <1>1, <1>3, FS_Subset
<1>5. Cardinality(T) \in Nat /\ Cardinality(S) \in Nat
    BY <1>2, <1>4, FS_CardinalityType
<1>6. Cardinality(T) + 1 <= Cardinality(S)
    BY ONLY <1>3, <1>4, <1>5
<1> QED
    BY <1>6, Zenon DEF Behind, S, T, c

\* the same when later requests are sent,
LEMMA BehindSame ==
    ASSUME NEW sent, NEW new, NEW first, NEW last, NEW c, \A n \in first..last : new[n] = sent[n]
    PROVE  Behind(new, first, last, c) = Behind(sent, first, last, c)
<1>1. RequestsOf(new, first, last, c) = RequestsOf(sent, first, last, c)
    BY DEF RequestsOf
<1> QED
    BY <1>1, Zenon DEF Behind

\* and one more with each request of the command.
LEMMA BehindSend ==
    ASSUME NEW sent, NEW new, NEW first \in Nat, NEW last \in Nat, NEW c,
           \A n \in first..last : new[n] = sent[n]
    PROVE  Behind(new, first, last + 1, c)
               <= Behind(sent, first, last, c) + IF new[last + 1] = c THEN 1 ELSE 0
<1> DEFINE S == RequestsOf(sent, first, last, c)
           T == RequestsOf(new, first, last + 1, c)
           R == S \cup {last + 1}
<1>1. IsFiniteSet(S) /\ Cardinality(S) \in Nat
    BY RequestsFinite DEF Behind
<1>2. first..(last + 1) \subseteq (first..last) \cup {last + 1}
    OBVIOUS
<1>3. CASE new[last + 1] = c
    <2>1. T \in SUBSET R
        BY <1>2 DEF RequestsOf
    <2>2. last + 1 \notin S
        BY DEF RequestsOf
    <2> HIDE DEF S, T
    <2>3. IsFiniteSet(R) /\ Cardinality(R) = Cardinality(S) + 1
        BY <1>1, <2>2, FS_AddElement
    <2> HIDE DEF R
    <2>4. Cardinality(T) <= Cardinality(S) + 1
        BY <2>1, <2>3, FS_Subset
    <2> QED
        BY <2>4, <1>3, Zenon DEF Behind, S, T
<1>4. CASE new[last + 1] # c
    <2>1. T \in SUBSET S
        BY <1>2, <1>4 DEF RequestsOf
    <2> HIDE DEF S, T
    <2>2. Cardinality(T) <= Cardinality(S)
        BY <1>1, <2>1, FS_Subset
    <2>3. Cardinality(S) = Cardinality(S) + 0
        BY <1>1
    <2> QED
        BY <2>2, <2>3, <1>4, Zenon DEF Behind, S, T
<1> QED
    BY <1>3, <1>4

----------------------------------------------------------------------------

\* The requests of a command that something can still come for are no more than
\* its reads that missed their answers and the one under way.
UnderWay(w, sent, c) == IF w = "reading" /\ sent[Len(sent)] = c THEN 1 ELSE 0
LagHolds(w, sent, ms, first) ==
    \A c \in Reads : Behind(sent, first, Len(sent), c) <= ms[c] + UnderWay(w, sent, c)

\* The last answer.
AnswerHolds(an, sent, ms) ==
    an # Link!NoAnswer =>
        /\ an.command \in Reads /\ an.of \in Nat /\ an.of >= 1 /\ an.at \in Nat /\ an.of <= an.at
        /\ an.at <= Len(sent) /\ sent[an.of] = an.command /\ an.value = <<Value[an.of]>>
        /\ Behind(sent, an.of + 1, an.at, an.command) <= ms[an.command]

\* Missed counts only grow, and a request is only added.
LEMMA AnswerStays ==
    ASSUME NEW an, NEW sent, NEW ms, AnswerHolds(an, sent, ms), Len(sent) \in Nat,
           NEW new, Len(new) \in Nat, Len(sent) <= Len(new), \A n \in 1..Len(sent) : new[n] = sent[n],
           ms \in [Reads -> Nat], NEW more \in [Reads -> Nat], \A c \in Reads : ms[c] <= more[c]
    PROVE  AnswerHolds(an, new, more)
<1> SUFFICES ASSUME an # Link!NoAnswer
             PROVE  /\ an.command \in Reads /\ an.of \in Nat /\ an.of >= 1 /\ an.at \in Nat /\ an.of <= an.at
                    /\ an.at <= Len(new) /\ new[an.of] = an.command /\ an.value = <<Value[an.of]>>
                    /\ Behind(new, an.of + 1, an.at, an.command) <= more[an.command]
    BY Zenon DEF AnswerHolds
<1> DEFINE c == an.command
           o == an.of
           a == an.at
<1>1. /\ c \in Reads /\ o \in Nat /\ o >= 1 /\ a \in Nat /\ o <= a
      /\ a <= Len(sent) /\ sent[o] = c /\ an.value = <<Value[o]>>
      /\ Behind(sent, o + 1, a, c) <= ms[c]
    BY Zenon DEF AnswerHolds
<1> HIDE DEF c, o, a
<1>2. o \in 1..Len(sent) /\ a <= Len(new) /\ o + 1 \in Nat /\ \A n \in (o + 1)..a : n \in 1..Len(sent)
    BY ONLY <1>1, Len(sent) \in Nat, Len(new) \in Nat, Len(sent) <= Len(new)
<1>3. new[o] = c
    BY <1>1, <1>2, Zenon
<1>4. Behind(new, o + 1, a, c) = Behind(sent, o + 1, a, c)
    BY <1>2, BehindSame
<1>5. Behind(sent, o + 1, a, c) \in Nat
    BY <1>1, <1>2, RequestsFinite
<1>6. ms[c] \in Nat /\ more[c] \in Nat /\ ms[c] <= more[c]
    BY <1>1
<1> DEFINE k == Behind(sent, o + 1, a, c)
           x == ms[c]
           y == more[c]
<1>7. k \in Nat /\ x \in Nat /\ y \in Nat /\ k <= x /\ x <= y
    BY <1>1, <1>5, <1>6, Zenon
<1> HIDE DEF k, x, y
<1>8. k <= y
    BY ONLY <1>7
<1> QED
    BY <1>1, <1>2, <1>3, <1>4, <1>8, Zenon DEF c, o, a, k, y

----------------------------------------------------------------------------
(* The invariant of the link without noise.                                 *)

\* Without noise: the wire holds the answers in order and whole but for the bytes
\* that were read, the worker is not stopped, and no answer lags further than the
\* reads that missed theirs.
LinkHolds(w, sent, f, wr, ow, ps, ms, an) ==
    /\ WireHolds(wr, ow, ps, sent, Len(sent) - Len(f))
    /\ w # "stopped"
    /\ LagHolds(w, sent, ms, FirstOf(ow, Len(sent) - Len(f)))
    /\ AnswerHolds(an, sent, ms)

\* The numbers of requests and open requests.
LEMMA HoldsFacts ==
    ASSUME NEW w, NEW sent, NEW f, NEW wr, NEW ow, NEW dm, NEW ms, NEW an,
           LinkTypes(w, sent, f, wr, ow, dm, ms, an)
    PROVE  /\ sent \in Seq(Commands) /\ Len(sent) \in Nat /\ Len(sent) <= MaxRequests
           /\ f \in Seq(Nat) /\ Len(f) \in Nat /\ Len(f) <= Len(sent) /\ Numbered(f, Len(sent))
           /\ Len(sent) - Len(f) \in Nat /\ Len(sent) - Len(f) <= Len(sent)
           /\ ms \in [Reads -> Nat]
           /\ w = "reading" => Len(sent) \in 1..Len(sent)
<1>1. /\ sent \in Seq(Commands) /\ Len(sent) <= MaxRequests /\ (w = "reading" => Len(sent) > 0)
      /\ f \in Seq(Nat) /\ Numbered(f, Len(sent)) /\ MissedUpTo(ms, w, Len(sent))
    BY Zenon DEF LinkTypes
<1>2. Len(f) <= Len(sent) /\ ms \in [Reads -> Nat]
    BY <1>1, Zenon DEF Numbered, MissedUpTo
<1>3. Len(sent) \in Nat /\ Len(f) \in Nat
    <2>1. sent \in Seq(Commands) /\ f \in Seq(Nat)
        BY <1>1, Zenon
    <2> QED
        BY ONLY <2>1
<1>4. Len(sent) - Len(f) \in Nat /\ Len(sent) - Len(f) <= Len(sent) /\ (Len(sent) > 0 => Len(sent) \in 1..Len(sent))
    BY ONLY <1>2, <1>3
<1> QED
    BY <1>1, <1>2, <1>3, <1>4, Zenon

\* Nothing is open at the start.
LEMMA HoldsStart ==
    ASSUME NEW ms \in [Reads -> Nat]
    PROVE  LinkHolds("idle", <<>>, <<>>, <<>>, <<>>, <<>>, ms, Link!NoAnswer)
<1>1. <<>> \in Seq(Commands) /\ <<>> \in Seq(Byte) /\ <<>> \in Seq(Nat) /\ Len(<<>>) = 0 /\ 0 <= MaxRequests
    BY LinkBounds
<1>2. Answered(<<>>, 0)
    BY <1>1 DEF Answered
<1>3. WireHolds(<<>>, <<>>, <<>>, <<>>, 0)
    BY <1>1, <1>2 DEF WireHolds
<1>4. FirstOf(<<>>, 0) = 1
    BY <1>1 DEF FirstOf
<1>5. LagHolds("idle", <<>>, ms, 1)
    <2> SUFFICES ASSUME NEW c \in Reads
                 PROVE  Behind(<<>>, 1, 0, c) <= ms[c] + UnderWay("idle", <<>>, c)
        BY <1>1, Zenon DEF LagHolds
    <2>1. RequestsOf(<<>>, 1, 0, c) = {}
        BY DEF RequestsOf
    <2>2. Behind(<<>>, 1, 0, c) = 0
        BY <2>1, FS_EmptySet DEF Behind
    <2>3. UnderWay("idle", <<>>, c) = 0
        BY DEF UnderWay
    <2> QED
        BY <2>2, <2>3
<1>6. AnswerHolds(Link!NoAnswer, <<>>, ms)
    BY Zenon DEF AnswerHolds
<1>7. Len(<<>>) - Len(<<>>) = 0
    BY <1>1
<1> QED
    BY <1>3, <1>4, <1>5, <1>6, <1>7 DEF LinkHolds

\* The places of an answer.
LEMMA AnswerDomain ==
    ASSUME NEW sent, NEW m, Answered(sent, m), NEW n \in 1..m
    PROVE  DOMAIN EncodedTo(sent, n) = 1..Len(EncodedTo(sent, n))
<1>1. EncodedTo(sent, n) \in Seq(Byte)
    BY AnswerIs
<1> QED
    BY <1>1

\* An answer goes on the wire.
LEMMA HoldsAnswer ==
    ASSUME NEW w, NEW sent, NEW f, NEW wr, NEW ow, NEW ps, NEW dm, NEW ms, NEW an, f # <<>>,
           LinkTypes(w, sent, f, wr, ow, dm, ms, an), LinkHolds(w, sent, f, wr, ow, ps, ms, an)
    PROVE  LET n == Head(f)
               e == Link!AnswerOf(sent[n], n)
           IN  \E q : LinkHolds(w, sent, Tail(f), wr \o e, ow \o [i \in DOMAIN e |-> n], q, ms, an)
<1> DEFINE m == Len(sent) - Len(f)
           n == Head(f)
           e == EncodedTo(sent, n)
<1>1. /\ sent \in Seq(Commands) /\ Len(sent) \in Nat /\ Len(sent) <= MaxRequests
      /\ f \in Seq(Nat) /\ Len(f) \in Nat /\ Len(f) <= Len(sent) /\ Numbered(f, Len(sent))
      /\ m \in Nat /\ m <= Len(sent) /\ ms \in [Reads -> Nat]
    BY HoldsFacts
<1>2. WireHolds(wr, ow, ps, sent, m) /\ w # "stopped" /\ LagHolds(w, sent, ms, FirstOf(ow, m)) /\ AnswerHolds(an, sent, ms)
    BY Zenon DEF LinkHolds
<1>3. n = m + 1 /\ n \in 1..Len(sent) /\ Len(Tail(f)) = Len(f) - 1
    BY <1>1, HeadOfFc
<1>4. Len(sent) - Len(Tail(f)) = n /\ m + 1 <= Len(sent) /\ n \in Nat /\ n <= Len(sent) /\ n \in 1..n
    <2> DEFINE left == Len(Tail(f))
    <2> HIDE DEF n, left
    <2>1. n = (Len(sent) - Len(f)) + 1 /\ n \in 1..Len(sent) /\ left = Len(f) - 1
        BY <1>3 DEF left
    <2>2. Len(sent) - left = n /\ m + 1 <= Len(sent) /\ n \in Nat /\ n <= Len(sent) /\ n \in 1..n
        BY ONLY <1>1, <2>1 DEF m
    <2> QED
        BY <2>2, Zenon DEF left
<1> HIDE DEF m, n
<1>5. Answered(sent, n)
    BY <1>1, <1>4, Zenon DEF Answered
<1>6. DOMAIN e = 1..Len(e)
    BY <1>4, <1>5, AnswerDomain
<1> DEFINE o == ow \o [i \in 1..Len(e) |-> n]
           q == ps \o [i \in 1..Len(e) |-> i]
<1>7. WireHolds(wr \o e, o, q, sent, n) /\ FirstOf(o, n) = FirstOf(ow, m)
    BY <1>2, <1>3, <1>4, WireAnswer
<1> HIDE DEF o, q
<1>8. LinkHolds(w, sent, Tail(f), wr \o e, o, q, ms, an)
    BY <1>2, <1>4, <1>7, Zenon DEF LinkHolds
<1>9. o = ow \o [i \in DOMAIN e |-> n]
    BY <1>6, Zenon DEF o
<1>10. e = Link!AnswerOf(sent[n], n)
    BY Zenon DEF EncodedTo
<1> HIDE DEF e
<1> QED
    BY <1>8, <1>9, <1>10, Zenon DEF n

\* A request is sent.
LEMMA HoldsSend ==
    ASSUME NEW sent, NEW f, NEW wr, NEW ow, NEW ps, NEW dm, NEW ms, NEW an, NEW c \in Commands,
           LinkTypes("idle", sent, f, wr, ow, dm, ms, an), LinkHolds("idle", sent, f, wr, ow, ps, ms, an),
           Len(sent) < MaxRequests
    PROVE  LinkHolds("reading", Append(sent, c), Append(f, Len(sent) + 1), wr, ow, ps, ms, an)
<1> DEFINE new == Append(sent, c)
           g == Append(f, Len(sent) + 1)
           m == Len(sent) - Len(f)
           first == FirstOf(ow, m)
           l == Len(sent)
<1>1. /\ sent \in Seq(Commands) /\ l \in Nat /\ f \in Seq(Nat) /\ Len(f) \in Nat /\ Len(f) <= l
      /\ m \in Nat /\ m <= l /\ ms \in [Reads -> Nat]
    BY HoldsFacts
<1>2. WireHolds(wr, ow, ps, sent, m) /\ LagHolds("idle", sent, ms, first) /\ AnswerHolds(an, sent, ms)
    BY Zenon DEF LinkHolds
<1>3. new \in Seq(Commands) /\ Len(new) = l + 1 /\ new[l + 1] = c /\ \A i \in 1..l : new[i] = sent[i]
    <2>1. sent \in Seq(Commands) /\ c \in Commands
        BY <1>1, Zenon
    <2> QED
        BY ONLY <2>1
<1>4. Len(g) = Len(f) + 1
    <2>1. f \in Seq(Nat) /\ l + 1 \in Nat
        BY ONLY <1>1
    <2> QED
        BY ONLY <2>1
<1> HIDE DEF new, g, first
<1>5. Len(new) - Len(g) = m /\ Len(new) <= MaxRequests /\ m <= Len(new) /\ (\A i \in 1..m : i \in 1..l)
      /\ Len(new) \in Nat /\ l <= Len(new)
    BY ONLY <1>1, <1>3, <1>4, LinkBounds, Len(sent) < MaxRequests
<1> HIDE DEF m, l
<1>6. Answered(new, m)
    BY <1>1, <1>3, <1>5, Zenon DEF Answered
<1>7. WireHolds(wr, ow, ps, new, m)
    BY <1>2, <1>3, <1>5, <1>6, WireSend
<1>8. AnswerHolds(an, new, ms)
    <2>1. \A d \in Reads : ms[d] <= ms[d]
        BY <1>1
    <2> QED
        BY <2>1, <1>1, <1>2, <1>3, <1>5, AnswerStays DEF l
<1>9. first \in Nat /\ first >= 1
    <2>1. /\ ow \in Seq(Nat) /\ Len(wr) \in Nat /\ Len(ow) = Len(wr)
          /\ \A i \in 1..Len(wr) : IsByteOf(wr[i], sent, m, ow[i], ps[i])
        BY <1>2, WireFacts
    <2>2. CASE Len(ow) > 0
        <3>1. 1 \in 1..Len(wr)
            BY ONLY <2>1, <2>2
        <3>2. ow[1] \in 1..m
            BY <2>1, <3>1, Zenon DEF IsByteOf
        <3>3. first = ow[1]
            BY <2>2, Zenon DEF first, FirstOf
        <3> QED
            BY ONLY <3>2, <3>3, <1>1
    <2>3. CASE ~ (Len(ow) > 0)
        <3>1. first = m + 1
            BY <2>3, Zenon DEF first, FirstOf
        <3> QED
            BY ONLY <3>1, <1>1
    <2> QED
        BY <2>2, <2>3
<1>10. LagHolds("reading", new, ms, first)
    <2> SUFFICES ASSUME NEW d \in Reads
                 PROVE  Behind(new, first, l + 1, d) <= ms[d] + UnderWay("reading", new, d)
        BY <1>3, Zenon DEF LagHolds
    <2>1. Behind(sent, first, l, d) <= ms[d] + UnderWay("idle", sent, d) /\ UnderWay("idle", sent, d) = 0
        <3>1. Behind(sent, first, l, d) <= ms[d] + UnderWay("idle", sent, d)
            BY <1>2, Zenon DEF LagHolds, l
        <3>2. UnderWay("idle", sent, d) = 0
            BY DEF UnderWay
        <3> QED
            BY <3>1, <3>2
    <2>2. \A i \in first..l : i \in 1..l
        BY ONLY <1>1, <1>9
    <2>3. Behind(new, first, l + 1, d) <= Behind(sent, first, l, d) + IF new[l + 1] = d THEN 1 ELSE 0
        BY <2>2, <1>1, <1>3, <1>9, BehindSend
    <2>4. UnderWay("reading", new, d) = IF new[l + 1] = d THEN 1 ELSE 0
        BY <1>3, Zenon DEF UnderWay
    <2> DEFINE a == Behind(new, first, l + 1, d)
               b == Behind(sent, first, l, d)
               k == ms[d]
               x == UnderWay("reading", new, d)
    <2>5. a \in Nat /\ b \in Nat
        <3>1. l + 1 \in Nat
            BY ONLY <1>1
        <3> QED
            BY <3>1, <1>1, <1>9, RequestsFinite
    <2>6. k \in Nat /\ x \in Nat
        BY <1>1, <2>4
    <2>7. b <= k + 0 /\ a <= b + x
        BY <2>1, <2>3, <2>4, Zenon
    <2> HIDE DEF a, b, k, x
    <2>8. a <= k + x
        BY ONLY <2>5, <2>6, <2>7
    <2> QED
        BY <2>8 DEF a, b, k, x
<1>11. "reading" # "stopped"
    OBVIOUS
<1>12. LinkHolds("reading", new, g, wr, ow, ps, ms, an)
    BY <1>5, <1>7, <1>8, <1>10, <1>11, Zenon DEF LinkHolds, first
<1> QED
    BY <1>12, Zenon DEF new, g, l

\* A read takes u bytes and ends with no answer, or goes on; a read that missed
\* its answer is counted.
LEMMA HoldsRead ==
    ASSUME NEW sent, NEW f, NEW wr, NEW ow, NEW ps, NEW dm, NEW ms, NEW an,
           LinkTypes("reading", sent, f, wr, ow, dm, ms, an), LinkHolds("reading", sent, f, wr, ow, ps, ms, an),
           NEW u \in 0..Len(wr), NEW v, v # "stopped", NEW more \in [Reads -> Nat],
           \A c \in Reads : /\ ms[c] <= more[c]
                            /\ ms[c] + UnderWay("reading", sent, c) <= more[c] + UnderWay(v, sent, c)
    PROVE  \E q : LinkHolds(v, sent, f, SubSeq(wr, u + 1, Len(wr)), SubSeq(ow, u + 1, Len(ow)), q, more, an)
<1> DEFINE m == Len(sent) - Len(f)
           l == Len(sent)
           x == SubSeq(wr, u + 1, Len(wr))
           o == SubSeq(ow, u + 1, Len(ow))
           q == SubSeq(ps, u + 1, Len(ps))
           first == FirstOf(ow, m)
           later == FirstOf(o, m)
<1>1. sent \in Seq(Commands) /\ l \in Nat /\ ms \in [Reads -> Nat]
    BY HoldsFacts
<1>2. WireHolds(wr, ow, ps, sent, m) /\ LagHolds("reading", sent, ms, first) /\ AnswerHolds(an, sent, ms)
    BY Zenon DEF LinkHolds
<1> HIDE DEF m
<1>3. WireHolds(x, o, q, sent, m) /\ first \in Nat /\ later \in Nat /\ first <= later
    BY <1>2, WireConsume
<1> HIDE DEF x, o, q, first, later
<1>4. AnswerHolds(an, sent, more)
    <2>1. l <= l /\ \A n \in 1..l : sent[n] = sent[n]
        BY ONLY <1>1
    <2> QED
        BY <2>1, <1>1, <1>2, AnswerStays
<1>5. LagHolds(v, sent, more, later)
    <2> SUFFICES ASSUME NEW c \in Reads
                 PROVE  Behind(sent, later, l, c) <= more[c] + UnderWay(v, sent, c)
        BY Zenon DEF LagHolds
    <2> DEFINE a == Behind(sent, later, l, c)
               b == Behind(sent, first, l, c)
               y == UnderWay("reading", sent, c)
               z == UnderWay(v, sent, c)
               i == ms[c]
               j == more[c]
    <2>1. a \in Nat /\ b \in Nat
        BY <1>1, <1>3, RequestsFinite
    <2>2. y \in Nat /\ z \in Nat
        BY DEF UnderWay
    <2>3. i \in Nat /\ j \in Nat
        BY <1>1
    <2>4. a <= b
        BY <1>1, <1>3, BehindLess
    <2>5. b <= i + y /\ i + y <= j + z
        BY <1>2, Zenon DEF LagHolds
    <2> HIDE DEF a, b, y, z, i, j
    <2>6. a <= j + z
        BY ONLY <2>1, <2>2, <2>3, <2>4, <2>5
    <2> QED
        BY <2>6 DEF a, z, j
<1>6. LinkHolds(v, sent, f, x, o, q, more, an)
    BY <1>3, <1>4, <1>5, Zenon DEF LinkHolds, m, later
<1> QED
    BY <1>6, Zenon DEF x, o

\* A read takes the u bytes up to the end of an answer to its command.
LEMMA HoldsTake ==
    ASSUME NEW sent, NEW f, NEW wr, NEW ow, NEW ps, NEW dm, NEW ms, NEW an,
           LinkTypes("reading", sent, f, wr, ow, dm, ms, an), LinkHolds("reading", sent, f, wr, ow, ps, ms, an),
           NEW c \in Reads, sent[Len(sent)] = c, NEW u \in 1..Len(wr),
           ps[u] = Len(EncodedTo(sent, ow[u])), sent[ow[u]] = c
    PROVE  \E q : LinkHolds("idle", sent, f, SubSeq(wr, u + 1, Len(wr)), SubSeq(ow, u + 1, Len(ow)), q, ms,
                            [command |-> c, value |-> <<Value[ow[u]]>>, of |-> ow[u], at |-> Len(sent)])
<1> DEFINE m == Len(sent) - Len(f)
           l == Len(sent)
           n == ow[u]
           x == SubSeq(wr, u + 1, Len(wr))
           o == SubSeq(ow, u + 1, Len(ow))
           q == SubSeq(ps, u + 1, Len(ps))
           first == FirstOf(ow, m)
           later == FirstOf(o, m)
           new == [command |-> c, value |-> <<Value[n]>>, of |-> n, at |-> l]
<1>1. sent \in Seq(Commands) /\ l \in Nat /\ ms \in [Reads -> Nat] /\ m \in Nat /\ m <= l
    BY HoldsFacts
<1>2. WireHolds(wr, ow, ps, sent, m) /\ LagHolds("reading", sent, ms, first)
    BY Zenon DEF LinkHolds
<1> HIDE DEF m
<1>3. u \in 0..Len(wr) /\ u > 0
    BY ONLY u \in 1..Len(wr)
<1>4. /\ WireHolds(x, o, q, sent, m) /\ first \in Nat /\ later \in Nat
      /\ first <= n /\ later = n + 1
    <2>1. /\ WireHolds(x, o, q, sent, m) /\ first \in Nat /\ later \in Nat
          /\ (u > 0 /\ ps[u] = Len(EncodedTo(sent, ow[u]))) => first <= ow[u] /\ later = ow[u] + 1
        BY <1>2, <1>3, WireConsume
    <2> QED
        BY <2>1, <1>3, Zenon
<1>5. n \in 1..l
    <2>1. n \in 1..m
        <3>1. IsByteOf(wr[u], sent, m, ow[u], ps[u])
            BY <1>2, Zenon DEF WireHolds
        <3> QED
            BY <3>1, Zenon DEF IsByteOf
    <2> HIDE DEF n
    <2> QED
        BY ONLY <2>1, <1>1
<1> HIDE DEF x, o, q, first, later, n
<1>6. n \in first..l /\ n \in Nat /\ n >= 1 /\ n <= l /\ l <= l /\ n + 1 \in Nat
    BY ONLY <1>1, <1>4, <1>5
<1>7. sent[n] = c
    BY DEF n
<1>8. ASSUME NEW d \in Reads
      PROVE  Behind(sent, later, l, d) <= ms[d]
    <2> DEFINE a == Behind(sent, later, l, d)
               b == Behind(sent, first, l, d)
               i == ms[d]
               y == UnderWay("reading", sent, d)
    <2>1. a \in Nat /\ b \in Nat
        BY <1>1, <1>4, RequestsFinite
    <2>2. i \in Nat
        BY <1>1
    <2>3. b <= i + y
        BY <1>2, Zenon DEF LagHolds
    <2>4. CASE d = c
        <3>1. Behind(sent, n + 1, l, sent[n]) + 1 <= Behind(sent, first, l, sent[n])
            BY <1>1, <1>4, <1>6, BehindWithout
        <3>2. a + 1 <= b
            BY <3>1, <2>4, <1>4, <1>7
        <3>3. y = 1
            BY <2>4, Zenon DEF UnderWay
        <3> HIDE DEF a, b, i, y
        <3>4. a <= i
            BY ONLY <3>2, <3>3, <2>1, <2>2, <2>3
        <3> QED
            BY <3>4 DEF a, i
    <2>5. CASE d # c
        <3>1. first <= later
            BY ONLY <1>1, <1>4, <1>6
        <3>2. a <= b
            BY <3>1, <1>1, <1>4, BehindLess
        <3>3. y = 0
            BY <2>5, Zenon DEF UnderWay
        <3> HIDE DEF a, b, i, y
        <3>4. a <= i
            BY ONLY <3>2, <3>3, <2>1, <2>2, <2>3
        <3> QED
            BY <3>4 DEF a, i
    <2> QED
        BY <2>4, <2>5
<1>9. LagHolds("idle", sent, ms, later)
    <2> SUFFICES ASSUME NEW d \in Reads
                 PROVE  Behind(sent, later, l, d) <= ms[d] + UnderWay("idle", sent, d)
        BY Zenon DEF LagHolds
    <2>1. UnderWay("idle", sent, d) = 0
        BY DEF UnderWay
    <2>2. ms[d] + 0 = ms[d]
        BY <1>1
    <2> QED
        BY <2>1, <2>2, <1>8
<1>10. AnswerHolds(new, sent, ms)
    <2>1. new.command = c /\ new.of = n /\ new.at = l /\ new.value = <<Value[n]>>
        OBVIOUS
    <2>2. Behind(sent, n + 1, l, c) <= ms[c]
        BY <1>4, <1>8
    <2> HIDE DEF new, l
    <2> QED
        BY <2>1, <2>2, <1>6, <1>7 DEF AnswerHolds, l
<1>11. "idle" # "stopped"
    OBVIOUS
<1> HIDE DEF new
<1>12. LinkHolds("idle", sent, f, x, o, q, ms, new)
    BY <1>4, <1>9, <1>10, <1>11, Zenon DEF LinkHolds, m, later
<1> QED
    BY <1>12, Zenon DEF x, o, new, n

\* As long as no byte was changed.
LinkHoldsInv ==
    damage = 0 => \E ps : LinkHolds(link_worker, asked, fc, link_wire, owner, ps, missed, answer)

\* Damage is never undone.
LEMMA NoDamageBefore ==
    ASSUME LinkTypesInv, Link!Next, damage' = 0
    PROVE  damage = 0
<1>1. damage \in Nat
    BY Zenon DEF LinkTypesInv, LinkTypes
<1>2. CASE Link!Answer
    BY <1>2, LinkActions, Zenon
<1>3. CASE Link!Damage
    <2>1. damage' = damage + 1
        BY <1>3, LinkActions, Zenon
    <2> QED
        BY ONLY <2>1, <1>1, damage' = 0
<1>4. CASE \E c \in Commands : Link!Send(c)
    BY <1>4, LinkActions, Zenon
<1>5. CASE \E k \in 0..Len(link_wire) :
               Link!AcknowledgeRc(k) \/ Link!SkipFrame(k) \/ Link!TakeAnswer(k) \/ Link!Miss(k)
    BY <1>5, ReadActions, Zenon DEF Consumes
<1> QED
    BY <1>2, <1>3, <1>4, <1>5, Zenon DEF Link!Next, Commands

\* The invariant holds at the start
LEMMA LinkHoldsStart ==
    ASSUME StackInit
    PROVE  LinkHoldsInv
<1>1. /\ link_worker = "idle" /\ asked = <<>> /\ fc = <<>> /\ link_wire = <<>> /\ owner = <<>>
      /\ missed = [c \in Reads |-> 0] /\ answer = Link!NoAnswer
    BY LinkStart, Zenon
<1>2. missed \in [Reads -> Nat]
    BY <1>1
<1>3. LinkHolds("idle", <<>>, <<>>, <<>>, <<>>, <<>>, missed, Link!NoAnswer)
    BY <1>2, HoldsStart
<1> QED
    BY <1>1, <1>3, Zenon DEF LinkHoldsInv

\* and after every step that does no damage.
LEMMA LinkHoldsStep ==
    ASSUME Link!PlainAnswers, LinkTypesInv, LinkHoldsInv, damage' = 0, Link!Next
    PROVE  \E q : LinkHolds(link_worker', asked', fc', link_wire', owner', q, missed', answer')
<1>1. LinkTypes(link_worker, asked, fc, link_wire, owner, damage, missed, answer)
    BY DEF LinkTypesInv
<1>2. PICK ps : LinkHolds(link_worker, asked, fc, link_wire, owner, ps, missed, answer)
    BY NoDamageBefore, Zenon DEF LinkHoldsInv
<1>3. damage \in Nat /\ link_wire \in Seq(Byte) /\ missed \in [Reads -> Nat]
    <2>1. damage \in Nat /\ link_wire \in Seq(Byte)
        BY <1>1, Zenon DEF LinkTypes
    <2> QED
        BY <2>1, <1>1, HoldsFacts
<1>4. CASE Link!Answer
    <2> DEFINE n == Head(fc)
               e == Link!AnswerOf(asked[n], n)
    <2>1. /\ fc # <<>> /\ link_wire' = link_wire \o e /\ owner' = owner \o [i \in DOMAIN e |-> n]
          /\ fc' = Tail(fc) /\ link_worker' = link_worker /\ asked' = asked
          /\ missed' = missed /\ answer' = answer
        BY <1>4, LinkActions, Zenon
    <2>2. PICK q : LinkHolds(link_worker, asked, Tail(fc), link_wire \o e, owner \o [i \in DOMAIN e |-> n],
                             q, missed, answer)
        BY <1>1, <1>2, <2>1, HoldsAnswer
    <2> HIDE DEF e, n
    <2> QED
        BY <2>1, <2>2, Zenon
<1>5. CASE Link!Damage
    <2>1. damage' = damage + 1
        BY <1>5, LinkActions, Zenon
    <2> QED
        BY <2>1, <1>3
<1>6. ASSUME NEW c \in Commands, Link!Send(c)
      PROVE  \E q : LinkHolds(link_worker', asked', fc', link_wire', owner', q, missed', answer')
    <2>1. /\ link_worker = "idle" /\ Len(asked) < MaxRequests
          /\ asked' = Append(asked, c) /\ fc' = Append(fc, Len(asked) + 1) /\ link_worker' = "reading"
          /\ link_wire' = link_wire /\ owner' = owner
          /\ missed' = missed /\ answer' = answer
        BY <1>6, LinkActions, Zenon
    <2>2. /\ LinkTypes("idle", asked, fc, link_wire, owner, damage, missed, answer)
          /\ LinkHolds("idle", asked, fc, link_wire, owner, ps, missed, answer)
        BY <1>1, <1>2, <2>1, Zenon
    <2>3. LinkHolds("reading", Append(asked, c), Append(fc, Len(asked) + 1), link_wire, owner, ps, missed, answer)
        BY <2>1, <2>2, HoldsSend
    <2> QED
        BY <2>1, <2>3, Zenon
<1>7. ASSUME NEW k \in 0..Len(link_wire),
             Link!AcknowledgeRc(k) \/ Link!SkipFrame(k) \/ Link!TakeAnswer(k) \/ Link!Miss(k)
      PROVE  \E q : LinkHolds(link_worker', asked', fc', link_wire', owner', q, missed', answer')
    <2> DEFINE r == ReadFrame(SubSeq(link_wire, 1, k))
               c == asked[Len(asked)]
               x == SubSeq(link_wire, r.used + 1, Len(link_wire))
               o == SubSeq(owner, r.used + 1, Len(owner))
               m == Len(asked) - Len(fc)
    <2>1. r.used \in 0..Len(link_wire)
        BY <1>3, DecodeTypes
    <2>2. /\ r.at # "bad"
          /\ r.at = "done" =>
                 /\ r.used \in 1..Len(link_wire) /\ owner[r.used] \in 1..m
                 /\ ps[r.used] = Len(EncodedTo(asked, owner[r.used]))
                 /\ Command(r) = asked[owner[r.used]] /\ r.direction # Error
                 /\ Payload(r) = PayloadTo(asked[owner[r.used]], owner[r.used])
        <3>1. WireHolds(link_wire, owner, ps, asked, m)
            BY <1>2, Zenon DEF LinkHolds
        <3> QED
            BY <3>1, DecodeOnWire
    <2>3. /\ Consumes(r)
          /\ Link!AcknowledgeRc(k) =>
                 c = SET_RAW_RC /\ link_worker' = "idle" /\ missed' = missed /\ answer' = answer
          /\ Link!SkipFrame(k) => link_worker' = link_worker /\ missed' = missed /\ answer' = answer
          /\ Link!TakeAnswer(k) =>
                 /\ c \in Reads /\ r.at = "done" /\ Command(r) = c
                 /\ answer' = [command |-> c, value |-> Payload(r), of |-> owner[r.used], at |-> Len(asked)]
                 /\ link_worker' = "idle" /\ missed' = missed
          /\ Link!Miss(k) =>
                 /\ c \in Reads /\ missed' = [missed EXCEPT ![c] = @ + 1]
                 /\ link_worker' = "idle" /\ answer' = answer
        BY <1>7, <2>2, ReadActions, Zenon
    <2> HIDE DEF r, m
    <2>4. /\ link_worker = "reading" /\ link_wire' = x /\ owner' = o /\ asked' = asked /\ fc' = fc
        BY <2>3, Zenon DEF Consumes
    <2>5. /\ LinkTypes("reading", asked, fc, link_wire, owner, damage, missed, answer)
          /\ LinkHolds("reading", asked, fc, link_wire, owner, ps, missed, answer)
        BY <1>1, <1>2, <2>4, Zenon
    <2>6. \A d \in Reads : missed[d] \in Nat /\ UnderWay("reading", asked, d) \in Nat /\ UnderWay("idle", asked, d) = 0
        BY <1>3 DEF UnderWay
    <2>7. \A d \in Reads : d # c => UnderWay("reading", asked, d) = 0
        BY Zenon DEF UnderWay
    <2>8. \A d \in Reads : d = c => UnderWay("reading", asked, d) = 1
        BY Zenon DEF UnderWay
    <2> HIDE DEF c
    <2>9. CASE Link!AcknowledgeRc(k)
        <3>1. c \notin Reads
            BY <2>3, <2>9, LinkAssumptions
        <3>2. \A d \in Reads : /\ missed[d] <= missed[d]
                               /\ missed[d] + UnderWay("reading", asked, d) <= missed[d] + UnderWay("idle", asked, d)
            BY <2>6, <2>7, <3>1
        <3>3. \E q : LinkHolds("idle", asked, fc, x, o, q, missed, answer)
            <4>1. "idle" # "stopped"
                OBVIOUS
            <4> QED
                BY <4>1, <1>3, <2>1, <2>5, <3>2, HoldsRead
        <3> QED
            BY <2>3, <2>4, <2>9, <3>3, Zenon
    <2>10. CASE Link!SkipFrame(k)
        <3>1. \A d \in Reads : /\ missed[d] <= missed[d]
                               /\ missed[d] + UnderWay("reading", asked, d) <= missed[d] + UnderWay("reading", asked, d)
            BY <2>6
        <3>2. \E q : LinkHolds("reading", asked, fc, x, o, q, missed, answer)
            <4>1. "reading" # "stopped"
                OBVIOUS
            <4> QED
                BY <4>1, <1>3, <2>1, <2>5, <3>1, HoldsRead
        <3> QED
            BY <2>3, <2>4, <2>10, <3>2, Zenon
    <2>11. CASE Link!TakeAnswer(k)
        <3> DEFINE n == owner[r.used]
        <3>1. /\ c \in Reads /\ asked[Len(asked)] = c /\ r.used \in 1..Len(link_wire)
              /\ ps[r.used] = Len(EncodedTo(asked, n)) /\ asked[n] = c
              /\ Payload(r) = PayloadTo(asked[n], n)
            BY <2>2, <2>3, <2>11, Zenon DEF c
        <3>2. Payload(r) = <<Value[n]>>
            <4>1. c # SET_RAW_RC
                BY <3>1, LinkAssumptions
            <4> QED
                BY <4>1, <3>1, Zenon DEF PayloadTo
        <3>3. \E q : LinkHolds("idle", asked, fc, x, o, q, missed,
                               [command |-> c, value |-> <<Value[n]>>, of |-> n, at |-> Len(asked)])
            BY <2>5, <3>1, HoldsTake
        <3> QED
            BY <2>3, <2>4, <2>11, <3>2, <3>3, Zenon
    <2>12. CASE Link!Miss(k)
        <3>1. c \in Reads /\ missed' = [missed EXCEPT ![c] = @ + 1]
            BY <2>3, <2>12, Zenon
        <3>2. missed' \in [Reads -> Nat] /\ \A d \in Reads : missed'[d] = missed[d] + IF d = c THEN 1 ELSE 0
            BY ONLY <3>1, <1>3
        <3>3. \A d \in Reads :
                  /\ missed[d] <= missed'[d]
                  /\ missed[d] + UnderWay("reading", asked, d) <= missed'[d] + UnderWay("idle", asked, d)
            <4> SUFFICES ASSUME NEW d \in Reads
                         PROVE  /\ missed[d] <= missed'[d]
                                /\ missed[d] + UnderWay("reading", asked, d) <= missed'[d] + UnderWay("idle", asked, d)
                OBVIOUS
            <4> DEFINE i == missed[d]
                       j == missed'[d]
                       y == UnderWay("reading", asked, d)
                       z == UnderWay("idle", asked, d)
            <4>1. i \in Nat /\ y = (IF d = c THEN 1 ELSE 0) /\ z = 0 /\ j = i + IF d = c THEN 1 ELSE 0
                BY <2>6, <2>7, <2>8, <3>2, Zenon
            <4> HIDE DEF i, j, y, z
            <4>2. i <= j /\ i + y <= j + z
                BY ONLY <4>1
            <4> QED
                BY <4>2 DEF i, j, y, z
        <3>4. \E q : LinkHolds("idle", asked, fc, x, o, q, missed', answer)
            <4>1. "idle" # "stopped"
                OBVIOUS
            <4> QED
                BY <4>1, <2>1, <2>5, <3>2, <3>3, HoldsRead
        <3> QED
            BY <2>3, <2>4, <2>12, <3>4, Zenon
    <2> QED
        BY <1>7, <2>9, <2>10, <2>11, <2>12
<1> QED
    BY <1>4, <1>5, <1>6, <1>7, Zenon DEF Link!Next, Commands

\* As long as no byte was changed the wire holds answers in order, each read is
\* accounted for, and the worker is not stopped.
THEOREM LinkHoldsInvariant ==
    ASSUME Link!PlainAnswers
    PROVE  StackSpec => []LinkHoldsInv
<1>1. StackInit => LinkHoldsInv
    BY LinkHoldsStart
<1>2. LinkTypesInv /\ LinkHoldsInv /\ [StackNext]_allVars => LinkHoldsInv'
    <2> SUFFICES ASSUME LinkTypesInv, LinkHoldsInv, [StackNext]_allVars
                 PROVE  LinkHoldsInv'
        OBVIOUS
    <2>1. CASE Link!Next
        BY <2>1, LinkHoldsStep DEF LinkHoldsInv
    <2>2. CASE UNCHANGED linkVars
        BY <2>2 DEF LinkHoldsInv, linkVars
    <2> QED
        BY <2>1, <2>2, LinkMovesOrNot
<1> QED
    BY <1>1, <1>2, LinkTypesInvariant, PTL DEF StackSpec

\* As long as no byte was changed a late, cut or unread answer makes no reading
\* older than the reads that timed out and is taken for no other answer; and
\* nothing but a changed byte ends the flight.
THEOREM AnswersSound ==
    ASSUME Link!PlainAnswers
    PROVE  StackSpec => [](damage = 0 => AnswersAreSound) /\ []Link!NoFalseAlarm
<1>1. Link!TypeOK /\ LinkHoldsInv => Link!NoFalseAlarm /\ (damage = 0 => AnswersAreSound)
    <2> SUFFICES ASSUME Link!TypeOK, LinkHoldsInv
                 PROVE  Link!NoFalseAlarm /\ (damage = 0 => AnswersAreSound)
        OBVIOUS
    <2>1. damage = 0 => link_worker # "stopped" /\ AnswerHolds(answer, asked, missed)
        BY Zenon DEF LinkHoldsInv, LinkHolds
    <2>2. Link!NoFalseAlarm
        <3>1. damage \in 0..MaxDamage
            BY Zenon DEF Link!TypeOK
        <3>2. damage # 0 => damage > 0
            BY ONLY <3>1, LinkBounds
        <3> QED
            BY <3>2, <2>1, Zenon DEF Link!NoFalseAlarm
    <2>3. ASSUME damage = 0, answer # Link!NoAnswer
          PROVE  /\ asked[answer.of] = answer.command /\ answer.value = <<Value[answer.of]>>
                 /\ Behind(asked, answer.of + 1, answer.at, answer.command) <= missed[answer.command]
        BY <2>1, <2>3, Zenon DEF AnswerHolds
    <2>4. damage = 0 => Link!AnswerIsWhole
        BY <2>3, Zenon DEF Link!AnswerIsWhole
    <2>5. Link!Lag = Behind(asked, answer.of + 1, answer.at, answer.command)
        BY LinkCardinality, Zenon DEF Link!Lag, Behind, RequestsOf
    <2>6. damage = 0 => Link!LagIsBounded
        BY <2>3, <2>5, Zenon DEF Link!LagIsBounded
    <2> QED
        BY <2>2, <2>4, <2>6, Zenon DEF AnswersAreSound
<1> QED
    BY <1>1, LinkTypeCorrect, LinkHoldsInvariant, PTL
=============================================================================
