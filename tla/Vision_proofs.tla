---------------------------- MODULE Vision_proofs ----------------------------
(* The vision side: results on their way to the control loop, the pilot's    *)
(* selector on its way back, the target among the objects of a frame, and    *)
(* the configurations a pipeline accepts, for every number of frames and     *)
(* runs, every rate and time-out, and every image.                           *)
EXTENDS MCVision, Sequences, TLAPS

----------------------------------------------------------------------------
(* Results.                                                                   *)

LEMMA ResultsConstants ==
    /\ MaxFrames \in Nat /\ MaxFrames >= 1 /\ MaxRuns \in Nat /\ MaxRuns >= 1
    /\ Gap \in Nat /\ ResultsHwm \in Nat /\ ResultsHwm >= 1
BY InstancesAssumption DEF Results!ConstantsAssumption

\* A message has a number, unlike the result that is none.
LEMMA MessageTypes ==
    /\ \A m \in Results!Messages : m.frame \in Nat /\ m.frame >= 1 /\ m # Results!NoResult
    /\ Results!NoResult.frame = 0
    /\ \A m \in Results!Messages \cup {Results!NoResult} : m.frame \in Nat
BY ResultsConstants DEF Results!Messages, Results!NoResult

\* What is pending is the newest that was published, a worker that waits for the rate has
\* something to send, one that sends has waited long enough, and a receiver that is not
\* draining has handed over what it found.
ResultsPhases ==
    /\ pipe # "off" => runs >= 1
    /\ pending # Results!NoResult => pending = published
    /\ worker \in {"rate", "rate_wait"} => pending # Results!NoResult
    /\ worker = "send" => since = Gap /\ held # Results!NoResult
    /\ spacing = Gap
    /\ receiver = "down" => results = <<>>
    /\ receiver # "drain" => newest = Results!NoResult
    /\ runs = 0 => /\ pipe = "off" /\ worker = "none" /\ results = <<>>
                   /\ received = Results!NoResult /\ store = Results!NoResult
                   /\ newest = Results!NoResult

\* Of the first run: what the loop has, what waits in the socket, what is being sent and what
\* is pending have ascending numbers, all below the next one.
LineInOrder ==
    /\ \A a, b \in 1..Len(results) : a < b => results[a].message.frame < results[b].message.frame
    /\ \A a \in 1..Len(results) :
           /\ received.frame < results[a].message.frame /\ results[a].message.frame < next_frame
           /\ worker = "send" => results[a].message.frame < held.frame
           /\ pending # Results!NoResult => results[a].message.frame < pending.frame
    /\ worker = "send" => /\ received.frame < held.frame /\ held.frame < next_frame
                          /\ pending # Results!NoResult => held.frame < pending.frame
    /\ pending # Results!NoResult => received.frame < pending.frame /\ pending.frame < next_frame
    /\ received.frame < next_frame

\* What was received is in the store, or about to be.
StoreFollows ==
    IF newest = Results!NoResult THEN store = received
    ELSE newest = received /\ (store # Results!NoResult => store.frame < newest.frame)

ResultsInvariant ==
    /\ Results!TypeOK /\ ResultsPhases
    /\ runs <= 1 => LineInOrder /\ StoreFollows

LEMMA ResultsInit == Results!Init => ResultsInvariant
<1> SUFFICES ASSUME Results!Init PROVE ResultsInvariant
    OBVIOUS
<1> USE ResultsConstants DEF Results!Init
<1>1. Results!TypeOK
    <2>1. runs \in 0..MaxRuns /\ next_frame \in 1..MaxFrames + 1 /\ since \in 0..Gap /\ spacing \in 0..Gap
        OBVIOUS
    <2>2. results \in Seq([message : Results!Messages, bad : BOOLEAN]) /\ Len(results) <= ResultsHwm
        OBVIOUS
    <2> QED
        BY <2>1, <2>2 DEF Results!TypeOK
<1>2. ResultsPhases
    BY DEF ResultsPhases
<1>3. LineInOrder /\ StoreFollows
    BY MessageTypes DEF LineInOrder, StoreFollows
<1> QED
    BY <1>1, <1>2, <1>3 DEF ResultsInvariant

Entries == [message : Results!Messages, bad : BOOLEAN]

\* A step of the runner.
LEMMA RunnerTypes ==
    ASSUME ResultsInvariant, Results!Runner
    PROVE  Results!TypeOK'
<1> USE ResultsConstants DEF ResultsInvariant, Results!TypeOK, Results!publisher_vars, Results!app_vars
<1>1. CASE Results!StartRun
    <2>1. runs' \in 0..MaxRuns /\ next_frame' \in 1..MaxFrames + 1
        BY <1>1 DEF Results!StartRun
    <2>2. since' \in 0..Gap /\ spacing' \in 0..Gap
        BY <1>1 DEF Results!StartRun
    <2>3. UNCHANGED <<results, receiver, newest, store, received>>
        BY <1>1 DEF Results!StartRun
    <2>4. /\ pending' = Results!NoResult /\ held' = Results!NoResult /\ published' = Results!NoResult
          /\ stopping' = FALSE /\ worker' = "binding" /\ lost' = FALSE /\ pipe' = "starting"
        BY <1>1 DEF Results!StartRun
    <2> QED
        BY <2>1, <2>2, <2>3, <2>4
<1>2. CASE Results!StartFails
    BY <1>2 DEF Results!StartFails
<1>3. CASE Results!Play
    BY <1>3 DEF Results!Play
<1>4. CASE Results!LeaveLoop
    BY <1>4 DEF Results!LeaveLoop
<1>5. CASE Results!Return
    BY <1>5 DEF Results!Return, Results!Notified
<1>6. CASE Results!ProcessEnds
    BY <1>6 DEF Results!ProcessEnds
<1> QED
    BY <1>1, <1>2, <1>3, <1>4, <1>5, <1>6 DEF Results!Runner

LEMMA ThreadsTypes ==
    ASSUME ResultsInvariant, Results!Buffer \/ Results!Worker \/ Results!Tick
    PROVE  Results!TypeOK'
<1> USE ResultsConstants DEF ResultsInvariant, Results!TypeOK, Results!publisher_vars, Results!app_vars
<1>1. CASE Results!Buffer
    <2>1. runs >= 1 /\ next_frame \in 1..MaxFrames
        BY <1>1 DEF Results!Buffer, ResultsPhases
    <2>2. Results!Message(next_frame) \in Results!Messages
        BY <2>1 DEF Results!Message, Results!Messages
    <2>3. {pending', published'} \subseteq Results!Messages \cup {Results!NoResult}
        BY <1>1, <2>2 DEF Results!Buffer, Results!Publish, Results!Pending
    <2>4. worker' \in {"none", "binding", "failed", "look", "wait", "rate", "rate_wait", "send", "done"}
        BY <1>1 DEF Results!Buffer, Results!Publish, Results!Notified
    <2> QED
        BY <1>1, <2>1, <2>3, <2>4 DEF Results!Buffer
<1>2. CASE Results!Bind
    BY <1>2 DEF Results!Bind
<1>3. CASE Results!Look
    BY <1>3 DEF Results!Look
<1>4. CASE Results!Rate
    BY <1>4 DEF Results!Rate, Results!Take
<1>5. CASE Results!RateWaitEnds
    BY <1>5 DEF Results!RateWaitEnds
<1>6. CASE Results!Send
    <2>1. held \in Results!Messages
        BY <1>6 DEF Results!Send, ResultsPhases
    <2>2. results' \in Seq(Entries) /\ Len(results') <= ResultsHwm /\ lost' \in BOOLEAN
        <3>1. results \in Seq(Entries)
            BY DEF Entries
        <3>2. CASE receiver # "down" /\ Len(results) < ResultsHwm
            <4>1. PICK bad \in BOOLEAN :
                      results' = Append(results, [message |-> held, bad |-> bad]) /\ lost' = bad
                BY <1>6, <3>2 DEF Results!Send
            <4>2. [message |-> held, bad |-> bad] \in Entries
                BY <2>1 DEF Entries
            <4> QED
                BY <3>1, <3>2, <4>1, <4>2
        <3>3. CASE ~ (receiver # "down" /\ Len(results) < ResultsHwm)
            BY <1>6, <3>1, <3>3 DEF Results!Send
        <3> QED
            BY <3>2, <3>3
    <2> QED
        BY <1>6, <2>2 DEF Results!Send, Results!AfterSend, Entries
<1>7. CASE Results!Tick
    BY <1>7 DEF Results!Tick
<1> QED
    BY <1>1, <1>2, <1>3, <1>4, <1>5, <1>6, <1>7 DEF Results!Worker

LEMMA ReceiverTypes ==
    ASSUME ResultsInvariant, Results!StartReceiver \/ Results!StopReceiver \/ Results!Receiver
    PROVE  Results!TypeOK'
<1> USE ResultsConstants DEF ResultsInvariant, Results!TypeOK, Results!publisher_vars, Results!app_vars
<1>1. CASE Results!StartReceiver
    BY <1>1 DEF Results!StartReceiver
<1>2. CASE Results!StopReceiver
    BY <1>2 DEF Results!StopReceiver
<1>3. CASE Results!Receive
    <2>1. results \in Seq(Entries) /\ results # <<>>
        BY <1>3 DEF Results!Receive, Entries
    <2>2. Head(results) \in Entries /\ results' \in Seq(Entries) /\ Len(results') <= ResultsHwm
        BY <1>3, <2>1 DEF Results!Receive
    <2>3. {newest', received'} \subseteq Results!Messages \cup {Results!NoResult}
        BY <1>3, <2>2 DEF Results!Receive, Results!NewestOf, Entries
    <2> QED
        BY <1>3, <2>2, <2>3 DEF Results!Receive, Entries
<1>4. CASE Results!HandOver
    BY <1>4 DEF Results!HandOver, Results!Retain
<1> QED
    BY <1>1, <1>2, <1>3, <1>4 DEF Results!Receiver

LEMMA ResultsTypesStep ==
    ASSUME ResultsInvariant, Results!Next
    PROVE  Results!TypeOK'
BY RunnerTypes, ThreadsTypes, ReceiverTypes DEF Results!Next

LEMMA PhasesStep ==
    ASSUME ResultsInvariant, Results!Next
    PROVE  ResultsPhases'
<1> USE ResultsConstants
        DEF ResultsInvariant, ResultsPhases, Results!publisher_vars, Results!app_vars
<1>0. runs \in Nat /\ since \in 0..Gap
    BY DEF Results!TypeOK
<1>1. CASE Results!StartRun
    BY <1>0, <1>1 DEF Results!StartRun
<1>2. CASE Results!StartFails
    BY <1>0, <1>2 DEF Results!StartFails
<1>3. CASE Results!Play
    BY <1>0, <1>3 DEF Results!Play
<1>4. CASE Results!LeaveLoop
    BY <1>0, <1>4 DEF Results!LeaveLoop
<1>5. CASE Results!Return
    BY <1>0, <1>5 DEF Results!Return, Results!Notified
<1>6. CASE Results!ProcessEnds
    BY <1>0, <1>6 DEF Results!ProcessEnds
<1>7. CASE Results!Buffer
    <2>1. runs >= 1 /\ next_frame \in 1..MaxFrames /\ runs \in 1..MaxRuns
        BY <1>7 DEF Results!Buffer, Results!TypeOK
    <2>2. Results!Message(next_frame) # Results!NoResult
        BY <2>1 DEF Results!Message, Results!NoResult
    <2> QED
        BY <1>0, <1>7, <2>1, <2>2 DEF Results!Buffer, Results!Publish, Results!Pending, Results!Notified
<1>8. CASE Results!Bind
    BY <1>0, <1>8 DEF Results!Bind
<1>9. CASE Results!Look
    BY <1>0, <1>9 DEF Results!Look, Results!Empty
<1>10. CASE Results!Rate
    BY <1>0, <1>10 DEF Results!Rate, Results!Take, Results!TooEarly
<1>11. CASE Results!RateWaitEnds
    BY <1>0, <1>11 DEF Results!RateWaitEnds
<1>12. CASE Results!Send
    BY <1>0, <1>12 DEF Results!Send, Results!AfterSend
<1>13. CASE Results!Tick
    BY <1>0, <1>13 DEF Results!Tick
<1>14. CASE Results!StartReceiver
    BY <1>0, <1>14 DEF Results!StartReceiver
<1>15. CASE Results!StopReceiver
    BY <1>0, <1>15 DEF Results!StopReceiver
<1>16. CASE Results!Receive
    BY <1>0, <1>16 DEF Results!Receive
<1>17. CASE Results!HandOver
    BY <1>0, <1>17 DEF Results!HandOver
<1> QED
    BY <1>1, <1>2, <1>3, <1>4, <1>5, <1>6, <1>7, <1>8, <1>9, <1>10, <1>11, <1>12, <1>13, <1>14, <1>15,
       <1>16, <1>17 DEF Results!Next, Results!Runner, Results!Worker, Results!Receiver

\* A step that neither sends nor publishes nor receives keeps the order of the line.
LEMMA LineStays ==
    ASSUME LineInOrder, UNCHANGED <<results, received, next_frame, held, pending>>,
           worker' = worker \/ worker' # "send"
    PROVE  LineInOrder'
BY DEF LineInOrder

LEMMA StoreStays ==
    ASSUME StoreFollows, UNCHANGED <<newest, store, received>>
    PROVE  StoreFollows'
BY DEF StoreFollows

LEMMA QuietLine ==
    ASSUME ResultsInvariant, runs <= 1, runs' <= 1,
           \/ Results!StartFails \/ Results!Play \/ Results!LeaveLoop \/ Results!Return
           \/ Results!ProcessEnds \/ Results!Bind \/ Results!Look \/ Results!RateWaitEnds
           \/ Results!Tick
    PROVE  LineInOrder' /\ StoreFollows'
<1>1. UNCHANGED <<results, received, next_frame, held, pending, newest, store>>
    BY DEF Results!StartFails, Results!Play, Results!LeaveLoop, Results!Return, Results!ProcessEnds,
           Results!Bind, Results!Look, Results!RateWaitEnds, Results!Tick,
           Results!publisher_vars, Results!app_vars
<1>2. worker' = worker \/ worker' # "send"
    BY DEF Results!StartFails, Results!Play, Results!LeaveLoop, Results!Return, Results!ProcessEnds,
           Results!Bind, Results!Look, Results!RateWaitEnds, Results!Tick, Results!Notified,
           Results!publisher_vars
<1> QED
    BY <1>1, <1>2, LineStays, StoreStays DEF ResultsInvariant

\* The first run begins with an empty line.
LEMMA StartRunLine ==
    ASSUME ResultsInvariant, Results!StartRun, runs' <= 1
    PROVE  LineInOrder' /\ StoreFollows'
<1>1. runs = 0
    BY DEF ResultsInvariant, Results!TypeOK, Results!StartRun
<1>2. /\ results' = <<>> /\ received' = Results!NoResult /\ pending' = Results!NoResult
      /\ worker' = "binding" /\ next_frame' = 1
      /\ newest' = Results!NoResult /\ store' = Results!NoResult
    BY <1>1 DEF ResultsInvariant, ResultsPhases, Results!StartRun, Results!app_vars
<1>3. LineInOrder'
    BY <1>2, MessageTypes DEF LineInOrder
<1> QED
    BY <1>2, <1>3 DEF StoreFollows

LEMMA BufferLine ==
    ASSUME ResultsInvariant, Results!Buffer, LineInOrder, StoreFollows
    PROVE  LineInOrder' /\ StoreFollows'
<1>1. next_frame \in Nat /\ next_frame' = next_frame + 1
    BY DEF ResultsInvariant, Results!TypeOK, Results!Buffer
<1>2. UNCHANGED <<results, received, held, newest, store>>
    BY DEF Results!Buffer, Results!app_vars
<1>3. worker' = worker \/ (worker # "send" /\ worker' # "send")
    BY DEF Results!Buffer, Results!Publish, Results!Notified
<1>4. pending' = pending \/ pending' = Results!Message(next_frame)
    BY DEF Results!Buffer, Results!Publish, Results!Pending
<1>5. Results!Message(next_frame).frame = next_frame
    BY DEF Results!Message
<1>6. /\ received.frame \in Nat /\ held.frame \in Nat
      /\ \A a \in 1..Len(results) : results[a].message.frame \in Nat
    <2>1. received.frame \in Nat /\ held.frame \in Nat
        BY MessageTypes DEF ResultsInvariant, Results!TypeOK
    <2>2. \A a \in 1..Len(results) : results[a].message.frame \in Nat
        <3>1. results \in Seq(Entries)
            BY DEF ResultsInvariant, Results!TypeOK, Entries
        <3>2. \A a \in 1..Len(results) : results[a] \in Entries
            BY <3>1
        <3>3. \A e \in Entries : e.message.frame \in Nat
            BY MessageTypes DEF Entries
        <3> QED
            BY <3>2, <3>3
    <2> QED
        BY <2>1, <2>2
<1>7. /\ pending # Results!NoResult => pending.frame < next_frame
      /\ pending' # Results!NoResult => pending' = pending \/ pending'.frame = next_frame
    BY <1>4, <1>5 DEF LineInOrder
<1>8. worker' = "send" => worker = "send"
    BY <1>3
<1>9. \A a \in 1..Len(results) :
          /\ received.frame < results[a].message.frame /\ results[a].message.frame < next_frame + 1
          /\ worker' = "send" => results[a].message.frame < held.frame
          /\ pending' # Results!NoResult => results[a].message.frame < pending'.frame
    BY <1>1, <1>6, <1>7, <1>8 DEF LineInOrder
<1>10. worker' = "send" => /\ received.frame < held.frame /\ held.frame < next_frame + 1
                           /\ pending' # Results!NoResult => held.frame < pending'.frame
    BY <1>1, <1>6, <1>7, <1>8 DEF LineInOrder
<1>11. /\ pending' # Results!NoResult => received.frame < pending'.frame /\ pending'.frame < next_frame + 1
       /\ received.frame < next_frame + 1
    <2>1. received.frame < next_frame + 1
        BY <1>1, <1>6 DEF LineInOrder
    <2>2. CASE pending' = pending
        <3>1. pending # Results!NoResult => pending.frame \in Nat
            BY MessageTypes DEF ResultsInvariant, Results!TypeOK
        <3> QED
            BY <1>1, <2>1, <2>2, <3>1 DEF LineInOrder
    <2>3. CASE pending'.frame = next_frame
        BY <1>1, <2>1, <2>3 DEF LineInOrder
    <2> QED
        BY <1>7, <2>1, <2>2, <2>3
<1>12. LineInOrder'
    BY <1>1, <1>2, <1>9, <1>10, <1>11 DEF LineInOrder
<1> QED
    BY <1>2, <1>12, StoreStays

LEMMA RateLine ==
    ASSUME ResultsInvariant, Results!Rate, LineInOrder, StoreFollows
    PROVE  LineInOrder' /\ StoreFollows'
<1>1. UNCHANGED <<results, received, next_frame, newest, store>>
    BY DEF Results!Rate, Results!app_vars
<1>2. pending # Results!NoResult
    BY DEF ResultsInvariant, ResultsPhases, Results!Rate
<1>3. \/ held' = held /\ pending' = pending /\ worker' # "send"
      \/ held' = pending /\ pending' = Results!NoResult
    BY DEF Results!Rate, Results!Take
<1>4. LineInOrder'
    BY <1>1, <1>2, <1>3 DEF LineInOrder
<1> QED
    BY <1>1, <1>4, StoreStays

LEMMA SendLine ==
    ASSUME ResultsInvariant, Results!Send, LineInOrder, StoreFollows
    PROVE  LineInOrder' /\ StoreFollows'
<1>1. worker = "send" /\ worker' = "look" /\ UNCHANGED <<received, next_frame, pending, newest, store>>
    BY DEF Results!Send, Results!AfterSend, Results!app_vars
<1>2. results \in Seq(Entries)
    BY DEF ResultsInvariant, Results!TypeOK, Entries
<1>3. results' = results \/ \E bad \in BOOLEAN : results' = Append(results, [message |-> held, bad |-> bad])
    BY DEF Results!Send
<1>4. LineInOrder'
    <2>1. CASE results' = results
        BY <1>1, <2>1 DEF LineInOrder
    <2>2. CASE \E bad \in BOOLEAN : results' = Append(results, [message |-> held, bad |-> bad])
        <3>1. PICK bad \in BOOLEAN : results' = Append(results, [message |-> held, bad |-> bad])
            BY <2>2
        <3> DEFINE n == Len(results)
        <3>2. /\ n \in Nat /\ Len(results') = n + 1 /\ \A a \in 1..n : results'[a] = results[a]
              /\ results'[n + 1].message = held
            BY <1>2, <3>1
        <3> HIDE DEF n
        <3>3. \A a \in 1..n + 1 : a \in 1..n \/ a = n + 1
            BY <3>2
        <3>4. Len(results) = n
            BY DEF n
        <3>5. \A a, b \in 1..n + 1 : a < b => a \in 1..n
            BY <3>2
        <3>6. \A a, b \in 1..n + 1 : a < b => results'[a].message.frame < results'[b].message.frame
            BY <1>1, <3>2, <3>3, <3>4, <3>5 DEF LineInOrder
        <3>7. \A a \in 1..n + 1 :
                  /\ received.frame < results'[a].message.frame /\ results'[a].message.frame < next_frame
                  /\ pending # Results!NoResult => results'[a].message.frame < pending.frame
            BY <1>1, <3>2, <3>3, <3>4 DEF LineInOrder
        <3> QED
            BY <1>1, <3>2, <3>6, <3>7 DEF LineInOrder
    <2> QED
        BY <1>3, <2>1, <2>2
<1> QED
    BY <1>1, <1>4, StoreStays

LEMMA ReceiverLine ==
    ASSUME ResultsInvariant, Results!StartReceiver \/ Results!StopReceiver \/ Results!HandOver,
           LineInOrder, StoreFollows
    PROVE  LineInOrder' /\ StoreFollows'
<1> USE DEF ResultsInvariant, Results!publisher_vars
<1>1. CASE Results!StartReceiver
    <2>1. /\ results' = <<>> /\ received' = Results!NoResult /\ store' = Results!NoResult
          /\ newest' = Results!NoResult /\ UNCHANGED <<next_frame, worker, held, pending>>
        BY <1>1 DEF ResultsPhases, Results!StartReceiver
    <2>2. /\ worker = "send" => held.frame > 0
          /\ pending # Results!NoResult => pending.frame > 0
          /\ next_frame > 0
        BY MessageTypes, ResultsConstants DEF ResultsPhases, Results!TypeOK
    <2> QED
        BY <2>1, <2>2, MessageTypes DEF LineInOrder, StoreFollows
<1>2. CASE Results!StopReceiver
    <2>1. results' = <<>> /\ UNCHANGED <<received, store, newest, next_frame, worker, held, pending>>
        BY <1>2 DEF Results!StopReceiver
    <2> QED
        BY <2>1, StoreStays DEF LineInOrder
<1>3. CASE Results!HandOver
    <2>1. /\ newest' = Results!NoResult
          /\ UNCHANGED <<results, received, next_frame, worker, held, pending>>
        BY <1>3 DEF Results!HandOver
    <2>2. store' = received
        <3>1. CASE newest = Results!NoResult
            BY <1>3, <3>1 DEF Results!HandOver, StoreFollows
        <3>2. CASE newest # Results!NoResult
            <4>1. store' = Results!Retain(newest)
                BY <1>3, <3>2 DEF Results!HandOver
            <4>2. store # Results!NoResult => ~ (newest.frame <= store.frame)
                <5>1. newest.frame \in Nat /\ store.frame \in Nat
                    BY MessageTypes DEF Results!TypeOK
                <5> QED
                    BY <3>2, <5>1 DEF StoreFollows
            <4> QED
                BY <3>2, <4>1, <4>2 DEF Results!Retain, StoreFollows
        <3> QED
            BY <3>1, <3>2
    <2> QED
        BY <2>1, <2>2, LineStays DEF StoreFollows
<1> QED
    BY <1>1, <1>2, <1>3

LEMMA ReceiveLine ==
    ASSUME ResultsInvariant, Results!Receive, LineInOrder, StoreFollows
    PROVE  LineInOrder' /\ StoreFollows'
<1> DEFINE n == Len(results)
           m == results[1].message
<1>1. results \in Seq(Entries) /\ results # <<>> /\ n \in Nat /\ n >= 1
    BY DEF ResultsInvariant, Results!TypeOK, Results!Receive, Entries
<1>2. /\ Len(results') = n - 1 /\ \A a \in 1..n - 1 : results'[a] = results[a + 1] /\ a + 1 \in 1..n
      /\ Head(results) = results[1] /\ results[1] \in Entries /\ 1 \in 1..n
    BY <1>1 DEF Results!Receive
<1>3. m \in Results!Messages
    BY <1>2 DEF Entries
<1>4. UNCHANGED <<next_frame, worker, held, pending, store>>
    BY DEF Results!Receive, Results!publisher_vars
<1>5. \/ received' = received /\ newest' = newest
      \/ received' = m /\ newest' = m
    BY <1>2 DEF Results!Receive, Results!NewestOf
<1> HIDE DEF n
<1>6. \A a \in 1..n - 1 : m.frame < results'[a].message.frame
    <2> SUFFICES ASSUME NEW a \in 1..n - 1 PROVE m.frame < results'[a].message.frame
        OBVIOUS
    <2>1. a + 1 \in 1..n /\ 1 < a + 1 /\ results'[a] = results[a + 1]
        BY <1>1, <1>2
    <2> QED
        BY <1>2, <2>1 DEF LineInOrder, n
<1>7. received.frame < m.frame /\ m.frame < next_frame
      /\ (worker = "send" => m.frame < held.frame)
      /\ (pending # Results!NoResult => m.frame < pending.frame)
    BY <1>2 DEF LineInOrder, n
<1> HIDE DEF m
<1>8. \A a, b \in 1..n - 1 : a < b => results'[a].message.frame < results'[b].message.frame
    <2> SUFFICES ASSUME NEW a \in 1..n - 1, NEW b \in 1..n - 1, a < b
                 PROVE  results'[a].message.frame < results'[b].message.frame
        OBVIOUS
    <2>1. a + 1 \in 1..n /\ b + 1 \in 1..n /\ a + 1 < b + 1
        BY <1>1
    <2>2. results[a + 1].message.frame < results[b + 1].message.frame
        BY <2>1 DEF LineInOrder, n
    <2> QED
        BY <1>2, <2>2
<1>9. \A a \in 1..n - 1 :
          /\ received.frame < results'[a].message.frame /\ results'[a].message.frame < next_frame
          /\ worker = "send" => results'[a].message.frame < held.frame
          /\ pending # Results!NoResult => results'[a].message.frame < pending.frame
    BY <1>2 DEF LineInOrder, n
<1>10. LineInOrder'
    <2>1. CASE received' = received
        BY <1>2, <1>4, <1>8, <1>9, <2>1 DEF LineInOrder
    <2>2. CASE received' = m
        BY <1>2, <1>4, <1>6, <1>7, <1>8, <1>9, <2>2 DEF LineInOrder
    <2> QED
        BY <1>5, <2>1, <2>2
<1>11. StoreFollows'
    <2>1. CASE received' = received /\ newest' = newest
        BY <1>4, <2>1, StoreStays
    <2>2. CASE received' = m /\ newest' = m
        <3>1. m # Results!NoResult
            BY <1>3, MessageTypes
        <3>2. store # Results!NoResult => store.frame < m.frame
            <4>1. store # Results!NoResult => store.frame = received.frame \/ store.frame < received.frame
                BY DEF StoreFollows
            <4>2. store.frame \in Nat /\ received.frame \in Nat /\ m.frame \in Nat
                BY <1>3, MessageTypes DEF ResultsInvariant, Results!TypeOK
            <4> QED
                BY <1>7, <4>1, <4>2
        <3> QED
            BY <1>4, <2>2, <3>1, <3>2 DEF StoreFollows
    <2> QED
        BY <1>5, <2>1, <2>2
<1> QED
    BY <1>10, <1>11

LEMMA ResultsNext ==
    ASSUME ResultsInvariant, Results!Next
    PROVE  ResultsInvariant'
<1>1. Results!TypeOK' /\ ResultsPhases'
    BY ResultsTypesStep, PhasesStep
<1>2. ASSUME runs' <= 1 PROVE LineInOrder' /\ StoreFollows'
    <2>1. CASE Results!StartRun
        BY <1>2, <2>1, StartRunLine
    <2>2. CASE ~ Results!StartRun
        <3>1. runs' = runs
            BY <2>2 DEF Results!Next, Results!Runner, Results!Worker, Results!Receiver, Results!Buffer,
                Results!Tick, Results!StartReceiver, Results!StopReceiver, Results!StartFails,
                Results!Play, Results!LeaveLoop, Results!Return, Results!ProcessEnds, Results!Bind,
                Results!Look, Results!Rate, Results!RateWaitEnds, Results!Send, Results!Receive,
                Results!HandOver
        <3>2. LineInOrder /\ StoreFollows
            BY <1>2, <3>1 DEF ResultsInvariant
        <3> QED
            BY <1>2, <2>2, <3>1, <3>2, QuietLine, BufferLine, RateLine, SendLine, ReceiverLine, ReceiveLine
               DEF Results!Next, Results!Runner, Results!Worker, Results!Receiver
    <2> QED
        BY <2>1, <2>2
<1> QED
    BY <1>1, <1>2 DEF ResultsInvariant

LEMMA ResultsStep ==
    ASSUME ResultsInvariant, [Next]_vars
    PROVE  ResultsInvariant'
<1>1. CASE UNCHANGED resultsVars
    <2>1. Results!TypeOK'
        BY <1>1 DEF resultsVars, ResultsInvariant, Results!TypeOK
    <2>2. ResultsPhases'
        BY <1>1 DEF resultsVars, ResultsInvariant, ResultsPhases
    <2>3. (runs <= 1 => LineInOrder /\ StoreFollows)'
        BY <1>1, LineStays, StoreStays DEF resultsVars, ResultsInvariant
    <2> QED
        BY <2>1, <2>2, <2>3 DEF ResultsInvariant
<1>2. CASE Results!Next
    BY <1>2, ResultsNext
<1> QED
    BY <1>1, <1>2, Zenon DEF Next, vars, Moves, ResultsMoves, TargetMoves, ObjectsMoves, PipelineMoves

\* Only a worker that has waited for the rate takes a message, and then the newest.
LEMMA TakesNewest ==
    ASSUME ResultsInvariant, [Next]_vars, worker # "send", worker' = "send"
    PROVE  held' = published
<1>1. Results!Next
    BY Zenon DEF Next, vars, resultsVars, Moves, ResultsMoves, TargetMoves, ObjectsMoves, PipelineMoves
<1>2. Results!Rate
    BY <1>1 DEF Results!Next, Results!Runner, Results!Worker, Results!Receiver, Results!Buffer,
        Results!Tick, Results!StartReceiver, Results!StopReceiver, Results!StartRun,
        Results!StartFails, Results!Play, Results!LeaveLoop, Results!Return, Results!ProcessEnds,
        Results!Bind, Results!Look, Results!RateWaitEnds, Results!Send, Results!AfterSend,
        Results!Receive, Results!HandOver, Results!Publish, Results!Notified, Results!publisher_vars
<1> QED
    BY <1>2 DEF Results!Rate, Results!Take, ResultsInvariant, ResultsPhases

LEMMA ResultsSound ==
    ASSUME ResultsInvariant
    PROVE  /\ Results!TypeOK /\ Results!SendsAreSpaced /\ Results!StoreIsNewestReceived
<1>1. Results!StoreIsNewestReceived
    BY DEF ResultsInvariant, ResultsPhases, StoreFollows, Results!StoreIsNewestReceived
<1> QED
    BY <1>1 DEF ResultsInvariant, ResultsPhases, Results!SendsAreSpaced

\* Whatever is published, dropped or damaged on the way, and whenever a side is restarted:
\* results leave at the rate that was asked for, each is the newest of its moment, and what
\* the control loop reads of the first run is the newest received.
THEOREM ResultsStayCurrent == Spec => ResultsAreCurrent
<1>1. Init => ResultsInvariant
    BY ResultsInit DEF Init
<1>2. ResultsInvariant /\ [Next]_vars => ResultsInvariant'
    BY ResultsStep
<1>3. ResultsInvariant => /\ subject = "results" => Results!TypeOK
                          /\ Results!SendsAreSpaced /\ Results!StoreIsNewestReceived
    BY ResultsSound
<1>4. ResultsInvariant /\ [Next]_vars
          => [worker # "send" /\ worker' = "send" => held' = published]_Results!vars
    BY TakesNewest
<1> QED
    BY <1>1, <1>2, <1>3, <1>4, PTL DEF Spec, ResultsAreCurrent, Results!TakesTheNewest

----------------------------------------------------------------------------
(* The selector.                                                              *)

\* What a setup promises: sizes are positive, 0 is a time stamp, and the objects lie in the image.
LEMMA SetupTypes ==
    ASSUME NEW s \in Setups
    PROVE  /\ s.frame \in Nat /\ s.frame >= 1 /\ s.max_size \in Nat /\ s.max_size >= 1
           /\ s.size \in 1..s.max_size /\ 0 \in s.stamps /\ s.max_age \in Nat
BY InstancesAssumption DEF Selector!ConstantsAssumption

LEMMA SelectorConstants == PollTicks \in Nat /\ SelectorHwm \in Nat /\ SelectorHwm >= 1
BY InstancesAssumption DEF Selector!ConstantsAssumption

\* A command the pilot sends has a size and a state.
IsSent(c) == c.w >= 1 /\ c.state >= 0

\* Only commands that were sent are received; without one the backend is disabled; an enabled
\* backend was told so by a command that was not too old when the main thread looked last.
SelectionPhases ==
    /\ \A a \in 1..Len(commands) : IsSent(commands[a])
    /\ latest = Selector!NoCommand \/ IsSent(latest)
    /\ latest = Selector!NoCommand => applied = Selector!NoCommand /\ ~enabled
    /\ applied.stamp = 0
    /\ enabled => /\ applied.state # Selector!DISABLED
                  /\ age <= setup.max_age + since_poll

SelectionInvariant == Selector!TypeOK /\ SelectionPhases /\ Selector!BoxInFrame

LEMMA SelectionInit == Selector!Init => SelectionInvariant
<1> SUFFICES ASSUME Selector!Init PROVE SelectionInvariant
    OBVIOUS
<1>1. setup \in Setups
    BY DEF Selector!Init
<1>2. setup.frame \div 2 \in 0..setup.frame
    BY <1>1, SetupTypes
<1>3. Selector!NoCommand \in Selector!Commands
    BY <1>1, SetupTypes DEF Selector!NoCommand, Selector!Commands
<1>4. Selector!TypeOK
    <2>1. commands \in Seq(Selector!Commands) /\ Len(commands) = 0
        BY DEF Selector!Init
    <2>2. width \in 1..setup.max_size /\ center \in 0..setup.frame
        BY <1>1, <1>2, SetupTypes DEF Selector!Init
    <2>3. age \in 0..setup.max_age + PollTicks + 1 /\ since_poll \in 0..PollTicks
        BY <1>1, SetupTypes, SelectorConstants DEF Selector!Init
    <2>4. box \in [x : 0..setup.frame, w : 0..setup.max_size]
        BY <1>1, SetupTypes DEF Selector!Init, Selector!NoBox
    <2>5. mode \in {"ALT_HOLD", "TRACK", "other"}
        BY DEF Selector!Init
    <2>6. {latest, applied} \subseteq Selector!Commands
        BY <1>3 DEF Selector!Init
    <2>7. caps \in BOOLEAN /\ enabled \in BOOLEAN /\ reticle \in BOOLEAN
        BY DEF Selector!Init
    <2>8. {target, followed} \subseteq setup.objects \cup {Selector!NoTarget}
        BY DEF Selector!Init
    <2> QED
        BY <1>1, <2>1, <2>2, <2>3, <2>4, <2>5, <2>6, <2>7, <2>8, SelectorConstants DEF Selector!TypeOK
<1>5. SelectionPhases
    BY DEF Selector!Init, SelectionPhases, Selector!NoCommand
<1> QED
    BY <1>4, <1>5 DEF SelectionInvariant, Selector!Init, Selector!BoxInFrame

\* Sending a command.
LEMMA UpdateKeeps ==
    ASSUME SelectionInvariant, Selector!Update
    PROVE  SelectionInvariant'
<1>0. /\ setup.frame \in Nat /\ setup.max_size \in Nat /\ setup.max_size >= 1
      /\ center \in 0..setup.frame /\ width \in 1..setup.max_size
    BY SetupTypes DEF SelectionInvariant, Selector!TypeOK
<1> USE DEF SelectionInvariant, Selector!TypeOK
<1>1. PICK state \in Selector!SelectorStates, dropped \in BOOLEAN, stamp \in setup.stamps,
           stick \in -1..1, direction \in IF setup.resizable THEN -1..1 ELSE {0} :
          /\ center' = Selector!Moved(state, stick)
          /\ width' = Selector!Resized(state, direction)
          /\ Selector!ModeFollows(state, stick)
          /\ commands' = IF dropped \/ Len(commands) >= SelectorHwm THEN commands
                         ELSE Append(commands, [x |-> center', w |-> width', state |-> state, stamp |-> stamp])
          /\ followed' = IF mode' = "TRACK" THEN followed ELSE Selector!NoTarget
    BY DEF Selector!Update
<1>2. /\ UNCHANGED <<setup, latest, age, applied, since_poll, caps>>
      /\ UNCHANGED <<enabled, box, target, reticle>>
    BY DEF Selector!Update, Selector!backend_vars
<1>3. state \in 0..2
    BY <1>1 DEF Selector!SelectorStates, Selector!DISABLED, Selector!SELECTING, Selector!LOCKED
<1>4. center' \in 0..setup.frame
    <2>1. setup.frame \in Nat /\ center + stick \in Int /\ setup.frame \div 2 \in 0..setup.frame
        <3> HIDE DEF SelectionInvariant, Selector!TypeOK
        <3> QED
            BY <1>0
    <2>2. Selector!Clamp(0, setup.frame, center + stick) \in 0..setup.frame
        BY <2>1 DEF Selector!Clamp
    <2> QED
        BY <1>1, <2>1, <2>2 DEF Selector!Moved
<1>5. width' \in 1..setup.max_size
    <2>1. direction \in -1..1
        BY <1>1
    <2>2. setup.max_size \in Nat /\ setup.max_size >= 1 /\ width + direction \in Int
        BY <1>0, <2>1
    <2>3. Selector!Clamp(1, setup.max_size, width + direction) \in 1..setup.max_size
        BY <2>2 DEF Selector!Clamp
    <2> QED
        BY <1>1, <2>3 DEF Selector!Resized
<1> DEFINE new == [x |-> center', w |-> width', state |-> state, stamp |-> stamp]
<1>6. new \in Selector!Commands /\ IsSent(new)
    <2>1. /\ center' \in 0..setup.frame /\ width' \in 0..setup.max_size /\ state \in -1..2
          /\ width' >= 1 /\ state >= 0 /\ stamp \in setup.stamps
        BY <1>0, <1>3, <1>4, <1>5
    <2> QED
        BY <2>1 DEF Selector!Commands, IsSent
<1>7. Selector!Commands' = Selector!Commands
    BY <1>2 DEF Selector!Commands
<1>8. commands' = commands \/ (commands' = Append(commands, new) /\ Len(commands) < SelectorHwm)
    BY <1>1, SelectorConstants
<1> HIDE DEF new
<1>9. commands' \in Seq(Selector!Commands) /\ Len(commands') <= SelectorHwm
    BY <1>6, <1>8, SelectorConstants
<1>10. \A a \in 1..Len(commands') : IsSent(commands'[a])
    <2>1. CASE commands' = commands
        BY <2>1 DEF SelectionPhases
    <2>2. CASE commands' = Append(commands, new)
        <3>1. commands \in Seq(Selector!Commands) /\ new \in Selector!Commands
            BY <1>6
        <3>2. /\ Len(commands') = Len(commands) + 1 /\ Len(commands) \in Nat
              /\ \A a \in 1..Len(commands) : commands'[a] = commands[a]
              /\ commands'[Len(commands) + 1] = new
            BY <2>2, <3>1
        <3>3. \A a \in 1..Len(commands') : a \in 1..Len(commands) \/ a = Len(commands) + 1
            BY <3>2
        <3>4. \A a \in 1..Len(commands) : IsSent(commands[a])
            BY DEF SelectionPhases
        <3> QED
            BY <1>6, <3>2, <3>3, <3>4
    <2> QED
        BY <1>8, <2>1, <2>2
<1>11. mode' \in {"ALT_HOLD", "TRACK", "other"}
    BY <1>1 DEF Selector!ModeFollows
<1>12. followed' \in setup.objects \cup {Selector!NoTarget}
    BY <1>1
<1>13. Selector!TypeOK'
    BY <1>2, <1>4, <1>5, <1>7, <1>9, <1>11, <1>12
<1>14. SelectionPhases'
    BY <1>2, <1>10 DEF SelectionPhases
<1>15. Selector!BoxInFrame'
    BY <1>2 DEF Selector!BoxInFrame
<1> QED
    BY <1>13, <1>14, <1>15

\* The thread of the subscriber.
LEMMA SubscriberKeeps ==
    ASSUME SelectionInvariant, Selector!Receive \/ Selector!Tick \/ Selector!Negotiate
    PROVE  SelectionInvariant'
<1> USE DEF SelectionInvariant
<1>1. CASE Selector!Receive
    <2>1. /\ UNCHANGED <<setup, mode, center, width, applied, since_poll, caps>>
          /\ UNCHANGED <<enabled, box, target, reticle, followed>>
        BY <1>1 DEF Selector!Receive, Selector!backend_vars, Selector!app_vars
    <2>2. Selector!Commands' = Selector!Commands
        BY <2>1 DEF Selector!Commands
    <2>3. commands \in Seq(Selector!Commands) /\ commands # <<>> /\ commands' = Tail(commands)
        BY <1>1 DEF Selector!Receive, Selector!TypeOK
    <2>4. /\ Len(commands) \in Nat /\ Len(commands) >= 1 /\ Head(commands) = commands[1]
          /\ Head(commands) \in Selector!Commands
          /\ commands' \in Seq(Selector!Commands) /\ Len(commands') = Len(commands) - 1
          /\ \A a \in 1..Len(commands) - 1 : commands'[a] = commands[a + 1] /\ a + 1 \in 1..Len(commands)
        BY <2>3
    <2>5. \A a \in 1..Len(commands) : IsSent(commands[a])
        BY DEF SelectionPhases
    <2>6. IsSent(Head(commands)) /\ \A a \in 1..Len(commands') : IsSent(commands'[a])
        BY <2>4, <2>5
    <2>7. \/ latest' = latest /\ age' = age
          \/ latest' = Head(commands) /\ age' = 0
        BY <1>1 DEF Selector!Receive
    <2>8. latest' # latest => latest' # Selector!NoCommand
        BY <2>6, <2>7 DEF IsSent, Selector!NoCommand
    <2>9. age' \in 0..setup.max_age + PollTicks + 1
        BY <2>7, SetupTypes, SelectorConstants DEF Selector!TypeOK
    <2>10. Selector!TypeOK'
        <3>1. {latest', applied'} \subseteq Selector!Commands
            BY <2>1, <2>4, <2>7 DEF Selector!TypeOK
        <3>2. Len(commands') <= SelectorHwm
            BY <2>4, SelectorConstants DEF Selector!TypeOK
        <3> QED
            BY <2>1, <2>2, <2>4, <2>9, <3>1, <3>2 DEF Selector!TypeOK
    <2>11. SelectionPhases'
        <3>1. latest' = Selector!NoCommand \/ IsSent(latest')
            BY <2>6, <2>7 DEF SelectionPhases
        <3>2. latest' = Selector!NoCommand => applied = Selector!NoCommand /\ ~enabled
            BY <2>8 DEF SelectionPhases
        <3>3. enabled => applied.state # Selector!DISABLED /\ age' <= setup.max_age + since_poll
            BY <2>7, SetupTypes, SelectorConstants DEF SelectionPhases, Selector!TypeOK
        <3>4. applied.stamp = 0
            BY DEF SelectionPhases
        <3> QED
            BY <2>1, <2>6, <3>1, <3>2, <3>3, <3>4 DEF SelectionPhases
    <2> QED
        BY <2>1, <2>10, <2>11 DEF Selector!BoxInFrame
<1>2. CASE Selector!Tick
    <2>1. /\ UNCHANGED <<setup, mode, center, width, commands, latest, applied, caps>>
          /\ UNCHANGED <<enabled, box, target, reticle, followed>>
        BY <1>2 DEF Selector!Tick, Selector!backend_vars, Selector!app_vars
    <2>2. Selector!Commands' = Selector!Commands
        BY <2>1 DEF Selector!Commands
    <2>3. setup.max_age \in Nat /\ age \in 0..setup.max_age + PollTicks + 1 /\ since_poll \in Nat
          /\ since_poll < PollTicks /\ since_poll' = since_poll + 1
        BY <1>2, SetupTypes, SelectorConstants DEF Selector!TypeOK, Selector!Tick
    <2>4. age' = Selector!Clamp(0, setup.max_age + PollTicks + 1, age + 1)
        BY <1>2 DEF Selector!Tick
    <2>5. age' \in 0..setup.max_age + PollTicks + 1 /\ age' <= age + 1
        BY <2>3, <2>4, SelectorConstants DEF Selector!Clamp
    <2>6. since_poll' \in 0..PollTicks
        BY <2>3, SelectorConstants
    <2>7. Selector!TypeOK'
        BY <2>1, <2>2, <2>5, <2>6 DEF Selector!TypeOK
    <2>8. enabled => age' <= setup.max_age + since_poll'
        BY <2>3, <2>5 DEF SelectionPhases
    <2>9. SelectionPhases'
        BY <2>1, <2>8 DEF SelectionPhases
    <2> QED
        BY <2>1, <2>7, <2>9 DEF Selector!BoxInFrame
<1>3. CASE Selector!Negotiate
    <2>1. /\ UNCHANGED <<setup, mode, center, width, commands, latest, age, applied, since_poll>>
          /\ UNCHANGED <<enabled, box, target, reticle, followed>> /\ caps' = TRUE
        BY <1>3 DEF Selector!Negotiate, Selector!backend_vars, Selector!app_vars
    <2>2. Selector!Commands' = Selector!Commands
        BY <2>1 DEF Selector!Commands
    <2>3. Selector!TypeOK'
        BY <2>1, <2>2 DEF Selector!TypeOK
    <2>4. SelectionPhases'
        BY <2>1 DEF SelectionPhases
    <2> QED
        BY <2>1, <2>3, <2>4 DEF Selector!BoxInFrame
<1> QED
    BY <1>1, <1>2, <1>3

LEMMA ChangedCommand ==
    ASSUME NEW X, NEW W, NEW St, NEW T, NEW c \in [x : X, w : W, state : St, stamp : T],
           NEW w \in W, NEW s \in St, NEW t \in T
    PROVE  /\ [c EXCEPT !.w = w, !.state = s, !.stamp = t] \in [x : X, w : W, state : St, stamp : T]
           /\ [c EXCEPT !.w = w, !.state = s, !.stamp = t].state = s
OBVIOUS

\* A command that is not too old is the latest, any other one disables.
LEMMA LatestCommand ==
    ASSUME SelectionInvariant
    PROVE  /\ Selector!Latest \in Selector!Commands
           /\ Selector!Latest.state # Selector!DISABLED /\ Selector!Latest # Selector!NoCommand
                 => Selector!Latest = latest /\ age <= setup.max_age /\ IsSent(latest)
           /\ Selector!Latest = Selector!NoCommand <=> latest = Selector!NoCommand
           /\ age > setup.max_age /\ latest # Selector!NoCommand
                 => Selector!Latest.state = Selector!DISABLED
<1>1. /\ setup \in Setups /\ latest \in Selector!Commands /\ age \in Nat
      /\ setup.max_age \in Nat /\ 0 \in setup.stamps /\ setup.max_size \in Nat
    BY SetupTypes DEF SelectionInvariant, Selector!TypeOK
<1>2. latest = Selector!NoCommand \/ IsSent(latest)
    BY DEF SelectionInvariant, SelectionPhases
<1>3. CASE age <= setup.max_age \/ latest = Selector!NoCommand
    <2>1. Selector!Latest = latest
        BY <1>3 DEF Selector!Latest
    <2> QED
        BY <1>1, <1>2, <1>3, <2>1
<1>4. CASE ~ (age <= setup.max_age \/ latest = Selector!NoCommand)
    <2>1. Selector!Latest = [latest EXCEPT !.w = 0, !.state = Selector!DISABLED, !.stamp = 0]
        BY <1>4 DEF Selector!Latest
    <2>2. [latest EXCEPT !.w = 0, !.state = Selector!DISABLED, !.stamp = 0] \in Selector!Commands
        <3>1. 0 \in 0..setup.max_size /\ Selector!DISABLED \in -1..2
            BY <1>1 DEF Selector!DISABLED
        <3> QED
            BY <1>1, <3>1, ChangedCommand DEF Selector!Commands
    <2>3. [latest EXCEPT !.w = 0, !.state = Selector!DISABLED, !.stamp = 0].state = Selector!DISABLED
        BY <1>1 DEF Selector!Commands
    <2>4. Selector!DISABLED # Selector!NoCommand.state
        BY DEF Selector!DISABLED, Selector!NoCommand
    <2> QED
        BY <1>4, <2>1, <2>2, <2>3, <2>4
<1> QED
    BY <1>3, <1>4

\* The box of a command that was sent is a part of the image.
LEMMA RoiFits ==
    ASSUME SelectionInvariant, NEW c \in Selector!Commands, IsSent(c)
    PROVE  /\ Selector!RoiBox(c) \in [x : 0..setup.frame, w : 0..setup.max_size]
           /\ Selector!RoiBox(c).w > 0 /\ Selector!RoiBox(c).x >= 0
           /\ Selector!RoiBox(c).x + Selector!RoiBox(c).w <= setup.frame
<1> DEFINE w == IF c.w < setup.frame THEN c.w ELSE setup.frame
           x == Selector!Clamp(0, setup.frame - w, Selector!RoundedHalf(2 * c.x - w))
<1>1. setup.frame \in Nat /\ setup.frame >= 1 /\ setup.max_size \in Nat
    BY SetupTypes DEF SelectionInvariant, Selector!TypeOK
<1>2. c.x \in 0..setup.frame /\ c.w \in 1..setup.max_size
    BY <1>1 DEF Selector!Commands, IsSent
<1>3. w \in 1..setup.frame /\ w <= setup.max_size /\ w \in Int
    BY <1>1, <1>2
<1> HIDE DEF w
<1>4. 2 * c.x - w \in Int
    BY <1>2, <1>3
<1>5. Selector!RoundedHalf(2 * c.x - w) \in Int
    BY <1>4 DEF Selector!RoundedHalf
<1>6. x \in 0..setup.frame - w
    <2>1. setup.frame - w \in Int /\ 0 <= setup.frame - w
        BY <1>1, <1>3
    <2> QED
        BY <1>5, <2>1 DEF Selector!Clamp
<1>7. Selector!RoiBox(c) = [x |-> x, w |-> w]
    BY DEF Selector!RoiBox, w
<1> HIDE DEF x
<1>8. x \in 0..setup.frame /\ w \in 0..setup.max_size /\ x >= 0 /\ w > 0 /\ x + w <= setup.frame
    BY <1>1, <1>3, <1>6
<1> QED
    BY <1>7, <1>8

LEMMA KeyOf ==
    ASSUME SelectionInvariant, NEW c \in Selector!Commands
    PROVE  /\ Selector!Key(c) \in Selector!Commands /\ Selector!Key(c).stamp = 0
           /\ Selector!Key(c).state = c.state
           /\ \A d \in Selector!Commands :
                  d.x = c.x /\ d.w = c.w /\ d.state = c.state /\ d.stamp = 0 => d = Selector!Key(c)
<1>1. 0 \in setup.stamps
    BY SetupTypes DEF SelectionInvariant, Selector!TypeOK
<1> QED
    BY <1>1 DEF Selector!Key, Selector!Commands

\* The main thread applies a command: it is a new one, and it lasts until the next look.
LEMMA PollKeeps ==
    ASSUME SelectionInvariant, Selector!Poll
    PROVE  SelectionInvariant'
<1> DEFINE c == Selector!Latest
<1>1. /\ setup \in Setups /\ setup.frame \in Nat /\ setup.max_size \in Nat /\ setup.max_age \in Nat
      /\ PollTicks \in Nat /\ age \in Nat
    BY SetupTypes, SelectorConstants DEF SelectionInvariant, Selector!TypeOK
<1>2. /\ UNCHANGED <<setup, mode, center, width, commands, latest, age, caps, followed>>
      /\ since_poll' = 0
    BY DEF Selector!Poll, Selector!app_vars
<1>3. Selector!Commands' = Selector!Commands
    BY <1>2 DEF Selector!Commands
<1>4. CASE ~ (c # Selector!NoCommand /\ Selector!Key(c) # applied /\ Selector!Applies(c))
    <2>1. UNCHANGED <<applied, enabled, box, target, reticle>>
        BY <1>4 DEF Selector!Poll, Selector!backend_vars
    <2>2. Selector!TypeOK'
        BY <1>1, <1>2, <1>3, <2>1 DEF SelectionInvariant, Selector!TypeOK
    <2>3. enabled => age <= setup.max_age
        <3>1. SUFFICES ASSUME enabled, age > setup.max_age PROVE FALSE
            BY <1>1
        <3>2. latest # Selector!NoCommand /\ applied.state # Selector!DISABLED
            BY <3>1 DEF SelectionInvariant, SelectionPhases
        <3>3. c.state = Selector!DISABLED /\ c # Selector!NoCommand /\ c \in Selector!Commands
            BY <3>1, <3>2, LatestCommand
        <3>4. Selector!Applies(c)
            BY <3>3 DEF Selector!Applies
        <3>5. applied.state = Selector!DISABLED
            BY <1>4, <3>3, <3>4, KeyOf
        <3> QED
            BY <3>2, <3>5
    <2>4. SelectionPhases'
        BY <1>1, <1>2, <2>1, <2>3 DEF SelectionInvariant, SelectionPhases
    <2> QED
        BY <1>2, <2>1, <2>2, <2>4 DEF SelectionInvariant, Selector!BoxInFrame
<1>5. CASE c # Selector!NoCommand /\ Selector!Key(c) # applied /\ Selector!Applies(c)
    <2>1. c \in Selector!Commands /\ latest # Selector!NoCommand
        BY <1>5, LatestCommand
    <2>2. c.state # Selector!DISABLED => IsSent(c) /\ age <= setup.max_age
        BY <1>5, LatestCommand
    <2>3. Selector!Apply(c) /\ applied' = Selector!Key(c)
        BY <1>5 DEF Selector!Poll, Selector!Applies
    <2>4. /\ enabled' \in BOOLEAN /\ (enabled' => c.state # Selector!DISABLED)
          /\ target' \in {target, Selector!NoTarget} /\ reticle' \in BOOLEAN
        BY <2>3 DEF Selector!Apply, Selector!DISABLED, Selector!LOCKED, SelectionInvariant, Selector!TypeOK
    <2>5. \/ box' = box
          \/ setup.backend = "controlled_red" /\ box' = [x |-> c.x, w |-> 0]
          \/ c.state # Selector!DISABLED /\ box' = Selector!RoiBox(c)
        BY <2>3 DEF Selector!Apply
    <2>6. box' \in [x : 0..setup.frame, w : 0..setup.max_size] /\ Selector!BoxInFrame'
        <3>1. CASE box' = box
            BY <1>2, <3>1 DEF SelectionInvariant, Selector!TypeOK, Selector!BoxInFrame
        <3>2. CASE setup.backend = "controlled_red" /\ box' = [x |-> c.x, w |-> 0]
            <4>1. c.x \in 0..setup.frame /\ 0 \in 0..setup.max_size
                BY <1>1, <2>1 DEF Selector!Commands
            <4> QED
                BY <1>2, <3>2, <4>1 DEF Selector!BoxInFrame
        <3>3. CASE c.state # Selector!DISABLED /\ box' = Selector!RoiBox(c)
            BY <1>2, <2>1, <2>2, <3>3, RoiFits DEF Selector!BoxInFrame
        <3> QED
            BY <2>5, <3>1, <3>2, <3>3
    <2>7. applied' \in Selector!Commands /\ applied'.stamp = 0 /\ applied'.state = c.state
        BY <2>1, <2>3, KeyOf
    <2>8. Selector!TypeOK'
        BY <1>1, <1>2, <1>3, <2>4, <2>6, <2>7 DEF SelectionInvariant, Selector!TypeOK
    <2>9. SelectionPhases'
        BY <1>1, <1>2, <2>1, <2>2, <2>4, <2>7 DEF SelectionInvariant, SelectionPhases
    <2> QED
        BY <2>6, <2>8, <2>9 DEF SelectionInvariant
<1> QED
    BY <1>4, <1>5

\* A frame finds a target where there is an object, or keeps the one it has.
LEMMA FrameTargets ==
    ASSUME SelectionInvariant, Selector!Frame
    PROVE  /\ UNCHANGED <<setup, mode, center, width, commands, latest, age, applied, since_poll>>
           /\ UNCHANGED <<caps, enabled, box, reticle>>
           /\ target' \in setup.objects \cup {Selector!NoTarget}
           /\ target # Selector!NoTarget => target' = target
           /\ followed' \in {followed, target'}
<1>1. /\ UNCHANGED <<setup, mode, center, width, commands, latest, age, applied, since_poll>>
      /\ UNCHANGED <<caps, enabled, box, reticle>>
    BY DEF Selector!Frame, Selector!app_vars
<1>2. PICK seen \in SUBSET setup.objects :
          target' \in IF target # Selector!NoTarget THEN {target}
                      ELSE IF \E o \in seen : Selector!InBox(o) THEN {o \in seen : Selector!InBox(o)}
                      ELSE {Selector!NoTarget}
    BY DEF Selector!Frame
<1>3. target \in setup.objects \cup {Selector!NoTarget}
    BY DEF SelectionInvariant, Selector!TypeOK
<1>4. target' \in setup.objects \cup {Selector!NoTarget}
    BY <1>2, <1>3
<1>5. target # Selector!NoTarget => target' = target
    BY <1>2
<1>6. followed' \in {followed, target'}
    BY DEF Selector!Frame
<1> QED
    BY <1>1, <1>4, <1>5, <1>6

LEMMA FrameKeeps ==
    ASSUME SelectionInvariant, Selector!Frame
    PROVE  SelectionInvariant'
<1>1. Selector!Commands' = Selector!Commands
    BY FrameTargets DEF Selector!Commands
<1>2. Selector!TypeOK'
    BY <1>1, FrameTargets DEF SelectionInvariant, Selector!TypeOK
<1>3. SelectionPhases'
    BY FrameTargets DEF SelectionInvariant, SelectionPhases
<1> QED
    BY <1>2, <1>3, FrameTargets DEF SelectionInvariant, Selector!BoxInFrame

LEMMA SelectionStep ==
    ASSUME SelectionInvariant, [Next]_vars
    PROVE  SelectionInvariant'
<1>1. CASE UNCHANGED targetVars
    <2>1. Selector!Commands' = Selector!Commands
        BY <1>1 DEF Selector!Commands, targetVars
    <2>2. Selector!TypeOK'
        BY <1>1, <2>1 DEF SelectionInvariant, Selector!TypeOK, targetVars
    <2>3. SelectionPhases'
        BY <1>1 DEF SelectionInvariant, SelectionPhases, targetVars
    <2> QED
        BY <1>1, <2>2, <2>3 DEF SelectionInvariant, Selector!BoxInFrame, targetVars
<1>2. CASE Selector!Next
    BY <1>2, UpdateKeeps, SubscriberKeeps, PollKeeps, FrameKeeps DEF Selector!Next
<1> QED
    BY <1>1, <1>2, Zenon DEF Next, vars, Moves, ResultsMoves, TargetMoves, ObjectsMoves, PipelineMoves

\* Only a new command drops a target.
LEMMA LockStays ==
    ASSUME SelectionInvariant, [Next]_vars,
           target # Selector!NoTarget, target' = Selector!NoTarget
    PROVE  <<applied'.x, applied'.w, applied'.state>> # <<applied.x, applied.w, applied.state>>
<1>1. Selector!Next
    BY Zenon DEF Next, vars, targetVars, Moves, ResultsMoves, TargetMoves, ObjectsMoves, PipelineMoves
<1>2. Selector!Poll
    <2>1. CASE Selector!Update
        BY <2>1 DEF Selector!Update, Selector!backend_vars
    <2>2. CASE Selector!Receive \/ Selector!Tick \/ Selector!Negotiate
        BY <2>2 DEF Selector!Receive, Selector!Tick, Selector!Negotiate, Selector!backend_vars
    <2>3. CASE Selector!Frame
        BY <2>3, FrameTargets
    <2> QED
        BY <1>1, <2>1, <2>2, <2>3 DEF Selector!Next
<1>3. Selector!Key(Selector!Latest) # applied /\ applied' = Selector!Key(Selector!Latest)
    BY <1>2 DEF Selector!Poll, Selector!backend_vars
<1>4. Selector!Latest \in Selector!Commands
    BY LatestCommand
<1>5. applied' \in Selector!Commands /\ applied'.stamp = 0 /\ Selector!Key(applied') = applied'
    BY <1>3, <1>4, KeyOf DEF Selector!Key, Selector!Commands
<1>6. applied \in Selector!Commands /\ applied.stamp = 0
    BY DEF SelectionInvariant, SelectionPhases, Selector!TypeOK
<1>7. ~ (applied.x = applied'.x /\ applied.w = applied'.w /\ applied.state = applied'.state)
    BY <1>3, <1>5, <1>6, KeyOf
<1> QED
    BY <1>7

\* Whatever the pilot, the sockets and the clocks do, and for every image, reticle and time-out:
\* a reticle lies in its image, a backend without commands is disabled in time, and a target is
\* dropped only by a command that differs from the one applied before.
THEOREM SelectionStaysKept == Spec => SelectionIsKept
<1>1. Init => SelectionInvariant
    BY SelectionInit DEF Init
<1>2. SelectionInvariant /\ [Next]_vars => SelectionInvariant'
    BY SelectionStep
<1>3. SelectionInvariant => (subject = "selector" =>
          Selector!TypeOK /\ Selector!BoxInFrame /\ Selector!StaleMeansDisabled)
    <2> SUFFICES ASSUME SelectionInvariant PROVE Selector!StaleMeansDisabled
        BY DEF SelectionInvariant
    <2>1. /\ setup.max_age \in Nat /\ age \in Nat /\ since_poll \in 0..PollTicks /\ PollTicks \in Nat
          /\ enabled => age <= setup.max_age + since_poll
        BY SetupTypes, SelectorConstants DEF SelectionInvariant, Selector!TypeOK, SelectionPhases
    <2> QED
        BY <2>1 DEF Selector!StaleMeansDisabled
<1>4. SelectionInvariant /\ [Next]_vars
          => [target # Selector!NoTarget /\ target' = Selector!NoTarget =>
                <<applied'.x, applied'.w, applied'.state>> # <<applied.x, applied.w, applied.state>>]_Selector!vars
    BY LockStays
<1> QED
    BY <1>1, <1>2, <1>3, <1>4, PTL DEF Spec, SelectionIsKept, Selector!LockIsNotRearmed

----------------------------------------------------------------------------
(* The target among the objects of a frame.                                   *)

LEMMA ObjectsConstants ==
    /\ \A b \in Boxes : b.x \in Nat /\ b.y \in Nat /\ b.w \in Nat /\ b.w >= 1 /\ b.h \in Nat /\ b.h >= 1
    /\ IouNum \in Nat /\ IouDen \in Nat /\ 0 \notin Classes
BY InstancesAssumption DEF Objects!ConstantsAssumption

LEMMA BoxIsOne == ASSUME NEW b \in Boxes PROVE b # Objects!NoBox
BY ObjectsConstants DEF Objects!NoBox

\* Products keep an order, and a positive factor can be taken out of one.
LEMMA ProductsKeepOrder ==
    ASSUME NEW a \in Nat, NEW b \in Nat, NEW c \in Nat, a <= b
    PROVE  a * c <= b * c
<1>1. PICK d \in Nat : b = a + d
    <2>1. b - a \in Nat /\ b = a + (b - a)
        OBVIOUS
    <2> QED
        BY <2>1
<1>2. b * c = a * c + d * c /\ d * c \in Nat /\ a * c \in Nat
    BY <1>1
<1> QED
    BY <1>2

LEMMA FactorComesOut ==
    ASSUME NEW a \in Nat, NEW b \in Nat, NEW c \in Nat, c >= 1, a * c <= b * c
    PROVE  a <= b
<1> SUFFICES ASSUME b + 1 <= a PROVE FALSE
    OBVIOUS
<1>1. (b + 1) * c <= a * c
    BY ProductsKeepOrder
<1>2. (b + 1) * c = b * c + c /\ b * c \in Nat /\ a * c \in Nat
    OBVIOUS
<1> QED
    BY <1>1, <1>2

\* A ratio that is at least another one passes every threshold that one passes.
LEMMA LargerRatioPasses ==
    ASSUME NEW o \in Nat, NEW u \in Nat, NEW oo \in Nat, NEW uu \in Nat, uu >= 1,
           NEW num \in Nat, NEW den \in Nat,
           o * uu >= oo * u, den * oo >= num * uu
    PROVE  den * o >= num * u
<1>1. /\ o * uu \in Nat /\ oo * u \in Nat /\ den * oo \in Nat /\ num * uu \in Nat
      /\ den * o \in Nat /\ num * u \in Nat
    OBVIOUS
<1>2. (oo * u) * den <= (o * uu) * den
    BY <1>1, ProductsKeepOrder
<1>3. (num * uu) * u <= (den * oo) * u
    BY <1>1, ProductsKeepOrder
<1>4. (oo * u) * den = (den * oo) * u
    OBVIOUS
<1>5. (num * uu) * u = (num * u) * uu
    OBVIOUS
<1>6. (o * uu) * den = (den * o) * uu
    OBVIOUS
<1>7. (num * u) * uu \in Nat /\ (den * o) * uu \in Nat /\ (den * oo) * u \in Nat
    BY <1>1
<1>8. (num * u) * uu <= (den * o) * uu
    BY <1>2, <1>3, <1>4, <1>5, <1>6, <1>7
<1> QED
    BY <1>1, <1>8, FactorComesOut

\* Two boxes overlap in no more than the first of them, so their union is not empty.
LEMMA UnionIsPositive ==
    ASSUME NEW a \in Boxes, NEW b \in Boxes
    PROVE  /\ Objects!Overlap(a, b) \in Nat
           /\ Objects!Union(a, b) \in Nat /\ Objects!Union(a, b) >= 1
<1> DEFINE w == Objects!Larger(0, Objects!Smaller(a.x + a.w, b.x + b.w) - Objects!Larger(a.x, b.x))
           h == Objects!Larger(0, Objects!Smaller(a.y + a.h, b.y + b.h) - Objects!Larger(a.y, b.y))
<1>1. /\ a.x \in Nat /\ a.y \in Nat /\ a.w \in Nat /\ a.h \in Nat /\ a.w >= 1 /\ a.h >= 1
      /\ b.x \in Nat /\ b.y \in Nat /\ b.w \in Nat /\ b.h \in Nat /\ b.w >= 1 /\ b.h >= 1
    BY ObjectsConstants
<1>2. w \in Nat /\ w <= a.w
    BY <1>1 DEF Objects!Larger, Objects!Smaller
<1>3. h \in Nat /\ h <= a.h
    BY <1>1 DEF Objects!Larger, Objects!Smaller
<1>4. Objects!Overlap(a, b) = w * h
    BY DEF Objects!Overlap
<1> HIDE DEF w, h
<1>5. w * h <= a.w * h
    BY <1>1, <1>2, <1>3, ProductsKeepOrder
<1>6. h * a.w <= a.h * a.w
    BY <1>1, <1>3, ProductsKeepOrder
<1>7. a.w * h = h * a.w /\ a.w * a.h = a.h * a.w
    BY <1>1, <1>3
<1>8. /\ w * h \in Nat /\ a.w * h \in Nat /\ h * a.w \in Nat /\ a.w * a.h \in Nat /\ a.h * a.w \in Nat
      /\ b.w * b.h \in Nat /\ b.h * 1 \in Nat
    BY <1>1, <1>2, <1>3
<1>9. 1 * b.h <= b.w * b.h
    BY <1>1, ProductsKeepOrder
<1> DEFINE first == a.w * a.h
           second == b.w * b.h
           both == w * h
<1>10. first \in Nat /\ second \in Nat /\ both \in Nat /\ both <= first /\ second >= 1
    BY <1>1, <1>5, <1>6, <1>7, <1>8, <1>9
<1>11. Objects!Union(a, b) = first + second - both
    BY <1>4 DEF Objects!Union
<1> HIDE DEF first, second, both
<1> QED
    BY <1>4, <1>10, <1>11 DEF both

\* Only a selection without a class is a new one.
ObjectsInvariant == Objects!TypeOK /\ (fresh => class = 0)

LEMMA ObjectsInit == Objects!Init => ObjectsInvariant
BY DEF Objects!Init, ObjectsInvariant, Objects!TypeOK

\* What is selected is a detection: the first in the reticle, then one of the same class near
\* the last box.
LEMMA SelectedIs ==
    ASSUME ObjectsInvariant, NEW seen \in SUBSET Objects!Detections, NEW d \in Objects!Candidates(seen)
    PROVE  /\ d.box \in Boxes /\ d.class \in Classes
           /\ class = 0 => Objects!Intersect(selector, d.box)
           /\ class # 0 =>
                /\ d.class = class
                /\ \/ Objects!Distance2(previous, d.box) <= MaxDistance2
                   \/ IouDen * Objects!Overlap(previous, d.box) >= IouNum * Objects!Union(previous, d.box)
<1>1. CASE class = 0
    <2>1. d \in Objects!Initial(seen)
        BY <1>1 DEF Objects!Candidates
    <2>2. d \in seen /\ Objects!Intersect(selector, d.box)
        BY <2>1 DEF Objects!Initial, Objects!Nearest
    <2>3. d.box \in Boxes /\ d.class \in Classes
        BY <2>2 DEF Objects!Detections
    <2> QED
        BY <1>1, <2>2, <2>3
<1>2. CASE class # 0
    <2> DEFINE same == Objects!OfClass(seen)
               byIou == Objects!Overlapping(previous, same)
    <2>1. \A e \in same : e.class = class /\ e.box \in Boxes /\ e.class \in Classes
        BY DEF Objects!OfClass, Objects!Detections
    <2>2. d \in IF \E e \in byIou : Objects!Close(e) THEN byIou
                ELSE {e \in Objects!Nearest(previous, same) : Objects!Near(e)}
        BY <1>2 DEF Objects!Candidates, Objects!Associated
    <2>3. previous \in Boxes
        BY <1>2 DEF ObjectsInvariant, Objects!TypeOK
    <2> HIDE DEF same
    <2>4. CASE \E e \in byIou : Objects!Close(e)
        <3>1. PICK e \in byIou : Objects!Close(e)
            BY <2>4
        <3>2. d \in byIou
            BY <2>2, <2>4
        <3>3. d \in same /\ e \in same /\ Objects!IouAtLeast(previous, d.box, previous, e.box)
            BY <3>1, <3>2 DEF Objects!Overlapping
        <3>4. d.box \in Boxes /\ e.box \in Boxes
            BY <2>1, <3>3
        <3>5. /\ Objects!Overlap(previous, d.box) \in Nat /\ Objects!Union(previous, d.box) \in Nat
              /\ Objects!Overlap(previous, e.box) \in Nat /\ Objects!Union(previous, e.box) \in Nat
              /\ Objects!Union(previous, e.box) >= 1
            BY <2>3, <3>4, UnionIsPositive
        <3>6. Objects!Overlap(previous, d.box) * Objects!Union(previous, e.box)
                 >= Objects!Overlap(previous, e.box) * Objects!Union(previous, d.box)
            BY <3>3 DEF Objects!IouAtLeast
        <3>7. IouDen * Objects!Overlap(previous, e.box) >= IouNum * Objects!Union(previous, e.box)
            BY <3>1 DEF Objects!Close
        <3>8. IouDen * Objects!Overlap(previous, d.box) >= IouNum * Objects!Union(previous, d.box)
            BY <3>5, <3>6, <3>7, ObjectsConstants, LargerRatioPasses
        <3> QED
            BY <1>2, <2>1, <3>3, <3>8
    <2>5. CASE ~ \E e \in byIou : Objects!Close(e)
        <3>1. d \in {e \in Objects!Nearest(previous, same) : Objects!Near(e)}
            BY <2>2, <2>5
        <3>2. d \in same /\ Objects!Near(d)
            BY <3>1 DEF Objects!Nearest
        <3> QED
            BY <1>2, <2>1, <3>2 DEF Objects!Near
    <2> QED
        BY <2>4, <2>5
<1> QED
    BY <1>1, <1>2

\* What a step of the selection does: it finds the target of SelectedIs, finds none, or is
\* armed or disabled.
LEMMA ObjectsSteps ==
    ASSUME ObjectsInvariant, Objects!Next
    PROVE  \/ /\ armed /\ UNCHANGED <<armed, selector>>
              /\ \E seen \in SUBSET Objects!Detections : \E d \in Objects!Candidates(seen) :
                    result' = d.box /\ class' = d.class /\ previous' = d.box /\ fresh' = FALSE
           \/ UNCHANGED <<armed, selector, class, previous, fresh>> /\ result' = Objects!NoBox
           \/ /\ armed' = TRUE /\ selector' \in Boxes /\ class' = 0 /\ previous' = Objects!NoBox
              /\ fresh' = TRUE /\ UNCHANGED result
           \/ /\ armed' = FALSE /\ selector' = Objects!NoBox /\ class' = 0
              /\ previous' = Objects!NoBox /\ fresh' = FALSE /\ UNCHANGED result
<1>1. CASE Objects!Select
    BY <1>1 DEF Objects!Select
<1>2. CASE Objects!Skip
    BY <1>2 DEF Objects!Skip
<1>3. CASE Objects!Arm
    BY <1>3 DEF Objects!Arm, Objects!ArmedClass
<1>4. CASE Objects!Disable
    BY <1>4 DEF Objects!Disable
<1> QED
    BY <1>1, <1>2, <1>3, <1>4 DEF Objects!Next

LEMMA ObjectsStep ==
    ASSUME ObjectsInvariant, [Next]_vars
    PROVE  ObjectsInvariant'
<1>1. CASE UNCHANGED objectsVars
    BY <1>1 DEF objectsVars, ObjectsInvariant, Objects!TypeOK
<1>2. CASE Objects!Next
    <2>1. CASE /\ armed /\ UNCHANGED <<armed, selector>>
               /\ \E seen \in SUBSET Objects!Detections : \E d \in Objects!Candidates(seen) :
                     result' = d.box /\ class' = d.class /\ previous' = d.box /\ fresh' = FALSE
        <3>1. PICK seen \in SUBSET Objects!Detections : \E d \in Objects!Candidates(seen) :
                  result' = d.box /\ class' = d.class /\ previous' = d.box /\ fresh' = FALSE
            BY <2>1
        <3>2. PICK d \in Objects!Candidates(seen) :
                  result' = d.box /\ class' = d.class /\ previous' = d.box /\ fresh' = FALSE
            BY <3>1
        <3>3. d.box \in Boxes /\ d.class \in Classes /\ d.box # Objects!NoBox /\ d.class # 0
            BY SelectedIs, BoxIsOne, ObjectsConstants
        <3> QED
            BY <2>1, <3>2, <3>3 DEF ObjectsInvariant, Objects!TypeOK
    <2>2. CASE UNCHANGED <<armed, selector, class, previous, fresh>> /\ result' = Objects!NoBox
        BY <2>2 DEF ObjectsInvariant, Objects!TypeOK
    <2>3. CASE /\ armed' = TRUE /\ selector' \in Boxes /\ class' = 0 /\ previous' = Objects!NoBox
               /\ fresh' = TRUE /\ UNCHANGED result
        BY <2>3 DEF ObjectsInvariant, Objects!TypeOK
    <2>4. CASE /\ armed' = FALSE /\ selector' = Objects!NoBox /\ class' = 0
               /\ previous' = Objects!NoBox /\ fresh' = FALSE /\ UNCHANGED result
        BY <2>4 DEF ObjectsInvariant, Objects!TypeOK
    <2> QED
        BY <1>2, <2>1, <2>2, <2>3, <2>4, ObjectsSteps
<1> QED
    BY <1>1, <1>2, Zenon DEF Next, vars, Moves, ResultsMoves, TargetMoves, ObjectsMoves, PipelineMoves

\* A box is at no distance of itself.
LEMMA DistanceToItself ==
    ASSUME NEW b \in Boxes
    PROVE  Objects!Distance2(b, b) <= MaxDistance2
<1>1. b.x \in Nat /\ b.y \in Nat /\ b.w \in Nat /\ b.h \in Nat
    BY ObjectsConstants
<1>2. 2 * b.x + b.w - 2 * b.x - b.w = 0 /\ 2 * b.y + b.h - 2 * b.y - b.h = 0
    BY <1>1
<1>3. Objects!Distance2(b, b) = 0 * 0 + 0 * 0
    BY <1>2 DEF Objects!Distance2
<1>4. MaxDistance2 \in Nat
    BY InstancesAssumption DEF Objects!ConstantsAssumption
<1> QED
    BY <1>3, <1>4

LEMMA TargetKept ==
    ASSUME ObjectsInvariant, [Next]_vars
    PROVE  /\ fresh /\ ~ fresh' /\ armed' => Objects!Intersect(selector, previous')
           /\ class # 0 /\ class' # 0 => class' = class
           /\ previous # Objects!NoBox /\ previous' # Objects!NoBox =>
                \/ Objects!Distance2(previous, previous') <= MaxDistance2
                \/ IouDen * Objects!Overlap(previous, previous')
                     >= IouNum * Objects!Union(previous, previous')
<1>0. previous # Objects!NoBox => Objects!Distance2(previous, previous) <= MaxDistance2
    BY DistanceToItself DEF ObjectsInvariant, Objects!TypeOK
<1>1. CASE UNCHANGED objectsVars
    BY <1>0, <1>1 DEF objectsVars
<1>2. CASE Objects!Next
    <2>1. CASE /\ armed /\ UNCHANGED <<armed, selector>>
               /\ \E seen \in SUBSET Objects!Detections : \E d \in Objects!Candidates(seen) :
                     result' = d.box /\ class' = d.class /\ previous' = d.box /\ fresh' = FALSE
        <3>1. PICK seen \in SUBSET Objects!Detections : \E d \in Objects!Candidates(seen) :
                  result' = d.box /\ class' = d.class /\ previous' = d.box /\ fresh' = FALSE
            BY <2>1
        <3>2. PICK d \in Objects!Candidates(seen) :
                  result' = d.box /\ class' = d.class /\ previous' = d.box /\ fresh' = FALSE
            BY <3>1
        <3>3. /\ class = 0 => Objects!Intersect(selector, previous')
              /\ class # 0 =>
                   /\ class' = class
                   /\ \/ Objects!Distance2(previous, previous') <= MaxDistance2
                      \/ IouDen * Objects!Overlap(previous, previous')
                           >= IouNum * Objects!Union(previous, previous')
            <4>1. previous' = d.box /\ class' = d.class
                BY <3>2
            <4> QED
                BY <4>1, SelectedIs, Zenon
        <3>4. (fresh => class = 0) /\ (previous # Objects!NoBox => class # 0)
            BY DEF ObjectsInvariant, Objects!TypeOK
        <3> QED
            BY <3>3, <3>4, Zenon
    <2>2. CASE UNCHANGED <<armed, selector, class, previous, fresh>> /\ result' = Objects!NoBox
        BY <1>0, <2>2
    <2>3. CASE /\ armed' = TRUE /\ selector' \in Boxes /\ class' = 0 /\ previous' = Objects!NoBox
               /\ fresh' = TRUE /\ UNCHANGED result
        BY <2>3
    <2>4. CASE /\ armed' = FALSE /\ selector' = Objects!NoBox /\ class' = 0
               /\ previous' = Objects!NoBox /\ fresh' = FALSE /\ UNCHANGED result
        BY <2>4
    <2> QED
        BY <1>2, <2>1, <2>2, <2>3, <2>4, ObjectsSteps
<1> QED
    BY <1>1, <1>2, Zenon DEF Next, vars, Moves, ResultsMoves, TargetMoves, ObjectsMoves, PipelineMoves

\* Whatever is detected and whenever a selection is armed or disabled, for every image and every
\* threshold: a lock begins in its reticle, keeps its class, and never jumps.
THEOREM TargetStaysKept == Spec => TargetIsKept
<1>1. Init => ObjectsInvariant
    BY ObjectsInit DEF Init
<1>2. ObjectsInvariant /\ [Next]_vars => ObjectsInvariant'
    BY ObjectsStep
<1>3. ObjectsInvariant => Objects!TypeOK
    BY DEF ObjectsInvariant
<1>4. ObjectsInvariant /\ [Next]_vars
          => [fresh /\ ~ fresh' /\ armed' => Objects!Intersect(selector, previous')]_Objects!vars
    BY TargetKept
<1>5. ObjectsInvariant /\ [Next]_vars => [class # 0 /\ class' # 0 => class' = class]_Objects!vars
    BY TargetKept
<1>6. ObjectsInvariant /\ [Next]_vars
          => [previous # Objects!NoBox /\ previous' # Objects!NoBox =>
                \/ Objects!Distance2(previous, previous') <= MaxDistance2
                \/ IouDen * Objects!Overlap(previous, previous')
                     >= IouNum * Objects!Union(previous, previous')]_Objects!vars
    BY TargetKept
<1> QED
    BY <1>1, <1>2, <1>3, <1>4, <1>5, <1>6, PTL
       DEF Spec, TargetIsKept, Objects!FirstIsInReticle, Objects!ClassIsKept, Objects!TargetMovesSmoothly

----------------------------------------------------------------------------
(* The configuration.                                                         *)

\* The source a file may have.
FileSources ==
    {s \in [type : Config!Sources, place : {"ok"}, rate : {"absent", "ok"}] :
        s.type = "camera" => s.rate = "absent"}

\* The source without the command line.
SourceBelow == IF yaml.source = Config!NoSource THEN Config!NoSource ELSE Config!FileSource

\* Until it is resolved the configuration has the defaults, afterwards it has the source of the
\* layers, and what is built was found valid.
ConfigInvariant ==
    /\ phase \in {"parse", "read", "read tracker", "read zmq", "read rest", "resolve", "validate",
                  "build", "rejected", "shown", "playing"}
    /\ command \in {"show", "run"} /\ cli \in Config!Sources \cup {"none"}
    /\ "source" \in DOMAIN yaml /\ yaml.source \in FileSources \cup {Config!NoSource}
    /\ phase \in {"parse", "read", "read tracker", "read zmq", "read rest", "resolve"}
          => config = Config!Defaults
    /\ phase \in {"validate", "build", "shown", "playing"}
          => config.source = IF cli = "none" THEN SourceBelow ELSE Config!MergedSource(SourceBelow, cli)
    /\ phase \in {"build", "shown", "playing"} => Config!IsValid(config)

LEMMA ConfigInit == Config!Init => ConfigInvariant
BY DEF Config!Init, ConfigInvariant, Config!Empty

LEMMA ReadKeeps ==
    ASSUME ConfigInvariant, Config!Parse \/ Config!Unreadable \/ Config!ReadSource
    PROVE  ConfigInvariant'
<1>1. CASE Config!Parse
    BY <1>1 DEF Config!Parse, ConfigInvariant, Config!Reject
<1>2. CASE Config!Unreadable
    BY <1>2 DEF Config!Unreadable, ConfigInvariant, Config!Reject
<1>3. CASE Config!ReadSource
    <2>1. /\ phase = "read" /\ UNCHANGED <<command, cli, config>> /\ phase' \in {"read tracker", "rejected"}
        BY <1>3 DEF Config!ReadSource, Config!Reject, Config!Into
    <2>2. \/ yaml' = yaml
          \/ \E s \in FileSources : yaml' = [yaml EXCEPT !.source = s]
        <3>1. SUFFICES ASSUME yaml' # yaml PROVE \E s \in FileSources : yaml' = [yaml EXCEPT !.source = s]
            OBVIOUS
        <3>2. PICK type \in Config!Sources \cup {"unknown"}, rate \in Config!Value :
                  /\ type # "unknown" /\ (type # "camera" => rate \notin {"range", "bad"})
                  /\ yaml' = [yaml EXCEPT !.source = [type |-> type, place |-> "ok",
                                 rate |-> IF type = "camera" THEN "absent" ELSE rate]]
            BY <1>3, <3>1 DEF Config!ReadSource, Config!Reject
        <3>3. [type |-> type, place |-> "ok", rate |-> IF type = "camera" THEN "absent" ELSE rate]
                  \in FileSources
            BY <3>2 DEF FileSources, Config!Sources, Config!Value
        <3> QED
            BY <3>2, <3>3
    <2>3. "source" \in DOMAIN yaml' /\ yaml'.source \in FileSources \cup {Config!NoSource}
        BY <2>2 DEF ConfigInvariant
    <2> QED
        BY <2>1, <2>3 DEF ConfigInvariant
<1> QED
    BY <1>1, <1>2, <1>3

LEMMA SectionsKeep ==
    ASSUME ConfigInvariant, Config!ReadTracker \/ Config!ReadZmq \/ Config!ReadRest
    PROVE  ConfigInvariant'
<1>1. /\ phase \in {"read tracker", "read zmq", "read rest"} /\ UNCHANGED <<command, cli, config>>
      /\ phase' \in {"read zmq", "read rest", "resolve", "rejected"}
    BY DEF Config!ReadTracker, Config!ReadZmq, Config!ReadRest, Config!Reject, Config!Into
<1>2. "source" \in DOMAIN yaml' /\ yaml'.source = yaml.source
    <2>0. "source" \in DOMAIN yaml
        BY DEF ConfigInvariant
    <2>1. CASE Config!ReadTracker
        <3>1. \/ yaml' = yaml
              \/ \E v : yaml' = [yaml EXCEPT !.detector = v]
              \/ \E v : yaml' = [yaml EXCEPT !.tracker = v]
            BY <2>1 DEF Config!ReadTracker, Config!Reject
        <3> QED
            BY <2>0, <3>1
    <2>2. CASE Config!ReadZmq
        <3>1. yaml' = yaml \/ \E v : yaml' = [yaml EXCEPT !.zmq = v]
            BY <2>2 DEF Config!ReadZmq, Config!Reject
        <3> QED
            BY <2>0, <3>1
    <2>3. CASE Config!ReadRest
        <3>1. yaml' = yaml \/ \E v, w : yaml' = [yaml EXCEPT !.selector = v, !.port = w]
            BY <2>3 DEF Config!ReadRest, Config!Reject
        <3> QED
            BY <2>0, <3>1
    <2> QED
        BY <2>1, <2>2, <2>3
<1> QED
    BY <1>1, <1>2 DEF ConfigInvariant

\* Over the defaults, resolving layers only the file and the command line.
LEMMA ResolveKeeps ==
    ASSUME ConfigInvariant, Config!Resolve
    PROVE  ConfigInvariant'
<1>1. /\ phase = "resolve" /\ phase' = "validate" /\ UNCHANGED <<command, cli, yaml>>
      /\ config' = Config!Resolved
    BY DEF Config!Resolve
<1>2. config.source = Config!NoSource
    BY <1>1 DEF ConfigInvariant, Config!Defaults
<1>3. config'.source = IF cli = "none" THEN SourceBelow ELSE Config!MergedSource(SourceBelow, cli)
    BY <1>1, <1>2 DEF Config!Resolved, SourceBelow
<1>4. SourceBelow' = SourceBelow
    BY <1>1 DEF SourceBelow, Config!FileSource
<1>5. config'.source = IF cli' = "none" THEN SourceBelow' ELSE Config!MergedSource(SourceBelow', cli')
    BY <1>1, <1>3, <1>4
<1> QED
    BY <1>1, <1>5 DEF ConfigInvariant

\* A valid configuration draws only on a tracker that runs.
LEMMA ValidIsBuilt ==
    ASSUME NEW c, Config!IsValid(c)
    PROVE  Config!Wanted(Config!Tracker(c)) \subseteq Config!Built(Config!Tracker(c))
BY DEF Config!IsValid, Config!TrackerIsValid, Config!Wanted, Config!Built

LEMMA EndsKeep ==
    ASSUME ConfigInvariant, Config!Validate \/ Config!Build
    PROVE  ConfigInvariant'
<1>1. UNCHANGED <<command, cli, yaml, config>>
    BY DEF Config!Validate, Config!Build
<1>2. SourceBelow' = SourceBelow
    BY <1>1 DEF SourceBelow, Config!FileSource
<1>3. CASE Config!Validate
    <2>1. /\ phase = "validate" /\ phase' \in {"build", "rejected"}
          /\ phase' = "build" => Config!IsValid(config)
        BY <1>3 DEF Config!Validate
    <2> QED
        BY <1>1, <1>2, <2>1 DEF ConfigInvariant
<1>4. CASE Config!Build
    <2>1. phase = "build" /\ phase' \in {"shown", "playing", "broken"}
        BY <1>4 DEF Config!Build
    <2>2. Config!IsValid(config)
        BY <2>1 DEF ConfigInvariant
    <2>3. phase' # "broken"
        BY <1>4, <2>2, ValidIsBuilt DEF Config!Build
    <2> QED
        BY <1>1, <1>2, <2>1, <2>2, <2>3 DEF ConfigInvariant
<1> QED
    BY <1>3, <1>4

LEMMA ConfigStep ==
    ASSUME ConfigInvariant, [Next]_vars
    PROVE  ConfigInvariant'
<1>1. CASE UNCHANGED pipelineVars
    <2>1. SourceBelow' = SourceBelow
        BY <1>1 DEF SourceBelow, Config!FileSource, pipelineVars
    <2> QED
        BY <1>1, <2>1 DEF ConfigInvariant, pipelineVars
<1>2. CASE Config!Next
    BY <1>2, ReadKeeps, SectionsKeep, ResolveKeeps, EndsKeep DEF Config!Next
<1> QED
    BY <1>1, <1>2, Zenon DEF Next, vars, Moves, ResultsMoves, TargetMoves, ObjectsMoves, PipelineMoves

\* What the layers make of a source.
LEMMA SourceOf ==
    ASSUME ConfigInvariant, phase \in {"build", "shown", "playing"}
    PROVE  LET type == IF cli = "none" THEN yaml.source.type ELSE cli
               given == yaml.source.type = type /\ yaml.source.rate = "ok"
           IN  /\ type \in Config!Sources /\ config.source.type = type
               /\ config.source.place \in {"yaml", "cli"}
               /\ config.source.place = "cli" <=> cli # "none"
               /\ config.source.rate \in (IF type = "camera" THEN {"none"} ELSE {"default", "yaml"})
               /\ type # "camera" => (config.source.rate = "yaml" <=> given)
<1>1. /\ config.source.type # "none" /\ cli \in Config!Sources \cup {"none"}
      /\ config.source = IF cli = "none" THEN SourceBelow ELSE Config!MergedSource(SourceBelow, cli)
      /\ yaml.source \in FileSources \cup {Config!NoSource}
    BY DEF ConfigInvariant, Config!IsValid
<1>2. yaml.source \in FileSources =>
          /\ yaml.source.type \in Config!Sources /\ yaml.source.rate \in {"absent", "ok"}
          /\ yaml.source # Config!NoSource
    BY DEF FileSources, Config!NoSource, Config!Sources
<1>3. yaml.source = Config!NoSource => yaml.source.type = "none"
    BY DEF Config!NoSource
<1>4. CASE cli = "none"
    <2>1. yaml.source \in FileSources /\ config.source = Config!FileSource
        BY <1>1, <1>4 DEF SourceBelow, Config!NoSource
    <2> QED
        BY <1>2, <1>4, <2>1 DEF Config!FileSource
<1>5. CASE cli # "none" /\ yaml.source = Config!NoSource
    <2>1. config.source = Config!MergedSource(Config!NoSource, cli) /\ cli \in Config!Sources
        BY <1>1, <1>5 DEF SourceBelow
    <2>2. Config!NoSource.type # cli
        BY <2>1 DEF Config!NoSource, Config!Sources
    <2> QED
        BY <1>3, <1>5, <2>1, <2>2 DEF Config!MergedSource
<1>6. CASE cli # "none" /\ yaml.source \in FileSources
    <2>1. config.source = Config!MergedSource(Config!FileSource, cli) /\ cli \in Config!Sources
        BY <1>1, <1>2, <1>6 DEF SourceBelow
    <2>2. /\ config.source.type = cli /\ config.source.place = "cli"
          /\ config.source.rate = IF Config!FileSource.type = cli THEN Config!FileSource.rate
                                  ELSE IF cli = "camera" THEN "none" ELSE "default"
        BY <2>1 DEF Config!MergedSource
    <2>3. /\ Config!FileSource.type = yaml.source.type
          /\ Config!FileSource.rate = IF yaml.source.type = "camera" THEN "none"
                                      ELSE IF yaml.source.rate = "absent" THEN "default" ELSE "yaml"
        BY DEF Config!FileSource
    <2> QED
        BY <1>2, <1>6, <2>1, <2>2, <2>3
<1> QED
    BY <1>1, <1>4, <1>5, <1>6

LEMMA ConfigSound ==
    ASSUME ConfigInvariant
    PROVE  PipelinePlays
<1>1. Config!TypeOK
    <2>1. phase \in {"build", "shown", "playing"} =>
              /\ config.source.type \in Config!Sources /\ config.source.place \in {"yaml", "cli"}
              /\ config.source.rate
                    \in (IF config.source.type = "camera" THEN {"none"} ELSE {"default", "yaml"})
        BY SourceOf
    <2>2. /\ phase \in {"parse", "read", "read tracker", "read zmq", "read rest", "resolve", "validate",
                        "build", "rejected", "shown", "playing", "broken"}
          /\ command \in {"show", "run"} /\ cli \in Config!Sources \cup {"none"}
        BY DEF ConfigInvariant
    <2> QED
        BY <2>1, <2>2 DEF Config!TypeOK
<1>2. Config!SourceIsTheMostSpecific
    BY SourceOf DEF Config!SourceIsTheMostSpecific
<1>3. Config!ElementsAreFound
    BY DEF ConfigInvariant, Config!ElementsAreFound
<1>4. Config!ResultsHaveATracker
    BY DEF ConfigInvariant, Config!IsValid, Config!ZmqIsValid, Config!Built, Config!ResultsHaveATracker
<1> QED
    BY <1>1, <1>2, <1>3, <1>4 DEF PipelinePlays

\* Whatever the file and the command line say: an accepted configuration takes its source from
\* the most specific layer, has the elements the runner looks up, and a tracker for its results.
THEOREM AcceptedPipelinesPlay == Spec => []PipelinePlays
<1>1. Init => ConfigInvariant
    BY ConfigInit DEF Init
<1>2. ConfigInvariant /\ [Next]_vars => ConfigInvariant'
    BY ConfigStep
<1>3. ConfigInvariant => PipelinePlays
    BY ConfigSound
<1> QED
    BY <1>1, <1>2, <1>3, PTL DEF Spec

=============================================================================
