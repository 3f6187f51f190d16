---------------------------- MODULE Services_proofs ----------------------------
(* The services and threads around the control loop, each by itself and       *)
(* behind the composition that the run checks, for every bound on attempts    *)
(* and samples and every set of snapshots.                                    *)
EXTENDS MCServices, SequenceTheorems, TLAPS

----------------------------------------------------------------------------
(* The vehicle's readings.                                                    *)

\* What TypeOK leaves open: the take-off controller has a whole sample or none.
VehicleTypes ==
    /\ Vehicle!TypeOK
    /\ takeoff \in [alt : Vehicle!Samples \cup {None}, time : Vehicle!Samples \cup {None},
                    speed : Int]
    /\ takeoff.alt = None <=> takeoff.time = None

\* No copy is newer than the dictionary last published, and the copies of a pass
\* are ordered as they were made.
CopiesAreOrdered ==
    /\ \A n \in {seen, held, ctx.alt, ctx.speed, ctx.time} : n <= published["altitude"]
    /\ loop = "dictionary" => seen <= ctx.alt
    /\ loop \in {"time", "attitude", "control"} =>
            seen <= ctx.alt /\ ctx.alt <= ctx.speed /\ held = ctx.speed
    /\ loop \in {"attitude", "control"} => ctx.time \in {0, ctx.speed}
    /\ ctx.attitude_time \in {0, ctx.attitude}

VehicleInvariant == VehicleTypes /\ CopiesAreOrdered

LEMMA VehicleInit == Vehicle!Init => VehicleInvariant
BY InstancesAssumption DEF Vehicle!SampleAssumption, Vehicle!Init, Vehicle!Readings,
   Vehicle!Samples, VehicleInvariant, VehicleTypes, Vehicle!TypeOK, CopiesAreOrdered

\* The worker publishes and stamps; it touches no copy.
LEMMA WorkerKeepsCopies ==
    ASSUME VehicleInvariant, Vehicle!Worker
    PROVE  VehicleInvariant'
<1>1. PICK r \in Vehicle!Readings : Vehicle!Publish(r) \/ Vehicle!Stamp(r)
    BY DEF Vehicle!Worker
<1>2. UNCHANGED <<loop, held, seen, ctx, takeoff>>
    BY <1>1 DEF Vehicle!Publish, Vehicle!Stamp, Vehicle!workerUnchanged
<1>3. /\ MaxSample \in Nat /\ r \in {"altitude", "attitude"}
      /\ published \in [{"altitude", "attitude"} -> 0..MaxSample]
      /\ stamped \in [{"altitude", "attitude"} -> 0..MaxSample]
    BY <1>1, InstancesAssumption DEF Vehicle!SampleAssumption, VehicleInvariant, VehicleTypes,
       Vehicle!TypeOK, Vehicle!Readings, Vehicle!Samples
<1>4. /\ published' \in [{"altitude", "attitude"} -> 0..MaxSample]
      /\ stamped' \in [{"altitude", "attitude"} -> 0..MaxSample]
      /\ published["altitude"] <= published'["altitude"]
    BY <1>1, <1>3 DEF Vehicle!Publish, Vehicle!Stamp
<1>5. worker' \in {"idle"} \cup Vehicle!Readings
    BY <1>1 DEF Vehicle!Publish, Vehicle!Stamp
<1>6. VehicleTypes'
    BY <1>2, <1>4, <1>5 DEF VehicleInvariant, VehicleTypes, Vehicle!TypeOK, Vehicle!Readings,
       Vehicle!Samples
<1>7. {seen, held, ctx.alt, ctx.speed, ctx.time} \subseteq Int
    BY <1>3 DEF VehicleInvariant, VehicleTypes, Vehicle!TypeOK, Vehicle!Samples
<1>8. CopiesAreOrdered'
    BY <1>2, <1>3, <1>4, <1>7 DEF VehicleInvariant, CopiesAreOrdered
<1> QED
    BY <1>6, <1>8 DEF VehicleInvariant

\* A pass of the control loop makes its copies in order.
LEMMA LoopKeepsCopies ==
    ASSUME VehicleInvariant, Vehicle!Loop
    PROVE  VehicleInvariant'
<1>1. UNCHANGED <<worker, published, stamped>>
    BY DEF Vehicle!Loop, Vehicle!BeginPass, Vehicle!ReadAltitude, Vehicle!ReadSpeed,
       Vehicle!ReadTime, Vehicle!ReadAttitude, Vehicle!Control, Vehicle!loopUnchanged
<1>2. /\ MaxSample \in Nat /\ None \notin 0..MaxSample
      /\ published \in [{"altitude", "attitude"} -> 0..MaxSample]
      /\ stamped \in [{"altitude", "attitude"} -> 0..MaxSample]
      /\ held \in 0..MaxSample /\ seen \in 0..MaxSample
      /\ ctx \in [alt : 0..MaxSample, speed : 0..MaxSample, time : 0..MaxSample,
                  attitude : 0..MaxSample, attitude_time : 0..MaxSample]
    BY InstancesAssumption DEF Vehicle!SampleAssumption, VehicleInvariant, VehicleTypes,
       Vehicle!TypeOK, Vehicle!Readings, Vehicle!Samples
<1>3. ASSUME NEW r \in {"altitude", "attitude"}, NEW n \in 0..MaxSample
      PROVE  Vehicle!ReceivedAt(r, n) \in {0, n}
    BY <1>3 DEF Vehicle!ReceivedAt
<1> USE DEF VehicleInvariant, VehicleTypes, Vehicle!TypeOK, Vehicle!Readings,
            Vehicle!Samples, CopiesAreOrdered
<1>4. CASE Vehicle!BeginPass
    BY <1>1, <1>2, <1>4 DEF Vehicle!BeginPass
<1>5. CASE Vehicle!ReadAltitude
    BY <1>1, <1>2, <1>5 DEF Vehicle!ReadAltitude
<1>6. CASE Vehicle!ReadSpeed
    BY <1>1, <1>2, <1>6 DEF Vehicle!ReadSpeed
<1>7. CASE Vehicle!ReadTime
    BY <1>1, <1>2, <1>3, <1>7 DEF Vehicle!ReadTime, Vehicle!TimeOfTheSample
<1>8. CASE Vehicle!ReadAttitude
    <2> DEFINE n == published["attitude"]
               t == Vehicle!ReceivedAt("attitude", n)
    <2>1. n \in 0..MaxSample /\ t \in {0, n} /\ t \in 0..MaxSample
        BY <1>2, <1>3
    <2>2. ctx' = [ctx EXCEPT !.attitude = n, !.attitude_time = t]
        BY <1>8 DEF Vehicle!ReadAttitude
    <2>3. loop = "attitude" /\ loop' = "control" /\ UNCHANGED <<held, seen, takeoff>>
        BY <1>8 DEF Vehicle!ReadAttitude
    <2> HIDE DEF n, t
    <2>4. ctx'.alt = ctx.alt /\ ctx'.speed = ctx.speed /\ ctx'.time = ctx.time
          /\ ctx'.attitude = n /\ ctx'.attitude_time = t
        BY <1>2, <2>2
    <2>5. ctx' \in [alt : 0..MaxSample, speed : 0..MaxSample, time : 0..MaxSample,
                    attitude : 0..MaxSample, attitude_time : 0..MaxSample]
        BY <1>2, <2>1, <2>2
    <2>6. VehicleTypes'
        BY <1>1, <2>3, <2>5
    <2>7. CopiesAreOrdered'
        BY <1>1, <2>1, <2>3, <2>4
    <2> QED
        BY <2>6, <2>7
<1>9. CASE Vehicle!Control
    <2>1. ctx' = ctx /\ held' = held /\ seen' = seen /\ loop' = "begin"
          /\ takeoff' = Vehicle!Derived
        BY <1>9 DEF Vehicle!Control
    <2>2. CASE takeoff.alt = None
        <3>1. takeoff' = [alt |-> ctx.alt, time |-> ctx.time, speed |-> 0]
            BY <2>1, <2>2 DEF Vehicle!Derived
        <3> QED
            BY <1>1, <1>2, <2>1, <3>1
    <2>3. CASE takeoff.alt # None /\ ctx.time <= takeoff.time
        BY <1>1, <1>2, <2>1, <2>3 DEF Vehicle!Derived
    <2>4. CASE takeoff.alt # None /\ ~(ctx.time <= takeoff.time)
        <3> DEFINE speed == (ctx.alt - takeoff.alt) \div (ctx.time - takeoff.time)
        <3>1. takeoff.alt \in 0..MaxSample /\ takeoff.time \in 0..MaxSample
            BY <2>4
        <3>2. ctx.time - takeoff.time \in Nat \ {0} /\ ctx.alt - takeoff.alt \in Int
            BY <1>2, <2>4, <3>1
        <3>3. speed \in Int
            BY <3>2
        <3>4. takeoff' = [alt |-> ctx.alt, time |-> ctx.time, speed |-> speed]
            BY <2>1, <2>4 DEF Vehicle!Derived
        <3> HIDE DEF speed
        <3> QED
            BY <1>1, <1>2, <2>1, <3>3, <3>4
    <2> QED
        BY <2>2, <2>3, <2>4
<1> QED
    BY <1>4, <1>5, <1>6, <1>7, <1>8, <1>9 DEF Vehicle!Loop

\* Neither a step of the worker nor one of the loop breaks the order.
LEMMA VehicleStep == VehicleInvariant /\ [Vehicle!Next]_vehicleVars => VehicleInvariant'
<1>1. ASSUME VehicleInvariant, UNCHANGED vehicleVars
      PROVE  VehicleInvariant'
    BY <1>1 DEF vehicleVars, VehicleInvariant, VehicleTypes, Vehicle!TypeOK, CopiesAreOrdered
<1> QED
    BY <1>1, WorkerKeepsCopies, LoopKeepsCopies DEF Vehicle!Next

LEMMA VehicleInvariantImplies ==
    VehicleInvariant => Vehicle!TypeOK /\ Vehicle!SpeedHasItsTime /\ Vehicle!PassIsCurrent
BY DEF VehicleInvariant, VehicleTypes, CopiesAreOrdered, Vehicle!SpeedHasItsTime,
   Vehicle!PassIsCurrent

\* A step of the composition is a step of the vehicle, or leaves it alone.
LEMMA NextIsVehicleStep == [Next]_vars => [Vehicle!Next]_vehicleVars
BY DEF Next, ListenerMoves, LifecycleMoves, VehicleMoves, BlackboxMoves, TrackerMoves,
   ResultsMoves, Moves, vars

\* However often the worker publishes while the loop copies, the speed and the
\* attitude of a pass come with their own time or with none, and a pass uses
\* nothing older than what was published when it began.
THEOREM ReadingsCorrect == Spec => []ReadingsAreCurrent
<1>1. Init => VehicleInvariant
    BY VehicleInit DEF Init
<1>2. VehicleInvariant /\ [Next]_vars => VehicleInvariant'
    BY VehicleStep, NextIsVehicleStep
<1>3. VehicleInvariant => ReadingsAreCurrent
    BY VehicleInvariantImplies DEF ReadingsAreCurrent
<1> QED
    BY <1>1, <1>2, <1>3, PTL DEF Spec

----------------------------------------------------------------------------
(* The application lifecycle.                                                 *)

\* What TypeOK leaves open: a call of stop_all returns into the code behind it,
\* and an exception has the exit code of one.
LifecycleTypes ==
    /\ Lifecycle!TypeOK
    /\ after \in {"none", "failed", "finally", "stopped"}
    /\ pc = "stopping" => after # "none"
    /\ error \in 0..4

\* cleanup is an end of stop_all's list.
CleanupIsSuffix ==
    /\ Len(cleanup) \in 0..7
    /\ \A i \in 1..Len(cleanup) : cleanup[i] = Lifecycle!StopOrder[7 - Len(cleanup) + i]

ToStop == {cleanup[i] : i \in 1..Len(cleanup)}

\* While the services start, those before the next one run and no other does.
StartedSoFar ==
    /\ pc \in {"parse", "configure", "validate"} => next_start = 1
    /\ pc \in {"parse", "configure", "validate", "start"} =>
            /\ started = {Lifecycle!StartOrder[i] : i \in 1..(next_start - 1)}
            /\ running = started
            /\ stops = [s \in Lifecycle!Services |-> 0]
    /\ pc \in {"announce", "loop"} =>
            stops = [s \in Lifecycle!Services |-> 0] /\ "drone" \in started

\* A service that is still listed as started has had its stop exactly if the
\* stop_all under way is past it; one that runs unlisted has had it before.
ListedOrStopped ==
    /\ \A s \in started :
            stops[s] = IF pc = "stopping" /\ s \notin ToStop THEN 1 ELSE 0
    /\ \A s \in running \ started : stops[s] = 1
    /\ \A s \in Lifecycle!Services : stops[s] <= 1
    /\ "mavlink" \in started => "blackbox" \in started
    /\ pc \in {"stopped", "exited"} => started = {}

\* A frame is repeated from the loop on, until stop_all reaches the drone.
RepeatsUntilFirstStop ==
    repeating =>
        /\ pc \in {"loop", "finally", "stopping"}
        /\ pc = "stopping" => Len(cleanup) = 7
        /\ "drone" \in started
        /\ \A s \in Lifecycle!Services : stops[s] = 0

LifecycleInvariant ==
    /\ LifecycleTypes /\ CleanupIsSuffix /\ StartedSoFar /\ ListedOrStopped
    /\ RepeatsUntilFirstStop

ServiceNames == {"visual", "drone", "joystick", "blackbox", "mavlink", "selector"}

\* The two orders name the services, each once, and list the parameters last.
LEMMA Orders ==
    /\ Lifecycle!Services = ServiceNames
    /\ Lifecycle!Range(Lifecycle!StopOrder) = ServiceNames \cup {"parameters"}
    /\ Len(Lifecycle!StartOrder) = 6 /\ Len(Lifecycle!StopOrder) = 7
    /\ Lifecycle!StopOrder \in Seq(ServiceNames \cup {"parameters"})
    /\ \A i \in 1..6 : Lifecycle!StartOrder[i] \in ServiceNames
    /\ \A s \in ServiceNames : \E i \in 1..7 : Lifecycle!StopOrder[i] = s
    /\ \A i, j \in 1..6 : Lifecycle!StartOrder[i] = Lifecycle!StartOrder[j] => i = j
    /\ \A i, j \in 1..7 : Lifecycle!StopOrder[i] = Lifecycle!StopOrder[j] => i = j
    /\ \A i \in 1..6 : Lifecycle!StartOrder[i] = "drone" => i = 2
    /\ \A i \in 1..6 : Lifecycle!StartOrder[i] = "mavlink" => i = 5
    /\ Lifecycle!StartOrder[2] = "drone" /\ Lifecycle!StartOrder[4] = "blackbox"
    /\ Lifecycle!StopOrder[1] = "drone"
    /\ Lifecycle!StopOrder[4] = "mavlink" /\ Lifecycle!StopOrder[5] = "blackbox"
<1>1. 1..6 = {1, 2, 3, 4, 5, 6} /\ 1..7 = {1, 2, 3, 4, 5, 6, 7}
    OBVIOUS
<1>2. DOMAIN Lifecycle!StartOrder = 1..6 /\ DOMAIN Lifecycle!StopOrder = 1..7
    BY DEF Lifecycle!StartOrder, Lifecycle!StopOrder
<1>3. Lifecycle!Services = ServiceNames
    BY <1>1, <1>2 DEF Lifecycle!Services, Lifecycle!Range, Lifecycle!StartOrder, ServiceNames
<1>4. Lifecycle!Range(Lifecycle!StopOrder) = ServiceNames \cup {"parameters"}
    BY <1>1, <1>2 DEF Lifecycle!Range, Lifecycle!StopOrder, ServiceNames
<1>5. Len(Lifecycle!StartOrder) = 6 /\ Len(Lifecycle!StopOrder) = 7
    BY DEF Lifecycle!StartOrder, Lifecycle!StopOrder
<1>6. Lifecycle!StopOrder \in Seq(ServiceNames \cup {"parameters"})
    BY DEF Lifecycle!StopOrder, ServiceNames
<1>7. \A i \in 1..6 : Lifecycle!StartOrder[i] \in ServiceNames
    BY <1>1 DEF Lifecycle!StartOrder, ServiceNames
<1>8. \A s \in ServiceNames : \E i \in 1..7 : Lifecycle!StopOrder[i] = s
    BY <1>1 DEF Lifecycle!StopOrder, ServiceNames
<1>9. \A i, j \in 1..6 : Lifecycle!StartOrder[i] = Lifecycle!StartOrder[j] => i = j
    BY <1>1 DEF Lifecycle!StartOrder
<1>10. \A i, j \in 1..7 : Lifecycle!StopOrder[i] = Lifecycle!StopOrder[j] => i = j
    BY <1>1 DEF Lifecycle!StopOrder
<1>11. /\ \A i \in 1..6 : Lifecycle!StartOrder[i] = "drone" => i = 2
       /\ \A i \in 1..6 : Lifecycle!StartOrder[i] = "mavlink" => i = 5
       /\ Lifecycle!StartOrder[2] = "drone" /\ Lifecycle!StartOrder[4] = "blackbox"
    BY <1>1 DEF Lifecycle!StartOrder
<1>12. /\ Lifecycle!StopOrder[1] = "drone"
       /\ Lifecycle!StopOrder[4] = "mavlink" /\ Lifecycle!StopOrder[5] = "blackbox"
    BY DEF Lifecycle!StopOrder
<1> QED
    BY <1>3, <1>4, <1>5, <1>6, <1>7, <1>8, <1>9, <1>10, <1>11, <1>12

LEMMA LifecycleInit == Lifecycle!Init => LifecycleInvariant
<1> SUFFICES ASSUME Lifecycle!Init PROVE LifecycleInvariant
    OBVIOUS
<1> USE DEF Lifecycle!Init
<1>1. LifecycleTypes
    BY Orders, InstancesAssumption DEF LifecycleTypes, Lifecycle!TypeOK, Lifecycle!SUCCESS,
       Lifecycle!AttemptsAssumption
<1>2. CleanupIsSuffix /\ RepeatsUntilFirstStop
    BY DEF CleanupIsSuffix, RepeatsUntilFirstStop
<1>3. StartedSoFar
    BY DEF StartedSoFar
<1>4. ListedOrStopped
    BY DEF ListedOrStopped
<1> QED
    BY <1>1, <1>2, <1>3, <1>4 DEF LifecycleInvariant

\* A call of stop_all has every service before it.
LEMMA StopAllBegins ==
    ASSUME cleanup' = Lifecycle!StopOrder
    PROVE  /\ cleanup' \in Seq(Lifecycle!Range(Lifecycle!StopOrder))
           /\ Len(cleanup') = 7
           /\ CleanupIsSuffix'
           /\ \A s \in ServiceNames : s \in ToStop'
BY Orders DEF CleanupIsSuffix, ToStop

\* The steps of the main thread that start and stop nothing, and the signals.
LEMMA QuietStep ==
    ASSUME LifecycleInvariant,
           \/ Lifecycle!Parse \/ Lifecycle!Configure \/ Lifecycle!Validate
           \/ Lifecycle!Announce \/ Lifecycle!Frame \/ Lifecycle!LeaveLoop
           \/ Lifecycle!LoopRaises \/ Lifecycle!Exit \/ Lifecycle!Signal
    PROVE  LifecycleInvariant'
<1> USE DEF Lifecycle!Parse, Lifecycle!Configure, Lifecycle!Validate, Lifecycle!Announce,
            Lifecycle!Frame, Lifecycle!LeaveLoop, Lifecycle!LoopRaises, Lifecycle!Exit,
            Lifecycle!Signal, Lifecycle!startUnchanged, Lifecycle!service_vars,
            LifecycleInvariant
<1>1. UNCHANGED <<next_start, attempt, started, running, stops, cleanup, after>>
    OBVIOUS
<1>2. CleanupIsSuffix' /\ ToStop' = ToStop
    BY <1>1 DEF CleanupIsSuffix, ToStop
<1>3. LifecycleTypes'
    BY <1>1 DEF LifecycleTypes, Lifecycle!TypeOK, Lifecycle!SUCCESS, Lifecycle!STARTUP_ERROR,
       Lifecycle!CLI_USAGE_ERROR, Lifecycle!SERIAL_PORT_NOT_FOUND
<1>4. StartedSoFar'
    BY <1>1 DEF StartedSoFar
<1>5. ListedOrStopped'
    BY <1>1, <1>2 DEF ListedOrStopped, StartedSoFar
<1>6. RepeatsUntilFirstStop'
    BY <1>1 DEF RepeatsUntilFirstStop, StartedSoFar
<1> QED
    BY <1>2, <1>3, <1>4, <1>5, <1>6

\* The service that is to start is not listed, and nothing was stopped so far.
LEMMA StartingFacts ==
    ASSUME LifecycleInvariant, pc = "start"
    PROVE  /\ next_start \in 1..6 /\ Lifecycle!Starting = Lifecycle!StartOrder[next_start]
           /\ Lifecycle!Starting \in ServiceNames \ started
           /\ started = {Lifecycle!StartOrder[i] : i \in 1..(next_start - 1)}
           /\ running = started /\ started \subseteq ServiceNames
           /\ stops = [s \in ServiceNames |-> 0]
           /\ ~repeating
<1>1. next_start \in 1..6
    BY Orders DEF LifecycleInvariant, LifecycleTypes, Lifecycle!TypeOK
<1>2. Lifecycle!Starting = Lifecycle!StartOrder[next_start]
    BY DEF Lifecycle!Starting
<1>3. started = {Lifecycle!StartOrder[i] : i \in 1..(next_start - 1)} /\ running = started
      /\ stops = [s \in ServiceNames |-> 0]
    BY Orders DEF LifecycleInvariant, StartedSoFar
<1>4. Lifecycle!Starting \in ServiceNames \ started
    BY <1>1, <1>2, <1>3, Orders
<1>5. ~repeating /\ started \subseteq ServiceNames
    BY Orders DEF LifecycleInvariant, LifecycleTypes, Lifecycle!TypeOK, RepeatsUntilFirstStop
<1> QED
    BY <1>1, <1>2, <1>3, <1>4, <1>5

\* A service that starts is listed; the start goes on or is complete.
LEMMA StartedStep ==
    ASSUME LifecycleInvariant, pc = "start", Lifecycle!Started(Lifecycle!Starting),
           attempt' \in 1..FCU_CONNECT_ATTEMPTS,
           UNCHANGED <<stops, cleanup, after, error, lifecycle, repeating, app_stop_event,
                       exit_code>>
    PROVE  LifecycleInvariant'
<1>1. /\ next_start \in 1..6 /\ Lifecycle!Starting = Lifecycle!StartOrder[next_start]
      /\ Lifecycle!Starting \in ServiceNames \ started
      /\ started = {Lifecycle!StartOrder[i] : i \in 1..(next_start - 1)}
      /\ running = started /\ started \subseteq ServiceNames
      /\ stops = [s \in ServiceNames |-> 0]
      /\ ~repeating
    BY StartingFacts
<1>2. /\ started' = started \cup {Lifecycle!Starting} /\ running' = started'
      /\ \/ next_start = 6 /\ pc' = "announce" /\ next_start' = next_start
         \/ next_start # 6 /\ pc' = "start" /\ next_start' = next_start + 1
    BY <1>1, Orders DEF Lifecycle!Started
<1>3. started' = {Lifecycle!StartOrder[i] : i \in 1..next_start}
    <2>1. 1..next_start = (1..(next_start - 1)) \cup {next_start}
        BY <1>1
    <2> QED
        BY <1>1, <1>2, <2>1
<1>4. "mavlink" \in started' => "blackbox" \in started'
    BY <1>1, <1>3, Orders
<1>5. LifecycleTypes'
    BY <1>1, <1>2, Orders DEF LifecycleInvariant, LifecycleTypes, Lifecycle!TypeOK
<1>6. CleanupIsSuffix' /\ ToStop' = ToStop
    BY DEF LifecycleInvariant, CleanupIsSuffix, ToStop
<1>7. next_start = 6 => "drone" \in started'
    BY <1>1, <1>3, Orders
<1>8. StartedSoFar'
    <2>1. CASE next_start = 6
        BY <1>1, <1>2, <1>7, <2>1, Orders DEF StartedSoFar
    <2>2. CASE next_start # 6
        <3>1. next_start' - 1 = next_start
            BY <1>1, <1>2, <2>2
        <3> QED
            BY <1>1, <1>2, <1>3, <2>2, <3>1, Orders DEF StartedSoFar
    <2> QED
        BY <2>1, <2>2
<1>9. ListedOrStopped'
    BY <1>1, <1>2, <1>4, Orders DEF ListedOrStopped
<1>10. RepeatsUntilFirstStop'
    BY <1>1 DEF RepeatsUntilFirstStop
<1> QED
    BY <1>5, <1>6, <1>8, <1>9, <1>10 DEF LifecycleInvariant

\* A service that does not start may have had its stop by itself; the others
\* have theirs ahead.
LEMMA RollbackStep ==
    ASSUME LifecycleInvariant, pc = "start", NEW code \in 0..4, Lifecycle!Rollback(code),
           \/ stops' = stops
           \/ stops' = [stops EXCEPT ![Lifecycle!Starting] = Lifecycle!Counted(@)],
           UNCHANGED <<started, running, next_start, attempt, lifecycle, repeating,
                       app_stop_event, exit_code>>
    PROVE  LifecycleInvariant'
<1>1. /\ Lifecycle!Starting \in ServiceNames \ started
      /\ running = started /\ started \subseteq ServiceNames
      /\ stops = [s \in ServiceNames |-> 0]
      /\ ~repeating
    BY StartingFacts
<1>2. error' = code /\ pc' = "stopping" /\ cleanup' = Lifecycle!StopOrder /\ after' = "failed"
    BY DEF Lifecycle!Rollback
<1>3. /\ cleanup' \in Seq(Lifecycle!Range(Lifecycle!StopOrder))
      /\ CleanupIsSuffix'
      /\ \A s \in ServiceNames : s \in ToStop'
    BY <1>2, StopAllBegins
<1>4. stops' \in [ServiceNames -> 0..1] /\ \A s \in started : stops'[s] = 0
    BY <1>1 DEF Lifecycle!Counted
<1>5. LifecycleTypes'
    BY <1>2, <1>3, <1>4, Orders DEF LifecycleInvariant, LifecycleTypes, Lifecycle!TypeOK
<1>6. StartedSoFar'
    BY <1>2 DEF StartedSoFar
<1>7. ListedOrStopped'
    BY <1>1, <1>2, <1>3, <1>4, Orders DEF LifecycleInvariant, ListedOrStopped
<1>8. RepeatsUntilFirstStop'
    BY <1>1 DEF RepeatsUntilFirstStop
<1> QED
    BY <1>3, <1>5, <1>6, <1>7, <1>8 DEF LifecycleInvariant

LEMMA StartStep ==
    ASSUME LifecycleInvariant, Lifecycle!StartService \/ Lifecycle!StartDrone
    PROVE  LifecycleInvariant'
<1> USE DEF Lifecycle!startUnchanged
<1>1. pc = "start"
    BY DEF Lifecycle!StartService, Lifecycle!StartDrone
<1>2. attempt \in 1..FCU_CONNECT_ATTEMPTS /\ FCU_CONNECT_ATTEMPTS \in Nat \ {0}
    BY InstancesAssumption DEF LifecycleInvariant, LifecycleTypes, Lifecycle!TypeOK,
       Lifecycle!AttemptsAssumption
<1>3. CASE Lifecycle!StartService
    <2>1. CASE Lifecycle!Started(Lifecycle!Starting) /\ UNCHANGED <<stops, cleanup, after, error>>
        BY <1>1, <1>2, <1>3, <2>1, StartedStep DEF Lifecycle!StartService
    <2>2. CASE /\ Lifecycle!Rollback(Lifecycle!STARTUP_ERROR)
               /\ stops' = [stops EXCEPT ![Lifecycle!Starting] = Lifecycle!Counted(@)]
               /\ UNCHANGED <<started, running, next_start>>
        <3>1. Lifecycle!STARTUP_ERROR \in 0..4
            BY DEF Lifecycle!STARTUP_ERROR
        <3>2. UNCHANGED <<attempt, lifecycle, repeating, app_stop_event, exit_code>>
            BY <1>3 DEF Lifecycle!StartService
        <3> QED
            BY <1>1, <2>2, <3>1, <3>2, RollbackStep
    <2> QED
        BY <1>3, <2>1, <2>2 DEF Lifecycle!StartService
<1>4. CASE Lifecycle!StartDrone
    <2>1. UNCHANGED <<lifecycle, stops, repeating, app_stop_event, exit_code>>
          /\ Lifecycle!Starting = "drone"
        BY <1>4 DEF Lifecycle!StartDrone
    <2>2. CASE Lifecycle!Started("drone") /\ UNCHANGED <<attempt, cleanup, after, error>>
        BY <1>1, <1>2, <2>1, <2>2, StartedStep
    <2>3. CASE /\ ~Lifecycle!LastAttempt
               /\ attempt' = attempt + 1
               /\ UNCHANGED <<pc, next_start, started, running, cleanup, after, error>>
        <3>1. attempt' \in 1..FCU_CONNECT_ATTEMPTS
            BY <1>2, <2>3 DEF Lifecycle!LastAttempt
        <3>2. LifecycleTypes'
            BY <2>1, <2>3, <3>1 DEF LifecycleInvariant, LifecycleTypes, Lifecycle!TypeOK
        <3>3. CleanupIsSuffix' /\ ToStop' = ToStop
            BY <2>3 DEF LifecycleInvariant, CleanupIsSuffix, ToStop
        <3>4. StartedSoFar' /\ ListedOrStopped' /\ RepeatsUntilFirstStop'
            BY <2>1, <2>3, <3>3 DEF LifecycleInvariant, StartedSoFar, ListedOrStopped,
               RepeatsUntilFirstStop
        <3> QED
            BY <3>2, <3>3, <3>4 DEF LifecycleInvariant
    <2>4. CASE /\ \/ Lifecycle!LastAttempt /\ Lifecycle!Rollback(Lifecycle!FCU_CONNECTION_FAILED)
                  \/ \E code \in {Lifecycle!FCU_CONNECTION_FAILED, Lifecycle!STARTUP_ERROR} :
                        Lifecycle!Rollback(code)
               /\ UNCHANGED <<attempt, next_start, started, running>>
        <3>1. Lifecycle!STARTUP_ERROR \in 0..4 /\ Lifecycle!FCU_CONNECTION_FAILED \in 0..4
            BY DEF Lifecycle!STARTUP_ERROR, Lifecycle!FCU_CONNECTION_FAILED
        <3>2. PICK code \in 0..4 : Lifecycle!Rollback(code)
            BY <2>4, <3>1
        <3> QED
            BY <1>1, <2>1, <2>4, <3>2, RollbackStep
    <2> QED
        BY <1>4, <2>2, <2>3, <2>4 DEF Lifecycle!StartDrone
<1> QED
    BY <1>3, <1>4

\* The other calls of stop_all, behind a failed start and at the end.
LEMMA StopAllStep ==
    ASSUME LifecycleInvariant, Lifecycle!StartFailed \/ Lifecycle!Finally
    PROVE  LifecycleInvariant'
<1> USE DEF Lifecycle!StartFailed, Lifecycle!Finally, Lifecycle!startUnchanged,
            Lifecycle!service_vars, LifecycleInvariant
<1>1. /\ cleanup' = Lifecycle!StopOrder /\ pc' = "stopping" /\ pc \in {"failed", "finally"}
      /\ UNCHANGED <<started, running, stops, repeating>>
    OBVIOUS
<1>2. /\ cleanup' \in Seq(Lifecycle!Range(Lifecycle!StopOrder))
      /\ Len(cleanup') = 7 /\ CleanupIsSuffix'
      /\ \A s \in ServiceNames : s \in ToStop'
    BY <1>1, StopAllBegins
<1>3. LifecycleTypes'
    BY <1>2 DEF LifecycleTypes, Lifecycle!TypeOK
<1>4. StartedSoFar'
    BY <1>1 DEF StartedSoFar
<1>5. ListedOrStopped'
    BY <1>1, <1>2, Orders DEF ListedOrStopped, LifecycleTypes, Lifecycle!TypeOK
<1>6. RepeatsUntilFirstStop'
    BY <1>1, <1>2 DEF RepeatsUntilFirstStop
<1> QED
    BY <1>2, <1>3, <1>4, <1>5, <1>6

\* stop_all goes on from the head of its list, which is not in the rest.
LEMMA TailFacts ==
    ASSUME LifecycleInvariant, cleanup # <<>>
    PROVE  /\ Head(cleanup) = Lifecycle!StopOrder[8 - Len(cleanup)]
           /\ Tail(cleanup) \in Seq(Lifecycle!Range(Lifecycle!StopOrder))
           /\ Len(Tail(cleanup)) = Len(cleanup) - 1 /\ Len(cleanup) \in 1..7
           /\ cleanup' = Tail(cleanup) =>
                /\ CleanupIsSuffix'
                /\ Head(cleanup) \notin ToStop'
                /\ ToStop = ToStop' \cup {Head(cleanup)}
<1>1. cleanup \in Seq(Lifecycle!Range(Lifecycle!StopOrder)) /\ Len(cleanup) \in 0..7
      /\ \A i \in 1..Len(cleanup) : cleanup[i] = Lifecycle!StopOrder[7 - Len(cleanup) + i]
    BY DEF LifecycleInvariant, LifecycleTypes, Lifecycle!TypeOK, CleanupIsSuffix
<1>2. Len(cleanup) \in 1..7 /\ Head(cleanup) = cleanup[1]
    <2>1. Len(cleanup) \in Nat \ {0}
        BY <1>1, EmptySeq
    <2>2. Len(cleanup) \in 0..7 /\ Head(cleanup) = cleanup[1]
        BY <1>1
    <2> QED
        BY <2>1, <2>2
<1>3. /\ Tail(cleanup) \in Seq(Lifecycle!Range(Lifecycle!StopOrder))
      /\ Len(Tail(cleanup)) = Len(cleanup) - 1
      /\ \A i \in 1..(Len(cleanup) - 1) : Tail(cleanup)[i] = cleanup[i + 1]
    BY <1>1, HeadTailProperties
<1>4. Head(cleanup) = Lifecycle!StopOrder[8 - Len(cleanup)]
    <2>1. 7 - Len(cleanup) + 1 = 8 - Len(cleanup) /\ 1 \in 1..Len(cleanup)
        BY <1>2
    <2>2. cleanup[1] = Lifecycle!StopOrder[7 - Len(cleanup) + 1]
        BY <1>1, <2>1
    <2> QED
        BY <1>2, <2>1, <2>2
<1>5. ASSUME cleanup' = Tail(cleanup)
      PROVE  /\ CleanupIsSuffix'
             /\ Head(cleanup) \notin ToStop'
             /\ ToStop = ToStop' \cup {Head(cleanup)}
    <2>1. CleanupIsSuffix'
        <3> DEFINE n == Len(cleanup)
                   t == Tail(cleanup)
        <3>1. n \in 1..7 /\ Len(t) = n - 1
            BY <1>2, <1>3
        <3>2. ASSUME NEW i \in 1..(n - 1)
              PROVE  t[i] = Lifecycle!StopOrder[7 - (n - 1) + i]
            <4>1. t[i] = cleanup[i + 1]
                BY <1>3
            <4>2. cleanup[i + 1] = Lifecycle!StopOrder[7 - n + (i + 1)]
                <5>1. i + 1 \in 1..n
                    BY <3>1
                <5> QED
                    BY <1>1, <5>1
            <4> HIDE DEF n
            <4>3. 7 - n + (i + 1) = 7 - (n - 1) + i
                BY <3>1
            <4> QED
                BY <4>1, <4>2, <4>3
        <3> HIDE DEF n, t
        <3>3. n - 1 \in 0..7
            BY <3>1
        <3> QED
            BY <1>5, <3>1, <3>2, <3>3 DEF CleanupIsSuffix, t
    <2>2. ToStop' = {cleanup[i + 1] : i \in 1..(Len(cleanup) - 1)}
        BY <1>2, <1>3, <1>5 DEF ToStop
    <2>3. ASSUME NEW i \in 1..(Len(cleanup) - 1)
          PROVE  cleanup[i + 1] # Head(cleanup)
        <3>1. cleanup[i + 1] = Lifecycle!StopOrder[8 - Len(cleanup) + i]
            <4>1. i + 1 \in 1..Len(cleanup) /\ 7 - Len(cleanup) + (i + 1) = 8 - Len(cleanup) + i
                BY <1>2
            <4>2. cleanup[i + 1] = Lifecycle!StopOrder[7 - Len(cleanup) + (i + 1)]
                BY <1>1, <4>1
            <4> QED
                BY <4>1, <4>2
        <3> DEFINE n == Len(cleanup)
        <3>2. n \in 1..7 /\ i \in 1..(n - 1)
            BY <1>2
        <3> HIDE DEF n
        <3>3. 8 - n + i \in 1..7 /\ 8 - n \in 1..7 /\ 8 - n + i # 8 - n
            BY <3>2
        <3> USE DEF n
        <3> QED
            BY <1>4, <3>1, <3>3, Orders
    <2>4. ToStop = ToStop' \cup {Head(cleanup)}
        <3>1. \A i \in 1..Len(cleanup) :
                i = 1 \/ \E j \in 1..(Len(cleanup) - 1) : i = j + 1
            BY <1>2
        <3>2. \A j \in 1..(Len(cleanup) - 1) : j + 1 \in 1..Len(cleanup)
            BY <1>2
        <3>3. 1 \in 1..Len(cleanup)
            BY <1>2
        <3> QED
            BY <1>2, <2>2, <3>1, <3>2, <3>3 DEF ToStop
    <2> QED
        BY <2>1, <2>2, <2>3, <2>4
<1> QED
    BY <1>2, <1>3, <1>4, <1>5

\* One service has its stop: the next of the list, if it was started.
LEMMA StopNextStep ==
    ASSUME LifecycleInvariant, Lifecycle!StopNext
    PROVE  LifecycleInvariant'
<1> DEFINE s == Head(cleanup)
<1>1. /\ pc = "stopping" /\ cleanup # <<>> /\ cleanup' = Tail(cleanup)
      /\ UNCHANGED <<pc, lifecycle, next_start, attempt, started, after, error, app_stop_event,
                     exit_code>>
    BY DEF Lifecycle!StopNext, Lifecycle!Continue
<1>2. /\ s = Lifecycle!StopOrder[8 - Len(cleanup)]
      /\ cleanup' \in Seq(Lifecycle!Range(Lifecycle!StopOrder))
      /\ Len(cleanup') = Len(cleanup) - 1 /\ Len(cleanup) \in 1..7
      /\ CleanupIsSuffix' /\ s \notin ToStop' /\ ToStop = ToStop' \cup {s}
    BY <1>1, TailFacts
<1>3. started \subseteq ServiceNames /\ running \subseteq ServiceNames
      /\ stops \in [ServiceNames -> 0..2] /\ \A t \in ServiceNames : stops[t] <= 1
    BY Orders DEF LifecycleInvariant, LifecycleTypes, Lifecycle!TypeOK, ListedOrStopped
<1>4. s \in started => stops[s] = 0
    BY <1>1, <1>2 DEF LifecycleInvariant, ListedOrStopped
<1>5. /\ stops' = IF s \in started THEN [stops EXCEPT ![s] = 1] ELSE stops
      /\ running' \in {running, running \ {s}}
      /\ s \notin started => running' = running
      /\ repeating' => repeating /\ (s \in started => s # "drone")
    <2>1. CASE s \in started
        <3>1. PICK failed \in BOOLEAN :
                /\ stops' = [stops EXCEPT ![s] = Lifecycle!Counted(stops[s])]
                /\ running' = IF failed THEN running ELSE running \ {s}
                /\ repeating' = (repeating /\ s # "drone")
            BY <2>1 DEF Lifecycle!StopNext
        <3>2. Lifecycle!Counted(stops[s]) = 1
            BY <1>4, <2>1 DEF Lifecycle!Counted
        <3> QED
            BY <2>1, <3>1, <3>2
    <2>2. CASE s \notin started
        BY <2>2 DEF Lifecycle!StopNext
    <2> QED
        BY <2>1, <2>2
<1>6. LifecycleTypes'
    <2>1. stops' \in [ServiceNames -> 0..2] /\ running' \subseteq ServiceNames
        BY <1>3, <1>5
    <2> QED
        BY <1>1, <1>2, <2>1, Orders DEF LifecycleInvariant, LifecycleTypes, Lifecycle!TypeOK
<1>7. StartedSoFar'
    BY <1>1 DEF StartedSoFar
<1>8. ListedOrStopped'
    <2>1. ASSUME NEW t \in started
          PROVE  stops'[t] = IF t \notin ToStop' THEN 1 ELSE 0
        BY <1>1, <1>2, <1>3, <1>5 DEF LifecycleInvariant, ListedOrStopped
    <2>2. ASSUME NEW t \in running' \ started
          PROVE  stops'[t] = 1
        BY <1>3, <1>5 DEF LifecycleInvariant, ListedOrStopped
    <2>3. \A t \in ServiceNames : stops'[t] <= 1
        BY <1>3, <1>5
    <2> QED
        BY <1>1, <2>1, <2>2, <2>3, Orders DEF LifecycleInvariant, ListedOrStopped
<1>9. RepeatsUntilFirstStop'
    <2>1. repeating => Len(cleanup) = 7 /\ "drone" \in started
        BY <1>1 DEF LifecycleInvariant, RepeatsUntilFirstStop
    <2>2. Len(cleanup) = 7 => s = Lifecycle!StopOrder[1]
        BY <1>2
    <2>3. Lifecycle!StopOrder[1] = "drone"
        BY Orders
    <2> QED
        BY <1>5, <2>1, <2>2, <2>3 DEF RepeatsUntilFirstStop
<1> QED
    BY <1>2, <1>6, <1>7, <1>8, <1>9 DEF LifecycleInvariant

\* At the end of its list stop_all forgets what was started: all of it has had
\* its stop.
LEMMA StopReturnsStep ==
    ASSUME LifecycleInvariant, Lifecycle!StopReturns
    PROVE  LifecycleInvariant'
<1>1. /\ pc = "stopping" /\ cleanup = <<>> /\ started' = {} /\ pc' = after
      /\ UNCHANGED <<lifecycle, next_start, attempt, running, stops, repeating, cleanup, after,
                     error, app_stop_event, exit_code>>
    BY DEF Lifecycle!StopReturns, Lifecycle!StartedCleared
<1>2. ToStop = {}
    BY <1>1 DEF ToStop
<1>3. LifecycleTypes'
    BY <1>1 DEF LifecycleInvariant, LifecycleTypes, Lifecycle!TypeOK
<1>4. CleanupIsSuffix'
    BY <1>1 DEF LifecycleInvariant, CleanupIsSuffix
<1>5. pc' \in {"failed", "finally", "stopped"}
    BY <1>1 DEF LifecycleInvariant, LifecycleTypes
<1>6. StartedSoFar'
    BY <1>5 DEF StartedSoFar
<1>7. ListedOrStopped'
    BY <1>1, <1>2 DEF LifecycleInvariant, ListedOrStopped
<1>8. ~repeating
    BY <1>1 DEF LifecycleInvariant, RepeatsUntilFirstStop
<1>9. RepeatsUntilFirstStop'
    BY <1>1, <1>8 DEF RepeatsUntilFirstStop
<1> QED
    BY <1>3, <1>4, <1>6, <1>7, <1>9 DEF LifecycleInvariant

LEMMA LifecycleStep == LifecycleInvariant /\ [Lifecycle!Next]_lifecycleVars => LifecycleInvariant'
<1>1. ASSUME LifecycleInvariant, UNCHANGED lifecycleVars
      PROVE  LifecycleInvariant'
    <2> USE <1>1 DEF lifecycleVars, LifecycleInvariant
    <2>1. LifecycleTypes' /\ CleanupIsSuffix' /\ ToStop' = ToStop
        BY DEF LifecycleTypes, Lifecycle!TypeOK, CleanupIsSuffix, ToStop
    <2>2. StartedSoFar' /\ ListedOrStopped' /\ RepeatsUntilFirstStop'
        BY <2>1 DEF StartedSoFar, ListedOrStopped, RepeatsUntilFirstStop
    <2> QED
        BY <2>1, <2>2
<1>2. ASSUME LifecycleInvariant, Lifecycle!Next
      PROVE  LifecycleInvariant'
    BY <1>2, QuietStep, StartStep, StopAllStep, StopNextStep, StopReturnsStep
       DEF Lifecycle!Next, Lifecycle!Main, Lifecycle!Progress
<1> QED
    BY <1>1, <1>2

\* The properties of the run follow.
LEMMA LifecycleInvariantImplies ==
    ASSUME LifecycleInvariant
    PROVE  /\ Lifecycle!TypeOK /\ Lifecycle!StoppedOnce /\ Lifecycle!EveryStartedIsStopped
           /\ Lifecycle!RcStopsFirst /\ Lifecycle!RecorderOutlivesProducer
<1>1. Lifecycle!TypeOK /\ Lifecycle!StoppedOnce
    BY DEF LifecycleInvariant, LifecycleTypes, ListedOrStopped, Lifecycle!StoppedOnce
<1>2. Lifecycle!EveryStartedIsStopped
    BY DEF LifecycleInvariant, ListedOrStopped, Lifecycle!EveryStartedIsStopped
<1>3. Lifecycle!RcStopsFirst
    BY DEF LifecycleInvariant, RepeatsUntilFirstStop, Lifecycle!RcStopsFirst
<1>4. ASSUME stops["blackbox"] = 1, "mavlink" \in running
      PROVE  stops["mavlink"] = 1
    <2>1. CASE "mavlink" \notin started
        BY <1>4, <2>1 DEF LifecycleInvariant, ListedOrStopped
    <2>2. CASE "mavlink" \in started
        <3>1. "blackbox" \in started
            BY <2>2 DEF LifecycleInvariant, ListedOrStopped
        <3>2. pc = "stopping" /\ "blackbox" \notin ToStop
            BY <1>4, <3>1 DEF LifecycleInvariant, ListedOrStopped
        <3>3. "mavlink" \notin ToStop
            <4> SUFFICES ASSUME NEW i \in 1..Len(cleanup), cleanup[i] = "mavlink"
                         PROVE  FALSE
                BY DEF ToStop
            <4>1. /\ Len(cleanup) \in 0..7
                  /\ \A j \in 1..Len(cleanup) :
                        cleanup[j] = Lifecycle!StopOrder[7 - Len(cleanup) + j]
                BY DEF LifecycleInvariant, CleanupIsSuffix
            <4> DEFINE n == Len(cleanup)
            <4>2. n \in 0..7 /\ i \in 1..n
                BY <4>1
            <4> HIDE DEF n
            <4>3. 7 - n + i \in 1..7
                BY <4>2
            <4>4. 7 - n + i = 4
                BY <4>1, <4>3, Orders DEF n
            <4>5. i + 1 \in 1..n /\ 7 - n + (i + 1) = 5
                BY <4>2, <4>4
            <4>6. cleanup[i + 1] = "blackbox"
                BY <4>1, <4>5, Orders DEF n
            <4> QED
                BY <3>2, <4>5, <4>6 DEF ToStop, n
        <3> QED
            BY <2>2, <3>2, <3>3 DEF LifecycleInvariant, ListedOrStopped
    <2> QED
        BY <2>1, <2>2
<1> QED
    BY <1>1, <1>2, <1>3, <1>4 DEF Lifecycle!RecorderOutlivesProducer

----------------------------------------------------------------------------
(* Sequences of up to three elements.                                         *)

\* Append on the tuples the slots can be in.
LEMMA Appends ==
    ASSUME NEW a, NEW b, NEW c
    PROVE  /\ <<a>> = Append(<<>>, a)
           /\ <<a, b>> = Append(<<a>>, b)
           /\ <<a, b, c>> = Append(<<a, b>>, c)
<1> DEFINE S == {a, b, c}
<1>1. /\ <<>> \in Seq(S) /\ <<a>> \in Seq(S) /\ <<a, b>> \in Seq(S)
      /\ <<a, b, c>> \in Seq(S)
    OBVIOUS
<1>2. <<a>> = Append(<<>>, a)
    OBVIOUS
<1>3. <<a, b>> = Append(<<a>>, b)
    <2> DEFINE t == Append(<<a>>, b)
    <2>1. t \in Seq(S) /\ Len(t) = 2 /\ t[1] = a /\ t[2] = b
        BY <1>1, AppendProperties
    <2>2. Len(<<a, b>>) = 2 /\ \A i \in 1..2 : t[i] = <<a, b>>[i]
        BY <2>1
    <2> HIDE DEF S, t
    <2>3. t = <<a, b>>
        BY <1>1, <2>1, <2>2, SeqEqual
    <2> QED
        BY <2>3 DEF t
<1>4. <<a, b, c>> = Append(<<a, b>>, c)
    <2> DEFINE t == Append(<<a, b>>, c)
    <2>1. t \in Seq(S) /\ Len(t) = 3 /\ t[1] = a /\ t[2] = b /\ t[3] = c
        BY <1>1, AppendProperties
    <2>2. Len(<<a, b, c>>) = 3 /\ \A i \in 1..3 : t[i] = <<a, b, c>>[i]
        BY <2>1
    <2> HIDE DEF S, t
    <2>3. t = <<a, b, c>>
        BY <1>1, <2>1, <2>2, SeqEqual
    <2> QED
        BY <2>3 DEF t
<1> QED
    BY <1>2, <1>3, <1>4

\* Taking one element out of one or two.
LEMMA Removals ==
    ASSUME NEW a, NEW b
    PROVE  /\ <<>> = Listener!RemoveAt(<<a>>, 1)
           /\ <<b>> = Listener!RemoveAt(<<a, b>>, 1)
           /\ <<a>> = Listener!RemoveAt(<<a, b>>, 2)
<1>1. ASSUME NEW s, NEW m \in Int
      PROVE  <<s[m]>> = SubSeq(s, m, m)
    <2>1. SubSeq(s, m, m) \in Seq({s[m]}) /\ Len(SubSeq(s, m, m)) = 1
          /\ SubSeq(s, m, m)[1] = s[m]
        BY SubSeqProperties
    <2>2. ASSUME NEW t \in Seq({s[m]}), Len(t) = 1, t[1] = s[m]
          PROVE  t = <<s[m]>>
        BY <2>2
    <2> QED
        BY <2>1, <2>2
<1>2. ASSUME NEW s, NEW m \in Int, NEW n \in Int, n < m
      PROVE  SubSeq(s, m, n) = <<>>
    BY <1>2, SubSeqEmpty, Zenon
<1>3. SubSeq(<<a, b>>, 1, 1) = <<a>> /\ SubSeq(<<a, b>>, 2, 2) = <<b>>
    <2> DEFINE s == <<a, b>>
    <2>1. s[1] = a /\ s[2] = b
        OBVIOUS
    <2> HIDE DEF s
    <2>2. <<s[1]>> = SubSeq(s, 1, 1) /\ <<s[2]>> = SubSeq(s, 2, 2)
        BY <1>1
    <2> QED
        BY <2>1, <2>2 DEF s
<1>4. <<>> \o <<>> = <<>> /\ <<>> \o <<b>> = <<b>> /\ <<a>> \o <<>> = <<a>>
    BY ConcatEmptySeq
<1>5. /\ SubSeq(<<a>>, 1, 0) = <<>> /\ SubSeq(<<a>>, 2, 1) = <<>>
      /\ SubSeq(<<a, b>>, 1, 0) = <<>> /\ SubSeq(<<a, b>>, 3, 2) = <<>>
    <2>1. 0 \in Int /\ 1 \in Int /\ 2 \in Int /\ 3 \in Int /\ 0 < 1 /\ 1 < 2 /\ 2 < 3
        OBVIOUS
    <2> QED
        BY <1>2, <2>1, Zenon
<1>6. Len(<<a>>) = 1 /\ Len(<<a, b>>) = 2
    OBVIOUS
<1>7. Listener!RemoveAt(<<a>>, 1) = SubSeq(<<a>>, 1, 0) \o SubSeq(<<a>>, 2, 1)
    BY <1>6 DEF Listener!RemoveAt
<1>8. Listener!RemoveAt(<<a, b>>, 1) = SubSeq(<<a, b>>, 1, 0) \o SubSeq(<<a, b>>, 2, 2)
    BY <1>6 DEF Listener!RemoveAt
<1>9. Listener!RemoveAt(<<a, b>>, 2) = SubSeq(<<a, b>>, 1, 1) \o SubSeq(<<a, b>>, 3, 2)
    BY <1>6 DEF Listener!RemoveAt
<1> QED
    BY <1>5, <1>3, <1>4, <1>7, <1>8, <1>9

----------------------------------------------------------------------------
(* The listener thread and the application thread.                            *)

\* What TypeOK says, without the order of the slots.
FlagTypes ==
    /\ stop_event \in BOOLEAN /\ ready_event \in BOOLEAN /\ closed \in BOOLEAN
    /\ failure \in BOOLEAN /\ shutdown_error \in BOOLEAN /\ opened \in BOOLEAN
ThreadTypes ==
    /\ main \in {"new", "wait_ready", "running", "start_failed", "stop_unstarted", "join",
                 "join_closed", "stopped", "stop_failed"}
    /\ thread \in {"none", "opening", "loop", "processing", "queue_rc", "finally", "closing",
                   "exited"}
    /\ comm \in {"waiting", "healthy", "lost"}
    /\ in_hand \in Listener!RcEvents \cup {Listener!NoEvent}
    /\ thread = "queue_rc" => in_hand \in Listener!RcEvents
SlotTypes ==
    /\ DOMAIN slot = Listener!Slots
    /\ slot["rc"] \in Listener!RcEvents \cup {Listener!NoEvent}
    /\ slot["communication"] \in {Listener!NoEvent, Listener!Timeout, Listener!Resume}
    /\ slot["failure"] \in {Listener!NoEvent, Listener!Failure}
IntentTypes ==
    /\ request_rc \in Listener!Snapshots /\ joy_fail_safe \in BOOLEAN
    /\ link \in {"waiting", "healthy", "lost", "resumed", "failed"}
ListenerTypes == FlagTypes /\ ThreadTypes /\ SlotTypes /\ IntentTypes

\* A thread that ended without a stop request had opened the connection or has
\* recorded its failure, and start() reads the failure behind the ready event.
OpenedOrFailed ==
    /\ main \in {"new", "wait_ready"} => ~stop_event
    /\ main = "new" => thread = "none"
    /\ thread \in {"finally", "closing", "exited"} => opened \/ failure \/ stop_event
    /\ ready_event => opened \/ thread \in {"closing", "exited"}
    /\ main = "running" => opened
    /\ main = "stopped" => thread = "exited" /\ ~shutdown_error

\* A failure, retained or dispatched, is the last event of the thread.
FailureIsLast ==
    slot["failure"] # Listener!NoEvent \/ link = "failed" =>
        failure /\ thread \in {"finally", "closing", "exited"}

\* The occupied slots are those of p in its order, with a failure behind them.
Retained(p) ==
    order = IF slot["failure"] = Listener!NoEvent THEN p ELSE Append(p, "failure")

Nothing ==
    /\ Retained(<<>>)
    /\ slot["rc"] = Listener!NoEvent /\ slot["communication"] = Listener!NoEvent
    /\ link = "failed" => slot["failure"] = Listener!NoEvent
    /\ link # "failed" => Listener!Emission = link
RcAlone ==
    /\ Retained(<<"rc">>)
    /\ slot["rc"] \in Listener!RcEvents /\ slot["communication"] = Listener!NoEvent
    /\ Listener!Emission = "healthy" /\ link \in {"waiting", "healthy", "resumed"}
RcBehindResume ==
    /\ Retained(<<"communication", "rc">>)
    /\ slot["rc"] \in Listener!RcEvents /\ slot["communication"] = Listener!Resume
    /\ Listener!Emission = "healthy" /\ link # "failed"

\* The newest word on the communication, and how the link then stands.
CommunicationIsNewest ==
    \/ slot["communication"] = Listener!Timeout /\ Listener!Emission = "lost"
    \/ slot["communication"] = Listener!Resume /\ Listener!Emission = "resumed"
CommunicationAlone ==
    /\ Retained(<<"communication">>)
    /\ slot["rc"] = Listener!NoEvent /\ CommunicationIsNewest
    /\ link \in {"healthy", "lost"}
CommunicationBehindRc ==
    /\ Retained(<<"rc", "communication">>)
    /\ slot["rc"] \in Listener!RcEvents /\ CommunicationIsNewest
    /\ link # "failed"

\* What the slots retain follows from how the link stood at the last dispatch
\* and how it stands for the library.
RetainedFollowsLink ==
    Nothing \/ RcAlone \/ RcBehindResume \/ CommunicationAlone \/ CommunicationBehindRc

ListenerInvariant ==
    ListenerTypes /\ OpenedOrFailed /\ FailureIsLast /\ RetainedFollowsLink

\* No event is taken for another, and none for an empty slot.
LEMMA EventsDiffer ==
    /\ \A e \in Listener!RcEvents : e.kind = "rc" /\ e # Listener!NoEvent
    /\ Listener!Timeout # Listener!NoEvent /\ Listener!Resume # Listener!NoEvent
    /\ Listener!Failure # Listener!NoEvent /\ Listener!Timeout # Listener!Resume
BY DEF Listener!RcEvents, Listener!RcEvent, Listener!NoEvent, Listener!Timeout,
   Listener!Resume, Listener!Failure

\* An event of the communication slot goes behind the RC message, if there is one.
LEMMA QueueCommunication ==
    ASSUME ListenerTypes, RetainedFollowsLink, slot["failure"] = Listener!NoEvent,
           NEW e \in {Listener!Timeout, Listener!Resume},
           Listener!Queue("communication", e)
    PROVE  /\ slot' = [slot EXCEPT !["communication"] = e]
           /\ slot["rc"] = Listener!NoEvent => <<"communication">> = order'
           /\ slot["rc"] # Listener!NoEvent => <<"rc", "communication">> = order'
<1>1. slot' = [slot EXCEPT !["communication"] = e]
    BY DEF Listener!Queue
<1>2. \/ slot["communication"] = Listener!NoEvent /\ order' = Append(order, "communication")
      \/ \E i \in DOMAIN order : /\ order[i] = "communication"
                                 /\ order' = Append(Listener!RemoveAt(order, i), "communication")
    BY DEF Listener!Queue
<1>3. CASE Nothing
    <2>1. order = <<>> /\ slot["rc"] = Listener!NoEvent
        BY <1>3 DEF Nothing, Retained
    <2>2. order' = Append(<<>>, "communication")
        BY <1>2, <2>1
    <2> QED
        BY <1>1, <2>1, <2>2, Appends
<1>4. CASE RcAlone
    <2>1. order = <<"rc">> /\ slot["rc"] # Listener!NoEvent
        BY <1>4, EventsDiffer DEF RcAlone, Retained
    <2>2. order' = Append(<<"rc">>, "communication")
        BY <1>2, <2>1
    <2> QED
        BY <1>1, <2>1, <2>2, Appends
<1>5. CASE RcBehindResume
    <2>1. order = <<"communication", "rc">> /\ slot["rc"] # Listener!NoEvent
          /\ slot["communication"] # Listener!NoEvent
        BY <1>5, EventsDiffer DEF RcBehindResume, Retained
    <2>2. order' = Append(Listener!RemoveAt(<<"communication", "rc">>, 1), "communication")
        BY <1>2, <2>1
    <2> QED
        BY <1>1, <2>1, <2>2, Appends, Removals
<1>6. CASE CommunicationAlone
    <2>1. order = <<"communication">> /\ slot["rc"] = Listener!NoEvent
          /\ slot["communication"] # Listener!NoEvent
        BY <1>6, EventsDiffer DEF CommunicationAlone, CommunicationIsNewest, Retained
    <2>2. order' = Append(Listener!RemoveAt(<<"communication">>, 1), "communication")
        BY <1>2, <2>1
    <2> QED
        BY <1>1, <2>1, <2>2, Appends, Removals
<1>7. CASE CommunicationBehindRc
    <2>1. order = <<"rc", "communication">> /\ slot["rc"] # Listener!NoEvent
          /\ slot["communication"] # Listener!NoEvent
        BY <1>7, EventsDiffer DEF CommunicationBehindRc, CommunicationIsNewest, Retained
    <2>2. order' = Append(Listener!RemoveAt(<<"rc", "communication">>, 2), "communication")
        BY <1>2, <2>1
    <2>3. order' = Append(<<"rc">>, "communication")
        BY <2>2, Removals
    <2> QED
        BY <1>1, <2>1, <2>3, Appends
<1> QED
    BY <1>3, <1>4, <1>5, <1>6, <1>7 DEF RetainedFollowsLink

\* An RC message goes behind the event of the communication slot, if there is one.
LEMMA QueueRcMessage ==
    ASSUME ListenerTypes, RetainedFollowsLink, slot["failure"] = Listener!NoEvent,
           NEW e \in Listener!RcEvents, Listener!Queue("rc", e)
    PROVE  /\ slot' = [slot EXCEPT !["rc"] = e]
           /\ slot["communication"] = Listener!NoEvent => <<"rc">> = order'
           /\ slot["communication"] # Listener!NoEvent => <<"communication", "rc">> = order'
<1>1. slot' = [slot EXCEPT !["rc"] = e]
    BY DEF Listener!Queue
<1>2. \/ slot["rc"] = Listener!NoEvent /\ order' = Append(order, "rc")
      \/ \E i \in DOMAIN order : /\ order[i] = "rc"
                                 /\ order' = Append(Listener!RemoveAt(order, i), "rc")
    BY DEF Listener!Queue
<1>3. CASE Nothing
    <2>1. order = <<>> /\ slot["communication"] = Listener!NoEvent
        BY <1>3 DEF Nothing, Retained
    <2>2. order' = Append(<<>>, "rc")
        BY <1>2, <2>1
    <2> QED
        BY <1>1, <2>1, <2>2, Appends
<1>4. CASE RcAlone
    <2>1. order = <<"rc">> /\ slot["rc"] # Listener!NoEvent
          /\ slot["communication"] = Listener!NoEvent
        BY <1>4, EventsDiffer DEF RcAlone, Retained
    <2>2. order' = Append(Listener!RemoveAt(<<"rc">>, 1), "rc")
        BY <1>2, <2>1
    <2> QED
        BY <1>1, <2>1, <2>2, Appends, Removals
<1>5. CASE RcBehindResume
    <2>1. order = <<"communication", "rc">> /\ slot["rc"] # Listener!NoEvent
          /\ slot["communication"] # Listener!NoEvent
        BY <1>5, EventsDiffer DEF RcBehindResume, Retained
    <2>2. order' = Append(Listener!RemoveAt(<<"communication", "rc">>, 2), "rc")
        BY <1>2, <2>1
    <2>3. order' = Append(<<"communication">>, "rc")
        BY <2>2, Removals
    <2> QED
        BY <1>1, <2>1, <2>3, Appends
<1>6. CASE CommunicationAlone
    <2>1. order = <<"communication">> /\ slot["communication"] # Listener!NoEvent
        BY <1>6, EventsDiffer DEF CommunicationAlone, CommunicationIsNewest, Retained
    <2>2. order' = Append(<<"communication">>, "rc")
        BY <1>2, <2>1
    <2> QED
        BY <1>1, <2>1, <2>2, Appends
<1>7. CASE CommunicationBehindRc
    <2>1. order = <<"rc", "communication">> /\ slot["rc"] # Listener!NoEvent
          /\ slot["communication"] # Listener!NoEvent
        BY <1>7, EventsDiffer DEF CommunicationBehindRc, CommunicationIsNewest, Retained
    <2>2. order' = Append(Listener!RemoveAt(<<"rc", "communication">>, 1), "rc")
        BY <1>2, <2>1
    <2> QED
        BY <1>1, <2>1, <2>2, Appends, Removals
<1> QED
    BY <1>3, <1>4, <1>5, <1>6, <1>7 DEF RetainedFollowsLink

\* A first failure is queued behind everything else.
LEMMA QueueFailure ==
    ASSUME ListenerTypes, RetainedFollowsLink, slot["failure"] = Listener!NoEvent,
           link # "failed", Listener!Queue("failure", Listener!Failure),
           UNCHANGED link, Listener!Emission' = Listener!Emission
    PROVE  /\ slot' = [slot EXCEPT !["failure"] = Listener!Failure]
           /\ RetainedFollowsLink'
<1>1. slot' = [slot EXCEPT !["failure"] = Listener!Failure]
    BY DEF Listener!Queue
<1>2. \A i \in DOMAIN order : order[i] # "failure"
    BY DEF RetainedFollowsLink, Nothing, RcAlone, RcBehindResume, CommunicationAlone,
       CommunicationBehindRc, Retained
<1>3. order' = Append(order, "failure")
    BY <1>2 DEF Listener!Queue
<1>4. /\ slot'["failure"] = Listener!Failure /\ slot'["rc"] = slot["rc"]
      /\ slot'["communication"] = slot["communication"]
    BY <1>1 DEF ListenerTypes, SlotTypes, Listener!Slots
<1>5. ASSUME NEW p, Retained(p)
      PROVE  Retained(p)'
    BY <1>3, <1>4, <1>5, EventsDiffer DEF Retained
<1> QED
    BY <1>1, <1>4, <1>5 DEF RetainedFollowsLink, Nothing, RcAlone, RcBehindResume,
       CommunicationAlone, CommunicationBehindRc, CommunicationIsNewest

\* The assumptions of JoystickInput, from those of the instances.
LEMMA InputsAreValid ==
    Requests \subseteq Listener!Snapshots /\ Invalid \notin Listener!Snapshots
BY InstancesAssumption DEF Listener!RequestsAssumption, Listener!InvalidAssumption

\* A callback leaves the intent of the pilot a valid snapshot and a flag.
LEMMA HandledIntent ==
    ASSUME NEW intent \in Listener!Intents,
           NEW e \in Listener!RcEvents \cup {Listener!NoEvent, Listener!Timeout,
                                             Listener!Resume, Listener!Failure}
    PROVE  Listener!Handle(intent, e) \in Listener!Intents
<1>1. Listener!FailSafeIntent \in Listener!Intents
    BY DEF Listener!FailSafeIntent, Listener!Intents, Listener!DefaultRequest,
       Listener!Snapshots, Listener!RC_MIN, Listener!RC_MAX
<1>2. CASE e \in Listener!RcEvents
    <2>1. PICK r \in Requests \cup {Invalid} : e = [kind |-> "rc", request |-> r]
        BY <1>2 DEF Listener!RcEvents, Listener!RcEvent
    <2>2. /\ e.kind = "rc" /\ e.request = r
          /\ r # Invalid => r \in Listener!Snapshots
        BY <2>1, InputsAreValid
    <2>3. Listener!Handle(intent, e) =
              IF r = Invalid THEN Listener!FailSafeIntent ELSE [intent EXCEPT !.request = r]
        BY <2>2 DEF Listener!Handle
    <2> QED
        BY <1>1, <2>2, <2>3 DEF Listener!Intents
<1>3. CASE e \in {Listener!Timeout, Listener!Failure}
    <2>1. e.kind \in {"timeout", "failure"}
        BY <1>3 DEF Listener!Timeout, Listener!Failure
    <2> QED
        BY <1>1, <2>1 DEF Listener!Handle
<1>4. CASE e = Listener!Resume
    <2>1. Listener!Handle(intent, e) = [intent EXCEPT !.fail_safe = FALSE]
        BY <1>4 DEF Listener!Handle, Listener!Resume
    <2> QED
        BY <2>1 DEF Listener!Intents
<1>5. CASE e = Listener!NoEvent
    BY <1>5 DEF Listener!Handle, Listener!NoEvent
<1> QED
    BY <1>2, <1>3, <1>4, <1>5

\* Nothing was started, queued or dispatched.
LEMMA ListenerInit == Listener!Init => ListenerInvariant
<1> SUFFICES ASSUME Listener!Init PROVE ListenerInvariant
    OBVIOUS
<1>1. request_rc \in Listener!Snapshots
    BY DEF Listener!Init, Listener!DefaultRequest, Listener!Snapshots, Listener!RC_MIN,
       Listener!RC_MAX
<1>2. ListenerTypes
    BY <1>1 DEF Listener!Init, ListenerTypes, FlagTypes, ThreadTypes, SlotTypes, IntentTypes,
       Listener!EmptySlots, Listener!Slots
<1>3. OpenedOrFailed /\ FailureIsLast
    BY DEF Listener!Init, OpenedOrFailed, FailureIsLast, Listener!EmptySlots, Listener!Slots
<1>4. Nothing
    BY DEF Listener!Init, Nothing, Retained, Listener!EmptySlots, Listener!Slots,
       Listener!Emission
<1> QED
    BY <1>2, <1>3, <1>4 DEF ListenerInvariant, RetainedFollowsLink

\* A step that touches neither slots nor dispatches, nor what the library emitted.
LEMMA RetainedUnchanged ==
    ASSUME RetainedFollowsLink, UNCHANGED <<slot, order, link>>,
           Listener!Emission' = Listener!Emission
    PROVE  RetainedFollowsLink'
BY DEF RetainedFollowsLink, Nothing, RcAlone, RcBehindResume, CommunicationAlone,
   CommunicationBehindRc, CommunicationIsNewest, Retained

\* Between start and loop, and past the loop, a step only moves the thread.
LEMMA PlainThreadStep ==
    ASSUME ListenerInvariant,
           Listener!Open \/ Listener!LoopHead \/ Listener!Idle \/ Listener!SetReady
    PROVE  ListenerInvariant'
<1>1. /\ UNCHANGED <<slot, order, link>>
      /\ thread # "queue_rc" /\ thread' # "queue_rc" /\ comm' = comm
    BY DEF Listener!Open, Listener!LoopHead, Listener!Idle, Listener!SetReady,
       Listener!slotVars, Listener!appVars
<1>2. Listener!Emission' = Listener!Emission
    BY <1>1 DEF Listener!Emission
<1>3. RetainedFollowsLink'
    BY <1>1, <1>2, RetainedUnchanged DEF ListenerInvariant
<1>4. ListenerTypes'
    <2>1. /\ UNCHANGED <<main, stop_event, closed, failure, shutdown_error, in_hand>>
          /\ UNCHANGED <<request_rc, joy_fail_safe>>
          /\ thread' \in {"loop", "finally", "processing", "closing"}
          /\ opened' \in {opened, TRUE} /\ ready_event' \in {ready_event, TRUE}
        BY DEF Listener!Open, Listener!LoopHead, Listener!Idle, Listener!SetReady,
           Listener!mainVars, Listener!appVars
    <2>2. FlagTypes'
        BY <2>1 DEF ListenerInvariant, ListenerTypes, FlagTypes
    <2>3. ThreadTypes' /\ SlotTypes' /\ IntentTypes'
        BY <1>1, <2>1 DEF ListenerInvariant, ListenerTypes, ThreadTypes, SlotTypes, IntentTypes
    <2> QED
        BY <2>2, <2>3 DEF ListenerTypes
<1>5. OpenedOrFailed' /\ FailureIsLast'
    BY DEF ListenerInvariant, ListenerTypes, FlagTypes, ThreadTypes, OpenedOrFailed,
       FailureIsLast, Listener!Open, Listener!LoopHead, Listener!Idle, Listener!SetReady,
       Listener!mainVars,
       Listener!slotVars, Listener!appVars
<1> QED
    BY <1>3, <1>4, <1>5 DEF ListenerInvariant

\* A recorded failure, queued or not.
LEMMA RecordedFailure ==
    ASSUME ListenerInvariant, NEW notify \in BOOLEAN, Listener!RecordFailure(notify),
           slot["failure"] = Listener!NoEvent, link # "failed",
           UNCHANGED link, Listener!Emission' = Listener!Emission
    PROVE  /\ failure' = TRUE
           /\ slot' \in {slot, [slot EXCEPT !["failure"] = Listener!Failure]}
           /\ RetainedFollowsLink'
<1>1. failure' = TRUE
    BY DEF Listener!RecordFailure
<1>2. CASE notify
    <2>1. Listener!Queue("failure", Listener!Failure)
        BY <1>2 DEF Listener!RecordFailure
    <2> QED
        BY <1>1, <2>1, QueueFailure DEF ListenerInvariant
<1>3. CASE ~notify
    <2>1. UNCHANGED <<slot, order>>
        BY <1>3 DEF Listener!RecordFailure, Listener!slotVars
    <2> QED
        BY <1>1, <2>1, RetainedUnchanged DEF ListenerInvariant
<1> QED
    BY <1>2, <1>3

\* The thread fails, with a failure to record or a stop request that excuses it.
LEMMA FailingThreadStep ==
    ASSUME ListenerInvariant, Listener!Raise \/ Listener!Close
    PROVE  ListenerInvariant'
<1>1. /\ UNCHANGED <<main, stop_event, closed, ready_event, opened, comm, in_hand>>
      /\ UNCHANGED <<link, request_rc, joy_fail_safe>>
      /\ thread \in {"opening", "processing", "closing"}
      /\ thread' = IF thread = "closing" THEN "exited" ELSE "finally"
      /\ shutdown_error' \in {shutdown_error, TRUE}
      /\ thread # "closing" => shutdown_error' = shutdown_error
    BY DEF Listener!Raise, Listener!Close, Listener!mainVars, Listener!appVars
<1>2. Listener!Emission' = Listener!Emission
    BY <1>1 DEF Listener!Emission
<1>3. \/ UNCHANGED <<failure, slot, order>> /\ (thread = "closing" \/ stop_event)
      \/ failure' = TRUE /\ RetainedFollowsLink'
         /\ slot' \in {slot, [slot EXCEPT !["failure"] = Listener!Failure]}
    <2>1. CASE Listener!Raise
        <3>1. CASE stop_event
            BY <2>1, <3>1 DEF Listener!Raise, Listener!slotVars
        <3>2. CASE ~stop_event
            <4>1. Listener!RecordFailure(opened)
                BY <2>1, <3>2 DEF Listener!Raise
            <4>2. slot["failure"] = Listener!NoEvent /\ link # "failed"
                BY <2>1 DEF Listener!Raise, ListenerInvariant, FailureIsLast
            <4> QED
                BY <1>1, <1>2, <4>1, <4>2, RecordedFailure DEF ListenerInvariant, ListenerTypes,
                   FlagTypes
        <3> QED
            BY <3>1, <3>2
    <2>2. CASE Listener!Close
        <3>1. CASE UNCHANGED <<failure, slot, order>>
            BY <2>2, <3>1 DEF Listener!Close
        <3>2. CASE ~failure /\ Listener!RecordFailure(opened)
            <4>1. slot["failure"] = Listener!NoEvent /\ link # "failed"
                BY <3>2 DEF ListenerInvariant, FailureIsLast
            <4> QED
                BY <1>1, <1>2, <3>2, <4>1, RecordedFailure DEF ListenerInvariant, ListenerTypes,
                   FlagTypes
        <3> QED
            BY <2>2, <3>1, <3>2 DEF Listener!Close, Listener!slotVars
    <2> QED
        BY <2>1, <2>2
<1>4. RetainedFollowsLink'
    BY <1>1, <1>2, <1>3, RetainedUnchanged DEF ListenerInvariant
<1>5. ListenerTypes'
    <2>1. /\ DOMAIN slot' = DOMAIN slot /\ slot'["rc"] = slot["rc"]
          /\ slot'["communication"] = slot["communication"]
          /\ slot'["failure"] \in {slot["failure"], Listener!Failure}
        BY <1>3 DEF ListenerInvariant, ListenerTypes, SlotTypes, Listener!Slots
    <2>2. failure' \in {failure, TRUE}
        BY <1>3
    <2>3. FlagTypes'
        BY <1>1, <2>2 DEF ListenerInvariant, ListenerTypes, FlagTypes
    <2>4. ThreadTypes' /\ SlotTypes' /\ IntentTypes'
        BY <1>1, <2>1 DEF ListenerInvariant, ListenerTypes, ThreadTypes, SlotTypes, IntentTypes
    <2> QED
        BY <2>3, <2>4 DEF ListenerTypes
<1>6. OpenedOrFailed'
    BY <1>1, <1>3 DEF ListenerInvariant, ListenerTypes, FlagTypes, ThreadTypes, OpenedOrFailed
<1>7. FailureIsLast'
    BY <1>1, <1>3 DEF ListenerInvariant, ListenerTypes, FlagTypes, ThreadTypes, FailureIsLast
<1> QED
    BY <1>4, <1>5, <1>6, <1>7 DEF ListenerInvariant

\* A time-out or a message of the library puts its event into a slot.
LEMMA ReceivingStep ==
    ASSUME ListenerInvariant,
           Listener!NoCommunication \/ Listener!ReceiveRc \/ Listener!QueueRc
    PROVE  ListenerInvariant'
<1>1. /\ UNCHANGED <<main, stop_event, closed, ready_event, failure, shutdown_error, opened>>
      /\ UNCHANGED <<link, request_rc, joy_fail_safe>>
      /\ thread \in {"processing", "queue_rc"} /\ thread' \in {"loop", "queue_rc"}
    BY DEF Listener!NoCommunication, Listener!ReceiveRc, Listener!QueueRc,
       Listener!mainVars, Listener!appVars
<1>2. slot["failure"] = Listener!NoEvent /\ link # "failed"
    BY <1>1 DEF ListenerInvariant, FailureIsLast
<1>3. CASE Listener!NoCommunication
    <2>1. /\ Listener!Queue("communication", Listener!Timeout)
          /\ thread = "processing" /\ comm \in {"healthy", "lost"}
          /\ comm' = "lost" /\ thread' = "loop" /\ in_hand' = in_hand
        BY <1>3 DEF Listener!NoCommunication
    <2>2. /\ slot' = [slot EXCEPT !["communication"] = Listener!Timeout]
          /\ slot["rc"] = Listener!NoEvent => <<"communication">> = order'
          /\ slot["rc"] # Listener!NoEvent => <<"rc", "communication">> = order'
        BY <1>2, <2>1, QueueCommunication DEF ListenerInvariant
    <2>3. /\ DOMAIN slot' = DOMAIN slot /\ slot'["rc"] = slot["rc"]
          /\ slot'["communication"] = Listener!Timeout /\ slot'["failure"] = slot["failure"]
        BY <2>2 DEF ListenerInvariant, ListenerTypes, SlotTypes, Listener!Slots
    <2>4. Listener!Emission = comm /\ Listener!Emission' = "lost"
        BY <2>1 DEF Listener!Emission
    <2>5. ListenerTypes'
        BY <1>1, <2>1, <2>3 DEF ListenerInvariant, ListenerTypes, FlagTypes, ThreadTypes, SlotTypes,
           IntentTypes
    <2>6. ASSUME slot["rc"] = Listener!NoEvent
          PROVE  RetainedFollowsLink'
        <3>1. link \in {"healthy", "lost"}
            BY <1>2, <2>1, <2>4, <2>6, EventsDiffer DEF ListenerInvariant, RetainedFollowsLink,
               Nothing, RcAlone, RcBehindResume, CommunicationAlone, CommunicationBehindRc
        <3>2. <<"communication">> = order'
            BY <2>2, <2>6
        <3>3. CommunicationAlone'
            BY <1>1, <1>2, <2>3, <2>4, <2>6, <3>1, <3>2 DEF CommunicationAlone,
               CommunicationIsNewest, Retained
        <3> QED
            BY <3>3 DEF RetainedFollowsLink
    <2>7. ASSUME slot["rc"] # Listener!NoEvent
          PROVE  RetainedFollowsLink'
        <3>1. <<"rc", "communication">> = order' /\ slot["rc"] \in Listener!RcEvents
            BY <2>2, <2>7 DEF ListenerInvariant, ListenerTypes, SlotTypes
        <3>2. CommunicationBehindRc'
            BY <1>1, <1>2, <2>3, <2>4, <3>1 DEF CommunicationBehindRc, CommunicationIsNewest,
               Retained
        <3> QED
            BY <3>2 DEF RetainedFollowsLink
    <2>8. OpenedOrFailed' /\ FailureIsLast'
        BY <1>1, <1>2, <2>1, <2>3 DEF ListenerInvariant, OpenedOrFailed, FailureIsLast
    <2> QED
        BY <2>5, <2>6, <2>7, <2>8 DEF ListenerInvariant
<1>4. CASE Listener!ReceiveRc
    <2>1. /\ thread = "processing" /\ thread' = "queue_rc" /\ comm' = comm
          /\ in_hand' \in Listener!RcEvents
        BY <1>4 DEF Listener!ReceiveRc
    <2>2. Listener!Emission = comm
        BY <2>1 DEF Listener!Emission
    <2>3. OpenedOrFailed'
        BY <1>1, <2>1 DEF ListenerInvariant, OpenedOrFailed
    <2>4. CASE comm = "lost"
        <3>1. Listener!Queue("communication", Listener!Resume)
            BY <1>4, <2>4 DEF Listener!ReceiveRc
        <3>2. /\ slot' = [slot EXCEPT !["communication"] = Listener!Resume]
              /\ slot["rc"] = Listener!NoEvent => <<"communication">> = order'
              /\ slot["rc"] # Listener!NoEvent => <<"rc", "communication">> = order'
            BY <1>2, <3>1, QueueCommunication DEF ListenerInvariant
        <3>3. /\ DOMAIN slot' = DOMAIN slot /\ slot'["rc"] = slot["rc"]
              /\ slot'["communication"] = Listener!Resume /\ slot'["failure"] = slot["failure"]
            BY <3>2 DEF ListenerInvariant, ListenerTypes, SlotTypes, Listener!Slots
        <3>4. Listener!Emission' = "resumed"
            BY <2>1, <2>4 DEF Listener!Emission
        <3>5. ListenerTypes'
            BY <1>1, <2>1, <3>3 DEF ListenerInvariant, ListenerTypes, FlagTypes,
               ThreadTypes, SlotTypes, IntentTypes
        <3>6. ASSUME slot["rc"] = Listener!NoEvent
              PROVE  RetainedFollowsLink'
            <4>1. link \in {"healthy", "lost"}
                BY <1>2, <2>2, <2>4, <3>6, EventsDiffer DEF ListenerInvariant,
                   RetainedFollowsLink, Nothing, RcAlone, RcBehindResume, CommunicationAlone,
                   CommunicationBehindRc
            <4>2. <<"communication">> = order'
                BY <3>2, <3>6
            <4>3. CommunicationAlone'
                BY <1>1, <1>2, <3>3, <3>4, <3>6, <4>1, <4>2 DEF CommunicationAlone,
                   CommunicationIsNewest, Retained
            <4> QED
                BY <4>3 DEF RetainedFollowsLink
        <3>7. ASSUME slot["rc"] # Listener!NoEvent
              PROVE  RetainedFollowsLink'
            <4>1. <<"rc", "communication">> = order' /\ slot["rc"] \in Listener!RcEvents
                BY <3>2, <3>7 DEF ListenerInvariant, ListenerTypes, SlotTypes
            <4>2. CommunicationBehindRc'
                BY <1>1, <1>2, <3>3, <3>4, <4>1 DEF CommunicationBehindRc,
                   CommunicationIsNewest, Retained
            <4> QED
                BY <4>2 DEF RetainedFollowsLink
        <3>8. FailureIsLast'
            BY <1>1, <1>2, <3>3 DEF FailureIsLast
        <3> QED
            BY <2>3, <3>5, <3>6, <3>7, <3>8 DEF ListenerInvariant
    <2>5. CASE comm # "lost"
        <3>1. UNCHANGED <<slot, order>>
            BY <1>4, <2>5 DEF Listener!ReceiveRc, Listener!slotVars
        <3>2. Listener!Emission' = Listener!Emission
            BY <2>1, <2>2, <2>5 DEF Listener!Emission
        <3>3. RetainedFollowsLink'
            BY <1>1, <3>1, <3>2, RetainedUnchanged DEF ListenerInvariant
        <3>4. ListenerTypes'
            BY <1>1, <2>1, <3>1 DEF ListenerInvariant, ListenerTypes, FlagTypes,
               ThreadTypes, SlotTypes, IntentTypes
        <3>5. FailureIsLast'
            BY <1>1, <1>2, <3>1 DEF FailureIsLast
        <3> QED
            BY <2>3, <3>3, <3>4, <3>5 DEF ListenerInvariant
    <2> QED
        BY <2>4, <2>5
<1>5. CASE Listener!QueueRc
    <2>1. /\ Listener!Queue("rc", in_hand) /\ in_hand \in Listener!RcEvents
          /\ thread = "queue_rc" /\ comm' = "healthy" /\ thread' = "loop"
          /\ in_hand' = Listener!NoEvent
        BY <1>5 DEF Listener!QueueRc, ListenerInvariant, ListenerTypes, ThreadTypes
    <2>2. /\ slot' = [slot EXCEPT !["rc"] = in_hand]
          /\ slot["communication"] = Listener!NoEvent => <<"rc">> = order'
          /\ slot["communication"] # Listener!NoEvent => <<"communication", "rc">> = order'
        BY <1>2, <2>1, QueueRcMessage DEF ListenerInvariant
    <2>3. /\ DOMAIN slot' = DOMAIN slot /\ slot'["rc"] = in_hand
          /\ slot'["communication"] = slot["communication"]
          /\ slot'["failure"] = slot["failure"]
        BY <2>2 DEF ListenerInvariant, ListenerTypes, SlotTypes, Listener!Slots
    <2>4. Listener!Emission \in {"waiting", "healthy", "resumed"}
          /\ Listener!Emission' = "healthy"
        BY <2>1 DEF Listener!Emission, ListenerInvariant, ListenerTypes, ThreadTypes
    <2>5. ListenerTypes'
        BY <1>1, <2>1, <2>3 DEF ListenerInvariant, ListenerTypes, FlagTypes, ThreadTypes, SlotTypes,
           IntentTypes
    <2>6. ASSUME slot["communication"] = Listener!NoEvent
          PROVE  RetainedFollowsLink'
        <3>1. link \in {"waiting", "healthy", "resumed"}
            BY <1>2, <2>4, <2>6, EventsDiffer DEF ListenerInvariant, RetainedFollowsLink,
               Nothing, RcAlone, RcBehindResume, CommunicationAlone, CommunicationBehindRc,
               CommunicationIsNewest
        <3>2. <<"rc">> = order'
            BY <2>2, <2>6
        <3>3. RcAlone'
            BY <1>1, <1>2, <2>1, <2>3, <2>4, <2>6, <3>1, <3>2 DEF RcAlone, Retained
        <3> QED
            BY <3>3 DEF RetainedFollowsLink
    <2>7. ASSUME slot["communication"] # Listener!NoEvent
          PROVE  RetainedFollowsLink'
        <3>1. slot["communication"] = Listener!Resume
            BY <2>4, <2>7 DEF ListenerInvariant, RetainedFollowsLink, Nothing, RcAlone,
               RcBehindResume, CommunicationAlone, CommunicationBehindRc, CommunicationIsNewest
        <3>2. <<"communication", "rc">> = order'
            BY <2>2, <2>7
        <3>3. RcBehindResume'
            BY <1>1, <1>2, <2>1, <2>3, <2>4, <3>1, <3>2 DEF RcBehindResume, Retained
        <3> QED
            BY <3>3 DEF RetainedFollowsLink
    <2>8. OpenedOrFailed' /\ FailureIsLast'
        BY <1>1, <1>2, <2>1, <2>3 DEF ListenerInvariant, OpenedOrFailed, FailureIsLast
    <2> QED
        BY <2>5, <2>6, <2>7, <2>8 DEF ListenerInvariant
<1> QED
    BY <1>3, <1>4, <1>5

\* The application thread starts, stops, or gives up waiting.
LEMMA ControlStep ==
    ASSUME ListenerInvariant,
           \/ Listener!Start \/ Listener!StartReady \/ Listener!Stop \/ Listener!Stopped
           \/ Listener!CloseUnderThread \/ Listener!StopGivesUp \/ Listener!StartTimeout
    PROVE  ListenerInvariant'
<1>1. /\ UNCHANGED <<slot, order, link, request_rc, joy_fail_safe>>
      /\ UNCHANGED <<ready_event, shutdown_error, opened, comm, in_hand>>
      /\ thread' = IF main = "new" THEN "opening" ELSE thread
      /\ main' \in {"wait_ready", "running", "start_failed", "stop_unstarted", "join",
                    "join_closed", "stopped", "stop_failed"}
      /\ failure' \in {failure, TRUE} /\ stop_event' \in {stop_event, TRUE}
      /\ closed' \in {closed, TRUE}
    BY DEF Listener!Start, Listener!StartReady, Listener!Stop, Listener!Stopped,
       Listener!CloseUnderThread, Listener!StopGivesUp, Listener!StartTimeout,
       Listener!RecordFailure, Listener!threadVars, Listener!slotVars, Listener!appVars
<1>2. Listener!Emission' = Listener!Emission
    BY <1>1 DEF Listener!Emission, ListenerInvariant, OpenedOrFailed
<1>3. RetainedFollowsLink'
    BY <1>1, <1>2, RetainedUnchanged DEF ListenerInvariant
<1>4. ListenerTypes'
    <2>1. FlagTypes'
        BY <1>1 DEF ListenerInvariant, ListenerTypes, FlagTypes
    <2>2. ThreadTypes' /\ SlotTypes' /\ IntentTypes'
        BY <1>1 DEF ListenerInvariant, ListenerTypes, ThreadTypes, SlotTypes, IntentTypes
    <2> QED
        BY <2>1, <2>2 DEF ListenerTypes
<1>5. FailureIsLast'
    <2>1. main = "new" => slot["failure"] = Listener!NoEvent /\ link # "failed"
        BY DEF ListenerInvariant, OpenedOrFailed, FailureIsLast
    <2>2. failure => failure'
        BY <1>1 DEF ListenerInvariant, ListenerTypes, FlagTypes
    <2> QED
        BY <1>1, <2>1, <2>2 DEF ListenerInvariant, FailureIsLast
<1>6. OpenedOrFailed'
    BY DEF ListenerInvariant, ListenerTypes, FlagTypes, ThreadTypes, OpenedOrFailed, Listener!Start,
       Listener!StartReady, Listener!Stop, Listener!Stopped, Listener!CloseUnderThread,
       Listener!StopGivesUp, Listener!StartTimeout, Listener!RecordFailure,
       Listener!threadVars
<1> QED
    BY <1>3, <1>4, <1>5, <1>6 DEF ListenerInvariant

\* Whatever the batch, the slots are empty behind a dispatch.
LEMMA DispatchStep ==
    ASSUME ListenerInvariant, Listener!DispatchPending
    PROVE  ListenerInvariant'
<1>1. /\ UNCHANGED <<main, stop_event, closed, thread, ready_event, failure, shutdown_error>>
      /\ UNCHANGED <<opened, comm, in_hand>>
      /\ slot' = Listener!EmptySlots /\ order' = <<>>
      /\ link' = IF link = "failed" \/ slot["failure"] # Listener!NoEvent
                 THEN "failed" ELSE Listener!Emission
    BY DEF Listener!DispatchPending, Listener!mainVars, Listener!threadVars
<1>2. /\ DOMAIN slot' = Listener!Slots /\ slot'["rc"] = Listener!NoEvent
      /\ slot'["communication"] = Listener!NoEvent /\ slot'["failure"] = Listener!NoEvent
    BY <1>1 DEF Listener!EmptySlots, Listener!Slots
<1>3. Listener!Emission' = Listener!Emission
      /\ Listener!Emission \in {"waiting", "healthy", "lost", "resumed"}
    BY <1>1 DEF Listener!Emission, ListenerInvariant, ListenerTypes, ThreadTypes
<1>4. Nothing'
    BY <1>1, <1>2, <1>3 DEF Nothing, Retained
<1>5. \A i \in 1..3 : Listener!PendingBatch[i] \in Listener!RcEvents \cup
          {Listener!NoEvent, Listener!Timeout, Listener!Resume, Listener!Failure}
    <2>1. /\ Listener!NoEvent \in Listener!RcEvents \cup
                 {Listener!NoEvent, Listener!Timeout, Listener!Resume, Listener!Failure}
          /\ \A i \in 1..3 : i <= Len(order) => order[i] \in Listener!Slots
        BY DEF ListenerInvariant, RetainedFollowsLink, Nothing, RcAlone, RcBehindResume,
           CommunicationAlone, CommunicationBehindRc, Retained, Listener!Slots
    <2> QED
        BY <2>1 DEF Listener!PendingBatch, ListenerInvariant, ListenerTypes, SlotTypes,
           Listener!Slots
<1>6. request_rc' \in Listener!Snapshots /\ joy_fail_safe' \in BOOLEAN
    <2> DEFINE before == [request |-> request_rc, fail_safe |-> joy_fail_safe]
               first == Listener!Handle(before, Listener!PendingBatch[1])
               second == Listener!Handle(first, Listener!PendingBatch[2])
               third == Listener!Handle(second, Listener!PendingBatch[3])
    <2>1. before \in Listener!Intents
        BY DEF ListenerInvariant, ListenerTypes, IntentTypes, Listener!Intents
    <2>2. request_rc' = third.request /\ joy_fail_safe' = third.fail_safe
        BY DEF Listener!DispatchPending, Listener!HandleBatch
    <2> HIDE DEF before
    <2>3. first \in Listener!Intents
        BY <1>5, <2>1, HandledIntent
    <2> HIDE DEF first
    <2>4. second \in Listener!Intents
        BY <1>5, <2>3, HandledIntent
    <2> HIDE DEF second
    <2>5. third \in Listener!Intents
        BY <1>5, <2>4, HandledIntent
    <2> QED
        BY <2>2, <2>5 DEF Listener!Intents
<1>7. ListenerTypes'
    BY <1>1, <1>2, <1>3, <1>6 DEF ListenerInvariant, ListenerTypes, FlagTypes, ThreadTypes,
       SlotTypes, IntentTypes
<1>8. OpenedOrFailed' /\ FailureIsLast'
    BY <1>1, <1>2, <1>3 DEF ListenerInvariant, OpenedOrFailed, FailureIsLast
<1> QED
    BY <1>4, <1>7, <1>8 DEF ListenerInvariant, RetainedFollowsLink

\* A step of the listener keeps the invariant.
LEMMA ListenerStep ==
    ASSUME ListenerInvariant, [Listener!Next]_listenerVars
    PROVE  ListenerInvariant'
<1>1. CASE UNCHANGED listenerVars
    BY <1>1 DEF listenerVars, ListenerInvariant, ListenerTypes, FlagTypes, ThreadTypes, SlotTypes,
       IntentTypes, OpenedOrFailed, FailureIsLast,
       RetainedFollowsLink, Nothing, RcAlone, RcBehindResume, CommunicationAlone,
       CommunicationBehindRc, CommunicationIsNewest, Retained, Listener!Emission
<1>2. CASE Listener!Next
    BY <1>2, PlainThreadStep, FailingThreadStep, ReceivingStep, ControlStep, DispatchStep
       DEF Listener!Next, Listener!ThreadStep, Listener!MainStep, Listener!MainTimeout
<1> QED
    BY <1>1, <1>2

\* The properties of the run follow.
LEMMA ListenerInvariantImplies ==
    ListenerInvariant => /\ Listener!TypeOK /\ Listener!StartedMeansOpened
                         /\ Listener!CloseFailureReported
<1> SUFFICES ASSUME ListenerInvariant
             PROVE  /\ Listener!TypeOK /\ Listener!StartedMeansOpened
                    /\ Listener!CloseFailureReported
    OBVIOUS
<1>1. {order[i] : i \in DOMAIN order} = {s \in Listener!Slots : slot[s] # Listener!NoEvent}
    BY EventsDiffer DEF ListenerInvariant, ListenerTypes, SlotTypes, RetainedFollowsLink,
       Nothing, RcAlone, RcBehindResume, CommunicationAlone, CommunicationBehindRc,
       CommunicationIsNewest, Retained, Listener!Slots
<1>2. Listener!TypeOK
    BY <1>1 DEF ListenerInvariant, ListenerTypes, FlagTypes, ThreadTypes, SlotTypes, IntentTypes,
       Listener!TypeOK
<1> QED
    BY <1>2 DEF ListenerInvariant, OpenedOrFailed, Listener!StartedMeansOpened,
       Listener!CloseFailureReported

----------------------------------------------------------------------------
(* The listener implements the link.                                          *)

\* Both modules extend JoystickInput.
LEMMA SameInput ==
    /\ Listener!Link!NoEvent = Listener!NoEvent /\ Listener!Link!Timeout = Listener!Timeout
    /\ Listener!Link!Resume = Listener!Resume /\ Listener!Link!Failure = Listener!Failure
    /\ Listener!Link!RcEvents = Listener!RcEvents
    /\ Listener!Link!DefaultRequest = Listener!DefaultRequest
    /\ \A x, e : Listener!Link!Handle(x, e) = Listener!Handle(x, e)
<1>1. \A r : Listener!Link!RcEvent(r) = Listener!RcEvent(r)
    BY DEF Listener!RcEvent, Listener!Link!RcEvent
<1>2. Listener!Link!DefaultRequest = Listener!DefaultRequest
    BY DEF Listener!DefaultRequest, Listener!Link!DefaultRequest, Listener!RC_MIN,
       Listener!Link!RC_MIN
<1>3. Listener!Link!FailSafeIntent = Listener!FailSafeIntent
    BY <1>2 DEF Listener!FailSafeIntent, Listener!Link!FailSafeIntent
<1> QED
    BY <1>1, <1>2, <1>3 DEF Listener!Link!NoEvent, Listener!NoEvent, Listener!Link!Timeout,
       Listener!Timeout, Listener!Link!Resume, Listener!Resume, Listener!Link!Failure,
       Listener!Failure, Listener!Link!RcEvents, Listener!RcEvents, Listener!Link!Handle,
       Listener!Handle

\* An empty place of a batch has no callback.
LEMMA NoEventIsIdle == \A x : Listener!Handle(x, Listener!NoEvent) = x
BY DEF Listener!Handle, Listener!NoEvent

\* The batch is what the slots hold, in their order, the failure last.
LEMMA RetainedBatch ==
    ASSUME ListenerTypes
    PROVE  /\ Retained(<<>>) =>
                Listener!PendingBatch = <<slot["failure"], Listener!NoEvent, Listener!NoEvent>>
           /\ \A s : Retained(<<s>>) =>
                Listener!PendingBatch = <<slot[s], slot["failure"], Listener!NoEvent>>
           /\ \A s, t : Retained(<<s, t>>) =>
                Listener!PendingBatch = <<slot[s], slot[t], slot["failure"]>>
<1>1. ASSUME Retained(<<>>)
      PROVE  Listener!PendingBatch =
                <<slot["failure"], Listener!NoEvent, Listener!NoEvent>>
    <2>1. CASE slot["failure"] = Listener!NoEvent
        <3>1. order = <<>> /\ Len(<<>>) = 0
            BY <1>1, <2>1 DEF Retained
        <3> QED
            BY <2>1, <3>1 DEF Listener!PendingBatch
    <2>2. CASE slot["failure"] # Listener!NoEvent
        <3>1. order = <<"failure">>
            BY <1>1, <2>2, Appends DEF Retained
        <3> QED
            BY <2>2, <3>1 DEF Listener!PendingBatch
    <2> QED
        BY <2>1, <2>2
<1>2. ASSUME NEW s, Retained(<<s>>)
      PROVE  Listener!PendingBatch = <<slot[s], slot["failure"], Listener!NoEvent>>
    <2>1. CASE slot["failure"] = Listener!NoEvent
        <3>1. order = <<s>>
            BY <1>2, <2>1 DEF Retained
        <3> QED
            BY <2>1, <3>1 DEF Listener!PendingBatch
    <2>2. CASE slot["failure"] # Listener!NoEvent
        <3>1. order = <<s, "failure">>
            BY <1>2, <2>2, Appends DEF Retained
        <3> QED
            BY <2>2, <3>1 DEF Listener!PendingBatch
    <2> QED
        BY <2>1, <2>2
<1>3. ASSUME NEW s, NEW t, Retained(<<s, t>>)
      PROVE  Listener!PendingBatch = <<slot[s], slot[t], slot["failure"]>>
    <2>1. CASE slot["failure"] = Listener!NoEvent
        <3>1. order = <<s, t>>
            BY <1>3, <2>1 DEF Retained
        <3> QED
            BY <2>1, <3>1 DEF Listener!PendingBatch
    <2>2. CASE slot["failure"] # Listener!NoEvent
        <3>1. <<s, t, "failure">> = Append(<<s, t>>, "failure")
            BY Appends
        <3>2. order = <<s, t, "failure">>
            BY <1>3, <2>2, <3>1 DEF Retained
        <3> QED
            BY <2>2, <3>2 DEF Listener!PendingBatch
    <2> QED
        BY <2>1, <2>2
<1> QED
    BY <1>1, <1>2, <1>3

\* The callbacks of a batch, however its slots are laid out.
LEMMA BatchIntent ==
    ASSUME ListenerTypes, NEW x, NEW first, NEW second,
           \/ Retained(<<>>) /\ first = Listener!NoEvent /\ second = Listener!NoEvent
           \/ \E s : Retained(<<s>>) /\ first = Listener!NoEvent /\ second = slot[s]
           \/ \E s, t : Retained(<<s, t>>) /\ first = slot[s] /\ second = slot[t]
    PROVE  Listener!HandleBatch(x, Listener!PendingBatch) =
               Listener!Link!HandleBatch(x, <<first, second, slot["failure"]>>)
<1> DEFINE handled == Listener!Handle(Listener!Handle(Listener!Handle(x, first), second),
                                      slot["failure"])
<1>1. Listener!Link!HandleBatch(x, <<first, second, slot["failure"]>>) = handled
    BY SameInput DEF Listener!Link!HandleBatch
<1>2. ASSUME NEW a, NEW b, NEW c, Listener!PendingBatch = <<a, b, c>>
      PROVE  Listener!HandleBatch(x, Listener!PendingBatch) =
                 Listener!Handle(Listener!Handle(Listener!Handle(x, a), b), c)
    BY <1>2 DEF Listener!HandleBatch
<1>3. CASE Retained(<<>>) /\ first = Listener!NoEvent /\ second = Listener!NoEvent
    <2>1. Listener!HandleBatch(x, Listener!PendingBatch) =
              Listener!Handle(Listener!Handle(Listener!Handle(x, slot["failure"]),
                                              Listener!NoEvent), Listener!NoEvent)
        BY <1>2, <1>3, RetainedBatch
    <2> QED
        BY <1>1, <1>3, <2>1, NoEventIsIdle
<1>4. CASE \E s : Retained(<<s>>) /\ first = Listener!NoEvent /\ second = slot[s]
    <2>1. PICK s : Retained(<<s>>) /\ first = Listener!NoEvent /\ second = slot[s]
        BY <1>4
    <2>2. Listener!HandleBatch(x, Listener!PendingBatch) =
              Listener!Handle(Listener!Handle(Listener!Handle(x, second), slot["failure"]),
                              Listener!NoEvent)
        BY <1>2, <2>1, RetainedBatch
    <2> QED
        BY <1>1, <2>1, <2>2, NoEventIsIdle
<1>5. CASE \E s, t : Retained(<<s, t>>) /\ first = slot[s] /\ second = slot[t]
    <2>1. PICK s, t : Retained(<<s, t>>) /\ first = slot[s] /\ second = slot[t]
        BY <1>5
    <2> QED
        BY <1>1, <1>2, <2>1, RetainedBatch
<1> QED
    BY <1>3, <1>4, <1>5

\* Every batch is one the link may deliver where the last dispatch left it.
LEMMA BatchIsDelivery ==
    ASSUME ListenerInvariant
    PROVE  \E d \in Listener!Link!Deliveries(link) :
              /\ link # "failed" => d.link = Listener!Emission
              /\ link = "failed" => d.link = "failed"
              /\ \A x : Listener!HandleBatch(x, Listener!PendingBatch) =
                        Listener!Link!HandleBatch(x, <<d.first, d.second, slot["failure"]>>)
<1> DEFINE delivery(f, s, l) == [first |-> f, second |-> s, link |-> l]
<1>1. CASE Nothing
    <2>1. delivery(Listener!NoEvent, Listener!NoEvent, link) \in
              Listener!Link!Deliveries(link)
        BY SameInput DEF Listener!Link!Deliveries, Listener!Link!Quiet
    <2>2. \A x : Listener!HandleBatch(x, Listener!PendingBatch) =
              Listener!Link!HandleBatch(x, <<Listener!NoEvent, Listener!NoEvent,
                                             slot["failure"]>>)
        BY <1>1, BatchIntent DEF Nothing, ListenerInvariant
    <2> QED
        BY <1>1, <2>1, <2>2 DEF Nothing
<1>2. CASE RcAlone
    <2>1. delivery(Listener!NoEvent, slot["rc"], "healthy") \in
              Listener!Link!Deliveries(link)
        BY <1>2, SameInput DEF RcAlone, Listener!Link!Deliveries, Listener!Link!RcOnly
    <2>2. \A x : Listener!HandleBatch(x, Listener!PendingBatch) =
              Listener!Link!HandleBatch(x, <<Listener!NoEvent, slot["rc"], slot["failure"]>>)
        BY <1>2, BatchIntent DEF RcAlone, ListenerInvariant
    <2> QED
        BY <1>2, <2>1, <2>2 DEF RcAlone
<1>3. CASE RcBehindResume
    <2>1. delivery(Listener!Resume, slot["rc"], "healthy") \in Listener!Link!Deliveries(link)
        BY <1>3, SameInput DEF RcBehindResume, Listener!Link!Deliveries,
           Listener!Link!ResumeThenRc
    <2>2. \A x : Listener!HandleBatch(x, Listener!PendingBatch) =
              Listener!Link!HandleBatch(x, <<Listener!Resume, slot["rc"], slot["failure"]>>)
        BY <1>3, BatchIntent DEF RcBehindResume, ListenerInvariant
    <2> QED
        BY <1>3, <2>1, <2>2 DEF RcBehindResume
<1>4. ASSUME NEW e \in Listener!RcEvents \cup {Listener!NoEvent},
             CommunicationIsNewest, link # "failed",
             e = Listener!NoEvent => link \in {"healthy", "lost"}
      PROVE  delivery(e, slot["communication"], Listener!Emission) \in
                 Listener!Link!Deliveries(link)
    BY <1>4, SameInput DEF CommunicationIsNewest, Listener!Link!Deliveries,
       Listener!Link!ThenTimeout, Listener!Link!ThenResume
<1>5. CASE CommunicationAlone
    <2>1. delivery(Listener!NoEvent, slot["communication"], Listener!Emission) \in
              Listener!Link!Deliveries(link)
        BY <1>4, <1>5 DEF CommunicationAlone
    <2>2. \A x : Listener!HandleBatch(x, Listener!PendingBatch) =
              Listener!Link!HandleBatch(x, <<Listener!NoEvent, slot["communication"],
                                             slot["failure"]>>)
        BY <1>5, BatchIntent DEF CommunicationAlone, ListenerInvariant
    <2> QED
        BY <1>5, <2>1, <2>2 DEF CommunicationAlone
<1>6. CASE CommunicationBehindRc
    <2>1. delivery(slot["rc"], slot["communication"], Listener!Emission) \in
              Listener!Link!Deliveries(link)
        BY <1>4, <1>6, EventsDiffer DEF CommunicationBehindRc
    <2>2. \A x : Listener!HandleBatch(x, Listener!PendingBatch) =
              Listener!Link!HandleBatch(x, <<slot["rc"], slot["communication"],
                                             slot["failure"]>>)
        BY <1>6, BatchIntent DEF CommunicationBehindRc, ListenerInvariant
    <2> QED
        BY <1>6, <2>1, <2>2 DEF CommunicationBehindRc
<1> QED
    BY <1>1, <1>2, <1>3, <1>5, <1>6 DEF ListenerInvariant, RetainedFollowsLink

\* A dispatch of the slots is one of the link.
LEMMA DispatchImplementsLink ==
    ASSUME ListenerInvariant, Listener!DispatchPending
    PROVE  Listener!Link!Dispatch
<1> DEFINE before == [request |-> request_rc, fail_safe |-> joy_fail_safe]
<1>1. PICK d \in Listener!Link!Deliveries(link) :
          /\ link # "failed" => d.link = Listener!Emission
          /\ link = "failed" => d.link = "failed"
          /\ \A x : Listener!HandleBatch(x, Listener!PendingBatch) =
                    Listener!Link!HandleBatch(x, <<d.first, d.second, slot["failure"]>>)
    BY BatchIsDelivery
<1>2. slot["failure"] \in {Listener!Link!NoEvent, Listener!Link!Failure}
    BY SameInput DEF ListenerInvariant, ListenerTypes, SlotTypes
<1>3. link = "failed" => slot["failure"] = Listener!Link!NoEvent
    BY SameInput, EventsDiffer DEF ListenerInvariant, RetainedFollowsLink, Nothing, RcAlone,
       RcBehindResume, CommunicationAlone, CommunicationBehindRc
<1>4. link' = IF slot["failure"] = Listener!Link!Failure THEN "failed" ELSE d.link
    BY <1>1, <1>2, <1>3, SameInput, EventsDiffer DEF Listener!DispatchPending
<1>5. /\ request_rc' = Listener!HandleBatch(before, Listener!PendingBatch).request
      /\ joy_fail_safe' = Listener!HandleBatch(before, Listener!PendingBatch).fail_safe
    BY DEF Listener!DispatchPending
<1>6. Listener!HandleBatch(before, Listener!PendingBatch) =
          Listener!Link!HandleBatch(Listener!Link!Intent,
                                    <<d.first, d.second, slot["failure"]>>)
    BY <1>1 DEF Listener!Link!Intent
<1> HIDE DEF before
<1> QED
    BY <1>1, <1>2, <1>3, <1>4, <1>5, <1>6 DEF Listener!Link!Dispatch

\* Both begin waiting, with the default request.
LEMMA ListenerInitImplementsLink == Listener!Init => Listener!Link!LinkInit
BY SameInput DEF Listener!Init, Listener!Link!LinkInit

\* Every other step of the listener is a stutter of the link.
LEMMA ListenerStepImplementsLink ==
    ASSUME ListenerInvariant, [Listener!Next]_listenerVars
    PROVE  [Listener!Link!Dispatch]_(Listener!Link!linkVars)
<1>1. CASE Listener!DispatchPending
    BY <1>1, DispatchImplementsLink
<1>2. CASE UNCHANGED listenerVars
    BY <1>2 DEF listenerVars, Listener!Link!linkVars
<1>3. CASE \/ Listener!ThreadStep \/ Listener!Start \/ Listener!StartReady
           \/ Listener!MainTimeout \/ Listener!Stop \/ Listener!Stopped
    <2>1. UNCHANGED <<link, request_rc, joy_fail_safe>>
        BY <1>3 DEF Listener!ThreadStep, Listener!Open, Listener!Raise, Listener!LoopHead,
           Listener!Idle, Listener!NoCommunication, Listener!ReceiveRc, Listener!QueueRc,
           Listener!SetReady, Listener!Close, Listener!Start, Listener!StartReady,
           Listener!MainTimeout, Listener!StartTimeout, Listener!CloseUnderThread,
           Listener!StopGivesUp, Listener!Stop, Listener!Stopped, Listener!appVars
    <2> QED
        BY <2>1 DEF Listener!Link!linkVars
<1> QED
    BY <1>1, <1>2, <1>3 DEF Listener!Next, Listener!MainStep

----------------------------------------------------------------------------
(* The listener and the lifecycle behind the composition.                     *)

\* A step of the composition is a step of either, or leaves it alone.
LEMMA NextIsListenerStep == [Next]_vars => [Listener!Next]_listenerVars
BY DEF Next, ListenerMoves, LifecycleMoves, VehicleMoves, BlackboxMoves, TrackerMoves,
   ResultsMoves, Moves, vars

LEMMA NextIsLifecycleStep == [Next]_vars => [Lifecycle!Next]_lifecycleVars
BY DEF Next, ListenerMoves, LifecycleMoves, VehicleMoves, BlackboxMoves, TrackerMoves,
   ResultsMoves, Moves, vars

\* However the two threads interleave, a start() of the listener that returns has an
\* open connection and a stop() that returns hides no failed close; whichever service
\* fails to start or to stop, none is stopped twice, each that started is stopped, and
\* the stops come in their order.
THEOREM StartAndStopCorrect == Spec => []StartAndStopAreSound
<1>1. Init => ListenerInvariant /\ LifecycleInvariant
    BY ListenerInit, LifecycleInit DEF Init
<1>2. ListenerInvariant /\ LifecycleInvariant /\ [Next]_vars =>
          (ListenerInvariant /\ LifecycleInvariant)'
    BY ListenerStep, LifecycleStep, NextIsListenerStep, NextIsLifecycleStep
<1>3. ListenerInvariant /\ LifecycleInvariant => StartAndStopAreSound
    BY ListenerInvariantImplies, LifecycleInvariantImplies DEF StartAndStopAreSound
<1> QED
    BY <1>1, <1>2, <1>3, PTL DEF Spec

\* Whatever the two threads interleave, the application sees the batches of
\* JoystickLink: what the control loop's theorems assume of the link is what the
\* slots, their order and the library's callbacks give it.
THEOREM ListenerImplementsLink == Spec => ImplementsLink
<1>1. Init => ListenerInvariant /\ Listener!Link!LinkInit
    BY ListenerInit, ListenerInitImplementsLink DEF Init
<1>2. ListenerInvariant /\ [Next]_vars => ListenerInvariant'
    BY ListenerStep, NextIsListenerStep
<1>3. ListenerInvariant /\ [Next]_vars => [Listener!Link!Dispatch]_(Listener!Link!linkVars)
    BY ListenerStepImplementsLink, NextIsListenerStep
<1> QED
    BY <1>1, <1>2, <1>3, PTL
       DEF Spec, ImplementsLink, Listener!ImplementsLink, Listener!Link!LinkSpec
==============================================================================
