---------------------------- MODULE VehicleState ----------------------------
(* The vehicle's readings on their way from the dispatcher's worker to the   *)
(* control loop: the read commands of msp/command_dispatcher.py publish a    *)
(* dictionary and add received_at_s to it afterwards, App.__update_state     *)
(* copies them into the context with no lock, and the take-off controller    *)
(* derives the vertical speed from what it is given.                         *)
(*                                                                           *)
(* A sample is its number; the vehicle climbs one unit between two of them   *)
(* and they arrive one unit of time apart, so a sample's altitude, speed and *)
(* received_at_s are its number too, and 0 stands for a missing key.  Each   *)
(* access to a published dictionary is one action.                           *)
EXTENDS Integers, FiniteSets

CONSTANTS
    MaxSample,  \* bound: samples of a reading
    None

SampleAssumption == MaxSample \in Nat /\ None \notin 0..MaxSample

VARIABLES
    worker,    \* the dispatcher thread: "idle", "altitude" or "attitude"
    published, \* sample held by last_altitude and last_attitude, 0 for None
    stamped,   \* newest sample with a received_at_s
    loop,      \* the control loop: the next access of __update_state, or "control"
    held,      \* the altitude sample the local variable refers to
    seen,      \* history: last_altitude when the pass began
    ctx,       \* the context's readings
    takeoff    \* the take-off controller's previous sample and derived speed

vars == <<worker, published, stamped, loop, held, seen, ctx, takeoff>>

Readings == {"altitude", "attitude"}

Init ==
    /\ worker = "idle" /\ loop = "begin"
    /\ published = [r \in Readings |-> 0] /\ stamped = [r \in Readings |-> 0]
    /\ held = 0 /\ seen = 0
    /\ ctx = [alt |-> 0, speed |-> 0, time |-> 0, attitude |-> 0, attitude_time |-> 0]
    /\ takeoff = [alt |-> None, time |-> None, speed |-> 0]

----------------------------------------------------------------------------
(* The worker.  A read that fails raises before the assignment and changes   *)
(* nothing.                                                                  *)

workerUnchanged == UNCHANGED <<loop, held, seen, ctx, takeoff>>

\* ReadAltitudeCommand and ReadAttitudeCommand: last_... = read_...().
Publish(r) ==
    /\ worker = "idle" /\ published[r] < MaxSample
    /\ published' = [published EXCEPT ![r] = @ + 1]
    /\ worker' = r
    /\ UNCHANGED stamped
    /\ workerUnchanged

\* A bug for NewestArrives: received_at_s is added to the first sample only.
StampOnce(r) ==
    /\ worker = r
    /\ stamped' = [stamped EXCEPT ![r] = 1]
    /\ worker' = "idle"
    /\ UNCHANGED published
    /\ workerUnchanged

\* last_...["received_at_s"] = time.monotonic().
Stamp(r) ==
    /\ worker = r
    /\ stamped' = [stamped EXCEPT ![r] = published[r]]
    /\ worker' = "idle"
    /\ UNCHANGED published
    /\ workerUnchanged

----------------------------------------------------------------------------
(* The control loop.                                                         *)

\* received_at_s of a sample: missing until it is stamped.
ReceivedAt(r, n) == IF n <= stamped[r] THEN n ELSE 0

loopUnchanged == UNCHANGED <<worker, published, stamped>>

\* The pass begins; the readings of __update_state that are one access are left out.
BeginPass ==
    /\ loop = "begin"
    /\ seen' = published["altitude"]
    /\ loop' = "alt"
    /\ UNCHANGED <<held, ctx, takeoff>> /\ loopUnchanged

\* A bug for PassIsCurrent: the altitude of the last pass's dictionary.
ReadHeldAltitude ==
    /\ loop = "alt"
    /\ ctx' = [ctx EXCEPT !.alt = held]
    /\ loop' = "dictionary"
    /\ UNCHANGED <<held, seen, takeoff>> /\ loopUnchanged

\* get_altitude: 0 before the first sample.
ReadAltitude ==
    /\ loop = "alt"
    /\ ctx' = [ctx EXCEPT !.alt = published["altitude"]]
    /\ loop' = "dictionary"
    /\ UNCHANGED <<held, seen, takeoff>> /\ loopUnchanged

\* altitude = drone.dispatcher.last_altitude, and its vertical speed.
ReadSpeed ==
    /\ loop = "dictionary"
    /\ held' = published["altitude"]
    /\ ctx' = [ctx EXCEPT !.speed = held']
    /\ loop' = IF held' = 0 THEN "attitude" ELSE "time"
    /\ UNCHANGED <<seen, takeoff>> /\ loopUnchanged

\* A bug for SpeedHasItsTime: last_altitude is read a third time.
TimeOfTheNewest == ReceivedAt("altitude", published["altitude"])

TimeOfTheSample == ReceivedAt("altitude", held)

ReadTime ==
    /\ loop = "time"
    /\ ctx' = [ctx EXCEPT !.time = TimeOfTheSample]
    /\ loop' = "attitude"
    /\ UNCHANGED <<held, seen, takeoff>> /\ loopUnchanged

ReadAttitude ==
    /\ loop = "attitude"
    /\ LET n == published["attitude"]
       IN  ctx' = [ctx EXCEPT !.attitude = n, !.attitude_time = ReceivedAt("attitude", n)]
    /\ loop' = "control"
    /\ UNCHANGED <<held, seen, takeoff>> /\ loopUnchanged

\* _derive_vertical_speed: a sample whose time does not advance is not used.
Derived ==
    CASE takeoff.alt = None -> [alt |-> ctx.alt, time |-> ctx.time, speed |-> 0]
      [] takeoff.alt # None /\ ctx.time <= takeoff.time -> takeoff
      [] OTHER -> [alt |-> ctx.alt, time |-> ctx.time,
                   speed |-> (ctx.alt - takeoff.alt) \div (ctx.time - takeoff.time)]

Control ==
    /\ loop = "control"
    /\ takeoff' = Derived
    /\ loop' = "begin"
    /\ UNCHANGED <<held, seen, ctx>> /\ loopUnchanged

Worker == \E r \in Readings : Publish(r) \/ Stamp(r)

Loop == BeginPass \/ ReadAltitude \/ ReadSpeed \/ ReadTime \/ ReadAttitude \/ Control

Next == Worker \/ Loop

Spec == Init /\ [][Next]_vars

\* The loop runs at its rate and a stamp follows its publication at once.
FairSpec == Spec /\ WF_vars(Loop) /\ \A r \in Readings : WF_vars(Stamp(r))

----------------------------------------------------------------------------

Samples == 0..MaxSample

TypeOK ==
    /\ worker \in {"idle"} \cup Readings
    /\ loop \in {"begin", "alt", "dictionary", "time", "attitude", "control"}
    /\ published \in [Readings -> Samples] /\ stamped \in [Readings -> Samples]
    /\ held \in Samples /\ seen \in Samples
    /\ ctx \in [alt : Samples, speed : Samples, time : Samples, attitude : Samples,
                attitude_time : Samples]
    /\ takeoff.speed \in Int

\* The vertical speed and the attitude come with their own time or with none,
\* however often the worker publishes while the loop copies them.
SpeedHasItsTime ==
    loop = "control" =>
        /\ ctx.time \in {0, ctx.speed}
        /\ ctx.attitude_time \in {0, ctx.attitude}

\* A pass uses nothing older than what was published when it began, and its
\* altitude is never of a later sample than its vertical speed.
PassIsCurrent == loop = "control" => seen <= ctx.alt /\ ctx.alt <= ctx.speed

\* The newest sample reaches the context with its own time.
NewestArrives ==
    \A n \in 1..MaxSample : published["altitude"] = n ~> (ctx.speed >= n /\ ctx.time >= n)

\* takeoff_controller.py:115: altitude_sample_time_s is the "monotonic timestamp
\* associated with the altitude sample".
AltitudeHasItsTime == loop = "control" /\ ctx.time # 0 => ctx.alt = ctx.time

=============================================================================
