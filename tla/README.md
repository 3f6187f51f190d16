# Formal model of the bt_ws flight application

`bt_app` runs on a companion computer next to a Betaflight flight controller
(FCU).  It receives the pilot's joystick over MAVLink, decides in a 50 Hz loop
which flight state the vehicle is in, computes eight RC channels and sends them
to the FCU over MSP.  These modules model the parts of it where a wrong order of
steps would be felt in flight, check them with TLC and prove the most important
invariants with TLAPS.

## 1. The system

| Component | State it keeps | Operations | Interacts with |
|---|---|---|---|
| Control loop, `app.py` | stop event, lifecycle, SF latch | `run` iterates: fatal check, joystick dispatch, `__update_state`, `_prepare_controllers`, `resolve`, `_resolve_rc`, second stop check, record, `set_rc` | everything below, on one thread |
| State machine, `sm.py` | current state | `resolve`: 16 guarded transitions, in registration order | reads and writes the context; `before` hook resets controllers |
| Context, `context.py` | the blackboard: `request_rc`, `joy_fail_safe`, `armed`, `armable`, `drone_alt`, `alt_setpoint`, `takeoff_reach`, `tracker_*` | plain fields | shared by loop, guards and handlers |
| Controllers, `control/` | arm sequence time, takeoff settling time, hold setpoint and throttle latch, fail-safe phase | `reset` on entry, `update` once per loop in their state | called by `_resolve_rc` |
| Joystick listener, `control/rc_channel_override.py` | stop/ready events, failure, shutdown error, three pending slots with sequence numbers | `start`, `_run`, `_queue_*`, `dispatch_pending`, `stop` | a background thread that fills slots, the loop thread that empties them |
| MSP dispatcher, `msp/command_dispatcher.py` | heap of commands, token per key, wake and stop events, fatal error | `submit`, `set_rc`, `_run`, `stop`, `raise_if_failed` | the loop replaces the RC command, the worker executes and repeats |
| MSP client, codec and transports, `msp/` | byte stream, unread part of it | `request`, `send_raw_rc`, `read_frame`, `encode`, `parse_*` | called by the worker; publishes readings the loop copies |
| Tracker, `control/tracker_controller.py` | acquisition, phase, counts, commit deadline, slewed commands, configuration snapshot | `observe`, `start_tracking`, `update`, `stop_tracking`, parameter listener | reads results a ZMQ thread stores |
| Manual landing, `services/manual_land.py`, `control/land_detector.py` | confirmation timer and flag | `update`, `reset` | the loop; the parameter listener |
| Services, `app_services.py`, `main.py` | list of started services | `start_all`, `stop_all`, signal handlers | start-up with retries, shutdown |
| Blackbox, `blackbox.py` | bounded buffer, session files | `record`, `record_odometry`, writer thread, recovery | loop, MAVLink thread, disk, `bt_analysis` |
| MAVLink service, `mavlink_wrapper.py` on `scheduler/` | timed queue, tokens, socket | `start`, `stop`, texts, set-points, periodic telemetry, poll | main thread against the scheduler's worker |
| Parameters and CLI, `parameters/`, `bt_cli` | values in memory and on disk; attempts of an operation | list, get, set, save over UDP | MAVLink service, a lossy network |
| Target selector, `services/target_selector.py`, `bt_gst` subscriber and runner | reticle, last command and its age, the backend's box | publish each iteration, receive, apply | loop, a ZMQ socket, the video process |
| Tracker results, `bt_gst` probe and publisher, `visual_bridge/`, `services/tracker_result_store.py` | one pending result, the newest received, the stored one | publish, send, receive, store | streaming thread, two workers, the loop |
| Pipeline configuration, `bt_gst/config.py`, `cli.py`, `pipeline_builder.py` | three layers and their merge | parse, validate, build, look up | sequential |
| Estimators, PIDs, sensors, overlay, simulation, web front end | | | outside the control flow that is modelled |

What is hard, and what makes each part correct:

* **Two threads around the joystick.** Messages, time-outs and failures arrive
  on a listener thread and are coalesced into three slots; the loop must see them
  in arrival order, must never see an old stick position behind a loss, and must
  hear of a dying listener.
* **Two threads around the RC command.** Every loop iteration replaces a command
  that the worker may be executing or about to repeat.  There must always be
  exactly one current command, it must be the latest, the worker must not sleep
  past it, and a failure must stop everything.
* **A state machine whose priorities are a registration order** and whose guards
  read flags written in other iterations: a lost link must end in fail-safe, the
  pilot's override must win, a takeoff must really have settled, a switch must
  not start tracking twice, and the armed flag must match the state.
* **Shutdown and errors** can come in between any two steps of the loop.
* **A landing on a lost link** must be confirmed by an unbroken time near the
  ground, with parameters changed and the link flapping in between; the disarm
  must stand.
* **A tracker that owns the channels** counts camera frames that the loop reads
  several times, while the configuration may be replaced between its two calls.
* **A recorder that may be killed at any step** leaves files others read.
* **Links that lose, delay and repeat**: UDP under the parameter tool, ZeroMQ
  under selector and results, a serial line under MSP.  An answer that comes
  late must not be taken for another one.

## 2. Modules

| Module | Models | Built on |
|---|---|---|
| `JoystickInput` | `InternalJoystick` as a record of what the guards read; the four event handlers of `App` as `Handle` | |
| `JoystickLink` | abstract: what one `dispatch_pending` may hand to the application, given how the link stood at the previous one | `JoystickInput` |
| `JoystickListener` | the listener service with both threads; implements `JoystickLink` | `JoystickInput`, `JoystickLink` (refinement) |
| `FlightControllers` | arm, takeoff, hold and fail-safe controllers as functions of their state and the time step | |
| `FlightControl` | the loop, the state machine and the handlers; its joystick is `JoystickLink`'s `Dispatch` | `JoystickLink`, `FlightControllers` |
| `ManualLanding` | the landing detector and service inside that loop | `FlightControl` |
| `FailSafeLanding` | the fail-safe controller in closed loop with a vehicle, moving ground and late telemetry | |
| `RcStream` | abstract: the RC command as a register of which the FCU gets samples | |
| `MspDispatcher` | heap, tokens, worker and shutdown; implements `RcStream` | `RcStream` (refinement) |
| `MspCodec` | frames as bytes and the frame reader, one step per byte | |
| `MspLine` | a frame on a noisy line | `MspCodec` |
| `MspLink` | requests, acknowledgements and time-outs over one byte stream | `MspCodec` |
| `MspAnswers` | the two payloads whose parsing branches | |
| `MspStack` | dispatcher, line, link and payloads side by side; a behaviour moves one of them | `MspDispatcher`, `MspLine`, `MspLink`, `MspAnswers` |
| `VehicleState` | readings from the worker's dictionaries to the loop's context | |
| `AppLifecycle` | `main`, `App.start`, `stop_all`, signals | |
| `Blackbox` | recorder, writer, disk, kill and restart, the repository that reads | |
| `CommandScheduler`, `MavlinkService` | the scheduler; the MAVLink service on it | service on scheduler |
| `ParameterProtocol` | parameter service, storage and CLI over a lossy network | |
| `TrackerControl` | phases, counts, time-outs and configuration of the tracker, driven by the loop | |
| `TrackerCommands` | its slewed commands and vertical loop, in integers | |
| `VisionResults` | results from the pipeline's probe to the loop's store | |
| `TargetSelection` | the pilot's selector from the sticks to the tracker backend | |
| `YoloSelection` | which object of a frame is the target | |
| `PipelineConfig` | layers, validation and the elements of the pipeline | |
| `MC*` | instances and bounds for TLC, see section 3 | |
| `*_proofs` | theorems and their proofs | their component, `TLAPS` |

Components interact in three ways here.  *By refinement*: `JoystickListener` is
checked to implement `JoystickLink`, and `FlightControl` uses `JoystickLink`'s
action as its `Poll` step, so the loop is explored against the few batches that
really can arrive and not against every state of two more threads;
`MspDispatcher` implements `RcStream`.  *By extension*: `ManualLanding` runs its
update between `Prepare` and `Resolve` of `FlightControl`; `MavlinkService`
supplies the command bodies of `CommandScheduler`.  *By assumption*: `TrackerControl`
has the part of the loop it needs (observe, resolve, control) and `FlightControl`
takes readiness and exit request as inputs; `MspLink` and `MspDispatcher` meet in
"a command succeeds, fails or blocks".

### Correspondence with the code

* **`FlightControl`.** `pc` names the seven steps of an iteration of `App.run`:
  *poll* (stop test, `_raise_if_msp_failed`, dispatch), *sense*, *prepare*,
  *resolve*, *control*, *check* (the second stop test), *send*.  The context is
  written by this thread only, so a step is atomic; `RequestStop` and `MspFails`
  interleave everywhere.  `Edges` lists the sixteen transitions, with their
  registration order as `rank`; `Resolve` takes the enabled one of least rank.
  `Take` is `_handle_before_state_changed` together with the state change.
  Every `...Control` action is one branch of `_resolve_rc`.  `past` holds history
  variables for properties; no action's guard reads it.
* **`FlightControllers`.** Time is in whole units and timers saturate at the
  threshold the code compares them with, so states stay finite and no comparison
  changes.  Altitudes are abstract levels.  PID outputs are not modelled; a
  channel frame is the ARM channel and a class of throttle.  The speed test of
  the takeoff and landing timers is a free choice, except for the first
  takeoff update, which has no earlier sample and derives no speed.
* **`JoystickListener`.** Each lock region is one action, and so is each
  access to an event or a field outside a lock.  `thread` and `main` are the
  positions of the two threads.  Sequence numbers are kept as `order`, the
  occupied slots from oldest to newest.  The library's `process_once` is
  represented by the callbacks it makes: an RC message, preceded by the resume
  callback if the link was lost, a time-out (two stages), or nothing; a message
  the application will refuse is the model value `Invalid`.
* **`MspDispatcher`.** Items in the heap carry the time left until due; `Tick`
  passes time.  The unlocked token test and the locked repeat are separate
  actions (`DecideRepeat`, `Repeat`), as are setting the wake event and the
  locked block before it, and clearing it behind the wait.  A token is a number
  that may be reused when nothing refers to it any more, as an object identity
  may.
* **`ManualLanding`.** `PrepareAndNotify`, `ResolveAndReset` and `SetLandConfirm`
  replace the loop steps they extend; every other step leaves the service alone.
  `seen` is history: the uninterrupted low and slow time of the current request.
* **`FailSafeLanding`.** One update is one unit of time.  `Limits` gives the values
  each `FS_` parameter may be changed to; the vehicle moves one level a step towards
  its target, the ground may rise and fall below it, and telemetry reports old
  altitudes.
* **`MspCodec`, `MspLine`, `MspLink`.** Bytes are numbers and checksums are
  computed, as recursive functions over the places of a byte and of a frame.
  `read_frame` is a recursive function of one step per byte, so a time-out in the
  middle of a frame is a prefix.  `MspLink` numbers requests only in history
  variables: the code matches an answer by its command.
* **`VehicleState`.** Each access to a published dictionary is an action; the
  worker adds the receive time in a second step, as the code does.
* **`AppLifecycle`.** `stop_all` is a procedure with a return place; each service's
  start and stop may raise.  A signal and the failure of a service come anywhere.
* **`Blackbox`.** Chunk files, the metadata and the rename that publishes it are
  separate steps, and a kill may come between any two of them.  A start recovers the
  sessions that are still open one after the other (`Recover`); a recovery that raises is
  logged, leaves its session open and the start goes on (`RecoverFails`), and the next start
  tries again.  A kill may come in between.
* **`CommandScheduler`.** Time is the moment an item becomes due, so no clock is
  needed: `due` is ordered, `later` is not.  A command that is submitted without a delay is due
  at once (`SubmitAll`: the first of some answers, the others are delayed).
* **`MavlinkService`.** One step of a poll reads one datagram.  A read stands for every
  request with one immediate answer (read, set, save); a list has one for every parameter, the
  one with index i due after i intervals (`Response`).  Which delayed answer is due
  next is known only as far as the intervals tell (`IsNext`): those of one list in
  its order, those of two lists in any order the two allow.  One parser reads all datagrams: a
  frame that is cut short leaves it `"inside"`, and it takes what comes behind (`Swallow`)
  until a datagram happens to leave it at a boundary, which nothing promises.  A datagram
  holds one frame, or a part of one.
* **`ParameterProtocol`.** Datagrams are sets, so they arrive in any order, several
  times, or never; each run of the tool has a socket of its own.  Values are
  integers of which the multiples of `Grain` are 32-bit floats.
* **`TrackerControl`.** A camera frame is known by what the code computes of it;
  ages and counts saturate above every threshold.  `stretched` is history: in this
  session a change between `observe` and `update` lengthened the time-out over the age of
  an observation that was too old before.
* **`TargetSelection`.** One image axis stands for both.  `setup` is what the two processes
  are started with (backend, image, sizes of the reticle, time-out): any member of
  `Setups`, and never changed.
* **`PipelineConfig`.** A value is its kind: absent, good, out of range, or of the
  wrong type.

## 3. Runs

| Run | States | Properties |
|---|---|---|
| `flight` | 2.2 M | `TypeOK`, `ArmedMatchesState`, `LostMeansNeutral`, `TakeoffHandoverHoldsAltitude`, `SettledThisTakeoff`, `ArmFrameBeforeArmed`, `FailSafeReturnsToAltHold`, `OneTrackPerPress`, `OverridePriority`, `ConfirmationIsSound` |
| `flight_liveness` | 581 k | `LostLinkReachesFailSafe`, `LoopEnds` |
| `failsafe_landing` | 50 k | `DisarmStands`, `LandingConfirmedThisTime`, `LostLinkLands` |
| `msp` | 1.5 M | `ImplementsStream`, `OneCommandPerKey`, `NoCommandLost`, `NoLostWakeUp`, `NothingAfterFatal`, `CodecIsSound`, `AnswersAreSound` |
| `stations` | 3.5 M | `MessagesAreInOrder`, `ToolReportsTheTruth`, `RecordIsSound` |
| `tracker` | 1.4 M | `StartNeverRaises`, `CommitIsEarned`, `CommandsAreLimited` |
| `vision` | 1.9 M | `ResultsAreCurrent`, `SelectionIsKept`, `TargetIsKept`, `PipelinePlays` |
| `services` | 72 k | `ImplementsLink`, `StartAndStopAreSound`, `ReadingsAreCurrent`, `ThreadsEnd`, `NewsArrives` |
| `progress` | 118 k | `RequestsAreServed`, `NewsIsActedOn`, `WorkersEnd` |
| `held_switch`, `parameters_late`, `tracker_timeout_change` | | statements of the repository that the code does not keep, see section 5 |

A component states its properties one by one, each with its comment, and the run
checks those of one concern together:

| Property | Conjuncts, and where they are stated |
|---|---|
| `ConfirmationIsSound` | `ManualLanding`: `ConfirmedInManualOnly`, `ConfirmedWithoutBreak` |
| `CodecIsSound` | `MspLine`: `RoundTrip`, `DamageIsNoticed`, `Resynchronises`; `MspAnswers`: `StatusIsWhole`, `RemainingInRange` |
| `AnswersAreSound` | `MspLink`: `LagIsBounded`, `AnswerIsWhole`, `NoFalseAlarm` |
| `MessagesAreInOrder` | `MavlinkService`: `RepeatsDoNotMultiply`, `TextsInOrder` |
| `ToolReportsTheTruth` | `ParameterProtocol`: `ReportIsTrue`, `ListIsTrue`, `SavedIsWritten`, `LimitsHold` |
| `RecordIsSound` | `Blackbox`: `CompleteIsComplete`, `DropsAreReported`, `ListedChunksExist`, `RestartClosesSessions` |
| `StartNeverRaises`, `CommitIsEarned` | `TrackerControl`: `StartNeverRaises`; `CountsDistinctFrames`, `CommitIsEarned`, `CommitIsFrozen` |
| `CommandsAreLimited` | `TrackerCommands`: `NeverBackward`, `NeverFurtherOut`, `StepsAreSlewed`, `AccelerationIsPhysical`, `WindupFree` |
| `ResultsAreCurrent` | `VisionResults`: `SendsAreSpaced`, `StoreIsNewestReceived`, `TakesTheNewest` |
| `SelectionIsKept` | `TargetSelection`: `BoxInFrame`, `StaleMeansDisabled`, `LockIsNotRearmed` |
| `TargetIsKept` | `YoloSelection`: `FirstIsInReticle`, `ClassIsKept`, `TargetMovesSmoothly` |
| `PipelinePlays` | `PipelineConfig`: `SourceIsTheMostSpecific`, `ElementsAreFound`, `ResultsHaveATracker` |
| `StartAndStopAreSound` | `JoystickListener`: `StartedMeansOpened`, `CloseFailureReported`; `AppLifecycle`: `StoppedOnce`, `EveryStartedIsStopped`, `RcStopsFirst`, `RecorderOutlivesProducer` |
| `ReadingsAreCurrent` | `VehicleState`: `SpeedHasItsTime`, `PassIsCurrent` |
| `ThreadsEnd` (liveness) | `JoystickListener`: `StartReturns`; `AppLifecycle`: `StopRequestEnds`, `StartEnds`; `Blackbox`: `StopEndsWriter`; `VisionResults`: `ReturnStopsWorker` |
| `NewsArrives` (liveness) | `JoystickListener`: `FailureReachesApp`; `VehicleState`, `VisionResults`: `NewestArrives`; `TrackerControl`: `DeadCameraLeavesTrack` |
| `RequestsAreServed` (liveness) | `MspDispatcher`: `EveryKeyServed`; `MavlinkService`: `KeepsBeating`, `EveryRequestAnswered` |
| `NewsIsActedOn` (liveness) | `MspDispatcher`: `FatalSurfaces`; `MavlinkService`: `NewestIsShown`; `TargetSelection`: `PilotIsObeyed` |
| `WorkersEnd` (liveness) | `MavlinkService`: `StopEndsWorker`; `ParameterProtocol`: `OperationEnds` |

The conjunctions also hold the type invariants of these components.  `MspDispatcher`'s is
proved, not run.

**Side by side.**  `MCMsp`, `MCStations`, `MCTracker`, `MCVision`, `MCServices` and
`MCProgress` instantiate several components that share no variable in the model.
Exploring their product would show nothing new, so a variable `subject` names the
one a behaviour moves, and the others stay in an initial state.  One run so checks
several components (and several instances of one, with constants of their own)
without interleaving them.  What a component needs of another is in its own
module; the products that matter (loop and landing service, scheduler and MAVLink
service, recorder, writer and disk, tool and vehicle) are inside the modules.
`MCManualLanding` restricts the pilot instead: a behaviour has one who flies, one
who lands by hand or one who tracks, each with the snapshots that are at
issue; any of them may lose the link or send an invalid message.

`CHECK_DEADLOCK FALSE` stands wherever the system may stop for good: a stopped
application, an exited worker, a stopped listener, a subject that has seen its last
frame.  That nothing rests too early is what the liveness properties say.  The runs of
`FailSafeLanding` and `TrackerControl` check for deadlock, since those loops never rest.

**Bounds.**
*Flight.* The pilots hold one snapshot for every guard, both ways: arm released and
asserted, manual, takeoff and hold selected, low, middle and full throttle, SF in its
three positions, SB off, a stick off centre.  Two altitudes tell "below the target"
from "at the target", and the hold setpoint moves on `0..Ceiling`, so it can be above
the takeoff altitude too.  Steps of 1 and 2 units with thresholds of 1 and 1 + 2 let a
timer be hit exactly and skipped over; an entry and the first update
follow each other within one iteration.  The pilot who tracks flies level, since no guard of
tracking depends on the altitude; only the one who flies meets a stop request or a
fatal error; only the one who lands has `MI_LAND_CONFIRM` changed.
`past.after_stop` can reach 1 only, since the loop tests the stop event at its head.
*Fail-safe.* Every `FS_` parameter takes its lower limit zero and a value above, at any
step; three altitudes, two grounds.
*MSP.* Two keys, the replaced RC command and a telemetry command
that repeats half as often; three items fit the heap (`MaxQueue`: the two
current ones and a replaced one), four tokens suffice for those and the one in
hand, and `MaxLag` bounds how far the worker falls behind.  `Tick` stops at
`MaxLag`, so liveness is not obtained from a time that runs away: a fair
`Tick` is disabled there until the worker has caught up.  Frames lie at the edges of
their fields (command 255 and 256, payloads at and above `MaxPayloadV1`, 2 here and 255 in
the code), with up to two bytes of noise and one damaged byte among the first 12, which
covers every field.  `MspLink` has three requests, so one late answer can
meet two later requests of its command.
*Stations.* Two texts, set-points and datagrams and a fault of the socket, any three of
them together (`MaxEvents`); a list of two parameters, so that a read or a second list can come
between its answers, and polls that end by their own limit.  Two runs of the tool with two
attempts each, two faults of the line (loss, repetition, restart, failing write) and one
step of the station.  Two flights, a buffer of two and three faults of the recorder: a
kill, a recovery that fails, and one more before, between or behind them.
*Tracker.* Counts saturate at the largest threshold (`RunCap`), ages one above the
largest time-out (`AgeCap`), so no comparison changes.  Two valid configurations, with
different commit gates and time-outs, replace each other at any step, so a gate that was
passed under one is not under the other and a frame is too old under one only; a third
is refused.  The alignment gate is one frame in both; the proof is for all of them.
*Vision.* Three frames, two runs of the pipeline, and a queue of two messages: one frame can be
overtaken and one dropped.  The selector has a reticle that fits and one that
outgrows the frame.  YOLO sees up to two objects of two classes, large enough to overlap,
to be near and to be out of reach.  The configuration is enumerated completely.
*Services, progress.* The same components with the smallest bounds at which the liveness
question is still there: a fault or a loss, and two things that can overtake each other.
The first token of the telemetry command is fixed in `progress`, since tokens are
interchangeable.

**Fairness.**  `FlightControl`: weak fairness of the loop thread's steps only;
the pilot, the link, stop requests and MSP errors owe nothing.  The liveness
run takes a step of one unit in every update: the loop sleeps for a period in
each iteration, so time passes.  `LostLinkReachesFailSafe` is stated for a link
that stays lost; in `IDLE` nothing has to happen.  `FailSafeLanding`: the loop runs,
altitude is polled for ever, and a vehicle under control reaches its target;
`LostLinkLands` is stated for a link that stays lost and parameters that settle on a
positive hold time and descent rate, with neither `FS_MIN_ALT` nor the ground above
`FS_LAND_ALT`: with others the vehicle hovers, as the code has it.
`JoystickListener`: both threads are scheduled and the running application keeps
dispatching; no wait has to time out.  `MspDispatcher`: both threads are scheduled, a
command that is executed returns (a blocked transport is what the bounded join is
for), and time goes on.  `MavlinkService`: the worker runs and due times pass; sends may
fail.  `ParameterProtocol`: deadlines pass, nothing else, so no datagram has to arrive.
`AppLifecycle`: the main thread proceeds; no signal has to come.  `VehicleState`: the loop and
the second half of a publication.  `Blackbox`: the writer thread.  `TrackerControl`: the loop.
`VisionResults`: the worker, the receiver, time and the return of the runner.
`TargetSelection`: the loop of a pilot who keeps the lock, the subscriber's thread, the
runner's look at it, and the negotiation of caps.  All of these are threads with no
condition to wait for but those in the action's guard, which is why weak
fairness suffices.

Every property is paired in `PROJECT.json` with a mutant, a plausible bug of a
definition of the model that makes TLC find it violated; a conjunction has one for
each of its parts.  Their definitions stand before the definitions they replace, each
behind a comment "A bug for ...", which names the part.

## 4. Proofs

All proofs hold for every value of the constants that satisfies the modules'
named assumptions: any request set, any altitudes, times and thresholds
(`RequestsAssumption`, `AltitudeAssumption`, `TimeAssumption`,
`StepsAssumption`), any limits of the `FS_` parameters (`LimitsAssumption`), any keys, intervals, channels, tokens and bounds
(`KeysAssumption`, `IntervalAssumption`, `BoundsAssumption`, `TokensAssumption`,
`NoneAssumption`), any cameras, configurations and time-outs of the tracker, any gains and
limits of its commands (`InstancesAssumption` of `MCTracker`, which collects those of its
instances), any samples, attempts and queue bounds of the services (that of `MCServices`), any
number of messages, flights, frames, runs and faults, and any parameters with their limits
(that of `MCStations`), any rate and queue of the results, any images, reticles, time-outs
and backends of the selector, and any boxes, classes and thresholds of the objects (that of
`MCVision`), and any frames, noise without a `$`, values, statuses and batteries on the MSP
side (that of `MspStack`).

* **`FlightControl_proofs`.**
  `LinkIsNeutralWhenLost`, of the abstract link: each
  delivery ends in "lost" only behind a time-out and in "failed" only behind a
  failure (`DeliveryShape`), and both leave the fail-safe intent.
  `TypeCorrect` from one lemma per controller, then one per action.
  `LostLinkIsNeutral` carries the link's invariant through the loop: no other
  step writes the snapshot.
  `ArmedAgreesWithState` is inductive with the types, since every guard out of
  ARM tests `armed` and every entry of IDLE clears it.
  `OverridesWin` argues over the ranks of the edges that leave ALT_HOLD and TRACK.
  `ArmFrameFirst` needs the invariant `ArmSequence`: once the controller reports
  that it is done, its channel is high; between that update and the send the high
  frame is in `sent_rc`, and from the send on it is in `fcu_rc`.  The property alone
  says nothing of the iteration in between.
  `SettlesEveryTakeoff` needs `TakeoffTimer`: the controller's settling time never
  exceeds the time spent in this takeoff, and outside the window between entry and
  first update (`pc = "control"`) `takeoff_reach` reflects that timer.  This
  is why the stale flag of an interrupted takeoff does no harm.
  `HandoverHolds` follows from the reset on entry.
  `PressStartsOneTrack` needs `PressLatch`: the latch stands for a low switch or for a
  press that was seen in ALT_HOLD and that no transition has consumed, and a start request
  that `resolve` reads comes from such a press.
  `LandingConfirmed` is about `LandSpec`, the loop with the landing service; a step of it is
  a step of the loop (`LandStepIsStep`), and the detector's timer never runs ahead of the
  time the vehicle has been low and slow on request (`CandidateWasObserved`).
  `FailSafeLeadsToAltHold` follows from `ArmedMatchesState` and the ranks: FAILSAFE is left
  only to ALT_HOLD, armed and with the joystick back, behind a landing too.  So a
  regained link raises the ARM channel of a vehicle that has landed.
* **`MspStack_proofs`**, of the four parts of `MspStack`.
  *The dispatcher.* `CommandInv` (at most one current command per key, current ones carry the
  latest channels, RC items carry channels) is inductive; `NoCommandIsLost` and
  `DispatcherImplementsStream` follow from it, the latter by mapping each action
  to a step of `RcStream` or a stutter.
  `FatalIsFinal` uses `FatalInv`: a failed RC command has set the stop event
  before the worker can reach another execution.
  `WakeUpsAreKept` uses `StopInv`: a worker on its way to sleep after a stop has
  its wake-up pending.
  *Frames and payloads.* `CodecSound` is for every set of frames that fit, both versions,
  noise without a `$`, and every status and battery.  The checksums and `ReadFrame` are
  unfolded into runs, one state per byte (`XorRun`, `CrcRun`, `ReaderRun`), over which
  arguments are inductions on the number of bytes read (`InductionUpTo`).
  Junk leaves a reader where it was (`JunkIsSkipped`) and a frame behind it is read to its
  end (`BodyIsRead`, `FrameIsReturned`).  Both checksums tell two bodies of one length
  apart that differ in one byte (`ChecksumNoticesAByte`): each is a chain of injections,
  exclusive or with a byte and, for v2, the table `ShiftOut` (`ShiftOutIsInjective`).
  The state invariant is `CodecInv`: the line is noise and then the frame, or a rest of it,
  with at most one byte changed (`Carries`), and a status is a part of its payload
  (`Received`).  A frame whose first byte is damaged is junk up to what it holds: if that is
  a frame in its own right, the reader takes it.  `FramesHideNone` excludes it, is
  needed for nothing else (`CodecHoldsAlways` does without), and holds of the frames of
  run `msp`, where TLC evaluates it.
  *Answers.* `LinkTypeCorrect` numbers the requests: the controller's queue holds the last
  ones, each byte on the wire answers an earlier one, and a read is missed once.
  `AnswersSound` is for every number of requests and all values, as long as no byte was changed.
  `LinkHoldsInv` says that the wire is a sequence of whole answers but for the first
  (`WireHolds`), and that of the requests of a command for which something can still come
  no more are open than its missed reads and the one under way (`LagHolds`).  A
  reader that starts anywhere on such a wire scans, or is inside the answer its last byte
  is of (`ReaderIs`, `ReaderOnWire`), so it meets no malformed frame and returns whole answers
  (`DecodeOnWire`).  That needs the hypothesis `Link!PlainAnswers`: no answer holds `$` and a
  version byte behind its first byte.  It is not idle: an answer of command 104
  with value 36 has checksum 77, so it ends in `$M`, and `NoFalseAlarm` fails (section 6).
  TLC evaluates it for the answers of run `msp`, which hold `$` and `M` apart; that run adds
  one changed byte, of which only the second half of `AnswersSound` (`NoFalseAlarm`) speaks:
  with two changes a frame can turn into one of another command.
* **`FailSafeLanding_proofs`.**
  `IInv` says that the landing timer runs behind the time this descent has been low and
  slow (`quiet`) or both are saturated, and that the ARM channel is low exactly when the
  state is FAILSAFE and the controller has landed.  The reset on entry establishes it and
  every update keeps it, whatever the parameters become.  `LandingIsConfirmed` follows
  from the first part; `DisarmIsKept` from the second: the disarm is taken back only in a
  step in which the joystick is back.

* **`Services_proofs`.** Three components of `MCServices`; a step of another subject leaves
  their variables alone.
  `ReadingsCorrect`: `CopiesAreOrdered` puts what the loop holds, what it has seen and what
  is published in one order.
  `StartAndStopCorrect`: during a roll-back or shutdown `cleanup` is an end of the stop order
  (`CleanupIsSuffix`), before it the services of the start order run up to the one that
  is due (`StartedSoFar`), and a service that is still listed has had its stop exactly if
  `stop_all` is past it (`ListedOrStopped`), also when a stop raises and the caller tries again.
  `ListenerImplementsLink`: `RetainedFollowsLink` lists what the slots can hold, given how the
  link stood at the last dispatch and how it stands for the library: nothing, an RC message,
  one behind a resume, a loss or failure, or that behind an RC message.  So each dispatch is
  one that `JoystickLink` allows, and what `FlightControl` assumes of the link is what the two
  threads give it.
* **`TrackerCommands_proofs`.** Lemmas that `Tracker_proofs` uses for the lateral and the
  vertical instance.  `CommandsInvariant` adds to the types that the integral is within the
  limit of some configuration.  `StepMovesInwards`, `StepIsSlewed` and `StepWindsNoFurther` rest
  on one fact: a slewed value lies between the old one and its target (`SlewedBetween`).
* **`Tracker_proofs`.** `SessionInvariant` ties the session to the flight state
  (`SessionOfState`), the filter's frame and the age of the steering observation to the store
  (`StoreIsKnown`), and a commit's deadline to the time it has lasted (`CommitHolds`).
  `StartIsSafe` and `CommitIsFrozen` follow from it for every behaviour, and
  `LimitedCommands` from the module above.
  `EarnedCommits` needs `RunInvariant`: a frame that the loop has read is the one the filter
  took last (`ReadIsTaken`), and the runs of distinct frames cover the counts and the
  frame about to be counted (`RunsCover`).  That is true while the controller steers by a sight within
  the time-out; it fails when the time-out is lengthened between `observe` and `update`,
  which run `tracker_timeout_change` shows.  The property itself makes that exception: it
  promises no count to a session that is `stretched`, which only such a change, of another
  thread in that window, makes it (`RunsHold`).  All others, also of the
  time-out, may come at any step, and the theorem has no hypothesis on them.

* **`Stations_proofs`.** `RecordSound` is about the recorder, whose two halves share only a
  bounded buffer.  `RecorderInvariant` says what the writer will find there: the buffer is a
  replay of what is still to be written (`QueueFits`, with `IsReplay` over the `Histories` of
  the flights), the frames of a session are a prefix of those of its flight
  (`SessionIsPrefix`), each start is in the buffer once and finds a directory that is not
  there yet (`StartsAreNew`).  On the disk every listed chunk was written before it was listed
  (`FilesAreWritten`), and the directories of earlier sessions stay closed,
  but for those this start failed to recover (`DirectoriesAreClosed`).  A writer that has lost its session does nothing until the next
  start (`ReplayLost`), which is why a failed write does not make a later session complete.
  The buffer may drop odometry in its middle and nothing else.
  `MessagesInOrder` needs three facts of the scheduler: every token in use was issued
  before (`TokensAreSpent`), no two places of the queue, the items to come and the worker's
  hands hold active items of one key (`NoTwins`), and texts and answers form one line from the ground station back over the
  worker's hands and the ordered queue: of two texts, or two answers, the one further back is
  not due before the one ahead (`LineInOrder`), nor is a delayed one
  before any in the line (`DelayedInOrder`), and the requests still in the inbox are newer than every
  answer (`BufferIsNewer`).
  `ReportsAreTrue`: an answer in flight has the value of some moment of the run whose socket it
  goes to (`AnswerIsTrue`), the values a list has gathered are such answers, and so is the
  result.  Every step of the vehicle, the station and the network only adds to what was held
  (`VehicleStep`), so nothing true becomes false before the run ends; a new run begins with
  an empty socket.
  `ToolIsTruthful` adds the limits: what is in memory and on disk has been validated
  (`StorageIsValid`).  Its hypothesis `NaN \notin Parameters!Doubles` excludes the value
  that passes every comparison (section 5); `ReportsAreTrue` holds with it too.
* **`Vision_proofs`.** Four components of `MCVision`.
  `ResultsStayCurrent`: a message that waits for the rate is always the newest published, and
  a worker that sends has waited the whole interval (`ResultsPhases`).  Of the first run, the
  numbers in the store, in the socket, in the worker's hands and in the slot ascend
  (`LineInOrder`), so the store never refuses a newer result (`StoreFollows`); for later runs
  it does (section 5), and the property says nothing of them.
  `SelectionStaysKept`: an enabled backend was enabled by a command that was at most
  `max_age` old at the last look (`SelectionPhases`), a stale one is answered by a command
  that every backend obeys at once, and what is applied differs from what was applied
  before in more than its time stamp.  `RoiFits` is the arithmetic of the box.
  `TargetStaysKept`: the detection that overlaps most passes the threshold if any does
  (`LargerRatioPasses`, with unions that are never empty: `UnionIsPositive`), and a
  selection that has found nothing has no class.
  `AcceptedPipelinesPlay`: a configuration behind `resolve` has the source of the layers,
  and one that is built was found valid (`ConfigInvariant`).

The tracker's ages and times saturate at `AgeCap`, which its assumptions put above every
time-out and no lower than the time of a commit; otherwise `commit_age` could not say that
it has passed.

So every invariant of the runs is proved, `AnswersAreSound` for a line without noise only.
Only model-checked: that property with a changed byte, and all liveness, which needs fairness
and so ENABLED.

## 5. Where the code and its documents differ

Three statements have a run that shows how they fail.

| Run | Statement | What the code does |
|---|---|---|
| `held_switch` | `application_state_machine.md` 46: "an SF rising-edge request"; `tracker_controller.md` 123: held-high presses "do not request a later entry" | The neutral snapshot of a loss has SF low.  When the link is back, the SF the pilot never moved counts as a new push |
| `parameters_late` | `mavlink_transport.py` 12: the exception is "raised when a MAVLink parameter operation is rejected" | The answer to a repeated read, with the old value, is taken for the acknowledgement of the set behind it: the tool reports a value as rejected that the vehicle stores |
| `tracker_timeout_change` | `tracker_controller.py` 617: a duplicate frame "cannot advance alignment or commit counters" | When `observe` returns early on a stale frame and the time-out is raised before `update`, the verdict on the frame before is counted again |

Others were met while modelling.  Their definition stays in the module named, with
the quotation above it; TLC finds it violated when it is given as the property of that
module's specification, with the constants of section 3 unless others are named.

| Definition | Statement | What the code does |
|---|---|---|
| `FlightControl!TakeoffEntersFailSafe` | `sm.py` 308: fail-safe "active only from manual and takeoff" | TAKEOFF has no transition to FAILSAFE.  The loss publishes the neutral snapshot, which selects manual: the loop goes to MANUAL, sends one frame with ARM and throttle low, and enters FAILSAFE from there |
| `FlightControl!TakeoffStartsBelowTarget` (`Altitudes` {0, 1, 2}) | `sm.py` 295: takeoff "only if current alt < takeoff alt setpoint" | The guard reads `ctx.alt_setpoint`, which altitude hold moves: takeoff can start above its target |
| `FlightControl!NoFrameAfterStop` | `app.py` 783: "shutdown cannot emit one final RC command" | A stop request between the second test and `set_rc` is followed by one more frame |
| `AppLifecycle!RunStopsServices` | `app.py` 791: services "are given a chance to stop before this method returns" | `run` stops none; its caller does |
| `VehicleState!AltitudeHasItsTime` | `takeoff_controller.py` 115: the time "associated with the altitude sample" | altitude and time are read in two steps, and may be of two samples |
| `FailSafeLanding!HoldsTheEntryAltitude` | `app.py` 267: "set the failsafe controller setpoint to the current altitude" | the setter lifts it to `FS_MIN_ALT`: below that the vehicle climbs |
| `Blackbox!InterruptedIsMarked` | `README.md` 48: a session "is marked `unclean` on the next start" | a process killed before the first metadata leaves a directory nobody marks; a recovery that raises leaves its session `recording` until a later start |
| `Blackbox!CountsAreOfWrittenFrames` | `mavlink_odometry_blackbox.md` 36: "written and dropped counts" | a failed write counts the rows that were still in memory |
| `Blackbox!OdometryIsOfItsFlight`, `NoOdometryLost` | the same document, 28 and 5 | a row recorded while a flight begins counts from the flight before, or is ignored uncounted |
| `ParameterProtocol!RejectedIsRefused` (`Values` {3, 4}) | `bt_cli/README.md` 83: the tool "verifies the value echoed" | a double that is no 32-bit float differs from its echo and is reported as rejected |
| `ParameterProtocol!LimitsHold` (`Values` with `NaN`) | `bt_cli/README.md` 84: limits "are enforced by the application" | no comparison with not-a-number is true, so it is stored |
| `TrackerControl!LockIsOfOneTracker` (`Trackers` {1, 2}) | `tracker_ttc_controller.md` 217: "A new tracker ID resets acquisition and the filter" | it resets the filter only |
| `TrackerControl!RereadDoesNotCount` | `tracker_controller_flow.md` 100: re-reading a frame "does not increase the count" | a rejected frame is forgotten, so its second reading counts as a first |
| `VisionResults!RetainsTheNewest` | `tracker_result_store.py` 20: "Retain the newest raw tracker result" | a restarted pipeline numbers from 1 and is ignored until it catches up |
| `TargetSelection!TrackKeepsTarget` | `target_selector.md` 30: no return to the reticle "until the application returns to `ALT_HOLD`" | half a second without commands clears the selection, and the next command of the same TRACK takes what is in the reticle |
| `PipelineConfig!TimeoutIsPositive` | `config.py` 809: the time-out "must be greater than 0" | `.nan` is accepted and disables the tracker for good |

## 6. Not modelled

Left out of the modelled components: PID outputs; defaults for out-of-range channels;
parameter changes of `FlightControl` (`TAKEOFF_ALT` and the like are constants there, the
`FS_` and landing ones change in `FailSafeLanding` and `ManualLanding`, the tracker's in
`TrackerControl`); commands of the dispatcher without a key and `remove` of the scheduler, which
nothing calls; exceptions of the control loop other than the fatal MSP error; a second start
of a stopped service; opening and closing of the MSP transports; MAVLink and MessagePack
encodings; MAVLink requests that are answered twice (the version) or not at all (an
unknown name, another target), and further frames in one datagram; the write of the parameter file,
which is one step, so that a kill in its middle leaves no torn file is not shown; the drawing of overlays and the metadata readers of the red and NanoTrack backends.

Known and not stated as a property, since no document says what is intended: a MAVLink frame that
is cut short makes its parser swallow the requests behind it, which are never answered, so
`EveryRequestAnswered` speaks of those in front (`mavlink_wrapper.py` 527); a read overtakes the rest of
a list that was requested before it (`parameters/mavlink.py` 73); valid messages
behind an invalid one do not leave fail-safe without a resume event (`app.py` 305); the heap
of the dispatcher has no bound while the worker is blocked (`command_dispatcher.py` 270); a
list of parameters is a snapshot that a later change contradicts (`parameters/mavlink.py`
68); a selector that goes from LOCKED over SELECTING to LOCKED between two looks changes
nothing (`pipeline_runner.py` 166); a backend that waits for a selector that is switched
off never starts (`pipeline_builder.py` 74); an answer that holds `$M` and is cut in front of
it by a time-out is read as a malformed frame, which ends the flight when the next read is the
acknowledgement of an RC frame (`bt_v2.py` 145); the fail-safe is given an altitude without its age (`app.py` 523).

Not modelled at all: distance and velocity estimators, PIDs and the RC mapper (continuous
arithmetic); the joystick ZMQ adapter, which the application no longer uses; image
processing, sensors, datasets and diagnostics; simulation, scenarios, deployment and examples; the
charts and web front end of the analysis.
