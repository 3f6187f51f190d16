------------------------------ MODULE MCVision -------------------------------
(* The vision side for TLC: the configuration of the pipeline, the selection *)
(* of its target and the delivery of its results.  The components share no   *)
(* variable here, so a behaviour moves one of them, its subject, and leaves  *)
(* the others in their initial states.                                       *)
EXTENDS Integers

CONSTANTS
    Subjects,                     \* the instances a run moves
    MaxFrames, MaxRuns, Gap, ResultsHwm,
    Setups, PollTicks, SelectorHwm,
    Boxes, Classes, IouNum, IouDen, MaxDistance2, MaxDetections

\* The YOLO backend with a reticle of one size, the NanoTrack backend with one
\* that outgrows the frame, and the red detector, which always runs and is told
\* the state.
Yolo == [backend |-> "cpu_yolo", frame |-> 2, size |-> 1, max_size |-> 1,
         resizable |-> FALSE, stamps |-> {0, 1}, objects |-> {0, 1}, max_age |-> 1]
Nano == [backend |-> "cpu_nano", frame |-> 1, size |-> 1, max_size |-> 2,
         resizable |-> TRUE, stamps |-> {0}, objects |-> {}, max_age |-> 0]
Red == [Yolo EXCEPT !.backend = "controlled_red", !.stamps = {0}, !.objects = {}]
EachBackend == {Yolo, Nano, Red}

\* Boxes of two sizes on a small image.
MCBoxes == [x : 0..3, y : {0, 2}, w : {2}, h : {2}] \cup {[x |-> 0, y |-> 0, w |-> 5, h |-> 1]}

VARIABLES
    subject,    \* the instance this behaviour moves
    pipe, runs, next_frame, pending, stopping, worker, held, since, spacing,
    published, results, lost, receiver, newest, store, received,
    setup, mode, center, width, commands, latest, age, applied, since_poll, caps,
    enabled, box, target, followed, reticle,
    armed, selector, class, previous, result, fresh,
    phase, command, cli, yaml, config

resultsVars == <<pipe, runs, next_frame, pending, stopping, worker, held,
                 since, spacing, published, results, lost, receiver, newest,
                 store, received>>
targetVars == <<setup, mode, center, width, commands, latest, age, applied,
                since_poll, caps, enabled, box, target, followed, reticle>>
objectsVars == <<armed, selector, class, previous, result, fresh>>
pipelineVars == <<phase, command, cli, yaml, config>>
vars == <<subject, resultsVars, targetVars, objectsVars, pipelineVars>>

----------------------------------------------------------------------------
\* One run of the pipeline after another.
Results == INSTANCE VisionResults WITH
    wire <- results, MAX_FRAMES <- MaxFrames, MAX_RUNS <- MaxRuns, GAP <- Gap,
    HWM <- ResultsHwm

\* The selector of each backend.
Selector == INSTANCE TargetSelection WITH
    wire <- commands, POLL <- PollTicks, HWM <- SelectorHwm

\* Detections and reticles at every place of a small image.
Objects == INSTANCE YoloSelection WITH
    IOU_NUM <- IouNum, IOU_DEN <- IouDen, MAX_DISTANCE2 <- MaxDistance2,
    MAX_DETECTIONS <- MaxDetections

\* Every combination of sections, switches and kinds of values.
Config == INSTANCE PipelineConfig

ASSUME InstancesAssumption ==
    /\ Results!ConstantsAssumption /\ Selector!ConstantsAssumption
    /\ Objects!ConstantsAssumption

----------------------------------------------------------------------------
Init ==
    /\ subject \in Subjects
    /\ Results!Init
    /\ Selector!Init /\ (subject # "selector" => setup = CHOOSE s \in Setups : TRUE)
    /\ Objects!Init
    /\ Config!Init /\ (subject # "config" => command = "run")

\* A step of one instance; nothing else moves.
Moves(instance, A) == subject = instance /\ A /\ UNCHANGED subject

ResultsMoves(instance, A) ==
    Moves(instance, A) /\ UNCHANGED <<targetVars, objectsVars, pipelineVars>>
TargetMoves(instance, A) ==
    Moves(instance, A) /\ UNCHANGED <<resultsVars, objectsVars, pipelineVars>>
ObjectsMoves(instance, A) ==
    Moves(instance, A) /\ UNCHANGED <<resultsVars, targetVars, pipelineVars>>
PipelineMoves(instance, A) ==
    Moves(instance, A) /\ UNCHANGED <<resultsVars, targetVars, objectsVars>>

Next ==
    \/ ResultsMoves("results", Results!Next)
    \/ TargetMoves("selector", Selector!Next)
    \/ ObjectsMoves("objects", Objects!Next)
    \/ PipelineMoves("config", Config!Next)

Spec == Init /\ [][Next]_vars

----------------------------------------------------------------------------
\* Results are sent at least 1 / max_rate_hz apart, the sender takes the newest one
\* and not the one that woke it, and of the first run the control loop reads the newest
\* one received (zmq_publisher.py, visual_target_comm.py, tracker_result_store.py).
ResultsAreCurrent ==
    /\ [](subject = "results" => Results!TypeOK)
    /\ [](Results!SendsAreSpaced /\ Results!StoreIsNewestReceived)
    /\ Results!TakesTheNewest

\* The reticle of a backend lies in its image, a backend without commands is
\* disabled in time, and a repeated command starts no new selection (zmq_selector.py,
\* pipeline_runner.py).
SelectionIsKept ==
    /\ [](subject = "selector" =>
             Selector!TypeOK /\ Selector!BoxInFrame /\ Selector!StaleMeansDisabled)
    /\ Selector!LockIsNotRearmed

\* The first target of a lock touches its reticle, a lock stays with one class of
\* objects, and a lost target is taken up again only near the box it was last seen
\* in (red_detection.py).
TargetIsKept ==
    /\ []Objects!TypeOK
    /\ Objects!FirstIsInReticle /\ Objects!ClassIsKept /\ Objects!TargetMovesSmoothly

\* The place and the rate of the video source come from the most specific layer of
\* command line, file and defaults; an accepted configuration has every element that
\* is looked up, and a publisher that is switched on has a tracker (config.py,
\* pipeline_builder.py).
PipelinePlays ==
    /\ Config!TypeOK /\ Config!SourceIsTheMostSpecific
    /\ Config!ElementsAreFound /\ Config!ResultsHaveATracker
=============================================================================
