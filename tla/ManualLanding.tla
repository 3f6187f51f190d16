---------------------------- MODULE ManualLanding ----------------------------
(* Manual landing detection inside the control loop (services/manual_land.py *)
(* with control/land_detector.py): the loop of FlightControl with the        *)
(* service's update between Prepare and Resolve, and its resets on the       *)
(* transitions.  No guard of the state machine reads the flag.               *)
EXTENDS FlightControl

CONSTANTS
    LandConfirms,   \* the values MI_LAND_CONFIRM may be set to
    MaxLandTimer    \* bound: the confirmation timer saturates here

ASSUME LandAssumption ==
    /\ MaxLandTimer \in Nat
    /\ LandConfirms \subseteq 0..MaxLandTimer /\ LandConfirms # {}

VARIABLES
    confirm_s,               \* LandDetector.confirm_s
    candidate,               \* time since LandDetector._candidate_since_s
    manual_land_confirmed,   \* ctx
    seen                     \* history: see Observe

detectorVars == <<candidate, manual_land_confirmed>>
landVars == <<confirm_s, detectorVars, seen>>
allVars == <<vars, landVars>>

LandInit ==
    /\ Init
    /\ confirm_s \in LandConfirms
    /\ candidate = NoCandidate /\ manual_land_confirmed = FALSE
    /\ seen = [time |-> NoCandidate, needed |-> 0]

IsDetectionRequested ==
    state = "MANUAL" /\ ~request_rc.manual /\ IsThrottleLow(request_rc)

IsLandCandidate(slow) == drone_alt <= FsLandAlt /\ slow

\* A bug for ConfirmedWithoutBreak: a lost candidate does not restart the timer.
DetectorUpdateKeeps(d, slow) ==
    LET since == IF candidate = NoCandidate THEN 0 ELSE Least(candidate + d, MaxLandTimer)
    IN /\ candidate' = IF IsLandCandidate(slow) THEN since ELSE candidate
       /\ manual_land_confirmed' =
            (IsLandCandidate(slow) /\ candidate # NoCandidate /\ since >= confirm_s)

\* LandDetector.update, d after the last one: the first sample never confirms.
DetectorUpdate(d, slow) ==
    LET since == IF candidate = NoCandidate THEN 0 ELSE Least(candidate + d, MaxLandTimer)
    IN /\ candidate' = IF IsLandCandidate(slow) THEN since ELSE NoCandidate
       /\ manual_land_confirmed' =
            (IsLandCandidate(slow) /\ candidate # NoCandidate /\ since >= confirm_s)

ServiceReset == candidate' = NoCandidate /\ manual_land_confirmed' = FALSE

\* How long the pilot asked for the landing over a vehicle that was low and slow
\* in every iteration, and the confirmation time that was in force.
Observe(d, slow) ==
    seen' = [time |-> IF ~(IsDetectionRequested /\ IsLandCandidate(slow)) THEN NoCandidate
                      ELSE IF seen.time = NoCandidate THEN 0
                      ELSE Least(seen.time + d, MaxLandTimer),
             needed |-> confirm_s]

\* _prepare_controllers and then _notification_center.
PrepareAndNotify ==
    /\ Prepare
    /\ \E d \in Steps, slow \in BOOLEAN :
            /\ IF IsDetectionRequested THEN DetectorUpdate(d, slow) ELSE ServiceReset
            /\ Observe(d, slow)
    /\ UNCHANGED confirm_s

\* A bug for ConfirmedInManualOnly: leaving MANUAL for another mode resets nothing.
ResetsEntering(from, to) == from # to /\ to \in {"MANUAL", "IDLE"}

\* _handle_before_state_changed: the transitions that reset the service.
ResetsOn(from, to) == from # to /\ (to \in {"MANUAL", "IDLE"} \/ from = "MANUAL")

ResolveAndReset ==
    /\ Resolve
    /\ IF ResetsOn(state, state') THEN ServiceReset ELSE UNCHANGED detectorVars
    /\ UNCHANGED <<confirm_s, seen>>

\* The rest of the loop does not touch the service.
Elsewhere ==
    /\ \/ Poll \/ Leave \/ Sense \/ Control \/ Check \/ Send
       \/ RequestStop \/ MspFails
    /\ UNCHANGED landVars

\* A bug for LandTypeOK: the branches of two parameters are swapped.
SetLandConfirmSwapped ==
    /\ Running
    /\ confirm_s' = FsLandAlt
    /\ UNCHANGED <<vars, detectorVars, seen>>

\* _on_parameter_changed, from the thread that handles MAVLink messages.
SetLandConfirm ==
    /\ Running
    /\ confirm_s' \in LandConfirms
    /\ UNCHANGED <<vars, detectorVars, seen>>

LandNext == PrepareAndNotify \/ ResolveAndReset \/ Elsewhere \/ SetLandConfirm

LandSpec == LandInit /\ [][LandNext]_allVars

----------------------------------------------------------------------------
LandTypeOK ==
    /\ confirm_s \in LandConfirms
    /\ candidate \in NoCandidate..MaxLandTimer
    /\ manual_land_confirmed \in BOOLEAN

\* The confirmation of a landing never outlives the MANUAL flight it was made
\* in, at no point of an iteration: a flag that survived into another mode, or
\* into the next MANUAL flight, would call a flying vehicle landed (app.py
\* 205-216 and 282-283, where the transition runs behind the update).
ConfirmedInManualOnly == manual_land_confirmed => state = "MANUAL"

\* A landing is confirmed only if the vehicle was low and slow in every
\* iteration of the confirmation time, while the pilot asked for it throughout;
\* changes of MI_LAND_CONFIRM and excursions to other modes in between included
\* (land_detector.py 20-41, manual_land.py 28-50).
ConfirmedWithoutBreak == manual_land_confirmed => seen.time >= seen.needed

\* What the readers of manual_land_confirmed rely on: both of these.
ConfirmationIsSound == LandTypeOK /\ ConfirmedInManualOnly /\ ConfirmedWithoutBreak
=============================================================================
