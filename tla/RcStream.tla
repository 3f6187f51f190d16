------------------------------ MODULE RcStream ------------------------------
(* What set_rc promises the control loop: a register of which the flight    *)
(* controller is sent samples.  Every frame on the wire was the latest one  *)
(* when it was taken, so behind a new set_rc at most the frame in hand      *)
(* still carries older channels.                                            *)

CONSTANTS Channels, None

VARIABLES
    latest,   \* the channels of the last set_rc
    in_hand,  \* the frame taken but not yet on the wire
    fcu       \* the last channels on the wire

Init == latest = None /\ in_hand = None /\ fcu = None

SetRc(c) == latest' = c /\ UNCHANGED <<in_hand, fcu>>

Take ==
    /\ in_hand = None /\ latest # None
    /\ in_hand' = latest
    /\ UNCHANGED <<latest, fcu>>

\* A command that fails may or may not have reached the wire.
Finish ==
    /\ in_hand # None
    /\ in_hand' = None
    /\ fcu' \in {fcu, in_hand}
    /\ UNCHANGED latest

Next == (\E c \in Channels : SetRc(c)) \/ Take \/ Finish

Spec == Init /\ [][Next]_<<latest, in_hand, fcu>>
=============================================================================
