-------------------------------- MODULE MCMsp --------------------------------
(* The MSP side for TLC: RC frames and one telemetry command that repeats    *)
(* half as often; frames of both versions at the edges of their fields.      *)
EXTENDS MspStack

CONSTANTS c1, c2  \* two frames of RC channels

MCInterval == [k \in Keys |-> IF k = "rc" THEN 1 ELSE 2]

MCFrames ==
    [command : {0, 36, 109, 255, 256, 65535},
     payload : {<<>>, <<36>>, <<36, 77>>, <<62, 0>>, <<255, 255, 109>>},
     direction : {62, 33}]  \* response and error

\* The second and the third answer hold "$" and "M".
MCValue == <<200, 36, 77>>

\* What the theorems about these frames and answers suppose.
ASSUME FramesHideNone
ASSUME Link!PlainAnswers

=============================================================================
