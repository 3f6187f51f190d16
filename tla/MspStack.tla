------------------------------- MODULE MspStack -------------------------------
(* The MSP side: the dispatcher, and below it the line, the requests on it   *)
(* and what the answers hold.  A behaviour moves one of them, its subject,   *)
(* and leaves the others in their initial states.                            *)
EXTENDS MspDispatcher, MspCodec

CONSTANTS
    Frames, Values, Noise, MaxDamaged,                   \* of MspLine
    Reads, SET_RAW_RC, Value, MaxRequests, MaxDamage,    \* of MspLink
    KnownFlags, Masks, ModeBytes, Capacities, MaxConsumed,
    Refused                                              \* of MspAnswers

VARIABLES
    subject,    \* the instance this behaviour moves
    frame, line, noise, damaged, lost,
    link_worker, asked, fc, link_wire, owner, damage, missed, answer,
    mask, modeBytes, box_status, capacity, consumed

lineVars == <<frame, line, noise, damaged, lost>>
linkVars == <<link_worker, asked, fc, link_wire, owner, damage, missed, answer>>
answersVars == <<mask, modeBytes, box_status, capacity, consumed>>
allVars == <<subject, vars, lineVars, linkVars, answersVars>>

----------------------------------------------------------------------------
Line == INSTANCE MspLine

Link == INSTANCE MspLink WITH worker <- link_worker, wire <- link_wire

Answers == INSTANCE MspAnswers WITH status <- box_status, Error <- Refused

ASSUME InstancesAssumption ==
    /\ MaxPayloadAssumption
    /\ Line!FramesAssumption /\ Line!NoiseAssumption
    /\ Link!CommandsAssumption /\ Link!ValueAssumption /\ Link!DamageAssumption
    /\ Answers!FlagsAssumption /\ Answers!ByteAssumption
    /\ Answers!CapacityAssumption

\* Nothing behind the first byte of a frame is a frame itself: a reader that
\* misses the "$" of a frame may take what the frame holds for another one.
FramesHideNone == \A f \in Frames : Line!ReadFrame(Tail(Line!Bytes(f))).at # "done"

----------------------------------------------------------------------------
StackInit ==
    /\ subject \in {"line", "link", "answers", "dispatcher"}
    /\ Init
    /\ subject # "dispatcher" => \A k \in Telemetry, t \in Free : active[k] < t
    /\ Line!Init
    /\ subject # "line" => frame = CHOOSE f \in Frames : TRUE
    /\ Link!Init
    /\ Answers!Init
    /\ subject # "answers" =>
        /\ mask = CHOOSE m \in Masks : TRUE
        /\ modeBytes = CHOOSE n \in ModeBytes : TRUE
        /\ capacity = CHOOSE c \in Capacities : TRUE

\* A step of one instance; nothing else moves.
Moves(instance, A) == subject = instance /\ A /\ UNCHANGED subject

DispatcherMoves(A) == Moves("dispatcher", A) /\ UNCHANGED <<lineVars, linkVars, answersVars>>
LineMoves(instance, A) ==
    Moves(instance, A) /\ UNCHANGED <<vars, linkVars, answersVars>>
LinkMoves(instance, A) ==
    Moves(instance, A) /\ UNCHANGED <<vars, lineVars, answersVars>>
AnswersMoves(instance, A) ==
    Moves(instance, A) /\ UNCHANGED <<vars, lineVars, linkVars>>

StackNext ==
    \/ DispatcherMoves(Next)
    \/ LineMoves("line", Line!Next)
    \/ LinkMoves("link", Link!Next)
    \/ AnswersMoves("answers", Answers!Next)

StackSpec == StackInit /\ [][StackNext]_allVars

----------------------------------------------------------------------------
\* What is encoded is decoded, whatever precedes it; a frame with one damaged byte
\* is not taken for another one, and the frame behind it is found (protocol.py).  A
\* decoded status has every flag of its bytes or is refused, and the remaining
\* battery is a percentage (bt_v2.py).
CodecIsSound ==
    /\ Line!TypeOK /\ Line!RoundTrip /\ Line!DamageIsNoticed /\ Line!Resynchronises
    /\ subject = "answers" => Answers!TypeOK /\ Answers!StatusIsWhole /\ Answers!RemainingInRange

\* Answers that come late never pile up beyond the reads that timed out, an answer
\* that is returned is a whole answer to a request of its command, and late or cut
\* answers alone do not stop the worker (bt_v2.py, command_dispatcher.py).
AnswersAreSound ==
    /\ Link!TypeOK /\ Link!LagIsBounded
    /\ Link!AnswerIsWhole /\ Link!NoFalseAlarm
=============================================================================
