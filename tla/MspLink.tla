------------------------------ MODULE MspLink -------------------------------
(* BetaflightMspClient (msp/bt_v2.py) on the dispatcher's worker: requests   *)
(* whose answers are told from others by the command alone, RC frames whose  *)
(* acknowledgement is any frame that comes within 5 ms, and time-outs that   *)
(* leave the reader in the middle of a frame.                                *)
(*                                                                           *)
(* The flight controller answers in order and as late as it likes.  A call   *)
(* of read_frame is one action: it takes the bytes that arrive before its    *)
(* deadline, any prefix of those on the wire.                                *)
EXTENDS MspCodec

CONSTANTS
    Reads,       \* the commands whose answers are read: altitude, attitude, ...
    SET_RAW_RC,  \* the command of an RC frame
    Value,       \* Value[n]: the byte that answers the n-th request
    MaxRequests, \* bound: requests sent
    MaxDamage    \* bound: bytes that noise changes on the wire

CommandsAssumption == Reads \cup {SET_RAW_RC} \subseteq 0..255 /\ SET_RAW_RC \notin Reads
ValueAssumption == MaxRequests \in Nat /\ Value \in [1..MaxRequests -> 0..255]
DamageAssumption == MaxDamage \in Nat

VARIABLES
    worker,  \* "idle", "reading" an answer or an acknowledgement, or "stopped"
    asked,   \* history: the commands sent, in order; a request's number is its place
    fc,      \* the requests the flight controller has not answered, by number
    wire,    \* bytes on their way to the application
    owner,   \* history: the request each byte of wire answers
    damage,  \* bytes changed on the wire
    missed,  \* history: the reads that ended without an answer, by command
    answer   \* history: the last answer: its command, value and request

vars == <<worker, asked, fc, wire, owner, damage, missed, answer>>

NoAnswer == [command |-> SET_RAW_RC, value |-> <<>>, of |-> 0, at |-> 0]

Init ==
    /\ worker = "idle" /\ asked = <<>>
    /\ fc = <<>> /\ wire = <<>> /\ owner = <<>>
    /\ damage = 0
    /\ missed = [c \in Reads |-> 0]
    /\ answer = NoAnswer

----------------------------------------------------------------------------
(* The flight controller: an RC frame is acknowledged without a payload.     *)

AnswerOf(command, n) ==
    Encode(1, command, IF command = SET_RAW_RC THEN <<>> ELSE <<Value[n]>>, Response)

AnswerTo(n) == AnswerOf(asked[n], n)

\* No answer holds what looks like the head of another one: a reader that starts
\* behind the head of such an answer would take a part of it for a frame.
PlainAnswers ==
    \A command \in Reads \cup {SET_RAW_RC}, n \in 1..MaxRequests :
        LET e == AnswerOf(command, n)
        IN  \A i \in 2..Len(e) - 1 : ~(e[i] = Dollar /\ e[i + 1] \in {VersionByte[1], VersionByte[2]})

Answer ==
    /\ fc # <<>>
    /\ wire' = wire \o AnswerTo(Head(fc))
    /\ owner' = owner \o [i \in DOMAIN AnswerTo(Head(fc)) |-> Head(fc)]
    /\ fc' = Tail(fc)
    /\ UNCHANGED <<worker, asked, damage, missed, answer>>

\* Noise on the serial line.
Damage ==
    /\ damage < MaxDamage
    /\ \E i \in DOMAIN wire : wire' = [wire EXCEPT ![i] = Xor(@, 1)]
    /\ damage' = damage + 1
    /\ UNCHANGED <<worker, asked, fc, owner, missed, answer>>

----------------------------------------------------------------------------
(* The worker.                                                               *)

\* request and send_raw_rc: the request is written.
Send(c) ==
    /\ worker = "idle" /\ Len(asked) < MaxRequests
    /\ asked' = Append(asked, c)
    /\ fc' = Append(fc, Len(asked) + 1)
    /\ worker' = "reading"
    /\ UNCHANGED <<wire, owner, damage, missed, answer>>

Awaited == Last(asked)

\* read_frame on the first k bytes of the wire.
Decode(k) == ReadFrame(SubSeq(wire, 1, k))

Consume(r) ==
    /\ wire' = SubSeq(wire, r.used + 1, Len(wire))
    /\ owner' = SubSeq(owner, r.used + 1, Len(owner))
    /\ UNCHANGED <<asked, fc, damage>>

\* send_raw_rc: any frame is the acknowledgement, and no frame within 5 ms is
\* none; what is no frame raises out of the RC command, which is fatal.
AcknowledgeRc(k) ==
    /\ worker = "reading" /\ Awaited = SET_RAW_RC
    /\ worker' = IF Decode(k).at = "bad" THEN "stopped" ELSE "idle"
    /\ Consume(Decode(k))
    /\ UNCHANGED <<missed, answer>>

\* A bug for LagIsBounded: any frame is taken for the answer.
IsAnyAnswer(r) == r.at = "done"

IsAnswer(r) == r.at = "done" /\ Command(r) = Awaited

\* request: a frame of another command is skipped.
SkipFrame(k) ==
    /\ worker = "reading" /\ Awaited \in Reads
    /\ Decode(k).at = "done" /\ ~IsAnswer(Decode(k))
    /\ Consume(Decode(k))
    /\ UNCHANGED <<worker, missed, answer>>

\* request: the payload of the first frame of its command.
TakeAnswer(k) ==
    LET r == Decode(k)
    IN  /\ worker = "reading" /\ Awaited \in Reads
        /\ IsAnswer(r) /\ r.direction # Error
        /\ answer' = [command |-> Awaited, value |-> Payload(r),
                      of |-> owner[r.used], at |-> Len(asked)]
        /\ worker' = "idle"
        /\ Consume(r)
        /\ UNCHANGED missed

\* An error frame, MspProtocolError or TimeoutError: reported, not fatal.
Miss(k) ==
    LET r == Decode(k)
    IN  /\ worker = "reading" /\ Awaited \in Reads
        /\ r.at # "done" \/ (IsAnswer(r) /\ r.direction = Error)
        /\ missed' = [missed EXCEPT ![Awaited] = @ + 1]
        /\ worker' = "idle"
        /\ Consume(r)
        /\ UNCHANGED answer

Next ==
    \/ Answer \/ Damage
    \/ \E c \in Reads \cup {SET_RAW_RC} : Send(c)
    \/ \E k \in 0..Len(wire) : AcknowledgeRc(k) \/ SkipFrame(k) \/ TakeAnswer(k) \/ Miss(k)

Spec == Init /\ [][Next]_vars

----------------------------------------------------------------------------

TypeOK ==
    /\ worker \in {"idle", "reading", "stopped"}
    /\ asked \in Seq(Reads \cup {SET_RAW_RC})
    /\ fc \in Seq(1..MaxRequests)
    /\ wire \in Seq(0..255) /\ owner \in Seq(1..MaxRequests) /\ Len(owner) = Len(wire)
    /\ damage \in 0..MaxDamage
    /\ missed \in [Reads -> 0..MaxRequests]
    /\ answer.of \in 0..answer.at /\ answer.at \in 0..MaxRequests

\* The requests of its own command that an answer is behind.
Lag == Cardinality({n \in answer.of + 1..answer.at : asked[n] = answer.command})

\* An answer is of its own request, or behind it by no more requests than
\* ended without one: neither the acknowledgements of RC frames that nobody
\* waited for nor the frames cut by a 5 ms time-out make a reading older.
LagIsBounded == answer # NoAnswer => Lag <= missed[answer.command]

\* An answer is one the flight controller sent to that command, unchanged, and
\* its bytes are those of one request, although reads stop and start anywhere.
AnswerIsWhole ==
    answer # NoAnswer =>
        /\ asked[answer.of] = answer.command
        /\ damage = 0 => answer.value = <<Value[answer.of]>>

\* On a line without noise, and with answers that hold no head, the RC command
\* never fails: what a time-out leaves of a frame is skipped, and is no malformed
\* frame that would end the flight.
NoFalseAlarm == worker = "stopped" => damage > 0

=============================================================================
