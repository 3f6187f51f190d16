------------------------------ MODULE MspLine -------------------------------
(* A frame of MspCodec on a line that puts noise before it, changes a byte   *)
(* of it or loses its head, and the whole frame that follows it.             *)
EXTENDS MspCodec

CONSTANTS
    Frames,     \* the frames sent: [command, payload, direction]
    Values,     \* the values a damaged byte may take
    Noise,      \* the bytes that may precede the frame
    MaxDamaged  \* bound: the position of a damaged byte

\* encode_request and encode_response refuse every other frame.
FramesAssumption ==
    \A f \in Frames :
        /\ f \in [command : Nat, payload : Seq(0..255), direction : Directions]
        /\ f.command <= 65535 /\ Len(f.payload) <= 65535
NoiseAssumption == Values \subseteq 0..255 /\ Noise \subseteq 0..255 \ {Dollar} /\ MaxDamaged \in Nat

VARIABLES
    frame,   \* what was encoded
    line,    \* the bytes that reach the reader
    noise,   \* how many of them precede the frame
    damaged, \* the position of the damaged byte in the frame, 0 for none
    lost     \* how many bytes of the frame's head were lost

vars == <<frame, line, noise, damaged, lost>>

Version(f) == VersionFor(f.command, f.payload)
Bytes(f) == Encode(Version(f), f.command, f.payload, f.direction)

Init ==
    /\ frame \in Frames
    /\ line = Bytes(frame)
    /\ noise = 0 /\ damaged = 0 /\ lost = 0

Precede ==
    /\ lost = 0
    /\ \E b \in Noise :
        /\ line' = <<b>> \o line
        /\ noise' = noise + 1
    /\ noise < 2
    /\ UNCHANGED <<frame, damaged, lost>>

Damage ==
    /\ damaged = 0 /\ noise = 0 /\ lost = 0
    /\ \E i \in 1..Len(line), b \in Values :
        /\ i <= MaxDamaged /\ b # line[i]
        /\ damaged' = i
        /\ line' = [line EXCEPT ![i] = b]
    /\ UNCHANGED <<frame, noise, lost>>

\* A time-out dropped the first k bytes; the same frame is sent again.
Cut ==
    /\ damaged = 0 /\ noise = 0 /\ lost = 0
    /\ \E k \in 1..Len(line) :
        /\ k <= MaxDamaged
        /\ lost' = k
        /\ line' = SubSeq(line, k + 1, Len(line)) \o Bytes(frame)
    /\ UNCHANGED <<frame, noise, damaged>>

Next == Precede \/ Damage \/ Cut

Spec == Init /\ [][Next]_vars

----------------------------------------------------------------------------

TypeOK ==
    /\ frame \in Frames
    /\ line \in Seq(0..255)
    /\ noise \in 0..2 /\ damaged \in 0..MaxDamaged /\ lost \in 0..MaxDamaged

Returns(r, f) ==
    /\ r.at = "done"
    /\ r.version = Version(f) /\ r.direction = f.direction
    /\ Command(r) = f.command /\ Payload(r) = f.payload

\* Behind noise that holds no "$", the reader returns the frame that was
\* encoded and stops after its last byte, at the edges of both versions
\* (command 255 and 256, payload of MaxPayloadV1 and one byte more) too.
RoundTrip ==
    LET r == ReadFrame(line)
    IN  damaged = 0 /\ lost = 0 => Returns(r, frame) /\ r.used = Len(line)

SizeField == IF Version(frame) = 1 THEN {4} ELSE {7, 8}
VersionAndDirection == {2, 3}

\* One changed byte never lets another command or payload through.  No checksum
\* covers the version and the direction, and a changed size moves the place
\* where the checksum is looked for: those fields are left out.
DamageIsNoticed ==
    LET r == ReadFrame(line)
    IN  damaged > 0 /\ damaged \notin SizeField \cup VersionAndDirection => r.at # "done"

\* What a time-out left of a frame costs no other frame: when it holds no
\* "$", the next one is returned whole.
Resynchronises ==
    LET left == Len(line) - Len(Bytes(frame))
        r == ReadFrame(line)
    IN  lost > 0 /\ Dollar \notin Range(SubSeq(line, 1, left)) =>
            Returns(r, frame) /\ r.used = Len(line)

=============================================================================
