------------------------------ MODULE MspCodec ------------------------------
(* MspCodec (msp/protocol.py): the frames of MSP v1 and v2 as bytes, and the *)
(* reader that finds a frame in a stream, one step per byte.                 *)
EXTENDS Integers, Sequences, SequencesExt

CONSTANT MaxPayloadV1  \* the longest payload of a v1 frame: 255, less in the runs

MaxPayloadAssumption == MaxPayloadV1 \in 0..255

Dollar == 36
VersionByte == <<77, 88>>     \* "M" of v1, "X" of v2
Request == 60
Response == 62
Error == 33
Directions == {Request, Response, Error}

Low(n) == n % 256
High(n) == n \div 256

----------------------------------------------------------------------------
(* Checksums over the bytes between the direction and the checksum.          *)

\* Exclusive or of two bytes, place by place.
Xor(a, b) ==
    LET place(w) == IF (a \div w) % 2 = (b \div w) % 2 THEN 0 ELSE w
    IN  place(1) + place(2) + place(4) + place(8) + place(16) + place(32) + place(64) + place(128)

\* A bug for TypeOK: a sum that outgrows its byte.
SumOf(body) ==
    LET sum[i \in 0..Len(body)] == IF i = 0 THEN 0 ELSE sum[i - 1] + body[i]
    IN  sum[Len(body)]

XorOf(body) ==
    LET sum[i \in 0..Len(body)] == IF i = 0 THEN 0 ELSE Xor(sum[i - 1], body[i])
    IN  sum[Len(body)]

\* One place of a checksum, as a table.
ShiftOut == [crc \in 0..255 |-> IF crc >= 128 THEN Xor((2 * crc) % 256, 213) ELSE 2 * crc]

ShiftOutTwice(crc) == ShiftOut[ShiftOut[crc]]

\* All eight places of a byte.
ShiftByte(crc) == ShiftOutTwice(ShiftOutTwice(ShiftOutTwice(ShiftOutTwice(crc))))

crc8_dvb_s2(body) ==
    LET crc[i \in 0..Len(body)] == IF i = 0 THEN 0 ELSE ShiftByte(Xor(crc[i - 1], body[i]))
    IN  crc[Len(body)]

Checksum(version, body) == IF version = 1 THEN XorOf(body) ELSE crc8_dvb_s2(body)

----------------------------------------------------------------------------
(* Encoding.                                                                 *)

HeaderV1(command, size) == <<size, command>>
HeaderV2(command, size) == <<0, Low(command), High(command), Low(size), High(size)>>

\* A bug for RoundTrip: command 256 still goes into a v1 frame.
VersionForTooLate(command, payload) ==
    IF command <= 256 /\ Len(payload) <= MaxPayloadV1 THEN 1 ELSE 2

\* encode_request(version=None): v1 while command and payload fit.
VersionFor(command, payload) == IF command <= 255 /\ Len(payload) <= MaxPayloadV1 THEN 1 ELSE 2

Encode(version, command, payload, direction) ==
    LET header == IF version = 1 THEN HeaderV1(Low(command), Len(payload))
                  ELSE HeaderV2(command, Len(payload))
        body == header \o payload
    IN  <<Dollar, VersionByte[version], direction>> \o body \o <<Checksum(version, body)>>

----------------------------------------------------------------------------
(* Reading.  The reader drops bytes until "$" and a version byte, then takes *)
(* the direction, the body and the checksum; "done" and "bad" end it, the    *)
(* latter with MspProtocolError.                                             *)

Start == [at |-> "scan", version |-> 1, direction |-> Request, body |-> <<>>, used |-> 0]

Ended(r) == r.at \in {"done", "bad"}

HeaderLength(version) == IF version = 1 THEN 2 ELSE 5

HeaderComplete(r) == Len(r.body) >= HeaderLength(r.version)

Size(r) == IF r.version = 1 THEN r.body[1] ELSE r.body[4] + 256 * r.body[5]

BodyComplete(r) == HeaderComplete(r) /\ Len(r.body) = HeaderLength(r.version) + Size(r)

\* A bug for Resynchronises: the first byte is taken for the header.
ScanNothing(r, b) == [r EXCEPT !.at = "version"]

Scan(r, b) == [r EXCEPT !.at = IF b = Dollar THEN "version" ELSE "scan"]

\* A bug for NoFalseAlarm: what follows "$" is a frame whatever it is.
TakeAnyVersion(r, b) == [r EXCEPT !.at = "direction", !.version = IF b = VersionByte[2] THEN 2 ELSE 1]

\* A byte that is no version is dropped, a "$" like any other.
TakeVersion(r, b) ==
    IF b \in {VersionByte[1], VersionByte[2]}
    THEN [r EXCEPT !.at = "direction", !.version = IF b = VersionByte[1] THEN 1 ELSE 2]
    ELSE [r EXCEPT !.at = "scan"]

TakeDirection(r, b) ==
    IF b \in Directions THEN [r EXCEPT !.at = "body", !.direction = b] ELSE [r EXCEPT !.at = "bad"]

\* A bug for DamageIsNoticed: the checksum is read and not compared.
TakeAnyBody(r, b) ==
    IF BodyComplete(r) THEN [r EXCEPT !.at = "done"] ELSE [r EXCEPT !.body = Append(@, b)]

TakeBody(r, b) ==
    IF ~ BodyComplete(r) THEN [r EXCEPT !.body = Append(@, b)]
    ELSE [r EXCEPT !.at = IF b = Checksum(r.version, r.body) THEN "done" ELSE "bad"]

ReadByte(r, b) ==
    LET s == [r EXCEPT !.used = @ + 1]
    IN  CASE r.at = "scan" -> Scan(s, b)
          [] r.at = "version" -> TakeVersion(s, b)
          [] r.at = "direction" -> TakeDirection(s, b)
          [] r.at = "body" -> TakeBody(s, b)
          [] OTHER -> r

\* read_frame on the bytes that come before its deadline: an ended reader, or
\* one the transport's TimeoutError leaves behind with its bytes consumed.
ReadFrame(bytes) ==
    LET reader[i \in 0..Len(bytes)] == IF i = 0 THEN Start ELSE ReadByte(reader[i - 1], bytes[i])
    IN  reader[Len(bytes)]

Command(r) == IF r.version = 1 THEN r.body[2] ELSE r.body[2] + 256 * r.body[3]
Payload(r) == SubSeq(r.body, HeaderLength(r.version) + 1, Len(r.body))

=============================================================================
