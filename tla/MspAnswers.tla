----------------------------- MODULE MspAnswers -----------------------------
(* The payloads of MSP_STATUS_EX and MSP_BATTERY_STATE and what              *)
(* parse_status_ex and parse_battery_state (msp/bt_v2.py) read from them.    *)
(* The status payload has a field of variable length before its arming       *)
(* flags, so every offset behind it depends on a byte of the payload.        *)
EXTENDS Integers, Sequences, FiniteSets

CONSTANTS
    KnownFlags,   \* bits that ARMING_DISABLE_FLAGS names
    Masks,        \* the arming-disable masks sent, as sets of bits of 0..31
    ModeBytes,    \* values of flight_mode_byte_count
    Capacities,   \* values of capacity_mah
    MaxConsumed,  \* bound: consumed_mah, below the 2^16 at which it wraps
    Error         \* ValueError

FlagsAssumption == KnownFlags \subseteq 0..31 /\ Masks \subseteq SUBSET (0..31)
ByteAssumption == ModeBytes \subseteq 0..255
CapacityAssumption == \A n \in Capacities \cup {MaxConsumed} : n \in Nat /\ n < 2 ^ 16

VARIABLES
    mask, modeBytes,  \* what the flight controller put into the status
    status,           \* the payload received
    capacity, consumed

vars == <<mask, modeBytes, status, capacity, consumed>>

----------------------------------------------------------------------------
(* The flight controller.                                                    *)

ByteOf(bits, k) ==
    LET b(i) == IF 8 * k + i \in bits THEN 2 ^ i ELSE 0
    IN  b(0) + b(1) + b(2) + b(3) + b(4) + b(5) + b(6) + b(7)

\* The bytes before the count are not read for the flags; the mode bytes are
\* 255 so that a wrong offset shows.
StatusPayload(n, bits) ==
    [i \in 1..15 |-> 0] \o <<n>> \o [i \in 1..n |-> 255] \o <<29>>
        \o [k \in 1..4 |-> ByteOf(bits, k - 1)]

Init ==
    /\ mask \in Masks /\ modeBytes \in ModeBytes
    /\ status = StatusPayload(modeBytes, mask)
    /\ capacity \in Capacities /\ consumed = 0

\* Newer firmware appends fields; a short payload is one of another version.
Extend ==
    /\ Len(status) = Len(StatusPayload(modeBytes, mask))
    /\ status' = Append(status, 170)
    /\ UNCHANGED <<mask, modeBytes, capacity, consumed>>

Shorten ==
    /\ status # <<>> /\ Len(status) <= Len(StatusPayload(modeBytes, mask))
    /\ status' = SubSeq(status, 1, Len(status) - 1)
    /\ UNCHANGED <<mask, modeBytes, capacity, consumed>>

Discharge ==
    /\ consumed < MaxConsumed
    /\ consumed' = consumed + 1
    /\ UNCHANGED <<mask, modeBytes, status, capacity>>

Next == Extend \/ Shorten \/ Discharge

Spec == Init /\ [][Next]_vars

----------------------------------------------------------------------------
(* What the client reads.                                                    *)

Bit(payload, at, i) == (payload[at + i \div 8] \div 2 ^ (i % 8)) % 2 = 1

\* A bug for StatusIsWhole: one byte too many is wanted.
NeededBeyond(offset) == offset + 6

\* The bytes parse_status_ex wants: up to the end of the mask.
Needed(offset) == offset + 5

\* decode_arming_mask of the four bytes behind the count.
parse_status_ex(payload) ==
    IF Len(payload) < 16 \/ Len(payload) < Needed(16 + payload[16]) THEN Error
    ELSE {i \in KnownFlags : Bit(payload, 16 + payload[16] + 2, i)}

\* A bug for RemainingInRange: more is consumed than the battery holds.
RemainingUnbounded(cap, used) == IF cap = 0 THEN -1 ELSE (100 * (cap - used)) \div cap

\* remaining_percent of parse_battery_state: -1 for an unknown capacity.
Remaining(cap, used) ==
    IF cap = 0 THEN -1
    ELSE IF used > cap THEN 0 ELSE (100 * (cap - used)) \div cap

----------------------------------------------------------------------------

TypeOK ==
    /\ mask \in Masks /\ modeBytes \in ModeBytes
    /\ status \in Seq(0..255)
    /\ capacity \in Capacities /\ consumed \in 0..MaxConsumed

\* A status of any length is refused, or its known arming flags are read
\* exactly: a shortened one never looks like a vehicle that can be armed.
StatusIsWhole ==
    parse_status_ex(status) =
        IF Len(status) < Len(StatusPayload(modeBytes, mask)) THEN Error ELSE mask \cap KnownFlags

\* The remaining charge is a percentage, or -1 when the capacity is unknown.
RemainingInRange == Remaining(capacity, consumed) \in IF capacity = 0 THEN {-1} ELSE 0..100

=============================================================================
