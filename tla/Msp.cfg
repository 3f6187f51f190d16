\* set_rc, repeats, failures and stop in every order, and what is on the line.
SPECIFICATION StackSpec
CONSTANTS
    Keys = {"rc", "altitude"}
    Interval <- MCInterval
    IdleWait = 1
    Channels = {c1, c2}
    Tokens = {1, 2, 3, 4}
    MaxQueue = 3
    MaxLag = 1
    None = None
    c1 = c1
    c2 = c2
    Refused = Refused
    \* A damaged byte among the first 12 covers every field.
    Frames <- MCFrames
    MaxPayloadV1 = 2
    Values = {0, 1, 33, 36, 60, 62, 77, 88, 109, 255}
    Noise = {0, 62, 77, 88}
    MaxDamaged = 12
    \* Altitude, attitude and RC requests, answered late, cut anywhere, one
    \* byte changed by noise.
    Reads = {108, 109}
    SET_RAW_RC = 200
    Value <- MCValue
    MaxRequests = 3
    MaxDamage = 1
    \* Statuses of every length around the offsets of their fields, and a
    \* battery drained past its capacity.
    KnownFlags = {0, 2, 12, 28}
    Masks = {{}, {2}, {12, 28}, {31}, {0, 31}}
    ModeBytes = {0, 1, 3}
    Capacities = {0, 1, 7}
    MaxConsumed = 9
INVARIANTS
    OneCommandPerKey
    NoCommandLost
    NoLostWakeUp
    CodecIsSound
    AnswersAreSound
PROPERTIES
    NothingAfterFatal
    ImplementsStream
CHECK_DEADLOCK FALSE
