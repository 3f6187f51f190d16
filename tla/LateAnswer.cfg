\* RejectedIsRefused, see section 5 of README.md: an answer that comes late.
SPECIFICATION Spec
CONSTANTS
    Subjects = {"parameters"}
    None = None
    Keys = {"heartbeat", "receive_pending", "named_value_float"}
    MaxTexts = 2
    MaxSetpoints = 2
    MaxDatagrams = 1
    MaxEvents = 3
    MaxChanges = 0
    MaxSocketFaults = 1
    MaxPoll = 1
    Names <- MCNames
    TypeOf <- MCType
    Minimum <- MCMinimum
    Maximum <- MCMaximum
    Options <- MCOptions
    Defaults <- MCDefaults
    NaN = 99
    Grain = 2
    Unknown = "unknown"
    Retries = 2
    Capacity = 2
    MaxFlights = 2
    MaxFrames = 2
    MaxOdometry = 1
    MaxRecorderFaults = 2
    Values <- ExactValues
    Operations = {"get", "set"}
    MaxRuns = 1
    MaxFaults = 0
    MaxStation = 0
INVARIANTS
    RejectedIsRefused
CHECK_DEADLOCK FALSE
