\* Telemetry, parameters and blackbox with their faults; each may stop for good.
SPECIFICATION Spec
CONSTANTS
    Subjects = {"mavlink", "parameters", "blackbox"}
    None = None
    Keys = {"heartbeat", "receive_pending", "named_value_float"}
    MaxTexts = 2
    MaxSetpoints = 2
    MaxDatagrams = 2
    MaxEvents = 3
    MaxChanges = 0
    MaxSocketFaults = 1
    MaxPoll = 2
    Names <- MCNames
    TypeOf <- MCType
    Minimum <- MCMinimum
    Maximum <- MCMaximum
    Options <- MCOptions
    Defaults <- MCDefaults
    NaN = 99
    Grain = 2
    Unknown = "unknown"
    Retries = 2
    Capacity = 2
    MaxFlights = 2
    MaxFrames = 2
    MaxOdometry = 1
    MaxRecorderFaults = 3
    Values <- SmallValues
    Operations = {"get", "set", "list", "save"}
    MaxRuns = 2
    MaxFaults = 2
    MaxStation = 1
INVARIANTS
    MessagesAreInOrder
    ToolReportsTheTruth
    RecordIsSound
CHECK_DEADLOCK FALSE
