\* The phases of the tracker with parameter changes, and the limits of its commands.
SPECIFICATION Spec
CONSTANTS
    Subjects = {"control", "lateral", "vertical"}
    Trackers = {1}
    Sights <- AllSights
    Configs <- GateConfigs
    LockHistory = 1
    CommitTime = 1
    Steps = {0, 1}
    AgeCap = 3
    RunCap = 2
    None = None
    Full = 2
    Dts = {0, 1}
    AccelLimit = 2
    LateralConfigs <- WideAndNarrowLateral
    LateralErrors <- EveryError
    LateralSpeeds = {0}
    LateralRequests <- SomeRequests
    VerticalConfigs <- WideAndNarrowVertical
    VerticalErrors <- SomeErrors
    VerticalSpeeds <- SomeSpeeds
    VerticalRequests = {0}
INVARIANTS
    StartNeverRaises
PROPERTIES
    CommitIsEarned
    CommandsAreLimited
