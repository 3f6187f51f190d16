\* DuplicateNeverAdvances with a time-out that changes between observe and update.
SPECIFICATION Spec
CONSTANTS
    Subjects = {"control"}
    Trackers = {1}
    Sights <- AllSights
    Configs <- TwoTimeouts
    LockHistory = 1
    CommitTime = 1
    Steps = {0, 1}
    AgeCap = 5
    RunCap = 2
    None = None
    Full = 2
    Dts = {0, 1}
    AccelLimit = 2
    LateralConfigs <- WideAndNarrowLateral
    LateralErrors <- EveryError
    LateralSpeeds = {0}
    LateralRequests <- SomeRequests
    VerticalConfigs <- WideAndNarrowVertical
    VerticalErrors <- SomeErrors
    VerticalSpeeds <- SomeSpeeds
    VerticalRequests = {0}
PROPERTIES
    DuplicateNeverAdvances
