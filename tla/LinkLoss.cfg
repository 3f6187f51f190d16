\* A lost link, a stop request and a fatal error under a fair loop.
SPECIFICATION FairSpec
CONSTANTS
    Requests <- LinkLossRequests
    Invalid = Invalid
    Altitudes = {0, 1}
    Ceiling = 2
    TakeoffAlt = 1
    HoverMinAlt = 0
    FsMinAlt = 0
    FsLandAlt = 0
    FsHoldTime = 1
    FsLandConfirm = 1
    DisabledHoldTime = 1
    ArmHoldTime = 1
    TakeoffSettle = 1
    ThrottleCenter <- MCThrottleCenter
    Steps = {1}
PROPERTIES
    LostLinkReachesFailSafe
    LoopEnds
CHECK_DEADLOCK FALSE
