\* Arming, manual flight and landing, takeoff, altitude hold, tracking and
\* fail-safe, by three pilots.
SPECIFICATION MCSpec
CONSTANTS
    Requests <- MCRequests
    Invalid = Invalid
    Altitudes = {0, 1}
    Ceiling = 2
    TakeoffAlt = 1
    HoverMinAlt = 0
    FsMinAlt = 0
    FsLandAlt = 0
    FsHoldTime = 1
    FsLandConfirm = 1
    DisabledHoldTime = 1
    ArmHoldTime = 1
    TakeoffSettle = 1
    ThrottleCenter <- MCThrottleCenter
    Steps = {1, 2}
    LandConfirms = {1, 2}
    MaxLandTimer = 3
INVARIANTS
    TypeOK
    ArmedMatchesState
    LostMeansNeutral
    TakeoffHandoverHoldsAltitude
    ConfirmationIsSound
PROPERTIES
    SettledThisTakeoff
    ArmFrameBeforeArmed
    FailSafeReturnsToAltHold
    OneTrackPerPress
    OverridePriority
CHECK_DEADLOCK FALSE
