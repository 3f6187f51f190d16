\* application_state_machine.md 46: tracking needs a rising edge of SF.
SPECIFICATION Spec
CONSTANTS
    Requests <- HeldRequests
    Invalid = Invalid
    Altitudes = {1}
    Ceiling = 2
    TakeoffAlt = 1
    HoverMinAlt = 0
    FsMinAlt = 0
    FsLandAlt = 0
    FsHoldTime = 1
    FsLandConfirm = 1
    DisabledHoldTime = 1
    ArmHoldTime = 1
    TakeoffSettle = 1
    ThrottleCenter <- MCThrottleCenter
    Steps = {1}
INVARIANTS
    NoTrackWhileSwitchHeldHigh
CHECK_DEADLOCK FALSE
