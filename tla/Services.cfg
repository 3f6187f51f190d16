\* The services and threads around the control loop, stopped and failing at any step.
SPECIFICATION Spec
CONSTANTS
    Requests <- MCRequests
    Invalid = Invalid
    FCU_CONNECT_ATTEMPTS = 3
    MaxSample = 2
    None = None
INVARIANTS
    StartAndStopAreSound
    ReadingsAreCurrent
PROPERTIES
    ImplementsLink
    ThreadsEnd
    NewsArrives
CHECK_DEADLOCK FALSE
