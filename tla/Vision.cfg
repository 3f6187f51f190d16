\* Results, selector, selection and configuration of the pipeline; each may stop for good.
SPECIFICATION Spec
CONSTANTS
    Subjects = {"results", "selector", "objects", "config"}
    MaxFrames = 3
    MaxRuns = 2
    Gap = 2
    ResultsHwm = 2
    Setups <- EachBackend
    PollTicks = 1
    SelectorHwm = 1
    Boxes <- MCBoxes
    Classes = {1, 2}
    IouNum = 1
    IouDen = 10
    MaxDistance2 = 4
    MaxDetections = 2
INVARIANTS
    PipelinePlays
PROPERTIES
    ResultsAreCurrent
    SelectionIsKept
    TargetIsKept
CHECK_DEADLOCK FALSE
