SPECIFICATION FairSpec
CONSTANTS
    Timings <- BothTimings
    OpTicks = 1
    BatchSizes = {2, 3}
    MayWedge = TRUE
INVARIANTS
    HealthyKernelIsLeftAlone
PROPERTIES
    EscalationFollowsSilence
    ArmedWedgeIsAborted
CHECK_DEADLOCK FALSE
