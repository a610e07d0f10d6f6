SPECIFICATION Spec
CONSTANTS
    Collections = {c1}
    Keys = {k}
    Values = {v}
    NoValue = nil
    Requests <- Puts
    Cutoffs <- AllCutoffs
    MaxSeq = 2
    MaxTime = 2
    ClockStepsBack = FALSE
    Faults = {}
    Retention = 0
    MaxSnapshots = 1
    MaxPurges = 0
    MaxCrashes = 1
    TicksPerSecond = 2
INVARIANT PartialNeverMistaken
CHECK_DEADLOCK FALSE
