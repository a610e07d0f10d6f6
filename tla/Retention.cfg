SPECIFICATION RetentionSpec
CONSTANTS
    Collections = {c1, c2}
    Keys = {k}
    Values = {v}
    NoValue = nil
    Requests <- Puts
    Cutoffs = {}
    MaxSeq = 2
    MaxTime = 3
    ClockStepsBack = FALSE
    Faults = {"delete"}
    Retention = 1
    MaxSnapshots = 0
    MaxPurges = 0
    MaxCrashes = 1
    TicksPerSecond = 2
INVARIANT RetentionKeepsYoung
PROPERTIES EventuallyShipped OldEventsGo StreamIsReplica
CHECK_DEADLOCK FALSE
