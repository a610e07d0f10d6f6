SPECIFICATION RecoverySpec
CONSTANTS
    Collections = {c1}
    Keys = {k}
    Values = {v}
    NoValue = nil
    Requests <- Puts
    Cutoffs <- AllCutoffs
    MaxSeq = 2
    MaxTime = 2
    ClockStepsBack = FALSE
    Faults = {"ship", "torn", "snapshot", "purge"}
    Retention = 0
    MaxSnapshots = 2
    MaxPurges = 1
    MaxCrashes = 1
    TicksPerSecond = 2
    RecoverTo = {0, 1, 2}
INVARIANTS TypeOK StreamAscending RecoveryFitsStream RestoreIsPrefix RestoreSucceeds
CHECK_DEADLOCK FALSE
