SPECIFICATION Spec
CONSTANTS
    Collections = {c1}
    Keys = {k1}
    Values = {v}
    NoValue = nil
    Writers = {w1, w2}
    NoWriter = none
    Requests <- AllRequests
    Cutoffs <- AllCutoffs
    MaxSeq = 3
    MaxTime = 3
    ClockStepsBack = FALSE
INVARIANTS TypeOK TxTimeFollowsSeq LiveAgreesWithReplay HistoryExplainsAsOf
PROPERTIES AuditViewStable ImplementsEventLog
