SPECIFICATION FairService
CONSTANTS
    c1 = c1
    k1 = k1
    v = v
    Collections = {c1}
    Keys = {k1}
    Values = {v}
    NoValue = nil
    Writers = {w1, w2}
    NoWriter = none
    Requests <- SomeRequests
    Cutoffs = {2}
    MaxSeq = 3
    MaxTime = 2
    ClockStepsBack = TRUE
    Clients = {a, b}
    Batches <- SomeBatches
    MaxRequests = 2
INVARIANTS ServiceTypeOK LiveIsLatest SeqNamesOneEvent BatchPrefix AnswersTellTruth ReadYourWrites
PROPERTY HandlersEnd
CHECK_DEADLOCK FALSE
