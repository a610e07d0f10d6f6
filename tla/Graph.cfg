SPECIFICATION Spec
CONSTANTS
    Nodes = {a, b}
    Types = {knows, blocks}
    Props = {p}
    NoMeta = empty
    EdgeCollection = edges
    Raw = raw
    RawKeys <- SomeRawKeys
    KeyRank <- SomeRank
    Collections = {edges}
    Keys <- GraphKeys
    Values <- GraphValues
    NoValue = nil
    Requests <- GraphRequests
    Cutoffs <- AllCutoffs
    MaxSeq = 3
    MaxTime = 2
    ClockStepsBack = FALSE
INVARIANTS TypeOK RelatedIsGraph  PagesAddUp
