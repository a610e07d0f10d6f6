SPECIFICATION SearchSpec
CONSTANTS
    NumKeys = 2
    FieldValues <- SomeFields
    Operands <- SomeOperands
    Exact = 4
    ArrayRank = 2
    NoDoc = none
    DefaultLimit = 2
    Foreign = other
INVARIANT MissingSortsLast
