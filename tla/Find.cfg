SPECIFICATION SearchSpec
CONSTANTS
    NumKeys = 3
    FieldValues <- SomeFields
    Operands <- SomeOperands
    Exact = 4
    ArrayRank = 2
    NoDoc = none
    DefaultLimit = 2
    Foreign = other
INVARIANTS WhereAgrees OrderAgrees SearchAgreesWithFind SearchPagesAddUp
