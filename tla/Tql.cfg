SPECIFICATION Spec
CONSTANTS
    Words <- AllWords
    Times <- AllTimes
    Statements <- AllStatements
    ClientKeys <- AllKeys
    Typed <- TypedSymbols
INVARIANTS GrammarParses NothingIgnored BrokenLineRunsNothing ClientKeysArrive
CHECK_DEADLOCK FALSE
