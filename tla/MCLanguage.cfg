SPECIFICATION FairSpec
CONSTANTS
    MaxDepth = 12
    MaxBody = 5
    MaxNodes = 40
    MaxParams = 2
    MaxFields = 2
    MaxLocals = 6
    MaxStack = 8
    MaxInt = 7
    MaxCalls = 3
    MaxAttempts = 2
    MaxBytes = 2
    Arena = 4
    Size <- TextSize
    MaxSensed = 3
INVARIANTS
    ErrorScoped
    CompiledAsMeant
    SeeRecompiles
PROPERTY InterruptEndsRun
CHECK_DEADLOCK FALSE
