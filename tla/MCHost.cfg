SPECIFICATION HostSpec
CONSTANTS
    MaxForms = 2
    MaxResends = 2
    MaxSignals = 1
    TypeAhead = 4
    MaxBytes = 4
    MaxTyped = 1
    MaxKeys = 3
INVARIANTS
    AnswersMatch
    SessionFaithful
PROPERTIES
    InstallLeavesLibrary
CHECK_DEADLOCK FALSE
