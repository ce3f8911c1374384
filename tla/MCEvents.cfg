SPECIFICATION Spec
CONSTANTS
    BindingCount = 2
    QueueDepth = 1
    ClockMod = 16
    Pins = {pin}
    Everys = {}
    Afters = {after}
    Wifis = {}
    Debounces = {1}
    None = None
    MaxMs = 1
    MaxRegs = 2
    MaxEpochs = 2
    MaxDrops = 1
    MaxFaults = 1
INVARIANTS
    FaultReported
    ArmedIsTable
    PendingIsOwn
    ActiveCountExact
    DropsAccounted
PROPERTIES
    AfterOnce
    FreshAccepted
    PendingConsumed
CHECK_DEADLOCK FALSE
