SPECIFICATION FairSpec
CONSTANTS
    BindingCount = 2
    QueueDepth = 2
    ClockMod = 16
    Pins = {}
    Everys = {every}
    Afters = {after}
    Wifis = {wifi}
    Debounces = {0}
    None = None
    MaxMs = 0
    MaxRegs = 2
    MaxEpochs = 0
    MaxDrops = 1
    MaxFaults = 0
PROPERTIES
    EventsGoOn
CHECK_DEADLOCK FALSE
