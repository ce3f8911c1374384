SPECIFICATION Spec
CONSTANTS
    Capacity = 2
    MaxGen = 2
    Plain = {uart}
    Listeners = {port}
    Ble = {link}
    Words = {w1, w2}
    Free = Free
    Reserved = Reserved
    Nil = Nil
INVARIANTS
    Ownership
    OnlyUseSpendsEntries
    NothingLeftOpen
PROPERTIES
    SaveKeepsHandles
    ImplementsCapabilities
