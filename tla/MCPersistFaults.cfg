SPECIFICATION Spec
CONSTANTS
    LibWords = {l1}
    UserWords = {u1}
    Defs = {d1, d2}
    None = None
    NoProgram = NoProgram
    MaxGen = 3
    BadFlash = TRUE
    Verify = FALSE
INVARIANTS
    CodeMatchesImage
    PinIsMounted
    BootIsOneImage
    FailedSaveDropsEdits
PROPERTIES
    MountedNeverWritten
