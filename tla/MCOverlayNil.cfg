SPECIFICATION Spec
CONSTANTS
  Names = {"f", "g"}
  BaseWord = "abs"
  MaxSlots = 3
  MaxNames = 2
  MaxCodes = 1
  MaxObjs = 3
  Definitions <- Declared
  Outcomes <- Faults
  Values <- NoValues
  Rough = {"nil"}
INVARIANT SavedImageMounts
VIEW Board
