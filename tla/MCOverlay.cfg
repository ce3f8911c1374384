SPECIFICATION Spec
CONSTANTS
  Names = {"f", "g"}
  BaseWord = "abs"
  MaxSlots = 4
  MaxNames = 3
  MaxCodes = 3
  MaxObjs = 3
  Definitions <- Crossed
  Outcomes <- Faults
  Values <- NoValues
  Rough = {}
INVARIANTS NoDangling WordsKeepSlots SavedImageMounts
VIEW Board
