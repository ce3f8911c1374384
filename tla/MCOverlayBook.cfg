SPECIFICATION Spec
CONSTANTS
  Names = {"f", "g"}
  BaseWord = "abs"
  MaxSlots = 3
  MaxNames = 2
  MaxCodes = 1
  MaxObjs = 2
  Definitions <- Celled
  Outcomes <- FaultsAndHandles
  Values <- Writes
  Rough = {}
PROPERTY BookSpec
VIEW Board
