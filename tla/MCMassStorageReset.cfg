SPECIFICATION Spec
CONSTANTS
  Blocks = 2
  Packets = 2
  SectorLen = 2
  MaxLen = 2
  LenMod = 16
  Data = {"old", "new"}
  Garbage = "garbage"
  Unknown = "unknown"
  MaxTroubles = 1
  AnyReset = TRUE
INVARIANTS
  DiskIsWhatHostWrote
CHECK_DEADLOCK FALSE
