SPECIFICATION Spec
CONSTANTS
  None = None  Corrupt = Corrupt
  MainFlow = "wf"
  Ids <- IdsDef
  HistoryLimit = 2
  PanelHistoryLimit = 2
  Files <- FilesDef
  Names = {"a", "b", "Bad"}
  Words = {" w ", " "}
  Models <- ModelsDef
  Denials <- DenialsDef
  Spots = {9}
  MaxEdits <- NoEdits
  Remembered = "d1"
  NewName = "n"
  Drag = 9
  Disks <- DisksDef
  MaxActs = 3
INVARIANTS CleanIsWritten
CHECK_DEADLOCK FALSE
