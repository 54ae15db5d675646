SPECIFICATION Spec
CONSTANTS
  None = None  Corrupt = Corrupt
  MainFlow = "wf"
  Ids <- IdsDef
  HistoryLimit = 2
  PanelHistoryLimit = 2
  Files <- FilesDef
  Names = {"a", "b", "Bad"}
  Words = {" w ", " "}
  Models <- ModelsDef
  Denials <- DenialsDef
  Spots = {9}
  MaxEdits <- MaxEditsDef
  Remembered = "d1"
  NewName = "n"
  Drag = 9
  Disks <- DisksDef
  MaxActs = 5
INVARIANTS MirrorsHost RenamesComeBack DraftIsOfItsFile CleanIsWrittenAtFirst
PROPERTIES OnlyDeletionsDangle PreviewIsOfTheDraft
CHECK_DEADLOCK FALSE
