SPECIFICATION MCSpec
CONSTANTS
  StorageTypes = {"mysql", "es", "elasticsearch"}
  VectorTypes = {"mysql", "elasticsearch"}
  Listed = {bigModel, smallModel}
  Names = {ownModel}
  Window <- Windows
  Switchers = {r1, r2}
  MaxChanges = 3
  Requests = {r1, r2}
  Projects = {project}
  FileCalls = {r1, r2}
  Drives = {driveC}
  Folders = {folder}
  Texts <- TwoTexts
  Pieces = {someText, otherText}
  OnWindows = TRUE
  MaxSwitches = 1
  MaxTasks = 3
  ChannelRoom = 8
  Ids = {"", "task_2"}
  Addresses = {a}
  PerToken = 2
  Burst = 2
  Stale = 4
  LastTick = 7
  Prices = {1, 2, 3}
  Capitals = {1, 10}
  ShortPeriod = 1
  LongPeriod = 2
  MaxBars = 8
  driveC = driveC
  bigModel = bigModel
  smallModel = smallModel
  ownModel = ownModel
  someText = someText
  otherText = otherText
INVARIANT TypesHold
INVARIANT StartIsConsistent
INVARIANT CurrentHasTools
INVARIANT EntriesRunTheirUpload
INVARIANT FilesAreTrue
INVARIANT BatchReportIsTrue
INVARIANT NoStretchIsTooBusy
INVARIANT LedgerIsSound
INVARIANT SettingsAreSaved
SYMMETRY Symmetric
CHECK_DEADLOCK FALSE
