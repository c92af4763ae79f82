SPECIFICATION FileSpec
CONSTANTS
  FileCalls = {c1}
  Drives = {d}
  Folders = {a}
  Texts <- OneText
  Pieces = {p}
  p = p
  OnWindows = FALSE
  MaxSwitches = 1
INVARIANT CommandsRunInTheWorkspace
CHECK_DEADLOCK FALSE
