CONSTANTS
  MaxMessages = 3
  MaxDeletions = 1
  Key = {"size", "sync", "inputs"}
  Numeric = {"size"}
  Flag = {"sync"}
  Text = {"", "true", "false", "1", "01 line", "00", "x"}
  Number <- MCNumber
  Default <- MCDefault
  Files <- MCFiles
  LOG_SIZE = "size"
  SizeOf <- MCSizeOf
  MaxProcesses = 2
SPECIFICATION Spec
CHECK_DEADLOCK FALSE
INVARIANTS TypeOK NothingLost SettingsSurvive
PROPERTIES LogDrains
