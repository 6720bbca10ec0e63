CONSTANTS
  Versions <- MCVersions
  Drives <- MCDrives
SPECIFICATION Spec
INVARIANTS
  TypeOK
  NothingMissing
  NothingTooNew
  OwnValue
CHECK_DEADLOCK FALSE
