CONSTANTS
  Room <- MCRoom
  Announced <- MCAnnounced
SPECIFICATION Spec
INVARIANTS
  TypeOK
  OnlyWhatWasSent
  SilentIsComplete
CHECK_DEADLOCK FALSE
