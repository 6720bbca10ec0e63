\* The whole dialogue, with every answer of the drive.
CONSTANTS
  Chunks <- MCChunks
  ControllerData <- MCControllerData
  ProtocolLists <- MCProtocolLists
SPECIFICATION FairSpec
\* The program ends: Exited has no successor.
CHECK_DEADLOCK FALSE
INVARIANTS
  TypeOK
  SentOnlyConfirmed
  NothingDestructiveAfterEnd
  GatedByController
  HctmInRange
  MenuReady
  Level0Listed
PROPERTIES
  DialogueEnds
  DialogueAdvances
