\* Controller data that failed the validation.
CONSTANTS
  Chunks <- MCChunks
  ControllerData <- MCControllerData
  ProtocolLists <- MCProtocolLists
SPECIFICATION Spec
CHECK_DEADLOCK FALSE
INVARIANT
  GatedByTrusted
