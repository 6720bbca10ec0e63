\* Set Features VWC against its own prompt.
CONSTANTS
  Chunks <- MCChunks
  ControllerData <- MCControllerData
  ProtocolLists <- MCProtocolLists
SPECIFICATION Spec
CHECK_DEADLOCK FALSE
INVARIANT
  VwcNeedsConsent
