CONSTANTS
  Masks = {0, 3}
  SectorSize = 4
  MaxAddress = 5
  Supported <- MCSupported
SPECIFICATION Spec
INVARIANT
  FlushSynchronizes
