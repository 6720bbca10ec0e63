\* Adapters with and without an alignment, and addresses on both sides of every
\* boundary.
CONSTANTS
  Masks = {0, 1, 3, 7}
  SectorSize = 4
  MaxAddress = 17
  Supported <- MCSupported
SPECIFICATION Spec
INVARIANTS
  TypeOK
  NothingHeld
  SizedByItself
  AlignedInside
  ListedAsSent
