CONSTANTS
  Tools = {t1, t2}
  Users = {u1, u2}
  NoOne = NoOne
  MaxFormats = 3
SPECIFICATION FairSpec
INVARIANTS
  FormatsOnlyLocked
  LockGivenBack
PROPERTIES
  LockComesBack
  ImplementsExclusive
