CONSTANTS
  Queries <- MCQueries
  MaxLeaked = 2
SPECIFICATION Spec
INVARIANTS
  TypeOK
  LostOnlyByDecline
  SuccessMeansData
PROPERTIES
  ImplementsAtomic
CHECK_DEADLOCK FALSE
