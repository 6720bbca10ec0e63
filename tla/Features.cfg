\* Temperature Threshold with up to three sensors, and two changes by others.
CONSTANTS
  MaxSensor = 3
  MaxChanges = 2
SPECIFICATION Spec
INVARIANTS
  TypeOK
  ShownAsRead
  CompleteOnSuccess
  NothingOnFailure
