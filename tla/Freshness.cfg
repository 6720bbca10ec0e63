CONSTANTS
  Sensors = {s1}
  ELPEs <- MCELPEs
  MaxVersion <- MCMaxVersion
SPECIFICATION Spec
INVARIANTS
  TypeOK
  ProtectionExplained
  SensorsExplained
  EntriesExplained
PROPERTY
  ImplementsMonotonic
