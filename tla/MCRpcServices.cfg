SPECIFICATION ServicesSpec
CONSTANTS
  None = None
  Calls <- MCCalls
  MaxSets = 5
INVARIANTS
  ServicesTypeOK
  CallsUnderstood
PROPERTY
  ImplementsPortmap
