SPECIFICATION ServicesSpec
CONSTANTS
  None = None
  Calls <- MCCalls
  MaxSets = 5
PROPERTY
  SizeKept
