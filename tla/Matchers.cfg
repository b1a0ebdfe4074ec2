SPECIFICATION Spec
CONSTANTS
  Patterns <- MCPatterns
  Names <- MCNames
  Vals = {v1, v2}
  MaxRules = 3
  Lines <- MCLines
  Addresses <- MCAddresses
INVARIANTS Sound CompleteWithOne
CHECK_DEADLOCK FALSE
