SPECIFICATION Spec
CONSTANTS
  MaxArgs = 4
  MaxLength = 5
INVARIANTS
  TypeOK
  ArgsAreFields
  NoStaleText
CHECK_DEADLOCK FALSE
