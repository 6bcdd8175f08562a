SPECIFICATION EmitSpec
CONSTANTS
  Sizes <- MCSizes
  Lines <- MCLines
CHECK_DEADLOCK FALSE
INVARIANTS InsideBuffer TrueIsString
