SPECIFICATION Spec
CONSTANTS
  h1 = h1
  h2 = h2
  NoHint = NoHint
  Inputs <- AllInputs
CHECK_DEADLOCK FALSE
INVARIANTS
  TypeOK
  ReturnsPickHost
  FreeSlotsMatchPlacement
