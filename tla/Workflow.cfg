SPECIFICATION Spec
CONSTANTS
  Scripts = {w1, w2}
  Slots = {s1, s2}
  Places = {p1, p2}
  NoUser = {p2}
  Unused = Unused
  NoSlot = NoSlot
INVARIANTS
  TypeOK
  NothingLeft
PROPERTY ContainerGoesFirst
CHECK_DEADLOCK FALSE
