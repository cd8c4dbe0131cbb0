SPECIFICATION Spec
CONSTANTS
  h1 = h1
  h2 = h2
  NoHint = NoHint
  Unreadable = Unreadable
  NoSlot = NoSlot
  NoHost = NoHost
  Hosts = {h1}
  SlotIds = {s1, s2}
  Reservers = {r1, r2}
  Beaters = {b1}
  Malformed = Malformed
  Hints = {NoHint, h1}
  Broken = {}
  Configs <- OneSize
  Samples <- TwoSamples
  port_base = 20
  port_stride = 2
  Ttls = {1}
  MaxClock = 2
INVARIANTS
  NoPortOverlap
