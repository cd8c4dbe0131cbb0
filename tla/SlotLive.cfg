SPECIFICATION FairSpec
CONSTANTS
  h1 = h1
  h2 = h2
  NoHint = NoHint
  Unreadable = Unreadable
  NoSlot = NoSlot
  NoHost = NoHost
  Hosts = {h1}
  SlotIds = {s1}
  Reservers = {r1, r2}
  Beaters = {b1}
  Malformed = Malformed
  Hints = {NoHint}
  Broken = {Malformed}
  Configs <- OneSize
  Samples <- TwoSamples
  port_base = 20
  port_stride = 2
  Ttls = {0, 1}
  MaxClock = 1
PROPERTIES
  OnlyDeleteEndsActive
  OnlyInsertAddsRows
  ReservationsAnswered
  ExpiredReapedWhenHealthy
