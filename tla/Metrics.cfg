SPECIFICATION Spec
CONSTANTS
  h1 = h1
  Hosts <- OneHost
  Skews <- InStepOrAhead
  POLL_INTERVAL = 1
  POLL_TIMEOUT = 1
  RETENTION = 3
  MaxClock = 6
INVARIANTS
  TypeOK
  LagIsBounded
  PolledOften
  RowsAreRecent
