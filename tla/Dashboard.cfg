SPECIFICATION FairPageSpec
CONSTANTS
  None = None
  Slots = {s1}
  Calls = {c1, c2}
  MaxLoads = 2
  Timers = {t1, t2}
INVARIANTS
  PageTypeOK
  OneCountdown
  PanelLoads
PROPERTY PageFollows
