SPECIFICATION ScanSpec
CONSTANTS
  p1 = p1
  p2 = p2
  p3 = p3
  NoLog = NoLog
  NoFile = NoFile
  NoProcess = NoProcess
  Projects = {p1, p2, p3}
  Runs = {r1, r2}
  Pids = {i1, i2}
  Scans = {s1}
  Shadows <- Overlap
  Foreign = {p1}
  Unreadable = {p3}
  ORPHAN_AGE = 1
  FINISHED_WINDOW = 1
  MaxClock = 2
SYMMETRY Symmetry
INVARIANTS
  ScanTypeOK
  RunningHasLived
  InstancesAreSurfaced
