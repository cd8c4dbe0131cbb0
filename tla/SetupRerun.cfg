SPECIFICATION Spec
CONSTANTS
  Versions = {v0, v1}
  Absent = Absent
  Torn = Torn
INVARIANTS
  TypeOK
  DoneMeansCurrent
  FailuresAreKnown
PROPERTIES
  SettingsAreKept
