SPECIFICATION FairSpec
CONSTANTS
  Requests = {q1, q2}
  CACHE_TTL = 4
  V2_TIMEOUT = 2
  CATALOG_TIMEOUT = 1
INVARIANTS
  TypeOK
  AnswersAreFresh
PROPERTIES
  ChangesAreSeen
