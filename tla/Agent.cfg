SPECIFICATION FairSpec
CONSTANTS
  Missing = Missing
  NoRequest = NoRequest
  Requests = {r1, r2}
  Services = 2
  CHECK_TIMEOUT = 1
  POLL_TIMEOUT = 2
  MaxBytes = 1
INVARIANTS
  TypeOK
  BytesCountedOnce
  TimeoutIsOwnWork

PROPERTY RequestsEnd
