SPECIFICATION SdkFairSpec
CHECK_DEADLOCK FALSE
CONSTANTS
  t1 = t1
  t2 = t2
  h1 = h1
  h2 = h2
  none = none
  Calls = {t1, t2}
  Spans = {}
  Valid = {t1, t2}
  BufferSize = 1
  BatchMax = 1
  Retries = 1
  Requests = {h1, h2}
  MaxInflight = 1
  MaxBatch = 2
  NoRequest = none
  SdkBatch = 2
  MaxSends = 2
CONSTRAINTS
  OneGateway
ACTION_CONSTRAINTS
  InOrder
  Scenario
INVARIANTS
  TracesAccounted
PROPERTIES
  EveryTraceSettled
