SPECIFICATION FairSpec
CHECK_DEADLOCK FALSE
CONSTANTS
  e1 = e1
  e2 = e2
  o1 = o1
  h1 = h1
  h2 = h2
  none = none
  Calls = {e1, e2}
  Spans = {o1}
  Valid = {e1, e2}
  BufferSize = 1
  BatchMax = 2
  Retries = 1
  Requests = {h1, h2}
  MaxInflight = 1
  MaxBatch = 2
  NoRequest = none
ACTION_CONSTRAINTS
  InOrder
  Overlap
INVARIANTS
  GateExact
  AcceptedLossMeasured
  FlushedIsAccounted
PROPERTIES
  EveryEventFlushed
