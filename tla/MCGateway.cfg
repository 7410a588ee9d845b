SPECIFICATION Spec
CHECK_DEADLOCK FALSE
CONSTANTS
  k1 = k1
  p1 = p1
  p2 = p2
  m1 = m1
  m2 = m2
  t1 = t1
  t2 = t2
  N = 2
  Keys = {k1}
  KeyOf <- MCKeyOf
  MonthlyBudget <- MCMonthlyBudget
  RateLimited = {k1}
  Shape <- MCShape
  Routed = {m1}
  Policies = {p1, p2}
  KeyRows <- MCKeyRows
  PolicyRows = {"block", "redact", "disabled"}
  ToolRows = {{}, {t2}}
  StartTables <- MCStartTables
  Prices = {1, 2}
  Tokens = {3}
  DefaultReserve = 1
  MaxChanges <- MCMaxChanges
ACTION_CONSTRAINT
  ScenarioBounds
INVARIANTS
  SpendMatchesEvents
  BlockedStaysInside
  StalenessBounded
PROPERTY
  HoldsSettle
