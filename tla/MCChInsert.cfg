SPECIFICATION Spec
CHECK_DEADLOCK FALSE
CONSTANTS
  p1 = p1
  p2 = p2
  good = good
  poison = poison
  stray = stray
  tool = tool
  Partitions = {p1, p2}
  Messages = {good, poison, stray, tool}
  Log <- MCLog
  MaxOffset = 2
  Tables = {"llm_calls", "agent_tool_calls"}
  Kind <- MCKind
  Poison = {poison}
  Retries = 1
  MaxFaults = 3
  MaxCopies = 2
INVARIANTS
  LossesExplained
PROPERTY
  ProgressOrHopeless
