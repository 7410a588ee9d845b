SPECIFICATION StoresSpec
CHECK_DEADLOCK FALSE
CONSTANTS
  k1 = k1
  k2 = k2
  p1 = p1
  p2 = p2
  N = 3
  Keys <- MCKeys
  KeyOf <- MCKeyOf
  MonthlyBudget <- MCMonthlyBudget
  RateLimitRPM <- MCRateLimitRPM
  Window = 1
  Estimates <- MCEstimates
  Costs <- MCCosts
  MaxEstimate = 2
  MaxTime = 2
  MaxRestarts = 1
  SharedKeyOf <- MCSharedKeyOf
  SharedBudget <- MCSharedBudget
  SharedRPM <- MCSharedRPM
  SharedWindow = 1
  SharedEstimates <- MCSharedEstimates
  SharedCosts <- MCSharedCosts
  Replicas = {p1, p2}
  ReplicaOf <- MCReplicaOf
  SharedMaxTime = 1
  MaxMonth = 1
  MaxFaults = 2
CONSTRAINT
  OneMemoryStart
ACTION_CONSTRAINT
  InOrder
  TwoAtATime
INVARIANTS
  SpendMatchesCharges
  CapExceededByOneHold
  SharedSpendMatchesCharges
PROPERTIES
  LedgerSpec
  SharedLedgerSpec
