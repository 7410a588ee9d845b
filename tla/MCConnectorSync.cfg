SPECIFICATION FairSpec
CONSTANTS
  c1 = c1
  Connectors <- MCConnectors
  Kinds = {"cursor", "other", "ado"}
  Records <- MCRecords
  Backfill = 2
  MaxDaysPerRequest = 1
  IncrementalDays = 2
  MaxAttempts = 2
  MaxPages = 2
  MaxDay = 2
  MaxCount = 2
  MaxEvents = 1
INVARIANTS
  LedgerBacked
PROPERTIES
  ErasedOnlyWhenComplete
  StuckSyncRecovered
  BilledUsageStored
CHECK_DEADLOCK FALSE
