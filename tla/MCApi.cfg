SPECIFICATION ServicesSpec
CHECK_DEADLOCK FALSE
CONSTANTS
  ann = ann
  bob = bob
  Batches <- MCBatches
  Emails <- MCEmails
  Preferred <- MCPreferred
  LegacyRows <- MCLegacyRows
  LastDay = 2
  MaxUploads = 2
  MaxEvents = 1
  N = 2
  NameOf <- MCNames
  PreferredPeople = {}
  TeamIds = {"t1", "t2", "t3"}
  TeamNames = {"sales", "support", "staff"}
  Clients = {"client"}
  Operations <- MCSerial
  MaxRequests = 5
INVARIANTS
  GroupsMirrored
  DepartmentWins
  SomeoneSurvives
  OneRunPerDay
  DeletedRunsGone
  RowsTraceable
