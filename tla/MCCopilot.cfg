SPECIFICATION FairSpec
CONSTANTS
  Today = 5
  DaysPerMonth = 3
  SeatPrice = 6
  IncludedCredits = 3
  CreditValue = 1
  LineValue = 2
  TurnValue = 1
  ActiveDays = 2
  LowUsageDays = 1
  InactiveDays = 3
  HighRoi = 100
  Peers = 5
  NearLimit = 85
  ManySeats = 3
  Worlds <- MCWorlds
  MaxFaults = 1
  MaxManual = 1
ACTION_CONSTRAINT Scenario
INVARIANT BilledOncePerTeam
PROPERTIES QuietSyncAgrees Converges PagesAgree
CHECK_DEADLOCK FALSE
