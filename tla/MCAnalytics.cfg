SPECIFICATION Spec
CHECK_DEADLOCK FALSE
CONSTANTS
  PriceBook <- MCPriceBook
  DaysPerMonth = 3
  Emails <- MCEmails
  Preferred = {"ann@a"}
  Demo = {"x@demo"}
  Records <- MCRecords
  PortalLines <- MCPortalLines
  ImportRows <- MCImportRows
  GatewayCalls <- MCGatewayCalls
  Outcomes = {}
  Risks = {}
  Mappings <- MCMappings
  Entities = {}
  FixedCosts <- MCFixedCosts
  Changes <- MCChanges
  TierChanges <- MCTierChanges
  Starts <- MCStarts
  Ranges <- MCRanges
  Today = 6
  Horizon = 3
  TrendDays = 3
  Recency <- MCRecency
  Families <- MCFamilies
  ChartUsers = 1
  TableUsers = 2
  PageSize = 2
  MaxWrites = 3
PROPERTIES
  ReconciledTotalsAgree
  SeatChargesAreCarried
  DirectoryShowsEveryone
  OverviewAddsUp
