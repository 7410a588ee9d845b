SPECIFICATION Spec
CHECK_DEADLOCK FALSE
CONSTANTS
  PriceBook <- MCPriceBook
  DaysPerMonth = 3
  Emails <- MCEmails
  Preferred = {"ann@a"}
  Demo = {"x@demo"}
  Records <- LariRecords
  PortalLines <- LariLines
  ImportRows <- LariRows
  GatewayCalls <- LariCalls
  Outcomes <- LariOutcomes
  Risks <- LariRisks
  Mappings <- MCMappings
  Entities = {}
  FixedCosts <- LariFixed
  Changes = {}
  TierChanges = {}
  Starts <- LariStarts
  Ranges <- LariRanges
  Today = 6
  Horizon = 3
  TrendDays = 3
  Recency <- MCRecency
  Families <- MCFamilies
  ChartUsers = 1
  TableUsers = 2
  PageSize = 2
  MaxWrites = 3
PROPERTIES
  CfoBreakdownsAddUp
  RecommendationsBacked
  ReportAddsUp
