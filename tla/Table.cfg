SPECIFICATION FairSpec
CONSTANTS
  Rate = 2
  Axis = 8
  RowSamples <- MCRowSamples
  DataSamples <- MCDataSamples
  MaxPages = 12
  PollTimes <- MCPollTimes
  Columns = {"name", "live"}
  Items = {1, 2}
  PageSize = 1
  Interval = TRUE
  MaxClicks = 2
  MaxSearches = 1
  MaxLoads = 1
  MaxChanges = 1
  MaxTroubles = 1
  MaxFlight = 2
CHECK_DEADLOCK FALSE
INVARIANTS TableTypeOK SortKept RowsExact LinksReach ChartRight
PROPERTIES FreshEventually
