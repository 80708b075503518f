SPECIFICATION Spec
CONSTANTS
  Consumer = {c1}
  Instance <- TwoInstances
  Lookup = {"GetOneInstance"}
  Query <- RouteQuery
  ReportKey <- ByAddress
  Rule <- RouteRule
  Threshold = 2
  Volume = 3
  Percent = 50
  MaxReports = 3
  SleepWindow = 1
  Trials = 2
  Successes = 2
INVARIANTS
  RoutedBySource
