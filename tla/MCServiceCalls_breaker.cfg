SPECIFICATION FairSpec
CONSTANTS
  Consumer = {c1, c2}
  Instance <- TwoInstances
  Lookup = {"GetOneInstance", "GetInstances"}
  Query <- PlainQuery
  ReportKey <- AllKeys
  Rule <- NoRule
  Threshold = 2
  Volume = 3
  Percent = 50
  MaxReports = 3
  SleepWindow = 1
  Trials = 2
  Successes = 2
INVARIANTS
  TypeOK
  FailuresCutOff
PROPERTIES
  UpAgain
  CutOffNotListed
  CutOffForCause
