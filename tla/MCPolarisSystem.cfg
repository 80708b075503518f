SPECIFICATION FairHistorySpec
CONSTANTS
  Process = {p1}
  Info <- EchoInfo
  BeatInfo <- EchoBeat
  ServiceToken <- EchoToken
  RegisterTime = 1
  CallTime = 1
  SleepTime = 1
  SettleTime = 0
  MaxLost = 1
  MaxStarts = 1
  App = {a1}
  Method = {"InitService", "GetOneInstance", "GetInstances", "GetAllInstances"}
  Query <- EchoQuery
  LookupTime = 1
  RefreshTime = 1
  ContactTime = 2
  MaxRuns = 2
  Home <- EchoServer
  Others <- OtherInstance
  None = None
INVARIANTS
  TypeOK
PROPERTIES
  SilenceShows
  GhostsForgotten
  HealthyFound
  BeatsAnswered
  GoneForgotten
