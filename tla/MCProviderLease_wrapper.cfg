SPECIFICATION Spec
CONSTANTS
  Process = {p1}
  Info <- TokenInfo
  BeatInfo <- TokenBeat
  ServiceToken <- ConsoleToken
  RegisterTime = 5
  CallTime = 1
  SleepTime = 4
  SettleTime = 1
  MaxLost = 1
  MaxStarts = 2
  None = None
INVARIANTS
  HealthyWhileBeating
