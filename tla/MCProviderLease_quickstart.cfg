SPECIFICATION Spec
CONSTANTS
  Process = {p1, p2}
  Info <- QuickstartInfo
  BeatInfo <- QuickstartBeat
  ServiceToken <- QuickstartToken
  RegisterTime = 5
  CallTime = 1
  SleepTime = 4
  SettleTime = 1
  MaxLost = 1
  MaxStarts = 2
  None = None
SYMMETRY Symmetry
INVARIANTS
  TypeOK
  HealthyWhileBeating
