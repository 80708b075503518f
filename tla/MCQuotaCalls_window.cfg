SPECIFICATION Spec
CONSTANTS
  Script = {s1, s2, s3}
  Query <- Queries
  TypeKey = "response_type"
  Rule <- ServiceRule
  MaxCalls = 6
  MaxStarts = 2
  None = None
SYMMETRY Symmetry
CHECK_DEADLOCK FALSE
INVARIANTS
  TypeOK
  GrantedWithinQuota
  AccountsSettled
PROPERTIES
  ImplementsContract
