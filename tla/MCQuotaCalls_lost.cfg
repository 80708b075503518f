SPECIFICATION Spec
CONSTANTS
  Script = {s1, s2}
  Query <- Queries
  TypeKey = "response_type"
  Rule <- ServiceRule
  MaxCalls = 3
  MaxStarts = 1
  None = None
CHECK_DEADLOCK FALSE
INVARIANTS
  AnswerDelivered
