CONSTANTS
  a = a
  b = b
  NoOne = NoOne
  Connections = {c1, c2}
  Tokens <- TwoTokens
  Prompts <- OnePrompt
  MaxNewTokens = 2
  MaxRequests = 2
SPECIFICATION Spec
INVARIANTS
  TypeOK
  Isolated
  LockIsHeld
PROPERTIES
  EveryRequestServed
  HealthServed
CHECK_DEADLOCK FALSE
