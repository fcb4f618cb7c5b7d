CONSTANTS
  a = a
  b = b
  NoOne = NoOne
  Connections = {c1}
  Tokens <- TwoTokens
  Prompts <- OnePrompt
  MaxNewTokens = 1
  MaxRequests = 2
SPECIFICATION Spec
INVARIANTS
  AnswersAreJson
CHECK_DEADLOCK FALSE
