CONSTANTS
  Tokens <- MCTokens
  Characters <- MCCharacters
  Blanks <- MCBlanks
  Decode <- MCDecode
  MaxTokens = 5
  Modes = {"auto", "python", "native", "invalid"}
  Paths = {"none", "empty", "file"}
  Conditions = {"absent", "unloadable", "incompatible", "good"}
  None = None
  Commands = {"generate", "benchmark", "serve", "library"}
  Devices = {"auto", "cuda", "cuda:0"}
  PairTokens = {t1, t2}
  Ids = {0, 1, 2}
  Sizes = {2, 3}
  BlockSizes = {0, 2}
  BlockCounts = {0, 1}
  Positions = {2, 3}
  MaxPrompts = 3
  MaxWarmups = 2
  MaxMeasured = 3
  MaxCallbacks = 2
  VocabSize = 3
  Mass = 4
  Uniforms = 12
SPECIFICATION CommandSpec
INVARIANTS
  NoQuietChange
  GoesTogether
  FairComparison
  ShownText
  ExactProposal
  OutcomesAreTheDraws
CHECK_DEADLOCK FALSE
