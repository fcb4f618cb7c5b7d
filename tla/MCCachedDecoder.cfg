CONSTANTS
  Tokens <- MCTokens
  Eos = "end"
  Prompt <- MCLongPrompt
  MaxNew = 5
  InitialDraft = 3
  MinDraft = 1
  MaxDraft = 4
  Dynamic = TRUE
  P <- MCTarget
  Q <- MCDraft
  Cachings <- MCCachings
  Null = Null
  Leftovers <- MCLeftovers
  MaxContext = 7
  Containers = {"object", "opaque"}
  Mirrored = TRUE
  Reference = TRUE
  NumBlocks = 4
  BlockSize = 2
SPECIFICATION CachedSpec
INVARIANTS
  TypeOK
  OutputIsSound
  Ledger
  DrawsAccounted
  OneTargetTokenPerRound
  RowsAreOfTheRound
  CacheServes
PROPERTIES
  WindowFollowsVerdict
  ImplementsTargetOnly
  ImplementsDecoder
  Terminates
CHECK_DEADLOCK FALSE
