CONSTANTS
  Null = Null
  Tokens = {t1, t2}
  MaxContext = 5
  Retained = 5
  Containers = {"object", "legacy", "opaque"}
  Mirrored = TRUE
  Reference = TRUE
  NumBlocks = 2
  BlockSize = 2
  MaxInput = 2
  MaxOrphans = 1
  Limit = 3
  Least = 2
  Significand = 8
  Greatest = 20
  MaxValue = 70
  Size = 2
SPECIFICATION AdapterSpec
INVARIANTS
  TypeOK
  RowsMatch
  Coherent
  MirrorTracks
  ReadsOwnInputs
  SoundEntry
PROPERTIES
  Returns
CHECK_DEADLOCK FALSE
