CONSTANTS
  Bad = Bad
  Null = Null
  Blank = Blank
  Unset = Unset
  Seqs = {s1, s2}
  Tokens = {t1, t2}
  NumBlocks = 2
  BlockSize = 2
  MaxAppend = 2
  MaxCheckpoints = 1
  MaxTokens = 3
  MaxAttentions = 1
SPECIFICATION StorageSpec
SYMMETRY Interchangeable
INVARIANTS
  TypeOK
  ValidateInvariants
  NoAssertionError
  CheckpointRestores
  DeviceUploaded
  DeviceAttentionReads
PROPERTIES
  StablePlacement
  ImplementsStore
