CONSTANTS
  Blank = Blank
  Unset = Unset
  Entries = {e1, e2}
  NumBlocks = 2
  BlockSize = 1
  MaxTokens = 2
  Waits = TRUE
  Faults = {"stage"}
  MaxTransfers = 2
  MaxFailed = 1
  MaxAttentions = 1
SPECIFICATION Spec
SYMMETRY Interchangeable
INVARIANTS
  Uploaded
  AttentionReads
