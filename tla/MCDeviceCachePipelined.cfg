CONSTANTS
  Blank = Blank
  Unset = Unset
  Entries = {e1}
  NumBlocks = 2
  BlockSize = 1
  MaxTokens = 2
  Waits = FALSE
  Faults = {}
  MaxTransfers = 2
  MaxFailed = 1
  MaxAttentions = 1
SPECIFICATION Spec
INVARIANT
  Uploaded
