CONSTANTS
  Null = Null
  Tokens = {t1, t2}
  MaxContext = 5
  Retained = 2
  Containers = {"object"}
  Mirrored = FALSE
  Reference = FALSE
  NumBlocks = 2
  BlockSize = 2
SPECIFICATION Spec
SYMMETRY Interchangeable
INVARIANT
  RowsMatch
