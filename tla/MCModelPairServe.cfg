CONSTANTS
  None = None
  Commands = {"serve"}
  Devices = {"auto", "cuda", "cuda:0", "cpu"}
  Tokens = {t1, t2}
  Ids = {0, 1, 2}
  Sizes = {2, 3}
  BlockSizes = {1}
  BlockCounts = {1}
  Positions = {2, 3}
SPECIFICATION Spec
INVARIANT
  ReportsErrors
CHECK_DEADLOCK FALSE
