CONSTANTS
  Vocabulary = {t1, t2}
  Mass = 3
  Seen <- LastToken
  MaxEmitted = 3
  InitialDraft = 2
  MinDraft = 1
  MaxDraft = 3
  None = None
  Fails = Fails
SPECIFICATION LawSpec
INVARIANTS
  LawOfTheTarget
CHECK_DEADLOCK FALSE
