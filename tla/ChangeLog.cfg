SPECIFICATION FairSpec
CONSTANTS
  m1 = m1
  m2 = m2
  e1 = e1
  Ids = {m1, m2, e1}
  Followed = {m1, m2}
  CHANGES_HORIZON = 3
  MaxChanges = {1}
  MaxSequence = 3
  MaxNotes = 2
  MaxFailures = 1
INVARIANTS NothingMissed AnswerExact
PROPERTIES CatchesUp
