\* Expected to be violated.
CONSTANTS
  Entries = {e1, e2}
  Cats = {suspense, food}
  Suspense = suspense
  MaxDate = 1
  Qtys = {1}
  Rate = 1
  NoEntry = NoEntry
SYMMETRY EntrySymmetry
SPECIFICATION Spec
INVARIANT SeqWithinCount
CHECK_DEADLOCK FALSE
