\* Expected to be violated.
CONSTANTS
  g1 = g1
  g2 = g2
  Grants = {g1}
  Notice = Notice
  Nothing = Nothing
  MaxEdits = 0
  MaxRevisions <- Two
  MaxKeys = 0
SPECIFICATION Spec
INVARIANT PendingCanBeResent
CHECK_DEADLOCK FALSE
