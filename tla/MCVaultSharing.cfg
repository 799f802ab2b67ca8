\* One grant with up to four deliveries, so that bundles and receipts of every
\* age are replayed; a second one, for whose delivery a rotation waits; one
\* edit of the books and one further key, which a crash may cost.
\* People may stop at any time.
CONSTANTS
  g1 = g1
  g2 = g2
  Grants = {g1, g2}
  Notice = Notice
  Nothing = Nothing
  MaxEdits = 1
  MaxRevisions <- Uneven
  MaxKeys = 1
SPECIFICATION Spec
INVARIANTS
  TypeOK
  KeysFollow
  NeverDiverge
  ReplicaServesCheckpoint
PROPERTY Implements
CHECK_DEADLOCK FALSE
