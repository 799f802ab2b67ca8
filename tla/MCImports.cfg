\* Two statements that overlap in one of two movements that look alike, with or
\* without references.  People may stop at any time.
SPECIFICATION Pipeline
CONSTANTS
  coffee = coffee same = same jan = jan feb = feb mar = mar apr = apr r1 = r1 r2 = r2
  Nothing = Nothing NoRef = NoRef
  Workers = {w1}
  Moves = {coffee, same}
  Text <- Looks
  Amount <- Looks
  Files = {jan, feb, mar, apr}
  Rows <- Statements
  Strict = {mar, apr}
  Entries = {e1, e2, e3}
SYMMETRY Alike
INVARIANTS TypeOK EvidenceAgrees BookedOnce NoRingOfDuplicates
PROPERTY CompletedNotReplayed
CHECK_DEADLOCK FALSE
