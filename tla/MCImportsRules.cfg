\* Expected to be violated.
SPECIFICATION PlainSpec
CONSTANTS
  coffee = coffee same = same jan = jan feb = feb mar = mar apr = apr r1 = r1 r2 = r2
  Nothing = Nothing NoRef = NoRef
  Workers = {w1}
  Moves = {coffee, same}
  Text <- Looks
  Amount <- Looks
  Files = {jan, feb, mar, apr}
  Rows <- Statements
  Strict = {mar, apr}
  Entries = {e1, e2, e3}
SYMMETRY Alike
INVARIANT OverlapAddsNothing
CHECK_DEADLOCK FALSE
