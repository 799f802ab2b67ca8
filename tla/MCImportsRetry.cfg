\* One file of two lines, retried; no symmetry, for liveness.
SPECIFICATION Recovery
CONSTANTS
  coffee = coffee same = same jan = jan feb = feb mar = mar apr = apr r1 = r1 r2 = r2
  Nothing = Nothing NoRef = NoRef
  Workers = {w1}
  Moves = {coffee, same}
  Text <- Looks
  Amount <- Looks
  Files = {mar}
  Rows <- Statements
  Strict = {}
  Entries = {e1, e2, e3}
PROPERTY RetrySettles
CHECK_DEADLOCK FALSE
