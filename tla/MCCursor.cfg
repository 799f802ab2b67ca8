\* Expected to be violated.
SPECIFICATION Spec
CONSTANTS
  payment = payment checking = checking NoAccount = noaccount
  Txs = {payment}
  DayOf <- FirstDay
  MaxClock = 3
  MaxPulls = 1
  Sinces = {2}
  Cutoffs = {0}
  Exports = {}
  Source <- NoExports
  Shape <- NoExports
  Generic = {}
  Accounts = {checking}
INVARIANT NothingLost
CHECK_DEADLOCK FALSE
