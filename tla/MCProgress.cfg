\* No symmetry, for liveness.  Requests, grants and days run out, so behaviours stop.
SPECIFICATION System
CONSTANTS
  Clients = {c1, c2}
  Jobs = {j1, j2}
  NoJob = nojob
  Nobody = nobody
  MaxRequests = 2
  MaxEdits = 1
  MaxUnsaved = 1
  MaxStops = 1
  MaxFaults = 2
  g = g Notice = Notice Nothing = Nothing
  Home = home Foreign = foreign NoRate = norate Unstated = unstated Refused = refused
  checking = checking uncategorized = uncategorized exchange = exchange
INVARIANTS OneOperation CutoffHeld
PROPERTIES JobEnds DeliverySettles DueIsBooked
CHECK_DEADLOCK FALSE
