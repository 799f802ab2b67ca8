\* Bounds: see the instances in MCEdge.  Files, edits and deaths run out, so behaviours
\* stop.
SPECIFICATION Edge
CONSTANTS
  Unused = unused Unstated = unstated Refused = refused NoPayee = nopayee NoAccount = noaccount
  NoRef = noref Nil = nil
  a = a b = b t1 = t1 e1 = e1 e2 = e2 x = x y = y bank = bank
  eur = eur usd = usd m1 = m1 m2 = m2
  csv = csv api = api l1 = l1 l2 = l2 l3 = l3 food = food suspense = suspense
  p = p q = q word = word
  w1 = w1 w2 = w2 coffee = coffee may = may jun = jun r1 = r1 b1 = b1 b2 = b2
  p1 = p1 p2 = p2
  BankRecords = {1, 2, 3, 4, 5, 6} ListedOn <- OneThenFive LastListed = 2 WindowDays = 1 PageSize = 2 MaxPages = 2
  MaxGranted = 2 Served = {a, b} Units = {eur, usd} Home <- Own Reaches <- OneOrBoth
  Movements = {m1, m2} AccountOf <- Holder UnitOf <- InUnit BookedOn <- Day Withheld = {2} MaxFiles = 2 MaxFlows = 1
  Reported = {l1, l2, l3} Reporter <- Sender Spent <- Minus Received = {1} LastBooked = 1 NearDays = 1 MaxBooked = 3 Purposes = {food}
  Vaults = {1} Cats = {food} Given <- GivenFood Wordings = {word} Amounts = {1} MaxListed = 2 MaxAudit = 3
  Kinds = {"csv", "tracker", "payee", "grant", "revoke", "split"} MaxFields = 1 MaxBooks = 2 Typed <- Amends MaxSplits = 2
  People = {p, q} Words = {word} MaxNamed = 2 MaxGrouped = 3
  Messages = {1, 2}
  Contents <- Attached
  Broken = {}
  Statements = {"statement"}
  Pollers = {p1, p2}
  MaxDeaths = 1
SYMMETRY Alike
INVARIANTS TypeIsRight OneClaim NothingIsLost DoneOnce
PROPERTIES PeopleDecide PayeesAreWhole
CHECK_DEADLOCK FALSE
