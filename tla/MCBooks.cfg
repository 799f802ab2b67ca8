\* Bounds: see the instances in MCBooks.  Entries, edits and versions run out, so
\* behaviours stop.
SPECIFICATION Books
CONSTANTS
  Home = home Foreign = foreign NoRate = norate Unstated = unstated Refused = refused
  checking = checking uncategorized = uncategorized exchange = exchange food = food trip = trip
  booker = booker Unused = unused
  Recurring = {1} Schedules <- OnlyFixed Intervals = {1} FirstDays = {1} FinalDays = {0, 2}
  Horizon = 2 PerRun = 1 Occurring = {1, 2} TemplateVersions = 1
  Owners = {me, firm} OwnedRows = 3
  ChartNames = {"a"} ChartUnits = {"eur"} ChartHome = "eur" ChartPayees = {"p"} ChartTags = {"t"}
  ChartDays = {1} Remaps <- Pairs MostAccounts = 6 MostEntries = 2 MostEdits = 3
  Processes = {p1}
  Last = 6
  Oldest = 1
  Script = {1, 2, 6}
  Rescale = 3
  RepairTags = 4
  RepairChains = 5
  Digits = 2
  Precision <- Decimals
  NoUnit = NoUnit
  Figures = {r1}
  OldValues = {0, 10, 105}
  Chain = 2
  Labels = {a, b}
INVARIANTS TypeIsRight EntriesBalance EachDateOnce OperationsAreWhole UpgradeKeepsBooks NothingDangles ReportsAddUp BooksAgree
PROPERTIES AppliedAsShown SettledStays
CHECK_DEADLOCK FALSE
