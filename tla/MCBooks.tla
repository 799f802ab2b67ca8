------------------------------- MODULE MCBooks -------------------------------
(***************************************************************************)
(* What the books owe their owner, on small instances of the components     *)
(* that write or read them: templates and schedules (Templates), transfers  *)
(* and revaluations (LongOperations), the chart with its reports (Chart,    *)
(* Reports), the change of currency (Currency) and the opening of an older  *)
(* file (Migrations).  focus names the one that a behaviour is about; the   *)
(* variables of the others are Unused.                                      *)
(***************************************************************************)
EXTENDS Migrations, Sequences, TLC

CONSTANTS Home, Foreign, NoRate, Unstated, Refused,  \* see Amounts
          checking, uncategorized, exchange, food, trip, \* accounts
          booker,                                        \* a process
          Unused

(* The sizes of the components that BooksProofs proves about. *)
CONSTANTS Recurring, Schedules, Intervals, FirstDays, FinalDays, Horizon, PerRun,
          Occurring, TemplateVersions,                   \* templates with a schedule
          Owners, OwnedRows,                             \* entities, and entries of theirs
          ChartNames, ChartUnits, ChartHome, ChartPayees, ChartTags, ChartDays, Remaps,
          MostAccounts, MostEntries, MostEdits           \* the chart

ASSUME RowsAreCounted == OwnedRows \in Nat

VARIABLES focus,
  template, entry, lock, run, booked,       \* Templates
  journal, last, priced, shut, op,          \* LongOperations
  books, edits,                             \* Chart
  vault, shown, files, changes              \* Currency

(* Decimals of two commodities. *)
Decimals == [eur |-> 1, jpy |-> 0]

(***************************************************************************)
(* Templates: amounts of one entry, and one schedule                       *)
(***************************************************************************)

Line(a, method, n, of) == [account |-> a, method |-> method, value |-> n, of |-> of]

Halves == <<Line(checking, "input", Unstated, 0), Line(food, "percent_of", -50, 1),
            Line(food, "percent_of", -50, 1)>>
(* A bill in thirds, with a tip and a foreign part. *)
Thirds == <<Line(checking, "input", -10, 0), Line(food, "percent_of", -33, 1),
            Line(trip, "percent_of", -33, 1), Line(food, "percent_of", -34, 1),
            Line(food, "percent_of", 10, 1), Line(uncategorized, "balance", Unstated, 0)>>
Fixed  == <<Line(checking, "fixed", -3, 0), Line(uncategorized, "balance", Unstated, 0)>>
Asked  == <<Line(checking, "input", -2, 0), Line(uncategorized, "balance", Unstated, 0)>>
(* Lines that cannot be resolved. *)
Ring   == <<Line(checking, "input", -3, 0), Line(food, "percent_of", 10, 3), Line(food, "percent_of", 10, 2)>>

InUse   == {checking, uncategorized, food, trip, exchange}
UnitOf  == [a \in InUse |-> IF a = trip THEN Foreign ELSE Home]

Amount == INSTANCE Templates WITH
  Accounts <- InUse, Commodity <- UnitOf, FxGainLoss <- exchange, Rate <- <<3, 2>>, MaxMinor <- 9,
  Bank <- checking, Suspense <- uncategorized,
  Templates <- {1}, Layouts <- {Halves, Thirds, Asked, Fixed, Ring},
  Every <- {0}, Starts <- {1}, Ends <- {0}, Auto <- {TRUE}, LastDay <- 1, Limit <- 1,
  Entries <- {1}, MaxVersion <- 1, Values <- {-7, -5, -4, -1, 5}, ByHand <- {1},
  Legs <- {<<Unstated>>, <<1, Unstated>>, <<2, 1>>, <<-1, Unstated>>}

Schedule == INSTANCE Templates WITH
  Accounts <- InUse, Commodity <- UnitOf, FxGainLoss <- exchange, Rate <- <<3, 2>>, MaxMinor <- 9,
  Bank <- checking, Suspense <- uncategorized,
  Templates <- Recurring, Layouts <- Schedules,
  Every <- Intervals, Starts <- FirstDays, Ends <- FinalDays, Auto <- BOOLEAN, LastDay <- Horizon,
  Limit <- PerRun, Entries <- Occurring, MaxVersion <- TemplateVersions,
  Values <- {}, ByHand <- {}, Legs <- {}

OnlyFixed == {Fixed}

(***************************************************************************)
(* Transfers and revaluations                                              *)
(***************************************************************************)

Operation == INSTANCE LongOperations WITH
  Processes <- {booker}, Entities <- Owners, MaxEntry <- OwnedRows, Alone <- TRUE, Mortal <- FALSE,
  entry <- journal

(***************************************************************************)
(* The chart, and the reports on some charts and journals                  *)
(***************************************************************************)

Accounts == INSTANCE Chart WITH
  Names <- ChartNames, Units <- ChartUnits, Home <- ChartHome, Payees <- ChartPayees,
  Tags <- ChartTags, Dates <- ChartDays, Moves <- Remaps,
  MaxAccount <- MostAccounts, MaxEntry <- MostEntries, MaxEdits <- MostEdits, vault <- books

(* Both directions, and an account that the remap itself creates. *)
Pairs == {<<3, 4>>, <<4, 3>>, <<4, 5>>, <<5, 4>>}

Report == INSTANCE Chart WITH
  Names <- {"a"}, Units <- {"eur"}, Home <- "eur", Payees <- {"p"}, Tags <- {"t"}, Dates <- {1, 2},
  Moves <- {}, MaxAccount <- 4, MaxEntry <- 2, MaxEdits <- 0, vault <- books

Charts ==
  {[Report!Fresh EXCEPT ![4].parent = p, ![3].class = "fixed", ![2].parent = h] : p \in {0, 3}, h \in {0, 1}}

Payments(accounts, n, ts) ==
  {Report!Entry(accounts, n, a, d, s, "p", ts) : a \in 2..4, d \in {1, 2}, s \in {"draft", "posted"}}

Budgets ==
  {Report!NoBudget, [account |-> 3, class |-> "any", tag |-> "any", from |-> 1, to |-> 2],
   [account |-> 0, class |-> "fixed", tag |-> "t", from |-> 2, to |-> 2]}

Reported ==
  /\ edits = 0
  /\ \E tree \in Charts, budget \in Budgets :
     \E e \in Payments(tree, 1, {"t"}), f \in Payments(tree, 2, {}) :
       books = [accounts |-> tree, entries |-> <<e, f>>, rule |-> 0, template |-> 0, budget |-> budget]

(***************************************************************************)
(* The change of currency                                                  *)
(***************************************************************************)

Quote(on, rate, import) == [from |-> "eur", to |-> "usd", on |-> on, rate |-> rate, import |-> import]

(* On day 9 the first quote is just too old. *)
Change == INSTANCE Currency WITH
  Currencies <- {"eur", "usd"}, First <- "eur", Banks <- [bank |-> "eur", card |-> "usd"],
  Expenses <- {food, trip}, Days <- {9}, Paid <- {3}, MaxEntry <- 3, MaxEdits <- 3, MaxFiles <- 2,
  Quotes <- {Quote(1, <<3, 2>>, FALSE), Quote(9, <<5, 2>>, FALSE), Quote(9, <<7, 2>>, TRUE)},
  edits <- changes

(***************************************************************************)
(* The composition                                                         *)
(***************************************************************************)

templates  == <<template, entry, lock, run, booked>>
operations == <<journal, last, priced, shut, op>>
chart      == <<books, edits>>
currency   == <<vault, shown, files, changes>>
all        == <<focus, vars, templates, operations, chart, currency>>

NoTemplates  == template = Unused /\ entry = Unused /\ lock = Unused /\ run = Unused /\ booked = Unused
NoOperations == journal = Unused /\ last = Unused /\ priced = Unused /\ shut = Unused /\ op = Unused
NoChart      == books = Unused /\ edits = Unused
NoCurrency   == vault = Unused /\ shown = Unused /\ files = Unused /\ changes = Unused
NoFile       ==
  /\ version = Unused /\ schema = Unused /\ unit = Unused /\ value = Unused /\ first = Unused
  /\ tags = Unused /\ edited = Unused /\ read = Unused /\ done = Unused

Begins ==
  \/ focus = "amounts" /\ Amount!Init /\ NoOperations /\ NoChart /\ NoCurrency /\ NoFile
  \/ focus = "schedule" /\ Schedule!Init /\ NoOperations /\ NoChart /\ NoCurrency /\ NoFile
  \/ focus = "operations" /\ Operation!Init /\ NoTemplates /\ NoChart /\ NoCurrency /\ NoFile
  \/ focus = "chart" /\ Accounts!Init /\ NoTemplates /\ NoOperations /\ NoCurrency /\ NoFile
  \/ focus = "reports" /\ Reported /\ NoTemplates /\ NoOperations /\ NoCurrency /\ NoFile
  \/ focus = "currency" /\ Change!Init /\ NoTemplates /\ NoOperations /\ NoChart /\ NoFile
  \/ focus = "file" /\ Init /\ NoTemplates /\ NoOperations /\ NoChart /\ NoCurrency

(* No schedule is due in the first instance, and nothing applied by hand in the second. *)
AmountStep ==
  /\ focus = "amounts" /\ (Amount!Manage \/ Amount!ApplyOnce \/ Amount!Beside)
  /\ UNCHANGED <<focus, vars, operations, chart, currency>>

ScheduleStep ==
  /\ focus = "schedule" /\ (Schedule!Manage \/ Schedule!Schedule \/ Schedule!Beside)
  /\ UNCHANGED <<focus, vars, operations, chart, currency>>

OperationStep == focus = "operations" /\ Operation!Next /\ UNCHANGED <<focus, vars, templates, chart, currency>>
ChartStep     == focus = "chart" /\ Accounts!Next /\ UNCHANGED <<focus, vars, templates, operations, currency>>
CurrencyStep  == focus = "currency" /\ Change!Next /\ UNCHANGED <<focus, vars, templates, operations, chart>>
FileStep      == focus = "file" /\ Next /\ UNCHANGED <<focus, templates, operations, chart, currency>>

Work == AmountStep \/ ScheduleStep \/ OperationStep \/ ChartStep \/ CurrencyStep \/ FileStep

Books == Begins /\ [][Work]_all

(***************************************************************************)
(* Properties; those of one component are stated in its module.            *)
(***************************************************************************)

(* Every variable has its type. *)
TypeIsRight ==
  CASE focus = "amounts"    -> Amount!TypeOK
    [] focus = "schedule"   -> Schedule!TypeOK
    [] focus = "operations" -> Operation!TypeOK
    [] focus = "file"       -> TypeOK
    [] OTHER -> TRUE

(* Templates generate balanced entries, with fair shares, that keep the amount of the
   statement line they were made from (templates.rs, splits.rs, rules.rs). *)
EntriesBalance ==
  focus = "amounts" => Amount!EntriesBalance /\ Amount!SharesAreFair /\ Amount!StatementKept

(* An occurrence of a schedule is in the journal at most once, however runs of
   templates.rs fail and are repeated. *)
EachDateOnce == focus = "schedule" => Schedule!EachDateOnce

(* An operation of several transactions is whole in the end: no one-sided transfer is
   left by journal.rs, and every hash chain verifies after rates.rs. *)
OperationsAreWhole ==
  focus = "operations" => Operation!TransfersAreWhole /\ Operation!ChainsVerify

(* An older file keeps its amounts, gets the schema its version says, and tags on its
   reversals, although opening it dies between any two migrations of db.rs. *)
UpgradeKeepsBooks == focus = "file" => ValuesKept /\ SchemaIsTheVersion /\ ReversalsAreTagged

(* No change of the chart leaves anything that names an account that is gone
   (accounts.rs, budgets.rs). *)
NothingDangles == focus = "chart" => Accounts!NothingDangles

(* Reports of one set of books agree with one another (reports.rs, budgets.rs). *)
ReportsAddUp == focus = "reports" => Report!ReportsAddUp

(* Entries balance and reversals and refunds cancel what they undo, in every currency
   the books have been kept in (currency_migration.rs). *)
BooksAgree == focus = "currency" => Change!BooksAgree

(* A change of currency applies what its preview showed, and values every posting by its
   own evidence or the historical rate (currency_migration.rs). *)
AppliedAsShown == [][focus = "currency" => Change!AppliesWhatWasShown /\ Change!UsesEvidence]_all

(* What is settled stays: the value of an entry in a closed period (rates.rs), the
   account of a reconciled posting (accounts.rs), the tags a person chose (tags.rs). *)
SettledStays ==
  [][/\ focus = "operations" => Operation!KeepsClosed
     /\ focus = "chart" => Accounts!KeepsEvidence
     /\ focus = "file" => KeepsTagEdits]_all
==============================================================================
