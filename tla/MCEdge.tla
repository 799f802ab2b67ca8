-------------------------------- MODULE MCEdge --------------------------------
(***************************************************************************)
(* What crosses the edge of the ledger, on small instances: evidence that   *)
(* comes in by mail (MailDelivery), by pulls and the inbox (Intake), from   *)
(* banks' own pages (Statements) and consents (Consents), and by two        *)
(* processes at once (Imports); and what people confirm after a preview:    *)
(* reconciliations (Reconcile), changes of payees (Payees), the terminal's  *)
(* review of drafts (Terminal) and its forms (Forms).  focus names the one  *)
(* that a behaviour is about; the variables of the others are Unused.       *)
(***************************************************************************)
EXTENDS MailDelivery, Integers, Sequences, TLC

CONSTANTS
  Unused, Unstated, Refused, NoPayee, NoAccount, NoRef, Nil,
  \* statements of several pages (Statements)
  BankRecords, ListedOn, LastListed, WindowDays, PageSize, MaxPages,
  \* consents (Consents), sources (Reconcile) and payees (Payees)
  MaxGranted, Served, Units, Home, Reaches, Movements, AccountOf, UnitOf, BookedOn, Withheld, MaxFiles, MaxFlows,
  Reported, Reporter, Spent, Received, LastBooked, NearDays, MaxBooked, Purposes,
  People, Words, MaxNamed, MaxGrouped,
  \* the terminal (Terminal, Forms)
  Vaults, Cats, Given, Wordings, Amounts, MaxListed, MaxAudit,
  Kinds, MaxFields, MaxBooks, Typed, MaxSplits,
  \* members of the other instances
  a, b, t1, e1, e2, x, y, bank,           \* accounts, records, exports, names
  eur, usd, m1, m2,                       \* currencies, bookings
  csv, api, l1, l2, l3, food, suspense,   \* sources, statement lines, categories
  p, q, word,                             \* payees, a word
  w1, w2, coffee, may, jun, r1, b1, b2    \* processes, a movement, files, a reference, entries

ASSUME NullIsNoAccount == NoAccount \notin {a, b}
ASSUME NamesAreNotEmpty == "" \notin {x, y}
ASSUME NilIsNothing == Nil \notin {b1, b2, <<may, 1>>, <<jun, 1>>} /\ Nil # "import"

VARIABLES focus,
  clock, recorded, conn, pull, wrote, folder, dropped, imports, work, cut, profile, active,  \* Intake
  list, always, from, win, page, expected, fetched, statement, outcome, changes,        \* Statements
  saved, valid, routes, files, asking, flow, heard, flows,                              \* Consents
  stored, line, status, amount, external, reconciled, job,                              \* Imports
  entry, row, lock, preview,                                                            \* Reconcile
  known, payee, payment, merged, shown,                                                 \* Payees
  rows, chart, open, price, audit, vaults, at, accounts, drafts, fresh, oldest, sel,
    capture, modal, commits,                                                            \* Terminal
  books, kind, fields, mapped, previewed, reviewing, done, applied,
    splits, total, step, editing, asked, inputs                                         \* Forms

(***************************************************************************)
(* Instances                                                               *)
(***************************************************************************)

(* Two messages with the same statement, one of them with a page beside it. *)
Attached == <<<<"statement", "page">>, <<"statement">>>>

(* Pulls of one transaction, and no exports. *)
Pulls == INSTANCE Intake WITH
  Txs <- {t1}, DayOf <- [t \in {t1} |-> 1], MaxClock <- 3, MaxPulls <- 2, Sinces <- {}, Cutoffs <- {0, 2},
  Exports <- {}, Source <- <<>>, Shape <- <<>>, Generic <- {}, Accounts <- {a},
  inbox <- folder, rows <- imports, open <- active

(* Two exports of one bank with different names. *)
Drops == INSTANCE Intake WITH
  Txs <- {}, DayOf <- <<>>, MaxClock <- 1, MaxPulls <- 0, Sinces <- {}, Cutoffs <- {0},
  Exports <- {e1, e2}, Source <- [e \in {e1, e2} |-> bank], Shape <- [e \in {e1, e2} |-> IF e = e1 THEN x ELSE y], Generic <- {},
  Accounts <- {a, b}, inbox <- folder, rows <- imports, open <- active

(* Any bookings, in pages of any size; checked are six over two intervals, two on a page. *)
Paged == INSTANCE Statements WITH
  Records <- BankRecords, DayOf <- ListedOn, LastDay <- LastListed, MaxChanges <- 1, rows <- statement

ASSUME PageConstants ==
  /\ BankRecords \subseteq Nat /\ IsFiniteSet(BankRecords) /\ ListedOn \in [BankRecords -> 1..LastListed]
  /\ LastListed \in Nat /\ WindowDays \in Nat \ {0} /\ PageSize \in Nat \ {0} /\ MaxPages \in Nat

OneThenFive == <<1, 2, 2, 2, 2, 2>>

(* Consents are numbered as they are saved. *)
Granted == 1..MaxGranted

(* Any bank; checked is one whose newer consent reaches both accounts. *)
Banks == INSTANCE Consents WITH
  Consents <- Granted, Accounts <- Served, DayOf <- BookedOn, Cutoffs <- Withheld, Crashes <- TRUE, pull <- asking

ASSUME BankConstants ==
  /\ MaxGranted \in Nat
  /\ Home \in [Served -> SUBSET Units] /\ Reaches \in [Granted -> SUBSET Served]
  /\ UnitOf \in [Movements -> Units] /\ Withheld \subseteq Nat

OneOrBoth == <<{a}, {a, b}>>
Own       == a :> {} @@ b :> {eur}
Holder    == [m \in {m1, m2} |-> a]
InUnit    == m1 :> eur @@ m2 :> usd
Day       == m1 :> 1 @@ m2 :> 2

(* A server and a command; one movement in two files. *)
Beside == INSTANCE Imports WITH
  Workers <- {w1, w2}, Moves <- {coffee}, Text <- [m \in {coffee} |-> coffee], Amount <- [m \in {coffee} |-> coffee],
  Files <- {may, jun}, Rows <- [f \in {may, jun} |-> <<[move |-> coffee, ref |-> r1]>>],
  Strict <- {}, Entries <- {b1, b2}, Nothing <- Nil

(* Any lines of any sources; checked are an export and two files of a bank's interface. *)
Sources == INSTANCE Reconcile WITH
  Lines <- Reported, SourceOf <- Reporter, Captured <- Spent, Booked <- Received, LastDate <- LastBooked,
  Window <- NearDays, MaxEntry <- MaxBooked, Categories <- Purposes, Suspense <- suspense, NoEntry <- 0, line <- row

ASSUME SourceConstants ==
  /\ IsFiniteSet(Reported) /\ Spent \subseteq Int /\ Received \subseteq Int
  /\ LastBooked \in Nat /\ MaxBooked \in Nat

Sender == l1 :> csv @@ l2 :> api @@ l3 :> api
Minus  == {-1}

(* Any payees and entries; checked are two payees and two entries, and a payee without
   aliases with a refund that is reversed. *)
Names == INSTANCE Payees WITH
  Payees <- People, MaxEntry <- MaxNamed, NoEntry <- 0, entry <- payment

Groups == INSTANCE Payees WITH
  Payees <- {p}, Words <- {}, MaxEntry <- MaxGrouped, NoEntry <- 0, entry <- payment

ASSUME NameConstants == NoPayee \notin People \cup {p} /\ MaxNamed \in Nat /\ MaxGrouped \in Nat

(* Any vaults, categories and drafts; checked are one vault with one category, and two entries. *)
Screen == INSTANCE Terminal WITH Texts <- Wordings, MaxEntry <- MaxListed, NoVault <- 0

ASSUME ScreenConstants ==
  /\ IsFiniteSet(Vaults) /\ Vaults \subseteq Nat \ {0} /\ Given \subseteq Vaults \X Cats
  /\ MaxListed \in Nat /\ MaxAudit \in Nat

(* Any forms and amounts; checked are lists of two amounts. *)
Form == INSTANCE Forms WITH MaxRows <- MaxSplits, shown <- previewed, rows <- splits

ASSUME FormConstants ==
  /\ Kinds \subseteq {"csv", "tracker", "payee", "grant", "revoke", "split"}
  /\ MaxFields \in Nat /\ MaxBooks \in Nat /\ MaxSplits \in Nat
  /\ Typed \subseteq Int \cup {Unstated} /\ Refused \notin Seq(Int)

Amends    == {Unstated, 1, 2, -1}
GivenFood == {<<1, food>>}

(* Lines, processes and entries that no instance tells apart. *)
Alike == Permutations({l2, l3}) \cup {f @@ g : f \in Permutations({w1, w2}), g \in Permutations({b1, b2})}

(***************************************************************************)
(* The composition                                                         *)
(***************************************************************************)

intake == <<clock, recorded, conn, pull, wrote, folder, dropped, imports, work, cut,
  profile, active>>
pages == <<list, always, from, win, page, expected, fetched, statement, outcome,
  changes>>
consents == <<saved, valid, routes, files, asking, flow, heard, flows>>
beside == <<stored, line, status, amount, external, reconciled, job>>
sources == <<entry, row, lock, preview>>
names == <<known, payee, payment, merged, shown>>
screen == <<rows, chart, open, price, audit, vaults, at, accounts, drafts, fresh,
  oldest, sel, capture, modal, commits>>
form == <<books, kind, fields, mapped, previewed, reviewing, done, applied, splits,
  total, step, editing, asked, inputs>>
all == <<focus, vars, intake, pages, consents, beside, sources, names, screen, form>>

NoMail ==
  /\ mailbox = Unused /\ evidence = Unused /\ receipts = Unused /\ inbox = Unused
  /\ taken = Unused /\ scanning = Unused /\ poll = Unused /\ deaths = Unused
NoIntake ==
  /\ clock = Unused /\ recorded = Unused /\ conn = Unused /\ pull = Unused
  /\ wrote = Unused /\ folder = Unused /\ dropped = Unused /\ imports = Unused
  /\ work = Unused /\ cut = Unused /\ profile = Unused /\ active = Unused
NoPages ==
  /\ list = Unused /\ always = Unused /\ from = Unused /\ win = Unused
  /\ page = Unused /\ expected = Unused /\ fetched = Unused /\ statement = Unused
  /\ outcome = Unused /\ changes = Unused
NoConsents ==
  /\ saved = Unused /\ valid = Unused /\ routes = Unused /\ files = Unused
  /\ asking = Unused /\ flow = Unused /\ heard = Unused /\ flows = Unused
NoBeside ==
  /\ stored = Unused /\ line = Unused /\ status = Unused /\ amount = Unused
  /\ external = Unused /\ reconciled = Unused /\ job = Unused
NoSources ==
  /\ entry = Unused /\ row = Unused /\ lock = Unused /\ preview = Unused
NoNames ==
  /\ known = Unused /\ payee = Unused /\ payment = Unused /\ merged = Unused
  /\ shown = Unused
NoScreen ==
  /\ rows = Unused /\ chart = Unused /\ open = Unused /\ price = Unused
  /\ audit = Unused /\ vaults = Unused /\ at = Unused /\ accounts = Unused
  /\ drafts = Unused /\ fresh = Unused /\ oldest = Unused /\ sel = Unused
  /\ capture = Unused /\ modal = Unused /\ commits = Unused
NoForm ==
  /\ books = Unused /\ kind = Unused /\ fields = Unused /\ mapped = Unused
  /\ previewed = Unused /\ reviewing = Unused /\ done = Unused /\ applied = Unused
  /\ splits = Unused /\ total = Unused /\ step = Unused /\ editing = Unused
  /\ asked = Unused /\ inputs = Unused

Begins ==
  \/ focus = "mail" /\ Init
       /\ NoIntake /\ NoPages /\ NoConsents /\ NoBeside /\ NoSources /\ NoNames /\ NoScreen /\ NoForm
  \/ focus = "pulls" /\ Pulls!Init
       /\ NoMail /\ NoPages /\ NoConsents /\ NoBeside /\ NoSources /\ NoNames /\ NoScreen /\ NoForm
  \/ focus = "drops" /\ Drops!Init
       /\ NoMail /\ NoPages /\ NoConsents /\ NoBeside /\ NoSources /\ NoNames /\ NoScreen /\ NoForm
  \/ focus = "pages" /\ Paged!Init
       /\ NoMail /\ NoIntake /\ NoConsents /\ NoBeside /\ NoSources /\ NoNames /\ NoScreen /\ NoForm
  \/ focus = "consents" /\ Banks!Init
       /\ NoMail /\ NoIntake /\ NoPages /\ NoBeside /\ NoSources /\ NoNames /\ NoScreen /\ NoForm
  \/ focus = "beside" /\ Beside!Init
       /\ NoMail /\ NoIntake /\ NoPages /\ NoConsents /\ NoSources /\ NoNames /\ NoScreen /\ NoForm
  \/ focus = "sources" /\ Sources!Init
       /\ NoMail /\ NoIntake /\ NoPages /\ NoConsents /\ NoBeside /\ NoNames /\ NoScreen /\ NoForm
  \/ ((focus = "names" /\ Names!Init) \/ (focus = "groups" /\ Groups!Init))
       /\ NoMail /\ NoIntake /\ NoPages /\ NoConsents /\ NoBeside /\ NoSources /\ NoScreen /\ NoForm
  \/ focus = "screen" /\ Screen!Init
       /\ NoMail /\ NoIntake /\ NoPages /\ NoConsents /\ NoBeside /\ NoSources /\ NoNames /\ NoForm
  \/ focus = "form" /\ Form!Init
       /\ NoMail /\ NoIntake /\ NoPages /\ NoConsents /\ NoBeside /\ NoSources /\ NoNames /\ NoScreen

MailStep ==
  /\ focus = "mail" /\ Next
  /\ UNCHANGED <<focus, intake, pages, consents, beside, sources, names, screen, form>>
(* Bound: imports that fail, and completions that end early, are left to the drops. *)
PullStep ==
  /\ focus = "pulls" /\ Pulls!Next
  /\ cut' = {} /\ \A r \in imports' : r.status # "failed"
  /\ UNCHANGED <<focus, vars, pages, consents, beside, sources, names, screen, form>>
DropStep ==
  /\ focus = "drops" /\ Drops!Next
  /\ UNCHANGED <<focus, vars, pages, consents, beside, sources, names, screen, form>>
PageStep ==
  /\ focus = "pages" /\ Paged!Next
  /\ UNCHANGED <<focus, vars, intake, consents, beside, sources, names, screen, form>>
ConsentStep ==
  /\ focus = "consents" /\ Banks!Next
  /\ UNCHANGED <<focus, vars, intake, pages, beside, sources, names, screen, form>>
BesideStep ==
  /\ focus = "beside" /\ (\E w \in {w1, w2} : Beside!Compete(w))
  /\ UNCHANGED <<focus, vars, intake, pages, consents, sources, names, screen, form>>
SourceStep ==
  /\ focus = "sources" /\ Sources!Next
  /\ UNCHANGED <<focus, vars, intake, pages, consents, beside, names, screen, form>>
NameStep ==
  /\ \/ focus = "names" /\ Names!Next
     \/ focus = "groups" /\ Groups!Next
  /\ UNCHANGED <<focus, vars, intake, pages, consents, beside, sources, screen, form>>
ScreenStep ==
  /\ focus = "screen" /\ Screen!Next
  /\ UNCHANGED <<focus, vars, intake, pages, consents, beside, sources, names, form>>
FormStep ==
  /\ focus = "form" /\ Form!Next
  /\ UNCHANGED <<focus, vars, intake, pages, consents, beside, sources, names, screen>>

Work == MailStep \/ PullStep \/ DropStep \/ PageStep \/ ConsentStep \/ BesideStep \/ SourceStep \/ NameStep \/ ScreenStep \/ FormStep

Edge == Begins /\ [][Work]_all

(***************************************************************************)
(* Properties; those of one component are stated in its module.            *)
(***************************************************************************)

(* Every variable has its type. *)
TypeIsRight ==
  CASE focus = "mail"     -> TypeOK
    [] focus = "pulls"    -> Pulls!TypeOK
    [] focus = "drops"    -> Drops!TypeOK
    [] focus = "pages"    -> Paged!TypeOK
    [] focus = "consents" -> Banks!TypeOK
    [] focus = "sources"  -> Sources!TypeOK
    [] focus = "names"    -> Names!TypeOK
    [] focus = "groups"   -> Groups!TypeOK
    [] focus = "screen"   -> Screen!TypeOK
    [] focus = "form"     -> Form!TypeOK
    [] OTHER -> TRUE

(* A line of a bank's file is evidence of at most one entry, an entry of one line of a
   source, and a purchase has one live refund, however previews and confirmations cross
   (cross_source.rs, refunds.rs) and whichever process matches first
   (matcher.rs). *)
OneClaim ==
  /\ focus = "beside" => Beside!OneLinePerEntry
  /\ focus = "sources" => Sources!OneLinePerSource /\ Sources!OneRefund /\ Sources!EvidenceAgrees

(* Nothing that was sent, listed, pulled or dropped is lost, whoever dies: a receipt, a
   cursor and a stamp only follow what is on disk (email.rs, pluggy.rs, inbox.rs,
   enable_banking.rs), and a statement of several pages is whole (statement_http.rs). *)
NothingIsLost ==
  CASE focus = "mail"     -> NothingLost
    [] focus = "pulls"    -> Pulls!NothingLost /\ Pulls!KeptUntilRecorded
    [] focus = "drops"    -> Drops!KeptUntilRecorded
    [] focus = "pages"    -> Paged!StatementWhole
    [] focus = "consents" -> Banks!StampsHaveFiles
    [] OTHER -> TRUE

(* What is retried or offered twice is done once: a message's statements, a file of the
   inbox (see Intake for the completion that ends after its commit), an account that two
   consents reach, a bank's answer to the browser (email.rs, inbox.rs, enable_banking.rs). *)
DoneOnce ==
  CASE focus = "mail"     -> ProcessedOnce
    [] focus = "pulls"    -> Pulls!ProcessedOnce
    [] focus = "drops"    -> Drops!ProcessedOnce
    [] focus = "consents" -> Banks!EachAccountOnce /\ Banks!CodeOnce
    [] OTHER -> TRUE

(* A confirmation applies what its preview showed, or nothing: of sources, of payees, of
   the terminal's batches and of its forms.  And what a person settled is not undone by a
   machine: a draft that was worked on when another source confirms it
   (cross_source.rs), the account a kind of file was given (inbox.rs). *)
PeopleDecide ==
  [][/\ focus = "sources" => Sources!AppliesWhatWasShown /\ Sources!KeepsHumanWork
     /\ focus = "names" => Names!AppliesWhatWasShown
     /\ focus = "screen" => Screen!AppliesWhatWasShown /\ Screen!KeepsTitle
     /\ focus = "form" => Form!AppliesWhatWasShown
     /\ focus = "drops" => Drops!KeepsRoutes]_all

(* A payee that was merged away keeps no entries, and entries and their reversals and
   refunds change payee together (payees.rs). *)
PayeesAreWhole ==
  [][/\ focus = "names" => Names!MergedAway' /\ Names!OffsetsGroups
     /\ focus = "groups" => Groups!OffsetsGroups]_all
==============================================================================
