# means: specifications

`means` is a double-entry ledger for households and small companies: a Rust
server (`crates/means-server`) around a library that owns an SQLite file
(`crates/means-core`), a terminal client (`crates/means-tui`) and a way to share
a read-only copy of a vault by files that people carry (`crates/means-sharing`).
This directory holds TLA+ models of its own logic, what TLC checks on small
instances of them, and what TLAPS proves about them for every instance.

`PROJECT.json` is the machine-readable side of this page: the components, the
runs, the source lines each definition translates, the hazards with the
properties that watch them, the mutants that show that each property can fail,
and the theorems.

## The system

| Component | State it keeps | Operations | Talks to |
|---|---|---|---|
| Hash chain (`hashchain.rs`) | `seq`, `prev_hash`, `hash` of every booked entry | append, rechain, verify | called by every path that books or changes an entry |
| Journal (`journal.rs`) | entries, postings, links between a void and its reversal | create, edit, post, categorize, void, delete, transfer, confirm | hash chain, lock date, rates, evidence |
| Chart of accounts (`accounts.rs`) | accounts, hierarchy, closed flags | create, close, merge, recategorize, split, remap, apply chart | rewrites postings, rechains |
| Rates (`rates.rs`) | prices per commodity and date | set a price, look one up (direct, inverse, cross), revalue what had none | rewrites book values, rechains |
| Entities (`entities.rs`) | lock date, functional commodity | create, update | consulted by every write |
| Imports (`imports/`) | imports, statement lines and their status | run, retry, rematch, skip, link, roll back | journal, matcher, rules |
| Matcher, rules | rules | score candidates, attach a line, book a draft from a line | journal |
| Cross-source (`cross_source.rs`), refunds, payees, tags, splits, templates, budgets | links between entries, aliases, schedules | confirm a pairing, link a refund, merge payees, run schedules | journal |
| Currency migration | functional commodity of an entity | plan, confirm, apply | rewrites values, rechains |
| Inbox and pulls (`imports/inbox.rs`, `pluggy.rs`) | files in a watched directory, routes it learned, cursors | scan, take, complete, pull | imports |
| Bank connections (`means-server/connections.rs`) | jobs with a status and a log | start, finish, interrupt, restart | provider clients, imports |
| Bank clients (`enable_banking.rs`, `inter_pj.rs`, `wise.rs`) | consents, routes of accounts, stamps | authorize, discover, read windows and pages | inbox |
| Sharing (`means-sharing`) | trust stores: pins, grants, the pending export, replicas; files | export, import, acknowledge, revoke, rotate | the two stores only share files |
| Mail (`means-server/email.rs`, `imports/email.rs`) | stored messages and receipts | poll a mailbox, store, publish attachments | inbox |
| Opening a file (`db.rs`, `minor_units.rs`, `tags.rs`) | the version of the schema | read the version, run each migration after it | every process that opens the ledger |
| Reports, budgets, export | nothing | queries over postings | chart, journal |
| Server | none that outlives a request | decode, preview, confirm | the library |
| Terminal client (`means-tui`) | lists read some time ago, a selection, a dialog, a form | load, preview, confirm, batch | the server |

Two facts shape the concurrency. The server has one SQLite connection behind a
mutex, and a second process may open the same file: SQLite serialises the
transactions of all writers, so *committed transactions* interleave and nothing
smaller does. Where the code commits several times in one operation, or reads
before its transaction begins, other writers and crashes come in between. In the
sharing crate two installations never talk at all: files are lost, come late, or
come twice.

### What is hard

- Every path that changes what an entry's hash commits to must recompute the
  chain from the right place; which place is right depends on what was deleted,
  voided and moved before.
- A void and its reversal, a bank posting and its statement line, are pairs of
  rows that later operations touch one at a time.
- The lock date is checked by each operation in its own way and can itself move.
- Multi-commit operations: transfers, revaluation, imports, schedules.
- Checks that are made before the transaction that relies on them.
- Sharing: crashes between a file and a commit on either side, lost and repeated
  files, two clocks, key rotation with deliveries under way.

`hazards` in `PROJECT.json` lists each with the line where it bites.

## Modules

| Module | Stands for |
|---|---|
| `HashChain` | `hashchain.rs`: append, rechain, verify over abstract digests |
| `Journal` | the books of one entity and every operation that rewrites them |
| `LongOperations` | transfers between two entities and revaluations: operations of several transactions |
| `Splits`, `Amounts` | `splits.rs`, `money.rs`, the lines of `templates.rs`, `prepare` of `journal.rs`: rounding, shares, balancing |
| `Templates` | `templates.rs`: templates by hand, by rule and on a schedule; `categorize` of the drafts they leave |
| `Chart`, `Reports` | `accounts.rs`, `budgets.rs`: the chart and what names its accounts; `reports.rs`, `export.rs` over it |
| `Currency` | `currency_migration.rs`: preview, token, apply |
| `Migrations` | `migrate_to` of `db.rs` with the migrations that are code |
| `Imports` | `imports/mod.rs`, `matcher.rs`, `rules.rs`: statement lines from file to entry |
| `Reconcile` | `cross_source.rs`, `refunds.rs`, rules over drafts, `rematch_import` |
| `Payees` | `payees.rs`: aliases, and changes that are previewed and confirmed |
| `Intake` | `pluggy.rs`, `inbox.rs`: pulls with a cursor, the watched folder, learned routes |
| `MailDelivery` | `email.rs` on both sides: mailbox, stored messages, receipts, the folder |
| `Statements` | `statement_http.rs`, `inter_pj.rs`, `wise.rs`: a statement read in windows and pages |
| `Consents` | `enable_banking.rs` on both sides: consents, the browser's callback, pulls over all of them |
| `Connections` | `connections.rs`: bank jobs, their two mutexes, the watcher, the server's end and restart |
| `Terminal` | `app.rs` of the terminal with `confirm_posting`: lists, review in batches, capture, pickers |
| `Forms` | the terminal's import, payee, sharing and split forms |
| `ReplicaStream` | abstract: what sharing promises per grant |
| `VaultSharing` | `store.rs`: the owner, the recipient, the files, the crashes |
| `MCJournal`, `MCImports`, `MCVaultSharing` | one component for TLC |
| `MCBooks`, `MCEdge`, `MCProgress` | several components side by side: safety of the books, of the edge, and liveness |
| `MCCursor` | `Intake` with pulls limited by `--since` |
| `*Proofs` | the theorems: `Journal` (with the lemmas about `HashChain`), `LongOperations`, `Books` (over `MCBooks`), `Imports`, `Intake`, `Edge` (over `MCEdge`), `Connections`, `VaultSharing` |

`MCBooks`, `MCEdge` and `MCProgress` put components side by side that share no
state. `focus` says which of them a behaviour is about; the variables of the others
are `Unused`, so a run visits the sum of the components' states and not their
product. Where components do interact, the interaction is inside one module: the
chain in `Journal`, the folder in `MailDelivery` and `Intake`, the books under
the screens in `Terminal` and `Forms`.

The components of `MCEdge` keep their constants as constants of `MCEdge`: the .cfg
gives them small values, the theorems hold for all.

### HashChain

`hash = sha256(prev_hash || canonical(entry))`. A digest is modelled by the *set
of links it commits to*: `canonical` contains the entry's uid and its content, an
entry keeps its sequence number for life, and a walk visits numbers in order, so
committing to the same set is committing to the same sequence. This is where the
injectivity of sha256 is assumed. `AppendLink`, `RechainFrom` and `Unlink` are the
three ways the code changes stored digests; `VerifyPasses` is `means verify`,
which recomputes them from the content the books hold *now*. `seq` is a number
that is never reassigned, and a deleted row leaves a gap, as in the database.

### Journal

One bank posting of `qty` units, valued `amt` in the functional currency, and one
balancing category posting per entry. The state of an entry is its status, its
content (date, category, quantity, value: what `canonical` fixes), whether its
value is a placeholder for a missing rate, whether the bank posting is
reconciled, the status of the statement line behind it and what it reverses.
One action is one committed transaction:

| Action | Code |
|---|---|
| `CreateEntry`, `UpdateEntry`, `PostEntry`, `Categorize`, `VoidEntry`, `DeleteEntry` | the service functions of `journal.rs` |
| `CreateFromLine` | `rules::draft_from_line`, `create_entry_from_line` |
| `Attach` | `matcher::attach_in_transaction` |
| `DeleteImport` | `imports::delete_import` |
| `Recategorize`, `MergeAccounts` | `accounts::recategorize_filtered`, `merge_in` |
| `SetPrice`, `RevalueMissing` | `rates::set_price`, `revalue_missing` when nothing disturbs it |
| `SetLockDate` | `entities::update_entity` |

The guards are the code's own refusals: `Open` is `check_lock`, `MutationOpen` is
`check_mutation_lock`; an operation that calls neither (a merge) has neither.
Abstracted: more than one category leg, narration and payee, rate dates, account
hierarchy and closing, and the entities other than this one (their chains and
books are disjoint).

### Imports

The statements of one account, and the lines, entries and marks they lead to. A
*movement* is what happened at the bank; a row of a file shows a movement, with a
reference or none. `Text` says which movements look alike (date, amount,
description), so that a line's fingerprint is its text and its place among the
lines of its file that share it; `Amount` says which could be matched with one
another. `amount` of an entry stands for
the amount and the date of its posting. Only the model knows which movement a
line shows.

A worker is a process with the ledger open: the server, or a CLI command beside
it, and runs one operation at a time. `process_line` is taken apart where the code
lets others in: `CheckReference`, `CheckFingerprint` and `FindMatch` read,
`MarkDuplicate`, `Attach` and `Draft` commit, each from what was read before. The
same holds for the retry's list of unfinished lines, the status that a hand match
or a skip looked at, the rules' list of unmatched lines, and the lines that a
roll-back read. `Crash` ends an operation between any two steps (a refusal looks
the same); `Fail` is a transaction that does not commit, which an import notes on
the line.

| Action | Code |
|---|---|
| `Import`, `Retry` | `run_import`, `retry_import` up to their loops |
| `CheckReference` .. `Draft` | `process_line`, `matcher::attach`, `rules::draft_from_line` |
| `MatchByHand`, `CreateByHand`, `SkipOrNot` | `match_line`, `create_entry_from_line`, `skip_line`, before their write |
| `RunRules` | `run_rules` over unmatched lines |
| `Rollback`, `CommitRollback` | `delete_import` |
| `Capture`, `Post`, `Void`, `DeleteDraft` | the journal's operations, as the lines see them |

What keeps an entry in the books at all (periods, the chain) is `Journal`'s
subject; here it may refuse at any time. A candidate's score depends on dates and
words, so any candidate may be the best. The `Strict` files are those of Enable
Banking, whose references identify movements. Left out: lines without a date
or an amount, and those the parser skips (they never leave that state), the
counts of an import; `rematch_import` is in `Reconcile`.

### LongOperations

`create_transfer` books one entry in each of two entities in a transaction of its
own and then links the first to the second; when the second is refused it takes the
first back. `revalue_missing` values entry by entry and recomputes the chains row by
row at its end. `op[p]` is how far process `p` is; between two of its steps other
processes book, post, void, delete, close a period or set a price. Two constants
name the schedules of interest: `Alone`, no other process writes during an operation,
and `~Mortal`, none dies between its transactions. The properties are about both
holding, because they fail otherwise (see *What the runs found*).

### Amounts, Splits and Templates

An amount counts minor units; a rate is a fraction and division rounds half to
even, as `money.rs` does. `ResolveSplits` and `ResolveLines` give the amounts of the lines
of a receipt or of a template, or `Refused`. `Templates` saves and deletes templates,
applies them by hand (`ApplyByHand`), by a rule (`ApplyByRule`) and to a statement line
(`ApplyToLine`), splits a draft over categories (`Categorize`), and runs the
schedules. A run reads the due templates once (`RunSchedules`); then each occurrence
is looked up and booked (`SkipBooked`, `BookOccurrence`) in a transaction of its own, a
template moves on (`Advance`), a failure or a death ends the run (`Stop`), and drafts
are deleted, entries voided and periods closed in between.

### Chart, Reports and Currency

`Chart` has accounts with a parent, a type, a class, a unit and two flags, and
what names them: postings, a rule, a template, a budget. Its actions are the
functions of `accounts.rs` and `budgets.rs`; `Merge` and `Remap` rewrite all of those
names. `Reports` is pure: the trial balance, balance sheet, income statement, ledger,
cashflow, budgets and the export as functions of a chart and a journal, each
computed the way its query does, so that comparing two of them says something.
`Currency` plans a new value for every posting from evidence, links and quotes,
keeps the plan under a token, and writes a new file; a price, a refund, a void, a
note or a closed period comes in between.

### Migrations

A process reads `version`, then runs one migration after another, each a
transaction that stamps its number, and may die between any two (`Close`). SQL scripts
create tables (`schema`), `Rescale` turns two-decimal values into each commodity's own
minor units, `RepairTags` and `RepairChains` give reversals the tags of what they reverse.
Several processes may open one file.

### Reconcile, Payees

`Reconcile` is one bank account with two sources of evidence. `Preview`, `Confirm`
and `Rematch` are the explicit reconciliation; the plan's token is the plan itself,
computed again before it is applied. `LinkRefund`, `Categorize`, `Review`, `Void`,
`DeleteDraft` and `Redraft` (rules over drafts) touch the same entries. `Payees` has
the alias rules as sets of words; `Preview`, `Confirm` and `Dismiss` are saving,
backfilling, reassigning and merging.

### Intake, MailDelivery, Statements, Consents

Evidence on its way into the folder and from there into imports. A pull reads pages
while the provider records more (`Record`, `Page`), writes a file (`Publish`) and then the
cursor (`SaveCursor`); a scan commits an import, learns a route and moves the file, a
person completes a pending one, and a failure (`ImportFails`) or a death (`Crash`) comes at
any step. `cut` is a history variable that no action reads: the imports whose completion
ended after their commit and before the end of the pending row. `MailDelivery` stores a
message, publishes its
attachments one by one and writes the receipt, for several pollers at once.
`Statements` reads pages of a list that changes; the list is a set of numbered
records, given in the order of their numbers. `Consents` has the callback with its
state and its ten minutes, and a pull that asks each consent for each account.

### Connections

Two mutexes order everything: `db` and `live`. A thread takes the locks of its
operation one by one, acts when it holds the last and lets go; `Plan` lists the steps
of the task of each kind of job. A task can panic, the result row can be refused, the
server can stop at any point and `Restart` marks what was running as interrupted.

### Terminal and Forms

A handler runs between two keys on lists that were read earlier, each by a call
that may fail and leave the old one; `Elsewhere` changes the books meanwhile. `Terminal`
has loading, vaults, selection and sorting, the review of drafts in batches with
previews, capture, pickers, splits and deletion. A preview is the answer of a call
(`Preview`), so it shows the books as the handler that asked for it has left them, and a
picker for alike drafts lists them by their place in the list (`OpenPicker`). `Forms` has what is typed, what
was previewed and what was sent.

### VaultSharing and ReplicaStream

The owner's `outbound` row, the recipient's `replicas` row, the files that were
written, the keys and the pin. A manifest names the digest of its predecessor, so
a digest is modelled by the history it commits to, and a history's length is the
revision. `bundles` and `receipts` only grow: a file that was written may be
delivered late, twice or never. A write that can fail after its commit is a
parameter (`Export(.., written)`, `CommitImport(written)`), a crash before the
commit is an action (`CrashImport`) or a parameter (`Rotate(committed)`). Import
is three steps (begin, publish the file, commit), with every other writer of that
store kept out by its immediate transaction. Each side's clock passes a grant's
expiry by itself (`Expire`).

`ReplicaStream` knows nothing of files, keys or crashes: per grant, deliveries
are published one at a time, accepted in order and once, and the next one waits
for the owner to learn of the last. `VaultSharing!Implements` maps it in:
`published` is the history of the outbound row, `accepted` the checkpoint, and
`acked` its length without the pending delivery.

## Runs

| Run | Instance | Shows |
|---|---|---|
| `journal` | 3 entries of one date, or 2 over two dates and a rate of 3 | the chain verifies and holds the books, a void has one reversal, marks have evidence, postings have accounts, closed periods and voids keep their figures |
| `journal_merge` | 2 entries | **violated**: merging an account rewrites a closed period |
| `journal_gap` | 2 entries | **violated**: a roll-back leaves a number above the count |
| `imports` | 2 movements that look alike in 2 overlapping files, without and with references; 3 entries, 1 process | marks and lines agree, imports book nothing twice, duplicates never form a ring, finished lines stay finished |
| `imports_retry` | 1 file of 2 lines, under fairness | retrying settles every line |
| `imports_rules` | the files of `imports` | **violated**: the rules book a movement twice |
| `sharing` | 2 grants with 4 deliveries and 1, 1 edit, 1 further key | pending bundles stay verifiable, an old pin can follow rotations, the two sides never diverge, the file matches the checkpoint, the stores implement the stream |
| `sharing_resend` | 1 grant, 2 deliveries | **violated**: after a revocation export no longer writes the pending bundle |
| `books` | six components, below | balance to the last unit, dates booked once, operations whole, upgrades without loss, a chart with nothing dangling, reports that agree, a change of currency that applies what it showed |
| `edge` | ten components, below | evidence is neither lost nor taken twice; what is confirmed is what was shown |
| `progress` | three components under fairness, below | bank jobs never overlap and always end, deliveries settle, every due date is booked |
| `cursor` | `Intake`, 1 transaction, 1 pull with `--since` | **violated**: the cursor passes what was not fetched |

| `focus` | Bounds |
|---|---|
| `books`: amounts | 5 layouts of a template (halves, thirds with a tip and a foreign part, an unresolvable ring, ...), 5 values, rate 3/2, amounts up to 9 units |
| `books`: schedule | 1 template every day, 2 days, an end or none, 1 occurrence a run, 2 rows |
| `books`: operations | 1 process, 2 entities, 3 rows |
| `books`: chart | 6 accounts, 2 entries, 3 edits, remaps that merge two accounts, in either order, one of them created by the remap |
| `books`: report | every pair of payments over 6 charts and 3 budgets: read-only, the states are the inputs |
| `books`: currency | 2 currencies, 3 entries, 3 quotes (one too old, one from an import), 3 changes, 2 files |
| `books`: file | 6 versions, 3 scripts and the 3 migrations in code, 1 process, values 0, 10 and 105, a chain of 2 reversals |
| `edge`: mail | 2 messages with attachments, 2 pollers, 1 death |
| `edge`: pulls, drops | 1 transaction, 2 pulls, a clock of 3; 2 exports of one bank, 2 accounts; failures and deaths at any step of a pull, a scan or a completion (imports that fail, and completions that end early, are left to the drops) |
| `edge`: pages | 6 records over 2 windows of a day (1 and 5), 2 a page, 2 pages to a window, 1 change while reading |
| `edge`: consents | 2 consents over 2 accounts in 2 currencies, 1 flow in the browser |
| `edge`: beside | 2 processes, 1 movement in 2 files, 2 entries |
| `edge`: sources, names, groups | 3 lines of 2 sources and 3 entries; 2 payees, 1 alias, 2 entries; 1 payee, 3 entries |
| `edge`: screen, form | 1 vault, 2 entries, 3 audit rows; 6 kinds of form, 2 versions of the books, 2 rows |
| `progress`: jobs | 2 clients, 2 jobs, 2 requests, 1 edit, 1 unsaved result, 1 end of the server |
| `progress`: sharing | 1 grant, 3 deliveries, 1 further key |
| `progress`: schedules | 2 templates, one of them possibly unresolvable, 2 days, 2 runs that fail or die |

Why the bounds are enough. *Journal*: three entries are the fewest with an entry
before, at and after a change in the chain, with a gap in the middle and with the
reversal of a reversal; every operation touches at most a pair of related entries
and a suffix of the chain. Two dates give an open and a closed side of the lock
date, and moving across it. A rate other than 1 makes values differ from
quantities, so that an old value is distinguishable. *Imports*: two movements that
look alike in one file, one of them in a second file too, are the fewest that
tell an occurrence within a file from an overlap between files; three entries
allow one for each line, or a captured one, a void one and its replacement.
Where references identify movements (`scope = "strict"`) nobody books or skips by
hand and no rules run, because a person who books a movement again, and rolls that
statement back, leaves an entry that the next import takes as evidence.
*Sharing*: four deliveries give
bundles and receipts that are older by one, two and three revisions; a key after
the first gives a committed rotation or one that crashed; a second grant gives a
rotation that must wait for the other grant's receipt. *Books*: two rows give an
occurrence and its double; three rows in two entities are a transfer and a bystander;
six accounts give each reserved one a child and a remap a target that the
remap itself creates; 0, 0.10 and 1.05 in a commodity of one decimal and in one of none are
values that fit their precision and values that do not. *Edge*: most hazards need two
of a kind (pollers, exports, consents, processes, sources) and one interruption. Five
records of a day are more than two pages hold, so a page limit is met too. One change
while a window is read is all that the totals of a page can tell: with two the code
fails its property (see *Also seen*).
The theorems below remove the bounds for the properties they state.

The invariants can fail: for every property of every passing run `PROJECT.json`
names a mutant, an operator that stands beside the correct one in the module
under the comment "Slip caught by ...".

Deadlock is not checked: each system may stop. Entries, edits, files and requests
are used up, and people may leave files where they are.

### Fairness

Only `imports_retry` and `progress` assume any.

`imports_retry` assumes that somebody retries a file
again and again while it has unfinished lines (`import retry` is a command, nothing
runs it), that an operation ends, and that the process does not die, nor the same
transaction fail, for ever at the same line: each step of each line is strongly
fair, because a crash or a failure may come first any number of times. Nobody
has to import, void or roll back.

`progress` assumes, for bank jobs, that threads run and provider calls end: every
HTTP client has a timeout of 90 seconds and a browser has ten minutes
(`JobsGoOn`, weak fairness). Nobody has to start a job, and the server may stop and
start again. For schedules it assumes that somebody runs them again and again, and that a
run which nothing stops goes on (`RunsRepeat`, weak). No timer of the program does: the
server starts only the watcher of the inbox, and `run_schedules` is reached by an explicit
command (docs/data-model.md:65). Failures and deaths are
bounded (`MaxFaults`), and `DueIsBooked` itself excepts a template whose lines can never
be resolved, since the code lets it hold up those after it.
For sharing the assumptions are about two people (`PeopleGoOn`). The code never
retries by itself; its documents
tell people to, and it keeps what they need: the outbound file and row until the
receipt arrives, the checkpoint that makes a repeated import write its receipt
again. The owner writes a pending bundle
again whenever export allows it, and reads the receipts; the recipient imports
what it holds, again after a crash, and confirms the owner's new key. Import is
strongly fair, because another import or a crash may interrupt it each time; it
also assumes that a snapshot installs in the end, which the gap found by
`journal_gap` can prevent. Nobody has to revoke, edit, start a new export or
rotate, and a clock need not pass the expiry.

## Proofs

Every theorem is for all values of the constants, but for the hypotheses in the last
column. `tlapm` checks each module from nothing; nothing is assumed without proof
but the modules' own `ASSUME`s, which TLC evaluates on every run.

| Module | Theorem | States | Hypotheses |
|---|---|---|---|
| `JournalProofs` | `TypeCorrect`, `ChainAlwaysVerifies`, `ChainAlwaysHoldsTheBooks`, `OneReversalAlways`, `ReconciledAlwaysMeansEvidence`, `PostingsAlwaysHaveAccounts`, `ClosedPeriodsAreProtected`, `VoidsAreFinal` | all eight properties of `journal` | |
| `ImportsProofs` | `TypeCorrect` | `TypeOK` | |
| | `OneLineBeside` | an entry is evidence of at most one line | no commit of a roll-back; any number of processes |
| | `EvidenceHolds`, `DuplicatesEnd`, `NothingIsReplayed` | `EvidenceAgrees`, `NoRingOfDuplicates`, `CompletedNotReplayed` | one process |
| | `NothingIsBookedTwice` | `BookedOnce` | one process; references only where they identify movements |
| `LongOperationsProofs` | `TypeCorrect`, `ClosedStaysClosed` | types; a closed period keeps its values | rows are counted |
| | `BooksAreWhole` | chains verify and transfers have both halves whenever no operation is open | `Alone`, `~Mortal` |
| `BooksProofs` | `OperationsOfTheBooks` | `OperationsAreWhole` of the run `books` | |
| | `OccurrencesOnce` | `EachDateOnce` of `books` | |
| | `SettledForGood` | `SettledStays` of `books` | |
| | `NothingDanglesHolds` | `NothingDangles` of `books` | |
| | `UpgradeOfTheBooks`, `UpgradeHolds` | `UpgradeKeepsBooks` of `books`, and its parts | `Alone` (one process) |
| | `TypeCorrect`, `EditsAreKept` | types and edited tags of a file | any number of processes |
| `IntakeProofs` | `TypeCorrect`, `NoFileIsLost`, `LearningKeepsRoutes` | `TypeOK`, `KeptUntilRecorded`, `KeepsRoutes` | |
| | `NoRecordIsLost` | `NothingLost` | no pull with `--since` (`cursor` shows why) |
| | `OneImport` | `ProcessedOnce`, with failures and deaths at every step | |
| `EdgeProofs` | `ReceiptsAreKept`, `TakenOnce` | mail: `NothingLost`, `ProcessedOnce` | |
| | `OneClaimHolds`, `NothingIsLostHolds`, `DoneOnceHolds`, `PeopleDecideHolds`, `PayeesAreWholeHolds`, `TypesHold` | all six properties of `edge` | as `MCEdge` has its instances |
| `ConnectionsProofs` | `ConnectionsTypes`, `OneOperationAtATime`, `CutoffIsHeld` | `OneOperation`, `CutoffHeld` | |
| `VaultSharingProofs` | `TypeCorrect`, `RotationsStrandNobody`, `StoresNeverDiverge`, `CheckpointIsServed`, `StoresImplementStream` | all five properties of `sharing`, the refinement too | |

Assumptions on constants, each named where the constant is declared: `Suspense` is a
category, there is a date, quantities and the rate are integers, `NoEntry` is no entry
(`Journal`); rows of a file show movements, movements of one text have one amount, a
file has rows and `Nothing` is neither an entry nor a line (`Imports`); revisions are
bounded by a number and a notice is no version of the books (`VaultSharing`);
migrations are numbered in the order of the source and precisions are at most the
stored digits, at most 8 (`Migrations`); messages are numbers and contents sequences
of attachments (`MailDelivery`); clients, jobs and nobody are different things
(`Connections`); rows are counted (`MCBooks`). The assumptions of `MCEdge` give the
constants of its components their kinds: sets that are finite where the code counts
them, numbers that are numbers, "nothing" that is no element (`PageConstants`,
`BankConstants`, `SourceConstants`, `NameConstants`, `ScreenConstants`, `FormConstants`,
`NullIsNoAccount`, `NilIsNothing`). Its instances fix what the run varies least: pulls of
one transaction without `--since`, two exports of one bank, two processes over one
movement, one change of a bank's list, which `IntakeProofs` and `ImportsProofs` prove for
more. The others (mail, pages, consents, sources, payees, the screen, forms) are proved
for any sizes.

### The arguments

**Chain.** The first part of `JournalProofs` is about `HashChain`; its central lemma is `HeadIsSegment`: in a chain that
verifies, the stored hash of the last entry below a number commits to exactly the
links below that number, gaps or not. From it: appending, rechaining from an entry's
number and deleting with a rechain preserve verification, for any content function. Then
`ChainInv` says that the chain verifies and holds exactly the booked
entries under distinct numbers; these have to be proved together, since an append is
right only if the entry it links is not in the chain yet, and a rechain only if no two
entries share a number and the part below the change verifies already. `ReversalInv`
adds to `OneReversalPerVoid` and `ReconciledMeansEvidence` what makes them inductive:
a reversal is a booked entry that no statement line created, because otherwise a
roll-back could delete it and leave its original void for nothing.

**Transfers and revaluations.** A chain is wrong while `revalue_missing` is at work,
so the invariant of `LongOperationsProofs` cannot say that it verifies. It says of
each stored hash that it is right *or that the revaluation has still to write it*
(`RevalueHolds`), that the hash the rechain carries from row to row commits to what it
leaves behind, and that a transfer's first half ends its chain, is referred to by
nothing and has no other half until the second exists (`TransferHolds`). TLC checked
the invariant with two processes, two entities and four entries before it was proved.
With a second writer between the steps, or a death, both conclusions are false in the
code, so `Alone` and `~Mortal` are hypotheses of the theorem and values of the run.
`BooksProofs` carries the result into the composition by `INSTANCE`: the constants of
the run are its instance, and the two definitions of wholeness are shown to be one
(`SameWholeness`).

**Schedules.** A row keeps its template, date and origin for as long as it exists, and
a row is added for an occurrence only when the look just before found none
(`ScheduleInv`); the plan of the run that was read earlier plays no part. The look and
the booking are one step because one process runs the schedules: two servers on one
file could both look first.

**The chart.** That no account is above itself says too little to be kept by a move, so
the invariant (`Sound`) says it for sets: of any accounts, one has its parent outside of
them (`Forest`). A new account and one that goes keep that at once. A move keeps it by
counting: in a ring, the parents above the new parent would never reach the moved account
and never leave the set, so there would be more of them than accounts (`MovedForest`). A
merge redirects what names the account before the account goes (`RedirectedIs`), and a
remap needs to know that the account of its node survives its first merge, which it does
because names are unique below one parent (`Distinct`, `TriedIsSound`).

**Migrations.** The invariant adds to the three properties that a process at work
knows the present version (`KnowsVersion`), and that once values are in minor units
every row has a unit (`RowsHaveUnits`). `KnowsVersion` is where one process is needed:
of two that open one old file together, the second migrates again what the first has
committed. Reversals of reversals get their tags along a chain; the argument goes up
the chain by the least member without its tags (`LeastNumber`).

**Lines and entries.** `Evidence` says from the line's side what `OneLinePerEntry`
says from the entry's. `attach_in_transaction` looks at the status of line and posting
inside its transaction, so `OneLineBeside` needs no assumption about processes, but
for the commit of a roll-back: it believes lines that it read before and may clear the
mark of an entry that another process has attached since. The other results also
depend on what an operation read before its transaction and still believes (`JobFits`,
`TwoRecords`, `Searched`); that is true only while no other process has the ledger
open, hence one process. `NoRingOfDuplicates` says that each non-empty set of
duplicates has a member that points outside of it, which a step that adds or removes
one duplicate can be shown to keep without following the pointers. `BookedOnce` needs
in addition that only the sources whose references identify movements carry
references, and that they do: where a file of another source has one, an exact
reference on a posting attaches the line and skips the fingerprint, and TLC finds a
movement booked twice.

**One component at a time.** `EdgeProofs` uses that a step of `Edge` is a step of the
component that `focus` names, or leaves its variables alone (`OneAtATime`). Each
component has an inductive invariant under its own `focus` (`MailInv`, `EvidenceInv`,
`BankInv`, `SourceInv` with `ShownInv`, `NameInv` with `OfferInv`, `ScreenInv`, `FormInv`,
`PageInv`), and the six properties follow from them together. What `IntakeProofs` and
`ImportsProofs` prove is taken over by `INSTANCE`; lemmas such as `SamePulls` show that the
instances of `MCEdge` and of those modules say the same.

**Mail.** `ReceiptsAreKept` and `TakenOnce` need each other and two facts about the
middle of a delivery: everything before the part a poller is at has been published
(`PublishesInOrder`), and what the server has in hand has its row (`ScannedHasRow`).

**Pulls and the inbox.** A pull without a cutoff asks from the cursor, and once its file
is there nothing older than the pull's start is missing (`NoneMissing`); so it says of a
cursor that is not saved yet what `NothingLost` says of the saved one. Work past
its commit has its row (`Kept`). For `OneImport`: a pending row stands beside a finished
one of its file only while the completion that wrote the second is at work, or where such
a completion was cut short (`Apart`, `EndsApart`). So a completion that begins finds no
finished import but those in `cut`, and `run_import` refuses the accounts they went to. It
needs no assumption about failures, deaths or the number of accounts.

**Statements in pages.** `Announced` says of the totals of the window's first page that
they are those of the list as it is, and then the statement has every booking of the
pages read so far, or that the one change has been spent. Pages are taken in order, so
the last one has the rest (`Covered`); that the first so many numbers of a set are those of
lowest rank is `RankIs`. `IntervalsAre` and `DayOnce` are the arithmetic of the windows:
every day of the period is in one.

**Consents.** Files are numbered by the pull that wrote them, a pull by how many files
there were when it began, so files of this pull and of others are told apart without a
history (`Numbered`); of the account it publishes, the pull has written the currencies
that are no longer to do (`Written1`). A callback that was received belongs to a state
that has been given out and has taken its sender (`Answered`).

**Sources.** `Sound` says that a used line is evidence of a live entry with its amount,
that no entry has two lines of one source and no purchase two live refunds; it is stated
of any books, so it can be said of the books *within* a rematch, which goes line by
line: `ChainIs` builds the sequence of those books and `OneRematched` carries `Sound` from
one to the next. A confirmation finds the plan it had shown because the plan is a
function of what the token contains (`ShownInv`). `SoundStep` is what a step may do to
sound books; every action is an instance of it.

**Payees.** What a reversal or refund is of has a smaller number, so the chain of any
payment ends at one that is of none; `RootIs` says that as many steps as there are
payments are enough. `OfferInv` says that
what a preview showed follows from its token, and a confirmation computes that token
again (`ConfirmedIs`).

**The terminal.** A dialog says where it came from: a picker for one draft has the draft
that is selected, a batch the drafts that its title named, a preview the entry and the
number its token is of (`Dialog`). Books only grow in what the token counts, so an equal
token means equal books (`Previewing`); `SelectedIs` and `AlignIs` tie the selection, which
is an index, to the draft on the screen when lists are read again.

**Forms.** Under review a form takes no text, and what was previewed is what its token is
of (`Reviewed`); the split editor edits the row that was asked for or adds one at the
end (`Edited`). That what is sent adds up needs sums over the rows of a form. A sum is a
recursive function over the subsets of a finite set; that it exists, and that any
element may be added last, are shown by the least cardinality at which they could fail
(`SumsExist`, `AddLast`), so no induction scheme is needed.

**Bank jobs.** `CutoffHeld` depends on the step a job is at, so the invariant says
that a task is where its plan says (`OnPlan`) and that a stopped server has no thread
at work (`StoppedIsIdle`).

**Sharing.** The history that a bundle carries, a receipt names, a replica has
installed and an unfinished import has begun are prefixes of one another as their age
says (`FilesAreOld`, `ImportHolds`), and nothing follows a notice (`NoticeIsLast`).
With these every step of the stores is a step of `ReplicaStream` or a stutter; the
stream's liveness is not part of the theorem.

### What is only model-checked

- Liveness: `JobEnds`, `DeliverySettles`, `DueIsBooked`, `RetrySettles`. Neither fairness
  nor `ENABLED` is within the prover's reach.
- `EntriesBalance`, `ReportsAddUp`, `BooksAgree`, `AppliedAsShown` of `books`: sums over
  postings, rounding and folds over charts and reports. The lemmas on sums that the forms
  need would carry the first; the shares and the roll-up of accounts have not been tried.
- The types of `books`.
- The five properties that fail.

## What the runs found

1. `journal_merge`: `merge_in` (accounts.rs:607) checks no lock date.
   `journal.rs:6` says locked entries do not change.
2. `journal_gap`: `delete_import` (imports/mod.rs:817) deletes chained entries
   and renumbers nothing; `snapshot.rs:360` refuses a ledger with a number above
   the count of its chained entries, so such a vault can no longer be shared.
3. `sharing_resend`: export refuses a pending snapshot bundle after a revocation
   or the expiry (store.rs:320-323) and a notice before its receipt (329).

4. `imports_rules`: `run_rules` (rules.rs:269) drafts every unmatched line a rule
   matches without looking for duplicates or candidates, so lines that an import
   left behind, or a void released, can be booked beside the line or the entry
   that already stands for their movement. README.md:120 says overlapping
   statements only add new lines.
5. `cursor`: a Pluggy pull with `--since` and no cutoff stores its start as the cursor of the
   unrestricted stream (pluggy.rs:433), so what was recorded between the old cursor and
   that date is never fetched; the comment at pluggy.rs:432 says that a date-limited
   export must not consume the cursor.

Also seen while modelling:

- `recategorize_filtered` (accounts.rs:739) leaves out void entries but not their
  reversals, and `update_entry` edits a reversal like any other entry: the pair
  then no longer cancels on every account.
- `process_line` (imports/mod.rs:613) looks for duplicates and candidates before
  the transaction that books the line. Two processes on one ledger (the server and
  a command) that import overlapping statements at once can book a movement
  twice, and a line that a retry read as unfinished can be booked a second time,
  which leaves the first entry reconciled and without a line. So `BookedOnce`,
  `EvidenceAgrees` and `CompletedNotReplayed` are checked and proved for one process, and
  `OneLinePerEntry`, which the look inside of `attach_in_transaction` ensures,
  for two and more.
- Where an export renames a reference, or look-alikes were matched crosswise, a
  line can name a posting that is another line's evidence; attaching it fails on
  every retry until a person skips or matches it.
- A grant revoked before its first export can export a notice as revision 1; no
  recipient accepts it (store.rs:413), it stays pending, and no key rotation is
  possible afterwards (store.rs:464).
- Schedules (templates.rs:314): a schedule past its end has no next date, so a later
  run walks from its start again and books drafts that people deleted; a schedule
  without a start date is anchored on the day before the announced one and skips
  that. One template that cannot be resolved stops all after it (348), and
  `create_entry_from_line` takes a template's first posting on the account as evidence
  whatever its amount (rules.rs:395, against 228).
- Refunds: voiding a purchase leaves its live refund; `update_entry`, `recategorize` and a
  rematch may change a refunded purchase although `categorize` refuses
  (journal.rs:481); `rematch_import` may delete a linked refund and give its line to
  a captured entry.
- `run_rules` drafts again any draft that came from a line, though its comment speaks of
  suspense drafts (rules.rs:274).
- Inbox: a `run_import` that fails after its commit records a second row, "failed"
  (inbox.rs:3 says exactly once); a failed file is stashed and later drops of it are
  duplicates; README.md:95 says that the choice of an account is remembered, which a
  generic name (`*`) prevents.
- Inbox: README.md:95 also says that a file is never processed twice. `run_import` can fail
  after its commit (reading the rules, writing the counts, learning, the audit and reading
  the answer all end it with `?`, imports/mod.rs:503-544), and `complete_import` then keeps
  the pending row (inbox.rs:174-180), as does a death there; the same file can then be
  completed into another account. `ProcessedOnce` says what is left: never twice into one
  account, and at most one beside the imports of such completions (`cut`).
- Enable Banking: `date_from` is the cutoff of the account in its own currency, so earlier
  records in another are not fetched; a callback after the ten minutes and before
  the listener stops is told "Authorization received" although the job has timed out.
- Connections: docs/connections.md says a mapping cannot change while a pull uses it, but
  `learn` may change the account during a pull; a job whose result cannot be saved
  stays "running" until a restart; a second server marks the first one's jobs as
  interrupted.
- Migrations and long operations by two processes at once, and deaths between two
  transactions of a transfer or a revaluation, leave what the theorems' hypotheses
  exclude: a migration applied twice, a one-sided transfer, a broken chain.
- Mail: a crash leaves a `.email-*.part` file behind.
- Statements: totals are all that tells a change of the list. Of four bookings in pages of
  two, take the first away after page one has been read and let another appear at the
  end: the totals agree, and the third booking is in no page. The property and its
  theorem are for one change (`MaxChanges`).
- Terminal: when one preview of a batch fails the remaining drafts are dropped; lists that
  failed to load keep another vault's accounts; an archived entity shifts the index of the selected
  vault; a category ledger recategorizes the bank leg; renaming, moving or closing an account sends
  the whole cached account (app.rs:1915-1960), and mapping one sends a cached cutoff.
- Sharing: a grant whose confirmation's answer was lost can be confirmed again and becomes
  two grants.
- Accounts: a merge of categories of different commodities adds units of one to the other
  (accounts.rs:590, against journal.rs:114); merging moves reconciled and locked postings;
  a closed child's balance is missing when closed accounts are hidden (549); a
  conflict of budgets fails a whole remap, whose comment (919) says otherwise.
- Reports: a ledger shown oldest first closes at the last of its 5000 rows; the cashflow's opening
  leaves out drafts before its first day; unrealised gains count liabilities and
  equity while totals use book amounts.
- Currency migration: a failed apply leaves a backup whose name it then refuses; from one
  currency to another and back and forth again is refused, because the exchange account exists.

## Not modelled, and the plan

Left out for good: parsers of bank formats and provider clients (text to
records), screens as drawn, request decoding, the wire format and the cryptography itself
(taken as injective digests and unforgeable signatures), and SQLite (taken as
atomic, serialised, durable transactions). Not modelled, though they have state of their own:
`imports/remessa.rs` (its fingerprint contains the row's index, so an overlapping
export can book an exchange again) and `imports/account_tracker.rs` (each import of
a newer backup schedules every running repeat again).

Next, in this order:

1. `EntriesBalance` with the lemmas on sums of `EdgeProofs`, then `BooksAgree`.
2. `imports/account_tracker.rs` and `imports/remessa.rs` as components of `MCEdge`.
