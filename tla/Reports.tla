------------------------------ MODULE Reports ------------------------------
(***************************************************************************)
(* Reports over one vault: queries over postings, nothing stored.           *)
(* crates/means-core/src: reports.rs, budgets.rs, the balances of            *)
(* accounts.rs, and export.rs.                                              *)
(*                                                                         *)
(* A is the chart, an account by its id; E the journal, an entry by its id.  *)
(* An entry moves money between the bank account and one other account,      *)
(* `account`.  Amounts count minor units of the currency of the vault.       *)
(***************************************************************************)
EXTENDS Integers, Sequences, SequencesExt

Bank     == 1
None     == 0      \* no parent, no account
Anything == "any"  \* a filter left out

Booked(e)  == e.status \in {"posted", "void"}
Sign(type) == IF type \in {"asset", "expense"} THEN 1 ELSE -1
Total(Op(_), S) == MapThenSumSet(Op, S)

(* The postings of the journal, in the order of a ledger: date, entry, position. *)
Postings(E) ==
  UNION {{[key |-> <<E[i].date, i, 0>>, entry |-> i, account |-> Bank,
           quantity |-> -E[i].amount, amount |-> -E[i].amount],
          [key |-> <<E[i].date, i, 1>>, entry |-> i, account |-> E[i].account,
           quantity |-> E[i].quantity, amount |-> E[i].amount]} : i \in DOMAIN E}

Earlier(j, k) ==
  \/ j[1] < k[1] \/ (j[1] = k[1] /\ j[2] < k[2]) \/ (j[1] = k[1] /\ j[2] = k[2] /\ j[3] < k[3])

(* The accounts above a, at most Cardinality(A) of them. *)
Above(A, a) ==
  LET up[n \in 0..Cardinality(DOMAIN A)] ==
        IF n = 0 THEN a ELSE IF up[n - 1] \in DOMAIN A THEN A[up[n - 1]].parent ELSE None
  IN  {up[n] : n \in 1..Cardinality(DOMAIN A)} \ {None}

Subtree(A, a) == {b \in DOMAIN A : b = a \/ a \in Above(A, b)}

(* sums: what is booked on each account in a period. *)
Sums(A, E, from, to) ==
  LET in == {p \in Postings(E) : Booked(E[p.entry]) /\ E[p.entry].date \in from..to}
  IN  [a \in DOMAIN A |->
        [quantity |-> Total(LAMBDA p : p.quantity, {p \in in : p.account = a}),
         amount   |-> Total(LAMBDA p : p.amount, {p \in in : p.account = a})]]

(* Slip caught by ReportsAddUp: a total that begins with the market value of a
   child forgets that the child is in the parent's book value already. *)
CountedTwice(total, amount, old, market) ==
  IF old # {} THEN {o + (IF market # {} THEN m ELSE amount) : o \in old, m \in market \cup (IF market = {} THEN {0} ELSE {})}
  ELSE {total + m : m \in market}

(* The market value of a row when a value below it comes in: {} while nothing
   in the subtree has a price; `total` includes the book value of that child. *)
AddMarket(total, amount, old, market) ==
  IF old # {} THEN {o + (IF market = {} THEN amount ELSE CHOOSE m \in market : TRUE) : o \in old}
  ELSE {total + m - amount : m \in market}

(* rollup: every row's own values come in at each row above it, one row after another. *)
Rollup(A, rows) ==
  LET Add(acc, id) ==
        [a \in DOMAIN rows |->
           IF a \notin Above(A, id) THEN acc[a]
           ELSE LET total == acc[a].amount + rows[id].amount
                IN  [quantity |-> acc[a].quantity + (IF A[a].unit = A[id].unit THEN rows[id].quantity ELSE 0),
                     amount   |-> total,
                     market   |-> AddMarket(total, rows[id].amount, acc[a].market, rows[id].market)]]
  IN  FoldLeft(Add, rows, SetToSortSeq(DOMAIN rows, <))

TrialBalance(A, E, asOf) ==
  LET sums == Sums(A, E, 0, asOf)
      rows == {a \in DOMAIN A : ~A[a].placeholder /\ (sums[a].quantity # 0 \/ sums[a].amount # 0)}
  IN  [rows   |-> rows,
       debit  |-> Total(LAMBDA a : IF sums[a].amount < 0 THEN 0 ELSE sums[a].amount, rows),
       credit |-> Total(LAMBDA a : IF sums[a].amount < 0 THEN -sums[a].amount ELSE 0, rows)]

(* converted: at n/d, rounded to even. *)
Converted(x, rate) ==
  LET n == x * rate[1]  q == n \div rate[2]  r == n % rate[2]
  IN  IF 2 * r < rate[2] \/ (2 * r = rate[2] /\ q % 2 = 0) THEN q ELSE q + 1

(* balance_sheet: each account converted and rounded before anything is added up;
   `price` is the quote of the holding's commodity, {} without one. *)
OwnRows(A, E, asOf, rate, price) ==
  LET sums == Sums(A, E, 0, asOf)
  IN  [a \in {b \in DOMAIN A : A[b].type \notin {"income", "expense"}} |->
        [quantity |-> Sign(A[a].type) * sums[a].quantity,
         amount   |-> Sign(A[a].type) * Converted(sums[a].amount, rate),
         market   |-> IF A[a].holding /\ sums[a].quantity # 0
                      THEN {Sign(A[a].type) * Converted(sums[a].quantity * p, rate) : p \in price} ELSE {}]]

Value(row) == IF row.market = {} THEN row.amount ELSE CHOOSE m \in row.market : TRUE
Roots(A, rows, types) == {a \in DOMAIN rows : A[a].parent = None /\ A[a].type \in types}

BalanceSheet(A, E, asOf, rate, price) ==
  LET sums == Sums(A, E, 0, asOf)
      rows == Rollup(A, OwnRows(A, E, asOf, rate, price))
      AllRows == Roots(A, rows, {"asset", "liability", "equity"})
  IN  [rows        |-> rows,
       assets      |-> Total(LAMBDA a : Value(rows[a]), Roots(A, rows, {"asset"})),
       liabilities |-> Total(LAMBDA a : rows[a].amount, Roots(A, rows, {"liability"})),
       retained    |-> -Total(LAMBDA a : Converted(sums[a].amount, rate), DOMAIN A \ DOMAIN rows),
       unrealised  |-> Total(LAMBDA a : Value(rows[a]) - rows[a].amount, AllRows)]

IncomeStatement(A, E, from, to) ==
  LET sums == Sums(A, E, from, to)
      own  == [a \in {b \in DOMAIN A : A[b].type \in {"income", "expense"}} |->
                 [quantity |-> Sign(A[a].type) * sums[a].quantity,
                  amount   |-> Sign(A[a].type) * sums[a].amount, market |-> {}]]
      rows == Rollup(A, own)
  IN  [rows     |-> rows,
       income   |-> Total(LAMBDA a : rows[a].amount, Roots(A, rows, {"income"})),
       expenses |-> Total(LAMBDA a : rows[a].amount, Roots(A, rows, {"expense"}))]

(* list_accounts_with_balances, closed accounts included: the same sums, rolled up
   over every account. *)
Balances(A, E) ==
  LET sums == Sums(A, E, 0, 99)
  IN  Rollup(A, [a \in DOMAIN A |-> [quantity |-> Sign(A[a].type) * sums[a].quantity,
                                     amount |-> Sign(A[a].type) * sums[a].amount, market |-> {}]])

(* Slip caught by ReportsAddUp: the newest rows are taken from the total with their drafts. *)
WithDrafts(E, rows) == Total(LAMBDA p : p.quantity, rows)
Selected(E, rows) == Total(LAMBDA p : p.quantity, {p \in rows : Booked(E[p.entry])})

(* general_ledger_ordered: the first or the last `limit` postings of an account, each
   with the balance after it, in the account's sign.  Drafts are shown and not counted. *)
Ledger(A, E, a, from, to, limit, drafts, newest) ==
  LET on     == {p \in Postings(E) : p.account = a}
      booked == {p \in on : Booked(E[p.entry])}
      listed == {p \in on : E[p.entry].date \in from..to /\ (drafts \/ Booked(E[p.entry]))}
      order  == SetToSortSeq(listed, LAMBDA p, q : Earlier(p.key, q.key))
      shown  == IF newest THEN SubSeq(order, Len(order) - limit + 1, Len(order))
                ELSE SubSeq(order, 1, limit)
      short  == IF Len(order) <= limit THEN order ELSE shown
      before == Total(LAMBDA p : p.quantity, {p \in booked : E[p.entry].date < from})
      whole  == Total(LAMBDA p : p.quantity, {p \in booked : E[p.entry].date \in from..to})
      opening == IF newest THEN before + whole - Selected(E, Range(short)) ELSE before
      running[i \in 0..Len(short)] ==
        IF i = 0 THEN Sign(A[a].type) * opening
        ELSE running[i - 1] + (IF Booked(E[short[i].entry]) THEN Sign(A[a].type) * short[i].quantity ELSE 0)
  IN  [rows |-> short, running |-> running, closing |-> running[Len(short)]]

(* cashflow: the balance of the bank after each day with an entry, drafts of the period included. *)
Cashflow(E, from, to) ==
  LET Moved(days, sign) ==
        Total(LAMBDA p : sign * p.amount,
              {p \in Postings(E) : p.account = Bank /\ E[p.entry].date \in days /\ sign * p.amount > 0})
      opening == Total(LAMBDA p : p.amount,
                       {p \in Postings(E) : p.account = Bank /\ Booked(E[p.entry]) /\ E[p.entry].date < from})
  IN  [d \in {E[i].date : i \in DOMAIN E} \cap (from..to) |-> opening + Moved(from..d, 1) - Moved(from..d, -1)]

(* reconciliation: the bank's closing balance against the ledger of that day. *)
Difference(E, closing, asOf) ==
  closing - Total(LAMBDA p : p.quantity,
                  {p \in Postings(E) : p.account = Bank /\ Booked(E[p.entry]) /\ E[p.entry].date <= asOf})

(* The expense postings of a period, of entries with a tag. *)
Spending(A, E, from, to, tag) ==
  {p \in Postings(E) : /\ A[p.account].type = "expense" /\ Booked(E[p.entry])
                       /\ E[p.entry].date \in from..to
                       /\ tag = Anything \/ tag \in E[p.entry].tags}

ByClass(A, E, from, to, tag) ==
  [c \in {A[p.account].class : p \in Spending(A, E, from, to, tag)} |->
     Total(LAMBDA p : p.amount, {p \in Spending(A, E, from, to, tag) : A[p.account].class = c})]

(* Under each tag, and under Anything what has none; the rows overlap. *)
ByTag(A, E, from, to, tag) ==
  LET S == Spending(A, E, from, to, tag)
      Tagged(t) == {p \in S : t \in E[p.entry].tags \/ (t = Anything /\ E[p.entry].tags = {})}
  IN  [t \in UNION {E[p.entry].tags : p \in S} \cup {Anything} |-> Total(LAMBDA p : p.amount, Tagged(t))]

(* Slip caught by ReportsAddUp: only the category itself. *)
CategoryOnly(A, E, b) ==
  Total(LAMBDA p : p.amount,
        {p \in Spending(A, E, b.from, b.to, b.tag) :
           /\ b.account = None \/ p.account = b.account
           /\ b.class = Anything \/ A[p.account].class = b.class})

(* progress: what a budget's category and its descendants, class and tag spent in its period. *)
Spent(A, E, b) ==
  Total(LAMBDA p : p.amount,
        {p \in Spending(A, E, b.from, b.to, b.tag) :
           /\ b.account = None \/ p.account \in Subtree(A, b.account)
           /\ b.class = Anything \/ A[p.account].class = b.class})

(* beancount: every booked entry, whatever is archived or closed. *)
Exported(E) == {p \in Postings(E) : Booked(E[p.entry])}

(***************************************************************************)
(* What the reports owe each other, for a chart and a journal.              *)
(***************************************************************************)

SheetAddsUp(A, E, asOf, rate, price) ==
  LET own   == OwnRows(A, E, asOf, rate, price)
      sheet == BalanceSheet(A, E, asOf, rate, price)
      Assets(a) == {b \in Subtree(A, a) : b \in DOMAIN own}
  IN  /\ \A a \in DOMAIN own : Value(sheet.rows[a]) = Total(LAMBDA b : Value(own[b]), Assets(a))
      /\ rate = <<1, 1>> => sheet.assets = sheet.liabilities + sheet.retained + sheet.unrealised

LedgerAddsUp(A, E, a, from, to, limit, drafts, newest) ==
  LET ledger == Ledger(A, E, a, from, to, limit, drafts, newest)
      UpTo(k) == {p \in Postings(E) : p.account = a /\ Booked(E[p.entry]) /\ (p.key = k \/ Earlier(p.key, k))}
  IN  \A i \in DOMAIN ledger.rows :
        ledger.running[i] = Sign(A[a].type) * Total(LAMBDA p : p.quantity, UpTo(ledger.rows[i].key))

SpendingAddsUp(A, E, from, to, budgets) ==
  LET statement == IncomeStatement(A, E, from, to)
      classes   == ByClass(A, E, from, to, Anything)
  IN  /\ SumFunction(classes) = statement.expenses
      /\ Cardinality(UNION {E[i].tags : i \in DOMAIN E}) = 1 =>
           SumFunction(ByTag(A, E, from, to, Anything)) = statement.expenses
      /\ \A b \in budgets :
           b.tag = Anything /\ b.from = from /\ b.to = to =>
             /\ b.account # None => Spent(A, E, b) = statement.rows[b.account].amount
             /\ b.class \in DOMAIN classes => Spent(A, E, b) = classes[b.class]
=============================================================================
