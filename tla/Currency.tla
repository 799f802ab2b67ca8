------------------------------ MODULE Currency ------------------------------
(***************************************************************************)
(* The change of the currency a vault keeps its books in: a preview values   *)
(* every posting anew, and its token applies exactly that.                   *)
(* crates/means-core/src/currency_migration.rs, and of journal.rs,            *)
(* refunds.rs, accounts.rs and rates.rs what leads to it.                     *)
(*                                                                         *)
(* Postings have a place in their entry: 1 is the bank or card, the others    *)
(* are expenses.  Precisions are equal.  A rate is <<n, d>>, exact.           *)
(***************************************************************************)
EXTENDS Integers, Sequences, FiniteSets, SequencesExt

CONSTANTS Currencies,     \* codes
          First,          \* the currency of the vault, and of its expense accounts
          Banks,          \* account -> its currency
          Expenses,       \* accounts
          Quotes,         \* what rates may be known: [from, to, on, rate, import]
          Days, Paid,     \* dates; sums paid, in minor units
          MaxEntry, MaxEdits, MaxFiles

MaxAge == 7  \* days

VARIABLES vault,  \* the database
          shown,  \* the preview on the screen and the vault it was made from
          files,  \* the names of backups that are taken
          edits   \* changes so far

vars == <<vault, shown, files, edits>>

Nothing == [target |-> "", vault |-> <<>>, plan |-> <<>>]
Fx(c)   == "fx " \o c

Unit(v, a) == IF a \in DOMAIN Banks THEN Banks[a] ELSE IF a \in Expenses THEN First ELSE v.fx[a]

Init ==
  /\ vault \in [currency : {First}, entries : {<<>>}, quotes : {{}, {q \in Quotes : ~q.import}}, limit : {3}, locked : {FALSE},
                role : {Fx(First)}, fx : {[a \in {Fx(First)} |-> First]}, note : {0}]
  /\ shown = Nothing /\ files = 0 /\ edits = 0

(***************************************************************************)
(* Rates and rounding.                                                     *)
(***************************************************************************)

Abs(n) == IF n < 0 THEN -n ELSE n

Times(x, rate) ==  \* halves to even
  LET n == x * rate[1]  q == n \div rate[2]  r == n % rate[2]
  IN  IF 2 * r < rate[2] \/ (2 * r = rate[2] /\ q % 2 = 0) THEN q ELSE q + 1

LastQuote(v, from, to, day, age) ==
  LET known == {q \in v.quotes : q.from = from /\ q.to = to /\ q.on <= day}
  IN  {q.rate : q \in {p \in known : (\A o \in known : o.on <= p.on) /\ day - p.on <= age}}

(* quote: the last dated one of the seven days; a snapshot of an export is none. *)
Quote(v, from, to, day) == LastQuote([v EXCEPT !.quotes = {q \in @ : ~q.import}], from, to, day, MaxAge)

Inverted(rates) == {<<r[2], r[1]>> : r \in rates}
Pair(v, from, to, day) ==
  IF from = to THEN {<<1, 1>>}
  ELSE IF Quote(v, from, to, day) # {} THEN Quote(v, from, to, day)
  ELSE Inverted(Quote(v, to, from, day))

(* historical: of the pair, or across a third currency; {} stops the command. *)
Historical(v, from, to, day) ==
  LET Cross(via) == {<<a[1] * b[1], a[2] * b[2]>> : a \in Pair(v, from, via, day), b \in Pair(v, via, to, day)}
  IN  IF Pair(v, from, to, day) # {} THEN Pair(v, from, to, day)
      ELSE UNION {Cross(via) : via \in Currencies \ {from, to}}

(***************************************************************************)
(* The new value of one entry.                                             *)
(***************************************************************************)

(* evidence: what a posting says of itself in the target currency. *)
Evidence(v, p, target) ==
  IF Unit(v, p.account) = target THEN {p.quantity}
  ELSE {w.amount : w \in {x \in p.valued : x.unit = target}}

(* The rate of the transaction itself: the one ratio all evidenced postings agree on. *)
Anchor(v, e, target) ==
  LET P == {k \in DOMAIN e.postings : e.postings[k].amount # 0 /\ ~e.postings[k].missing}
      ratios == UNION {{<<k, m>> : m \in Evidence(v, e.postings[k], target)} : k \in P}
      Agree(x, y) == x[2] * e.postings[y[1]].amount = y[2] * e.postings[x[1]].amount
  IN  IF e.kind # "plain" \/ ratios = {} \/ \E x, y \in ratios : ~Agree(x, y) THEN {}
      ELSE LET x == CHOOSE x \in ratios : \A y \in ratios : x[1] <= y[1]
               amount == e.postings[x[1]].amount
           IN  IF x[2] * amount <= 0 THEN {} ELSE {<<Abs(x[2]), Abs(amount)>>}

Linked(e, p) == e.kind = "reversal" \/ (e.kind = "refund" /\ p.link # 0)

(* Slip caught by BooksAgree: a refund or reversal is valued like any other entry. *)
NeverLinked(e, p) == FALSE
KeepsBookValue(e, p) == Linked(e, p)

(* The values a posting may get: one, or none when the entry is refused. *)
NewValue(v, e, p, target, done, anchor) ==
  IF KeepsBookValue(e, p)
  THEN LET original == v.entries[e.ref].postings
       IN  IF /\ p.link \in DOMAIN original
              /\ original[p.link].account = p.account /\ original[p.link].quantity = -p.quantity
           THEN {-done[e.ref].after[p.link]} ELSE {}
  ELSE IF e.kind = "refund" /\ p.account \notin DOMAIN Banks /\ ~p.fx THEN {}
  ELSE IF Evidence(v, p, target) # {} THEN Evidence(v, p, target)
  ELSE IF anchor # {} THEN {Times(p.amount, r) : r \in anchor}
  ELSE IF p.missing THEN {}
  ELSE {Times(p.amount, r) : r \in Historical(v, v.currency, target, e.date)}

SameSign(x, y) == x = 0 \/ y = 0 \/ (x < 0) = (y < 0)
Fits(v, p, target, x) == (Unit(v, p.account) = target => x = p.quantity) /\ SameSign(x, p.quantity)

TakesRounding(e, direct, anchor, rest) ==
  e.kind = "plain" /\ (direct = {} \/ anchor # {}) /\ Abs(rest) <= Len(e.postings)

(* The new values of an entry, of each posting in turn. *)
NewValues(v, e, target, done, anchor) ==
  FoldLeft(LAMBDA sofar, p :
             {Append(s, x) : s \in sofar, x \in {y \in NewValue(v, e, p, target, done, anchor) : Fits(v, p, target, y)}},
           {<<>>}, e.postings)

(* The place of the last balancing split, if it may take what is left. *)
Taker(v, e, target, direct, after, rest) ==
  LET open == {k \in DOMAIN e.postings \ direct : e.postings[k].balance /\ Unit(v, e.postings[k].account) # target}
  IN  {k \in open : (\A j \in open : j <= k)
                    /\ (after[k] + rest = 0 \/ SameSign(after[k] + rest, e.postings[k].quantity))}

(* convert_entry: the new values and what is left for the exchange difference; {} when refused. *)
Converted(v, e, target, done) ==
  LET P      == DOMAIN e.postings
      direct == {k \in P : Evidence(v, e.postings[k], target) # {}}
      anchor == Anchor(v, e, target)
      With(after, rest) ==
        LET taker == IF TakesRounding(e, direct, anchor, rest) THEN Taker(v, e, target, direct, after, rest) ELSE {}
        IN  IF taker = {} THEN [after |-> after, fx |-> rest]
            ELSE [after |-> [k \in P |-> IF k \in taker THEN after[k] + rest ELSE after[k]], fx |-> 0]
  IN  IF (\E k \in P : e.postings[k].missing) /\ direct # P /\ e.kind # "reversal" THEN {}
      ELSE {With(after, -FoldLeft(+, 0, after)) : after \in NewValues(v, e, target, done, anchor)}

(* build_preview: every entry after the one it refers to; {} when any is refused. *)
Plans(v, target) ==
  LET to[n \in 0..Len(v.entries)] ==
        IF n = 0 THEN {<<>>}
        ELSE UNION {{Append(done, c) : c \in Converted(v, v.entries[n], target, done)} : done \in to[n - 1]}
      limits == {Times(v.limit, r) : r \in Historical(v, v.currency, target, CHOOSE d \in Days : \A x \in Days : d <= x)}
  IN  IF target = v.currency \/ (v.fx[v.role] # target /\ Fx(target) \in DOMAIN v.fx) THEN {}
      ELSE {[entries |-> t, limit |-> l] : t \in to[Len(v.entries)], l \in limits}

(* Slip caught by AppliesWhatWasShown: the token is of what the screen shows. *)
FiguresOnly(v, target, plan) == <<target, plan>>
(* "A changed ledger requires a fresh preview, even when displayed totals agree."
   (currency_migration.rs:299) *)
Token(v, target, plan) == <<target, plan, v>>

Preview ==
  \E target \in Currencies : \E plan \in Plans(vault, target) :
    /\ shown' = [target |-> target, vault |-> vault, plan |-> plan]
    /\ UNCHANGED <<vault, files, edits>>

(* apply_plan *)
Migrated(v, target, plan) ==
  LET fx == IF v.fx[v.role] = target THEN v.role ELSE Fx(target)
      Post(e, c) ==
        [k \in DOMAIN e.postings |-> [e.postings[k] EXCEPT !.amount = c.after[k], !.missing = FALSE]]
        \o IF c.fx = 0 THEN <<>>
           ELSE <<[account |-> fx, quantity |-> c.fx, amount |-> c.fx, missing |-> FALSE, valued |-> {},
                   balance |-> FALSE, fx |-> TRUE,
                   link |-> IF e.kind = "reversal" THEN Len(e.postings) + 1 ELSE 0]>>
  IN  [v EXCEPT !.currency = target, !.limit = plan.limit, !.role = fx,
                !.fx = [a \in DOMAIN @ \cup {fx} |-> IF a \in DOMAIN @ THEN @[a] ELSE target],
                !.entries = [i \in DOMAIN @ |-> [@[i] EXCEPT !.postings = Post(v.entries[i], plan.entries[i])]]]

(* apply_file, after the token and the lock have been looked at in an immediate
   transaction: a new private file, the copy, and the commit. *)
Migrations ==
  {Migrated(vault, shown.target, plan) :
     plan \in {p \in Plans(vault, shown.target) : Token(vault, shown.target, p) = Token(shown.vault, shown.target, shown.plan)}}

Apply ==
  \E includeLocked \in BOOLEAN :
    /\ shown # Nothing /\ files < MaxFiles
    /\ vault.locked /\ vault.entries # <<>> => includeLocked
    /\ vault' \in Migrations
    /\ files' = files + 1
    /\ UNCHANGED <<shown, edits>>

(* The command ends between the two: the transaction is rolled back, the name is taken. *)
CrashInApply ==
  /\ shown # Nothing /\ files < MaxFiles /\ Migrations # {}
  /\ files' = files + 1
  /\ UNCHANGED <<vault, shown, edits>>

(***************************************************************************)
(* Other changes of the books.                                             *)
(***************************************************************************)

Edit(v) == edits < MaxEdits /\ vault' = v /\ edits' = edits + 1 /\ UNCHANGED <<shown, files>>

(* rate_for, within the books: any age, and snapshots too. *)
Rates(v, from, to, day) ==
  IF from = to THEN {<<1, 1>>}
  ELSE IF LastQuote(v, from, to, day, day) # {} THEN LastQuote(v, from, to, day, day)
  ELSE Inverted(LastQuote(v, to, from, day, day))
Valued(v, x, from, to, day) ==
  IF Rates(v, from, to, day) = {} THEN x ELSE Times(x, CHOOSE r \in Rates(v, from, to, day) : TRUE)
Missing(v, from, to, day) == Rates(v, from, to, day) = {}

Posting(v, a, q, amount, missing, link) ==
  [account |-> a, quantity |-> q, amount |-> amount, missing |-> missing, valued |-> {},
   balance |-> FALSE, fx |-> FALSE, link |-> link]

Worth(told, unit, amount) == IF told THEN {[unit |-> unit, amount |-> amount]} ELSE {}

(* A payment split over two categories; the last split balances the entry.  The first two
   postings may tell what they are worth in another currency. *)
Book ==
  \E a \in DOMAIN Banks, c \in Expenses, q \in Paid, day \in Days :
  \E u \in Currencies \ {vault.currency}, known \in 0..2 :
    LET v == vault
        paid  == Valued(v, -q, Banks[a], v.currency, day)
        part  == Valued(v, 1, First, v.currency, day)
        rest  == -paid - part
        quant == Valued(v, rest, v.currency, First, day)
        entry == <<[Posting(v, a, -q, paid, Missing(v, Banks[a], v.currency, day), 0) EXCEPT !.valued = Worth(known > 0, u, -q)],
                   [Posting(v, c, 1, part, Missing(v, First, v.currency, day), 0) EXCEPT !.valued = Worth(known > 1, u, 2)],
                   [Posting(v, c, quant, rest, Missing(v, v.currency, First, day), 0) EXCEPT !.balance = TRUE]>>
    IN  /\ Len(v.entries) < MaxEntry /\ rest # 0 /\ quant # 0
        /\ Edit([v EXCEPT !.entries = Append(@, [kind |-> "plain", ref |-> 0, date |-> day, void |-> FALSE, postings |-> entry])])

Refunds(v, i) == {j \in DOMAIN v.entries : v.entries[j].kind = "refund" /\ v.entries[j].ref = i /\ ~v.entries[j].void}

(* refunds::link: the credit at the value of its own day, the rest as it was booked,
   and the difference on the exchange account. *)
Refund ==
  \E i \in DOMAIN vault.entries, day \in Days :
    LET e      == vault.entries[i]
        bank   == e.postings[1]
        amount == Valued(vault, -bank.quantity, Banks[bank.account], vault.currency, day)
        rest   == [k \in 2..Len(e.postings) |-> Posting(vault, e.postings[k].account, -e.postings[k].quantity, -e.postings[k].amount, FALSE, k)]
        sum    == amount + FoldFunction(+, 0, [k \in DOMAIN rest |-> rest[k].amount])
        credit == Posting(vault, bank.account, -bank.quantity, amount, FALSE, 0)
        fx     == [Posting(vault, vault.role, -sum, -sum, FALSE, 0) EXCEPT !.fx = TRUE]
    IN  /\ Len(vault.entries) < MaxEntry /\ e.kind = "plain" /\ ~e.void /\ e.date <= day /\ Refunds(vault, i) = {}
        /\ ~Missing(vault, Banks[bank.account], vault.currency, day)
        /\ Edit([vault EXCEPT !.entries = Append(@,
             [kind |-> "refund", ref |-> i, date |-> day, void |-> FALSE,
              postings |-> <<credit>> \o [k \in 1..Len(e.postings) - 1 |-> rest[k + 1]] \o IF sum = 0 THEN <<>> ELSE <<fx>>])])

Void ==
  \E i \in DOMAIN vault.entries :
    LET e == vault.entries[i]
        Negated(k) == Posting(vault, e.postings[k].account, -e.postings[k].quantity, -e.postings[k].amount, FALSE, k)
    IN  /\ Len(vault.entries) < MaxEntry /\ e.kind # "reversal" /\ ~e.void
        /\ Edit([vault EXCEPT !.entries = Append([@ EXCEPT ![i].void = TRUE],
             [kind |-> "reversal", ref |-> i, date |-> e.date, void |-> FALSE,
              postings |-> [k \in DOMAIN e.postings |-> Negated(k)]])])

(* recategorize_filtered: whatever is not void, reversals and refunds too. *)
Recategorize ==
  \E i \in DOMAIN vault.entries, a, b \in Expenses :
    /\ a # b /\ ~vault.entries[i].void
    /\ Edit([vault EXCEPT !.entries[i].postings =
         [k \in DOMAIN @ |-> IF @[k].account = a THEN [@[k] EXCEPT !.account = b] ELSE @[k]]])

SetPrice ==
  \E q \in Quotes : Edit([vault EXCEPT !.quotes = {p \in @ : <<p.from, p.to, p.on>> # <<q.from, q.to, q.on>>} \cup {q}])

(* A change no figure of the preview shows: of a payee, a tag, a setting. *)
Note == Edit([vault EXCEPT !.note = 1 - @])

Lock == Edit([vault EXCEPT !.locked = ~@])

Next ==
  \/ Preview \/ Apply \/ CrashInApply
  \/ Book \/ Refund \/ Void \/ Recategorize \/ SetPrice \/ Note \/ Lock

Spec == Init /\ [][Next]_vars

(***************************************************************************)
(* Properties                                                              *)
(***************************************************************************)

(* "A void reversal negates the migrated original, including new FX postings", "Expense
   refunds must cancel their original expense book values" (docs/currency-migration.md),
   every entry sums to nothing, and what is held in the currency of the books is worth
   itself: before and after any number of migrations. *)
BooksAgree ==
  \A i \in DOMAIN vault.entries :
    LET e == vault.entries[i]
        of == vault.entries[e.ref].postings
    IN  /\ FoldFunction(+, 0, [k \in DOMAIN e.postings |-> e.postings[k].amount]) = 0
        /\ \A k \in DOMAIN e.postings :
             /\ Unit(vault, e.postings[k].account) = vault.currency => e.postings[k].amount = e.postings[k].quantity
             /\ SameSign(e.postings[k].amount, e.postings[k].quantity)
             /\ Linked(e, e.postings[k]) =>
                  e.postings[k].link \in DOMAIN of /\ of[e.postings[k].link].amount = -e.postings[k].amount

(* "Evidenced target amounts remain exact; exchange differences stay explicit": without a
   link a posting gets its evidence, or its old value at one rate up to a unit for each
   posting of its entry. *)
Explained(v, w, target, i, k) ==
  LET e == v.entries[i]  p == e.postings[k]  new == w.entries[i].postings[k].amount
      known == Evidence(v, p, target)
  IN  \/ Linked(e, p)
      \/ known # {} /\ new \in known
      \/ known = {} /\ \E r \in Anchor(v, e, target) \cup Historical(v, v.currency, target, e.date) :
           Abs(new - Times(p.amount, r)) <= Len(e.postings)

UsesEvidence ==
  Apply => \A i \in DOMAIN vault.entries : \A k \in DOMAIN vault.entries[i].postings :
             Explained(vault, vault', shown.target, i, k)

(* What is applied is what was shown, to the very books it was shown for. *)
AppliesWhatWasShown ==
  Apply => vault = shown.vault /\ vault' = Migrated(shown.vault, shown.target, shown.plan)
=============================================================================
