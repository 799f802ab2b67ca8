------------------------------- MODULE Chart -------------------------------
(***************************************************************************)
(* The chart of accounts of one vault and everything that refers to it.     *)
(* crates/means-core/src: accounts.rs, budgets.rs; the postings of           *)
(* journal.rs that a change of the chart moves.                             *)
(*                                                                         *)
(* Account 1 is a bank account, 2 a holding below it, 3 a system category    *)
(* of expenses, and 4 starts as a category with at most one entry.  Paths    *)
(* are unique, so a path is its account.  Quantities in a currency other     *)
(* than the vault's are worth twice as much.                                 *)
(***************************************************************************)
EXTENDS Reports

CONSTANTS Names, Units, Home,  \* Home \in Units: the vault's currency
          Payees, Tags, Dates,
          Moves,                 \* lists of two accounts that a remap merges into one
          MaxAccount, MaxEntry, MaxEdits

Categories == {"expense", "income"}
Ids     == 1..MaxAccount
Holding == 2
System  == 3

VARIABLES vault, \* accounts, entries, and the accounts a rule, a template and a budget name
          edits  \* changes so far, at most MaxEdits

vars == <<vault, edits>>

Accounts == vault.accounts
Entries  == vault.entries

Account(parent, name, type, unit) ==
  [parent |-> parent, name |-> name, type |-> type, unit |-> unit, class |-> "",
   placeholder |-> FALSE, closed |-> FALSE, holding |-> FALSE]

NoBudget == [account |-> None, class |-> Anything, tag |-> Anything, from |-> 0, to |-> 0]

Fresh ==
  <<Account(None, "bank", "asset", Home),
    [Account(Bank, "fund", "asset", "share") EXCEPT !.holding = TRUE],
    Account(None, "system", "expense", Home),
    Account(None, "food", "expense", Home)>>

Entry(accounts, n, a, date, status, payee, tags) ==
  [date |-> date, account |-> a, quantity |-> n,
   amount |-> n * (IF accounts[a].unit = Home THEN 1 ELSE 2), status |-> status, payee |-> payee,
   tags |-> tags, reverses |-> 0, reconciled |-> FALSE]

Init ==
  /\ edits = 0
  /\ \E entries \in {<<>>} \cup {<<Entry(Fresh, 1, 4, Min(Dates), "posted", p, {})>> : p \in Payees} :
       vault = [accounts |-> Fresh, entries |-> entries, rule |-> None, template |-> None, budget |-> NoBudget]

Open    == edits < MaxEdits
Edit(v) == Open /\ vault' = v /\ edits' = edits + 1

(***************************************************************************)
(* Accounts.                                                               *)
(***************************************************************************)

(* Ids are rowids: the id of a deleted account that was the last is used again. *)
NewId(v) == 1 + Max(DOMAIN v.accounts)
Children(v, a) == {b \in DOMAIN v.accounts : v.accounts[b].parent = a}
Posted(v, a)   == {i \in DOMAIN v.entries : v.entries[i].account = a}
(* The unique index on the names below one parent. *)
Free(v, a, parent, name, type) ==
  \A b \in DOMAIN v.accounts \ {a} : <<v.accounts[b].parent, v.accounts[b].name, v.accounts[b].type>> # <<parent, name, type>>

Put(v, a, account) == [v EXCEPT !.accounts = [b \in DOMAIN @ \cup {a} |-> IF b = a THEN account ELSE @[b]]]

CreateAccount ==
  /\ Open
  /\ \E parent \in DOMAIN Accounts \cup {None}, name \in Names, type \in Categories, unit \in Units, p \in BOOLEAN :
       /\ NewId(vault) \in Ids /\ Free(vault, None, parent, name, type)
       /\ parent # None => Accounts[parent].type = type
       /\ Edit(Put(vault, NewId(vault), [Account(parent, name, type, unit) EXCEPT !.placeholder = p]))

(* Slip caught by NothingDangles: an account is kept only from being its own parent. *)
ParentIsNotItself(a, parent) ==
  parent # None => parent # a /\ Accounts[parent].type = Accounts[a].type
MayMove(a, parent) ==
  parent # None => parent # a /\ Accounts[parent].type = Accounts[a].type /\ a \notin Above(Accounts, parent)

(* update_account: a new place, class, commodity or use; the last two only without postings. *)
Move ==
  \E a \in DOMAIN Accounts, parent \in DOMAIN Accounts \cup {None} :
    /\ MayMove(a, parent) /\ Free(vault, a, parent, Accounts[a].name, Accounts[a].type)
    /\ Edit([vault EXCEPT !.accounts[a].parent = parent])

Classify ==
  \E a \in DOMAIN Accounts, class \in {"", "fixed"} :
    Accounts[a].type = "expense" /\ Edit([vault EXCEPT !.accounts[a].class = class])

Reuse ==
  /\ Open
  /\ \E a \in DOMAIN Accounts, unit \in Units, p \in BOOLEAN :
       /\ Posted(vault, a) = {} /\ a \notin {Bank, Holding}
       /\ Edit([vault EXCEPT !.accounts[a].unit = unit, !.accounts[a].placeholder = p])

CloseAccount ==
  \E a \in DOMAIN Accounts \ {System} : Edit([vault EXCEPT !.accounts[a].closed = ~@])

(***************************************************************************)
(* Charts: an account for every path, the ones above it placeholders.       *)
(***************************************************************************)

Find(v, parent, name, type) ==
  {a \in DOMAIN v.accounts : v.accounts[a].parent = parent /\ v.accounts[a].name = name /\ v.accounts[a].type = type}

(* ensure_account, one name of a path: {} when the ids of the model are used up. *)
Ensured(v, parent, name, type, place) ==
  IF Find(v, parent, name, type) # {} THEN {v}
  ELSE IF NewId(v) \notin Ids THEN {}
  ELSE {Put(v, NewId(v), [Account(parent, name, type, Home) EXCEPT !.placeholder = place = "above"])}

(* Slip caught by NothingDangles: the chart's word is taken although postings are there. *)
PlaceholderAnyway(v, a, placeholder) ==
  IF placeholder THEN [v EXCEPT !.accounts[a].placeholder = TRUE] ELSE v
(* "An existing account with postings stays a normal account even when the chart
   wants a placeholder." (accounts.rs:893) *)
AsPlaceholder(v, a, placeholder) ==
  IF placeholder /\ Posted(v, a) = {} THEN [v EXCEPT !.accounts[a].placeholder = TRUE] ELSE v

(* A node of a chart: a path of one or two names. *)
Nodes == [path : {<<n>> : n \in Names} \cup {<<n, m>> : n, m \in Names}, type : Categories, placeholder : BOOLEAN]

Top(v, node) == CHOOSE a \in Find(v, None, node.path[1], node.type) : TRUE
Leaf(v, node) ==
  IF Len(node.path) = 1 THEN Top(v, node)
  ELSE CHOOSE a \in Find(v, Top(v, node), node.path[2], node.type) : TRUE

WithTop(v, node)  == Ensured(v, None, node.path[1], node.type, IF Len(node.path) = 1 THEN "leaf" ELSE "above")
WithPath(v, node) ==
  IF Len(node.path) = 1 THEN WithTop(v, node)
  ELSE UNION {Ensured(w, Top(w, node), node.path[2], node.type, "leaf") : w \in WithTop(v, node)}
WithNode(v, node) == {AsPlaceholder(w, Leaf(w, node), node.placeholder) : w \in WithPath(v, node)}

ApplyChart == Open /\ \E node \in Nodes : \E v \in WithNode(vault, node) : v # vault /\ Edit(v)

(***************************************************************************)
(* Merges.                                                                 *)
(***************************************************************************)

SameKind(v, a, b) ==
  \/ v.accounts[a].type \in Categories /\ v.accounts[b].type \in Categories
  \/ v.accounts[a].type = v.accounts[b].type /\ v.accounts[a].unit = v.accounts[b].unit

(* check_merge *)
MayMerge(v, a, b) ==
  /\ a # b /\ ~v.accounts[b].placeholder /\ ~v.accounts[b].closed /\ a # System /\ SameKind(v, a, b)

Redirect(x, a, b) == IF x = a THEN b ELSE x

(* Slip caught by NothingDangles: the lines of a template, kept as text, are forgotten. *)
ForgetTemplates(v, a, b) ==
  [v EXCEPT !.entries = [i \in DOMAIN v.entries |-> [v.entries[i] EXCEPT !.account = Redirect(@, a, b)]],
            !.rule = Redirect(@, a, b)]
Redirected(v, a, b) ==
  [v EXCEPT !.entries = [i \in DOMAIN v.entries |-> [v.entries[i] EXCEPT !.account = Redirect(@, a, b)]],
            !.rule = Redirect(@, a, b), !.template = Redirect(@, a, b)]

(* merge_in: {} when it fails.  A source with children stays as an empty placeholder,
   with its budget; another goes, with its budget moved to the target. *)
Merged(v, a, b) ==
  LET w == Redirected(v, a, b)
  IN  IF Children(v, a) # {} THEN {[w EXCEPT !.accounts[a].placeholder = TRUE]}
      ELSE IF v.budget.account = a /\ v.accounts[b].type # "expense" THEN {}
      ELSE {[w EXCEPT !.budget.account = Redirect(@, a, b),
                      !.accounts = [c \in DOMAIN @ \ {a} |-> @[c]]]}

Merge ==
  \E a, b \in DOMAIN Accounts :
    /\ a \notin {Bank, Holding} /\ MayMerge(vault, a, b)
    /\ \E v \in Merged(vault, a, b) : Edit(v)

(* remap_accounts: the chart, then the moves in their order; one that may not be made is
   skipped, one that fails undoes everything. *)
Remap ==
  /\ Open
  /\ \E node \in Nodes, moves \in Moves :
       LET Try(vs, a) ==
             UNION {IF a \in DOMAIN v.accounts \ {Bank, Holding} /\ MayMerge(v, a, Leaf(v, node))
                    THEN Merged(v, a, Leaf(v, node)) ELSE {v} : v \in vs}
       IN  \E v \in Try(Try(WithNode(vault, node), moves[1]), moves[2]) : v # vault /\ Edit(v)

(***************************************************************************)
(* Entries, and what names an account.                                     *)
(***************************************************************************)

Takes(v, a) == ~v.accounts[a].placeholder /\ ~v.accounts[a].closed

Book ==
  /\ Open
  /\ \E a \in DOMAIN Accounts \ {Bank}, d \in Dates, payee \in Payees, tags \in {{}} \cup {{t} : t \in Tags}, s \in {"draft", "posted"} :
       LET n == Len(Entries) + 1
       IN  /\ n <= MaxEntry /\ Takes(vault, a) /\ Takes(vault, Bank)
           /\ Edit([vault EXCEPT !.entries = Append(@, Entry(Accounts, n, a, d, s, payee, tags))])

Confirm ==
  \E i \in DOMAIN Entries :
    /\ Entries[i].status = "draft" /\ Takes(vault, Entries[i].account) /\ Takes(vault, Bank)
    /\ Edit([vault EXCEPT !.entries[i].status = "posted"])

(* void_entry: a posted entry and its reversal, with the accounts as they are now. *)
Void ==
  \E i \in DOMAIN Entries, d \in Dates :
    /\ Entries[i].status = "posted" /\ Len(Entries) < MaxEntry
    /\ Takes(vault, Entries[i].account) /\ Takes(vault, Bank)
    /\ Edit([vault EXCEPT !.entries =
         Append([@ EXCEPT ![i].status = "void"],
                [Entries[i] EXCEPT !.date = d, !.quantity = -@, !.amount = -@, !.reverses = i, !.reconciled = FALSE])])

Reconcile ==
  \E i \in DOMAIN Entries : ~Entries[i].reconciled /\ Edit([vault EXCEPT !.entries[i].reconciled = TRUE])

(* Slip caught by KeepsEvidence: only the first of the postings is looked at. *)
FirstIsFree(is) == is # {} => ~Entries[Min(is)].reconciled
AllAreFree(is) == \A i \in is : ~Entries[i].reconciled

(* recategorize_filtered: the postings of one category, of a payee or with a text, to
   another of the same commodity, and a tag; all of them or none. *)
Matching(a, payee) == {i \in Posted(vault, a) : Entries[i].status # "void" /\ payee \in {Anything, Entries[i].payee}}
Recategorized(is, b, tags) ==
  [vault EXCEPT !.entries = [i \in DOMAIN Entries |->
     IF i \in is THEN [Entries[i] EXCEPT !.account = b, !.tags = @ \cup tags] ELSE Entries[i]]]

Recategorize ==
  /\ Open
  /\ \E a, b \in DOMAIN Accounts, payee \in Payees \cup {Anything}, tags \in {{}} \cup {{t} : t \in Tags} :
       LET is == Matching(a, payee)
       IN  /\ a # b /\ Takes(vault, b) /\ SameKind(vault, a, b) /\ Accounts[a].unit = Accounts[b].unit
           /\ is # {} /\ AllAreFree(is)
           /\ Edit(Recategorized(is, b, tags))

TagAccount ==
  \E a \in DOMAIN Accounts, t \in Tags :
    Edit([vault EXCEPT !.entries = [i \in DOMAIN Entries |->
      IF Entries[i].account = a /\ Entries[i].status # "void" THEN [Entries[i] EXCEPT !.tags = @ \cup {t}]
      ELSE Entries[i]]])

SaveRule     == \E a \in DOMAIN Accounts : ~Accounts[a].placeholder /\ Edit([vault EXCEPT !.rule = a])
SaveTemplate == \E a \in DOMAIN Accounts : Edit([vault EXCEPT !.template = a])

(* budgets::save: a category of expenses, a class, or a tag alone. *)
SaveBudget ==
  /\ Open
  /\ \E a \in DOMAIN Accounts \cup {None}, class \in {Anything, "fixed"}, tag \in Tags \cup {Anything}, from, to \in Dates :
       /\ from <= to
       /\ \/ a # None /\ class = Anything /\ Accounts[a].type = "expense"
          \/ a = None /\ class # Anything
          \/ a = None /\ class = Anything /\ tag # Anything
       /\ Edit([vault EXCEPT !.budget = [account |-> a, class |-> class, tag |-> tag, from |-> from, to |-> to]])

DeleteBudget == vault.budget # NoBudget /\ Edit([vault EXCEPT !.budget = NoBudget])

Next ==
  \/ CreateAccount \/ Move \/ Classify \/ Reuse \/ CloseAccount \/ ApplyChart \/ Merge \/ Remap
  \/ Book \/ Confirm \/ Void \/ Reconcile \/ Recategorize \/ TagAccount
  \/ SaveRule \/ SaveTemplate \/ SaveBudget \/ DeleteBudget

Spec == Init /\ [][Next]_vars

(***************************************************************************)
(* Properties                                                              *)
(***************************************************************************)

(* Whatever is created, moved, merged away or reused: accounts form trees of one type each,
   a rule, a template, a budget and an entry name accounts that exist, a budget a category
   of expenses, and no entry an account that cannot hold postings. *)
NothingDangles ==
  /\ \A a \in DOMAIN Accounts :
       /\ a \notin Above(Accounts, a)
       /\ Accounts[a].parent # None => Accounts[a].parent \in DOMAIN Accounts
                                       /\ Accounts[Accounts[a].parent].type = Accounts[a].type
  /\ {vault.rule, vault.template, vault.budget.account} \subseteq DOMAIN Accounts \cup {None}
  /\ vault.budget.account # None => Accounts[vault.budget.account].type = "expense"
  /\ \A i \in DOMAIN Entries : Entries[i].account \in DOMAIN Accounts /\ ~Accounts[Entries[i].account].placeholder

(* "Reconciled postings retain their account and quantity during recategorization"
   (docs/data-model.md:47). *)
KeepsEvidence ==
  Recategorize =>
    \A i \in DOMAIN Entries : Entries[i].reconciled => vault'.entries[i].account = Entries[i].account

(* Each report agrees with the others for every chart and journal: the trial balance
   balances and is what the export carries, the sheet's rows are what is below them, the windows of a ledger show one
   running balance, classes, tags, budgets and the income statement one spending. *)
ReportsAddUp ==
  /\ LET trial  == TrialBalance(Accounts, Entries, 99)
         Net(a) == Total(LAMBDA p : p.amount, {p \in Exported(Entries) : p.account = a})
     IN  /\ trial.debit = trial.credit
         /\ trial.debit = Total(LAMBDA a : IF Net(a) > 0 THEN Net(a) ELSE 0, DOMAIN Accounts)
  /\ \A rate \in {<<1, 1>>, <<1, 2>>} : SheetAddsUp(Accounts, Entries, 99, rate, {3})
  /\ \A a \in {Bank} \cup {e.account : e \in Range(Entries)}, drafts, newest \in BOOLEAN, n \in 1..2 :
       LedgerAddsUp(Accounts, Entries, a, Max(Dates), 99, n, drafts, newest)
  /\ SpendingAddsUp(Accounts, Entries, vault.budget.from, vault.budget.to, {vault.budget})
  /\ \A d \in DOMAIN Cashflow(Entries, Min(Dates), Max(Dates)) :
       (\A i \in DOMAIN Entries : Booked(Entries[i])) =>
         Difference(Entries, Cashflow(Entries, Min(Dates), Max(Dates))[d], d) = 0
  /\ LET rows == Balances(Accounts, Entries)
     IN  Total(LAMBDA a : rows[a].amount, Roots(Accounts, rows, {"asset"}))
           = BalanceSheet(Accounts, Entries, 99, <<1, 1>>, {}).assets

=============================================================================
