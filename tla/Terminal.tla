------------------------------ MODULE Terminal ------------------------------
(***************************************************************************)
(* The review and capture screens of the terminal (crates/means-tui/src/    *)
(* app.rs) against the server that holds the books (means-server/grpc.rs,   *)
(* means-core/journal.rs confirm_posting), while imports, rules and other   *)
(* terminals change them.                                                  *)
(*                                                                         *)
(* The terminal works on lists that it read some time ago; each list is     *)
(* read by a call of its own that may fail and leave the old one.  A        *)
(* handler runs between two keys; a dialog remembers what it was opened     *)
(* for.  `commits` counts how often the preview on the screen was booked.   *)
(***************************************************************************)
EXTENDS Integers, Sequences, FiniteSets

CONSTANTS Vaults,   \* entities, numbers: the server lists them in this order
          Cats,     \* category names
  Given,    \* the categories at the start, <<vault, name>>
          Texts,    \* what payee_key keeps of a payee
          Amounts,  \* amounts of a draft
          MaxEntry, \* entry ids are 1..MaxEntry
          MaxAudit, \* the server's books are written at most this often
          NoVault   \* entity_id() of an empty list

VARIABLES
  rows,     \* the server's entries, by id
  chart,    \* the server's categories, <<vault, name>>
  open,     \* vaults that are not archived
  price,    \* an exchange rate: no audit row tells that it changed
  audit,    \* the largest id of the audit log
  vaults, at, accounts, drafts, fresh, oldest, sel, \* what the terminal shows
  capture,  \* the capture form: the account's vault, the category
  modal,    \* the dialog on top
  commits

server == <<rows, chart, open, price, audit>>
lists  == <<vaults, at, accounts, drafts, fresh>>
vars   == <<server, lists, oldest, sel, capture, modal, commits>>

Ids      == 1..MaxEntry
Listable == Vaults \X Cats
Suspense == "Uncategorized"
NoRow    == [status |-> "none", vault |-> NoVault, text |-> {}, amount |-> 0, to |-> {}, worth |-> 0, reviewed |-> FALSE]
Blank    == [account |-> NoVault, to |-> {}]
NoModal  == [kind |-> "none"]

Init ==
  /\ rows = [i \in Ids |-> NoRow] /\ chart = Given /\ open = Vaults /\ price = 1 /\ audit = 0
  /\ vaults = <<>> /\ at = 0 /\ accounts = {} /\ drafts = <<>> /\ fresh = <<>>
  /\ oldest = FALSE /\ sel = 0 /\ capture = Blank /\ modal = NoModal /\ commits = 0

(***************************************************************************)
(* The server.                                                             *)
(***************************************************************************)

Live  == {i \in Ids : rows[i].status # "none"}
NewId == 1 + (IF Live = {} THEN 0 ELSE CHOOSE i \in Live : \A k \in Live : k <= i)

Logged(change) == audit < MaxAudit /\ audit' = audit + 1 /\ change

Import(v, text, amount) ==
  /\ NewId \in Ids
  /\ rows' = [rows EXCEPT ![NewId] = [NoRow EXCEPT !.status = "draft", !.vault = v, !.text = {text},
                                                   !.amount = amount, !.to = {Suspense}, !.worth = price]]
  /\ UNCHANGED <<chart, open, price>>

Remove(i) ==
  /\ i \in Live /\ rows[i].status = "draft"
  /\ rows' = [rows EXCEPT ![i] = NoRow]
  /\ UNCHANGED <<chart, open, price>>

(* A rule, or somebody else, books drafts without a review, or edits one. *)
Booked(who, to) == [i \in Ids |-> IF i \in who THEN [rows[i] EXCEPT !.status = "posted", !.to = {to}, !.worth = price] ELSE rows[i]]
BookAlike(v, text, to) ==
  /\ rows' = Booked({i \in Live : rows[i].status = "draft" /\ rows[i].vault = v /\ rows[i].text = {text}}, to)
  /\ <<v, to>> \in chart /\ UNCHANGED <<chart, open, price>>
Retag(i, text) == i \in Live /\ rows' = [rows EXCEPT ![i].text = {text}] /\ UNCHANGED <<chart, open, price>>
Archive(v)     == open' = open \ {v} /\ UNCHANGED <<rows, chart, price>>
ApplyChart(a)  == chart' = chart \cup {a} /\ UNCHANGED <<rows, open, price>>

Reprice == price' = 3 - price /\ UNCHANGED <<rows, chart, open, audit>>

Elsewhere ==
  /\ \/ \E v \in Vaults, t \in Texts, n \in Amounts : Logged(Import(v, t, n))
     \/ \E i \in Ids : Logged(Remove(i)) \/ \E t \in Texts : Logged(Retag(i, t))
     \/ \E v \in Vaults, t \in Texts, c \in Cats : Logged(BookAlike(v, t, c))
     \/ \E v \in open : Logged(Archive(v))
     \/ Reprice
  /\ UNCHANGED <<lists, oldest, sel, capture, modal, commits>>

(* A posting proposal: a draft (or a booked entry) gets its categories, or the capture
   form becomes an entry.  A split says the total that its parts were cut from; a plain
   category takes whatever the amount is, which is total 0. *)
Categorize(i, to, total, existing) ==
  [op |-> "categorize", id |-> i, vault |-> NoVault, from |-> NoVault, to |-> to, total |-> total, existing |-> existing]
Capture(v, account, to) ==
  [op |-> "capture", id |-> 0, vault |-> v, from |-> account, to |-> to, total |-> 0, existing |-> FALSE]

IdOf(r) == IF r.op = "capture" THEN NewId ELSE r.id

Acceptable(r) ==
  IF r.op = "capture" THEN NewId \in Ids /\ r.from = r.vault /\ \A a \in r.to : a[1] = r.vault
  ELSE /\ r.id \in Live
       /\ r.existing \/ rows[r.id].status = "draft"
       /\ \A a \in r.to : a[1] = rows[r.id].vault
       /\ r.total \in {0, rows[r.id].amount}

Before(r) == IF r.op = "capture" THEN [NoRow EXCEPT !.vault = r.vault] ELSE rows[r.id]
Entry(r)  == [Before(r) EXCEPT !.status = "posted", !.to = {a[2] : a \in r.to}, !.worth = price, !.reviewed = TRUE]

Stamp        == <<audit, NewId, Cardinality(Live)>>
Canonical(r) == <<IdOf(r), [Entry(r) EXCEPT !.reviewed = FALSE]>>

(* Slip caught by AppliesWhatWasShown: the books are as they were, so the entry must be. *)
StampOnly(r) == Stamp
(* Slip caught by AppliesWhatWasShown: the entry is as it was shown, wherever it is put. *)
EntryOnly(r) == Entry(r)

(* confirm_posting: the whole entry that would be committed, and the state it came from. *)
Token(r) == <<Stamp, Canonical(r)>>

(***************************************************************************)
(* The terminal: lists and the selected row.                               *)
(***************************************************************************)

Sorted(S)         == [k \in 1..Cardinality(S) |-> CHOOSE x \in S : Cardinality({y \in S : y <= x}) = k]
Reversed(s)       == [k \in 1..Len(s) |-> s[Len(s) + 1 - k]]
InOrder(s, first) == IF first THEN s ELSE Reversed(s)
Shots(table, ids) == [k \in 1..Len(ids) |-> [id |-> ids[k], row |-> table[ids[k]]]]

VaultOf(list, k) == IF k < Len(list) THEN list[k + 1] ELSE NoVault
Vault            == VaultOf(vaults, at)

(* list_accounts: of one vault, or of all when no vault is known. *)
AccountsOf(v) == {a \in chart' : v \in {NoVault, a[1]}}

(* load_screen, after what the handler has just written, for the vault at position k of
   the list; `down` are the calls that fail. *)
Reads == {"vaults", "accounts", "drafts", "fresh"}
LoadAt(k, down) ==
  /\ vaults' = IF "vaults" \in down THEN vaults ELSE Sorted(open')
  /\ at' = IF "vaults" \notin down /\ k >= Len(vaults') THEN 0 ELSE k
  /\ accounts' = IF "accounts" \in down THEN accounts ELSE AccountsOf(VaultOf(vaults', at'))
  /\ drafts' = IF "drafts" \in down THEN drafts
               ELSE InOrder(Shots(rows', Sorted({i \in Ids : rows'[i].status = "draft"})), oldest)
  /\ fresh' = IF "fresh" \in down THEN fresh
              ELSE InOrder(Shots(rows', Sorted({i \in Ids : rows'[i].status = "posted" /\ ~rows'[i].reviewed})), oldest)
  /\ LET n == Len(drafts') + Len(fresh')
     IN  sel' = IF n = 0 THEN 0 ELSE IF sel >= n THEN n - 1 ELSE sel
Load(down) == LoadAt(at, down)

Draft    == IF sel < Len(drafts) THEN {drafts[sel + 1]} ELSE {}
Unread   == IF sel >= Len(drafts) /\ sel - Len(drafts) < Len(fresh) THEN {fresh[sel - Len(drafts) + 1]} ELSE {}
Selected == Draft \cup Unread

(* align_entity: go to the vault of the entry and read its accounts; a vault that is not
   in the list, or a call that fails, leaves both. *)
Align(v, down) ==
  LET where == {k \in 1..Len(vaults) : vaults[k] = v}
  IN  IF v = Vault \/ where = {} THEN UNCHANGED <<at, accounts>>
      ELSE /\ at' = (CHOOSE k \in where : TRUE) - 1
           /\ accounts' = IF down THEN accounts ELSE AccountsOf(v)

(***************************************************************************)
(* Keys without a dialog.                                                  *)
(***************************************************************************)

Idle == modal.kind = "none"

Refresh ==
  /\ Idle /\ UNCHANGED <<server, oldest, capture, modal, commits>>
  /\ \E down \in SUBSET Reads : Load(down)

NextVault ==
  /\ Idle /\ vaults # <<>> /\ UNCHANGED <<server, oldest, capture, modal, commits>>
  /\ \E down \in SUBSET Reads : LoadAt((at + 1) % Len(vaults), down)

Move ==
  /\ Idle /\ sel' \in {IF sel = 0 THEN 0 ELSE sel - 1, sel + 1} /\ (sel' = 0 \/ sel' < Len(drafts) + Len(fresh))
  /\ UNCHANGED <<server, lists, oldest, capture, modal, commits>>

ChooseSort ==
  /\ Idle /\ oldest' = ~oldest /\ sel' = 0
  /\ drafts' = Reversed(drafts) /\ fresh' = Reversed(fresh)
  /\ UNCHANGED <<server, vaults, at, accounts, capture, modal, commits>>

(* confirm_selected and "delete draft" act on the id alone. *)
ConfirmSelected ==
  /\ Idle
  /\ \E e \in Unread, down \in SUBSET Reads :
       /\ rows' = [rows EXCEPT ![e.id].reviewed = @ \/ rows[e.id].status # "none"]
       /\ UNCHANGED <<chart, open, price, audit>>
       /\ Load(down)
  /\ UNCHANGED <<oldest, capture, modal, commits>>

Picker(named, then) == [kind |-> "picker", named |-> named, then |-> then]

(* Enter, b and u on a draft: a picker for this one, for all that look like it, for a rule. *)
OpenPicker ==
  /\ Idle
  /\ \E d \in Draft, down \in BOOLEAN :
       /\ UNCHANGED server /\ Align(d.row.vault, down)
       /\ LET alike == Sorted({k \in 1..Len(drafts) : drafts[k].row.vault = d.row.vault /\ drafts[k].row.text = d.row.text})
          IN  modal' \in {Picker(<<d>>, "post"), Picker(<<d>>, "rule")}
                           \cup (IF Len(alike) < 2 THEN {}
                                 ELSE {Picker([k \in 1..Len(alike) |-> drafts[alike[k]]], "batch")})
  /\ UNCHANGED <<vaults, drafts, fresh, oldest, sel, capture, commits>>

OpenDelete ==
  /\ Idle /\ \E d \in Draft : modal' = [kind |-> "delete", named |-> <<d>>]
  /\ UNCHANGED <<server, lists, oldest, sel, capture, commits>>

(* The split editor: its total is the amount that the list showed, its categories those of
   the entry's own vault; without that vault's accounts it stays shut. *)
OpenSplit ==
  /\ Idle
  /\ \E e \in Selected, down \in BOOLEAN :
       /\ UNCHANGED server /\ Align(e.row.vault, down)
       /\ e \in Draft => VaultOf(vaults, at') = e.row.vault
       /\ modal' = [kind |-> "split", named |-> <<e>>, total |-> e.row.amount, existing |-> e \in Unread,
                    offered |-> {a \in accounts' : a[1] = e.row.vault}]
  /\ UNCHANGED <<vaults, drafts, fresh, oldest, sel, capture, commits>>

(***************************************************************************)
(* Previews.                                                               *)
(***************************************************************************)

(* The server answers from the books as the handler has just left them. *)
Preview(requests, back) ==
  \E r \in {requests[1]} :
    IF Acceptable(r)'
    THEN /\ modal' = [kind |-> "preview", request |-> r, token |-> Token(r)', id |-> IdOf(r)', entry |-> Entry(r)',
                      back |-> back, rest |-> Tail(requests)]
         /\ commits' = 0
    ELSE modal' = back /\ UNCHANGED commits

(* Enter in the picker. *)
Pick ==
  /\ modal.kind = "picker"
  /\ \E a \in accounts :
       CASE modal.then = "post"  ->
              /\ UNCHANGED <<server, lists, sel, capture>>
              /\ \E d \in Draft : Preview(<<Categorize(d.id, {a}, 0, FALSE)>>, NoModal)
         [] modal.then = "batch" ->
              /\ UNCHANGED <<server, lists, sel, capture>>
              /\ Preview([k \in 1..Len(modal.named) |-> Categorize(modal.named[k].id, {a}, 0, FALSE)], NoModal)
         [] modal.then = "rule"  ->
              /\ \E d \in {modal.named[1]}, t \in modal.named[1].row.text, down \in SUBSET Reads :
                   Logged(BookAlike(d.row.vault, t, a[2])) /\ Load(down)
              /\ modal' = NoModal /\ UNCHANGED <<capture, commits>>
         [] modal.then = "capture" ->
              /\ capture' = [capture EXCEPT !.to = {a}] /\ modal' = NoModal
              /\ UNCHANGED <<server, lists, sel, commits>>
  /\ UNCHANGED oldest

(* Slip caught by KeepsTitle: the new category refreshes the whole screen. *)
ReloadAll == vaults' = vaults /\ Load({"vaults"})

(* create_category_from reads the accounts again and nothing else. *)
ReloadAccounts == accounts' = AccountsOf(Vault) /\ UNCHANGED <<vaults, at, drafts, fresh, sel>>

(* Ctrl-N: a new category in the vault on the screen, and the draft of the selected row
   goes to it. *)
CreateAndPost ==
  /\ modal.kind = "picker" /\ modal.then = "post"
  /\ \E c \in Cats :
       /\ Vault # NoVault /\ Logged(ApplyChart(<<Vault, c>>))
       /\ ReloadAccounts
       /\ IF sel' < Len(drafts')
          THEN LET r == Categorize(drafts'[sel' + 1].id, {<<Vault, c>>}, 0, FALSE)
               IN  Preview(<<r>>, NoModal)
          ELSE modal' = NoModal /\ UNCHANGED commits
  /\ UNCHANGED <<oldest, capture>>

(* Enter in the split editor; parts that are all typed in need the amount to be the same. *)
ApplySplit ==
  /\ modal.kind = "split" /\ UNCHANGED <<server, lists, oldest, sel, capture>>
  /\ \E to \in (SUBSET modal.offered) \ {{}}, total \in {0, modal.total} :
       Preview(<<Categorize(modal.named[1].id, to, total, modal.existing)>>, modal)

(* Ctrl-S in the capture form: in the vault on the screen, with the accounts chosen before. *)
PickCaptureAccount ==
  /\ Idle /\ Vault # NoVault /\ capture' = [capture EXCEPT !.account = Vault]
  /\ modal' = Picker(<<>>, "capture")
  /\ UNCHANGED <<server, lists, oldest, sel, commits>>
SubmitCapture ==
  /\ Idle /\ capture.account # NoVault /\ capture.to # {} /\ UNCHANGED <<server, lists, oldest, sel, capture>>
  /\ Preview(<<Capture(Vault, capture.account, capture.to)>>, NoModal)

(* y: the server computes the entry again and books it if the token is the same.  The
   answer may be lost; the preview then stays. *)
Commit(r) ==
  /\ Acceptable(r) /\ Token(r) = modal.token
  /\ Logged(rows' = [rows EXCEPT ![IdOf(r)] = Entry(r)] /\ UNCHANGED <<chart, open, price>>)

Accept ==
  /\ modal.kind = "preview" /\ Commit(modal.request) /\ commits' = commits + 1 /\ UNCHANGED oldest
  /\ \/ UNCHANGED <<lists, sel, capture, modal>>
     \/ /\ \E down \in SUBSET Reads : Load(down)
        /\ capture' = IF modal.request.op = "capture" THEN [capture EXCEPT !.to = {}] ELSE capture
        /\ modal' = IF modal.rest = <<>> THEN NoModal ELSE [kind |-> "next", rest |-> modal.rest]

(* The next request of a batch, after the screen was read again. *)
Continue == modal.kind = "next" /\ UNCHANGED <<server, lists, oldest, sel, capture>> /\ Preview(modal.rest, NoModal)

Delete ==
  /\ modal.kind = "delete"
  /\ \E down \in SUBSET Reads :
       \/ Logged(Remove(modal.named[1].id)) /\ Load(down)
       \/ UNCHANGED <<server, lists, sel>>
  /\ modal' = NoModal /\ UNCHANGED <<oldest, capture, commits>>

(* n and Esc go back to what the preview came from; a batch ends there. *)
Leave ==
  /\ modal.kind \in {"picker", "delete", "split", "preview"}
  /\ modal' = IF modal.kind = "preview" THEN modal.back ELSE NoModal
  /\ UNCHANGED <<server, lists, oldest, sel, capture, commits>>

Next ==
  \/ Elsewhere \/ Refresh \/ NextVault \/ Move \/ ChooseSort \/ ConfirmSelected
  \/ OpenPicker \/ OpenDelete \/ OpenSplit \/ Pick \/ CreateAndPost \/ ApplySplit
  \/ PickCaptureAccount \/ SubmitCapture \/ Accept \/ Continue \/ Delete \/ Leave

Spec == Init /\ [][Next]_vars

(***************************************************************************)
(* Properties                                                              *)
(***************************************************************************)

TypeOK ==
  /\ \A i \in Ids : rows[i].status \in {"none", "draft", "posted"} /\ rows[i].vault \in Vaults \cup {NoVault}
  /\ chart \subseteq Listable /\ accounts \subseteq chart /\ open \subseteq Vaults
  /\ modal.kind \in {"none", "picker", "delete", "split", "preview", "next"}
  /\ sel \in Nat /\ at \in Nat /\ commits \in Nat

(* "confirmation recomputes it before committing" (journal.rs:1455): whatever happened
   since, y books the entry on the screen under the id on the screen and touches no other,
   and books it once, however often y is pressed after an answer that got lost. *)
AppliesWhatWasShown ==
  modal.kind = "preview" /\ commits' > commits =>
    commits = 0 /\ rows' = [rows EXCEPT ![modal.id] = modal.entry]

(* What a picker leads to is about the drafts in its title: selection, sorting and lists
   do not move under it. *)
KeepsTitle ==
  modal.kind = "picker" /\ modal'.kind = "preview" =>
    <<modal'.request.id>> \o [k \in 1..Len(modal'.rest) |-> modal'.rest[k].id]
      = [k \in 1..Len(modal.named) |-> modal.named[k].id]
=============================================================================
