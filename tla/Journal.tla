------------------------------- MODULE Journal -------------------------------
(***************************************************************************)
(* The books of one entity: journal entries, their hash chain, the lock    *)
(* date, the category accounts and the statement evidence, as              *)
(* crates/means-core/src/journal.rs, hashchain.rs, accounts.rs, rates.rs   *)
(* and the roll-back of an import change them.  One action is one committed*)
(* transaction: the server holds one connection behind a mutex and SQLite  *)
(* serialises the writers of the file, so transactions are what interleave.*)
(*                                                                         *)
(* An entry has a bank posting of `qty` units in the account's commodity,  *)
(* booked at `amt` in the functional currency, and a balancing posting of  *)
(* -amt on the category `cat`.                                             *)
(***************************************************************************)
EXTENDS HashChain

CONSTANTS Cats,       \* category accounts
          Suspense,   \* the Uncategorized system account, one of them
          MaxDate,    \* bound: dates are 1..MaxDate
          Qtys,       \* quantities of the bank posting that clients book
          Rate,       \* functional units for one unit once a price is known
          NoEntry     \* SQL NULL in reverses_id

ASSUME SuspenseAssumption == Suspense \in Cats
ASSUME DateAssumption     == MaxDate \in Nat \ {0}
ASSUME QtyAssumption      == Qtys \subseteq Int /\ Rate \in Int
ASSUME NoEntryAssumption  == NoEntry \notin Entries

VARIABLES status,      \* "none" before the row exists, "gone" after its DELETE
          content,     \* what canonical() commits to
          missing,     \* the bank posting has rate_source = 'missing'
          reconciled,  \* the bank posting has a reconciled_at
          line,        \* status of the statement line linked to the entry
          reverses,    \* reverses_id
          lock,        \* the entity's lock_date, 0 for none
          accts,       \* accounts that exist and take postings
          priced       \* the prices table has a rate for the commodity

bookVars == <<status, content, missing, reconciled, line, reverses>>
envVars  == <<lock, accts, priced>>
vars     == <<bookVars, envVars, chainVars>>

Dates   == 1..MaxDate
Content == [date: Dates, cat: Cats, qty: Int, amt: Int]

(* Slip caught by OneReversalPerVoid and VoidIsFinal: a void entry still takes
   edits, evidence and new values. *)
LiveOrVoid == {e \in Entries : status[e] \in {"draft", "posted", "void"}}

Live == {e \in Entries : status[e] \in {"draft", "posted"}}
Booked == {e \in Entries : status[e] \in {"posted", "void"}}

(* Slip caught by ClosedPeriodProtected: the lock date itself stays open. *)
OpenFrom(d) == d >= lock

(* check_lock: a date on or before the lock date is refused. *)
Open(d) == d > lock

(* check_mutation_lock: drafts stay editable, booked entries are protected. *)
MutationOpen(e) == status[e] = "draft" \/ Open(content[e].date)

(* value_functional: without a rate a quantity is booked at par and marked. *)
Value(q) == IF priced THEN Rate * q ELSE q

Init ==
  /\ status     = [e \in Entries |-> "none"]
  /\ content    = [e \in Entries |-> [date |-> 1, cat |-> Suspense, qty |-> 0, amt |-> 0]]
  /\ missing    = [e \in Entries |-> FALSE]
  /\ reconciled = [e \in Entries |-> FALSE]
  /\ line       = [e \in Entries |-> "none"]
  /\ reverses   = [e \in Entries |-> NoEntry]
  /\ lock = 0 /\ accts = Cats /\ priced = FALSE
  /\ seq  = [e \in Entries |-> 0]
  /\ prev = [e \in Entries |-> {}]
  /\ hash = [e \in Entries |-> {}]

(***************************************************************************)
(* Entries                                                                 *)
(***************************************************************************)

(* The row of a new entry; its posting on a commodity without a price is
   marked missing.  `from` is the status of the line it was created from. *)
Insert(e, d, c, q, st, from) ==
  /\ status[e] = "none"
  /\ c \in accts
  /\ st = "posted" => Open(d)
  /\ status'     = [status EXCEPT ![e] = st]
  /\ content'    = [content EXCEPT ![e] = [date |-> d, cat |-> c, qty |-> q, amt |-> Value(q)]]
  /\ missing'    = [missing EXCEPT ![e] = ~priced]
  /\ reconciled' = [reconciled EXCEPT ![e] = from = "created"]
  /\ line'       = [line EXCEPT ![e] = from]
  /\ IF st = "posted" THEN AppendLink(e, content') ELSE UNCHANGED chainVars
  /\ UNCHANGED <<reverses, envVars>>

(* create_entry: captured by hand, a transfer, a schedule. *)
CreateEntry(e, d, c, q, st) == Insert(e, d, c, q, st, "none")

(* draft_from_line, create_entry_from_line: an unmatched statement line books
   its own entry, whose bank posting is reconciled from the start. *)
CreateFromLine(e, d, c, q, st) == Insert(e, d, c, q, st, "created")

(* update_entry.  `manual` is an amount sent by the client; without one the
   quantity is valued again.  replacement_links keeps the evidence of a bank
   posting that survives, refuses to lose a reconciled one, and keeps the
   'missing' mark of an unchanged placeholder value. *)
UpdateEntry(e, d, c, q, manual, a, st) ==
  LET old       == content[e]
      changed   == d # old.date \/ c # old.cat \/ q # old.qty \/ (manual /\ a # old.amt)
      rewritten == changed \/ status[e] = "draft"
      posted    == status[e] = "posted" \/ st = "posted"
      amount    == IF manual THEN a ELSE Value(q)
      survives  == q = old.qty /\ amount = old.amt /\ (d = old.date \/ missing[e])
  IN
  /\ e \in Live
  /\ c \in accts
  /\ status[e] = "posted" /\ changed => Open(old.date) /\ Open(d)
  /\ status[e] = "draft" /\ posted   => Open(d)
  /\ reconciled[e] /\ rewritten      => q = old.qty
  /\ status' = [status EXCEPT ![e] = IF posted THEN "posted" ELSE "draft"]
  /\ IF rewritten
       THEN /\ content' = [content EXCEPT ![e] = [date |-> d, cat |-> c, qty |-> q, amt |-> amount]]
            /\ missing' = [missing EXCEPT ![e] =
                             IF survives THEN missing[e] ELSE ~manual /\ ~priced]
       ELSE UNCHANGED <<content, missing>>
  /\ IF ~posted THEN UNCHANGED chainVars
     ELSE IF e \in Chained THEN RechainFrom(seq[e], content')
     ELSE AppendLink(e, content')
  /\ UNCHANGED <<reconciled, line, reverses, envVars>>

(* post_entry: draft -> posted; posting a posted entry does nothing. *)
PostEntry(e) ==
  /\ status[e] = "draft"
  /\ Open(content[e].date)
  /\ status' = [status EXCEPT ![e] = "posted"]
  /\ AppendLink(e, content)
  /\ UNCHANGED <<content, missing, reconciled, line, reverses, envVars>>

(* categorize_in_transaction: replace the category posting and leave the bank
   posting, its value and its evidence alone.  A draft must be on Uncategorized
   (`existing` false) and is posted; a booked entry keeps its place. *)
Categorize(e, c, existing) ==
  /\ e \in Live
  /\ IF existing THEN reverses[e] = NoEntry
                 ELSE status[e] = "draft" /\ content[e].cat = Suspense
  /\ c \in accts \ {Suspense}
  /\ Open(content[e].date)
  /\ status'  = [status EXCEPT ![e] = "posted"]
  /\ content' = [content EXCEPT ![e].cat = c]
  /\ IF e \in Chained THEN RechainFrom(seq[e], content') ELSE AppendLink(e, content')
  /\ UNCHANGED <<missing, reconciled, line, reverses, envVars>>

Negated(c, d) == [date |-> d, cat |-> c.cat, qty |-> -c.qty, amt |-> -c.amt]

(* void_entry_in_transaction: a posted reversal r dated d negates the postings;
   the original keeps them, and its statement line goes back to the queue. *)
VoidEntry(e, r, d) ==
  /\ status[e] = "posted"
  /\ status[r] = "none"
  /\ Open(d)
  /\ status'   = [status EXCEPT ![e] = "void", ![r] = "posted"]
  /\ content'  = [content EXCEPT ![r] = Negated(content[e], d)]
  /\ reverses' = [reverses EXCEPT ![r] = e]
  /\ line'     = [line EXCEPT ![e] = "none"]
  /\ AppendLink(r, content')
  /\ UNCHANGED <<missing, reconciled, envVars>>

(* The row of every entry of S is deleted: its postings go with it. *)
Erase(S) ==
  /\ status'     = [e \in Entries |-> IF e \in S THEN "gone" ELSE status[e]]
  /\ missing'    = [e \in Entries |-> IF e \in S THEN FALSE ELSE missing[e]]

(* Slip caught by ReconciledMeansEvidence: the line lets go of its entry, the
   bank posting keeps its reconciled_at. *)
DetachLine(S) ==
  /\ line' = [e \in Entries |-> IF e \in S THEN "none" ELSE line[e]]
  /\ UNCHANGED reconciled

(* The entries of S lose their statement line and the mark that came with it. *)
Detach(S) ==
  /\ line'       = [e \in Entries |-> IF e \in S THEN "none" ELSE line[e]]
  /\ reconciled' = [e \in Entries |-> IF e \in S THEN FALSE ELSE reconciled[e]]

(* delete_entry: drafts only. *)
DeleteEntry(e) ==
  /\ status[e] = "draft"
  /\ Erase({e})
  /\ Detach({e})
  /\ UNCHANGED <<content, reverses, envVars, chainVars>>

(***************************************************************************)
(* Evidence                                                                *)
(***************************************************************************)

(* attach_in_transaction: a statement line of the same quantity reconciles the
   bank posting; a draft is posted with it. *)
Attach(e) ==
  /\ e \in Live
  /\ reconciled[e] => line[e] = "none"
  /\ status[e] = "draft" => Open(content[e].date)
  /\ status'     = [status EXCEPT ![e] = "posted"]
  /\ reconciled' = [reconciled EXCEPT ![e] = TRUE]
  /\ line'       = [line EXCEPT ![e] = "matched"]
  /\ IF status[e] = "draft" THEN AppendLink(e, content) ELSE UNCHANGED chainVars
  /\ UNCHANGED <<content, missing, reverses, envVars>>

(* Slip caught by ChainVerifies: only the last booked entry of S is recomputed. *)
RechainLast(S, c) ==
  IF S \cap Chained = {} THEN UNCHANGED chainVars
  ELSE \E m \in S \cap Chained :
         /\ \A f \in S \cap Chained : seq[m] >= seq[f]
         /\ RechainFrom(seq[m], c)

(* Recompute the chain from the first booked entry of S. *)
RechainFirst(S, c) ==
  IF S \cap Chained = {} THEN UNCHANGED chainVars
  ELSE \E m \in S \cap Chained :
         /\ \A f \in S \cap Chained : seq[m] <= seq[f]
         /\ RechainFrom(seq[m], c)

(* delete_import: lines are those of the import's lines that are linked.  The
   entries they created are deleted one by one, each followed by a rechain; the
   postings they matched are no longer reconciled; the lines go. *)
DeleteImport(lines) ==
  LET created == {e \in lines : line[e] = "created"}
      booked  == created \cap Chained
  IN
  /\ lines # {}
  /\ \A e \in lines : line[e] # "none" /\ MutationOpen(e)
  /\ Erase(created)
  /\ Detach(lines)
  /\ IF booked = {} THEN UNCHANGED chainVars
     ELSE \E m \in booked : (\A f \in booked : seq[m] <= seq[f]) /\ Unlink(booked, seq[m], content)
  /\ UNCHANGED <<content, reverses, envVars>>

(***************************************************************************)
(* Accounts, prices and the lock date                                      *)
(***************************************************************************)

(* recategorize, split_category: the postings of `from` that the filter selects
   move to `to`.  Voided entries are left out, their reversals are not. *)
Recategorize(from, to, chosen) ==
  /\ from # to /\ to \in accts
  /\ chosen # {}
  /\ \A e \in chosen : e \in Live /\ content[e].cat = from /\ MutationOpen(e)
  /\ content' = [e \in Entries |->
                   IF e \in chosen THEN [content[e] EXCEPT !.cat = to] ELSE content[e]]
  /\ RechainFirst(chosen, content')
  /\ UNCHANGED <<status, missing, reconciled, line, reverses, envVars>>

(* Slip caught by PostingsHaveAccounts: void entries are left on the source. *)
LiveOn(account) == {e \in Live : content[e].cat = account}

(* The entries with a posting on the account. *)
EntriesOn(account) == {e \in Live \cup Booked : content[e].cat = account}

(* merge_accounts: every posting of `from` moves, whatever its entry's status
   and date, and `from` takes no postings any more. *)
MergeAccounts(from, to) ==
  LET moved == EntriesOn(from)
  IN
  /\ from # to /\ from # Suspense /\ {from, to} \subseteq accts
  /\ accts' = accts \ {from}
  /\ content' = [e \in Entries |->
                   IF e \in moved THEN [content[e] EXCEPT !.cat = to] ELSE content[e]]
  /\ RechainFirst(moved, content')
  /\ UNCHANGED <<status, missing, reconciled, line, reverses, lock, priced>>

(* Slip caught by TypeOK: the day after the chosen date is locked too. *)
SetLockDateAfter(d) ==
  /\ d # lock
  /\ lock' = d + 1
  /\ UNCHANGED <<bookVars, accts, priced, chainVars>>

(* update_entity: the lock date moves freely, forwards, backwards or away. *)
SetLockDate(d) ==
  /\ d # lock
  /\ lock' = d
  /\ UNCHANGED <<bookVars, accts, priced, chainVars>>

(* set_price: a rate for the commodity, valid on every date. *)
SetPrice ==
  /\ ~priced
  /\ priced' = TRUE
  /\ UNCHANGED <<bookVars, lock, accts, chainVars>>

(* revalue_missing, undisturbed: value every entry booked without a rate whose
   period is open, then recompute the chain once. *)
RevalueMissing ==
  LET stale == {e \in Live : missing[e] /\ MutationOpen(e)}
  IN
  /\ priced /\ stale # {}
  /\ content' = [e \in Entries |->
                   IF e \in stale THEN [content[e] EXCEPT !.amt = Rate * content[e].qty]
                   ELSE content[e]]
  /\ missing' = [e \in Entries |-> missing[e] /\ e \notin stale]
  /\ RechainFirst(stale, content')
  /\ UNCHANGED <<status, reconciled, line, reverses, envVars>>

Next ==
  \/ \E e \in Entries, d \in Dates, c \in Cats, st \in {"draft", "posted"} :
       \/ \E q \in Qtys : CreateEntry(e, d, c, q, st) \/ CreateFromLine(e, d, c, q, st)
       \/ \E q \in Qtys \cup {content[e].qty}, manual \in BOOLEAN :
            \E a \in {q, Rate * q} : UpdateEntry(e, d, c, q, manual, a, st)
  \/ \E e \in Entries : PostEntry(e) \/ DeleteEntry(e) \/ Attach(e)
  \/ \E e \in Entries, c \in Cats, existing \in BOOLEAN : Categorize(e, c, existing)
  \/ \E e, r \in Entries, d \in Dates : VoidEntry(e, r, d)
  \/ \E lines \in SUBSET Entries : DeleteImport(lines)
  \/ \E from, to \in Cats, chosen \in SUBSET Entries : Recategorize(from, to, chosen)
  \/ \E from, to \in Cats : MergeAccounts(from, to)
  \/ \E d \in 0..MaxDate : SetLockDate(d)
  \/ SetPrice
  \/ RevalueMissing

Spec == Init /\ [][Next]_vars

(***************************************************************************)
(* Properties                                                              *)
(***************************************************************************)

(* Every variable has its type. *)
TypeOK ==
  /\ status     \in [Entries -> {"none", "draft", "posted", "void", "gone"}]
  /\ content    \in [Entries -> Content]
  /\ missing    \in [Entries -> BOOLEAN]
  /\ reconciled \in [Entries -> BOOLEAN]
  /\ line       \in [Entries -> {"none", "created", "matched"}]
  /\ reverses   \in [Entries -> Entries \cup {NoEntry}]
  /\ lock \in 0..MaxDate /\ accts \subseteq Cats /\ priced \in BOOLEAN
  /\ seq \in [Entries -> Nat]

(* `means verify` finds no bad link after any sequence of edits, voids,
   roll-backs, merges and revaluations: every path that changes what
   canonical() commits to recomputes the suffix of the chain it touches. *)
ChainVerifies == VerifyPasses(content)

(* The chain holds exactly the booked entries, under distinct numbers
   (hashchain.rs append, the UNIQUE index je_seq). *)
ChainHoldsTheBooks == Chained = Booked /\ SeqUnique

(* A void entry has exactly one reversal in the books and only void entries are
   reversed: no later edit, roll-back, match or re-void loses or doubles the
   correction (void_entry_in_transaction, delete_import). *)
OneReversalPerVoid ==
  /\ \A e \in Entries : status[e] = "void" <=> \E r \in Booked : reverses[r] = e
  /\ \A r, s \in Entries : reverses[r] = reverses[s] /\ reverses[r] # NoEntry => r = s

(* A live entry is marked reconciled exactly while a statement line backs it;
   only a voided entry keeps the mark of the line it lost (replacement_links,
   void_entry_in_transaction, delete_import). *)
ReconciledMeansEvidence ==
  \A e \in Entries :
    /\ line[e] # "none" => e \in Live /\ reconciled[e]
    /\ reconciled[e] /\ line[e] = "none" => status[e] = "void"

(* No posting is left on an account that is gone, void entries included
   (merge_in moves them all before it deletes the source). *)
PostingsHaveAccounts == \A e \in Live \cup Booked : content[e].cat \in accts

(* The booked entries of the period that the lock date closes. *)
Closed == {e \in Booked : content[e].date <= lock}

(* The figures of an entry: all that canonical() fixes but the category. *)
Figures(c) == <<c.date, c.qty, c.amt>>

(* No step adds, removes, redates or revalues anything in a closed period: not
   an edit, a roll-back, a late reversal, a match or a revaluation.  Only a merge
   that removes an account moves a closed posting off it (check_lock,
   check_mutation_lock, and merge_in, which checks neither). *)
ClosedPeriodStep ==
  /\ \A e \in Closed :
       /\ e \in Booked' /\ Figures(content'[e]) = Figures(content[e])
       /\ content'[e].cat # content[e].cat => content[e].cat \notin accts'
  /\ \A e \in Booked' \ Closed : content'[e].date > lock

ClosedPeriodProtected == [][ClosedPeriodStep]_vars

(* A void is final: the original stays void and keeps the figures its reversal
   negated; only its category may be merged away (void_entry_in_transaction,
   update_entry, revalue_entry). *)
VoidStep ==
  \A e \in Entries : status[e] = "void" =>
    status'[e] = "void" /\ Figures(content'[e]) = Figures(content[e])

VoidIsFinal == [][VoidStep]_vars

(* The claim of journal.rs, A4: "locked or reconciled entries do not change".
   The content of a booked entry in a closed period is frozen. *)
LockedEntriesDoNotChange == [][\A e \in Closed : content'[e] = content[e]]_vars

(* The assertion of means-sharing snapshot.rs on a ledger it installs: every
   sequence number lies between 1 and the number of chained entries. *)
SeqWithinCount == \A e \in Chained : seq[e] <= Cardinality(Chained)
==============================================================================
