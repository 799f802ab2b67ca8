------------------------------ MODULE Reconcile ------------------------------
(***************************************************************************)
(* Evidence that arrives twice, and money that comes back: the explicit    *)
(* reconciliation of two bank sources (crates/means-core/src/cross_source.rs)*)
(* and full refunds (refunds.rs), with the review of drafts, the rules run *)
(* over them (rules.rs) and voids (journal.rs) around them.                *)
(*                                                                         *)
(* One bank account.  An entry has the quantity `amount` on it and the     *)
(* category `cat`; `touched` says that its audit history has more than its *)
(* creation, or that a human reviewed it.  Statement lines arrive in       *)
(* imports, one per source.                                                *)
(***************************************************************************)
EXTENDS Integers, Sequences, FiniteSets, FiniteSetsExt

CONSTANTS Lines,      \* statement lines
          SourceOf,   \* line -> the bank source of its import
          Captured,   \* quantities that people capture
          Booked,     \* quantities of statement lines; refunds are positive
          LastDate,   \* dates are 1..LastDate
          Window,     \* MATCH_WINDOW_DAYS
          MaxEntry,   \* entries are 1..MaxEntry, in the order of their ids
          Categories, \* expense categories
          Suspense,   \* the Uncategorized account, an expense too
          NoEntry     \* SQL NULL

Dates   == 1..LastDate
Entries == 1..MaxEntry
NoRow   == [status |-> "none"]
Sources == {SourceOf[l] : l \in Lines}

VARIABLES entry,   \* entry -> its row, or NoRow
          line,    \* line -> its row, or NoRow
          lock,    \* lock date of the entity, 0 for none
          preview  \* the last preview of a reconciliation, or NoRow

vars == <<entry, line, lock, preview>>

Rows    == {e \in Entries : entry[e] # NoRow}
Arrived == {l \in Lines : line[l] # NoRow}
Live    == {e \in Rows : entry[e].status # "void"}
Near(d, c) == d - c <= Window /\ c - d <= Window

(* The highest id and one more; a deleted highest id is given out again. *)
NewId == IF Rows = {} THEN 1 ELSE Max(Rows) + 1

EvidenceOf(e) == {l \in Arrived : line[l].entry = e}

Init ==
  /\ entry = [e \in Entries |-> NoRow]
  /\ line = [l \in Lines |-> NoRow]
  /\ lock = 0
  /\ preview = NoRow

Row(status, origin, amount, cat, date) ==
  [status |-> status, origin |-> origin, amount |-> amount, cat |-> cat, date |-> date,
   touched |-> origin \notin {"import", "rule"}, refundOf |-> NoEntry, reverses |-> NoEntry]

LineRow(amount, date, status, e) == [amount |-> amount, date |-> date, status |-> status, entry |-> e]

(***************************************************************************)
(* What comes in, and what people do with it                               *)
(***************************************************************************)

(* A human's entry, without evidence yet. *)
Capture(amount, cat, date) ==
  /\ NewId \in Entries /\ date > lock
  /\ entry' = [entry EXCEPT ![NewId] = Row("posted", "capture", amount, cat, date)]
  /\ UNCHANGED <<line, lock, preview>>

(* An import matches the line to a posted entry without evidence, or makes a draft on
   Uncategorized, or a posted entry by a rule, or leaves it. *)
Arrive(l, amount, date) ==
  LET free == {e \in Live : /\ entry[e].amount = amount /\ Near(entry[e].date, date)
                            /\ entry[e].reverses = NoEntry /\ EvidenceOf(e) = {}}
  IN
  /\ line[l] = NoRow
  /\ \/ \E e \in free :
          /\ entry[e].status = "draft" => entry[e].date > lock
          /\ line' = [line EXCEPT ![l] = LineRow(amount, date, "matched", e)]
          /\ entry' = [entry EXCEPT ![e].status = "posted", ![e].touched = @ \/ entry[e].status = "draft"]
     \/ /\ free = {} /\ NewId \in Entries
        /\ line' = [line EXCEPT ![l] = LineRow(amount, date, "created", NewId)]
        /\ \/ entry' = [entry EXCEPT ![NewId] = Row("draft", "import", amount, Suspense, date)]
           \/ \E c \in Categories :
                date > lock /\ entry' = [entry EXCEPT ![NewId] = Row("posted", "rule", amount, c, date)]
     \/ /\ line' = [line EXCEPT ![l] = LineRow(amount, date, "unmatched", NoEntry)]
        /\ UNCHANGED entry
  /\ UNCHANGED <<lock, preview>>

(* categorize_in_transaction: a draft on Uncategorized is posted to a category; the
   category of a posted entry is changed only outside refunds and reversals. *)
Categorize(e, cat) ==
  /\ e \in Live /\ entry[e].date > lock
  /\ \/ entry[e].status = "draft" /\ entry[e].cat = Suspense
     \/ /\ entry[e].reverses = NoEntry /\ entry[e].refundOf = NoEntry
        /\ \A f \in Rows : entry[f].refundOf # e
  /\ entry' = [entry EXCEPT ![e].status = "posted", ![e].cat = cat, ![e].touched = TRUE]
  /\ UNCHANGED <<line, lock, preview>>

(* run_rules over the drafts that lines have made: a rule posts them to its category,
   whatever category they had, and takes the mark of the review away. *)
Redraft(e, cat) ==
  /\ e \in Rows /\ entry[e].status = "draft" /\ entry[e].date > lock
  /\ \E l \in EvidenceOf(e) : line[l].status = "created"
  /\ entry' = [entry EXCEPT ![e].status = "posted", ![e].cat = cat, ![e].touched = TRUE]
  /\ UNCHANGED <<line, lock, preview>>

(* mark_reviewed *)
Review(e) ==
  /\ e \in Live
  /\ entry' = [entry EXCEPT ![e].touched = TRUE]
  /\ UNCHANGED <<line, lock, preview>>

(* Slip caught by TypeOK: a line keeps the id of the deleted entry. *)
StillHeld(e) == [l \in Lines |-> IF l \in EvidenceOf(e) THEN [line[l] EXCEPT !.status = "unmatched"] ELSE line[l]]

Freed(e) == [l \in Lines |-> IF l \in EvidenceOf(e)
                             THEN [line[l] EXCEPT !.status = "unmatched", !.entry = NoEntry] ELSE line[l]]

Reversal(e) ==
  [Row("posted", "system", -entry[e].amount, entry[e].cat, entry[e].date) EXCEPT !.reverses = e]

Void(e) ==
  /\ e \in Rows /\ entry[e].status = "posted" /\ entry[e].date > lock
  /\ NewId \in Entries
  /\ entry' = [entry EXCEPT ![e].status = "void", ![NewId] = Reversal(e)]
  /\ line' = Freed(e)
  /\ UNCHANGED <<lock, preview>>

DeleteDraft(e) ==
  /\ e \in Rows /\ entry[e].status = "draft"
  /\ entry' = [entry EXCEPT ![e] = NoRow]
  /\ line' = Freed(e)
  /\ UNCHANGED <<lock, preview>>

SetLock(d) ==
  /\ lock' = d
  /\ UNCHANGED <<entry, line, preview>>

(***************************************************************************)
(* Refunds                                                                 *)
(***************************************************************************)

(* Slip caught by OneRefund: the purchase may have a refund already. *)
RefundableAgain(o, amount, date) ==
  /\ o \in Rows /\ entry[o].status = "posted" /\ entry[o].date <= date
  /\ entry[o].refundOf = NoEntry /\ entry[o].amount = -amount

(* original_bank, and the unique index on refund_of_id. *)
Refundable(o, amount, date) ==
  /\ o \in Rows /\ entry[o].status = "posted" /\ entry[o].date <= date
  /\ entry[o].refundOf = NoEntry /\ entry[o].amount = -amount
  /\ \A f \in Live : entry[f].refundOf # o

(* The line's own draft, which the refund replaces: only the automatic one. *)
Replaceable(l) ==
  LET e == line[l].entry
  IN  entry[e].status = "draft" /\ entry[e].origin = "import" /\ entry[e].refundOf = NoEntry
      /\ EvidenceOf(e) = {l} /\ entry[e].amount = line[l].amount /\ entry[e].cat = Suspense

(* link: the refund's id is new, beside the draft it replaces. *)
LinkRefund(l, o) ==
  LET own == line[l].entry
  IN
  /\ l \in Arrived /\ line[l].amount > 0
  /\ line[l].status \in {"unmatched", "created"}
  /\ Refundable(o, line[l].amount, line[l].date)
  /\ own # NoEntry => Replaceable(l)
  /\ line[l].date > lock /\ NewId \in Entries
  /\ entry' = [e \in Entries |->
       IF e = NewId THEN [Row("posted", "refund", line[l].amount, entry[o].cat, line[l].date)
                            EXCEPT !.refundOf = o]
       ELSE IF e = own THEN NoRow ELSE entry[e]]
  /\ line' = [line EXCEPT ![l].status = "created", ![l].entry = NewId]
  /\ UNCHANGED <<lock, preview>>

(***************************************************************************)
(* Reconciliation of two sources                                           *)
(***************************************************************************)

Referred(e) == \E f \in Rows : entry[f].refundOf = e \/ entry[f].reverses = e

(* Slip caught by KeepsHumanWork: the audit history is not asked. *)
MachineMade(l, e) ==
  /\ line[l].status = "created" /\ entry[e].date = line[l].date
  /\ \/ entry[e].status = "posted" /\ entry[e].origin = "rule"
     \/ entry[e].status = "draft" /\ entry[e].origin = "import" /\ entry[e].cat = Suspense
  /\ EvidenceOf(e) = {l} /\ ~Referred(e) /\ entry[e].date > lock

(* disposable_entry: made by the import of this line and untouched since. *)
Disposable(l, e) ==
  /\ line[l].status = "created" /\ entry[e].date = line[l].date
  /\ \/ entry[e].status = "posted" /\ entry[e].origin = "rule"
     \/ entry[e].status = "draft" /\ entry[e].origin = "import" /\ entry[e].cat = Suspense
  /\ ~entry[e].touched
  /\ EvidenceOf(e) = {l} /\ ~Referred(e) /\ entry[e].date > lock

(* Posted entries with evidence of another source and none of this one, near the line. *)
Targets(l) ==
  {e \in Rows :
     /\ entry[e].status = "posted" /\ entry[e].amount = line[l].amount
     /\ Near(entry[e].date, line[l].date)
     /\ \E m \in EvidenceOf(e) : /\ SourceOf[m] # SourceOf[l] /\ line[m].status \in {"matched", "created"}
                                  /\ line[m].amount = line[l].amount /\ Near(line[m].date, line[l].date)
     /\ \A m \in EvidenceOf(e) : SourceOf[m] # SourceOf[l]}

(* The entry that a line would be moved to: the only target, older than its own. *)
Keeps(l) ==
  {e \in Targets(l) :
     /\ Cardinality(Targets(l)) = 1
     /\ line[l].status \in {"created", "unmatched"}
     /\ line[l].entry # NoEntry => Disposable(l, line[l].entry) /\ line[l].entry > e
     /\ entry[e].date > lock}

(* Slip caught by OneLinePerSource: two lines of the import may claim one entry. *)
EveryClaim(s) == {c \in Arrived \X Rows : SourceOf[c[1]] = s /\ c[2] \in Keeps(c[1])}

(* The plan of one import; an entry that two lines claim is left out. *)
Plan(s) ==
  LET claims == {c \in Arrived \X Rows : SourceOf[c[1]] = s /\ c[2] \in Keeps(c[1])}
  IN  {c \in claims : \A d \in claims : d[2] = c[2] => d = c}

(* Slip caught by AppliesWhatWasShown: the token is over the pairs of ids alone. *)
PairsOnly(s) == [source |-> s, plan |-> Plan(s)]

(* The token: a digest of the lines of the import, of the plan, and of the entries and
   the evidence that it is about. *)
Token(s) ==
  LET plan == Plan(s)
  IN  [source |-> s, plan |-> plan,
       lines |-> [l \in {m \in Arrived : SourceOf[m] = s} |-> line[l]],
       own   |-> [c \in plan |-> IF line[c[1]].entry = NoEntry THEN NoRow ELSE entry[line[c[1]].entry]],
       kept  |-> [c \in plan |-> [row |-> entry[c[2]], evidence |-> [m \in EvidenceOf(c[2]) |-> line[m]]]]]

(* What the human sees is kept with the token, for the properties. *)
Preview(s) ==
  /\ preview = NoRow /\ Plan(s) # {}
  /\ preview' = [token |-> Token(s), entry |-> entry, line |-> line]
  /\ UNCHANGED <<entry, line, lock>>

Dismiss == preview # NoRow /\ preview' = NoRow /\ UNCHANGED <<entry, line, lock>>

(* Voids by reversal take new ids, in the order of the lines of the import. *)
Voided(s) == {line[c[1]].entry : c \in {d \in Plan(s) : line[d[1]].entry # NoEntry}} \cap
             {e \in Rows : entry[e].status = "posted"}
Dropped(s) == {line[c[1]].entry : c \in {d \in Plan(s) : line[d[1]].entry # NoEntry}} \cap
              {e \in Rows : entry[e].status = "draft"}

(* Slip caught by EvidenceAgrees: the line is moved before its own entry is voided, and
   the void sends it back to the queue. *)
MovedThenVoided(s) ==
  [l \in Lines |->
     IF \E c \in Plan(s) : c[1] = l
     THEN IF line[l].entry \in Voided(s) THEN [line[l] EXCEPT !.status = "matched", !.entry = NoEntry]
          ELSE [line[l] EXCEPT !.status = "matched", !.entry = (CHOOSE c \in Plan(s) : c[1] = l)[2]]
     ELSE line[l]]

Moved(s) ==
  [l \in Lines |->
     IF \E c \in Plan(s) : c[1] = l
     THEN [line[l] EXCEPT !.status = "matched", !.entry = (CHOOSE c \in Plan(s) : c[1] = l)[2]]
     ELSE line[l]]

(* rematch with a confirmation: nothing happens unless the token is still the one. *)
Confirm(s) ==
  LET kept    == Rows \ Dropped(s)
      voided  == Voided(s)
      Id(e)   == Max(kept) + 1 + Cardinality({f \in voided : f < e})
  IN
  /\ preview # NoRow /\ preview.token.source = s /\ preview.token = Token(s)
  /\ Max(kept) + Cardinality(voided) \in Entries
  /\ entry' = [e \in Entries |->
       IF e \in voided THEN [entry[e] EXCEPT !.status = "void"]
       ELSE IF e \in kept THEN entry[e]
       ELSE IF \E v \in voided : Id(v) = e THEN Reversal(CHOOSE v \in voided : Id(v) = e)
       ELSE NoRow]
  /\ line' = Moved(s)
  /\ preview' = NoRow
  /\ UNCHANGED lock

(***************************************************************************)
(* A bank import matched once more against what was captured since          *)
(***************************************************************************)

(* One line that made an entry: it becomes the evidence of another entry without any,
   which takes the category; its own entry goes.  st is the state so far. *)
Rematched(st, l) ==
  LET row(e) == st.entry[e]
      evidence(e) == {m \in Arrived : st.line[m].entry = e}
      own   == st.line[l].entry
      found == {e \in Entries \ {own} :
                  /\ row(e) # NoRow /\ row(e).status # "void" /\ row(e).reverses = NoEntry
                  /\ row(e).amount = st.line[l].amount /\ Near(row(e).date, st.line[l].date)
                  /\ evidence(e) = {}}
      MayGo(e) == /\ row(own).status # "draft" => row(own).date > lock
                  /\ row(e).date > lock /\ evidence(own) = {l}
                  /\ \A f \in Entries : row(f) # NoRow => own \notin {row(f).refundOf, row(f).reverses}
  IN  IF found = {} THEN {st}
      ELSE {IF ~MayGo(e) THEN st
            ELSE [entry |-> [st.entry EXCEPT ![own] = NoRow, ![e].status = "posted", ![e].touched = TRUE,
                                             ![e].cat = IF row(own).cat = Suspense THEN @ ELSE row(own).cat],
                  line  |-> [st.line EXCEPT ![l].status = "matched", ![l].entry = e]] : e \in found}

(* The lines of a set, one after the other. *)
Orders(S) == Injection(1..Cardinality(S), S)

(* rematch_import: all the lines of one import that made entries, in one transaction; a line
   that fails is left as it was. *)
Rematch(s) ==
  \E order \in Orders({l \in Arrived : SourceOf[l] = s /\ line[l].status = "created"}) :
    LET after[n \in 0..Len(order)] ==
          IF n = 0 THEN {[entry |-> entry, line |-> line]}
          ELSE UNION {Rematched(st, order[n]) : st \in after[n - 1]}
    IN  \E st \in after[Len(order)] :
          /\ line' = st.line /\ entry' = st.entry
          /\ st.line # line
          /\ UNCHANGED <<lock, preview>>

Next ==
  \/ \E a \in Captured, d \in Dates, c \in Categories : Capture(a, c, d)
  \/ \E l \in Lines, a \in Booked, d \in Dates : Arrive(l, a, d)
  \/ \E e \in Entries, c \in Categories : Categorize(e, c) \/ Redraft(e, c)
  \/ \E e \in Entries : Review(e) \/ Void(e) \/ DeleteDraft(e)
  \/ \E l \in Lines, o \in Entries : LinkRefund(l, o)
  \/ \E s \in Sources : Preview(s) \/ Confirm(s) \/ Rematch(s)
  \/ Dismiss
  \/ \E d \in Dates : SetLock(d)

Spec == Init /\ [][Next]_vars

(***************************************************************************)
(* Properties                                                              *)
(***************************************************************************)

TypeOK ==
  /\ \A e \in Rows : /\ entry[e].status \in {"draft", "posted", "void"}
                      /\ entry[e].cat \in Categories \cup {Suspense} /\ entry[e].date \in Dates
                      /\ {entry[e].refundOf, entry[e].reverses} \subseteq Entries \cup {NoEntry}
  /\ \A l \in Arrived : /\ line[l].status \in {"matched", "created", "unmatched"}
                         /\ line[l].entry \in Rows \cup {NoEntry}
  /\ lock \in 0..LastDate

(* A line in use is evidence of a live entry with its amount, and any other line of none:
   whatever is voided, deleted, replaced or moved, and in whatever order one transaction
   does it, no line is stranded. *)
EvidenceAgrees ==
  \A l \in Arrived :
    IF line[l].status = "unmatched" THEN line[l].entry = NoEntry
    ELSE line[l].entry \in Live /\ entry[line[l].entry].amount = line[l].amount

(* "A posting cannot acquire a second line from the same source"
   (docs/import-formats.md:812-814). *)
OneLinePerSource ==
  \A e \in Rows : \A l, m \in EvidenceOf(e) : SourceOf[l] = SourceOf[m] => l = m

(* "A purchase can have only one active full refund; duplicate bank evidence cannot
   create a second one" (docs/import-formats.md:917-918), also when refunds are voided,
   replaced and linked again. *)
OneRefund ==
  \A e, f \in Live : entry[e].refundOf # NoEntry /\ entry[e].refundOf = entry[f].refundOf => e = f

(* A confirmed reconciliation retires only what an import made and nobody touched or
   refers to, and leaves every other entry as it was. *)
KeepsHumanWork ==
  preview # NoRow /\ preview' = NoRow =>
    \A e \in Rows : entry[e].touched \/ Referred(e) \/ Cardinality(EvidenceOf(e)) > 1 =>
      entry'[e] = entry[e]

(* "Apply checks the preview against the current ledger in one transaction; changed books
   require a new preview" (docs/import-formats.md:800-801): every entry that is retired,
   and every entry that receives the evidence, is as the human saw it. *)
AppliesWhatWasShown ==
  preview # NoRow /\ preview' = NoRow =>
    \A l \in Arrived : line'[l] # line[l] =>
      /\ line[l] = preview.line[l]
      /\ line[l].entry # NoEntry => entry[line[l].entry] = preview.entry[line[l].entry]
      /\ entry[line'[l].entry] = preview.entry[line'[l].entry]
==============================================================================
