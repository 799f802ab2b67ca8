--------------------------- MODULE LongOperations ---------------------------
(***************************************************************************)
(* The operations on the books that take several transactions: a transfer  *)
(* between two entities (create_transfer, crates/means-core/src/journal.rs)*)
(* and the revaluation of what was booked without a rate (revalue_missing, *)
(* rates.rs, which recomputes the hash chains row by row at its end).      *)
(*                                                                         *)
(* The server keeps its connection to itself for a whole operation, but a  *)
(* command of the CLI is another process on the same file.  The books are  *)
(* reduced to what these operations read and write: an entry is valued at  *)
(* a rate or it is missing one.  Of its link in the chain only the hash is *)
(* kept, as the set of links it commits to (see HashChain): prev_hash is   *)
(* always written with it.                                                 *)
(***************************************************************************)
EXTENDS Integers, FiniteSets

CONSTANTS Processes,
          Entities,  \* owners of books
          MaxEntry,  \* bound: journal entries are 1..MaxEntry, in the order of their ids
          Alone,     \* no process works beside an operation in progress
          Mortal     \* processes die between two transactions

Entries == 1..MaxEntry
NoEntry == 0
NoRow   == [entity |-> "none"]

VARIABLES entry,  \* entry -> its row, or NoRow
          last,   \* the last id given out
          priced, \* prices exist now
          shut,   \* entities whose period is closed
          op      \* process -> the operation in progress

vars == <<entry, last, priced, shut, op>>

Idle == [kind |-> "idle"]
Quiet == \A p \in Processes : op[p] = Idle

Init ==
  /\ entry = [e \in Entries |-> NoRow]
  /\ last = 0
  /\ priced = FALSE
  /\ shut = {}
  /\ op = [p \in Processes |-> Idle]

Rows       == {e \in Entries : entry[e] # NoRow}
Chained(n) == {e \in Rows : entry[e].entity = n /\ entry[e].seq > 0}
Live(e)    == e \in Rows /\ entry[e].status # "void"

(***************************************************************************)
(* One transaction: entries, and the chain of their entity                 *)
(***************************************************************************)

Link(e, row) == <<e, row.missing>>

HeadOf(n) == CHOOSE e \in Chained(n) : \A f \in Chained(n) : entry[f].seq <= entry[e].seq

(* append *)
Appended(e, row) ==
  LET n == row.entity
  IN  IF Chained(n) = {} THEN [row EXCEPT !.seq = 1, !.hash = {Link(e, row)}]
      ELSE [row EXCEPT !.seq  = entry[HeadOf(n)].seq + 1,
                       !.hash = entry[HeadOf(n)].hash \cup {Link(e, row)}]

(* create_entry; without a rate a posting on a foreign account is missing one. *)
Row(n, status, foreign, other, reverses, half) ==
  [entity |-> n, status |-> status, missing |-> foreign /\ ~priced, other |-> other,
   reverses |-> reverses, half |-> half, seq |-> 0, hash |-> {}]

Create(row) ==
  LET e == last + 1
  IN
  /\ e \in Entries
  /\ row.status = "posted" => row.entity \notin shut
  /\ entry' = [entry EXCEPT ![e] = IF row.status = "posted" THEN Appended(e, row) ELSE row]
  /\ last' = e

Beside == Alone => Quiet

Capture(n, status, foreign) ==
  /\ Beside
  /\ Create(Row(n, status, foreign, NoEntry, NoEntry, FALSE))
  /\ UNCHANGED <<priced, shut, op>>

Post(e) ==
  /\ Beside
  /\ e \in Rows /\ entry[e].status = "draft" /\ entry[e].entity \notin shut
  /\ entry' = [entry EXCEPT ![e] = Appended(e, [@ EXCEPT !.status = "posted"])]
  /\ UNCHANGED <<last, priced, shut, op>>

(* void_entry: the reversal has the amounts of the entry, as they are. *)
Void(e) ==
  LET reversal == [Row(entry[e].entity, "posted", FALSE, NoEntry, e, FALSE) EXCEPT !.missing = FALSE]
  IN
  /\ Beside
  /\ e \in Rows /\ entry[e].status = "posted" /\ entry[e].entity \notin shut
  /\ last + 1 \in Entries
  /\ entry' = [entry EXCEPT ![e].status = "void", ![last + 1] = Appended(last + 1, reversal)]
  /\ last' = last + 1
  /\ UNCHANGED <<priced, shut, op>>

(* Rows that no other row refers to can be deleted. *)
Referred(e) == \E f \in Rows : f # e /\ (entry[f].other = e \/ entry[f].reverses = e)

(* delete_entry: a draft.  Both halves of a transfer refer to each other, so the
   delete of a draft half is refused. *)
DeleteDraft(e) ==
  /\ Beside
  /\ e \in Rows /\ entry[e].status = "draft" /\ ~Referred(e)
  /\ entry' = [entry EXCEPT ![e] = NoRow]
  /\ UNCHANGED <<last, priced, shut, op>>

SetPrice == Beside /\ priced' = TRUE /\ UNCHANGED <<entry, last, shut, op>>

SetLock(n) ==
  /\ Beside
  /\ shut' = IF n \in shut THEN shut \ {n} ELSE shut \cup {n}
  /\ UNCHANGED <<entry, last, priced, op>>

(***************************************************************************)
(* create_transfer, between two entities                                   *)
(***************************************************************************)

Free(p) == op[p] = Idle /\ (Alone => Quiet)

FirstHalf(p, from, to, status, foreign) ==
  /\ Free(p) /\ from # to
  /\ Create(Row(from, status, foreign, NoEntry, NoEntry, TRUE))
  /\ op' = [op EXCEPT ![p] =
       [kind |-> "transfer", first |-> last + 1, to |-> to, status |-> status, second |-> NoEntry]]
  /\ UNCHANGED <<priced, shut>>

SecondHalf(p, foreign) ==
  /\ op[p].kind = "transfer" /\ op[p].second = NoEntry
  /\ op[p].first \in Rows
  /\ Create(Row(op[p].to, op[p].status, foreign, op[p].first, NoEntry, TRUE))
  /\ op' = [op EXCEPT ![p].second = last + 1]
  /\ UNCHANGED <<priced, shut>>

(* Slip caught by TransfersAreWhole: the error of the second half is just passed on. *)
GiveUp(p) ==
  /\ op[p].kind = "transfer" /\ op[p].second = NoEntry
  /\ op' = [op EXCEPT ![p] = Idle]
  /\ UNCHANGED <<entry, last, priced, shut>>

(* The second half is refused (a closed period, a missing account, a busy file): the
   row of the first is deleted, booked or not, and the chain is left as it is. *)
Undo(p) ==
  /\ op[p].kind = "transfer" /\ op[p].second = NoEntry
  /\ entry' = IF Referred(op[p].first) THEN entry ELSE [entry EXCEPT ![op[p].first] = NoRow]
  /\ op' = [op EXCEPT ![p] = Idle]
  /\ UNCHANGED <<last, priced, shut>>

(* Slip caught by TransfersAreWhole: only the second half names the other. *)
OneWay(p) ==
  /\ op[p].kind = "transfer" /\ op[p].second # NoEntry
  /\ op' = [op EXCEPT ![p] = Idle]
  /\ UNCHANGED <<entry, last, priced, shut>>

LinkHalves(p) ==
  /\ op[p].kind = "transfer" /\ op[p].second # NoEntry
  /\ entry' = IF op[p].first \in Rows
              THEN [entry EXCEPT ![op[p].first].other = op[p].second] ELSE entry
  /\ op' = [op EXCEPT ![p] = Idle]
  /\ UNCHANGED <<last, priced, shut>>

(***************************************************************************)
(* revalue_missing                                                         *)
(***************************************************************************)

Missing == {e \in Rows : entry[e].missing}

(* The entries missing a rate, with their sequence numbers, read once. *)
Revalue(p) ==
  /\ Free(p) /\ Missing # {}
  /\ op' = [op EXCEPT ![p] =
       [kind |-> "revalue", todo |-> {<<e, entry[e].seq>> : e \in Missing},
        from |-> [n \in Entities |-> 0], rows |-> {}, before |-> {}]]
  /\ UNCHANGED <<entry, last, priced, shut>>

(* Slip caught by KeepsClosed: the lock date is not asked. *)
FixableAnyway(e) == Live(e) /\ entry[e].missing /\ priced

(* revalue_entry: a rate is found, and the entry is a draft or its period is open. *)
Fixable(e) ==
  /\ Live(e) /\ entry[e].missing /\ priced
  /\ entry[e].status = "draft" \/ entry[e].entity \notin shut

(* Slip caught by ChainsVerify: the chain is recomputed from the last changed entry. *)
Latest(from, seq) == IF seq > from THEN seq ELSE from

Earliest(from, seq) == IF from = 0 \/ (seq > 0 /\ seq < from) THEN seq ELSE from

(* The entries in the order of their ids; only from a fixed one on hashes are wrong. *)
RevalueNext(p) ==
  /\ op[p].kind = "revalue"
  /\ \E next \in op[p].todo :
       LET e == next[1]
           n == entry[e].entity
       IN
       /\ \A other \in op[p].todo : e <= other[1]
       /\ IF Fixable(e)
            THEN /\ entry' = [entry EXCEPT ![e].missing = FALSE]
                 /\ op' = [op EXCEPT ![p].todo = @ \ {next}, ![p].from[n] = Earliest(@, next[2])]
            ELSE /\ op' = [op EXCEPT ![p].todo = @ \ {next}]
                 /\ UNCHANGED entry
  /\ UNCHANGED <<last, priced, shut>>

(* rechain of one entity: the rows to do, and the hash before them, are read once. *)
RechainFrom(p, n) ==
  LET from    == op[p].from[n]
      earlier == {e \in Chained(n) : entry[e].seq < from}
  IN
  /\ op[p].kind = "revalue" /\ op[p].todo = {} /\ op[p].rows = {}
  /\ from # 0
  /\ op' = [op EXCEPT
       ![p].rows = {<<e, entry[e].seq>> : e \in {x \in Chained(n) : entry[x].seq >= from}},
       ![p].before = UNION {entry[e].hash : e \in {x \in earlier :
                                               \A f \in earlier : entry[f].seq <= entry[x].seq}},
       ![p].from[n] = 0]
  /\ UNCHANGED <<entry, last, priced, shut>>

(* One row of it, in the order of the chain: its own UPDATE, in no transaction. *)
RechainRow(p) ==
  /\ op[p].kind = "revalue"
  /\ \E next \in op[p].rows :
       LET e    == next[1]
           hash == op[p].before \cup {Link(e, entry[e])}
       IN
       /\ \A other \in op[p].rows : next[2] <= other[2]
       /\ IF e \in Rows
            THEN /\ entry' = [entry EXCEPT ![e].hash = hash]
                 /\ op' = [op EXCEPT ![p].rows = @ \ {next}, ![p].before = hash]
            ELSE /\ op' = [op EXCEPT ![p] = Idle]
                 /\ UNCHANGED entry
  /\ UNCHANGED <<last, priced, shut>>

Revalued(p) ==
  /\ op[p].kind = "revalue" /\ op[p].todo = {} /\ op[p].rows = {}
  /\ \A n \in Entities : op[p].from[n] = 0
  /\ op' = [op EXCEPT ![p] = Idle]
  /\ UNCHANGED <<entry, last, priced, shut>>

Die(p) ==
  /\ Mortal /\ op[p] # Idle
  /\ op' = [op EXCEPT ![p] = Idle]
  /\ UNCHANGED <<entry, last, priced, shut>>

Transfer(p) ==
  \/ \E n, m \in Entities, s \in {"draft", "posted"}, f \in BOOLEAN : FirstHalf(p, n, m, s, f)
  \/ \E f \in BOOLEAN : SecondHalf(p, f)
  \/ Undo(p) \/ LinkHalves(p)

Revaluation(p) ==
  \/ Revalue(p) \/ RevalueNext(p) \/ RechainRow(p) \/ Revalued(p)
  \/ \E n \in Entities : RechainFrom(p, n)

Next ==
  \/ \E p \in Processes : Transfer(p) \/ Revaluation(p) \/ Die(p)
  \/ \E n \in Entities, s \in {"draft", "posted"}, f \in BOOLEAN : Capture(n, s, f)
  \/ \E e \in Entries : Post(e) \/ Void(e) \/ DeleteDraft(e)
  \/ \E n \in Entities : SetLock(n)
  \/ SetPrice

Spec == Init /\ [][Next]_vars

(***************************************************************************)
(* Properties                                                              *)
(***************************************************************************)

TypeOK ==
  /\ \A e \in Rows : /\ entry[e].entity \in Entities /\ entry[e].status \in {"draft", "posted", "void"}
                      /\ {entry[e].missing, entry[e].half} \subseteq BOOLEAN
                      /\ {entry[e].other, entry[e].reverses} \subseteq Entries \cup {NoEntry}
                      /\ entry[e].hash \subseteq Entries \X BOOLEAN
  /\ last \in 0..MaxEntry /\ priced \in BOOLEAN /\ shut \subseteq Entities
  /\ \A p \in Processes : op[p].kind \in {"idle", "transfer", "revalue"}

(* verify: every stored hash commits to the entries up to it as they are now. *)
Verifies(n) ==
  \A e \in Chained(n) :
    entry[e].hash = {Link(f, entry[f]) : f \in {x \in Chained(n) : entry[x].seq <= entry[e].seq}}

(* When no operation is in progress every chain verifies: an operation that changes
   booked entries one by one, or takes one back, leaves the chain of the whole book
   consistent at its end ("Hash chains are recomputed once per entity at the end",
   rates.rs:195). *)
ChainsVerify == Quiet => \A n \in Entities : Verifies(n)

(* "A transfer between entities uses linked entries, one in each set of books"
   (docs/data-model.md:35): when no operation is in progress each half names the other,
   which is there; a refused second half leaves nothing of the first
   ("so the books do not keep a one-sided transfer", journal.rs:1161). *)
TransfersAreWhole ==
  Quiet => \A e \in Rows : entry[e].half =>
    \E f \in Rows : /\ entry[f].half /\ entry[f].entity # entry[e].entity
                     /\ entry[e].other = f /\ entry[f].other = e

(* No operation changes the value of an entry that is booked in a closed period. *)
KeepsClosed ==
  \A e \in Rows : entry[e].status # "draft" /\ entry[e].entity \in shut /\ entry'[e] # NoRow
    => entry'[e].missing = entry[e].missing
==============================================================================
