------------------------ MODULE LongOperationsProofs ------------------------
(***************************************************************************)
(* Transfers and revaluations are several transactions, and yet the books   *)
(* are whole whenever none is in progress: for any number of processes that  *)
(* take turns, entities and entries, whatever is refused half-way.           *)
(*                                                                         *)
(* The theorems about whole operations are about processes that take turns   *)
(* (Alone) and do not die between two transactions (Mortal): with either,    *)
(* the code leaves half a transfer, or a chain that does not verify, see     *)
(* README.md.  The types and closed periods hold without.                    *)
(***************************************************************************)
EXTENDS LongOperations, WellFoundedInduction, TLAPS

(***************************************************************************)
(* The types, for processes in any order and deaths                        *)
(***************************************************************************)

Statuses == {"draft", "posted", "void"}
Refs     == Entries \cup {NoEntry}
Links    == Entries \X BOOLEAN

RowSet ==
  [entity : Entities, status : Statuses, missing : BOOLEAN, other : Refs, reverses : Refs,
   half : BOOLEAN, seq : Nat, hash : SUBSET Links]

Transfers ==
  [kind : {"transfer"}, first : Entries, to : Entities, status : {"draft", "posted"}, second : Refs]
Revaluations ==
  [kind : {"revalue"}, todo : SUBSET (Entries \X Nat), from : [Entities -> Nat],
   rows : SUBSET (Entries \X Nat), before : SUBSET Links]
Ops == {Idle} \cup Transfers \cup Revaluations

Types ==
  /\ entry = [e \in Entries |-> entry[e]]
  /\ \A e \in Rows : entry[e] \in RowSet /\ e <= last
  /\ last \in 0..MaxEntry /\ priced \in BOOLEAN /\ shut \subseteq Entities
  /\ op \in [Processes -> Ops]

(* Every set of natural numbers with a member has a least one. *)
LEMMA LeastNumber ==
  ASSUME NEW S \in SUBSET Nat, S # {}
  PROVE  \E n \in S : \A m \in S : n <= m
<1> DEFINE R == OpToRel(<, Nat)
<1>1. R = {ss \in Nat \X Nat : ss[1] < ss[2]}
  BY DEF OpToRel
<1>2. IsWellFoundedOn(R, Nat)
  BY NatLessThanWellFounded
<1> HIDE DEF R
<1>3. PICK n \in S : \A m \in S : <<m, n>> \notin R
  BY <1>2, WFMin
<1>4. \A m \in S : ~(m < n)
  BY <1>1, <1>3
<1> QED BY <1>4

(* Finitely many numbers have a bound. *)
LEMMA Bounded ==
  ASSUME NEW N \in Nat, NEW f, \A i \in 1..N : f[i] \in Nat
  PROVE  \E b \in Nat : \A i \in 1..N : f[i] <= b
<1> DEFINE Has(k) == \E b \in Nat : \A i \in 1..k : f[i] <= b
           S == {k \in 0..N : ~Has(k)}
<1>1. Has(0)
  OBVIOUS
<1>2. ASSUME NEW k \in 1..N, Has(k - 1)
      PROVE  Has(k)
  <2>1. PICK b \in Nat : \A i \in 1..k - 1 : f[i] <= b
    BY <1>2
  <2>2. f[k] \in Nat /\ \A i \in 1..k : i # k => i \in 1..k - 1
    OBVIOUS
  <2>3. \A i \in 1..k : f[i] <= b + f[k]
    BY <2>1, <2>2
  <2>4. b + f[k] \in Nat
    BY <2>2
  <2> QED BY <2>3, <2>4
<1> HIDE DEF Has
<1>3. CASE S = {}
  <2>1. Has(N)
    BY <1>3
  <2> QED BY <2>1 DEF Has
<1>4. CASE S # {}
  <2>1. PICK k \in S : \A j \in S : k <= j
    <3>1. S \in SUBSET Nat
      OBVIOUS
    <3> HIDE DEF S
    <3> QED BY <1>4, <3>1, LeastNumber
  <2>2. k # 0 /\ k \in 1..N /\ k - 1 \in 0..N
    BY <1>1, <2>1
  <2>3. Has(k - 1)
    BY <2>1, <2>2
  <2> QED BY <1>2, <2>1, <2>2, <2>3
<1> QED BY <1>3, <1>4

LEMMA RowFacts ==
  ASSUME Types, NEW e \in Rows
  PROVE  /\ e \in Entries /\ entry[e] \in RowSet /\ entry[e] # NoRow
         /\ entry[e].entity \in Entities /\ entry[e].status \in Statuses /\ entry[e].missing \in BOOLEAN
         /\ entry[e].other \in Refs /\ entry[e].reverses \in Refs /\ entry[e].half \in BOOLEAN
         /\ entry[e].seq \in Nat /\ entry[e].hash \in SUBSET Links
BY DEF Types, Rows, RowSet

LEMMA NoRowIsNone == NoRow \notin RowSet
<1>1. SUFFICES ASSUME NoRow \in RowSet
               PROVE  FALSE
  OBVIOUS
<1>2. "status" \in DOMAIN NoRow
  BY <1>1 DEF RowSet
<1> QED BY <1>2 DEF NoRow

(* Any rows have a last one, in the order of their numbers. *)
LEMMA TopExists ==
  ASSUME MaxEntry \in Nat, Types, NEW S \in SUBSET Rows, S # {}
  PROVE  \E t \in S : \A f \in S : entry[f].seq <= entry[t].seq
<1> DEFINE seq == [e \in Entries |-> IF e \in S THEN entry[e].seq ELSE 0]
<1>1. \A e \in S : e \in Entries /\ entry[e].seq \in Nat /\ seq[e] = entry[e].seq
  BY RowFacts DEF Rows
<1>2. PICK b \in Nat : \A i \in 1..MaxEntry : seq[i] <= b
  <2>1. \A i \in 1..MaxEntry : seq[i] \in Nat
    BY <1>1 DEF Entries
  <2> HIDE DEF seq
  <2> QED BY <2>1, Bounded
<1> HIDE DEF seq
<1> DEFINE Back == {b - entry[e].seq : e \in S}
<1>3. \A e \in S : b - entry[e].seq \in Nat
  BY <1>1, <1>2 DEF Entries
<1>4. PICK k \in Back : \A j \in Back : k <= j
  <2>1. Back \in SUBSET Nat /\ Back # {}
    BY <1>3
  <2> HIDE DEF Back
  <2> QED BY <2>1, LeastNumber
<1>5. PICK e \in S : k = b - entry[e].seq
  BY <1>4
<1>6. ASSUME NEW f \in S
      PROVE  entry[f].seq <= entry[e].seq
  <2>1. b - entry[e].seq <= b - entry[f].seq
    BY <1>4, <1>5
  <2> QED BY <1>1, <2>1
<1> QED BY <1>5, <1>6

LEMMA HeadExists ==
  ASSUME MaxEntry \in Nat, Types, NEW n, Chained(n) # {}
  PROVE  /\ HeadOf(n) \in Chained(n)
         /\ \A f \in Chained(n) : entry[f].seq <= entry[HeadOf(n)].seq
<1>1. Chained(n) \in SUBSET Rows
  BY DEF Chained
<1>2. \E e \in Chained(n) : \A f \in Chained(n) : entry[f].seq <= entry[e].seq
  BY <1>1, TopExists
<1> QED BY <1>2 DEF HeadOf

LEMMA AppendedFacts ==
  ASSUME MaxEntry \in Nat, Types, NEW e \in Entries, NEW row \in RowSet, NEW new, new = Appended(e, row)
  PROVE  /\ new \in RowSet /\ new.entity = row.entity /\ new.status = row.status
         /\ new.missing = row.missing /\ new.other = row.other /\ new.reverses = row.reverses
         /\ new.half = row.half /\ new.seq > 0
         /\ \A f \in Chained(row.entity) : entry[f].seq < new.seq
         /\ Chained(row.entity) = {} => new.hash = {Link(e, row)}
         /\ Chained(row.entity) # {} =>
              new.hash = entry[HeadOf(row.entity)].hash \cup {Link(e, row)}
<1> DEFINE n == row.entity
           mine == {Link(e, row)}
<1>1. mine \in SUBSET Links
  BY DEF Link, Links, RowSet
<1> HIDE DEF mine
<1>2. PICK s \in Nat, h \in SUBSET Links :
         /\ new = [row EXCEPT !.seq = s, !.hash = h]
         /\ s > 0 /\ \A f \in Chained(n) : entry[f].seq < s
         /\ Chained(n) = {} => h = mine
         /\ Chained(n) # {} => h = entry[HeadOf(n)].hash \cup mine
  <2>1. CASE Chained(n) = {}
    <3>1. new = [row EXCEPT !.seq = 1, !.hash = mine]
      BY <2>1 DEF Appended, mine
    <3>2. 1 \in Nat /\ 1 > 0 /\ \A f \in Chained(n) : entry[f].seq < 1
      BY <2>1
    <3> HIDE DEF n
    <3> QED BY <1>1, <2>1, <3>1, <3>2, Zenon
  <2>2. CASE Chained(n) # {}
    <3> DEFINE last1 == entry[HeadOf(n)]
    <3>1. HeadOf(n) \in Rows /\ \A f \in Chained(n) : entry[f].seq <= last1.seq
      BY <2>2, HeadExists DEF Chained
    <3>2. last1.seq \in Nat /\ last1.hash \in SUBSET Links
      BY <3>1, RowFacts
    <3>3. \A f \in Chained(n) : entry[f].seq \in Nat
      BY RowFacts DEF Chained
    <3>4. new = [row EXCEPT !.seq = last1.seq + 1, !.hash = last1.hash \cup mine]
      BY <2>2 DEF Appended, mine
    <3> HIDE DEF last1
    <3>5. last1.seq + 1 \in Nat /\ last1.hash \cup mine \in SUBSET Links /\ last1.seq + 1 > 0
      BY <1>1, <3>2
    <3>6. \A f \in Chained(n) : entry[f].seq < last1.seq + 1
      BY <3>1, <3>2, <3>3
    <3>7. last1.hash = entry[HeadOf(n)].hash
      BY DEF last1
    <3> QED BY <2>2, <3>4, <3>5, <3>6, <3>7
  <2> QED BY <2>1, <2>2
<1>3. /\ new \in RowSet /\ new.seq = s /\ new.hash = h
      /\ new.entity = row.entity /\ new.status = row.status /\ new.missing = row.missing
      /\ new.other = row.other /\ new.reverses = row.reverses /\ new.half = row.half
  BY <1>2 DEF RowSet
<1> QED BY <1>2, <1>3 DEF mine

LEMMA Kinds ==
  ASSUME Types, NEW p \in Processes
  PROVE  /\ op[p] \in Ops /\ DOMAIN op = Processes
         /\ op[p].kind = "transfer" => op[p] \in Transfers /\ op[p] # Idle
         /\ op[p].kind = "revalue" => op[p] \in Revaluations /\ op[p] # Idle
         /\ op[p] = Idle \/ op[p].kind \in {"transfer", "revalue"}
BY DEF Types, Ops, Idle, Transfers, Revaluations

(* A step that writes the rows of S. *)
LEMMA TypesKept ==
  ASSUME Types, NEW S \in SUBSET Entries, entry' = [e \in Entries |-> entry'[e]],
         \A e \in Entries \ S : entry'[e] = entry[e],
         \A e \in S : entry'[e] \in RowSet \cup {NoRow},
         \A e \in S : entry'[e] # NoRow => e <= last',
         last' \in last..MaxEntry, priced' \in BOOLEAN, shut' \subseteq Entities, op' \in [Processes -> Ops],
         MaxEntry \in Nat
  PROVE  Types'
<1>1. last \in Nat /\ last' \in Nat /\ last <= last'
  BY DEF Types
<1>2. ASSUME NEW e \in Rows'
      PROVE  entry'[e] \in RowSet /\ e <= last'
  <2>1. e \in Entries /\ entry'[e] # NoRow
    BY DEF Rows
  <2>2. CASE e \in S
    BY <2>1, <2>2
  <2>3. CASE e \notin S
    <3>1. e \in Rows /\ entry'[e] = entry[e]
      BY <2>1, <2>3 DEF Rows
    <3>2. e <= last /\ entry[e] \in RowSet
      BY <3>1 DEF Types
    <3>3. e \in Nat
      BY <2>1 DEF Entries
    <3> QED BY <1>1, <3>1, <3>2, <3>3
  <2> QED BY <2>2, <2>3
<1>3. last' \in 0..MaxEntry
  BY <1>1
<1> QED BY <1>2, <1>3 DEF Types

LEMMA TypesKeptByOne ==
  ASSUME Types, MaxEntry \in Nat, NEW k \in Entries, entry' = [e \in Entries |-> entry'[e]],
         \A e \in Entries \ {k} : entry'[e] = entry[e],
         entry'[k] \in RowSet \cup {NoRow},
         entry'[k] # NoRow => k <= last',
         last' \in last..MaxEntry, UNCHANGED <<priced, shut>>, op' \in [Processes -> Ops]
  PROVE  Types'
<1> DEFINE S == {k}
<1>1. S \in SUBSET Entries /\ (\A e \in S : e = k) /\ \A e \in Entries \ S : e \in Entries \ {k}
  OBVIOUS
<1>2. priced' \in BOOLEAN /\ shut' \subseteq Entities
  BY DEF Types
<1> HIDE DEF S
<1> QED BY <1>1, <1>2, TypesKept

(* create_entry: one new row, after all the others. *)
LEMMA Created ==
  ASSUME MaxEntry \in Nat, Types, NEW row \in RowSet, Create(row), NEW e, e = last + 1
  PROVE  /\ e \in Entries /\ e \notin Rows /\ last' = e /\ e \in last..MaxEntry
         /\ entry' = [f \in Entries |-> entry'[f]] /\ Rows' = Rows \cup {e}
         /\ \A f \in Entries \ {e} : entry'[f] = entry[f]
         /\ entry'[e] = IF row.status = "posted" THEN Appended(e, row) ELSE row
         /\ entry'[e] \in RowSet /\ entry'[e].entity = row.entity /\ entry'[e].status = row.status
         /\ entry'[e].missing = row.missing /\ entry'[e].other = row.other
         /\ entry'[e].reverses = row.reverses /\ entry'[e].half = row.half
<1> DEFINE new == IF row.status = "posted" THEN Appended(e, row) ELSE row
<1>1. e \in Entries /\ entry' = [entry EXCEPT ![e] = new] /\ last' = e
  BY DEF Create
<1>2. new \in RowSet /\ new.entity = row.entity /\ new.status = row.status /\ new.missing = row.missing
      /\ new.other = row.other /\ new.reverses = row.reverses /\ new.half = row.half
  <2>1. CASE row.status = "posted"
    <3>1. new = Appended(e, row)
      BY <2>1
    <3> HIDE DEF new
    <3> QED BY <1>1, <3>1, AppendedFacts
  <2>2. CASE row.status # "posted"
    BY <2>2
  <2> QED BY <2>1, <2>2
<1> HIDE DEF new
<1>3. entry' = [f \in Entries |-> entry'[f]] /\ entry'[e] = new /\ \A f \in Entries \ {e} : entry'[f] = entry[f]
  BY <1>1 DEF Types
<1>4. e \notin Rows /\ last \in Nat /\ e \in last..MaxEntry
  <2>1. last \in Nat /\ \A f \in Rows : f <= last
    BY DEF Types
  <2> QED BY <1>1, <2>1 DEF Entries
<1>5. Rows' = Rows \cup {e}
  BY <1>1, <1>2, <1>3, NoRowIsNone DEF Rows
<1> QED BY <1>1, <1>2, <1>3, <1>4, <1>5 DEF new

LEMMA TypesInit == Init /\ MaxEntry \in Nat => Types
<1> SUFFICES ASSUME Init, MaxEntry \in Nat
             PROVE  Types
  OBVIOUS
<1>1. Rows = {}
  BY DEF Init, Rows
<1>2. entry = [e \in Entries |-> entry[e]]
  BY DEF Init
<1>3. op \in [Processes -> Ops]
  BY DEF Init, Ops
<1>4. last = 0 /\ shut = {} /\ priced \in BOOLEAN
  BY DEF Init
<1> QED BY <1>1, <1>2, <1>3, <1>4 DEF Types

(* The steps that touch no operation. *)
LEMMA TypesBeside ==
  ASSUME MaxEntry \in Nat, Types,
         \/ \E n \in Entities, s \in {"draft", "posted"}, f \in BOOLEAN : Capture(n, s, f)
         \/ \E e \in Entries : Post(e) \/ Void(e) \/ DeleteDraft(e)
         \/ \E n \in Entities : SetLock(n)
         \/ SetPrice \/ UNCHANGED vars
  PROVE  Types'
<1>0. /\ last \in Nat /\ last \in last..MaxEntry /\ priced \in BOOLEAN /\ shut \subseteq Entities
      /\ op \in [Processes -> Ops]
  BY DEF Types
<1>1. ASSUME NEW n \in Entities, NEW s \in {"draft", "posted"}, NEW f \in BOOLEAN, Capture(n, s, f)
      PROVE  Types'
  <2> DEFINE row == Row(n, s, f, NoEntry, NoEntry, FALSE)
             e == last + 1
  <2>1. row \in RowSet /\ row.other = 0 /\ row.reverses = 0
    <3>1. NoEntry \in Refs
      BY DEF Refs
    <3>2. row \in RowSet /\ row.other = NoEntry /\ row.reverses = NoEntry
      BY <1>0, <3>1 DEF Row, RowSet, Statuses
    <3> HIDE DEF row
    <3> QED BY <3>2 DEF NoEntry
  <2>2. Create(row) /\ UNCHANGED <<priced, shut, op>>
    BY <1>1 DEF Capture
  <2> HIDE DEF row
  <2>4. /\ e \in Entries /\ last' = e /\ e \in last..MaxEntry /\ entry' = [k \in Entries |-> entry'[k]]
        /\ (\A k \in Entries \ {e} : entry'[k] = entry[k]) /\ entry'[e] \in RowSet
    BY <2>1, <2>2, Created
  <2>5. e <= last'
    BY <1>0, <2>4
  <2> HIDE DEF e
  <2>6. op' \in [Processes -> Ops]
    BY <1>0, <2>2
  <2> QED BY <2>2, <2>4, <2>5, <2>6, TypesKeptByOne
<1>2. ASSUME NEW e \in Entries, Post(e)
      PROVE  Types'
  <2> DEFINE row == [entry[e] EXCEPT !.status = "posted"]
             new == Appended(e, row)
  <2>1. e \in Rows /\ entry' = [entry EXCEPT ![e] = new] /\ UNCHANGED <<last, priced, shut, op>>
    BY <1>2 DEF Post
  <2>2. row \in RowSet /\ row.other = entry[e].other /\ row.reverses = entry[e].reverses
    <3>1. entry[e] \in RowSet
      BY <2>1, RowFacts
    <3> QED BY <3>1 DEF RowSet, Statuses
  <2> HIDE DEF row
  <2>3. new \in RowSet /\ new.other = row.other /\ new.reverses = row.reverses
    BY <2>2, AppendedFacts
  <2> HIDE DEF new
  <2>4. entry'[e] = new /\ entry' = [k \in Entries |-> entry'[k]] /\ \A k \in Entries \ {e} : entry'[k] = entry[k]
    BY <2>1 DEF Types
  <2>5. e <= last
    BY <2>1 DEF Types
  <2> QED BY <1>0, <2>1, <2>3, <2>4, <2>5, TypesKeptByOne
<1>3. ASSUME NEW e \in Entries, Void(e)
      PROVE  Types'
  <2> DEFINE base == Row(entry[e].entity, "posted", FALSE, NoEntry, e, FALSE)
             row == [base EXCEPT !.missing = FALSE]
             k == last + 1
             new == Appended(k, row)
             old == [entry[e] EXCEPT !.status = "void"]
  <2>1. /\ e \in Rows /\ k \in Entries /\ entry' = [entry EXCEPT ![e].status = "void", ![k] = new]
        /\ last' = k /\ UNCHANGED <<priced, shut, op>>
    BY <1>3 DEF Void
  <2>2. e \in Nat /\ e <= last /\ e # k /\ k \in last..MaxEntry
    <3>1. e <= last
      BY <2>1 DEF Types
    <3> QED BY <1>0, <2>1, <3>1 DEF Entries
  <2>3. row \in RowSet /\ row.other = 0 /\ row.reverses = e
    <3>1. entry[e].entity \in Entities /\ NoEntry \in Refs /\ e \in Refs
      BY <2>1, RowFacts DEF Refs
    <3>2. base \in RowSet /\ base.other = NoEntry /\ base.reverses = e
      BY <1>0, <3>1 DEF Row, RowSet, Statuses
    <3> HIDE DEF base
    <3> QED BY <3>2 DEF RowSet, NoEntry
  <2> HIDE DEF row
  <2>4. new \in RowSet /\ new.other = row.other /\ new.reverses = row.reverses
    BY <2>1, <2>3, AppendedFacts
  <2>5. old \in RowSet /\ old.other = entry[e].other /\ old.reverses = entry[e].reverses
    <3>1. entry[e] \in RowSet
      BY <2>1, RowFacts
    <3> QED BY <3>1 DEF RowSet, Statuses
  <2>6. entry'[e] = old /\ entry'[k] = new /\ entry' = [j \in Entries |-> entry'[j]]
        /\ \A j \in Entries \ {e, k} : entry'[j] = entry[j]
    <3> HIDE DEF new
    <3> QED BY <2>1, <2>2 DEF Types
  <2>8. e <= k /\ k <= k
    BY <1>0, <2>2
  <2> HIDE DEF new, old, k
  <2> DEFINE S == {e, k}
  <2>9. S \in SUBSET Entries /\ \A j \in S : entry'[j] \in RowSet /\ j <= last'
    BY <2>1, <2>4, <2>5, <2>6, <2>8
  <2>10. \A j \in Entries \ S : entry'[j] = entry[j]
    BY <2>6
  <2> HIDE DEF S
  <2> QED BY <1>0, <2>1, <2>2, <2>6, <2>9, <2>10, TypesKept
<1>4. ASSUME NEW e \in Entries, DeleteDraft(e)
      PROVE  Types'
  <2>1. e \in Rows /\ entry' = [entry EXCEPT ![e] = NoRow] /\ UNCHANGED <<last, priced, shut, op>>
    BY <1>4 DEF DeleteDraft
  <2>2. entry'[e] = NoRow /\ entry' = [k \in Entries |-> entry'[k]] /\ \A k \in Entries \ {e} : entry'[k] = entry[k]
    BY <2>1 DEF Types
  <2> QED BY <1>0, <2>1, <2>2, TypesKeptByOne
<1>5. CASE (\E n \in Entities : SetLock(n)) \/ SetPrice \/ UNCHANGED vars
  <2>1. UNCHANGED <<entry, last, op>> /\ priced' \in BOOLEAN /\ shut' \subseteq Entities
    BY <1>5 DEF SetLock, SetPrice, vars, Types
  <2> QED BY <2>1 DEF Types, Rows
<1> QED BY <1>1, <1>2, <1>3, <1>4, <1>5

(* The steps of an operation. *)
LEMMA OpMoves ==
  ASSUME Types, NEW p \in Processes, NEW new \in Ops, op' = [op EXCEPT ![p] = new]
  PROVE  op' \in [Processes -> Ops] /\ op'[p] = new /\ \A q \in Processes \ {p} : op'[q] = op[q]
BY DEF Types

LEMMA TypesTransfer ==
  ASSUME MaxEntry \in Nat, Types, NEW p \in Processes, Transfer(p)
  PROVE  Types'
<1>0. last \in Nat /\ last \in last..MaxEntry /\ priced \in BOOLEAN /\ shut \subseteq Entities
  BY DEF Types
<1> DEFINE e == last + 1
<1>1. ASSUME NEW n \in Entities, NEW m \in Entities, NEW s \in {"draft", "posted"}, NEW f \in BOOLEAN,
             FirstHalf(p, n, m, s, f)
      PROVE  Types'
  <2> DEFINE row == Row(n, s, f, NoEntry, NoEntry, TRUE)
             new == [kind |-> "transfer", first |-> e, to |-> m, status |-> s, second |-> NoEntry]
  <2>1. row \in RowSet /\ row.other = 0 /\ row.reverses = 0
    BY <1>0 DEF Row, RowSet, Statuses, Refs, NoEntry
  <2>2. Create(row) /\ UNCHANGED <<priced, shut>> /\ op' = [op EXCEPT ![p] = new]
    BY <1>1 DEF FirstHalf
  <2> HIDE DEF row
  <2>4. /\ e \in Entries /\ last' = e /\ e \in last..MaxEntry /\ entry' = [k \in Entries |-> entry'[k]]
        /\ (\A k \in Entries \ {e} : entry'[k] = entry[k]) /\ entry'[e] \in RowSet
    BY <2>1, <2>2, Created
  <2>5. new \in Ops
    BY <2>4 DEF Ops, Transfers, Refs
  <2>6. e <= last'
    BY <1>0, <2>4
  <2> HIDE DEF e, new
  <2>7. op' \in [Processes -> Ops]
    BY <2>2, <2>5, OpMoves
  <2> QED BY <2>2, <2>4, <2>6, <2>7, TypesKeptByOne
<1>2. ASSUME NEW f \in BOOLEAN, SecondHalf(p, f)
      PROVE  Types'
  <2> DEFINE row == Row(op[p].to, op[p].status, f, op[p].first, NoEntry, TRUE)
             new == [op[p] EXCEPT !.second = e]
  <2>0. op[p] \in Transfers /\ op[p].first \in Rows
    BY <1>2, Kinds DEF SecondHalf
  <2>1. row \in RowSet /\ row.other = op[p].first /\ row.reverses = 0
    <3>1. op[p].to \in Entities /\ op[p].status \in {"draft", "posted"} /\ op[p].first \in Refs
      BY <2>0 DEF Transfers, Refs
    <3> QED BY <1>0, <3>1 DEF Row, RowSet, Statuses, Refs, NoEntry
  <2>2. Create(row) /\ UNCHANGED <<priced, shut>> /\ op' = [op EXCEPT ![p] = new]
    BY <1>2, <2>0 DEF SecondHalf, Types
  <2> HIDE DEF row
  <2>4. /\ e \in Entries /\ last' = e /\ e \in last..MaxEntry /\ entry' = [k \in Entries |-> entry'[k]]
        /\ (\A k \in Entries \ {e} : entry'[k] = entry[k]) /\ entry'[e] \in RowSet
    BY <2>1, <2>2, Created
  <2>5. new \in Ops
    BY <2>0, <2>4 DEF Ops, Transfers, Refs
  <2>6. e <= last'
    BY <1>0, <2>4
  <2> HIDE DEF e, new
  <2>7. op' \in [Processes -> Ops]
    BY <2>2, <2>5, OpMoves
  <2> QED BY <2>2, <2>4, <2>6, <2>7, TypesKeptByOne
<1>3. CASE Undo(p)
  <2> DEFINE k == op[p].first
  <2>1. op[p] \in Transfers /\ k \in Entries
    BY <1>3, Kinds DEF Undo, Transfers
  <2>2. entry' = [entry EXCEPT ![k] = NoRow] \/ entry' = entry
    BY <1>3 DEF Undo
  <2>3. op' \in [Processes -> Ops] /\ UNCHANGED <<last, priced, shut>>
    BY <1>3, OpMoves DEF Undo, Ops
  <2> HIDE DEF k
  <2>4. CASE entry' = [entry EXCEPT ![k] = NoRow]
    <3>1. entry' = [j \in Entries |-> entry'[j]] /\ entry'[k] = NoRow /\ \A j \in Entries \ {k} : entry'[j] = entry[j]
      BY <2>1, <2>4 DEF Types
    <3> QED BY <1>0, <2>1, <2>3, <3>1, TypesKeptByOne
  <2>5. CASE entry' = entry
    BY <2>3, <2>5 DEF Types, Rows
  <2> QED BY <2>2, <2>4, <2>5
<1>4. CASE LinkHalves(p)
  <2> DEFINE k == op[p].first
             o == op[p].second
             new == [entry[k] EXCEPT !.other = o]
  <2>1. op[p] \in Transfers /\ k \in Entries /\ o \in Entries
    BY <1>4, Kinds DEF LinkHalves, Transfers, Refs
  <2>2. entry' = IF k \in Rows THEN [entry EXCEPT ![k] = new] ELSE entry
    BY <1>4 DEF LinkHalves, Types
  <2>3. op' \in [Processes -> Ops] /\ UNCHANGED <<last, priced, shut>>
    BY <1>4, OpMoves DEF LinkHalves, Ops
  <2> HIDE DEF k, o
  <2>4. CASE k \in Rows /\ entry' = [entry EXCEPT ![k] = new]
    <3>1. entry[k] \in RowSet /\ k <= last
      BY <2>4, RowFacts DEF Types
    <3>2. new \in RowSet
      BY <2>1, <3>1 DEF RowSet, Refs
    <3> HIDE DEF new
    <3>3. entry' = [j \in Entries |-> entry'[j]] /\ entry'[k] = new /\ \A j \in Entries \ {k} : entry'[j] = entry[j]
      BY <2>1, <2>4 DEF Types
    <3> QED BY <1>0, <2>1, <2>3, <3>1, <3>2, <3>3, TypesKeptByOne
  <2>5. CASE entry' = entry
    BY <2>3, <2>5 DEF Types, Rows
  <2> QED BY <2>2, <2>4, <2>5
<1> QED BY <1>1, <1>2, <1>3, <1>4 DEF Transfer

LEMMA TypesRevaluation ==
  ASSUME MaxEntry \in Nat, Types, NEW p \in Processes, Revaluation(p)
  PROVE  Types'
<1>0. /\ last \in Nat /\ last \in last..MaxEntry /\ priced \in BOOLEAN /\ shut \subseteq Entities
      /\ UNCHANGED <<last, priced, shut>>
  <2>1. UNCHANGED <<last, priced, shut>>
    BY DEF Revaluation, Revalue, RevalueNext, RechainFrom, RechainRow, Revalued
  <2> QED BY <2>1 DEF Types
<1>1. CASE Revalue(p)
  <2> DEFINE new == [kind |-> "revalue", todo |-> {<<e, entry[e].seq>> : e \in Missing},
                     from |-> [n \in Entities |-> 0], rows |-> {}, before |-> {}]
  <2>1. op' = [op EXCEPT ![p] = new] /\ entry' = entry
    BY <1>1 DEF Revalue
  <2>2. {<<e, entry[e].seq>> : e \in Missing} \in SUBSET (Entries \X Nat)
    BY RowFacts DEF Missing
  <2>3. new \in Ops
    BY <2>2 DEF Ops, Revaluations
  <2> HIDE DEF new
  <2>4. op' \in [Processes -> Ops]
    BY <2>1, <2>3, OpMoves
  <2> QED BY <1>0, <2>1, <2>4 DEF Types, Rows
<1>2. CASE RevalueNext(p)
  <2>1. PICK next \in op[p].todo :
          LET e == next[1]
              n == entry[e].entity
          IN  IF Fixable(e)
              THEN /\ entry' = [entry EXCEPT ![e].missing = FALSE]
                   /\ op' = [op EXCEPT ![p].todo = @ \ {next}, ![p].from[n] = Earliest(@, next[2])]
              ELSE /\ op' = [op EXCEPT ![p].todo = @ \ {next}]
                   /\ UNCHANGED entry
    BY <1>2 DEF RevalueNext
  <2>2. op[p] \in Revaluations
    BY <1>2, Kinds DEF RevalueNext
  <2> DEFINE e == next[1]
             s == next[2]
             n == entry[e].entity
             left == op[p].todo \ {next}
  <2>3. e \in Entries /\ s \in Nat /\ left \in SUBSET (Entries \X Nat) /\ op[p].from \in [Entities -> Nat]
    BY <2>2 DEF Revaluations
  <2>4. CASE Fixable(e)
    <3> DEFINE fixed == [entry[e] EXCEPT !.missing = FALSE]
               new == [op[p] EXCEPT !.todo = left, !.from[n] = Earliest(@, s)]
    <3>1. e \in Rows
      BY <2>4 DEF Fixable, Live
    <3>2. entry[e] \in RowSet /\ n \in Entities /\ e <= last
      BY <3>1, RowFacts DEF Types
    <3>3. fixed \in RowSet
      BY <3>2 DEF RowSet
    <3>4. entry' = [entry EXCEPT ![e] = fixed] /\ op' = [op EXCEPT ![p] = new]
      BY <2>1, <2>4 DEF Types
    <3> HIDE DEF e, s, n, left, fixed
    <3>5. Earliest(op[p].from[n], s) \in Nat
      BY <2>3, <3>2 DEF Earliest
    <3>6. new \in Revaluations
      BY <2>2, <2>3, <3>2, <3>5 DEF Revaluations
    <3> HIDE DEF new
    <3>7. op' \in [Processes -> Ops]
      BY <3>4, <3>6, OpMoves DEF Ops
    <3>8. entry' = [j \in Entries |-> entry'[j]] /\ entry'[e] = fixed /\ \A j \in Entries \ {e} : entry'[j] = entry[j]
      BY <2>3, <3>4 DEF Types
    <3> QED BY <1>0, <2>3, <3>2, <3>3, <3>7, <3>8, TypesKeptByOne
  <2>5. CASE ~Fixable(e)
    <3> DEFINE new == [op[p] EXCEPT !.todo = left]
    <3>1. op' = [op EXCEPT ![p] = new] /\ entry' = entry
      BY <2>1, <2>5 DEF Types
    <3>2. new \in Ops
      BY <2>2, <2>3 DEF Ops, Revaluations
    <3> HIDE DEF new
    <3>3. op' \in [Processes -> Ops]
      BY <3>1, <3>2, OpMoves
    <3> QED BY <1>0, <3>1, <3>3 DEF Types, Rows
  <2> QED BY <2>4, <2>5
<1>3. ASSUME NEW n \in Entities, RechainFrom(p, n)
      PROVE  Types'
  <2> DEFINE from == op[p].from[n]
             earlier == {e \in Chained(n) : entry[e].seq < from}
             rows == {<<e, entry[e].seq>> : e \in {x \in Chained(n) : entry[x].seq >= from}}
             before == UNION {entry[e].hash : e \in {x \in earlier : \A f \in earlier : entry[f].seq <= entry[x].seq}}
             new == [op[p] EXCEPT !.rows = rows, !.before = before, !.from[n] = 0]
  <2>1. op[p] \in Revaluations
    BY <1>3, Kinds DEF RechainFrom
  <2>2. rows \in SUBSET (Entries \X Nat)
    BY RowFacts DEF Chained
  <2>3. before \in SUBSET Links
    BY RowFacts DEF Chained
  <2>4. op' = [op EXCEPT ![p] = new] /\ entry' = entry
    BY <1>3 DEF RechainFrom, Types
  <2> HIDE DEF rows, before
  <2>5. new \in Revaluations
    BY <2>1, <2>2, <2>3 DEF Revaluations
  <2> HIDE DEF new
  <2>6. op' \in [Processes -> Ops]
    BY <2>4, <2>5, OpMoves DEF Ops
  <2> QED BY <1>0, <2>4, <2>6 DEF Types, Rows
<1>4. CASE RechainRow(p)
  <2>1. PICK next \in op[p].rows :
          LET e    == next[1]
              hash == op[p].before \cup {Link(e, entry[e])}
          IN  IF e \in Rows
              THEN /\ entry' = [entry EXCEPT ![e].hash = hash]
                   /\ op' = [op EXCEPT ![p].rows = @ \ {next}, ![p].before = hash]
              ELSE /\ op' = [op EXCEPT ![p] = Idle]
                   /\ UNCHANGED entry
    BY <1>4 DEF RechainRow
  <2>2. op[p] \in Revaluations
    BY <1>4, Kinds DEF RechainRow
  <2> DEFINE e == next[1]
             hash == op[p].before \cup {Link(e, entry[e])}
             left == op[p].rows \ {next}
  <2>3. e \in Entries /\ left \in SUBSET (Entries \X Nat) /\ op[p].before \in SUBSET Links
    BY <2>2 DEF Revaluations
  <2>4. CASE e \in Rows
    <3> DEFINE done == [entry[e] EXCEPT !.hash = hash]
               new == [op[p] EXCEPT !.rows = left, !.before = hash]
    <3>1. entry[e] \in RowSet /\ e <= last /\ entry[e].missing \in BOOLEAN
      BY <2>4, RowFacts DEF Types
    <3>2. hash \in SUBSET Links
      BY <2>3, <3>1 DEF Link, Links
    <3>3. entry' = [entry EXCEPT ![e] = done] /\ op' = [op EXCEPT ![p] = new]
      BY <2>1, <2>4 DEF Types
    <3> HIDE DEF e, left, hash
    <3>4. done \in RowSet
      BY <3>1, <3>2 DEF RowSet
    <3>5. new \in Revaluations
      BY <2>2, <2>3, <3>2 DEF Revaluations
    <3> HIDE DEF new, done
    <3>6. op' \in [Processes -> Ops]
      BY <3>3, <3>5, OpMoves DEF Ops
    <3>7. entry' = [j \in Entries |-> entry'[j]] /\ entry'[e] = done /\ \A j \in Entries \ {e} : entry'[j] = entry[j]
      BY <2>3, <3>3 DEF Types
    <3> QED BY <1>0, <2>3, <3>1, <3>4, <3>6, <3>7, TypesKeptByOne
  <2>5. CASE e \notin Rows
    <3>1. op' = [op EXCEPT ![p] = Idle] /\ entry' = entry
      BY <2>1, <2>5
    <3>2. op' \in [Processes -> Ops]
      BY <3>1, OpMoves DEF Ops
    <3> QED BY <1>0, <3>1, <3>2 DEF Types, Rows
  <2> QED BY <2>4, <2>5
<1>5. CASE Revalued(p)
  <2>1. op' \in [Processes -> Ops] /\ entry' = entry
    BY <1>5, OpMoves DEF Revalued, Ops
  <2> QED BY <1>0, <2>1 DEF Types, Rows
<1> QED BY <1>1, <1>2, <1>3, <1>4, <1>5 DEF Revaluation

LEMMA TypesNext ==
  ASSUME MaxEntry \in Nat, Types, [Next]_vars
  PROVE  Types'
<1>1. ASSUME NEW p \in Processes, Die(p)
      PROVE  Types'
  <2>1. op' \in [Processes -> Ops] /\ UNCHANGED <<entry, last, priced, shut>>
    BY <1>1, OpMoves DEF Die, Ops
  <2> QED BY <2>1 DEF Types, Rows
<1>2. ASSUME NEW p \in Processes, Transfer(p)
      PROVE  Types'
  BY <1>2, TypesTransfer
<1>3. ASSUME NEW p \in Processes, Revaluation(p)
      PROVE  Types'
  BY <1>3, TypesRevaluation
<1> QED BY <1>1, <1>2, <1>3, TypesBeside DEF Next

LEMMA TypesAlways == ASSUME MaxEntry \in Nat PROVE Spec => []Types
<1>1. Types /\ [Next]_vars => Types'
  BY TypesNext
<1>2. Init => Types
  BY TypesInit
<1> QED BY <1>1, <1>2, PTL DEF Spec

(* Every variable keeps its type, for any number of processes, dying or not. *)
THEOREM TypeCorrect ==
  ASSUME MaxEntry \in Nat
  PROVE  Spec => []TypeOK
<1>1. Types => TypeOK
  <2> SUFFICES ASSUME Types
               PROVE  TypeOK
    OBVIOUS
  <2>1. \A e \in Rows : /\ entry[e].entity \in Entities /\ entry[e].status \in Statuses
                        /\ entry[e].missing \in BOOLEAN /\ entry[e].half \in BOOLEAN
                        /\ entry[e].other \in Refs /\ entry[e].reverses \in Refs /\ entry[e].hash \in SUBSET Links
    BY RowFacts
  <2>2. \A p \in Processes : op[p].kind \in {"idle", "transfer", "revalue"}
    BY Kinds DEF Idle
  <2> QED BY <2>1, <2>2 DEF TypeOK, Types, Statuses, Refs, Links
<1> QED BY <1>1, TypesAlways, PTL

LEMMA ClosedKept == Types /\ [Next]_vars => [KeepsClosed]_vars
<1> SUFFICES ASSUME Types, Next, NEW e \in Rows, entry[e].status # "draft", entry[e].entity \in shut, entry'[e] # NoRow
             PROVE  entry'[e].missing = entry[e].missing
  BY DEF KeepsClosed
<1>1. e \in Entries /\ e <= last /\ last \in Nat /\ e \in Nat /\ entry[e] \in RowSet /\ DOMAIN entry = Entries
  BY RowFacts DEF Types, Entries
<1>2. ASSUME NEW row, Create(row)
      PROVE  entry'[e] = entry[e]
  <2>1. entry' = [entry EXCEPT ![last + 1] = IF row.status = "posted" THEN Appended(last + 1, row) ELSE row]
    BY <1>2 DEF Create
  <2>2. e # last + 1
    BY <1>1
  <2> QED BY <1>1, <2>1, <2>2
<1>3. ASSUME NEW p \in Processes, Transfer(p)
      PROVE  entry'[e].missing = entry[e].missing
  <2>1. CASE Undo(p) \/ LinkHalves(p)
    BY <1>1, <2>1 DEF Undo, LinkHalves, RowSet
  <2>2. CASE ~(Undo(p) \/ LinkHalves(p))
    BY <1>2, <1>3, <2>2 DEF Transfer, FirstHalf, SecondHalf
  <2> QED BY <2>1, <2>2
<1>4. ASSUME NEW p \in Processes, Revaluation(p)
      PROVE  entry'[e].missing = entry[e].missing
  <2>1. CASE RevalueNext(p)
    <3>1. PICK next \in op[p].todo :
            IF Fixable(next[1]) THEN entry' = [entry EXCEPT ![next[1]].missing = FALSE] ELSE entry' = entry
      BY <2>1 DEF RevalueNext
    <3>2. Fixable(next[1]) => next[1] # e
      BY DEF Fixable
    <3> QED BY <1>1, <3>1, <3>2
  <2>2. CASE RechainRow(p)
    <3>1. PICK next \in op[p].rows :
            \/ entry' = [entry EXCEPT ![next[1]].hash = op[p].before \cup {Link(next[1], entry[next[1]])}]
            \/ entry' = entry
      BY <2>2 DEF RechainRow
    <3> QED BY <1>1, <3>1 DEF RowSet
  <2>3. CASE ~RevalueNext(p) /\ ~RechainRow(p)
    BY <1>4, <2>3 DEF Revaluation, Revalue, RechainFrom, Revalued
  <2> QED BY <2>1, <2>2, <2>3
<1>5. ASSUME NEW k \in Entries, Post(k) \/ Void(k) \/ DeleteDraft(k)
      PROVE  entry'[e].missing = entry[e].missing
  <2>1. CASE Post(k)
    BY <1>1, <2>1 DEF Post
  <2>2. CASE Void(k)
    <3>1. e # last + 1
      BY <1>1
    <3> QED BY <1>1, <2>2, <3>1 DEF Void, RowSet
  <2>3. CASE DeleteDraft(k)
    BY <1>1, <2>3 DEF DeleteDraft
  <2> QED BY <1>5, <2>1, <2>2, <2>3
<1> QED BY <1>2, <1>3, <1>4, <1>5 DEF Next, Capture, SetPrice, SetLock, Die

(* What is booked in a closed period keeps its value: of all the steps only a revaluation
   changes one, and it asks for the lock date of each entry, for any number of processes. *)
THEOREM ClosedStaysClosed ==
  ASSUME MaxEntry \in Nat
  PROVE  Spec => [][KeepsClosed]_vars
BY ClosedKept, TypesAlways, PTL DEF Spec

(***************************************************************************)
(* Processes that take turns and do not die                                *)
(***************************************************************************)

(* What a stored hash has to commit to. *)
UpTo(n, s) == {Link(f, entry[f]) : f \in {x \in Chained(n) : entry[x].seq <= s}}
Ok(e)      == entry[e].hash = UpTo(entry[e].entity, entry[e].seq)

(* The revaluation of p is still going to write the hash of e. *)
Awaits(p, e) ==
  /\ op[p].kind = "revalue"
  /\ \/ op[p].from[entry[e].entity] # 0 /\ op[p].from[entry[e].entity] <= entry[e].seq
     \/ <<e, entry[e].seq>> \in op[p].rows

Numbered  == \A e \in Rows : entry[e].status = "draft" => entry[e].seq = 0
SeqUnique ==
  \A e, f \in Rows :
    entry[e].entity = entry[f].entity /\ entry[e].seq = entry[f].seq /\ entry[e].seq # 0 => e = f
AllOk     == \A e \in Rows : entry[e].seq # 0 => Ok(e)
Chains    == \A e \in Rows : entry[e].seq # 0 => Ok(e) \/ \E p \in Processes : Awaits(p, e)

(* What a revaluation has read is still so; the rows that its rechain has left to do are
   the end of one chain, and `before` is what comes before them. *)
Rest(p, n) == {x \in Chained(n) : <<x, entry[x].seq>> \notin op[p].rows}
RevalueHolds(p) ==
  op[p].kind = "revalue" =>
    /\ \A next \in op[p].todo \cup op[p].rows : next[1] \in Rows /\ entry[next[1]].seq = next[2]
    /\ op[p].rows # {} =>
         /\ op[p].todo = {}
         /\ \E n \in Entities :
              /\ \A next \in op[p].rows : next[1] \in Chained(n)
              /\ \A x \in Rest(p, n), next \in op[p].rows : entry[x].seq < next[2]
              /\ op[p].before = {Link(x, entry[x]) : x \in Rest(p, n)}

(* References name rows that are there. *)
References == \A e \in Rows : entry[e].other \in Rows \cup {NoEntry} /\ entry[e].reverses \in Rows \cup {NoEntry}

(* Until there is a second half nothing follows the first one, or refers to it. *)
TransferHolds(p) ==
  op[p].kind = "transfer" =>
    LET first  == op[p].first
        second == op[p].second
    IN
    /\ first \in Rows /\ entry[first].half /\ entry[first].other = NoEntry /\ entry[first].entity # op[p].to
    /\ second = NoEntry =>
         /\ ~Referred(first)
         /\ \A x \in Rows : entry[x].entity = entry[first].entity /\ entry[first].seq # 0
              => entry[x].seq <= entry[first].seq
    /\ second # NoEntry =>
         second \in Rows /\ entry[second].half /\ entry[second].other = first /\ entry[second].entity = op[p].to

Partners(e, f) ==
  entry[f].half /\ entry[f].entity # entry[e].entity /\ entry[e].other = f /\ entry[f].other = e
UnderWay(e) == \E p \in Processes : op[p].kind = "transfer" /\ e \in {op[p].first, op[p].second}
Halves    == \A e \in Rows : entry[e].half => (\E f \in Rows : Partners(e, f)) \/ UnderWay(e)

One == \A p, q \in Processes : op[p] # Idle /\ op[q] # Idle => p = q

IInv ==
  /\ Types /\ One /\ Numbered /\ SeqUnique /\ Chains /\ References /\ Halves
  /\ \A p \in Processes : RevalueHolds(p) /\ TransferHolds(p)

(* The state is changed in the rows that a step writes, and in one operation. *)
LEMMA Turn ==
  ASSUME Types, NEW p \in Processes, NEW new, op' = [op EXCEPT ![p] = new],
         \A q \in Processes \ {p} : op[q] = Idle
  PROVE  /\ One' /\ op'[p] = new
         /\ \A q \in Processes \ {p} : op'[q] = Idle /\ RevalueHolds(q)' /\ TransferHolds(q)'
<1>1. op'[p] = new /\ \A q \in Processes \ {p} : op'[q] = Idle
  BY DEF Types
<1>2. Idle.kind = "idle" /\ "idle" # "transfer" /\ "idle" # "revalue"
  BY DEF Idle
<1> QED BY <1>1, <1>2 DEF One, RevalueHolds, TransferHolds

LEMMA AllOkIsEnough ==
  ASSUME AllOk
  PROVE  Chains
BY DEF AllOk, Chains

(* Without a revaluation nothing is to be done. *)
LEMMA NothingAwaits ==
  ASSUME Chains, \A p \in Processes : op[p].kind # "revalue"
  PROVE  AllOk
BY DEF AllOk, Chains, Awaits

LEMMA HeadIsAll ==
  ASSUME MaxEntry \in Nat, Types, AllOk, NEW n, Chained(n) # {}
  PROVE  entry[HeadOf(n)].hash = {Link(f, entry[f]) : f \in Chained(n)}
<1> DEFINE h == HeadOf(n)
<1>1. h \in Chained(n) /\ \A f \in Chained(n) : entry[f].seq <= entry[h].seq
  BY HeadExists
<1> HIDE DEF h
<1>2. Ok(h) /\ entry[h].entity = n
  BY <1>1 DEF AllOk, Chained
<1>3. {x \in Chained(n) : entry[x].seq <= entry[h].seq} = Chained(n)
  BY <1>1
<1> QED BY <1>2, <1>3 DEF Ok, UpTo, h

(* The links up to s are those of the same entries with the same values. *)
LEMMA LinksKept ==
  ASSUME NEW n, NEW s,
         {x \in Chained(n) : entry[x].seq <= s}' = {x \in Chained(n) : entry[x].seq <= s},
         \A x \in Chained(n) : entry[x].seq <= s => entry'[x].missing = entry[x].missing
  PROVE  UpTo(n, s)' = UpTo(n, s)
<1> DEFINE S == {x \in Chained(n) : entry[x].seq <= s}
<1>1. UpTo(n, s)' = {<<x, entry'[x].missing>> : x \in S}
  BY DEF UpTo, Link
<1>2. UpTo(n, s) = {<<x, entry[x].missing>> : x \in S}
  BY DEF UpTo, Link
<1>3. \A x \in S : entry'[x].missing = entry[x].missing
  OBVIOUS
<1> QED BY <1>1, <1>2, <1>3

(* A row that comes at the end of its chain, or that is a draft. *)
LEMMA Grown ==
  ASSUME MaxEntry \in Nat, Types, Types', Numbered, SeqUnique, AllOk, NEW k, NEW n, n = entry'[k].entity,
         Rows' = Rows \cup {k}, k \in Rows => entry[k].seq = 0,
         \A e \in Rows \ {k} :
           /\ entry'[e].entity = entry[e].entity /\ entry'[e].seq = entry[e].seq
           /\ entry'[e].missing = entry[e].missing /\ entry'[e].hash = entry[e].hash
           /\ entry'[e].status = "draft" => entry[e].status = "draft",
         entry'[k].status = "draft" => entry'[k].seq = 0,
         entry'[k].seq # 0 =>
           /\ \A f \in Chained(n) : entry[f].seq < entry'[k].seq
           /\ Chained(n) = {} => entry'[k].hash = {<<k, entry'[k].missing>>}
           /\ Chained(n) # {} => entry'[k].hash = entry[HeadOf(n)].hash \cup {<<k, entry'[k].missing>>}
  PROVE  Numbered' /\ SeqUnique' /\ AllOk'
<1>1. /\ \A e \in Rows : entry[e].seq \in Nat
      /\ \A e \in Rows' : entry'[e].seq \in Nat
  <2>1. \A e \in Rows : entry[e].seq \in Nat
    BY RowFacts
  <2>2. \A e \in Rows' : entry'[e] \in RowSet
    BY DEF Types
  <2> QED BY <2>1, <2>2 DEF RowSet
<1>2. Numbered'
  BY DEF Numbered
<1>3. \A m : Chained(m)' = {e \in Rows \cup {k} : entry'[e].entity = m /\ entry'[e].seq > 0}
  BY DEF Chained
<1>4. \A m, e : e # k => (e \in Chained(m)' <=> e \in Chained(m))
  BY <1>3 DEF Chained
<1>5. k \in Chained(n)' <=> entry'[k].seq # 0
  BY <1>1, <1>3
<1>6. \A m : k \notin Chained(m)
  BY DEF Chained
<1>7. SeqUnique'
  <2> SUFFICES ASSUME NEW e \in Rows', NEW f \in Rows', entry'[e].entity = entry'[f].entity,
                      entry'[e].seq = entry'[f].seq, entry'[e].seq # 0
               PROVE  e = f
    BY DEF SeqUnique
  <2>1. CASE e # k /\ f # k
    BY <2>1 DEF SeqUnique
  <2>2. ASSUME NEW x \in Rows \ {k}, entry'[x].entity = n, entry'[x].seq = entry'[k].seq, entry'[k].seq # 0
        PROVE  FALSE
    <3>1. x \in Chained(n)
      BY <1>1, <2>2 DEF Chained
    <3> QED BY <1>1, <2>2, <3>1
  <2> QED BY <2>1, <2>2
<1>8. ASSUME NEW e \in Rows', entry'[e].seq # 0
      PROVE  Ok(e)'
  <2>3. PICK m, s : m = entry'[e].entity /\ s = entry'[e].seq
    OBVIOUS
  <2>0. Ok(e)' <=> entry'[e].hash = UpTo(m, s)'
    BY <2>3 DEF Ok
  <2>1. CASE e # k
    <3>1. e \in Rows /\ m = entry[e].entity /\ s = entry[e].seq /\ entry'[e].hash = entry[e].hash /\ s \in Nat
      BY <1>1, <2>1, <2>3
    <3>2. entry[e].hash = UpTo(m, s)
      BY <1>8, <2>3, <3>1 DEF AllOk, Ok
    <3>3. e \in Chained(m) /\ entry[e].seq = s
      BY <1>1, <1>8, <2>3, <3>1 DEF Chained
    <3>4. k \in Chained(m)' => m = n /\ entry'[k].seq > s
      <4>1. k \in Chained(m)' => m = n /\ entry'[k].seq # 0
        BY <1>1, <1>3
      <4> QED BY <1>1, <3>1, <3>3, <4>1
    <3>5. \A x : x \in Chained(m)' /\ entry'[x].seq <= s <=> x \in Chained(m) /\ entry[x].seq <= s
      <4>1. ASSUME NEW x, x # k
            PROVE  x \in Chained(m)' /\ entry'[x].seq <= s <=> x \in Chained(m) /\ entry[x].seq <= s
        <5>1. x \in Chained(m) => x \in Rows
          BY DEF Chained
        <5> QED BY <1>4, <4>1, <5>1
      <4>2. k \in Chained(m)' => ~(entry'[k].seq <= s)
        <5>1. k \in Chained(m)' => entry'[k].seq \in Nat
          BY <1>1
        <5> QED BY <3>1, <3>4, <5>1
      <4> QED BY <1>6, <4>1, <4>2
    <3>6. {x \in Chained(m) : entry[x].seq <= s}' = {x \in Chained(m) : entry[x].seq <= s}
      BY <3>5
    <3>7. \A x \in Chained(m) : entry'[x].missing = entry[x].missing
      BY <1>6 DEF Chained
    <3>8. UpTo(m, s)' = UpTo(m, s)
      BY <3>6, <3>7, LinksKept
    <3> QED BY <2>0, <3>1, <3>2, <3>8
  <2>2. CASE e = k
    <3>1. m = n /\ \A f \in Chained(n) : entry[f].seq < s
      BY <1>8, <2>2, <2>3
    <3>2. {x \in Chained(n) : entry[x].seq <= s}' = Chained(n) \cup {k}
      <4>1. \A x \in Chained(n) : x \in Rows \ {k} /\ entry'[x].seq = entry[x].seq /\ entry[x].seq \in Nat
        BY <1>1, <1>6 DEF Chained
      <4>2. s \in Nat /\ k \in Chained(n)'
        BY <1>1, <1>5, <1>8, <2>2, <2>3
      <4> QED BY <1>4, <1>6, <2>2, <2>3, <3>1, <4>1, <4>2
    <3>3. UpTo(n, s)' = {<<x, entry'[x].missing>> : x \in Chained(n) \cup {k}}
      BY <3>2 DEF UpTo, Link
    <3>4. \A x \in Chained(n) : entry'[x].missing = entry[x].missing
      BY <1>6 DEF Chained
    <3>5. UpTo(n, s)' = {<<x, entry[x].missing>> : x \in Chained(n)} \cup {<<k, entry'[k].missing>>}
      BY <3>3, <3>4
    <3>6. CASE Chained(n) = {}
      BY <1>8, <2>0, <2>2, <3>1, <3>5, <3>6
    <3>7. CASE Chained(n) # {}
      <4>1. entry[HeadOf(n)].hash = {<<x, entry[x].missing>> : x \in Chained(n)}
        BY <3>7, HeadIsAll DEF Link
      <4> QED BY <1>8, <2>0, <2>2, <3>1, <3>5, <3>7, <4>1
    <3> QED BY <3>6, <3>7
  <2> QED BY <2>1, <2>2
<1> QED BY <1>2, <1>7, <1>8 DEF AllOk

(* The last row of a chain, or one that is in none, is gone. *)
LEMMA Shrunk ==
  ASSUME Types, Types', Numbered, SeqUnique, AllOk, NEW k \in Rows, Rows' = Rows \ {k},
         \A e \in Rows \ {k} : entry'[e] = entry[e],
         \A x \in Rows : entry[x].entity = entry[k].entity /\ entry[k].seq # 0 => entry[x].seq <= entry[k].seq
  PROVE  Numbered' /\ SeqUnique' /\ AllOk'
<1>1. \A e \in Rows : entry[e].seq \in Nat
  BY RowFacts
<1>2. Numbered' /\ SeqUnique'
  BY DEF Numbered, SeqUnique
<1>3. ASSUME NEW e \in Rows', entry'[e].seq # 0
      PROVE  Ok(e)'
  <2>1. PICK m, s : m = entry[e].entity /\ s = entry[e].seq
    OBVIOUS
  <2>2. e \in Rows /\ e # k /\ entry'[e] = entry[e] /\ s \in Nat /\ s # 0
    BY <1>1, <1>3, <2>1
  <2>3. \A x : x \in Chained(m)' <=> x \in Chained(m) /\ x # k
    BY DEF Chained
  <2>4. k \in Chained(m) => ~(entry[k].seq <= s)
    <3>1. ASSUME k \in Chained(m), entry[k].seq <= s
          PROVE  FALSE
      <4>1. entry[k].entity = m /\ entry[k].seq # 0 /\ entry[k].seq \in Nat
        BY <1>1, <3>1 DEF Chained
      <4>2. s <= entry[k].seq
        BY <2>1, <2>2, <4>1
      <4>3. s = entry[k].seq
        BY <2>2, <3>1, <4>1, <4>2
      <4> QED BY <2>1, <2>2, <4>1, <4>3 DEF SeqUnique
    <3> QED BY <3>1
  <2>5. \A x \in Chained(m) : x # k => entry'[x] = entry[x]
    BY DEF Chained
  <2>6. {x \in Chained(m) : entry[x].seq <= s}' = {x \in Chained(m) : entry[x].seq <= s}
    BY <2>3, <2>4, <2>5
  <2>7. \A x \in Chained(m) : entry[x].seq <= s => entry'[x].missing = entry[x].missing
    BY <2>4, <2>5
  <2>8. UpTo(m, s)' = UpTo(m, s)
    BY <2>6, <2>7, LinksKept
  <2>9. entry[e].hash = UpTo(m, s)
    BY <2>1, <2>2 DEF AllOk, Ok
  <2> QED BY <2>1, <2>2, <2>8, <2>9 DEF Ok
<1> QED BY <1>2, <1>3 DEF AllOk

(* Rows that keep their places and values; hashes may be written. *)
LEMMA Unmoved ==
  ASSUME Types, Numbered, SeqUnique, Rows' = Rows,
         \A e \in Rows :
           /\ entry'[e].entity = entry[e].entity /\ entry'[e].seq = entry[e].seq
           /\ entry'[e].missing = entry[e].missing /\ entry'[e].status = entry[e].status
  PROVE  /\ Numbered' /\ SeqUnique' /\ \A n : Chained(n)' = Chained(n)
         /\ \A n, s : UpTo(n, s)' = UpTo(n, s)
         /\ \A e \in Rows : entry'[e].hash = entry[e].hash => (Ok(e)' <=> Ok(e))
<1>1. Numbered' /\ SeqUnique'
  BY DEF Numbered, SeqUnique
<1>2. \A n : Chained(n)' = Chained(n)
  BY DEF Chained
<1>3. ASSUME NEW n, NEW s
      PROVE  UpTo(n, s)' = UpTo(n, s)
  <2>1. \A x \in Chained(n) : entry'[x].missing = entry[x].missing /\ entry'[x].seq = entry[x].seq
    BY DEF Chained
  <2>2. {x \in Chained(n) : entry[x].seq <= s}' = {x \in Chained(n) : entry[x].seq <= s}
    BY <1>2, <2>1
  <2> QED BY <2>1, <2>2, LinksKept
<1>4. ASSUME NEW e \in Rows, entry'[e].hash = entry[e].hash
      PROVE  Ok(e)' <=> Ok(e)
  <2>1. PICK m, s : m = entry[e].entity /\ s = entry[e].seq
    OBVIOUS
  <2>2. UpTo(m, s)' = UpTo(m, s)
    BY <1>3
  <2>3. m = entry'[e].entity /\ s = entry'[e].seq
    BY <2>1
  <2> QED BY <1>4, <2>1, <2>2, <2>3 DEF Ok
<1> QED BY <1>1, <1>2, <1>3, <1>4

(* create_entry ends its chain, or is a draft. *)
LEMMA CreatedChain ==
  ASSUME MaxEntry \in Nat, Types, Types', Numbered, SeqUnique, AllOk,
         NEW row \in RowSet, row.status \in {"draft", "posted"}, row.seq = 0, Create(row),
         NEW e, e = last + 1
  PROVE  /\ Numbered' /\ SeqUnique' /\ AllOk'
         /\ \A x \in Rows' : entry'[x].entity = entry'[e].entity /\ entry'[e].seq # 0
              => entry'[x].seq <= entry'[e].seq
<1>1. /\ e \in Entries /\ e \notin Rows /\ Rows' = Rows \cup {e}
      /\ \A f \in Entries \ {e} : entry'[f] = entry[f]
      /\ entry'[e] = IF row.status = "posted" THEN Appended(e, row) ELSE row
      /\ entry'[e] \in RowSet /\ entry'[e].entity = row.entity /\ entry'[e].status = row.status
      /\ entry'[e].missing = row.missing
  BY Created
<1>2. PICK n : n = row.entity
  OBVIOUS
<1>3. row.status = "posted" =>
        /\ \A f \in Chained(n) : entry[f].seq < entry'[e].seq
        /\ Chained(n) = {} => entry'[e].hash = {<<e, entry'[e].missing>>}
        /\ Chained(n) # {} => entry'[e].hash = entry[HeadOf(n)].hash \cup {<<e, entry'[e].missing>>}
  <2>1. ASSUME row.status = "posted"
        PROVE  /\ \A f \in Chained(row.entity) : entry[f].seq < entry'[e].seq
               /\ Chained(row.entity) = {} => entry'[e].hash = {Link(e, row)}
               /\ Chained(row.entity) # {} => entry'[e].hash = entry[HeadOf(row.entity)].hash \cup {Link(e, row)}
    <3>1. PICK new : new = Appended(e, row)
      OBVIOUS
    <3>2. entry'[e] = new
      BY <1>1, <2>1, <3>1
    <3>3. /\ \A f \in Chained(row.entity) : entry[f].seq < new.seq
          /\ Chained(row.entity) = {} => new.hash = {Link(e, row)}
          /\ Chained(row.entity) # {} => new.hash = entry[HeadOf(row.entity)].hash \cup {Link(e, row)}
      BY <1>1, <3>1, AppendedFacts
    <3> QED BY <3>2, <3>3
  <2>2. Link(e, row) = <<e, entry'[e].missing>>
    BY <1>1 DEF Link
  <2> QED BY <1>2, <2>1, <2>2
<1>4. row.status = "draft" => entry'[e].seq = 0
  BY <1>1
<1>5. \A f \in Rows : f # e /\ entry'[f] = entry[f]
  BY <1>1 DEF Rows
<1>6. Numbered' /\ SeqUnique' /\ AllOk'
  <2>1. n = entry'[e].entity /\ (entry'[e].status = "draft" => entry'[e].seq = 0)
    BY <1>1, <1>2, <1>4
  <2>2. entry'[e].seq # 0 =>
          /\ \A f \in Chained(n) : entry[f].seq < entry'[e].seq
          /\ Chained(n) = {} => entry'[e].hash = {<<e, entry'[e].missing>>}
          /\ Chained(n) # {} => entry'[e].hash = entry[HeadOf(n)].hash \cup {<<e, entry'[e].missing>>}
    BY <1>3, <1>4
  <2> QED BY <1>1, <1>5, <2>1, <2>2, Grown
<1>7. ASSUME NEW x \in Rows', entry'[x].entity = entry'[e].entity, entry'[e].seq # 0
      PROVE  entry'[x].seq <= entry'[e].seq
  <2>1. entry'[e].seq \in Nat
    BY <1>1 DEF RowSet
  <2>2. CASE x = e
    BY <2>1, <2>2
  <2>3. CASE x # e
    <3>1. x \in Rows /\ entry'[x] = entry[x] /\ entry[x].entity = n /\ entry[x].seq \in Nat
      BY <1>1, <1>2, <1>5, <1>7, <2>3, RowFacts
    <3>2. \A f \in Chained(n) : entry[f].seq < entry'[e].seq
      BY <1>3, <1>4, <1>7
    <3>3. entry[x].seq # 0 => x \in Chained(n)
      BY <3>1 DEF Chained
    <3> QED BY <2>1, <3>1, <3>2, <3>3
  <2> QED BY <2>2, <2>3
<1> QED BY <1>6, <1>7

(* Steps while no operation is in progress. *)
LEMMA QuietFacts ==
  ASSUME IInv, Quiet
  PROVE  /\ AllOk /\ \A p \in Processes : op[p].kind = "idle"
         /\ \A e \in Rows : entry[e].half => \E f \in Rows : Partners(e, f)
<1>1. \A p \in Processes : op[p].kind = "idle"
  BY DEF Quiet, Idle
<1>2. AllOk
  BY <1>1, NothingAwaits DEF IInv
<1> QED BY <1>1, <1>2 DEF IInv, Halves, UnderWay

LEMMA QuietKept ==
  ASSUME Types', Quiet, UNCHANGED op, Numbered', SeqUnique', AllOk', References',
         \A e \in Rows' : entry'[e].half => \E f \in Rows' : Partners(e, f)'
  PROVE  IInv'
<1>1. \A p \in Processes : op'[p] = Idle
  BY DEF Quiet
<1>2. One' /\ \A p \in Processes : RevalueHolds(p)' /\ TransferHolds(p)'
  BY <1>1 DEF One, RevalueHolds, TransferHolds, Idle
<1>3. Chains'
  BY DEF AllOk, Chains
<1>4. Halves'
  BY DEF Halves
<1> QED BY <1>2, <1>3, <1>4 DEF IInv

LEMMA BesideHolds ==
  ASSUME MaxEntry \in Nat, Alone, IInv, Types',
         \/ \E n \in Entities, s \in {"draft", "posted"}, f \in BOOLEAN : Capture(n, s, f)
         \/ \E e \in Entries : Post(e) \/ Void(e) \/ DeleteDraft(e)
         \/ \E n \in Entities : SetLock(n)
         \/ SetPrice
  PROVE  IInv'
<1>0. Types /\ Numbered /\ SeqUnique /\ References /\ last \in Nat /\ priced \in BOOLEAN
  BY DEF IInv, Types
<1>1. Quiet /\ UNCHANGED op
  BY DEF Capture, Post, Void, DeleteDraft, SetLock, SetPrice, Beside
<1>2. AllOk /\ \A e \in Rows : entry[e].half => \E f \in Rows : Partners(e, f)
  BY <1>1, QuietFacts
<1>3. ASSUME NEW n \in Entities, NEW s \in {"draft", "posted"}, NEW f \in BOOLEAN, Capture(n, s, f)
      PROVE  IInv'
  <2> DEFINE row == Row(n, s, f, NoEntry, NoEntry, FALSE)
             e == last + 1
  <2>1. /\ row \in RowSet /\ row.other = NoEntry /\ row.reverses = NoEntry /\ row.status = s
        /\ row.seq = 0 /\ row.half = FALSE
    BY <1>0 DEF Row, RowSet, Statuses, Refs
  <2>2. Create(row)
    BY <1>3 DEF Capture
  <2> HIDE DEF row
  <2>3. /\ e \in Entries /\ e \notin Rows /\ Rows' = Rows \cup {e}
        /\ \A k \in Entries \ {e} : entry'[k] = entry[k]
        /\ entry'[e].other = NoEntry /\ entry'[e].reverses = NoEntry /\ ~entry'[e].half
    BY <1>0, <2>1, <2>2, Created
  <2>4. Numbered' /\ SeqUnique' /\ AllOk'
    BY <1>0, <1>2, <2>1, <2>2, CreatedChain
  <2> HIDE DEF e
  <2>5. \A k \in Rows : k # e /\ entry'[k] = entry[k]
    BY <2>3 DEF Rows
  <2>6. References'
    BY <1>0, <2>3, <2>5 DEF References
  <2>7. \A k \in Rows' : entry'[k].half => \E g \in Rows' : Partners(k, g)'
    BY <1>2, <2>3, <2>5 DEF Partners
  <2> QED BY <1>1, <2>4, <2>6, <2>7, QuietKept
<1>4. ASSUME NEW e \in Entries, Post(e)
      PROVE  IInv'
  <2> DEFINE row == [entry[e] EXCEPT !.status = "posted"]
  <2>1. PICK new : new = Appended(e, row)
    OBVIOUS
  <2>2. e \in Rows /\ entry' = [entry EXCEPT ![e] = new] /\ entry[e].status = "draft"
    BY <1>4, <2>1 DEF Post
  <2>3. entry'[e] = new /\ \A k \in Rows \ {e} : entry'[k] = entry[k]
    BY <1>0, <2>2 DEF Types, Rows
  <2>4. /\ row \in RowSet /\ row.entity = entry[e].entity /\ row.missing = entry[e].missing
        /\ row.other = entry[e].other /\ row.reverses = entry[e].reverses /\ row.half = entry[e].half
        /\ row.status = "posted"
    <3>1. entry[e] \in RowSet
      BY <1>0, <2>2, RowFacts
    <3> QED BY <3>1 DEF RowSet, Statuses
  <2> HIDE DEF row
  <2>5. PICK n : n = row.entity
    OBVIOUS
  <2>6. /\ new \in RowSet /\ new.entity = n /\ new.status = "posted" /\ new.missing = row.missing
        /\ new.other = row.other /\ new.reverses = row.reverses /\ new.half = row.half
        /\ \A f \in Chained(n) : entry[f].seq < new.seq
        /\ Chained(n) = {} => new.hash = {<<e, new.missing>>}
        /\ Chained(n) # {} => new.hash = entry[HeadOf(n)].hash \cup {<<e, new.missing>>}
    <3>1. /\ new \in RowSet /\ new.entity = row.entity /\ new.status = row.status /\ new.missing = row.missing
          /\ new.other = row.other /\ new.reverses = row.reverses /\ new.half = row.half
          /\ \A f \in Chained(row.entity) : entry[f].seq < new.seq
          /\ Chained(row.entity) = {} => new.hash = {Link(e, row)}
          /\ Chained(row.entity) # {} => new.hash = entry[HeadOf(row.entity)].hash \cup {Link(e, row)}
      BY <1>0, <2>1, <2>4, AppendedFacts
    <3>2. Link(e, row) = <<e, new.missing>>
      BY <3>1 DEF Link
    <3> QED BY <2>4, <2>5, <3>1, <3>2
  <2>7. Rows' = Rows /\ Rows' = Rows \cup {e}
    BY <2>2, <2>3, <2>6, NoRowIsNone DEF Rows
  <2>8. entry[e].seq = 0
    BY <1>0, <2>2 DEF Numbered
  <2>9. Numbered' /\ SeqUnique' /\ AllOk'
    BY <1>0, <1>2, <2>3, <2>5, <2>6, <2>7, <2>8, Grown
  <2>10. \A k \in Rows : /\ entry'[k].other = entry[k].other /\ entry'[k].reverses = entry[k].reverses
                         /\ entry'[k].half = entry[k].half /\ entry'[k].entity = entry[k].entity
    BY <2>3, <2>4, <2>5, <2>6
  <2>11. References'
    BY <1>0, <2>7, <2>10 DEF References
  <2>12. \A k \in Rows' : entry'[k].half => \E g \in Rows' : Partners(k, g)'
    BY <1>2, <2>7, <2>10 DEF Partners
  <2> QED BY <1>1, <2>9, <2>11, <2>12, QuietKept
<1>5. ASSUME NEW e \in Entries, Void(e)
      PROVE  IInv'
  <2> DEFINE base == Row(entry[e].entity, "posted", FALSE, NoEntry, e, FALSE)
             row == [base EXCEPT !.missing = FALSE]
             old == [entry[e] EXCEPT !.status = "void"]
             k == last + 1
  <2>1. PICK new : new = Appended(k, row)
    OBVIOUS
  <2>2. e \in Rows /\ k \in Entries /\ entry' = [entry EXCEPT ![e].status = "void", ![k] = new]
    BY <1>5, <2>1 DEF Void
  <2>3. k \notin Rows /\ e # k
    <3>1. \A f \in Rows : f <= last
      BY <1>0 DEF Types
    <3> QED BY <1>0, <2>2, <3>1
  <2>4. row \in RowSet /\ row.other = NoEntry /\ row.reverses = e /\ row.status = "posted" /\ row.half = FALSE
    <3>1. entry[e].entity \in Entities /\ NoEntry \in Refs /\ e \in Refs
      BY <1>0, <2>2, RowFacts DEF Refs
    <3>2. /\ base \in RowSet /\ base.other = NoEntry /\ base.reverses = e /\ base.status = "posted"
          /\ base.half = FALSE
      BY <1>0, <3>1 DEF Row, RowSet, Statuses
    <3> HIDE DEF base
    <3> QED BY <3>2 DEF RowSet
  <2> HIDE DEF row
  <2>5. PICK n : n = row.entity
    OBVIOUS
  <2>6. /\ new \in RowSet /\ new.entity = n /\ new.status = "posted" /\ new.missing = row.missing
        /\ new.other = NoEntry /\ new.reverses = e /\ new.half = FALSE
        /\ \A f \in Chained(n) : entry[f].seq < new.seq
        /\ Chained(n) = {} => new.hash = {<<k, new.missing>>}
        /\ Chained(n) # {} => new.hash = entry[HeadOf(n)].hash \cup {<<k, new.missing>>}
    <3>1. /\ new \in RowSet /\ new.entity = row.entity /\ new.status = row.status /\ new.missing = row.missing
          /\ new.other = row.other /\ new.reverses = row.reverses /\ new.half = row.half
          /\ \A f \in Chained(row.entity) : entry[f].seq < new.seq
          /\ Chained(row.entity) = {} => new.hash = {Link(k, row)}
          /\ Chained(row.entity) # {} => new.hash = entry[HeadOf(row.entity)].hash \cup {Link(k, row)}
      BY <1>0, <2>1, <2>2, <2>4, AppendedFacts
    <3>2. Link(k, row) = <<k, new.missing>>
      BY <3>1 DEF Link
    <3> QED BY <2>4, <2>5, <3>1, <3>2
  <2>7. entry'[k] = new /\ entry'[e] = old /\ \A j \in Entries \ {e, k} : entry'[j] = entry[j]
    BY <1>0, <2>2, <2>3 DEF Types
  <2>8. /\ old \in RowSet /\ old.entity = entry[e].entity /\ old.seq = entry[e].seq /\ old.missing = entry[e].missing
        /\ old.hash = entry[e].hash /\ old.other = entry[e].other /\ old.reverses = entry[e].reverses
        /\ old.half = entry[e].half /\ old.status = "void"
    <3>1. entry[e] \in RowSet
      BY <1>0, <2>2, RowFacts
    <3> QED BY <3>1 DEF RowSet, Statuses
  <2> HIDE DEF old, k
  <2>9. Rows' = Rows \cup {k}
    BY <2>2, <2>6, <2>7, <2>8, NoRowIsNone DEF Rows
  <2>10. \A j \in Rows : /\ entry'[j].entity = entry[j].entity /\ entry'[j].seq = entry[j].seq
                         /\ entry'[j].missing = entry[j].missing /\ entry'[j].hash = entry[j].hash
                         /\ entry'[j].status = "draft" => entry[j].status = "draft"
                         /\ entry'[j].other = entry[j].other /\ entry'[j].reverses = entry[j].reverses
                         /\ entry'[j].half = entry[j].half
    <3>1. \A j \in Rows : j = e \/ j \in Entries \ {e, k}
      BY <2>3 DEF Rows
    <3> QED BY <2>7, <2>8, <3>1
  <2>11. Numbered' /\ SeqUnique' /\ AllOk'
    <3>1. n = entry'[k].entity /\ (k \in Rows => entry[k].seq = 0) /\ (entry'[k].status = "draft" => entry'[k].seq = 0)
      BY <2>3, <2>6, <2>7
    <3>2. \A j \in Rows \ {k} :
            /\ entry'[j].entity = entry[j].entity /\ entry'[j].seq = entry[j].seq
            /\ entry'[j].missing = entry[j].missing /\ entry'[j].hash = entry[j].hash
            /\ entry'[j].status = "draft" => entry[j].status = "draft"
      BY <2>10
    <3>3. entry'[k].seq # 0 =>
            /\ \A f \in Chained(n) : entry[f].seq < entry'[k].seq
            /\ Chained(n) = {} => entry'[k].hash = {<<k, entry'[k].missing>>}
            /\ Chained(n) # {} => entry'[k].hash = entry[HeadOf(n)].hash \cup {<<k, entry'[k].missing>>}
      BY <2>6, <2>7
    <3> QED BY <1>0, <1>2, <2>9, <3>1, <3>2, <3>3, Grown
  <2>12. References'
    <3>1. entry'[k].other = NoEntry /\ entry'[k].reverses \in Rows
      BY <2>2, <2>6, <2>7
    <3>2. \A j \in Rows : entry'[j].other \in Rows \cup {NoEntry} /\ entry'[j].reverses \in Rows \cup {NoEntry}
      BY <1>0, <2>10 DEF References
    <3> QED BY <2>9, <3>1, <3>2 DEF References
  <2>13. \A j \in Rows' : entry'[j].half => \E g \in Rows' : Partners(j, g)'
    BY <1>2, <2>6, <2>7, <2>9, <2>10 DEF Partners
  <2> QED BY <1>1, <2>11, <2>12, <2>13, QuietKept
<1>6. ASSUME NEW e \in Entries, DeleteDraft(e)
      PROVE  IInv'
  <2>1. e \in Rows /\ entry[e].status = "draft" /\ ~Referred(e) /\ entry' = [entry EXCEPT ![e] = NoRow]
    BY <1>6 DEF DeleteDraft
  <2>2. Rows' = Rows \ {e} /\ \A k \in Rows \ {e} : entry'[k] = entry[k]
    BY <1>0, <2>1 DEF Types, Rows
  <2>3. entry[e].seq = 0
    BY <1>0, <2>1 DEF Numbered
  <2>4. Numbered' /\ SeqUnique' /\ AllOk'
    BY <1>0, <1>2, <2>1, <2>2, <2>3, Shrunk
  <2>5. \A k \in Rows \ {e} : entry[k].other # e /\ entry[k].reverses # e
    BY <2>1 DEF Referred
  <2>6. References'
    BY <1>0, <2>2, <2>5 DEF References
  <2>7. \A k \in Rows' : entry'[k].half => \E g \in Rows' : Partners(k, g)'
    <3> SUFFICES ASSUME NEW k \in Rows', entry'[k].half
                 PROVE  \E g \in Rows' : Partners(k, g)'
      OBVIOUS
    <3>1. PICK g \in Rows : Partners(k, g)
      BY <1>2, <2>2
    <3>2. g # e
      BY <2>2, <2>5, <3>1 DEF Partners
    <3> QED BY <2>2, <3>1, <3>2 DEF Partners
  <2> QED BY <1>1, <2>4, <2>6, <2>7, QuietKept
<1>7. CASE (\E n \in Entities : SetLock(n)) \/ SetPrice
  <2>1. entry' = entry
    BY <1>7 DEF SetLock, SetPrice
  <2>2. Rows' = Rows /\ (\A k : entry'[k] = entry[k]) /\ \A n : Chained(n)' = Chained(n)
    BY <2>1 DEF Rows, Chained
  <2>3. Numbered' /\ SeqUnique' /\ References'
    BY <1>0, <2>1, <2>2 DEF Numbered, SeqUnique, References
  <2>4. AllOk'
    <3>1. \A e \in Rows : Ok(e)' <=> Ok(e)
      BY <1>0, <2>2, Unmoved
    <3> QED BY <1>2, <2>2, <3>1 DEF AllOk
  <2>5. \A k \in Rows' : entry'[k].half => \E g \in Rows' : Partners(k, g)'
    BY <1>2, <2>2 DEF Partners
  <2> QED BY <1>1, <2>3, <2>4, <2>5, QuietKept
<1> QED BY <1>3, <1>4, <1>5, <1>6, <1>7

(* Steps of an operation, while no other is in progress. *)
LEMMA TurnHolds ==
  ASSUME Types, Types', NEW p \in Processes, NEW new, op' = [op EXCEPT ![p] = new],
         \A q \in Processes \ {p} : op[q] = Idle,
         Numbered', SeqUnique', Chains', References', Halves', RevalueHolds(p)', TransferHolds(p)'
  PROVE  IInv'
<1>1. One' /\ \A q \in Processes \ {p} : RevalueHolds(q)' /\ TransferHolds(q)'
  BY Turn
<1>2. \A q \in Processes : RevalueHolds(q)' /\ TransferHolds(q)'
  BY <1>1
<1> QED BY <1>1, <1>2 DEF IInv

LEMMA Others ==
  ASSUME IInv, NEW p \in Processes, op[p] # Idle \/ Quiet
  PROVE  \A q \in Processes \ {p} : op[q] = Idle /\ op[q].kind = "idle"
BY DEF IInv, One, Quiet, Idle

LEMMA FirstHalfHolds ==
  ASSUME MaxEntry \in Nat, Alone, IInv, Types', NEW p \in Processes, NEW n \in Entities, NEW m \in Entities,
         NEW s \in {"draft", "posted"}, NEW f \in BOOLEAN, FirstHalf(p, n, m, s, f)
  PROVE  IInv'
<1>0. Types /\ Numbered /\ SeqUnique /\ References /\ last \in Nat /\ priced \in BOOLEAN
  BY DEF IInv, Types
<1> DEFINE row == Row(n, s, f, NoEntry, NoEntry, TRUE)
<1>1. PICK e : e = last + 1
  OBVIOUS
<1> DEFINE new == [kind |-> "transfer", first |-> e, to |-> m, status |-> s, second |-> NoEntry]
<1>2. Quiet /\ Create(row) /\ op' = [op EXCEPT ![p] = new] /\ n # m
  BY <1>1 DEF FirstHalf, Free
<1>3. AllOk /\ (\A k \in Rows : entry[k].half => \E g \in Rows : Partners(k, g))
  BY <1>2, QuietFacts
<1>4. /\ row \in RowSet /\ row.other = NoEntry /\ row.reverses = NoEntry /\ row.status = s
      /\ row.seq = 0 /\ row.half = TRUE /\ row.entity = n
  BY <1>0 DEF Row, RowSet, Statuses, Refs
<1> HIDE DEF row
<1>5. /\ e \in Entries /\ e \notin Rows /\ Rows' = Rows \cup {e}
      /\ \A k \in Entries \ {e} : entry'[k] = entry[k]
      /\ entry'[e].other = NoEntry /\ entry'[e].reverses = NoEntry /\ entry'[e].half /\ entry'[e].entity = n
  BY <1>0, <1>2, <1>4, <1>1, Created
<1>6. /\ Numbered' /\ SeqUnique' /\ AllOk'
      /\ \A x \in Rows' : entry'[x].entity = entry'[e].entity /\ entry'[e].seq # 0
              => entry'[x].seq <= entry'[e].seq
  BY <1>0, <1>2, <1>3, <1>4, <1>1, CreatedChain
<1>7. e # NoEntry
  BY <1>5 DEF Entries, NoEntry
<1>8. op'[p] = new
  BY <1>0, <1>2 DEF Types
<1>9. \A k \in Rows : k # e /\ entry'[k] = entry[k]
  BY <1>5 DEF Rows
<1>10. /\ op'[p].kind = "transfer" /\ op'[p].first = e /\ op'[p].to = m /\ op'[p].second = NoEntry
  BY <1>8
<1> HIDE DEF new
<1>11. References'
  BY <1>0, <1>5, <1>9 DEF References
<1>12. Halves'
  <2> SUFFICES ASSUME NEW k \in Rows', entry'[k].half
               PROVE  (\E g \in Rows' : Partners(k, g)') \/ UnderWay(k)'
    BY DEF Halves
  <2>1. CASE k = e
    BY <1>10, <2>1 DEF UnderWay
  <2>2. CASE k # e
    BY <1>3, <1>5, <1>9, <2>2 DEF Partners
  <2> QED BY <2>1, <2>2
<1>13. RevalueHolds(p)'
  BY <1>10 DEF RevalueHolds
<1>14. TransferHolds(p)'
  <2>1. ~Referred(e)'
    BY <1>0, <1>5, <1>7, <1>9 DEF Referred, References
  <2> QED BY <1>2, <1>5, <1>6, <1>10, <2>1 DEF TransferHolds
<1>15. Chains'
  BY <1>6 DEF AllOk, Chains
<1>16. \A q \in Processes \ {p} : op[q] = Idle
  BY <1>2, Others
<1> QED BY <1>0, <1>2, <1>6, <1>11, <1>12, <1>13, <1>14, <1>15, <1>16, TurnHolds

(* The second half, its refusal, and the link between the two. *)
LEMMA TransferHoldsOn ==
  ASSUME MaxEntry \in Nat, Alone, IInv, Types', NEW p \in Processes,
         \/ \E f \in BOOLEAN : SecondHalf(p, f)
         \/ Undo(p) \/ LinkHalves(p)
  PROVE  IInv'
<1>0. Types /\ Numbered /\ SeqUnique /\ References /\ Halves /\ TransferHolds(p) /\ last \in Nat /\ priced \in BOOLEAN
  BY DEF IInv, Types
<1>1. PICK first, second, to : first = op[p].first /\ second = op[p].second /\ to = op[p].to
  OBVIOUS
<1>2. op[p].kind = "transfer" /\ op[p] \in Transfers /\ op[p] # Idle
  BY <1>0, Kinds DEF SecondHalf, Undo, LinkHalves
<1>3. \A q \in Processes \ {p} : op[q] = Idle /\ op[q].kind = "idle"
  BY <1>2, Others
<1>4. AllOk
  <2>1. \A q \in Processes : op[q].kind # "revalue"
    BY <1>2, <1>3
  <2> QED BY <2>1, NothingAwaits DEF IInv
<1>5. /\ first \in Rows /\ entry[first].half /\ entry[first].other = NoEntry /\ entry[first].entity # to
      /\ second = NoEntry =>
           /\ ~Referred(first)
           /\ \A x \in Rows : entry[x].entity = entry[first].entity /\ entry[first].seq # 0
                => entry[x].seq <= entry[first].seq
      /\ second # NoEntry =>
           second \in Rows /\ entry[second].half /\ entry[second].other = first /\ entry[second].entity = to
  BY <1>0, <1>1, <1>2 DEF TransferHolds
<1>6. \A k \in Rows : entry[k].half => (\E g \in Rows : Partners(k, g)) \/ k = first \/ k = second
  BY <1>0, <1>1, <1>3 DEF Halves, UnderWay
<1>7. NoEntry \notin Rows
  BY DEF Rows, NoEntry, Entries
<1>8. ASSUME NEW f \in BOOLEAN, SecondHalf(p, f)
      PROVE  IInv'
  <2> DEFINE row == Row(to, op[p].status, f, first, NoEntry, TRUE)
             e == last + 1
             new == [op[p] EXCEPT !.second = e]
  <2>1. Create(row) /\ op' = [op EXCEPT ![p] = new] /\ second = NoEntry
    BY <1>0, <1>1, <1>8 DEF SecondHalf, Types
  <2>2. /\ row \in RowSet /\ row.other = first /\ row.reverses = NoEntry /\ row.status \in {"draft", "posted"}
        /\ row.seq = 0 /\ row.half = TRUE /\ row.entity = to
    <3>1. to \in Entities /\ op[p].status \in {"draft", "posted"} /\ first \in Refs /\ NoEntry \in Refs
      BY <1>1, <1>2 DEF Transfers, Refs
    <3> QED BY <1>0, <3>1 DEF Row, RowSet, Statuses
  <2> HIDE DEF row
  <2>3. /\ e \in Entries /\ e \notin Rows /\ Rows' = Rows \cup {e}
        /\ \A k \in Entries \ {e} : entry'[k] = entry[k]
        /\ entry'[e].other = first /\ entry'[e].reverses = NoEntry /\ entry'[e].half /\ entry'[e].entity = to
    BY <1>0, <2>1, <2>2, Created
  <2>4. Numbered' /\ SeqUnique' /\ AllOk'
    BY <1>0, <1>4, <2>1, <2>2, CreatedChain
  <2>5. e # NoEntry
    BY <2>3 DEF Entries, NoEntry
  <2>6. op'[p] = new
    BY <1>0, <2>1 DEF Types
  <2>7. \A k \in Rows : k # e /\ entry'[k] = entry[k]
    BY <2>3 DEF Rows
  <2>8. op'[p].kind = "transfer" /\ op'[p].first = first /\ op'[p].to = to /\ op'[p].second = e
    BY <1>1, <1>2, <2>6 DEF Transfers
  <2> HIDE DEF e, new
  <2>9. References'
    BY <1>0, <1>5, <2>3, <2>7 DEF References
  <2>10. Halves'
    <3> SUFFICES ASSUME NEW k \in Rows', entry'[k].half
                 PROVE  (\E g \in Rows' : Partners(k, g)') \/ UnderWay(k)'
      BY DEF Halves
    <3>1. CASE k \in {e, first}
      BY <2>8, <3>1 DEF UnderWay
    <3>2. CASE k \notin {e, first}
      <4>1. PICK g \in Rows : Partners(k, g)
        BY <1>6, <1>7, <2>1, <2>3, <2>7, <3>2
      <4> QED BY <2>3, <2>7, <3>2, <4>1 DEF Partners
    <3> QED BY <3>1, <3>2
  <2>11. RevalueHolds(p)'
    BY <2>8 DEF RevalueHolds
  <2>12. TransferHolds(p)'
    BY <1>5, <2>3, <2>5, <2>7, <2>8 DEF TransferHolds
  <2>13. Chains'
    BY <2>4 DEF AllOk, Chains
  <2> QED BY <1>0, <1>3, <2>1, <2>4, <2>9, <2>10, <2>11, <2>12, <2>13, TurnHolds
<1>9. CASE Undo(p)
  <2>1. second = NoEntry /\ op' = [op EXCEPT ![p] = Idle] /\ entry' = [entry EXCEPT ![first] = NoRow]
    BY <1>1, <1>5, <1>9 DEF Undo
  <2>2. Rows' = Rows \ {first} /\ \A k \in Rows \ {first} : entry'[k] = entry[k]
    BY <1>0, <1>5, <2>1 DEF Types, Rows
  <2>3. Numbered' /\ SeqUnique' /\ AllOk'
    BY <1>0, <1>4, <1>5, <2>1, <2>2, Shrunk
  <2>4. \A k \in Rows \ {first} : entry[k].other # first /\ entry[k].reverses # first
    BY <1>5, <2>1 DEF Referred
  <2>5. References'
    BY <1>0, <2>2, <2>4 DEF References
  <2>6. Halves'
    <3> SUFFICES ASSUME NEW k \in Rows', entry'[k].half
                 PROVE  \E g \in Rows' : Partners(k, g)'
      BY DEF Halves
    <3>1. PICK g \in Rows : Partners(k, g)
      BY <1>6, <1>7, <2>1, <2>2
    <3>2. g # first
      BY <2>2, <2>4, <3>1 DEF Partners
    <3> QED BY <2>2, <3>1, <3>2 DEF Partners
  <2>7. op'[p] = Idle
    BY <1>0, <2>1 DEF Types
  <2>8. RevalueHolds(p)' /\ TransferHolds(p)'
    BY <2>7 DEF RevalueHolds, TransferHolds, Idle
  <2>9. Chains'
    BY <2>3 DEF AllOk, Chains
  <2> QED BY <1>0, <1>3, <2>1, <2>3, <2>5, <2>6, <2>8, <2>9, TurnHolds
<1>10. CASE LinkHalves(p)
  <2>1. second # NoEntry /\ op' = [op EXCEPT ![p] = Idle] /\ entry' = [entry EXCEPT ![first].other = second]
    BY <1>1, <1>5, <1>10 DEF LinkHalves
  <2>2. /\ \A k \in Entries : /\ entry'[k].entity = entry[k].entity /\ entry'[k].seq = entry[k].seq
                              /\ entry'[k].missing = entry[k].missing /\ entry'[k].status = entry[k].status
                              /\ entry'[k].hash = entry[k].hash /\ entry'[k].half = entry[k].half
                              /\ entry'[k].reverses = entry[k].reverses
        /\ entry'[first].other = second /\ \A k \in Entries \ {first} : entry'[k] = entry[k]
    <3>1. entry[first] \in RowSet /\ first \in Entries
      BY <1>0, <1>5, RowFacts
    <3>2. entry'[first] = [entry[first] EXCEPT !.other = second]
      BY <1>0, <2>1, <3>1 DEF Types
    <3>3. \A k \in Entries \ {first} : entry'[k] = entry[k]
      BY <1>0, <2>1 DEF Types
    <3>4. /\ entry'[first].entity = entry[first].entity /\ entry'[first].seq = entry[first].seq
          /\ entry'[first].missing = entry[first].missing /\ entry'[first].status = entry[first].status
          /\ entry'[first].hash = entry[first].hash /\ entry'[first].half = entry[first].half
          /\ entry'[first].reverses = entry[first].reverses /\ entry'[first].other = second
      BY <3>1, <3>2 DEF RowSet
    <3> QED BY <3>3, <3>4
  <2>3. Rows' = Rows
    <3>1. entry'[first] # NoRow /\ entry[first] # NoRow
      <4>1. first \in Entries /\ entry'[first] \in RowSet \cup {NoRow} /\ entry[first] # NoRow
        BY <1>0, <1>5, RowFacts DEF Types, Rows
      <4>2. entry'[first] = [entry[first] EXCEPT !.other = second] /\ entry[first] \in RowSet
        BY <1>0, <1>5, <2>1, <4>1, RowFacts DEF Types
      <4>3. "status" \in DOMAIN entry'[first]
        BY <4>2 DEF RowSet
      <4> QED BY <4>1, <4>3 DEF NoRow
    <3> QED BY <2>2, <3>1 DEF Rows
  <2>4. \A k \in Rows : k \in Entries
    BY DEF Rows
  <2>5. Numbered' /\ SeqUnique' /\ AllOk'
    <3>1. \A k \in Rows : /\ entry'[k].entity = entry[k].entity /\ entry'[k].seq = entry[k].seq
                          /\ entry'[k].missing = entry[k].missing /\ entry'[k].status = entry[k].status
      BY <2>2, <2>4
    <3>2. Numbered' /\ SeqUnique' /\ \A k \in Rows : entry'[k].hash = entry[k].hash => (Ok(k)' <=> Ok(k))
      BY <1>0, <2>3, <3>1, Unmoved
    <3> QED BY <1>4, <2>2, <2>3, <2>4, <3>1, <3>2 DEF AllOk
  <2>6. References'
    BY <1>0, <1>5, <2>1, <2>2, <2>3, <2>4 DEF References
  <2>7. Halves'
    <3> SUFFICES ASSUME NEW k \in Rows', entry'[k].half
                 PROVE  \E g \in Rows' : Partners(k, g)'
      BY DEF Halves
    <3>1. second # first
      BY <1>5, <2>1
    <3>2. CASE k \in {first, second}
      <4>1. Partners(first, second)' /\ Partners(second, first)'
        BY <1>5, <2>1, <2>2, <2>4, <3>1 DEF Partners
      <4> QED BY <1>5, <2>1, <2>3, <3>2, <4>1
    <3>3. CASE k \notin {first, second}
      <4>1. PICK g \in Rows : Partners(k, g)
        BY <1>6, <2>2, <2>3, <2>4, <3>3
      <4>2. g # first
        BY <1>5, <1>7, <2>3, <4>1 DEF Partners
      <4> QED BY <2>2, <2>3, <2>4, <3>3, <4>1, <4>2 DEF Partners
    <3> QED BY <3>2, <3>3
  <2>8. op'[p] = Idle
    BY <1>0, <2>1 DEF Types
  <2>9. RevalueHolds(p)' /\ TransferHolds(p)'
    BY <2>8 DEF RevalueHolds, TransferHolds, Idle
  <2>10. Chains'
    BY <2>5 DEF AllOk, Chains
  <2> QED BY <1>0, <1>3, <2>1, <2>5, <2>6, <2>7, <2>9, <2>10, TurnHolds
<1> QED BY <1>8, <1>9, <1>10

(* Revaluations leave references and halves alone. *)
LEMMA HalvesStay ==
  ASSUME References, Rows' = Rows, \A e \in Rows : entry[e].half => \E f \in Rows : Partners(e, f),
         \A e \in Rows : /\ entry'[e].entity = entry[e].entity /\ entry'[e].half = entry[e].half
                         /\ entry'[e].other = entry[e].other /\ entry'[e].reverses = entry[e].reverses
  PROVE  References' /\ Halves'
<1>1. References'
  BY DEF References
<1>2. ASSUME NEW e \in Rows, entry[e].half
      PROVE  \E f \in Rows : Partners(e, f)'
  BY <1>2 DEF Partners
<1> QED BY <1>1, <1>2 DEF Halves

(* Only one row is written, in its value or its hash. *)
LEMMA OneFieldOf ==
  ASSUME Types, NEW e \in Rows, NEW v, NEW h,
         \/ entry' = [entry EXCEPT ![e].missing = v] /\ h = entry[e].hash
         \/ entry' = [entry EXCEPT ![e].hash = h] /\ v = entry[e].missing
  PROVE  /\ Rows' = Rows
         /\ \A k \in Rows : /\ entry'[k].entity = entry[k].entity /\ entry'[k].seq = entry[k].seq
                            /\ entry'[k].status = entry[k].status /\ entry'[k].half = entry[k].half
                            /\ entry'[k].other = entry[k].other /\ entry'[k].reverses = entry[k].reverses
         /\ entry'[e].missing = v /\ entry'[e].hash = h
         /\ \A k \in Rows \ {e} : entry'[k] = entry[k]
<1>1. e \in Entries /\ entry[e] \in RowSet /\ entry[e] # NoRow
  BY RowFacts
<1>2. \A k \in Entries \ {e} : entry'[k] = entry[k]
  BY <1>1 DEF Types
<1>3. \/ entry'[e] = [entry[e] EXCEPT !.missing = v] /\ h = entry[e].hash
      \/ entry'[e] = [entry[e] EXCEPT !.hash = h] /\ v = entry[e].missing
  BY <1>1 DEF Types
<1>4. /\ entry'[e].entity = entry[e].entity /\ entry'[e].seq = entry[e].seq
      /\ entry'[e].status = entry[e].status /\ entry'[e].half = entry[e].half
      /\ entry'[e].other = entry[e].other /\ entry'[e].reverses = entry[e].reverses
      /\ entry'[e].missing = v /\ entry'[e].hash = h
  BY <1>1, <1>3 DEF RowSet
<1>5. entry'[e] # NoRow
  <2>1. "status" \in DOMAIN entry'[e]
    BY <1>1, <1>3 DEF RowSet
  <2> QED BY <2>1 DEF NoRow
<1>6. Rows' = Rows
  BY <1>1, <1>2, <1>5 DEF Rows
<1>7. \A k \in Rows : k = e \/ k \in Entries \ {e}
  BY DEF Rows
<1> QED BY <1>2, <1>4, <1>6, <1>7

LEMMA RevalueStarts ==
  ASSUME MaxEntry \in Nat, Alone, IInv, Types', NEW p \in Processes, Revalue(p)
  PROVE  IInv'
<1>0. Types /\ Numbered /\ SeqUnique /\ References
  BY DEF IInv
<1> DEFINE todo == {<<e, entry[e].seq>> : e \in Missing}
           new == [kind |-> "revalue", todo |-> todo, from |-> [n \in Entities |-> 0], rows |-> {}, before |-> {}]
<1>1. Quiet /\ op' = [op EXCEPT ![p] = new] /\ entry' = entry
  BY DEF Revalue, Free
<1>2. AllOk /\ (\A k \in Rows : entry[k].half => \E g \in Rows : Partners(k, g))
  BY <1>1, QuietFacts
<1>3. \A q \in Processes \ {p} : op[q] = Idle
  BY <1>1, Others
<1>4. Rows' = Rows /\ \A e : entry'[e] = entry[e]
  BY <1>1 DEF Rows
<1>5. Numbered' /\ SeqUnique' /\ \A e \in Rows : Ok(e)' <=> Ok(e)
  BY <1>0, <1>4, Unmoved
<1>6. References' /\ Halves'
  BY <1>0, <1>2, <1>4, HalvesStay
<1>7. Chains'
  BY <1>2, <1>4, <1>5 DEF AllOk, Chains
<1>8. op'[p] = new
  BY <1>0, <1>1 DEF Types
<1>9. \A next \in todo : next[1] \in Rows /\ entry[next[1]].seq = next[2]
  BY DEF Missing
<1> HIDE DEF todo
<1>10. op'[p].kind = "revalue" /\ op'[p].todo = todo /\ op'[p].rows = {}
  BY <1>8
<1> HIDE DEF new
<1>11. RevalueHolds(p)' /\ TransferHolds(p)'
  BY <1>4, <1>9, <1>10 DEF RevalueHolds, TransferHolds
<1> QED BY <1>0, <1>1, <1>3, <1>5, <1>6, <1>7, <1>11, TurnHolds

(* What holds of a revaluation in progress. *)
LEMMA Revaluing ==
  ASSUME IInv, NEW p \in Processes, op[p].kind = "revalue"
  PROVE  /\ Types /\ Numbered /\ SeqUnique /\ References /\ RevalueHolds(p)
         /\ op[p] \in Revaluations /\ \A q \in Processes \ {p} : op[q] = Idle
         /\ \A e \in Rows : entry[e].half => \E f \in Rows : Partners(e, f)
         /\ \A e \in Rows : entry[e].seq # 0 => Ok(e) \/ Awaits(p, e)
<1>1. Types /\ Numbered /\ SeqUnique /\ References /\ RevalueHolds(p) /\ Halves /\ Chains
  BY DEF IInv
<1>2. op[p] \in Revaluations /\ op[p] # Idle
  BY <1>1, Kinds
<1>3. \A q \in Processes \ {p} : op[q] = Idle /\ op[q].kind = "idle"
  BY <1>2, Others
<1>4. \A q \in Processes : op[q].kind # "transfer" /\ \A e : Awaits(q, e) => q = p
  BY <1>3 DEF Awaits
<1> QED BY <1>1, <1>2, <1>3, <1>4 DEF Halves, UnderWay, Chains

LEMMA RevalueNextHolds ==
  ASSUME MaxEntry \in Nat, IInv, Types', NEW p \in Processes, RevalueNext(p)
  PROVE  IInv'
<1>1. op[p].kind = "revalue"
  BY DEF RevalueNext
<1>2. /\ Types /\ Numbered /\ SeqUnique /\ References /\ RevalueHolds(p)
      /\ op[p] \in Revaluations /\ \A q \in Processes \ {p} : op[q] = Idle
      /\ \A x \in Rows : entry[x].half => \E f \in Rows : Partners(x, f)
      /\ \A x \in Rows : entry[x].seq # 0 => Ok(x) \/ Awaits(p, x)
  BY <1>1, Revaluing
<1>3. PICK next \in op[p].todo :
        IF Fixable(next[1])
        THEN /\ entry' = [entry EXCEPT ![next[1]].missing = FALSE]
             /\ op' = [op EXCEPT ![p].todo = @ \ {next}, ![p].from[entry[next[1]].entity] = Earliest(@, next[2])]
        ELSE /\ op' = [op EXCEPT ![p].todo = @ \ {next}]
             /\ UNCHANGED entry
  BY DEF RevalueNext
<1>4. PICK e, s, n, todo, from : /\ e = next[1] /\ s = next[2] /\ n = entry[e].entity
                                 /\ todo = op[p].todo /\ from = op[p].from
  OBVIOUS
<1>5. /\ \A x \in todo : x[1] \in Rows /\ entry[x[1]].seq = x[2]
      /\ op[p].rows = {} /\ e \in Rows /\ entry[e].seq = s
  BY <1>1, <1>2, <1>3, <1>4 DEF RevalueHolds
<1>6. from \in [Entities -> Nat] /\ s \in Nat /\ n \in Entities
  BY <1>2, <1>4, <1>5, RowFacts DEF Revaluations
<1>7. \A x \in Rows : Awaits(p, x) <=> from[entry[x].entity] # 0 /\ from[entry[x].entity] <= entry[x].seq
  BY <1>1, <1>4, <1>5 DEF Awaits
<1>8. CASE ~Fixable(e)
  <2> DEFINE new == [op[p] EXCEPT !.todo = todo \ {next}]
  <2>1. op' = [op EXCEPT ![p] = new] /\ entry' = entry
    BY <1>2, <1>3, <1>4, <1>8 DEF Types
  <2>2. Rows' = Rows /\ \A x : entry'[x] = entry[x]
    BY <2>1 DEF Rows
  <2>3. /\ op'[p].kind = "revalue" /\ op'[p].todo = todo \ {next} /\ op'[p].rows = {} /\ op'[p].from = from
    BY <1>1, <1>2, <1>4, <1>5, <2>1 DEF Types, Revaluations
  <2> HIDE DEF new
  <2>4. Numbered' /\ SeqUnique' /\ \A x \in Rows : Ok(x)' <=> Ok(x)
    BY <1>2, <2>2, Unmoved
  <2>5. References' /\ Halves'
    BY <1>2, <2>2, HalvesStay
  <2>6. \A x \in Rows : Awaits(p, x) => Awaits(p, x)'
    BY <1>7, <2>2, <2>3 DEF Awaits
  <2>7. Chains'
    BY <1>2, <2>2, <2>4, <2>6 DEF Chains
  <2>8. RevalueHolds(p)' /\ TransferHolds(p)'
    BY <1>5, <2>2, <2>3 DEF RevalueHolds, TransferHolds
  <2> QED BY <1>2, <2>1, <2>4, <2>5, <2>7, <2>8, TurnHolds
<1>9. CASE Fixable(e)
  <2>0. PICK first, v, h : first = Earliest(from[n], s) /\ v = FALSE /\ h = entry[e].hash
    OBVIOUS
  <2> DEFINE new == [op[p] EXCEPT !.todo = todo \ {next}, !.from[n] = first]
  <2>1. op' = [op EXCEPT ![p] = new] /\ entry' = [entry EXCEPT ![e].missing = v]
    BY <1>2, <1>3, <1>4, <1>9, <2>0 DEF Types
  <2>2. /\ Rows' = Rows
        /\ \A k \in Rows : /\ entry'[k].entity = entry[k].entity /\ entry'[k].seq = entry[k].seq
                           /\ entry'[k].status = entry[k].status /\ entry'[k].half = entry[k].half
                           /\ entry'[k].other = entry[k].other /\ entry'[k].reverses = entry[k].reverses
        /\ entry'[e].hash = entry[e].hash /\ \A k \in Rows \ {e} : entry'[k] = entry[k]
    <3>1. h = entry[e].hash
      BY <2>0
    <3>2. \/ entry' = [entry EXCEPT ![e].missing = v] /\ h = entry[e].hash
          \/ entry' = [entry EXCEPT ![e].hash = h] /\ v = entry[e].missing
      BY <2>1, <3>1
    <3>3. Types /\ e \in Rows
      BY <1>2, <1>5
    <3>4. /\ Rows' = Rows
          /\ \A k \in Rows : /\ entry'[k].entity = entry[k].entity /\ entry'[k].seq = entry[k].seq
                             /\ entry'[k].status = entry[k].status /\ entry'[k].half = entry[k].half
                             /\ entry'[k].other = entry[k].other /\ entry'[k].reverses = entry[k].reverses
          /\ entry'[e].missing = v /\ entry'[e].hash = h
          /\ \A k \in Rows \ {e} : entry'[k] = entry[k]
      BY <3>2, <3>3, OneFieldOf
    <3> QED BY <3>1, <3>4
  <2>3. /\ op'[p].kind = "revalue" /\ op'[p].todo = todo \ {next} /\ op'[p].rows = {}
        /\ op'[p].from = [from EXCEPT ![n] = first]
    BY <1>1, <1>2, <1>4, <1>5, <2>1 DEF Types, Revaluations
  <2> HIDE DEF new
  <2>4. References' /\ Halves'
    BY <1>2, <2>2, HalvesStay
  <2>5. Numbered' /\ SeqUnique'
    BY <1>2, <2>2 DEF Numbered, SeqUnique
  <2>6. \A m : Chained(m)' = Chained(m)
    BY <2>2 DEF Chained
  <2>7. /\ s # 0 => first # 0 /\ first <= s
        /\ from[n] # 0 => first # 0 /\ first <= from[n]
        /\ first \in Nat
    BY <1>6, <2>0 DEF Earliest
  <2>8. ASSUME NEW x \in Rows, entry[x].seq # 0
        PROVE  Ok(x)' \/ Awaits(p, x)'
    <3>1. PICK m, t : m = entry[x].entity /\ t = entry[x].seq
      OBVIOUS
    <3>2. m \in Entities /\ t \in Nat /\ t # 0 /\ entry'[x].entity = m /\ entry'[x].seq = t
      BY <1>2, <2>2, <2>8, <3>1, RowFacts
    <3>3. Awaits(p, x)' <=> op'[p].from[m] # 0 /\ op'[p].from[m] <= t
      BY <2>3, <3>2 DEF Awaits
    <3>4. CASE m = n /\ s # 0 /\ s <= t
      <4>1. op'[p].from[m] = first
        BY <1>6, <2>3, <3>4
      <4> QED BY <1>6, <2>7, <3>2, <3>3, <3>4, <4>1
    <3>5. CASE ~(m = n /\ s # 0 /\ s <= t) /\ Awaits(p, x)
      <4>1. from[m] # 0 /\ from[m] <= t /\ from[m] \in Nat
        BY <1>6, <1>7, <3>1, <3>2, <3>5
      <4>2. op'[p].from[m] = IF m = n THEN first ELSE from[m]
        BY <1>6, <2>3, <3>2
      <4> QED BY <2>7, <3>2, <3>3, <4>1, <4>2
    <3>6. CASE ~(m = n /\ s # 0 /\ s <= t) /\ ~Awaits(p, x)
      <4>1. Ok(x)
        BY <1>2, <2>8, <3>6
      <4>2. \A y \in Chained(m) : /\ entry'[y].seq = entry[y].seq
                                  /\ entry[y].seq <= t => entry'[y].missing = entry[y].missing
        <5>1. e \in Chained(m) => m = n /\ s # 0
          BY <1>4, <1>5 DEF Chained
        <5> QED BY <1>5, <2>2, <3>6, <5>1 DEF Chained
      <4>3. {y \in Chained(m) : entry[y].seq <= t}' = {y \in Chained(m) : entry[y].seq <= t}
        BY <2>6, <4>2
      <4>4. UpTo(m, t)' = UpTo(m, t)
        BY <4>2, <4>3, LinksKept
      <4>5. entry'[x].hash = entry[x].hash
        BY <2>2
      <4> QED BY <3>1, <3>2, <4>1, <4>4, <4>5 DEF Ok
    <3> QED BY <3>4, <3>5, <3>6
  <2>9. Chains'
    BY <2>2, <2>8 DEF Chains
  <2>10. RevalueHolds(p)' /\ TransferHolds(p)'
    BY <1>5, <2>2, <2>3 DEF RevalueHolds, TransferHolds
  <2> QED BY <1>2, <2>1, <2>4, <2>5, <2>9, <2>10, TurnHolds
<1> QED BY <1>8, <1>9

(* What is read before a rechain commits to everything that the rechain leaves as it is. *)
LEMMA RechainFromHolds ==
  ASSUME MaxEntry \in Nat, IInv, Types', NEW p \in Processes, NEW n \in Entities, RechainFrom(p, n)
  PROVE  IInv'
<1>1. op[p].kind = "revalue"
  BY DEF RechainFrom
<1>2. /\ Types /\ Numbered /\ SeqUnique /\ References /\ RevalueHolds(p)
      /\ op[p] \in Revaluations /\ \A q \in Processes \ {p} : op[q] = Idle
      /\ \A x \in Rows : entry[x].half => \E f \in Rows : Partners(x, f)
      /\ \A x \in Rows : entry[x].seq # 0 => Ok(x) \/ Awaits(p, x)
  BY <1>1, Revaluing
<1>3. PICK from : from = op[p].from[n]
  OBVIOUS
<1> DEFINE earlier == {e \in Chained(n) : entry[e].seq < from}
           rows == {<<e, entry[e].seq>> : e \in {x \in Chained(n) : entry[x].seq >= from}}
           before == UNION {entry[e].hash : e \in {x \in earlier : \A f \in earlier : entry[f].seq <= entry[x].seq}}
           new == [op[p] EXCEPT !.rows = rows, !.before = before, !.from[n] = 0]
<1>4. /\ op' = [op EXCEPT ![p] = new] /\ entry' = entry /\ from # 0 /\ from \in Nat
      /\ op[p].todo = {} /\ op[p].rows = {}
  BY <1>2, <1>3 DEF RechainFrom, Types, Revaluations
<1>5. \A x \in Rows : entry[x].seq \in Nat /\ entry[x].entity \in Entities
  BY <1>2, RowFacts
<1>6. \A x \in Chained(n) : x \in Rows /\ entry[x].entity = n /\ entry[x].seq \in Nat /\ entry[x].seq # 0
  BY <1>5 DEF Chained
<1>7. before = {Link(x, entry[x]) : x \in earlier}
  <2>1. ASSUME NEW t \in earlier, \A f \in earlier : entry[f].seq <= entry[t].seq
        PROVE  entry[t].hash = {Link(x, entry[x]) : x \in earlier}
    <3>1. ~Awaits(p, t)
      BY <1>3, <1>4, <1>6 DEF Awaits
    <3>2. Ok(t)
      BY <1>2, <1>6, <3>1
    <3>3. entry[t].hash = UpTo(n, entry[t].seq)
      BY <1>6, <3>2 DEF Ok
    <3>4. {x \in Chained(n) : entry[x].seq <= entry[t].seq} = earlier
      BY <1>4, <1>6, <2>1
    <3> QED BY <3>3, <3>4 DEF UpTo
  <2>2. CASE earlier = {}
    BY <2>2
  <2>3. CASE earlier # {}
    <3>1. earlier \in SUBSET Rows
      BY <1>6
    <3>2. PICK t \in earlier : \A f \in earlier : entry[f].seq <= entry[t].seq
      <4> HIDE DEF earlier
      <4> QED BY <1>2, <2>3, <3>1, TopExists
    <3> HIDE DEF earlier
    <3> QED BY <2>1, <3>2
  <2> QED BY <2>2, <2>3
<1>8. \A x \in Chained(n) : <<x, entry[x].seq>> \in rows <=> entry[x].seq >= from
  OBVIOUS
<1>9. \A next \in rows : next[1] \in Chained(n) /\ entry[next[1]].seq = next[2] /\ next[2] >= from
  OBVIOUS
<1> HIDE DEF rows, before
<1>10. /\ op'[p].kind = "revalue" /\ op'[p].todo = {} /\ op'[p].rows = rows /\ op'[p].before = before
       /\ op'[p].from = [op[p].from EXCEPT ![n] = 0]
  BY <1>1, <1>2, <1>4 DEF Types, Revaluations
<1> HIDE DEF new
<1>11. Rows' = Rows /\ (\A x : entry'[x] = entry[x]) /\ \A m : Chained(m)' = Chained(m)
  BY <1>4 DEF Rows, Chained
<1>12. Numbered' /\ SeqUnique' /\ \A x \in Rows : Ok(x)' <=> Ok(x)
  BY <1>2, <1>11, Unmoved
<1>13. References' /\ Halves'
  BY <1>2, <1>11, HalvesStay
<1>14. ASSUME NEW x \in Rows, entry[x].seq # 0, Awaits(p, x)
       PROVE  Awaits(p, x)'
  <2>1. op[p].from[entry[x].entity] # 0 /\ op[p].from[entry[x].entity] <= entry[x].seq
    BY <1>4, <1>14 DEF Awaits
  <2>2. CASE entry[x].entity = n
    <3>1. x \in Chained(n) /\ entry[x].seq >= from
      BY <1>3, <1>4, <1>5, <1>14, <2>1, <2>2 DEF Chained
    <3> QED BY <1>8, <1>10, <1>11, <3>1 DEF Awaits
  <2>3. CASE entry[x].entity # n
    <3>1. op'[p].from[entry[x].entity] = op[p].from[entry[x].entity]
      BY <1>2, <1>5, <1>10, <2>3 DEF Revaluations
    <3> QED BY <1>10, <1>11, <2>1, <3>1 DEF Awaits
  <2> QED BY <2>2, <2>3
<1>15. Chains'
  BY <1>2, <1>11, <1>12, <1>14 DEF Chains
<1>16. Rest(p, n)' = earlier
  <2>1. \A x : x \in Rest(p, n)' <=> x \in Chained(n) /\ <<x, entry[x].seq>> \notin rows
    BY <1>10, <1>11 DEF Rest
  <2>2. \A x \in Chained(n) : <<x, entry[x].seq>> \notin rows <=> entry[x].seq < from
    BY <1>4, <1>6, <1>8
  <2>3. \A x : x \in Rest(p, n)' <=> x \in earlier
    BY <2>1, <2>2
  <2> HIDE DEF earlier
  <2> QED BY <2>3
<1>17. RevalueHolds(p)'
  <2>1. \A next \in rows : next[1] \in Rows /\ entry[next[1]].seq = next[2]
    BY <1>6, <1>9
  <2>2. \A x \in earlier, next \in rows : entry[x].seq < next[2]
    BY <1>4, <1>6, <1>9
  <2>3. op'[p].before = {Link(x, entry[x]) : x \in Rest(p, n)}'
    BY <1>7, <1>10, <1>11, <1>16 DEF Link
  <2> HIDE DEF earlier
  <2>4. /\ \A next \in op'[p].rows : next[1] \in Chained(n)'
        /\ \A x \in Rest(p, n)', next \in op'[p].rows : entry'[x].seq < next[2]
    BY <1>9, <1>10, <1>11, <1>16, <2>2
  <2>5. \A next \in op'[p].todo \cup op'[p].rows : next[1] \in Rows' /\ entry'[next[1]].seq = next[2]
    BY <1>10, <1>11, <2>1
  <2> QED BY <1>10, <2>3, <2>4, <2>5 DEF RevalueHolds
<1>18. TransferHolds(p)'
  BY <1>10 DEF TransferHolds
<1> QED BY <1>2, <1>4, <1>12, <1>13, <1>15, <1>17, <1>18, TurnHolds

(* One more row commits to all that is before it. *)
LEMMA RechainRowHolds ==
  ASSUME MaxEntry \in Nat, IInv, Types', NEW p \in Processes, RechainRow(p)
  PROVE  IInv'
<1>1. op[p].kind = "revalue"
  BY DEF RechainRow
<1>2. /\ Types /\ Numbered /\ SeqUnique /\ References /\ RevalueHolds(p)
      /\ op[p] \in Revaluations /\ \A q \in Processes \ {p} : op[q] = Idle
      /\ \A x \in Rows : entry[x].half => \E f \in Rows : Partners(x, f)
      /\ \A x \in Rows : entry[x].seq # 0 => Ok(x) \/ Awaits(p, x)
  BY <1>1, Revaluing
<1>3. PICK next \in op[p].rows :
        /\ \A other \in op[p].rows : next[2] <= other[2]
        /\ next[1] \in Rows =>
             /\ entry' = [entry EXCEPT ![next[1]].hash = op[p].before \cup {Link(next[1], entry[next[1]])}]
             /\ op' = [op EXCEPT ![p].rows = @ \ {next},
                                 ![p].before = op[p].before \cup {Link(next[1], entry[next[1]])}]
  BY DEF RechainRow
<1>4. PICK e, s, rows, before, hash :
        /\ e = next[1] /\ s = next[2] /\ rows = op[p].rows /\ before = op[p].before
        /\ hash = before \cup {Link(e, entry[e])}
  OBVIOUS
<1>5. next = <<e, s>> /\ next \in rows /\ rows \in SUBSET (Entries \X Nat) /\ \A r \in rows : r = <<r[1], r[2]>>
  BY <1>2, <1>3, <1>4 DEF Revaluations
<1>6. /\ \A r \in rows : r[1] \in Rows /\ entry[r[1]].seq = r[2]
      /\ op[p].todo = {}
  BY <1>1, <1>2, <1>4, <1>5 DEF RevalueHolds
<1>7. PICK n \in Entities :
        /\ \A r \in rows : r[1] \in Chained(n)
        /\ \A x \in Rest(p, n), r \in rows : entry[x].seq < r[2]
        /\ before = {Link(x, entry[x]) : x \in Rest(p, n)}
  BY <1>1, <1>2, <1>4, <1>5 DEF RevalueHolds
<1> DEFINE new == [op[p] EXCEPT !.rows = rows \ {next}, !.before = hash]
<1>8. e \in Rows /\ e \in Chained(n) /\ entry[e].seq = s /\ \A r \in rows : s <= r[2]
  BY <1>3, <1>4, <1>5, <1>6, <1>7
<1>9. entry' = [entry EXCEPT ![e].hash = hash] /\ op' = [op EXCEPT ![p] = new]
  BY <1>2, <1>3, <1>4, <1>8 DEF Types
<1>10. /\ Rows' = Rows
       /\ \A k \in Rows : /\ entry'[k].entity = entry[k].entity /\ entry'[k].seq = entry[k].seq
                          /\ entry'[k].status = entry[k].status /\ entry'[k].half = entry[k].half
                          /\ entry'[k].other = entry[k].other /\ entry'[k].reverses = entry[k].reverses
       /\ entry'[e].missing = entry[e].missing /\ entry'[e].hash = hash
       /\ \A k \in Rows \ {e} : entry'[k] = entry[k]
  <2>1. PICK v : v = entry[e].missing
    OBVIOUS
  <2>2. \/ entry' = [entry EXCEPT ![e].missing = v] /\ hash = entry[e].hash
        \/ entry' = [entry EXCEPT ![e].hash = hash] /\ v = entry[e].missing
    BY <1>9, <2>1
  <2>3. Types /\ e \in Rows
    BY <1>2, <1>8
  <2>4. /\ Rows' = Rows
        /\ \A k \in Rows : /\ entry'[k].entity = entry[k].entity /\ entry'[k].seq = entry[k].seq
                           /\ entry'[k].status = entry[k].status /\ entry'[k].half = entry[k].half
                           /\ entry'[k].other = entry[k].other /\ entry'[k].reverses = entry[k].reverses
        /\ entry'[e].missing = v /\ entry'[e].hash = hash
        /\ \A k \in Rows \ {e} : entry'[k] = entry[k]
    BY <2>2, <2>3, OneFieldOf
  <2> QED BY <2>1, <2>4
<1>11. /\ op'[p].kind = "revalue" /\ op'[p].todo = {} /\ op'[p].rows = rows \ {next}
       /\ op'[p].before = hash /\ op'[p].from = op[p].from
  BY <1>1, <1>2, <1>6, <1>9 DEF Types, Revaluations
<1> HIDE DEF new
<1>12. \A k \in Rows : entry'[k].missing = entry[k].missing
  BY <1>8, <1>10
<1>13. /\ Numbered' /\ SeqUnique' /\ \A m : Chained(m)' = Chained(m)
       /\ \A m, t : UpTo(m, t)' = UpTo(m, t)
       /\ \A x \in Rows : entry'[x].hash = entry[x].hash => (Ok(x)' <=> Ok(x))
  BY <1>2, <1>10, <1>12, Unmoved
<1>14. References' /\ Halves'
  BY <1>2, <1>10, HalvesStay
<1>15. \A x \in Chained(n) : x \in Rows /\ entry[x].entity = n /\ entry[x].seq \in Nat /\ entry[x].seq # 0
  BY <1>2, RowFacts DEF Chained
<1>16. \A x \in Chained(n) : entry[x].seq = s => x = e
  BY <1>2, <1>8, <1>15 DEF SeqUnique
<1>17. {x \in Chained(n) : entry[x].seq <= s} = Rest(p, n) \cup {e}
  <2>1. \A x \in Rest(p, n) : x \in Chained(n) /\ entry[x].seq < s
    BY <1>4, <1>5, <1>7 DEF Rest
  <2>2. \A x \in Chained(n) : x \notin Rest(p, n) => s <= entry[x].seq
    BY <1>4, <1>8 DEF Rest
  <2>3. s \in Nat
    BY <1>8, <1>15
  <2> QED BY <1>8, <1>15, <1>16, <2>1, <2>2, <2>3
<1>18. hash = UpTo(n, s)
  BY <1>4, <1>7, <1>17 DEF UpTo
<1>19. Ok(e)'
  <2>1. entry'[e].entity = n /\ entry'[e].seq = s
    BY <1>8, <1>10, <1>15
  <2> QED BY <1>10, <1>13, <1>18, <2>1 DEF Ok
<1>20. ASSUME NEW x \in Rows, x # e, entry[x].seq # 0
       PROVE  Ok(x)' \/ Awaits(p, x)'
  <2>1. entry'[x] = entry[x]
    BY <1>10, <1>20
  <2>2. CASE Ok(x)
    BY <1>13, <2>1, <2>2
  <2>3. CASE Awaits(p, x)
    <3>1. <<x, entry[x].seq>> # next
      BY <1>5, <1>20
    <3> QED BY <1>4, <1>11, <2>1, <2>3, <3>1 DEF Awaits
  <2> QED BY <1>2, <1>20, <2>2, <2>3
<1>21. Chains'
  BY <1>10, <1>19, <1>20 DEF Chains
<1>22. Rest(p, n)' = Rest(p, n) \cup {e}
  <2>1. \A x : x \in Rest(p, n)' <=> x \in Chained(n) /\ <<x, entry[x].seq>> \notin rows \ {next}
    BY <1>10, <1>11, <1>13, <1>15 DEF Rest
  <2>2. \A x \in Chained(n) : <<x, entry[x].seq>> = next <=> x = e
    BY <1>5, <1>8
  <2> QED BY <1>4, <1>8, <2>1, <2>2 DEF Rest
<1>23. RevalueHolds(p)'
  <2>1. ASSUME NEW r \in rows \ {next}
        PROVE  r[1] \in Chained(n) /\ r[1] # e /\ s < r[2]
    <3>1. r[1] \in Chained(n) /\ entry[r[1]].seq = r[2] /\ s <= r[2] /\ s \in Nat /\ r[2] \in Nat
      BY <1>6, <1>7, <1>8, <1>15
    <3>2. r[1] # e
      BY <1>5, <1>8, <2>1, <3>1
    <3>3. r[2] # s
      BY <1>16, <3>1, <3>2
    <3> QED BY <3>1, <3>2, <3>3
  <2>2. \A x \in Rest(p, n) : x \in Rows
    BY <1>15 DEF Rest
  <2>3. \A x \in Rest(p, n)', r \in op'[p].rows : entry'[x].seq < r[2]
    BY <1>7, <1>8, <1>10, <1>11, <1>22, <2>1, <2>2
  <2>4. op'[p].before = {Link(x, entry[x]) : x \in Rest(p, n)}'
    <3>1. \A x \in Rest(p, n) \cup {e} : entry'[x].missing = entry[x].missing
      BY <1>8, <1>12, <2>2
    <3>2. hash = {<<x, entry[x].missing>> : x \in Rest(p, n) \cup {e}}
      BY <1>4, <1>7 DEF Link
    <3> QED BY <1>11, <1>22, <3>1, <3>2 DEF Link
  <2>5. \A r \in op'[p].rows : r[1] \in Chained(n)' /\ r[1] \in Rows' /\ entry'[r[1]].seq = r[2]
    BY <1>6, <1>7, <1>10, <1>11, <1>13
  <2> QED BY <1>11, <2>3, <2>4, <2>5 DEF RevalueHolds
<1>24. TransferHolds(p)'
  BY <1>11 DEF TransferHolds
<1> QED BY <1>2, <1>9, <1>13, <1>14, <1>21, <1>23, <1>24, TurnHolds

LEMMA RevaluedHolds ==
  ASSUME MaxEntry \in Nat, IInv, Types', NEW p \in Processes, Revalued(p)
  PROVE  IInv'
<1>1. op[p].kind = "revalue" /\ op[p].rows = {} /\ \A n \in Entities : op[p].from[n] = 0
  BY DEF Revalued
<1>2. /\ Types /\ Numbered /\ SeqUnique /\ References
      /\ \A q \in Processes \ {p} : op[q] = Idle
      /\ \A x \in Rows : entry[x].half => \E f \in Rows : Partners(x, f)
      /\ \A x \in Rows : entry[x].seq # 0 => Ok(x) \/ Awaits(p, x)
  BY <1>1, Revaluing
<1>3. op' = [op EXCEPT ![p] = Idle] /\ entry' = entry
  BY DEF Revalued
<1>4. Rows' = Rows /\ \A x : entry'[x] = entry[x]
  BY <1>3 DEF Rows
<1>5. \A x \in Rows : ~Awaits(p, x)
  BY <1>1, <1>2, RowFacts DEF Awaits
<1>6. Numbered' /\ SeqUnique' /\ \A x \in Rows : Ok(x)' <=> Ok(x)
  BY <1>2, <1>4, Unmoved
<1>7. Chains'
  BY <1>2, <1>4, <1>5, <1>6 DEF Chains
<1>8. References' /\ Halves'
  BY <1>2, <1>4, HalvesStay
<1>9. op'[p] = Idle
  BY <1>2, <1>3 DEF Types
<1>10. RevalueHolds(p)' /\ TransferHolds(p)'
  BY <1>9 DEF RevalueHolds, TransferHolds, Idle
<1> QED BY <1>2, <1>3, <1>6, <1>7, <1>8, <1>10, TurnHolds

LEMMA InitHolds == Init /\ MaxEntry \in Nat => IInv
<1> SUFFICES ASSUME Init, MaxEntry \in Nat
             PROVE  IInv
  OBVIOUS
<1>1. Rows = {} /\ \A p \in Processes : op[p] = Idle
  BY DEF Init, Rows
<1>2. One /\ \A p \in Processes : RevalueHolds(p) /\ TransferHolds(p)
  BY <1>1 DEF One, RevalueHolds, TransferHolds, Idle
<1>3. Numbered /\ SeqUnique /\ Chains /\ References /\ Halves
  BY <1>1 DEF Numbered, SeqUnique, Chains, References, Halves
<1> QED BY <1>2, <1>3, TypesInit DEF IInv

LEMMA NextHolds ==
  ASSUME MaxEntry \in Nat, Alone, ~Mortal, IInv, [Next]_vars
  PROVE  IInv'
<1>1. Types'
  BY TypesNext DEF IInv
<1>2. CASE UNCHANGED vars
  <2>1. UNCHANGED <<entry, last, priced, shut, op>>
    BY <1>2 DEF vars
  <2>2. Rows' = Rows /\ (\A x : entry'[x] = entry[x]) /\ \A n : Chained(n)' = Chained(n)
    BY <2>1 DEF Rows, Chained
  <2>3. Numbered' /\ SeqUnique' /\ \A x \in Rows : Ok(x)' <=> Ok(x)
    BY <2>2, Unmoved DEF IInv
  <2>4. Chains'
    BY <2>1, <2>2, <2>3 DEF IInv, Chains, Awaits
  <2>5. References' /\ Halves'
    BY <2>1, <2>2 DEF IInv, References, Halves, Partners, UnderWay
  <2>6. \A p \in Processes : RevalueHolds(p)' <=> RevalueHolds(p)
    <3>1. \A p \in Processes, n \in Entities : Rest(p, n)' = Rest(p, n)
      BY <2>1, <2>2 DEF Rest
    <3>2. \A p \in Processes, n \in Entities :
            {Link(x, entry[x]) : x \in Rest(p, n)}' = {Link(x, entry[x]) : x \in Rest(p, n)}
      BY <2>2, <3>1 DEF Link
    <3> QED BY <2>1, <2>2, <3>1, <3>2 DEF RevalueHolds
  <2>7. \A p \in Processes : TransferHolds(p)' <=> TransferHolds(p)
    BY <2>1, <2>2 DEF TransferHolds, Referred
  <2>8. One'
    BY <2>1 DEF IInv, One
  <2> QED BY <1>1, <2>3, <2>4, <2>5, <2>6, <2>7, <2>8 DEF IInv
<1>3. ASSUME NEW p \in Processes, Transfer(p)
      PROVE  IInv'
  BY <1>1, <1>3, FirstHalfHolds, TransferHoldsOn DEF Transfer
<1>4. ASSUME NEW p \in Processes, Revaluation(p)
      PROVE  IInv'
  BY <1>1, <1>4, RevalueStarts, RevalueNextHolds, RechainFromHolds, RechainRowHolds, RevaluedHolds DEF Revaluation
<1>5. \A p \in Processes : ~Die(p)
  BY DEF Die
<1> QED BY <1>1, <1>2, <1>3, <1>4, <1>5, BesideHolds DEF Next

(* What the invariant says when no operation is in progress. *)
LEMMA WholeAtTheEnd == IInv => ChainsVerify /\ TransfersAreWhole
<1>1. IInv => ChainsVerify
  <2> SUFFICES ASSUME IInv, Quiet, NEW n \in Entities, NEW e \in Chained(n)
               PROVE  entry[e].hash = UpTo(n, entry[e].seq)
    BY DEF ChainsVerify, Verifies, UpTo
  <2>1. AllOk
    BY QuietFacts
  <2> QED BY <2>1 DEF AllOk, Ok, Chained
<1>2. IInv => TransfersAreWhole
  BY QuietFacts DEF TransfersAreWhole, Partners
<1> QED BY <1>1, <1>2

(* Between two operations every chain verifies and every transfer is whole, for any number of
   processes that take turns and live: whatever is booked, voided, refused, revalued and
   rechained row by row, in any number of entities (rates.rs:195, journal.rs:1161). *)
THEOREM BooksAreWhole ==
  ASSUME MaxEntry \in Nat, Alone, ~Mortal
  PROVE  Spec => [](ChainsVerify /\ TransfersAreWhole)
<1>1. IInv /\ [Next]_vars => IInv'
  BY NextHolds
<1>2. Init => IInv
  BY InitHolds
<1> QED BY <1>1, <1>2, WholeAtTheEnd, PTL DEF Spec
=============================================================================
