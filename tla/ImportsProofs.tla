---------------------------- MODULE ImportsProofs ----------------------------
(***************************************************************************)
(* Statement lines and journal entries stay evidence of one another, for    *)
(* every number of files, lines and entries.  What an attachment looks at   *)
(* inside of its transaction is enough for any number of processes; the     *)
(* rest of what an import read before is true only while no other process   *)
(* has the ledger open.                                                     *)
(***************************************************************************)
EXTENDS Imports, SequenceTheorems, FiniteSetTheorems, TLAPS

Ops    == {"none", "import", "retry", "rules", "match", "create", "skip", "unskip", "delete", "rollback"}
AtLine == {"reference", "fingerprint", "match", "duplicate", "attach", "draft", "skip", "rollback"}
Steps  == AtLine \cup {"none", "delete"}
Read   == UNION {[Range(LinesOf(f)) -> LineRecords] : f \in Files}
Founds == Lines \cup Entries \cup {Nothing} \cup Read

(* The rows: a line has a status while its file is stored, and is empty otherwise. *)
RowTypes ==
  /\ stored \subseteq Files
  /\ line \in [Lines -> LineRecords]
  /\ \A l \in Lines : IF l \in Present THEN line[l].status # "none" ELSE line[l] = NoLine
  /\ status \in [Entries -> {"none", "draft", "posted", "void"}]
  /\ \A e \in Entries : IF status[e] = "none" THEN amount[e] = Nothing ELSE amount[e] \in Range(Amount)
  /\ external \in [Entries -> Refs]
  /\ reconciled \subseteq Entries

(* The jobs: a step at a line has one. *)
JobTypes ==
  /\ job \in [Workers -> [op: Ops, todo: Seq(Lines), step: Steps, found: Founds]]
  /\ \A w \in Workers : job[w].step \in AtLine => job[w].todo # <<>>
  /\ \A w \in Workers : job[w].step = "delete" => job[w].found \in Entries

TypeInv == RowTypes /\ JobTypes /\ DOMAIN amount = Entries

(* A line points to a live, reconciled entry. *)
Evidence == \A l \in Lines : line[l].entry # Nothing => line[l].entry \in Live \cap reconciled

(* The two records of one fact. *)
TwoRecords ==
  /\ \A l \in Lines : Held(l) <=> line[l].entry # Nothing
  /\ \A l \in Lines : ~Held(l) => line[l].by = Nothing
  /\ \A e \in Live \cap reconciled : \E l \in Lines : line[l].entry = e
  /\ \A e \in reconciled : status[e] # "none"

(* While one process has the ledger open: a line that it is about to change is there,
   is nobody's evidence, and comes up once. *)
Fresh(w) ==
  LET todo == job[w].todo
  IN  job[w].step \in AtLine \ {"rollback"} =>
        /\ \A i \in 1..Len(todo) : todo[i] \in Present /\ line[todo[i]].entry = Nothing
        /\ \A i, j \in 1..Len(todo) : todo[i] = todo[j] => i = j

(* The earlier line that it found is evidence. *)
Known(w) == job[w].step = "duplicate" => job[w].found \in Present /\ Held(job[w].found)

(* What a rollback read is still so. *)
ReadIsSo(w) ==
  job[w].step = "rollback" =>
    \E f \in stored : job[w].todo = LinesOf(f) /\ job[w].found = [l \in Range(LinesOf(f)) |-> line[l]]

JobFits == \A w \in Workers : Fresh(w) /\ Known(w) /\ ReadIsSo(w)

(* duplicate_of_id is a foreign key. *)
DuplicatesPoint == \A l \in Lines : line[l].dup # Nothing => line[l].dup \in Present

IInv ==
  /\ TypeInv /\ Evidence /\ OneLinePerEntry /\ TwoRecords /\ JobFits
  /\ DuplicatesPoint /\ NoRingOfDuplicates

(* What an import searched before it books a line, and what it did not find. *)
Searched(w) ==
  LET l == Current(w)
  IN  /\ job[w].step = "fingerprint" => AfterReference(l) = "fingerprint"
      /\ job[w].step = "duplicate" /\ l[1] \in Strict /\ Ref(l) # NoRef => Ref(job[w].found) = Ref(l)
      /\ Booker(w) = "import" /\ job[w].step \in {"fingerprint", "match", "attach", "draft"} /\ Ref(l) # NoRef =>
           EarlierByReference(l) = {}
      /\ Booker(w) = "import" /\ job[w].step \in {"match", "attach", "draft"} /\ AfterReference(l) = "fingerprint" =>
           EarlierByFingerprint(l) = {}

BookedInv == IInv /\ BookedOnce /\ \A w \in Workers : Searched(w)


(***************************************************************************)
(* Lines                                                                   *)
(***************************************************************************)

LEMMA LinesOfFile ==
  ASSUME NEW f \in Files
  PROVE  /\ LinesOf(f) \in Seq(Lines) /\ LinesOf(f) # <<>>
         /\ \A i \in 1..Len(LinesOf(f)) : LinesOf(f)[i] = <<f, i>>
         /\ Range(LinesOf(f)) = {l \in Lines : l[1] = f}
<1>1. Rows[f] \in Seq([move: Moves, ref: Refs]) /\ Rows[f] # <<>>
  BY RowsAreMovements
<1>2. DOMAIN Rows[f] = 1..Len(Rows[f]) /\ Len(Rows[f]) \in Nat \ {0}
  BY <1>1, LenProperties, EmptySeq
<1> DEFINE n == Len(Rows[f])
<1>3. \A i \in 1..n : <<f, i>> \in Lines
  BY <1>2 DEF Lines
<1>4. LinesOf(f) = [i \in 1..n |-> <<f, i>>]
  BY <1>2 DEF LinesOf
<1> HIDE DEF n
<1>5. n \in Nat \ {0}
  BY <1>2 DEF n
<1>6. LinesOf(f) \in Seq(Lines) /\ Len(LinesOf(f)) = n
  BY <1>3, <1>4, <1>5
<1>7. \A l \in Lines : l[1] = f => \E i \in 1..n : l = <<f, i>>
  BY <1>2 DEF Lines, n
<1>8. Range(LinesOf(f)) = {l \in Lines : l[1] = f}
  BY <1>3, <1>4, <1>7 DEF Range
<1> QED BY <1>4, <1>5, <1>6, <1>8, EmptySeq

LEMMA LineFacts ==
  ASSUME NEW l \in Lines
  PROVE  /\ l[1] \in Files /\ Move(l) \in Moves /\ Ref(l) \in Refs
         /\ Amount[Move(l)] \in Range(Amount)
<1>0. PICK f \in Files : \E i \in DOMAIN Rows[f] : l = <<f, i>>
  BY DEF Lines
<1>1. PICK i \in DOMAIN Rows[f] : l = <<f, i>>
  BY <1>0
<1>2. Rows[f][i] \in [move: Moves, ref: Refs]
  <2>1. i \in 1..Len(Rows[f]) /\ Rows[f] \in Seq([move: Moves, ref: Refs])
    BY <1>1, RowsAreMovements, LenProperties
  <2> QED BY <2>1, ElementOfSeq
<1>3. Move(l) = Rows[f][i].move /\ Ref(l) = Rows[f][i].ref
  BY <1>1 DEF Move, Ref
<1>4. Move(l) \in DOMAIN Amount
  BY <1>2, <1>3, RowsAreMovements
<1> QED BY <1>1, <1>2, <1>3, <1>4 DEF Range

LEMMA OrdersAre ==
  ASSUME NEW S \in SUBSET Lines, NEW todo \in InOrder(S) \cup Queue(S)
  PROVE  /\ todo \in Seq(Lines)
         /\ \A i \in 1..Len(todo) : todo[i] \in S
         /\ \A i, j \in 1..Len(todo) : todo[i] = todo[j] => i = j
<1> DEFINE n == Cardinality(S)
<1>1. n \in Nat
  BY RowsAreMovements, FS_Subset, FS_CardinalityType
<1>2. todo \in [1..n -> S] /\ \A i, j \in 1..n : i # j => todo[i] # todo[j]
  BY DEF InOrder, Queue, Orders, Injection, IsInjective
<1> HIDE DEF n
<1>3. todo \in Seq(S) /\ Len(todo) = n
  BY <1>1, <1>2
<1> QED BY <1>2, <1>3, SeqMonotonic

LEMMA NoReference == NoRef \in Refs
BY DEF Refs

LEMMA NothingIsNoRow == Nothing \notin Entries /\ Nothing \notin Lines
BY Nobody

LEMMA CurrentLine ==
  ASSUME JobTypes, NEW w \in Workers, job[w].step \in AtLine
  PROVE  /\ job[w].todo \in Seq(Lines) /\ job[w].todo # <<>> /\ Current(w) \in Lines
         /\ Len(job[w].todo) \in Nat \ {0} /\ Current(w) = job[w].todo[1]
         /\ Tail(job[w].todo) \in Seq(Lines) /\ Len(Tail(job[w].todo)) = Len(job[w].todo) - 1
         /\ \A i \in 1..Len(job[w].todo) - 1 : Tail(job[w].todo)[i] = job[w].todo[i + 1]
<1>1. job[w].todo \in Seq(Lines) /\ job[w].todo # <<>>
  BY DEF JobTypes
<1>2. Len(job[w].todo) \in Nat \ {0}
  BY <1>1, EmptySeq
<1> QED BY <1>1, <1>2, HeadTailProperties DEF Current


(***************************************************************************)
(* Jobs                                                                    *)
(***************************************************************************)

LEMMA BeginTypes ==
  ASSUME JobTypes, NEW w \in Workers,
         NEW op \in Ops, NEW todo \in Seq(Lines), NEW step \in Steps, NEW found \in Founds,
         Begin(w, op, todo, step, found),
         step \in AtLine => todo # <<>>, step = "delete" => found \in Entries
  PROVE  /\ JobTypes'
         /\ job'[w] = [op |-> op, todo |-> todo, step |-> step, found |-> found]
         /\ \A v \in Workers \ {w} : job'[v] = job[v]
BY DEF JobTypes, Begin

LEMMA DecideTypes ==
  ASSUME JobTypes, NEW w \in Workers, NEW step \in AtLine, NEW found \in Founds,
         job[w].step \in AtLine, Decide(w, step, found)
  PROVE  /\ JobTypes'
         /\ job'[w] = [op |-> job[w].op, todo |-> job[w].todo, step |-> step, found |-> found]
         /\ \A v \in Workers \ {w} : job'[v] = job[v]
<1>1. job'[w] = [op |-> job[w].op, todo |-> job[w].todo, step |-> step, found |-> found]
  BY DEF JobTypes, Decide
<1>2. \A v \in Workers \ {w} : job'[v] = job[v]
  BY DEF JobTypes, Decide
<1>3. job' \in [Workers -> [op: Ops, todo: Seq(Lines), step: Steps, found: Founds]]
  BY DEF JobTypes, Decide, Steps
<1>4. step # "delete" /\ job[w].todo # <<>>
  BY DEF AtLine, JobTypes
<1>5. \A v \in Workers : /\ job'[v].step \in AtLine => job'[v].todo # <<>>
                         /\ job'[v].step = "delete" => job'[v].found \in Entries
  <2>1. ASSUME NEW v \in Workers
        PROVE  /\ job'[v].step \in AtLine => job'[v].todo # <<>>
               /\ job'[v].step = "delete" => job'[v].found \in Entries
    <3>1. CASE v = w
      BY <1>1, <1>4, <3>1
    <3>2. CASE v # w
      BY <1>2, <3>2 DEF JobTypes
    <3> QED BY <3>1, <3>2
  <2> QED BY <2>1
<1> QED BY <1>1, <1>2, <1>3, <1>5 DEF JobTypes

LEMMA IdleTypes ==
  ASSUME JobTypes, NEW w \in Workers, job' = [job EXCEPT ![w] = Idle]
  PROVE  JobTypes' /\ job'[w] = Idle /\ \A v \in Workers \ {w} : job'[v] = job[v]
<1>1. Idle \in [op: Ops, todo: Seq(Lines), step: Steps, found: Founds]
  BY EmptySeq DEF Idle, Ops, Steps, Founds
<1>2. job'[w] = Idle /\ \A v \in Workers \ {w} : job'[v] = job[v]
  BY DEF JobTypes
<1>3. Idle.step = "none"
  BY DEF Idle
<1> QED BY <1>1, <1>2, <1>3 DEF JobTypes, AtLine

LEMMA AdvanceTypes ==
  ASSUME JobTypes, NEW w \in Workers, job[w].step \in AtLine, Advance(w)
  PROVE  /\ JobTypes'
         /\ \/ job'[w] = Idle
            \/ /\ Tail(job[w].todo) # <<>>
               /\ job'[w] = [op |-> job[w].op, todo |-> Tail(job[w].todo),
                             step |-> IF job[w].op = "rules" THEN "draft" ELSE "reference", found |-> Nothing]
         /\ \A v \in Workers \ {w} : job'[v] = job[v]
<1>1. Tail(job[w].todo) \in Seq(Lines)
  BY CurrentLine
<1>2. CASE Tail(job[w].todo) = <<>>
  <2>1. job' = [job EXCEPT ![w] = Idle]
    BY <1>2 DEF Advance
  <2> QED BY <2>1, IdleTypes
<1>3. CASE Tail(job[w].todo) # <<>>
  <2> DEFINE next == [op |-> job[w].op, todo |-> Tail(job[w].todo),
                      step |-> IF job[w].op = "rules" THEN "draft" ELSE "reference", found |-> Nothing]
  <2>1. job' = [job EXCEPT ![w] = next]
    BY <1>3 DEF Advance, JobTypes
  <2>2. next \in [op: Ops, todo: Seq(Lines), step: Steps, found: Founds]
    BY <1>1 DEF JobTypes, Steps, AtLine, Founds
  <2>3. next.step # "delete" /\ next.todo # <<>>
    BY <1>3
  <2> HIDE DEF next
  <2>4. job'[w] = next /\ \A v \in Workers \ {w} : job'[v] = job[v]
    BY <2>1 DEF JobTypes
  <2>5. JobTypes'
    BY <2>1, <2>2, <2>3, <2>4 DEF JobTypes
  <2> QED BY <1>3, <2>4, <2>5 DEF next
<1> QED BY <1>2, <1>3


(***************************************************************************)
(* Rows                                                                    *)
(***************************************************************************)

LEMMA PutRow ==
  ASSUME RowTypes, NEW l \in Lines, NEW new \in LineRecords, new.status # "none",
         Put(l, new), stored' = stored
  PROVE  /\ line' \in [Lines -> LineRecords] /\ Present' = Present
         /\ \A k \in Lines : IF k \in Present' THEN line'[k].status # "none" ELSE line'[k] = NoLine
         /\ \A k \in Lines \ {l} : line'[k] = line[k]
         /\ l \in Present => line'[l] = new
         /\ l \notin Present => line' = line
<1>1. Present' = Present
  BY DEF Present
<1>2. CASE l \in Present
  <2>1. line' = [line EXCEPT ![l] = new]
    BY <1>2 DEF Put
  <2> QED BY <1>1, <1>2, <2>1 DEF RowTypes
<1>3. CASE l \notin Present
  <2>1. line' = line
    BY <1>3 DEF Put
  <2> QED BY <1>1, <1>3, <2>1 DEF RowTypes
<1> QED BY <1>2, <1>3

(* A line that loses its entry keeps what it duplicates. *)
LEMMA BackToQueue ==
  ASSUME NEW old \in LineRecords, NEW new,
         new = [old EXCEPT !.status = "unmatched", !.entry = Nothing, !.by = Nothing]
  PROVE  /\ new \in LineRecords /\ new.status = "unmatched"
         /\ new.entry = Nothing /\ new.by = Nothing /\ new.dup = old.dup
BY DEF LineRecords

LEMMA ReleasedRows ==
  ASSUME RowTypes, NEW e \in Entries, ReleaseLines(e), stored' = stored
  PROVE  /\ line' \in [Lines -> LineRecords] /\ Present' = Present
         /\ \A k \in Lines : IF k \in Present' THEN line'[k].status # "none" ELSE line'[k] = NoLine
         /\ \A k \in Lines : line[k].entry # e => line'[k] = line[k]
         /\ \A k \in Lines : line[k].entry = e =>
              /\ line'[k].status = "unmatched" /\ line'[k].entry = Nothing
              /\ line'[k].by = Nothing /\ line'[k].dup = line[k].dup
<1>1. Present' = Present
  BY DEF Present
<1>2. \A k \in Lines : line[k].entry = e => k \in Present
  BY NothingIsNoRow DEF RowTypes, NoLine
<1>3. \A k \in Lines : line[k].entry # e => line'[k] = line[k]
  BY DEF ReleaseLines
<1>4. ASSUME NEW k \in Lines, line[k].entry = e
      PROVE  /\ line'[k] \in LineRecords /\ line'[k].status = "unmatched"
             /\ line'[k].entry = Nothing /\ line'[k].by = Nothing /\ line'[k].dup = line[k].dup
  <2>1. line'[k] = [line[k] EXCEPT !.status = "unmatched", !.entry = Nothing, !.by = Nothing]
    BY <1>4 DEF ReleaseLines
  <2>2. line[k] \in LineRecords
    BY DEF RowTypes
  <2> QED BY <2>1, <2>2, BackToQueue, Zenon
<1>5. \A k \in Lines : line'[k] \in LineRecords
  BY <1>3, <1>4 DEF RowTypes
<1>6. line' \in [Lines -> LineRecords]
  BY <1>5 DEF ReleaseLines
<1> QED BY <1>1, <1>2, <1>3, <1>4, <1>6 DEF RowTypes

LEMMA ErasedRows ==
  ASSUME RowTypes, NEW S \in SUBSET Entries, Erase(S)
  PROVE  /\ status' \in [Entries -> {"none", "draft", "posted", "void"}]
         /\ \A e \in Entries : IF status'[e] = "none" THEN amount'[e] = Nothing ELSE amount'[e] \in Range(Amount)
         /\ external' \in [Entries -> Refs] /\ DOMAIN amount' = Entries
         /\ \A e \in S : status'[e] = "none"
         /\ \A e \in Entries \ S : status'[e] = status[e]
<1>1. NoRef \in Refs
  BY NoReference
<1>2. /\ status'   = [e \in Entries |-> IF e \in S THEN "none" ELSE status[e]]
      /\ amount'   = [e \in Entries |-> IF e \in S THEN Nothing ELSE amount[e]]
      /\ external' = [e \in Entries |-> IF e \in S THEN NoRef ELSE external[e]]
  BY DEF Erase
<1>3. \A e \in S : status'[e] = "none" /\ amount'[e] = Nothing
  BY <1>2
<1>4. \A e \in Entries \ S : status'[e] = status[e] /\ amount'[e] = amount[e]
  BY <1>2
<1>5. \A e \in Entries : IF status'[e] = "none" THEN amount'[e] = Nothing ELSE amount'[e] \in Range(Amount)
  BY <1>3, <1>4 DEF RowTypes
<1>6. external' \in [Entries -> Refs] /\ status' \in [Entries -> {"none", "draft", "posted", "void"}]
  BY <1>1, <1>2 DEF RowTypes
<1> QED BY <1>2, <1>3, <1>4, <1>5, <1>6

LEMMA RowsStay ==
  ASSUME TypeInv, JobTypes', UNCHANGED <<stored, line, status, amount, external, reconciled>>
  PROVE  TypeInv'
BY DEF TypeInv, RowTypes, Present


(***************************************************************************)
(* Every step keeps the types                                              *)
(***************************************************************************)

LEMMA InitTypes == Init => TypeInv
<1> SUFFICES ASSUME Init
             PROVE  TypeInv
  OBVIOUS
<1>1. NoRef \in Refs
  BY NoReference
<1>2. RowTypes /\ DOMAIN amount = Entries
  <2>1. NoLine \in LineRecords /\ \A l \in Lines : l \notin Present
    BY DEF Init, NoLine, LineRecords, Present
  <2> QED BY <1>1, <2>1 DEF Init, RowTypes
<1>3. JobTypes
  <2>1. Idle \in [op: Ops, todo: Seq(Lines), step: Steps, found: Founds] /\ Idle.step = "none"
    BY EmptySeq DEF Idle, Ops, Steps, Founds
  <2> QED BY <2>1 DEF Init, JobTypes, AtLine
<1> QED BY <1>2, <1>3 DEF TypeInv

LEMMA ImportTypes ==
  ASSUME TypeInv, NEW w \in Workers, NEW f \in Files, Import(w, f)
  PROVE  TypeInv'
<1>1. /\ f \notin stored /\ Begin(w, "import", LinesOf(f), "reference", Nothing)
      /\ stored' = stored \cup {f}
      /\ line' = [l \in Lines |-> IF l[1] = f THEN [NoLine EXCEPT !.status = "unmatched"] ELSE line[l]]
      /\ UNCHANGED <<status, amount, external, reconciled>>
  BY DEF Import, entryVars
<1>2. JobTypes'
  <2>1. LinesOf(f) \in Seq(Lines) /\ LinesOf(f) # <<>>
    BY LinesOfFile
  <2>2. "import" \in Ops /\ "reference" \in Steps /\ "reference" # "delete" /\ Nothing \in Founds
    BY DEF Ops, Steps, AtLine, Founds
  <2> QED BY <1>1, <2>1, <2>2, BeginTypes DEF TypeInv
<1>3. [NoLine EXCEPT !.status = "unmatched"] = [status |-> "unmatched", entry |-> Nothing, dup |-> Nothing, by |-> Nothing]
  BY DEF NoLine
<1>4. [NoLine EXCEPT !.status = "unmatched"] \in LineRecords
  BY <1>3 DEF LineRecords
<1>5. line' \in [Lines -> LineRecords]
  BY <1>1, <1>4 DEF TypeInv, RowTypes
<1>6. \A l \in Lines : IF l \in Present' THEN line'[l].status # "none" ELSE line'[l] = NoLine
  <2>1. ASSUME NEW l \in Lines
        PROVE  IF l \in Present' THEN line'[l].status # "none" ELSE line'[l] = NoLine
    <3>1. CASE l[1] = f
      BY <1>1, <1>3, <3>1 DEF Present
    <3>2. CASE l[1] # f
      BY <1>1, <3>2 DEF Present, TypeInv, RowTypes
    <3> QED BY <3>1, <3>2
  <2> QED BY <2>1
<1> QED BY <1>1, <1>2, <1>5, <1>6 DEF TypeInv, RowTypes

LEMMA RetryTypes ==
  ASSUME TypeInv, NEW w \in Workers, NEW f \in Files, Retry(w, f)
  PROVE  TypeInv'
<1>1. PICK todo \in InOrder({l \in Range(LinesOf(f)) : Unfinished(l)}) :
        todo # <<>> /\ Begin(w, "retry", todo, "reference", Nothing)
  BY DEF Retry
<1>2. todo \in Seq(Lines)
  <2>1. {l \in Range(LinesOf(f)) : Unfinished(l)} \in SUBSET Lines
    BY LinesOfFile
  <2> QED BY <2>1, <1>1, OrdersAre
<1>3. JobTypes'
  BY <1>1, <1>2, BeginTypes DEF TypeInv, Ops, Steps, AtLine, Founds
<1> QED BY <1>3, RowsStay DEF Retry, entryVars

LEMMA RunRulesTypes ==
  ASSUME TypeInv, NEW w \in Workers, RunRules(w)
  PROVE  TypeInv'
<1>1. PICK S \in SUBSET {l \in Present : line[l].status = "unmatched"} :
        \E t \in Queue(S) : t # <<>> /\ Begin(w, "rules", t, "draft", Nothing)
  BY DEF RunRules
<1>2. PICK todo \in Queue(S) : todo # <<>> /\ Begin(w, "rules", todo, "draft", Nothing)
  BY <1>1
<1>3. todo \in Seq(Lines)
  <2>1. S \in SUBSET Lines
    BY DEF Present
  <2> QED BY <2>1, <1>2, OrdersAre
<1>4. JobTypes'
  BY <1>2, <1>3, BeginTypes DEF TypeInv, Ops, Steps, AtLine, Founds
<1> QED BY <1>4, RowsStay DEF RunRules, entryVars

LEMMA ByHandTypes ==
  ASSUME TypeInv, NEW w \in Workers, NEW l \in Lines,
         SkipOrNot(w, l) \/ CreateByHand(w, l) \/ \E e \in Entries : MatchByHand(w, l, e)
  PROVE  TypeInv'
<1>1. <<l>> \in Seq(Lines) /\ <<l>> # <<>>
  OBVIOUS
<1>2. JobTypes'
  <2>1. CASE SkipOrNot(w, l)
    <3>1. (IF line[l].status = "skipped" THEN "unskip" ELSE "skip") \in Ops
      BY DEF Ops
    <3>2. "skip" \in Steps /\ "skip" # "delete" /\ Nothing \in Founds
      BY DEF Steps, AtLine, Founds
    <3>3. Begin(w, IF line[l].status = "skipped" THEN "unskip" ELSE "skip", <<l>>, "skip", Nothing)
      BY <2>1 DEF SkipOrNot
    <3> HIDE DEF Begin
    <3> QED BY <1>1, <3>1, <3>2, <3>3, BeginTypes DEF TypeInv
  <2>2. CASE CreateByHand(w, l)
    <3>1. Begin(w, "create", <<l>>, "draft", Nothing)
      BY <2>2 DEF CreateByHand
    <3>2. "create" \in Ops /\ "draft" \in Steps /\ "draft" # "delete" /\ Nothing \in Founds
      BY DEF Ops, Steps, AtLine, Founds
    <3> QED BY <1>1, <3>1, <3>2, BeginTypes DEF TypeInv
  <2>3. ASSUME NEW e \in Entries, MatchByHand(w, l, e)
        PROVE  JobTypes'
    BY <1>1, <2>3, BeginTypes DEF MatchByHand, TypeInv, Ops, Steps, AtLine, Founds
  <2> QED BY <2>1, <2>2, <2>3
<1> QED BY <1>2, RowsStay DEF SkipOrNot, CreateByHand, MatchByHand, entryVars

LEMMA DeleteDraftTypes ==
  ASSUME TypeInv, NEW w \in Workers, NEW e \in Entries, DeleteDraft(w, e)
  PROVE  TypeInv'
<1>1. JobTypes'
  BY EmptySeq, BeginTypes DEF DeleteDraft, TypeInv, Ops, Steps, AtLine, Founds
<1> QED BY <1>1, RowsStay DEF DeleteDraft, entryVars

LEMMA RollbackTypes ==
  ASSUME TypeInv, NEW w \in Workers, NEW f \in Files, Rollback(w, f)
  PROVE  TypeInv'
<1>1. [l \in Range(LinesOf(f)) |-> line[l]] \in Founds
  <2>1. Range(LinesOf(f)) \subseteq Lines
    BY LinesOfFile
  <2>2. [l \in Range(LinesOf(f)) |-> line[l]] \in [Range(LinesOf(f)) -> LineRecords]
    BY <2>1 DEF TypeInv, RowTypes
  <2> QED BY <2>2 DEF Founds, Read
<1>2. Begin(w, "rollback", LinesOf(f), "rollback", [l \in Range(LinesOf(f)) |-> line[l]])
  BY DEF Rollback
<1>3. LinesOf(f) \in Seq(Lines) /\ LinesOf(f) # <<>>
  BY LinesOfFile
<1>4. "rollback" \in Ops /\ "rollback" \in Steps /\ "rollback" # "delete"
  BY DEF Ops, Steps, AtLine
<1>5. JobTypes'
  BY <1>1, <1>2, <1>3, <1>4, BeginTypes DEF TypeInv
<1> QED BY <1>5, RowsStay DEF Rollback, entryVars

LEMMA CrashTypes ==
  ASSUME TypeInv, NEW w \in Workers, Crash(w)
  PROVE  TypeInv'
BY IdleTypes, RowsStay DEF Crash, TypeInv, entryVars

(* What is read of a line before its transaction. *)
LEMMA LookTypes ==
  ASSUME TypeInv, NEW w \in Workers, CheckReference(w) \/ CheckFingerprint(w) \/ FindMatch(w)
  PROVE  TypeInv' /\ job[w].step \in AtLine /\ job'[w].step \in {"duplicate", "attach", "match", "fingerprint", "draft"}
         /\ job'[w].op = job[w].op /\ job'[w].todo = job[w].todo
         /\ \A v \in Workers \ {w} : job'[v] = job[v]
<1>1. job[w].step \in {"reference", "fingerprint", "match"}
  BY DEF CheckReference, CheckFingerprint, FindMatch, Doing
<1>2. PICK step \in {"duplicate", "attach", "match", "fingerprint", "draft"} :
        \E x \in Founds : Decide(w, step, x)
  <2> DEFINE some == {"duplicate", "attach", "match", "fingerprint", "draft"}
  <2>1. \A l \in Lines : AfterReference(l) \in some
    BY DEF AfterReference
  <2>2. Current(w) \in Lines
    BY <1>1, CurrentLine DEF TypeInv, AtLine
  <2>3. /\ \A k \in EarlierByReference(Current(w)) : k \in Founds
        /\ \A k \in EarlierByFingerprint(Current(w)) : k \in Founds
        /\ \A e \in PostedAs(Current(w)) : e \in Founds
        /\ \A e \in Candidates(Current(w)) : e \in Founds
        /\ Nothing \in Founds
    BY DEF EarlierByReference, EarlierByFingerprint, PostedAs, Candidates, Present, Live, Founds
  <2>4. CASE CheckReference(w)
    <3>1. \/ \E k \in EarlierByReference(Current(w)) : Decide(w, "duplicate", k)
          \/ \E e \in PostedAs(Current(w)) : Decide(w, "attach", e)
          \/ Decide(w, AfterReference(Current(w)), Nothing)
      BY <2>4 DEF CheckReference
    <3> QED BY <3>1, <2>1, <2>2, <2>3
  <2>5. CASE CheckFingerprint(w)
    <3>1. \/ \E k \in EarlierByFingerprint(Current(w)) : Decide(w, "duplicate", k)
          \/ Decide(w, "match", Nothing)
      BY <2>5 DEF CheckFingerprint
    <3> QED BY <3>1, <2>3
  <2>6. CASE FindMatch(w)
    <3>1. \/ \E e \in Candidates(Current(w)) : Decide(w, "attach", e)
          \/ Decide(w, "draft", Nothing)
      BY <2>6 DEF FindMatch
    <3> QED BY <3>1, <2>3
  <2> QED BY <2>4, <2>5, <2>6
<1>3. PICK x \in Founds : Decide(w, step, x)
  BY <1>2
<1>4. job[w].step \in AtLine /\ step \in AtLine
  BY <1>1, <1>2 DEF AtLine
<1>5. /\ JobTypes' /\ job'[w] = [op |-> job[w].op, todo |-> job[w].todo, step |-> step, found |-> x]
      /\ \A v \in Workers \ {w} : job'[v] = job[v]
  BY <1>3, <1>4, DecideTypes DEF TypeInv
<1>6. UNCHANGED <<stored, line, status, amount, external, reconciled>>
  BY DEF CheckReference, CheckFingerprint, FindMatch, entryVars
<1> QED BY <1>2, <1>4, <1>5, <1>6, RowsStay

LEMMA LineFields ==
  ASSUME RowTypes, NEW l \in Lines
  PROVE  /\ line[l] \in LineRecords
         /\ line[l] = [status |-> line[l].status, entry |-> line[l].entry, dup |-> line[l].dup, by |-> line[l].by]
         /\ line[l].entry \in Entries \cup {Nothing} /\ line[l].dup \in Lines \cup {Nothing}
         /\ line[l].by \in {Nothing, "import", "rules", "person"}
BY DEF RowTypes, LineRecords

LEMMA WithStatus ==
  ASSUME NEW r \in LineRecords, NEW s
  PROVE  [r EXCEPT !.status = s] = [status |-> s, entry |-> r.entry, dup |-> r.dup, by |-> r.by]
BY DEF LineRecords

LEMMA WithDuplicate ==
  ASSUME NEW r \in LineRecords, NEW s, NEW d
  PROVE  [r EXCEPT !.status = s, !.dup = d] = [status |-> s, entry |-> r.entry, dup |-> d, by |-> r.by]
<1> DEFINE q == [r EXCEPT !.status = s]
<1>1. q = [status |-> s, entry |-> r.entry, dup |-> r.dup, by |-> r.by]
  BY DEF LineRecords
<1> HIDE DEF q
<1>2. [q EXCEPT !.dup = d] = [status |-> s, entry |-> r.entry, dup |-> d, by |-> r.by]
  BY <1>1
<1> QED BY <1>2 DEF q

LEMMA WithEntry ==
  ASSUME NEW r \in LineRecords, NEW s, NEW e, NEW b
  PROVE  [r EXCEPT !.status = s, !.entry = e, !.by = b] = [status |-> s, entry |-> e, dup |-> r.dup, by |-> b]
<1> DEFINE q == [r EXCEPT !.status = s]
           p == [q EXCEPT !.entry = e]
<1>1. q = [status |-> s, entry |-> r.entry, dup |-> r.dup, by |-> r.by]
  BY DEF LineRecords
<1> HIDE DEF q
<1>2. p = [status |-> s, entry |-> e, dup |-> r.dup, by |-> r.by]
  BY <1>1
<1> HIDE DEF p
<1>3. [p EXCEPT !.by = b] = [status |-> s, entry |-> e, dup |-> r.dup, by |-> b]
  BY <1>2
<1> QED BY <1>3 DEF p, q

LEMMA MarkTypes ==
  ASSUME TypeInv, NEW w \in Workers, MarkDuplicate(w)
  PROVE  TypeInv'
<1> DEFINE l == Current(w)
           new == [line[l] EXCEPT !.status = "duplicate", !.dup = job[w].found]
<1>1. /\ job[w].step \in AtLine /\ job[w].found \in Present /\ Put(l, new) /\ Advance(w)
      /\ UNCHANGED <<stored, status, amount, external, reconciled>>
  BY DEF MarkDuplicate, Doing, AtLine, entryVars
<1>2. JobTypes' /\ l \in Lines
  BY <1>1, AdvanceTypes, CurrentLine DEF TypeInv
<1>3. new = [status |-> "duplicate", entry |-> line[l].entry, dup |-> job[w].found, by |-> line[l].by]
  <2>1. line[l] \in LineRecords
    BY <1>2, LineFields DEF TypeInv
  <2> QED BY <2>1, WithDuplicate
<1>4. new \in LineRecords /\ new.status # "none"
  BY <1>1, <1>2, <1>3, LineFields DEF TypeInv, LineRecords, Present
<1> HIDE DEF new, l
<1> QED BY <1>1, <1>2, <1>4, PutRow DEF TypeInv, RowTypes

LEMMA AttachTypes ==
  ASSUME TypeInv, NEW w \in Workers, Attach(w)
  PROVE  TypeInv'
<1> DEFINE l == Current(w)
           e == job[w].found
           new == [line[l] EXCEPT !.status = "matched", !.entry = e, !.by = Booker(w)]
<1>1. /\ job[w].step \in AtLine /\ e \in Live /\ Put(l, new) /\ Advance(w)
      /\ status' = [status EXCEPT ![e] = "posted"] /\ reconciled' = reconciled \cup {e}
      /\ external' = [external EXCEPT ![e] = Ref(l)] \/ external' = external
      /\ UNCHANGED <<stored, amount>>
  BY DEF Attach, Attachable, Doing, AtLine
<1>2. JobTypes' /\ l \in Lines
  BY <1>1, AdvanceTypes, CurrentLine DEF TypeInv
<1>3. Booker(w) \in {"import", "rules", "person"}
  BY DEF Booker
<1>4. new = [status |-> "matched", entry |-> e, dup |-> line[l].dup, by |-> Booker(w)]
  <2>1. line[l] \in LineRecords
    BY <1>2, LineFields DEF TypeInv
  <2> QED BY <2>1, WithEntry
<1>5. e \in Entries /\ status[e] # "none"
  BY <1>1 DEF Live
<1>6. new \in LineRecords /\ new.status # "none"
  BY <1>2, <1>3, <1>4, <1>5, LineFields DEF TypeInv, LineRecords
<1>7. Ref(l) \in Refs
  BY <1>2, LineFacts
<1> HIDE DEF new, l, e
<1>8. /\ line' \in [Lines -> LineRecords]
      /\ \A k \in Lines : IF k \in Present' THEN line'[k].status # "none" ELSE line'[k] = NoLine
  BY <1>1, <1>2, <1>6, PutRow DEF TypeInv
<1>9. external' \in [Entries -> Refs] /\ reconciled' \subseteq Entries
  BY <1>1, <1>5, <1>7 DEF TypeInv, RowTypes
<1>10. /\ status' \in [Entries -> {"none", "draft", "posted", "void"}]
       /\ \A x \in Entries : status'[x] = "none" <=> status[x] = "none"
  BY <1>1, <1>5 DEF TypeInv, RowTypes
<1> QED BY <1>1, <1>2, <1>8, <1>9, <1>10 DEF TypeInv, RowTypes

(* A new row of the journal. *)
LEMMA NewEntry ==
  ASSUME RowTypes, DOMAIN amount = Entries, NEW e \in Entries, NEW s \in {"draft", "posted"},
         NEW a \in Range(Amount), NEW r \in Refs,
         status' = [status EXCEPT ![e] = s], amount' = [amount EXCEPT ![e] = a],
         external' = [external EXCEPT ![e] = r]
  PROVE  /\ status' \in [Entries -> {"none", "draft", "posted", "void"}] /\ DOMAIN amount' = Entries
         /\ \A x \in Entries : IF status'[x] = "none" THEN amount'[x] = Nothing ELSE amount'[x] \in Range(Amount)
         /\ external' \in [Entries -> Refs]
         /\ status'[e] = s /\ \A x \in Entries \ {e} : status'[x] = status[x]
<1>1. /\ status'[e] = s /\ amount'[e] = a
      /\ \A x \in Entries \ {e} : status'[x] = status[x] /\ amount'[x] = amount[x]
  BY DEF RowTypes
<1>2. \A x \in Entries : IF status'[x] = "none" THEN amount'[x] = Nothing ELSE amount'[x] \in Range(Amount)
  BY <1>1 DEF RowTypes
<1>3. status' \in [Entries -> {"none", "draft", "posted", "void"}] /\ external' \in [Entries -> Refs]
  BY DEF RowTypes
<1>4. DOMAIN amount' = Entries
  OBVIOUS
<1> QED BY <1>1, <1>2, <1>3, <1>4

LEMMA DraftTypes ==
  ASSUME TypeInv, NEW w \in Workers, NEW e \in Entries, NEW posted \in BOOLEAN, Draft(w, e, posted)
  PROVE  TypeInv'
<1> DEFINE l == Current(w)
           s == IF posted THEN "posted" ELSE "draft"
           new == [line[l] EXCEPT !.status = "created", !.entry = e, !.by = Booker(w)]
<1>1. /\ job[w].step \in AtLine /\ Put(l, new) /\ Advance(w)
      /\ status' = [status EXCEPT ![e] = s] /\ amount' = [amount EXCEPT ![e] = Amount[Move(l)]]
      /\ reconciled' = reconciled \cup {e}
      /\ \E r \in {PostingReference(Ref(l)), NoRef} : external' = [external EXCEPT ![e] = r]
      /\ UNCHANGED stored
  BY DEF Draft, Doing, AtLine
<1>2. JobTypes' /\ l \in Lines
  BY <1>1, AdvanceTypes, CurrentLine DEF TypeInv
<1>3. new = [status |-> "created", entry |-> e, dup |-> line[l].dup, by |-> Booker(w)]
  <2>1. line[l] \in LineRecords
    BY <1>2, LineFields DEF TypeInv
  <2> QED BY <2>1, WithEntry
<1>4. Booker(w) \in {"import", "rules", "person"} /\ s \in {"draft", "posted"}
  BY DEF Booker
<1>5. new \in LineRecords /\ new.status # "none"
  BY <1>2, <1>3, <1>4, LineFields DEF TypeInv, LineRecords
<1>6. Amount[Move(l)] \in Range(Amount) /\ Ref(l) \in Refs
  BY <1>2, LineFacts
<1>7. PICK r \in Refs : external' = [external EXCEPT ![e] = r]
  BY <1>1, <1>6, NoReference DEF PostingReference
<1> HIDE DEF new, l, s
<1>8. /\ line' \in [Lines -> LineRecords]
      /\ \A k \in Lines : IF k \in Present' THEN line'[k].status # "none" ELSE line'[k] = NoLine
  BY <1>1, <1>2, <1>5, PutRow DEF TypeInv
<1>9. /\ status' \in [Entries -> {"none", "draft", "posted", "void"}] /\ DOMAIN amount' = Entries
      /\ \A x \in Entries : IF status'[x] = "none" THEN amount'[x] = Nothing ELSE amount'[x] \in Range(Amount)
      /\ external' \in [Entries -> Refs]
  BY <1>1, <1>4, <1>6, <1>7, NewEntry DEF TypeInv
<1>10. reconciled' \subseteq Entries /\ stored' \subseteq Files
  BY <1>1 DEF TypeInv, RowTypes
<1> QED BY <1>2, <1>8, <1>9, <1>10 DEF TypeInv, RowTypes

LEMMA FailTypes ==
  ASSUME TypeInv, NEW w \in Workers, Fail(w)
  PROVE  TypeInv'
<1> DEFINE l == Current(w)
           new == [line[l] EXCEPT !.status = "error"]
<1>1. /\ job[w].step \in AtLine
      /\ Put(l, new) \/ line' = line
      /\ Advance(w)
      /\ UNCHANGED <<stored, status, amount, external, reconciled>>
  BY DEF Fail, AtLine, entryVars
<1>2. job[w].step \in AtLine
  BY DEF Fail, AtLine
<1>3. JobTypes' /\ l \in Lines
  BY <1>1, <1>2, AdvanceTypes, CurrentLine DEF TypeInv
<1>4. new = [status |-> "error", entry |-> line[l].entry, dup |-> line[l].dup, by |-> line[l].by]
  <2>1. line[l] \in LineRecords
    BY <1>3, LineFields DEF TypeInv
  <2> QED BY <2>1, WithStatus
<1>5. new \in LineRecords /\ new.status # "none"
  BY <1>3, <1>4, LineFields DEF TypeInv, LineRecords
<1> HIDE DEF new, l
<1>6. CASE Put(l, new)
  BY <1>1, <1>3, <1>5, <1>6, PutRow DEF TypeInv, RowTypes
<1>7. CASE line' = line
  BY <1>1, <1>3, <1>7, RowsStay
<1> QED BY <1>1, <1>6, <1>7

LEMMA SkipTypes ==
  ASSUME TypeInv, NEW w \in Workers, Skip(w)
  PROVE  TypeInv'
<1> DEFINE l == Current(w)
           s == IF job[w].op = "skip" THEN "skipped" ELSE "unmatched"
           new == [line[l] EXCEPT !.status = s]
<1>1. /\ job[w].step \in AtLine /\ Put(l, new) /\ Advance(w)
      /\ UNCHANGED <<stored, status, amount, external, reconciled>>
  BY DEF Skip, Doing, AtLine, entryVars
<1>2. JobTypes' /\ l \in Lines
  BY <1>1, AdvanceTypes, CurrentLine DEF TypeInv
<1>3. s \in {"skipped", "unmatched"}
  OBVIOUS
<1> HIDE DEF s
<1>4. new = [status |-> s, entry |-> line[l].entry, dup |-> line[l].dup, by |-> line[l].by]
  <2>1. line[l] \in LineRecords
    BY <1>2, LineFields DEF TypeInv
  <2> QED BY <2>1, WithStatus
<1>5. new \in LineRecords /\ new.status # "none"
  BY <1>2, <1>3, <1>4, LineFields DEF TypeInv, LineRecords
<1> HIDE DEF new, l
<1> QED BY <1>1, <1>2, <1>5, PutRow DEF TypeInv, RowTypes

LEMMA CaptureTypes ==
  ASSUME TypeInv, NEW w \in Workers, NEW e \in Entries, NEW a \in Range(Amount), NEW posted \in BOOLEAN,
         Capture(w, e, a, posted)
  PROVE  TypeInv'
<1> DEFINE s == IF posted THEN "posted" ELSE "draft"
<1>1. /\ status' = [status EXCEPT ![e] = s] /\ amount' = [amount EXCEPT ![e] = a]
      /\ external' = [external EXCEPT ![e] = NoRef]
      /\ UNCHANGED <<stored, line, reconciled, job>>
  BY DEF Capture
<1>2. s \in {"draft", "posted"}
  OBVIOUS
<1> HIDE DEF s
<1>3. /\ status' \in [Entries -> {"none", "draft", "posted", "void"}] /\ DOMAIN amount' = Entries
      /\ \A x \in Entries : IF status'[x] = "none" THEN amount'[x] = Nothing ELSE amount'[x] \in Range(Amount)
      /\ external' \in [Entries -> Refs]
  BY <1>1, <1>2, NoReference, NewEntry DEF TypeInv
<1> QED BY <1>1, <1>3 DEF TypeInv, RowTypes, JobTypes, Present

LEMMA PostTypes ==
  ASSUME TypeInv, NEW w \in Workers, NEW e \in Entries, Post(w, e)
  PROVE  TypeInv'
<1>1. /\ status[e] = "draft" /\ status' = [status EXCEPT ![e] = "posted"]
      /\ UNCHANGED <<stored, line, amount, external, reconciled, job>>
  BY DEF Post
<1>2. /\ status' \in [Entries -> {"none", "draft", "posted", "void"}]
      /\ \A x \in Entries : status'[x] = "none" <=> status[x] = "none"
  BY <1>1 DEF TypeInv, RowTypes
<1> QED BY <1>1, <1>2 DEF TypeInv, RowTypes, JobTypes, Present

LEMMA VoidTypes ==
  ASSUME TypeInv, NEW w \in Workers, NEW e \in Entries, Void(w, e)
  PROVE  TypeInv'
<1>1. /\ status[e] = "posted" /\ status' = [status EXCEPT ![e] = "void"] /\ ReleaseLines(e)
      /\ UNCHANGED <<stored, amount, external, reconciled, job>>
  BY DEF Void
<1>2. /\ status' \in [Entries -> {"none", "draft", "posted", "void"}]
      /\ \A x \in Entries : status'[x] = "none" <=> status[x] = "none"
  BY <1>1 DEF TypeInv, RowTypes
<1>3. /\ line' \in [Lines -> LineRecords]
      /\ \A k \in Lines : IF k \in Present' THEN line'[k].status # "none" ELSE line'[k] = NoLine
  BY <1>1, ReleasedRows DEF TypeInv
<1> QED BY <1>1, <1>2, <1>3 DEF TypeInv, RowTypes, JobTypes

LEMMA DeleteTypes ==
  ASSUME TypeInv, NEW w \in Workers, Delete(w)
  PROVE  TypeInv'
<1> DEFINE e == job[w].found
<1>1. /\ e \in Entries /\ Erase({e}) /\ ReleaseLines(e) /\ reconciled' = reconciled \ {e}
      /\ job' = [job EXCEPT ![w] = Idle] /\ UNCHANGED stored
  BY DEF Delete, Doing, TypeInv, JobTypes
<1> HIDE DEF e
<1>2. JobTypes'
  BY <1>1, IdleTypes DEF TypeInv
<1>3. /\ line' \in [Lines -> LineRecords]
      /\ \A k \in Lines : IF k \in Present' THEN line'[k].status # "none" ELSE line'[k] = NoLine
  BY <1>1, ReleasedRows DEF TypeInv
<1>4. /\ status' \in [Entries -> {"none", "draft", "posted", "void"}]
      /\ \A x \in Entries : IF status'[x] = "none" THEN amount'[x] = Nothing ELSE amount'[x] \in Range(Amount)
      /\ external' \in [Entries -> Refs] /\ DOMAIN amount' = Entries
  BY <1>1, ErasedRows DEF TypeInv
<1> QED BY <1>1, <1>2, <1>3, <1>4 DEF TypeInv, RowTypes

LEMMA CommitRollbackTypes ==
  ASSUME TypeInv, NEW w \in Workers, CommitRollback(w)
  PROVE  TypeInv'
<1> DEFINE f == Current(w)[1]
           created == EntriesAs("created", job[w].found)
<1>1. /\ created \subseteq Entries /\ Erase(created) /\ reconciled' \subseteq reconciled
      /\ stored' = stored \ {f} /\ Cascade(f) /\ job' = [job EXCEPT ![w] = Idle]
  BY DEF CommitRollback
<1> HIDE DEF f, created
<1>2. JobTypes'
  BY <1>1, IdleTypes DEF TypeInv
<1>3. /\ status' \in [Entries -> {"none", "draft", "posted", "void"}]
      /\ \A x \in Entries : IF status'[x] = "none" THEN amount'[x] = Nothing ELSE amount'[x] \in Range(Amount)
      /\ external' \in [Entries -> Refs] /\ DOMAIN amount' = Entries
  BY <1>1, ErasedRows DEF TypeInv
<1>4. line' = [l \in Lines |-> IF l[1] = f THEN NoLine ELSE line[l]]
  BY <1>1 DEF Cascade
<1>5. line' \in [Lines -> LineRecords]
  <2>1. NoLine \in LineRecords
    BY DEF NoLine, LineRecords
  <2> QED BY <1>4, <2>1 DEF TypeInv, RowTypes
<1>6. \A k \in Lines : IF k \in Present' THEN line'[k].status # "none" ELSE line'[k] = NoLine
  <2>1. ASSUME NEW k \in Lines
        PROVE  IF k \in Present' THEN line'[k].status # "none" ELSE line'[k] = NoLine
    <3>1. CASE k[1] = f
      BY <1>1, <1>4, <3>1 DEF Present
    <3>2. CASE k[1] # f
      BY <1>1, <1>4, <3>2 DEF Present, TypeInv, RowTypes
    <3> QED BY <3>1, <3>2
  <2> QED BY <2>1
<1> QED BY <1>1, <1>2, <1>3, <1>5, <1>6 DEF TypeInv, RowTypes

LEMMA NextTypes == TypeInv /\ [Next]_vars => TypeInv'
<1> SUFFICES ASSUME TypeInv, [Next]_vars
             PROVE  TypeInv'
  OBVIOUS
<1>1. ASSUME NEW w \in Workers, Operate(w) \/ RunRules(w)
      PROVE  TypeInv'
  <2>1. ASSUME NEW f \in Files, Import(w, f) \/ Retry(w, f) \/ Rollback(w, f)
        PROVE  TypeInv'
    BY <2>1, ImportTypes, RetryTypes, RollbackTypes
  <2>2. CASE ProcessLine(w)
    BY <2>2, LookTypes, MarkTypes, AttachTypes, DraftTypes DEF ProcessLine, Complete
  <2>3. CASE ByHand(w)
    BY <2>3, ByHandTypes, SkipTypes, PostTypes, VoidTypes, DeleteDraftTypes, CaptureTypes, DeleteTypes DEF ByHand
  <2> QED BY <1>1, <2>1, <2>2, <2>3, FailTypes, CrashTypes, CommitRollbackTypes, RunRulesTypes DEF Operate
<1>2. CASE UNCHANGED vars
  BY <1>2 DEF vars, entryVars, TypeInv, RowTypes, JobTypes, Present
<1> QED BY <1>1, <1>2 DEF Next


(***************************************************************************)
(* What the steps that change rows do to them                              *)
(***************************************************************************)

LEMMA AttachRows ==
  ASSUME TypeInv, NEW w \in Workers, Attach(w)
  PROVE  LET l == Current(w)
             e == job[w].found
         IN  /\ l \in Lines /\ e \in Live /\ job[w].step = "attach" /\ Advance(w)
             /\ e \in reconciled => \A k \in Lines \ {l} : line[k].entry # e
             /\ Live' = Live /\ Present' = Present /\ reconciled' = reconciled \cup {e}
             /\ \A x \in Entries : status'[x] = "none" <=> status[x] = "none"
             /\ \A k \in Lines \ {l} : line'[k] = line[k]
             /\ l \in Present =>
                  line'[l] = [status |-> "matched", entry |-> e, dup |-> line[l].dup, by |-> Booker(w)]
             /\ l \notin Present => line' = line
<1> DEFINE l == Current(w)
           e == job[w].found
           new == [line[l] EXCEPT !.status = "matched", !.entry = e, !.by = Booker(w)]
<1>1. /\ job[w].step = "attach" /\ Attachable(e, l) /\ Put(l, new) /\ Advance(w)
      /\ status' = [status EXCEPT ![e] = "posted"] /\ reconciled' = reconciled \cup {e}
      /\ UNCHANGED stored
  BY DEF Attach, Doing
<1>2. l \in Lines
  BY <1>1, CurrentLine DEF TypeInv, AtLine
<1>3. new = [status |-> "matched", entry |-> e, dup |-> line[l].dup, by |-> Booker(w)]
  <2>1. line[l] \in LineRecords
    BY <1>2, LineFields DEF TypeInv
  <2> QED BY <2>1, WithEntry
<1>4. e \in Live /\ (e \in reconciled => \A k \in Lines \ {l} : line[k].entry # e)
  BY <1>1 DEF Attachable
<1>5. new \in LineRecords /\ new.status # "none"
  <2>1. Booker(w) \in {"import", "rules", "person"}
    BY DEF Booker
  <2> QED BY <1>2, <1>3, <1>4, <2>1, LineFields DEF TypeInv, LineRecords, Live
<1> HIDE DEF new, l, e
<1>6. Live' = Live
  BY <1>1, <1>4 DEF Live, TypeInv, RowTypes
<1>7. \A x \in Entries : status'[x] = "none" <=> status[x] = "none"
  BY <1>1, <1>4 DEF Live, TypeInv, RowTypes
<1>8. /\ Present' = Present /\ \A k \in Lines \ {l} : line'[k] = line[k]
      /\ l \in Present => line'[l] = new
      /\ l \notin Present => line' = line
  BY <1>1, <1>2, <1>5, PutRow DEF TypeInv
<1> QED BY <1>1, <1>2, <1>3, <1>4, <1>6, <1>7, <1>8 DEF l, e

LEMMA DraftRows ==
  ASSUME TypeInv, NEW w \in Workers, NEW e \in Entries, NEW posted \in BOOLEAN, Draft(w, e, posted)
  PROVE  LET l == Current(w)
         IN  /\ l \in Lines /\ e \in Free /\ job[w].step = "draft" /\ Advance(w)
             /\ Live' = Live \cup {e} /\ Present' = Present /\ reconciled' = reconciled \cup {e}
             /\ \A x \in Entries \ {e} : status'[x] = status[x]
             /\ \A k \in Lines \ {l} : line'[k] = line[k]
             /\ l \in Present =>
                  line'[l] = [status |-> "created", entry |-> e, dup |-> line[l].dup, by |-> Booker(w)]
             /\ l \notin Present => line' = line
<1> DEFINE l == Current(w)
           s == IF posted THEN "posted" ELSE "draft"
           new == [line[l] EXCEPT !.status = "created", !.entry = e, !.by = Booker(w)]
<1>1. /\ job[w].step = "draft" /\ e \in Free /\ Put(l, new) /\ Advance(w)
      /\ status' = [status EXCEPT ![e] = s] /\ reconciled' = reconciled \cup {e}
      /\ UNCHANGED stored
  BY DEF Draft, Doing
<1>2. l \in Lines
  BY <1>1, CurrentLine DEF TypeInv, AtLine
<1>3. new = [status |-> "created", entry |-> e, dup |-> line[l].dup, by |-> Booker(w)]
  <2>1. line[l] \in LineRecords
    BY <1>2, LineFields DEF TypeInv
  <2> QED BY <2>1, WithEntry
<1>4. new \in LineRecords /\ new.status # "none"
  <2>1. Booker(w) \in {"import", "rules", "person"}
    BY DEF Booker
  <2> QED BY <1>2, <1>3, <2>1, LineFields DEF TypeInv, LineRecords
<1>5. s \in {"draft", "posted"}
  OBVIOUS
<1> HIDE DEF new, l, s
<1>6. Live' = Live \cup {e} /\ \A x \in Entries \ {e} : status'[x] = status[x]
  BY <1>1, <1>5 DEF Live, TypeInv, RowTypes
<1>7. /\ Present' = Present /\ \A k \in Lines \ {l} : line'[k] = line[k]
      /\ l \in Present => line'[l] = new
      /\ l \notin Present => line' = line
  BY <1>1, <1>2, <1>4, PutRow DEF TypeInv
<1> QED BY <1>1, <1>2, <1>3, <1>6, <1>7 DEF l

(* MarkDuplicate, Fail and Skip leave the line the evidence that it is. *)
LEMMA StatusRows ==
  ASSUME TypeInv, NEW w \in Workers, MarkDuplicate(w) \/ Fail(w) \/ Skip(w)
  PROVE  LET l == Current(w)
         IN  /\ l \in Lines /\ job[w].step \in {"duplicate", "attach", "draft", "skip"} /\ Advance(w)
             /\ UNCHANGED <<status, reconciled>> /\ Present' = Present
             /\ \A k \in Lines \ {l} : line'[k] = line[k]
             /\ line'[l].entry = line[l].entry /\ line'[l].by = line[l].by
             /\ \/ line'[l] = line[l]
                \/ /\ l \in Present /\ line'[l].dup = line[l].dup
                   /\ line'[l].status \in {"error", "skipped", "unmatched"}
                \/ /\ MarkDuplicate(w) /\ l \in Present
                   /\ line'[l].status = "duplicate" /\ line'[l].dup = job[w].found
<1> DEFINE l == Current(w)
<1>1. /\ job[w].step \in {"duplicate", "attach", "draft", "skip"} /\ Advance(w)
      /\ UNCHANGED <<stored, status, reconciled>>
  BY DEF MarkDuplicate, Fail, Skip, Doing, entryVars
<1>2. l \in Lines
  BY <1>1, CurrentLine DEF TypeInv, AtLine
<1>3. line[l] \in LineRecords
  BY <1>2, LineFields DEF TypeInv
<1>4. CASE MarkDuplicate(w)
  <2> DEFINE new == [line[l] EXCEPT !.status = "duplicate", !.dup = job[w].found]
  <2>1. Put(l, new) /\ job[w].found \in Present
    BY <1>4 DEF MarkDuplicate
  <2>2. new = [status |-> "duplicate", entry |-> line[l].entry, dup |-> job[w].found, by |-> line[l].by]
    BY <1>3, WithDuplicate
  <2>3. new \in LineRecords /\ new.status # "none"
    BY <1>3, <2>1, <2>2 DEF LineRecords, Present
  <2> HIDE DEF new, l
  <2>4. /\ Present' = Present /\ \A k \in Lines \ {l} : line'[k] = line[k]
        /\ l \in Present => line'[l] = new
        /\ l \notin Present => line' = line
    BY <1>1, <1>2, <2>1, <2>3, PutRow DEF TypeInv
  <2> QED BY <1>1, <1>2, <1>4, <2>2, <2>4 DEF l
<1>5. ASSUME NEW s \in {"error", "skipped", "unmatched"}, Put(l, [line[l] EXCEPT !.status = s])
      PROVE  /\ Present' = Present /\ \A k \in Lines \ {l} : line'[k] = line[k]
             /\ line'[l].entry = line[l].entry /\ line'[l].by = line[l].by
             /\ \/ line'[l] = line[l]
                \/ l \in Present /\ line'[l].dup = line[l].dup /\ line'[l].status \in {"error", "skipped", "unmatched"}
  <2> DEFINE new == [line[l] EXCEPT !.status = s]
  <2>1. new = [status |-> s, entry |-> line[l].entry, dup |-> line[l].dup, by |-> line[l].by]
    BY <1>3, WithStatus
  <2>2. new \in LineRecords /\ new.status # "none" /\ Put(l, new)
    BY <1>3, <1>5, <2>1 DEF LineRecords
  <2> HIDE DEF new, l
  <2>3. /\ Present' = Present /\ \A k \in Lines \ {l} : line'[k] = line[k]
        /\ l \in Present => line'[l] = new
        /\ l \notin Present => line' = line
    BY <1>1, <1>2, <2>2, PutRow DEF TypeInv
  <2> QED BY <1>2, <2>1, <2>3
<1>6. CASE Skip(w)
  <2>1. PICK s \in {"error", "skipped", "unmatched"} : Put(l, [line[l] EXCEPT !.status = s])
    BY <1>6 DEF Skip
  <2> QED BY <1>1, <1>2, <1>5, <2>1
<1>7. CASE Fail(w)
  <2>1. CASE line' = line
    BY <1>1, <1>2, <2>1 DEF Present
  <2>2. CASE Put(l, [line[l] EXCEPT !.status = "error"])
    BY <1>1, <1>2, <1>5, <2>2
  <2> QED BY <1>7, <2>1, <2>2 DEF Fail
<1> QED BY <1>4, <1>6, <1>7

(* Void and Delete end an entry and release its lines. *)
LEMMA EndRows ==
  ASSUME TypeInv, NEW w \in Workers, NEW e \in Entries, Void(w, e) \/ (Delete(w) /\ e = job[w].found)
  PROVE  /\ Live' = Live \ {e} /\ Present' = Present
         /\ reconciled' \subseteq reconciled /\ \A x \in reconciled : x \in reconciled' \/ x = e
         /\ \A x \in Entries \ {e} : status'[x] = status[x]
         /\ status'[e] = "none" => e \notin reconciled'
         /\ \A k \in Lines : line[k].entry # e => line'[k] = line[k]
         /\ \A k \in Lines : line[k].entry = e =>
              /\ line'[k].status = "unmatched" /\ line'[k].entry = Nothing
              /\ line'[k].by = Nothing /\ line'[k].dup = line[k].dup
<1>1. ReleaseLines(e) /\ UNCHANGED stored
  BY DEF Void, Delete
<1>2. CASE Void(w, e)
  <2>1. status' = [status EXCEPT ![e] = "void"] /\ reconciled' = reconciled
    BY <1>2 DEF Void
  <2>2. status'[e] = "void" /\ \A x \in Entries \ {e} : status'[x] = status[x]
    BY <2>1 DEF TypeInv, RowTypes
  <2>3. Live' = Live \ {e}
    BY <2>2 DEF Live
  <2> QED BY <1>1, <2>1, <2>2, <2>3, ReleasedRows DEF TypeInv
<1>3. CASE Delete(w) /\ e = job[w].found
  <2>1. Erase({e}) /\ reconciled' = reconciled \ {e}
    BY <1>3 DEF Delete
  <2>2. status'[e] = "none" /\ \A x \in Entries \ {e} : status'[x] = status[x]
    BY <2>1, ErasedRows DEF TypeInv
  <2>3. Live' = Live \ {e}
    BY <2>2 DEF Live
  <2> QED BY <1>1, <2>1, <2>2, <2>3, ReleasedRows DEF TypeInv
<1> QED BY <1>2, <1>3

(* Capture and Post: the lines stay, and no live entry is lost. *)
LEMMA JournalRows ==
  ASSUME TypeInv, NEW w \in Workers, NEW e \in Entries,
         Post(w, e) \/ \E a \in Range(Amount), posted \in BOOLEAN : Capture(w, e, a, posted)
  PROVE  /\ Live \subseteq Live' /\ Live' \subseteq Live \cup {e}
         /\ e \in Live \/ e \in Free
         /\ \A x \in Entries : status'[x] = "none" => status[x] = "none"
         /\ UNCHANGED <<stored, line, reconciled, job>> /\ job[w] = Idle
<1>1. PICK s \in {"draft", "posted"} : status' = [status EXCEPT ![e] = s]
  BY DEF Post, Capture
<1>2. status'[e] = s /\ \A x \in Entries \ {e} : status'[x] = status[x]
  BY <1>1 DEF TypeInv, RowTypes
<1>3. e \in Live \/ e \in Free
  BY DEF Post, Capture, Live, Free
<1> QED BY <1>2, <1>3 DEF Live, Post, Capture

LEMMA ImportRows ==
  ASSUME TypeInv, NEW w \in Workers, NEW f \in Files, Import(w, f)
  PROVE  /\ UNCHANGED <<status, reconciled>> /\ Live' = Live
         /\ Present \subseteq Present' /\ \A l \in Lines : l \in Present' <=> l \in Present \/ l[1] = f
         /\ \A l \in Lines : l[1] # f => line'[l] = line[l]
         /\ \A l \in Lines : l[1] = f =>
              /\ l \notin Present /\ line[l] = NoLine
              /\ line'[l] = [status |-> "unmatched", entry |-> Nothing, dup |-> Nothing, by |-> Nothing]
<1>1. /\ f \notin stored /\ stored' = stored \cup {f}
      /\ line' = [l \in Lines |-> IF l[1] = f THEN [NoLine EXCEPT !.status = "unmatched"] ELSE line[l]]
      /\ UNCHANGED <<status, reconciled>>
  BY DEF Import, entryVars
<1>2. [NoLine EXCEPT !.status = "unmatched"] = [status |-> "unmatched", entry |-> Nothing, dup |-> Nothing, by |-> Nothing]
  BY DEF NoLine
<1>3. \A l \in Lines : l[1] = f => l \notin Present /\ line[l] = NoLine
  BY <1>1 DEF Present, TypeInv, RowTypes
<1>4. \A l \in Lines : l \in Present' <=> l \in Present \/ l[1] = f
  BY <1>1 DEF Present
<1>5. Live' = Live /\ Present \subseteq Present'
  BY <1>1 DEF Present, Live
<1> QED BY <1>1, <1>2, <1>3, <1>4, <1>5

(* The steps that only change a job. *)
JobOnly(w) ==
  \/ \E f \in Files : Retry(w, f) \/ Rollback(w, f)
  \/ CheckReference(w) \/ CheckFingerprint(w) \/ FindMatch(w) \/ Crash(w) \/ RunRules(w)
  \/ \E l \in Lines : SkipOrNot(w, l) \/ CreateByHand(w, l) \/ \E e \in Entries : MatchByHand(w, l, e)
  \/ \E e \in Entries : DeleteDraft(w, e)

LEMMA JobOnlyRows ==
  ASSUME NEW w \in Workers, JobOnly(w)
  PROVE  UNCHANGED <<stored, line, status, amount, external, reconciled>>
BY DEF JobOnly, Retry, Rollback, CheckReference, CheckFingerprint, FindMatch, Crash, RunRules,
  SkipOrNot, CreateByHand, MatchByHand, DeleteDraft, entryVars


(***************************************************************************)
(* Any number of processes: one line of an entry                           *)
(***************************************************************************)

LEMMA EvidenceStays ==
  ASSUME Evidence, OneLinePerEntry,
         \A k \in Lines : line'[k].entry = line[k].entry \/ line'[k].entry = Nothing,
         \A e \in Live \cap reconciled : e \in Live' \cap reconciled' \/ \A k \in Lines : line'[k].entry # e
  PROVE  Evidence' /\ OneLinePerEntry'
<1>1. Evidence'
  BY DEF Evidence
<1>2. OneLinePerEntry'
  BY DEF OneLinePerEntry
<1> QED BY <1>1, <1>2

LEMMA EvidenceGrows ==
  ASSUME TypeInv, Evidence, OneLinePerEntry, NEW l \in Lines, NEW e \in Entries,
         \A k \in Lines \ {l} : line'[k] = line[k],
         line' = line \/ line'[l].entry = e,
         \A k \in Lines \ {l} : line[k].entry # e,
         Live \subseteq Live', reconciled \subseteq reconciled', e \in Live' \cap reconciled'
  PROVE  Evidence' /\ OneLinePerEntry'
<1>1. CASE line' = line
  BY <1>1 DEF Evidence, OneLinePerEntry
<1>2. CASE line'[l].entry = e
  <2>1. Evidence'
    BY <1>2 DEF Evidence
  <2>2. OneLinePerEntry'
    BY <1>2 DEF OneLinePerEntry
  <2> QED BY <2>1, <2>2
<1> QED BY <1>1, <1>2

LEMMA AttachEvidence ==
  ASSUME TypeInv, Evidence, OneLinePerEntry, NEW w \in Workers, Attach(w)
  PROVE  Evidence' /\ OneLinePerEntry'
<1> DEFINE l == Current(w)
           e == job[w].found
<1>1. /\ l \in Lines /\ e \in Live /\ e \in Entries
      /\ e \in reconciled => \A k \in Lines \ {l} : line[k].entry # e
      /\ Live' = Live /\ reconciled' = reconciled \cup {e}
      /\ \A k \in Lines \ {l} : line'[k] = line[k]
      /\ l \notin Present => line' = line
      /\ l \in Present => line'[l] = [status |-> "matched", entry |-> e, dup |-> line[l].dup, by |-> Booker(w)]
  BY AttachRows DEF Live
<1> HIDE DEF l, e
<1>2. \A k \in Lines \ {l} : line[k].entry # e
  BY <1>1, NothingIsNoRow DEF Evidence
<1>3. line' = line \/ line'[l].entry = e
  BY <1>1
<1> QED BY <1>1, <1>2, <1>3, EvidenceGrows

LEMMA DraftEvidence ==
  ASSUME TypeInv, Evidence, OneLinePerEntry, NEW w \in Workers, NEW e \in Entries, NEW posted \in BOOLEAN,
         Draft(w, e, posted)
  PROVE  Evidence' /\ OneLinePerEntry'
<1> DEFINE l == Current(w)
<1>1. /\ l \in Lines /\ e \in Free
      /\ Live' = Live \cup {e} /\ reconciled' = reconciled \cup {e}
      /\ \A k \in Lines \ {l} : line'[k] = line[k]
      /\ l \notin Present => line' = line
      /\ l \in Present => line'[l] = [status |-> "created", entry |-> e, dup |-> line[l].dup, by |-> Booker(w)]
  BY DraftRows
<1> HIDE DEF l
<1>2. \A k \in Lines : line[k].entry # e
  BY <1>1, NothingIsNoRow DEF Evidence, Free, Live
<1>3. line' = line \/ line'[l].entry = e
  BY <1>1
<1> QED BY <1>1, <1>2, <1>3, EvidenceGrows

LEMMA OtherEvidence ==
  ASSUME TypeInv, Evidence, OneLinePerEntry, NEW w \in Workers,
         \/ JobOnly(w) \/ MarkDuplicate(w) \/ Fail(w) \/ Skip(w) \/ Delete(w)
         \/ \E f \in Files : Import(w, f)
         \/ \E e \in Entries : Post(w, e) \/ Void(w, e)
         \/ \E e \in Entries, a \in Range(Amount), posted \in BOOLEAN : Capture(w, e, a, posted)
  PROVE  Evidence' /\ OneLinePerEntry'
<1>1. CASE JobOnly(w)
  BY <1>1, JobOnlyRows DEF Evidence, OneLinePerEntry, Live
<1>2. CASE MarkDuplicate(w) \/ Fail(w) \/ Skip(w)
  <2>1. \A k \in Lines : line'[k].entry = line[k].entry
    BY <1>2, StatusRows
  <2>2. Live' = Live /\ reconciled' = reconciled
    BY <1>2, StatusRows DEF Live
  <2> QED BY <2>1, <2>2, EvidenceStays
<1>3. ASSUME NEW f \in Files, Import(w, f)
      PROVE  Evidence' /\ OneLinePerEntry'
  <2>1. \A k \in Lines : line'[k].entry = line[k].entry \/ line'[k].entry = Nothing
    BY <1>3, ImportRows
  <2>2. Live' = Live /\ reconciled' = reconciled
    BY <1>3, ImportRows
  <2> QED BY <2>1, <2>2, EvidenceStays
<1>4. ASSUME NEW e \in Entries, Void(w, e) \/ (Delete(w) /\ e = job[w].found)
      PROVE  Evidence' /\ OneLinePerEntry'
  <2>1. /\ Live' = Live \ {e} /\ \A x \in reconciled : x \in reconciled' \/ x = e
        /\ \A k \in Lines : IF line[k].entry = e THEN line'[k].entry = Nothing ELSE line'[k] = line[k]
    BY <1>4, EndRows
  <2>2. \A k \in Lines : line'[k].entry # e /\ (line'[k].entry = line[k].entry \/ line'[k].entry = Nothing)
    BY <2>1, NothingIsNoRow
  <2> QED BY <2>1, <2>2, EvidenceStays
<1>5. ASSUME NEW e \in Entries, Post(w, e) \/ \E a \in Range(Amount), posted \in BOOLEAN : Capture(w, e, a, posted)
      PROVE  Evidence' /\ OneLinePerEntry'
  <2>1. Live \subseteq Live' /\ line' = line /\ reconciled' = reconciled
    BY <1>5, JournalRows
  <2> QED BY <2>1, EvidenceStays
<1>6. Delete(w) => job[w].found \in Entries
  BY DEF Delete, Doing, TypeInv, JobTypes
<1> QED BY <1>1, <1>2, <1>3, <1>4, <1>5, <1>6

(* What processes do beside one another, except the commit of a rollback. *)
Undisturbed(w) ==
  \/ JobOnly(w) \/ Complete(w) \/ Fail(w) \/ Skip(w) \/ Delete(w)
  \/ \E f \in Files : Import(w, f)
  \/ \E e \in Entries : Post(w, e) \/ Void(w, e)
  \/ \E e \in Entries, a \in Range(Amount), posted \in BOOLEAN : Capture(w, e, a, posted)

LEMMA OperateSplits ==
  ASSUME NEW w \in Workers
  PROVE  (Operate(w) \/ RunRules(w)) <=> (Undisturbed(w) \/ CommitRollback(w))
BY DEF Operate, Undisturbed, JobOnly, ProcessLine, ByHand

LEMMA UndisturbedEvidence ==
  ASSUME TypeInv, Evidence, OneLinePerEntry, NEW w \in Workers, Undisturbed(w)
  PROVE  Evidence' /\ OneLinePerEntry'
<1>1. CASE Complete(w)
  BY <1>1, OtherEvidence, AttachEvidence, DraftEvidence DEF Complete
<1> QED BY <1>1, OtherEvidence DEF Undisturbed

OneEach == TypeInv /\ Evidence /\ OneLinePerEntry

LEMMA OneEachInit == Init => OneEach
BY InitTypes DEF Init, NoLine, Evidence, OneLinePerEntry, OneEach

LEMMA OneEachNext == OneEach /\ [\E w \in Workers : Undisturbed(w)]_vars => OneEach'
<1> SUFFICES ASSUME OneEach, [\E w \in Workers : Undisturbed(w)]_vars
             PROVE  OneEach'
  OBVIOUS
<1>1. ASSUME NEW w \in Workers, Undisturbed(w)
      PROVE  OneEach'
  <2>1. TypeInv'
    BY <1>1, OperateSplits, NextTypes DEF Next, OneEach
  <2> QED BY <1>1, <2>1, UndisturbedEvidence DEF OneEach
<1>2. CASE UNCHANGED vars
  <2>1. TypeInv'
    BY <1>2, NextTypes DEF OneEach
  <2> QED BY <1>2, <2>1 DEF vars, entryVars, Evidence, OneLinePerEntry, Live, OneEach
<1> QED BY <1>1, <1>2

LEMMA CompeteUndisturbed ==
  ASSUME NEW w \in Workers, Compete(w)
  PROVE  Undisturbed(w)
BY DEF Compete, Undisturbed, JobOnly, ProcessLine

(* Whoever attaches, an entry has one line at most, for any number of processes that
   import, retry, match, draft, capture, void and delete at once: what attach looks at
   inside of its transaction is enough (attach_in_transaction).  Left out is the commit
   of a rollback, which believes what it read before. *)
THEOREM OneLineBeside ==
  Init /\ [][\E w \in Workers : Undisturbed(w)]_vars => []OneLinePerEntry
<1>1. OneEach => OneLinePerEntry
  BY DEF OneEach
<1> QED BY <1>1, OneEachInit, OneEachNext, PTL

(* Every variable keeps its type, for any number of processes, and a line has a status
   exactly while its file is stored. *)
THEOREM TypeCorrect == Spec => []TypeOK
<1>1. TypeInv => TypeOK
  <2> SUFFICES ASSUME TypeInv
               PROVE  TypeOK
    OBVIOUS
  <2>1. \A l \in Lines : line[l].status = "none" <=> l \notin Present
    BY DEF TypeInv, RowTypes, NoLine
  <2>2. \A w \in Workers : Range(job[w].todo) \subseteq Lines
    BY RangeOfSeq DEF TypeInv, JobTypes
  <2> QED BY <2>1, <2>2 DEF TypeInv, RowTypes, TypeOK
<1> QED BY <1>1, InitTypes, NextTypes, PTL DEF Spec


(***************************************************************************)
(* One process: what a job read is still so                                *)
(***************************************************************************)

LEMMA IdleFits ==
  ASSUME NEW w \in Workers, \A v \in Workers : v = w, job'[w].step \in {"none", "delete"}
  PROVE  JobFits'
BY DEF JobFits, Fresh, Known, ReadIsSo, AtLine

LEMMA AdvanceFits ==
  ASSUME TypeInv, NEW w \in Workers, \A v \in Workers : v = w,
         Fresh(w), job[w].step \in AtLine \ {"rollback"}, Advance(w), Present' = Present,
         \A k \in Lines \ {Current(w)} : line'[k] = line[k]
  PROVE  JobFits'
<1> DEFINE todo == job[w].todo
<1>1. \/ job'[w] = Idle
      \/ job'[w].todo = Tail(todo) /\ job'[w].step \in {"draft", "reference"}
  <2>1. JobTypes /\ job[w].step \in AtLine
    BY DEF TypeInv
  <2>2. \/ job'[w] = Idle
        \/ job'[w] = [op |-> job[w].op, todo |-> Tail(todo),
                      step |-> IF job[w].op = "rules" THEN "draft" ELSE "reference", found |-> Nothing]
    BY <2>1, AdvanceTypes
  <2> HIDE DEF todo
  <2> QED BY <2>2
<1>2. CASE job'[w] = Idle
  <2>1. job'[w].step = "none"
    BY <1>2 DEF Idle
  <2> QED BY <2>1, IdleFits
<1>3. CASE job'[w].todo = Tail(todo) /\ job'[w].step \in {"draft", "reference"}
  <2>1. /\ Len(todo) \in Nat \ {0} /\ Current(w) = todo[1] /\ Len(Tail(todo)) = Len(todo) - 1
        /\ \A i \in 1..Len(todo) - 1 : Tail(todo)[i] = todo[i + 1]
    BY CurrentLine DEF TypeInv
  <2>2. /\ \A i \in 1..Len(todo) : todo[i] \in Present /\ line[todo[i]].entry = Nothing
        /\ \A i, j \in 1..Len(todo) : todo[i] = todo[j] => i = j
    BY DEF Fresh
  <2> HIDE DEF todo
  <2>3. ASSUME NEW i \in 1..Len(Tail(todo))
        PROVE  Tail(todo)[i] \in Present' /\ line'[Tail(todo)[i]].entry = Nothing
    <3>1. i + 1 \in 1..Len(todo) /\ 1 \in 1..Len(todo) /\ i + 1 # 1 /\ Tail(todo)[i] = todo[i + 1]
      BY <2>1
    <3>2. todo[i + 1] # Current(w) /\ todo[i + 1] \in Present /\ todo[i + 1] \in Lines
      BY <2>1, <2>2, <3>1 DEF Present
    <3> QED BY <2>2, <3>1, <3>2
  <2>4. ASSUME NEW i \in 1..Len(Tail(todo)), NEW j \in 1..Len(Tail(todo)), Tail(todo)[i] = Tail(todo)[j]
        PROVE  i = j
    <3>1. i + 1 \in 1..Len(todo) /\ j + 1 \in 1..Len(todo) /\ todo[i + 1] = todo[j + 1]
      BY <2>1, <2>4
    <3> QED BY <2>2, <3>1
  <2>5. Fresh(w)'
    BY <1>3, <2>3, <2>4 DEF Fresh
  <2>6. Known(w)' /\ ReadIsSo(w)'
    BY <1>3 DEF Known, ReadIsSo
  <2> QED BY <2>5, <2>6 DEF JobFits
<1> QED BY <1>1, <1>2, <1>3

(* The line that a worker is at. *)
LEMMA CurrentIsFresh ==
  ASSUME TypeInv, NEW w \in Workers, Fresh(w), job[w].step \in AtLine \ {"rollback"}
  PROVE  Current(w) \in Present /\ Current(w) \in Lines /\ line[Current(w)].entry = Nothing
<1>1. Current(w) = job[w].todo[1] /\ 1 \in 1..Len(job[w].todo) /\ Current(w) \in Lines
  BY CurrentLine DEF TypeInv
<1> QED BY <1>1 DEF Fresh

LEMMA BeginFits ==
  ASSUME TypeInv, NEW w \in Workers, \A v \in Workers : v = w,
         UNCHANGED <<stored, line>>, NEW todo \in Seq(Lines),
         job'[w].todo = todo, job'[w].step \in AtLine \ {"rollback", "duplicate"},
         \A i \in 1..Len(todo) : todo[i] \in Present /\ line[todo[i]].entry = Nothing,
         \A i, j \in 1..Len(todo) : todo[i] = todo[j] => i = j
  PROVE  JobFits'
<1>1. Fresh(w)'
  BY DEF Fresh, Present
<1>2. Known(w)' /\ ReadIsSo(w)'
  BY DEF Known, ReadIsSo
<1> QED BY <1>1, <1>2 DEF JobFits

(* What Begin leaves. *)
LEMMA Begun ==
  ASSUME JobTypes, NEW w \in Workers, NEW op, NEW todo, NEW step, NEW found, Begin(w, op, todo, step, found)
  PROVE  /\ job[w] = Idle
         /\ job'[w].op = op /\ job'[w].todo = todo /\ job'[w].step = step /\ job'[w].found = found
BY DEF Begin, JobTypes

LEMMA JobOnlyFits ==
  ASSUME IInv, NEW w \in Workers, \A v \in Workers : v = w, JobOnly(w)
  PROVE  JobFits'
<1>1. /\ UNCHANGED <<stored, line, status, amount, external, reconciled>> /\ Present' = Present
      /\ TypeInv /\ JobTypes /\ TwoRecords /\ Fresh(w) /\ Known(w)
  BY JobOnlyRows DEF IInv, JobFits, TypeInv, Present
<1>2. ASSUME NEW f \in Files, Retry(w, f)
      PROVE  JobFits'
  <2> DEFINE S == {l \in Range(LinesOf(f)) : Unfinished(l)}
  <2>1. PICK todo \in InOrder(S) : todo # <<>> /\ Begin(w, "retry", todo, "reference", Nothing)
    BY <1>2 DEF Retry
  <2>2. S \in SUBSET Lines /\ \A l \in S : l \in Present /\ line[l].entry = Nothing
    BY <1>2, LinesOfFile DEF Unfinished, Retry, Present
  <2> HIDE DEF S
  <2>3. /\ todo \in Seq(Lines) /\ \A i \in 1..Len(todo) : todo[i] \in S
        /\ \A i, j \in 1..Len(todo) : todo[i] = todo[j] => i = j
    BY <2>2, <2>1, OrdersAre
  <2>4. job'[w].todo = todo /\ job'[w].step = "reference"
    BY <1>1, <2>1, Begun
  <2> QED BY <1>1, <2>2, <2>3, <2>4, BeginFits DEF AtLine
<1>3. CASE RunRules(w)
  <2>1. PICK S \in SUBSET {l \in Present : line[l].status = "unmatched"} :
          \E t \in Queue(S) : t # <<>> /\ Begin(w, "rules", t, "draft", Nothing)
    BY <1>3 DEF RunRules
  <2>2. PICK todo \in Queue(S) : todo # <<>> /\ Begin(w, "rules", todo, "draft", Nothing)
    BY <2>1
  <2>3. S \in SUBSET Lines /\ \A l \in S : l \in Present /\ line[l].entry = Nothing
    BY <1>1 DEF Present, TwoRecords, Held
  <2>4. /\ todo \in Seq(Lines) /\ \A i \in 1..Len(todo) : todo[i] \in S
        /\ \A i, j \in 1..Len(todo) : todo[i] = todo[j] => i = j
    BY <2>2, <2>3, OrdersAre
  <2>5. job'[w].todo = todo /\ job'[w].step = "draft"
    BY <1>1, <2>2, Begun
  <2> QED BY <1>1, <2>3, <2>4, <2>5, BeginFits DEF AtLine
<1>4. ASSUME NEW l \in Lines,
             SkipOrNot(w, l) \/ CreateByHand(w, l) \/ \E e \in Entries : MatchByHand(w, l, e)
      PROVE  JobFits'
  <2>1. l \in Present /\ line[l].entry = Nothing
    BY <1>1, <1>4 DEF SkipOrNot, CreateByHand, MatchByHand, TwoRecords
  <2>2. job'[w].todo = <<l>> /\ job'[w].step \in {"skip", "draft", "attach"}
    BY <1>1, <1>4, Begun DEF SkipOrNot, CreateByHand, MatchByHand
  <2>3. <<l>> \in Seq(Lines) /\ Len(<<l>>) = 1 /\ <<l>>[1] = l
    OBVIOUS
  <2>4. /\ \A i \in 1..Len(<<l>>) : <<l>>[i] \in Present /\ line[<<l>>[i]].entry = Nothing
        /\ \A i, j \in 1..Len(<<l>>) : <<l>>[i] = <<l>>[j] => i = j
    BY <2>1, <2>3
  <2> QED BY <1>1, <2>2, <2>3, <2>4, BeginFits DEF AtLine
<1>5. ASSUME NEW e \in Entries, DeleteDraft(w, e)
      PROVE  JobFits'
  <2>1. job'[w].step = "delete"
    BY <1>1, <1>5, Begun DEF DeleteDraft
  <2> QED BY <2>1, IdleFits
<1>6. CASE Crash(w)
  <2>1. job'[w].step = "none"
    BY <1>1, <1>6 DEF Crash, Idle, JobTypes
  <2> QED BY <2>1, IdleFits
<1>7. ASSUME NEW f \in Files, Rollback(w, f)
      PROVE  JobFits'
  <2>1. /\ f \in stored /\ job'[w].todo = LinesOf(f) /\ job'[w].step = "rollback"
        /\ job'[w].found = [l \in Range(LinesOf(f)) |-> line[l]]
    BY <1>1, <1>7, Begun DEF Rollback
  <2>2. ReadIsSo(w)'
    BY <1>1, <2>1 DEF ReadIsSo
  <2>3. Fresh(w)' /\ Known(w)'
    BY <2>1 DEF Fresh, Known
  <2> QED BY <2>2, <2>3 DEF JobFits
<1>8. CASE CheckReference(w) \/ CheckFingerprint(w) \/ FindMatch(w)
  <2>1. /\ job[w].step \in {"reference", "fingerprint", "match"}
        /\ job'[w].step \in {"duplicate", "attach", "match", "fingerprint", "draft"}
        /\ job'[w].todo = job[w].todo
    BY <1>1, <1>8, LookTypes DEF CheckReference, CheckFingerprint, FindMatch, Doing
  <2>2. Fresh(w)'
    BY <1>1, <2>1 DEF Fresh, AtLine
  <2>3. ReadIsSo(w)'
    BY <2>1 DEF ReadIsSo
  <2>4. Known(w)'
    <3>1. \A step, x : Decide(w, step, x) => job'[w].step = step /\ job'[w].found = x
      BY <1>1 DEF Decide, JobTypes
    <3>2. \A l \in Lines : AfterReference(l) # "duplicate"
      BY DEF AfterReference
    <3>3. Current(w) \in Lines
      BY <1>1, <2>1, CurrentLine DEF AtLine
    <3>4. job'[w].step = "duplicate" =>
            job'[w].found \in EarlierByReference(Current(w)) \cup EarlierByFingerprint(Current(w))
      BY <1>8, <3>1, <3>2, <3>3 DEF CheckReference, CheckFingerprint, FindMatch
    <3>5. job'[w].step = "duplicate" => job'[w].found \in Present /\ Held(job'[w].found)
      BY <3>4 DEF EarlierByReference, EarlierByFingerprint
    <3> QED BY <1>1, <3>5 DEF Known, Held
  <2> QED BY <2>2, <2>3, <2>4 DEF JobFits
<1> QED BY <1>2, <1>3, <1>4, <1>5, <1>6, <1>7, <1>8 DEF JobOnly

LEMMA LineDoneFits ==
  ASSUME IInv, NEW w \in Workers, \A v \in Workers : v = w, Complete(w) \/ Fail(w) \/ Skip(w)
  PROVE  JobFits'
<1>1. TypeInv /\ Fresh(w)
  BY DEF IInv, JobFits
<1>2. /\ job[w].step \in {"duplicate", "attach", "draft", "skip"} /\ Advance(w) /\ Present' = Present
      /\ \A k \in Lines \ {Current(w)} : line'[k] = line[k]
  <2>1. CASE Attach(w)
    BY <1>1, <2>1, AttachRows
  <2>2. ASSUME NEW e \in Entries, NEW posted \in BOOLEAN, Draft(w, e, posted)
        PROVE  <1>2!1 /\ <1>2!2
    BY <1>1, <2>2, DraftRows
  <2>3. CASE MarkDuplicate(w) \/ Fail(w) \/ Skip(w)
    BY <1>1, <2>3, StatusRows
  <2> QED BY <2>1, <2>2, <2>3 DEF Complete
<1> QED BY <1>1, <1>2, AdvanceFits DEF AtLine

LEMMA RestFits ==
  ASSUME IInv, NEW w \in Workers, \A v \in Workers : v = w,
         \/ Delete(w) \/ CommitRollback(w)
         \/ \E e \in Entries : Post(w, e) \/ Void(w, e)
         \/ \E e \in Entries, a \in Range(Amount), posted \in BOOLEAN : Capture(w, e, a, posted)
  PROVE  JobFits'
<1>1. \/ job' = [job EXCEPT ![w] = Idle]
      \/ job[w] = Idle /\ job' = job
  BY DEF Delete, CommitRollback, Post, Void, Capture
<1>2. job'[w] = Idle
  BY <1>1 DEF IInv, TypeInv, JobTypes
<1>3. job'[w].step = "none"
  BY <1>2 DEF Idle
<1> QED BY <1>3, IdleFits

LEMMA ImportFits ==
  ASSUME IInv, NEW w \in Workers, \A v \in Workers : v = w, NEW f \in Files, Import(w, f)
  PROVE  JobFits'
<1>1. TypeInv /\ JobTypes
  BY DEF IInv, TypeInv
<1>2. job'[w].todo = LinesOf(f) /\ job'[w].step = "reference"
  BY <1>1, Begun DEF Import
<1> DEFINE todo == LinesOf(f)
<1>3. todo \in Seq(Lines) /\ \A i \in 1..Len(todo) : todo[i] = <<f, i>>
  BY LinesOfFile
<1> HIDE DEF todo
<1>4. \A i \in 1..Len(todo) : todo[i] \in Lines /\ todo[i][1] = f
  BY <1>3
<1>5. \A i \in 1..Len(todo) : todo[i] \in Present' /\ line'[todo[i]].entry = Nothing
  BY <1>1, <1>4, ImportRows
<1>6. \A i, j \in 1..Len(todo) : todo[i] = todo[j] => i = j
  BY <1>3
<1>7. Fresh(w)'
  BY <1>2, <1>5, <1>6 DEF Fresh, todo
<1>8. Known(w)' /\ ReadIsSo(w)'
  BY <1>2 DEF Known, ReadIsSo
<1> QED BY <1>7, <1>8 DEF JobFits


(***************************************************************************)
(* One process: the records and the duplicates                             *)
(***************************************************************************)

Records == TwoRecords /\ DuplicatesPoint /\ NoRingOfDuplicates

(* No new duplicate, and what the others point to stays. *)
LEMMA NoNewDuplicate ==
  ASSUME NoRingOfDuplicates,
         \A k \in Lines : line'[k].status = "duplicate" =>
           line[k].status = "duplicate" /\ line'[k].dup = line[k].dup /\ line[k].dup \in Present'
  PROVE  NoRingOfDuplicates'
<1> DEFINE Dups == {l \in Lines : line[l].status = "duplicate"}
           Dups2 == {l \in Lines : line'[l].status = "duplicate"}
<1>1. \A l \in Dups2 : l \in Dups /\ line'[l].dup = line[l].dup /\ line'[l].dup \in Present'
  OBVIOUS
<1>2. \A S \in (SUBSET Dups) \ {{}} : \E l \in S : line[l].dup \notin S
  BY DEF NoRingOfDuplicates
<1>3. ASSUME NEW S \in (SUBSET Dups2) \ {{}}
      PROVE  \E l \in S : line'[l].dup \notin S
  <2>1. S \in (SUBSET Dups) \ {{}}
    BY <1>1
  <2>2. PICK l \in S : line[l].dup \notin S
    BY <1>2, <2>1
  <2> QED BY <1>1, <2>2
<1> QED BY <1>1, <1>3 DEF NoRingOfDuplicates

LEMMA StatusStep ==
  ASSUME IInv, NEW w \in Workers, MarkDuplicate(w) \/ Fail(w) \/ Skip(w)
  PROVE  Records' /\ CompletedStep
<1> DEFINE l == Current(w)
<1>1. TypeInv /\ TwoRecords /\ DuplicatesPoint /\ NoRingOfDuplicates /\ Fresh(w) /\ Known(w)
  BY DEF IInv, JobFits
<1>2. /\ job[w].step \in {"duplicate", "attach", "draft", "skip"}
      /\ UNCHANGED <<status, reconciled>> /\ Present' = Present
      /\ \A k \in Lines \ {l} : line'[k] = line[k]
      /\ line'[l].entry = line[l].entry /\ line'[l].by = line[l].by
      /\ \/ line'[l] = line[l]
         \/ /\ l \in Present /\ line'[l].dup = line[l].dup
            /\ line'[l].status \in {"error", "skipped", "unmatched"}
         \/ /\ MarkDuplicate(w) /\ l \in Present
            /\ line'[l].status = "duplicate" /\ line'[l].dup = job[w].found
  BY <1>1, StatusRows
<1>3. l \in Present /\ l \in Lines /\ line[l].entry = Nothing
  BY <1>1, <1>2, CurrentIsFresh DEF AtLine
<1>4. MarkDuplicate(w) => job[w].found \in Present /\ Held(job[w].found) /\ job[w].found # l
  BY <1>1, <1>3 DEF MarkDuplicate, Doing, Known, TwoRecords, Present
<1> HIDE DEF l
<1>5. ~Held(l) /\ line'[l].status \notin {"matched", "created"}
  BY <1>1, <1>2, <1>3 DEF TwoRecords, Held
<1>6. \A k \in Lines : /\ line'[k].entry = line[k].entry /\ line'[k].by = line[k].by
                       /\ (Held(k))' <=> Held(k)
  BY <1>2, <1>5 DEF Held
<1>7. TwoRecords'
  BY <1>1, <1>2, <1>6 DEF TwoRecords, Live
<1>8. DuplicatesPoint'
  BY <1>1, <1>2, <1>4 DEF DuplicatesPoint
<1>9. NoRingOfDuplicates'
  <2>1. CASE line'[l].status # "duplicate" \/ line'[l] = line[l]
    <3>1. \A k \in Lines : line'[k].status = "duplicate" =>
            line[k].status = "duplicate" /\ line'[k].dup = line[k].dup
      BY <1>2, <2>1
    <3>2. \A k \in Lines : line[k].status = "duplicate" => line[k].dup \in Present'
      BY <1>1, <1>2 DEF NoRingOfDuplicates
    <3> QED BY <1>1, <3>1, <3>2, NoNewDuplicate
  <2>2. CASE MarkDuplicate(w) /\ line'[l].dup = job[w].found
    <3> DEFINE found == job[w].found
               Dups  == {k \in Lines : line[k].status = "duplicate"}
               Dups2 == {k \in Lines : line'[k].status = "duplicate"}
    <3>1. found \in Lines /\ found # l /\ found \in Present /\ Held(found)
      BY <1>4, <2>2 DEF Present
    <3>2. found \notin Dups2 /\ \A k \in Dups2 \ {l} : k \in Dups /\ line'[k].dup = line[k].dup
      BY <1>2, <3>1 DEF Held
    <3>3. /\ \A k \in Dups : line[k].dup \in Present
          /\ \A S \in (SUBSET Dups) \ {{}} : \E k \in S : line[k].dup \notin S
      BY <1>1 DEF NoRingOfDuplicates
    <3>4. \A k \in Dups2 : line'[k].dup \in Present'
      BY <1>2, <2>2, <3>1, <3>2, <3>3
    <3>5. ASSUME NEW S \in (SUBSET Dups2) \ {{}}
          PROVE  \E k \in S : line'[k].dup \notin S
      <4>1. CASE l \in S
        BY <2>2, <3>2, <4>1
      <4>2. CASE l \notin S
        <5>1. S \in (SUBSET Dups) \ {{}}
          BY <3>2, <4>2
        <5>2. PICK k \in S : line[k].dup \notin S
          BY <3>3, <5>1
        <5> QED BY <3>2, <4>2, <5>2
      <4> QED BY <4>1, <4>2
    <3> QED BY <3>4, <3>5 DEF NoRingOfDuplicates
  <2> QED BY <1>2, <2>1, <2>2
<1>10. CompletedStep
  BY <1>2, <1>5 DEF CompletedStep, Held
<1> QED BY <1>7, <1>8, <1>9, <1>10 DEF Records

(* A line becomes the evidence of an entry. *)
LEMMA BookedRecords ==
  ASSUME TypeInv, Records, OneLinePerEntry, NEW l \in Present, NEW e \in Entries, line[l].entry = Nothing,
         Present' = Present, reconciled' = reconciled \cup {e},
         Live' \subseteq Live \cup {e}, e \in Live',
         \A x \in Entries \ {e} : status'[x] = "none" => status[x] = "none",
         \A k \in Lines \ {l} : line'[k] = line[k],
         line'[l].status \in {"matched", "created"}, line'[l].entry = e, line'[l].dup = line[l].dup
  PROVE  Records' /\ CompletedStep
<1>1. l \in Lines /\ ~Held(l) /\ TwoRecords /\ DuplicatesPoint /\ NoRingOfDuplicates
  BY DEF Present, TwoRecords, Records
<1>2. TwoRecords'
  <2>1. \A k \in Lines : (Held(k))' <=> line'[k].entry # Nothing
    BY <1>1, NothingIsNoRow DEF TwoRecords, Held
  <2>2. \A k \in Lines : ~(Held(k))' => line'[k].by = Nothing
    BY <1>1 DEF TwoRecords, Held
  <2>3. ASSUME NEW x \in Live' \cap reconciled'
        PROVE  \E k \in Lines : line'[k].entry = x
    <3>1. CASE x = e
      BY <1>1, <3>1
    <3>2. CASE x # e
      <4>1. x \in Live \cap reconciled /\ x # Nothing
        BY <3>2, NothingIsNoRow DEF Live
      <4>2. PICK k \in Lines : line[k].entry = x
        BY <1>1, <4>1 DEF TwoRecords
      <4> QED BY <4>1, <4>2
    <3> QED BY <3>1, <3>2
  <2>4. \A x \in reconciled' : status'[x] # "none"
    BY <1>1 DEF TwoRecords, Live, TypeInv, RowTypes
  <2> QED BY <2>1, <2>2, <2>3, <2>4 DEF TwoRecords
<1>3. DuplicatesPoint'
  BY <1>1 DEF DuplicatesPoint
<1>4. \A k \in Lines : line'[k].status = "duplicate" =>
         line[k].status = "duplicate" /\ line'[k].dup = line[k].dup /\ line[k].dup \in Present'
  BY <1>1 DEF NoRingOfDuplicates
<1>5. CompletedStep
  BY <1>1 DEF CompletedStep, Held
<1> QED BY <1>1, <1>2, <1>3, <1>4, <1>5, NoNewDuplicate DEF Records

LEMMA BookStep ==
  ASSUME IInv, NEW w \in Workers,
         Attach(w) \/ \E e \in Entries, posted \in BOOLEAN : Draft(w, e, posted)
  PROVE  Records' /\ CompletedStep
<1> DEFINE l == Current(w)
<1>1. TypeInv /\ Records /\ OneLinePerEntry /\ Fresh(w)
  BY DEF IInv, JobFits, Records
<1>2. CASE Attach(w)
  <2> DEFINE e == job[w].found
  <2>1. /\ e \in Live /\ job[w].step = "attach" /\ Live' = Live /\ Present' = Present
        /\ reconciled' = reconciled \cup {e}
        /\ \A x \in Entries : status'[x] = "none" <=> status[x] = "none"
        /\ \A k \in Lines \ {l} : line'[k] = line[k]
        /\ l \in Present =>
             line'[l] = [status |-> "matched", entry |-> e, dup |-> line[l].dup, by |-> Booker(w)]
    BY <1>1, <1>2, AttachRows
  <2>2. l \in Present /\ line[l].entry = Nothing
    BY <1>1, <2>1, CurrentIsFresh DEF AtLine
  <2> HIDE DEF e, l
  <2>3. e \in Entries
    BY <2>1 DEF Live
  <2> QED BY <1>1, <2>1, <2>2, <2>3, BookedRecords
<1>3. ASSUME NEW e \in Entries, NEW posted \in BOOLEAN, Draft(w, e, posted)
      PROVE  Records' /\ CompletedStep
  <2>1. /\ e \in Free /\ job[w].step = "draft" /\ Live' = Live \cup {e} /\ Present' = Present
        /\ reconciled' = reconciled \cup {e}
        /\ \A x \in Entries \ {e} : status'[x] = status[x]
        /\ \A k \in Lines \ {l} : line'[k] = line[k]
        /\ l \in Present =>
             line'[l] = [status |-> "created", entry |-> e, dup |-> line[l].dup, by |-> Booker(w)]
    BY <1>1, <1>3, DraftRows
  <2>2. l \in Present /\ line[l].entry = Nothing
    BY <1>1, <2>1, CurrentIsFresh DEF AtLine
  <2> HIDE DEF l
  <2> QED BY <1>1, <2>1, <2>2, BookedRecords
<1> QED BY <1>2, <1>3

LEMMA EndStep ==
  ASSUME IInv, NEW w \in Workers, NEW e \in Entries, Void(w, e) \/ (Delete(w) /\ e = job[w].found)
  PROVE  Records' /\ CompletedStep
<1>1. TypeInv /\ TwoRecords /\ DuplicatesPoint /\ NoRingOfDuplicates /\ e # Nothing
  BY NothingIsNoRow DEF IInv
<1>2. /\ Live' = Live \ {e} /\ Present' = Present
      /\ reconciled' \subseteq reconciled
      /\ \A x \in Entries \ {e} : status'[x] = status[x]
      /\ status'[e] = "none" => e \notin reconciled'
      /\ \A k \in Lines : line[k].entry # e => line'[k] = line[k]
      /\ \A k \in Lines : line[k].entry = e =>
           /\ line'[k].status = "unmatched" /\ line'[k].entry = Nothing
           /\ line'[k].by = Nothing /\ line'[k].dup = line[k].dup
  BY <1>1, EndRows
<1>3. TwoRecords'
  <2>1. \A k \in Lines : (Held(k))' <=> line'[k].entry # Nothing
    BY <1>1, <1>2 DEF TwoRecords, Held
  <2>2. \A k \in Lines : ~(Held(k))' => line'[k].by = Nothing
    BY <1>1, <1>2 DEF TwoRecords, Held
  <2>3. ASSUME NEW x \in Live' \cap reconciled'
        PROVE  \E k \in Lines : line'[k].entry = x
    <3>1. PICK k \in Lines : line[k].entry = x
      BY <1>1, <1>2 DEF TwoRecords
    <3> QED BY <1>2, <3>1
  <2>4. \A x \in reconciled' : status'[x] # "none"
    BY <1>1, <1>2 DEF TwoRecords, TypeInv, RowTypes
  <2> QED BY <2>1, <2>2, <2>3, <2>4 DEF TwoRecords
<1>4. \A k \in Lines : line'[k].dup = line[k].dup /\ (line'[k].status = line[k].status \/ line'[k].status = "unmatched")
  BY <1>2
<1>5. DuplicatesPoint'
  BY <1>1, <1>2, <1>4 DEF DuplicatesPoint
<1>6. \A k \in Lines : line'[k].status = "duplicate" =>
         line[k].status = "duplicate" /\ line'[k].dup = line[k].dup /\ line[k].dup \in Present'
  BY <1>1, <1>2, <1>4 DEF NoRingOfDuplicates
<1>7. CompletedStep
  BY <1>1, <1>2 DEF CompletedStep, Held
<1> QED BY <1>1, <1>3, <1>5, <1>6, <1>7, NoNewDuplicate DEF Records

(* The rows stay. *)
LEMMA SameRecords ==
  ASSUME IInv, UNCHANGED <<stored, line, status, reconciled>>
  PROVE  Records' /\ CompletedStep
<1>1. CompletedStep
  BY DEF CompletedStep, Held
<1> QED BY <1>1 DEF IInv, Records, TwoRecords, DuplicatesPoint, NoRingOfDuplicates, Live, Held, Present

(* The lines stay. *)
LEMMA StillStep ==
  ASSUME IInv, NEW w \in Workers,
         \/ JobOnly(w)
         \/ \E e \in Entries : Post(w, e)
         \/ \E e \in Entries, a \in Range(Amount), posted \in BOOLEAN : Capture(w, e, a, posted)
  PROVE  Records' /\ CompletedStep
<1>1. TypeInv /\ TwoRecords /\ DuplicatesPoint /\ NoRingOfDuplicates
  BY DEF IInv
<1>2. CASE JobOnly(w)
  BY <1>2, JobOnlyRows, SameRecords
<1>3. ASSUME NEW e \in Entries, Post(w, e) \/ \E a \in Range(Amount), posted \in BOOLEAN : Capture(w, e, a, posted)
      PROVE  Records' /\ CompletedStep
  <2>1. /\ Live \subseteq Live' /\ Live' \subseteq Live \cup {e}
        /\ e \in Live \/ e \in Free
        /\ \A x \in Entries : status'[x] = "none" => status[x] = "none"
        /\ UNCHANGED <<stored, line, reconciled, job>>
    BY <1>1, <1>3, JournalRows
  <2>2. Live' \cap reconciled' = Live \cap reconciled
    BY <1>1, <2>1 DEF TwoRecords, Free
  <2>3. TwoRecords'
    BY <1>1, <2>1, <2>2 DEF TwoRecords, Held, TypeInv, RowTypes
  <2>4. DuplicatesPoint' /\ NoRingOfDuplicates'
    BY <1>1, <2>1 DEF DuplicatesPoint, NoRingOfDuplicates, Present
  <2>5. CompletedStep
    BY <2>1 DEF CompletedStep, Held
  <2> QED BY <2>3, <2>4, <2>5 DEF Records
<1> QED BY <1>2, <1>3

LEMMA ImportStep ==
  ASSUME IInv, NEW w \in Workers, NEW f \in Files, Import(w, f)
  PROVE  Records' /\ CompletedStep
<1>1. TypeInv /\ TwoRecords /\ DuplicatesPoint /\ NoRingOfDuplicates
  BY DEF IInv
<1>2. /\ UNCHANGED <<status, reconciled>> /\ Live' = Live /\ Present \subseteq Present'
      /\ \A l \in Lines : l[1] # f => line'[l] = line[l]
      /\ \A l \in Lines : l[1] = f =>
           /\ line[l] = NoLine
           /\ line'[l] = [status |-> "unmatched", entry |-> Nothing, dup |-> Nothing, by |-> Nothing]
  BY <1>1, ImportRows
<1>3. \A l \in Lines : l[1] = f => ~Held(l) /\ ~(Held(l))' /\ line[l].entry = Nothing /\ line[l].by = Nothing
  BY <1>2 DEF Held, NoLine
<1>4. \A l \in Lines : /\ line'[l].entry = line[l].entry /\ line'[l].by = line[l].by
                       /\ (Held(l))' <=> Held(l)
  BY <1>2, <1>3 DEF Held
<1>5. TwoRecords'
  BY <1>1, <1>2, <1>4 DEF TwoRecords
<1>6. DuplicatesPoint'
  BY <1>1, <1>2 DEF DuplicatesPoint
<1>7. \A k \in Lines : line'[k].status = "duplicate" =>
         line[k].status = "duplicate" /\ line'[k].dup = line[k].dup /\ line[k].dup \in Present'
  BY <1>1, <1>2 DEF NoRingOfDuplicates
<1>8. CompletedStep
  BY <1>2, <1>3 DEF CompletedStep, Held
<1> QED BY <1>1, <1>5, <1>6, <1>7, <1>8, NoNewDuplicate DEF Records

(* The commit of a rollback, while what it read is still so. *)
LEMMA RollbackStep ==
  ASSUME IInv, NEW w \in Workers, CommitRollback(w)
  PROVE  Records' /\ CompletedStep /\ Evidence' /\ OneLinePerEntry'
<1>1. TypeInv /\ Evidence /\ OneLinePerEntry /\ TwoRecords /\ DuplicatesPoint /\ NoRingOfDuplicates /\ ReadIsSo(w)
  BY DEF IInv, JobFits
<1>2. PICK f \in stored : /\ job[w].todo = LinesOf(f)
                          /\ job[w].found = [l \in Range(LinesOf(f)) |-> line[l]]
  BY <1>1 DEF ReadIsSo, CommitRollback, Doing
<1>3. f \in Files
  BY <1>1 DEF TypeInv, RowTypes
<1>4. Current(w)[1] = f
  BY <1>2, <1>3, LinesOfFile, CurrentLine DEF CommitRollback, Doing, TypeInv, AtLine, IInv
<1> DEFINE read == job[w].found
           created == EntriesAs("created", read)
           matched == EntriesAs("matched", read)
<1>5. \A x : /\ x \in created <=> x # Nothing /\ \E l \in Lines : l[1] = f /\ line[l].status = "created" /\ line[l].entry = x
             /\ x \in matched <=> x # Nothing /\ \E l \in Lines : l[1] = f /\ line[l].status = "matched" /\ line[l].entry = x
  <2> DEFINE own == {l \in Lines : l[1] = f}
  <2>1. DOMAIN read = own /\ \A l \in own : read[l] = line[l]
    <3>1. Range(LinesOf(f)) = own
      BY <1>3, LinesOfFile
    <3> QED BY <1>2, <3>1
  <2> HIDE DEF read, own
  <2>2. \A s, x : x \in EntriesAs(s, read) <=>
                   x # Nothing /\ \E l \in own : line[l].status = s /\ line[l].entry = x
    BY <2>1 DEF EntriesAs
  <2> QED BY <2>2 DEF own
<1>6. /\ created \cup matched \subseteq Entries
      /\ Unreferenced(f, created) /\ Erase(created) /\ stored' = stored \ {f} /\ Cascade(f)
  BY <1>4 DEF CommitRollback
<1>7. reconciled' = reconciled \ (created \cup matched)
  <2>1. reconciled' = reconciled \ (created \cup
          (matched \ {e \in matched : \E k \in Present : k[1] # f /\ Held(k) /\ line[k].entry = e}))
    BY <1>4 DEF CommitRollback
  <2>2. ASSUME NEW e \in matched, NEW k \in Present, k[1] # f, line[k].entry = e
        PROVE  FALSE
    BY <1>1, <1>5, <2>2 DEF OneLinePerEntry, Present
  <2> QED BY <2>1, <2>2
<1> HIDE DEF read, created, matched
<1>8. \A k \in Lines : IF k[1] = f THEN line'[k] = NoLine ELSE line'[k] = line[k]
  BY <1>6 DEF Cascade
<1>9. /\ \A e \in created : status'[e] = "none"
      /\ \A e \in Entries \ created : status'[e] = status[e]
  BY <1>1, <1>6, ErasedRows DEF TypeInv
<1>10. \A k \in Lines : k[1] # f => line[k].entry \notin created \cup matched
  BY <1>1, <1>5 DEF OneLinePerEntry
<1>11. ~(NoLine.status \in {"matched", "created"}) /\ NoLine.entry = Nothing /\ NoLine.by = Nothing
       /\ NoLine.status # "duplicate" /\ NoLine.dup = Nothing
  BY DEF NoLine
<1>12. Evidence'
  <2>1. ASSUME NEW k \in Lines, line'[k].entry # Nothing
        PROVE  line'[k].entry \in Live' \cap reconciled'
    <3>1. k[1] # f /\ line'[k] = line[k]
      BY <1>8, <1>11, <2>1
    <3>2. line[k].entry \in Live \cap reconciled /\ line[k].entry \notin created \cup matched
      BY <1>1, <1>10, <2>1, <3>1 DEF Evidence
    <3> QED BY <1>7, <1>9, <3>1, <3>2 DEF Live
  <2> QED BY <2>1 DEF Evidence
<1>13. OneLinePerEntry'
  BY <1>1, <1>8, <1>11 DEF OneLinePerEntry
<1>14. TwoRecords'
  <2>1. \A k \in Lines : (Held(k))' <=> line'[k].entry # Nothing
    BY <1>1, <1>8, <1>11 DEF TwoRecords, Held
  <2>2. \A k \in Lines : ~(Held(k))' => line'[k].by = Nothing
    BY <1>1, <1>8, <1>11 DEF TwoRecords, Held
  <2>3. ASSUME NEW x \in Live' \cap reconciled'
        PROVE  \E k \in Lines : line'[k].entry = x
    <3>1. x \in Live \cap reconciled /\ x \notin created \cup matched
      BY <1>7, <1>9 DEF Live
    <3>2. PICK k \in Lines : line[k].entry = x
      BY <1>1, <3>1 DEF TwoRecords
    <3>3. Held(k) /\ x # Nothing
      BY <1>1, <3>1, <3>2, NothingIsNoRow DEF TwoRecords, Live
    <3>4. k[1] # f
      BY <1>5, <3>1, <3>2, <3>3 DEF Held
    <3> QED BY <1>8, <3>2, <3>4
  <2>4. \A x \in reconciled' : status'[x] # "none"
    BY <1>1, <1>7, <1>9 DEF TwoRecords, TypeInv, RowTypes
  <2> QED BY <2>1, <2>2, <2>3, <2>4 DEF TwoRecords
<1>15. ASSUME NEW k \in Lines, k[1] # f, line[k].dup # Nothing
       PROVE  line[k].dup \in Present'
  <2>1. k \in Present
    BY <1>1, <1>11, <1>15 DEF TypeInv, RowTypes
  <2>2. line[k].dup[1] # f /\ line[k].dup \in Present
    BY <1>1, <1>6, <1>15, <2>1 DEF Unreferenced, DuplicatesPoint
  <2> QED BY <1>6, <2>2 DEF Present
<1>16. DuplicatesPoint'
  BY <1>8, <1>11, <1>15 DEF DuplicatesPoint
<1>17. \A k \in Lines : line'[k].status = "duplicate" =>
         line[k].status = "duplicate" /\ line'[k].dup = line[k].dup /\ line[k].dup \in Present'
  <2>1. \A k \in Lines : line[k].status = "duplicate" => line[k].dup # Nothing
    BY <1>1, NothingIsNoRow DEF NoRingOfDuplicates, Present
  <2> QED BY <1>8, <1>11, <1>15, <2>1
<1>18. CompletedStep
  BY <1>6, <1>8 DEF CompletedStep, Held, Present
<1> QED BY <1>1, <1>12, <1>13, <1>14, <1>16, <1>17, <1>18, NoNewDuplicate DEF Records


(***************************************************************************)
(* One process: the theorems                                               *)
(***************************************************************************)

LEMMA InitFits == Init => IInv
<1> SUFFICES ASSUME Init
             PROVE  IInv
  OBVIOUS
<1>1. TypeInv
  BY InitTypes
<1>2. \A l \in Lines : line[l] = [status |-> "none", entry |-> Nothing, dup |-> Nothing, by |-> Nothing]
  BY DEF Init, NoLine
<1>3. Live = {} /\ reconciled = {} /\ \A w \in Workers : job[w].step = "none"
  BY DEF Init, Live, Idle
<1>4. Evidence /\ OneLinePerEntry /\ TwoRecords
  BY <1>2, <1>3 DEF Evidence, OneLinePerEntry, TwoRecords, Held
<1>5. JobFits
  BY <1>3 DEF JobFits, Fresh, Known, ReadIsSo, AtLine
<1>6. DuplicatesPoint
  BY <1>2 DEF DuplicatesPoint
<1>7. NoRingOfDuplicates
  <2>1. {l \in Lines : line[l].status = "duplicate"} = {}
    BY <1>2
  <2> QED BY <2>1 DEF NoRingOfDuplicates
<1> QED BY <1>1, <1>4, <1>5, <1>6, <1>7 DEF IInv

LEMMA OneProcessStep ==
  ASSUME IInv, \A v, w \in Workers : v = w, [Next]_vars
  PROVE  IInv' /\ CompletedStep
<1>1. TypeInv /\ Evidence /\ OneLinePerEntry /\ TypeInv'
  BY NextTypes DEF IInv
<1>2. CASE UNCHANGED vars
  <2>1. UNCHANGED <<stored, line, status, reconciled, job>>
    BY <1>2 DEF vars, entryVars
  <2>2. Records' /\ CompletedStep
    BY <2>1, SameRecords
  <2>3. Evidence' /\ OneLinePerEntry' /\ JobFits'
    BY <1>1, <2>1 DEF IInv, Evidence, OneLinePerEntry, JobFits, Fresh, Known, ReadIsSo, Held, Live, Present
  <2> QED BY <1>1, <2>2, <2>3 DEF IInv, Records
<1>3. ASSUME NEW w \in Workers, Undisturbed(w) \/ CommitRollback(w)
      PROVE  IInv' /\ CompletedStep
  <2>1. \A v \in Workers : v = w
    OBVIOUS
  <2>2. Evidence' /\ OneLinePerEntry'
    BY <1>1, <1>3, UndisturbedEvidence, RollbackStep
  <2>3. JobFits'
    BY <1>3, <2>1, JobOnlyFits, LineDoneFits, RestFits, ImportFits DEF Undisturbed
  <2>4. Records' /\ CompletedStep
    <3>1. Delete(w) => job[w].found \in Entries
      BY <1>1 DEF Delete, Doing, TypeInv, JobTypes
    <3>2. CASE Complete(w)
      BY <3>2, StatusStep, BookStep DEF Complete
    <3> QED BY <1>3, <3>1, <3>2, StatusStep, EndStep, StillStep, ImportStep, RollbackStep DEF Undisturbed
  <2> QED BY <1>1, <2>2, <2>3, <2>4 DEF IInv, Records
<1> QED BY <1>2, <1>3, OperateSplits DEF Next

LEMMA OneProcess ==
  ASSUME \A v, w \in Workers : v = w
  PROVE  Spec => []IInv
<1>1. IInv /\ [Next]_vars => IInv'
  BY OneProcessStep
<1> QED BY <1>1, InitFits, PTL DEF Spec

(* With one process, reconciliation and evidence agree after any history of imports,
   retries, rules, hand matches, voids, deletions, rollbacks and deaths in between:
   a line that counts as evidence has a live reconciled entry, and such an entry
   exactly one line. *)
THEOREM EvidenceHolds ==
  ASSUME \A v, w \in Workers : v = w
  PROVE  Spec => []EvidenceAgrees
<1>1. IInv => EvidenceAgrees
  <2> SUFFICES ASSUME IInv
               PROVE  EvidenceAgrees
    OBVIOUS
  <2>1. \A l \in Lines : IF Held(l) THEN line[l].entry \in Live \cap reconciled ELSE line[l].entry = Nothing
    BY DEF IInv, Evidence, TwoRecords
  <2>2. ASSUME NEW e \in Live \cap reconciled
        PROVE  Cardinality({l \in Lines : line[l].entry = e}) = 1
    <3>1. PICK l \in Lines : line[l].entry = e
      BY DEF IInv, TwoRecords
    <3>2. e # Nothing
      BY NothingIsNoRow DEF Live
    <3>3. {k \in Lines : line[k].entry = e} = {l}
      BY <3>1, <3>2 DEF IInv, OneLinePerEntry
    <3> QED BY <3>3, FS_Singleton
  <2> QED BY <2>1, <2>2 DEF EvidenceAgrees
<1> QED BY <1>1, OneProcess, PTL

(* Following duplicate_of_id always ends at a stored line that is no duplicate. *)
THEOREM DuplicatesEnd ==
  ASSUME \A v, w \in Workers : v = w
  PROVE  Spec => []NoRingOfDuplicates
<1>1. IInv => NoRingOfDuplicates
  BY DEF IInv
<1> QED BY <1>1, OneProcess, PTL

(* A completed line is taken up again only after its entry was voided or deleted. *)
THEOREM NothingIsReplayed ==
  ASSUME \A v, w \in Workers : v = w
  PROVE  Spec => CompletedNotReplayed
<1>1. IInv /\ [Next]_vars => CompletedStep
  BY OneProcessStep
<1> QED BY <1>1, OneProcess, PTL DEF Spec, CompletedNotReplayed


(***************************************************************************)
(* One process, and references of sources that identify movements by them  *)
(***************************************************************************)

(* Only those sources have references: what a posting's reference says of any other
   line is not asked of its fingerprint (process_line). *)
OnlyStrictReferences == \A l \in Lines : Ref(l) # NoRef => l[1] \in Strict

(* What makes a source one of them. *)
ReferencesIdentify ==
  \A l, k \in Lines : l[1] \in Strict /\ Ref(l) # NoRef /\ Ref(k) = Ref(l) => Move(k) = Move(l)

(* Nothing is booked by an import, and no line is marked a duplicate. *)
LEMMA NothingBooked ==
  ASSUME BookedOnce,
         \A k \in Lines : line'[k].by = line[k].by \/ line'[k].by = Nothing,
         \A k \in Lines : line'[k].status = "duplicate" =>
           line[k].status = "duplicate" /\ line'[k].dup = line[k].dup
  PROVE  BookedOnce'
<1>1. \A k \in Lines : line'[k].by = "import" => line[k].by = "import"
  BY Nobody
<1> QED BY <1>1 DEF BookedOnce

(* A line that was searched is made evidence. *)
LEMMA SearchedBooked ==
  ASSUME IInv, BookedOnce, OnlyStrictReferences, NEW w \in Workers, Searched(w),
         job[w].step \in {"attach", "draft"}, NEW l \in Lines, l = Current(w),
         \A k \in Lines \ {l} : line'[k] = line[k],
         line'[l].status # "duplicate", line'[l].by = Booker(w)
  PROVE  BookedOnce'
<1>1. ASSUME NEW k \in Lines \ {l}, line[k].by = "import", line'[l].by = "import"
      PROVE  LooksNew(l, k) /\ LooksNew(k, l)
  <2>1. k \in Present /\ Held(k)
    BY <1>1, Nobody DEF IInv, TwoRecords, TypeInv, RowTypes, NoLine
  <2>2. Ref(l) # NoRef => EarlierByReference(l) = {}
    BY <1>1 DEF Searched
  <2>3. AfterReference(l) = "fingerprint" => EarlierByFingerprint(l) = {}
    BY <1>1 DEF Searched
  <2>4. Ref(l) # NoRef => Ref(k) # Ref(l)
    BY <1>1, <2>1, <2>2 DEF EarlierByReference
  <2>5. AfterReference(l) = "fingerprint" => Fingerprint(k) # Fingerprint(l)
    BY <1>1, <2>1, <2>3 DEF EarlierByFingerprint
  <2> QED BY <2>4, <2>5 DEF LooksNew
<1>2. ASSUME NEW k \in Lines, NEW m \in Lines, line'[k].by = "import", line'[m].by = "import", k # m
      PROVE  LooksNew(k, m)
  <2>1. CASE k = l
    BY <1>1, <1>2, <2>1
  <2>2. CASE m = l
    BY <1>1, <1>2, <2>2
  <2>3. CASE k # l /\ m # l
    BY <1>2, <2>3 DEF BookedOnce
  <2> QED BY <2>1, <2>2, <2>3
<1>3. ASSUME NEW k \in Lines, line'[k].status = "duplicate", k[1] \in Strict, Ref(k) # NoRef
      PROVE  Move(line'[k].dup) = Move(k)
  BY <1>3 DEF BookedOnce
<1> QED BY <1>2, <1>3 DEF BookedOnce

LEMMA NotSearching ==
  ASSUME NEW w \in Workers,
         \/ job'[w].step \in {"none", "reference", "skip", "delete", "rollback"}
         \/ job'[w].step \in {"attach", "draft"} /\ job'[w].op \in {"match", "create", "rules"}
  PROVE  Searched(w)'
<1>1. job'[w].op \in {"match", "create", "rules"} => (Booker(w))' # "import"
  BY DEF Booker
<1>2. CASE job'[w].step \in {"none", "reference", "skip", "delete", "rollback"}
  BY <1>2 DEF Searched
<1>3. CASE job'[w].step \in {"attach", "draft"} /\ (Booker(w))' # "import"
  BY <1>3 DEF Searched
<1> QED BY <1>1, <1>2, <1>3

LEMMA LookSearched ==
  ASSUME TypeInv, OnlyStrictReferences, NEW w \in Workers, Searched(w),
         CheckReference(w) \/ CheckFingerprint(w) \/ FindMatch(w)
  PROVE  Searched(w)'
<1> DEFINE l == Current(w)
           ByReference == EarlierByReference(l)
           ByFingerprint == EarlierByFingerprint(l)
           Booking == Booker(w) = "import"
<1>1. \A step, x : Decide(w, step, x) => job'[w].step = step /\ job'[w].found = x
  BY DEF Decide, TypeInv, JobTypes
<1>2. /\ job[w].step \in AtLine /\ job'[w].op = job[w].op /\ job'[w].todo = job[w].todo
      /\ UNCHANGED <<stored, line>>
  BY LookTypes DEF CheckReference, CheckFingerprint, FindMatch
<1>3. l \in Lines
  BY <1>2, CurrentLine DEF TypeInv
<1>4. Ref(l) # NoRef <=> AfterReference(l) = "match"
  BY <1>3 DEF AfterReference, OnlyStrictReferences
<1>5. AfterReference(l) \in {"match", "fingerprint"}
  BY DEF AfterReference
<1>6. /\ job[w].step = "fingerprint" => AfterReference(l) = "fingerprint"
      /\ Booking /\ job[w].step \in {"fingerprint", "match"} /\ Ref(l) # NoRef => ByReference = {}
      /\ Booking /\ job[w].step = "match" /\ AfterReference(l) = "fingerprint" => ByFingerprint = {}
  BY DEF Searched
<1>7. /\ job'[w].step = "fingerprint" => AfterReference(l) = "fingerprint"
      /\ job'[w].step = "duplicate" /\ l[1] \in Strict /\ Ref(l) # NoRef => Ref(job'[w].found) = Ref(l)
      /\ Booking /\ job'[w].step \in {"fingerprint", "match", "attach", "draft"} /\ Ref(l) # NoRef => ByReference = {}
      /\ Booking /\ job'[w].step \in {"match", "attach", "draft"} /\ AfterReference(l) = "fingerprint" =>
           ByFingerprint = {}
  <2>1. CASE CheckReference(w)
    <3>1. \/ Ref(l) # NoRef /\ \E k \in ByReference : Decide(w, "duplicate", k)
          \/ Ref(l) # NoRef /\ ByReference = {} /\ \E e \in PostedAs(l) : Decide(w, "attach", e)
          \/ (Ref(l) = NoRef \/ ByReference = {}) /\ Decide(w, AfterReference(l), Nothing)
      BY <2>1 DEF CheckReference
    <3>2. \/ job'[w].step = "duplicate" /\ Ref(job'[w].found) = Ref(l)
          \/ job'[w].step = "attach" /\ Ref(l) # NoRef /\ ByReference = {}
          \/ job'[w].step = AfterReference(l) /\ (Ref(l) = NoRef \/ ByReference = {})
      BY <1>1, <3>1 DEF EarlierByReference
    <3> HIDE DEF l, ByReference, ByFingerprint, Booking
    <3> QED BY <1>4, <1>5, <3>2
  <2>2. CASE CheckFingerprint(w)
    <3>1. job[w].step = "fingerprint"
      BY <2>2 DEF CheckFingerprint, Doing
    <3>2. \/ job'[w].step = "duplicate"
          \/ job'[w].step = "match" /\ ByFingerprint = {}
      BY <1>1, <2>2 DEF CheckFingerprint
    <3> HIDE DEF l, ByReference, ByFingerprint, Booking
    <3> QED BY <1>4, <1>5, <1>6, <3>1, <3>2
  <2>3. CASE FindMatch(w)
    <3>1. job[w].step = "match"
      BY <2>3 DEF FindMatch, Doing
    <3>2. job'[w].step \in {"attach", "draft"}
      BY <1>1, <2>3 DEF FindMatch
    <3> HIDE DEF l, ByReference, ByFingerprint, Booking
    <3> QED BY <1>4, <1>5, <1>6, <3>1, <3>2
  <2> QED BY <2>1, <2>2, <2>3
<1> QED BY <1>2, <1>7 DEF Searched, Current, Booker, EarlierByReference, EarlierByFingerprint, Held, Present

LEMMA JobOnlySearched ==
  ASSUME TypeInv, OnlyStrictReferences, NEW w \in Workers, Searched(w), JobOnly(w)
  PROVE  Searched(w)'
<1>1. CASE CheckReference(w) \/ CheckFingerprint(w) \/ FindMatch(w)
  BY <1>1, LookSearched
<1>2. CASE Crash(w)
  <2>1. job'[w].step = "none"
    BY <1>2 DEF Crash, Idle, TypeInv, JobTypes
  <2> QED BY <2>1, NotSearching
<1>3. ASSUME NEW op, NEW todo, NEW step, NEW found, Begin(w, op, todo, step, found),
             \/ step \in {"reference", "skip", "delete", "rollback"}
             \/ step \in {"attach", "draft"} /\ op \in {"match", "create", "rules"}
      PROVE  Searched(w)'
  <2>1. job'[w].op = op /\ job'[w].step = step
    BY <1>3, Begun DEF TypeInv
  <2> QED BY <1>3, <2>1, NotSearching
<1>4. ASSUME NEW f \in Files, Retry(w, f) \/ Rollback(w, f)
      PROVE  Searched(w)'
  BY <1>3, <1>4 DEF Retry, Rollback
<1>5. CASE RunRules(w)
  BY <1>3, <1>5 DEF RunRules
<1>6. ASSUME NEW l \in Lines, SkipOrNot(w, l) \/ CreateByHand(w, l) \/ \E e \in Entries : MatchByHand(w, l, e)
      PROVE  Searched(w)'
  BY <1>3, <1>6 DEF SkipOrNot, CreateByHand, MatchByHand
<1>7. ASSUME NEW e \in Entries, DeleteDraft(w, e)
      PROVE  Searched(w)'
  BY <1>3, <1>7 DEF DeleteDraft
<1> QED BY <1>1, <1>2, <1>4, <1>5, <1>6, <1>7 DEF JobOnly

LEMMA AdvanceSearched ==
  ASSUME TypeInv, NEW w \in Workers, job[w].step \in AtLine, Advance(w)
  PROVE  Searched(w)'
<1>1. \/ job'[w] = Idle
      \/ job'[w] = [op |-> job[w].op, todo |-> Tail(job[w].todo),
                    step |-> IF job[w].op = "rules" THEN "draft" ELSE "reference", found |-> Nothing]
  BY AdvanceTypes DEF TypeInv
<1>2. \/ job'[w].step \in {"none", "reference"}
      \/ job'[w].step = "draft" /\ job'[w].op = "rules"
  BY <1>1 DEF Idle
<1> QED BY <1>2, NotSearching

LEMMA BookedStep ==
  ASSUME BookedInv, OnlyStrictReferences, ReferencesIdentify, \A v, x \in Workers : v = x,
         NEW w \in Workers, Undisturbed(w) \/ CommitRollback(w)
  PROVE  BookedOnce' /\ Searched(w)'
<1>1. /\ IInv /\ TypeInv /\ BookedOnce /\ Searched(w) /\ JobTypes /\ Fresh(w) /\ Known(w)
  BY DEF BookedInv, IInv, JobFits, TypeInv
<1>2. CASE JobOnly(w)
  <2>1. BookedOnce'
    BY <1>1, <1>2, JobOnlyRows, NothingBooked
  <2> QED BY <1>1, <1>2, <2>1, JobOnlySearched
<1>3. CASE Attach(w)
  <2> DEFINE l == Current(w)
             e == job[w].found
  <2>1. /\ l \in Lines /\ job[w].step = "attach" /\ Advance(w)
        /\ \A k \in Lines \ {l} : line'[k] = line[k]
        /\ l \in Present =>
             line'[l] = [status |-> "matched", entry |-> e, dup |-> line[l].dup, by |-> Booker(w)]
    BY <1>1, <1>3, AttachRows
  <2>2. l \in Present
    BY <1>1, <2>1, CurrentIsFresh DEF AtLine
  <2>3. Searched(w)'
    BY <1>1, <2>1, AdvanceSearched DEF AtLine
  <2>4. line'[l].status # "duplicate" /\ line'[l].by = Booker(w)
    BY <2>1, <2>2
  <2>5. BookedOnce'
    BY <1>1, <2>1, <2>4, SearchedBooked
  <2> QED BY <2>3, <2>5
<1>4. ASSUME NEW e \in Entries, NEW posted \in BOOLEAN, Draft(w, e, posted)
      PROVE  BookedOnce' /\ Searched(w)'
  <2> DEFINE l == Current(w)
  <2>1. /\ l \in Lines /\ job[w].step = "draft" /\ Advance(w)
        /\ \A k \in Lines \ {l} : line'[k] = line[k]
        /\ l \in Present =>
             line'[l] = [status |-> "created", entry |-> e, dup |-> line[l].dup, by |-> Booker(w)]
    BY <1>1, <1>4, DraftRows
  <2>2. l \in Present
    BY <1>1, <2>1, CurrentIsFresh DEF AtLine
  <2>3. Searched(w)'
    BY <1>1, <2>1, AdvanceSearched DEF AtLine
  <2>4. line'[l].status # "duplicate" /\ line'[l].by = Booker(w)
    BY <2>1, <2>2
  <2>5. BookedOnce'
    BY <1>1, <2>1, <2>4, SearchedBooked
  <2> QED BY <2>3, <2>5
<1>5. CASE MarkDuplicate(w) \/ Fail(w) \/ Skip(w)
  <2> DEFINE l == Current(w)
             found == job[w].found
  <2>1. /\ l \in Lines /\ job[w].step \in {"duplicate", "attach", "draft", "skip"} /\ Advance(w)
        /\ \A k \in Lines \ {l} : line'[k] = line[k]
        /\ line'[l].by = line[l].by
        /\ \/ line'[l] = line[l]
           \/ line'[l].status \in {"error", "skipped", "unmatched"}
           \/ MarkDuplicate(w) /\ line'[l].status = "duplicate" /\ line'[l].dup = found
    BY <1>1, <1>5, StatusRows
  <2>2. Searched(w)'
    BY <1>1, <2>1, AdvanceSearched DEF AtLine
  <2>3. MarkDuplicate(w) /\ l[1] \in Strict /\ Ref(l) # NoRef => found \in Lines /\ Ref(found) = Ref(l)
    BY <1>1 DEF MarkDuplicate, Doing, Searched, Known, Present
  <2> HIDE DEF l, found
  <2>4. MarkDuplicate(w) /\ l[1] \in Strict /\ Ref(l) # NoRef => Move(found) = Move(l)
    BY <2>1, <2>3 DEF ReferencesIdentify
  <2>5. \A k \in Lines : line'[k].by = line[k].by
    BY <2>1
  <2>6. ASSUME NEW k \in Lines, line'[k].status = "duplicate", k[1] \in Strict, Ref(k) # NoRef
        PROVE  Move(line'[k].dup) = Move(k)
    BY <1>1, <2>1, <2>4, <2>6 DEF BookedOnce
  <2> QED BY <1>1, <2>2, <2>5, <2>6 DEF BookedOnce
<1>6. ASSUME NEW e \in Entries, Void(w, e) \/ (Delete(w) /\ e = job[w].found)
      PROVE  BookedOnce'
  <2>1. \A k \in Lines : \/ line'[k] = line[k]
                         \/ line'[k].status = "unmatched" /\ line'[k].by = Nothing
    BY <1>1, <1>6, EndRows
  <2> QED BY <1>1, <2>1, NothingBooked
<1>7. ASSUME NEW e \in Entries, Post(w, e) \/ \E a \in Range(Amount), posted \in BOOLEAN : Capture(w, e, a, posted)
      PROVE  BookedOnce'
  BY <1>1, <1>7, JournalRows, NothingBooked
<1>8. ASSUME NEW f \in Files, Import(w, f)
      PROVE  BookedOnce' /\ Searched(w)'
  <2>1. \A k \in Lines : \/ line'[k] = line[k]
                         \/ line'[k].status = "unmatched" /\ line'[k].by = Nothing
    BY <1>1, <1>8, ImportRows
  <2>2. job'[w].step = "reference"
    BY <1>1, <1>8, Begun DEF Import
  <2> QED BY <1>1, <2>1, <2>2, NothingBooked, NotSearching
<1>9. ASSUME CommitRollback(w)
      PROVE  BookedOnce'
  <2>1. line' = [l \in Lines |-> IF l[1] = Current(w)[1] THEN NoLine ELSE line[l]]
    BY <1>9 DEF CommitRollback, Cascade
  <2>2. \A k \in Lines : line'[k] = NoLine \/ line'[k] = line[k]
    BY <2>1
  <2>3. NoLine.status # "duplicate" /\ NoLine.by = Nothing
    BY DEF NoLine
  <2>4. \A k \in Lines : line'[k].by = line[k].by \/ line'[k].by = Nothing
    BY <2>2, <2>3
  <2>5. \A k \in Lines : line'[k].status = "duplicate" => line[k].status = "duplicate" /\ line'[k].dup = line[k].dup
    BY <2>2, <2>3
  <2> QED BY <1>1, <2>4, <2>5, NothingBooked
<1>10. ASSUME \/ CommitRollback(w) \/ Delete(w)
              \/ \E e \in Entries : Post(w, e) \/ Void(w, e)
              \/ \E e \in Entries, a \in Range(Amount), posted \in BOOLEAN : Capture(w, e, a, posted)
       PROVE  Searched(w)'
  <2>1. \/ job' = [job EXCEPT ![w] = Idle]
        \/ job[w] = Idle /\ job' = job
    BY <1>10 DEF Delete, CommitRollback, Post, Void, Capture
  <2>2. job'[w] = Idle
    BY <1>1, <2>1 DEF JobTypes
  <2>3. job'[w].step = "none"
    BY <2>2 DEF Idle
  <2> QED BY <2>3, NotSearching
<1>11. Delete(w) => job[w].found \in Entries
  BY <1>1 DEF Delete, Doing, JobTypes
<1>12. CASE Complete(w)
  BY <1>3, <1>4, <1>5, <1>12 DEF Complete
<1> QED BY <1>2, <1>5, <1>6, <1>7, <1>8, <1>9, <1>10, <1>11, <1>12 DEF Undisturbed

(* With one process, nothing is booked twice by imports and retries, and separate charges
   stay separate, however files overlap and whatever is voided, deleted, rolled back,
   matched by hand or drafted by rules in between. *)
THEOREM NothingIsBookedTwice ==
  ASSUME \A v, w \in Workers : v = w, OnlyStrictReferences, ReferencesIdentify
  PROVE  Spec => []BookedOnce
<1>1. Init => BookedInv
  <2> SUFFICES ASSUME Init
               PROVE  BookedInv
    OBVIOUS
  <2>1. \A l \in Lines : line[l].by = Nothing /\ line[l].status = "none"
    BY DEF Init, NoLine
  <2>2. BookedOnce
    BY <2>1, Nobody DEF BookedOnce
  <2>3. \A w \in Workers : job[w].step = "none"
    BY DEF Init, Idle
  <2>4. \A w \in Workers : Searched(w)
    BY <2>3 DEF Searched
  <2> QED BY <2>2, <2>4, InitFits DEF BookedInv
<1>2. BookedInv /\ [Next]_vars => BookedInv'
  <2> SUFFICES ASSUME BookedInv, [Next]_vars
               PROVE  BookedInv'
    OBVIOUS
  <2>1. IInv'
    BY OneProcessStep DEF BookedInv
  <2>2. CASE UNCHANGED vars
    BY <2>1, <2>2 DEF vars, entryVars, BookedInv, BookedOnce, Searched, Current, Booker,
         EarlierByReference, EarlierByFingerprint, Held, Present
  <2>3. ASSUME NEW w \in Workers, Undisturbed(w) \/ CommitRollback(w)
        PROVE  BookedInv'
    BY <2>1, <2>3, BookedStep DEF BookedInv
  <2> QED BY <2>2, <2>3, OperateSplits DEF Next
<1>3. BookedInv => BookedOnce
  BY DEF BookedInv
<1> QED BY <1>1, <1>2, <1>3, PTL DEF Spec

==============================================================================
