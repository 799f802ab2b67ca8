---------------------------- MODULE BooksProofs ----------------------------
(***************************************************************************)
(* Five of the properties of the books that MCBooks composes, for every size. *)
(*                                                                         *)
(* Most of the module is about opening an older file (Migrations): for every *)
(* release, file and death between two migrations, the version tells the     *)
(* tables, no value moves, no reversal loses its tags, and nobody's edit of  *)
(* tags is overwritten.  The theorems about values and tables are about one  *)
(* process: two that open one old file together read the same version, and   *)
(* the second runs again what the first has committed (see README.md).  What *)
(* LongOperationsProofs proves of operations of several transactions is      *)
(* carried over to the composition, and the dates of schedules, what is      *)
(* settled in the chart of accounts, and that nothing names an account that  *)
(* is gone are proved here.                                                  *)
(***************************************************************************)
EXTENDS MCBooks, FiniteSetTheorems, TLAPS

Whole == INSTANCE LongOperationsProofs WITH
  Processes <- {booker}, Entities <- Owners, MaxEntry <- OwnedRows, Alone <- TRUE, Mortal <- FALSE,
  entry <- journal

(***************************************************************************)
(* Facts about numbers and chains                                          *)
(***************************************************************************)

(* One minor unit is a whole number of the old parts. *)
LEMMA DivisorIsWhole ==
  ASSUME NEW r, unit[r] \in DOMAIN Precision
  PROVE  Divisor(r) \in Nat \ {0}
<1>1. Precision[unit[r]] \in 0..Digits /\ Digits \in 0..8
  BY PrecisionsFit
<1>2. \A i \in 1..9 : Powers[i] \in Nat \ {0}
  BY DEF Powers
<1>3. Digits - Precision[unit[r]] + 1 \in 1..9
  BY <1>1
<1> QED BY <1>2, <1>3 DEF Divisor

(* A chain of bare reversals has a start. *)
LEMMA FirstIsNotBare == 1 \notin Bare
BY DEF Bare

LEMMA SourceExists ==
  ASSUME NEW e \in Entries
  PROVE  /\ Source(e) \in 1..e /\ Source(e) \notin Bare /\ Source(e) + 1..e \subseteq Bare
<1> DEFINE Back == {k \in Nat : k < e /\ e - k \notin Bare}
<1>1. e \in Nat /\ e >= 1
  BY RowsAreNumbers DEF Entries
<1>2. e - 1 \in Back
  BY <1>1, FirstIsNotBare
<1>3. PICK k \in Back : \A j \in Back : k <= j
  BY <1>2, Whole!LeastNumber
<1>4. e - k \in 1..e /\ e - k \notin Bare
  BY <1>1, <1>3
<1>5. ASSUME NEW s \in e - k + 1..e
      PROVE  s \in Bare
  <2>1. e - s \in Nat /\ e - s < k /\ e - (e - s) = s
    BY <1>1, <1>3, <1>5
  <2>2. e - s \notin Back
    BY <1>3, <2>1
  <2> QED BY <1>1, <2>1, <2>2
<1>6. \E s \in 1..e : s \notin Bare /\ s + 1..e \subseteq Bare
  BY <1>4, <1>5
<1> QED BY <1>6 DEF Source

(* It is e itself, or that of the entry before. *)
LEMMA SourceIsNear ==
  ASSUME NEW e \in Entries
  PROVE  IF e \in Bare THEN e - 1 \in Entries /\ Source(e) = Source(e - 1) ELSE Source(e) = e
<1>1. e \in Nat /\ e >= 1 /\ e <= Chain + 1 /\ Chain \in Nat
  BY RowsAreNumbers DEF Entries
<1>2. CASE e \notin Bare
  <2>1. Source(e) \in 1..e /\ (Source(e) + 1..e \subseteq Bare)
    BY SourceExists
  <2> QED BY <1>1, <1>2, <2>1
<1>3. CASE e \in Bare
  <2>1. e # 1 /\ e - 1 \in Entries
    BY <1>1, <1>3, FirstIsNotBare DEF Entries
  <2> DEFINE s == Source(e)
             t == Source(e - 1)
  <2>2. s \in 1..e /\ s \notin Bare /\ s + 1..e \subseteq Bare
    BY SourceExists
  <2>3. t \in 1..e - 1 /\ t \notin Bare /\ t + 1..e - 1 \subseteq Bare
    BY <2>1, SourceExists
  <2> HIDE DEF s, t
  <2>4. s # e
    BY <1>3, <2>2
  <2>5. ~(s < t)
    BY <1>1, <2>2, <2>3
  <2>6. ~(t < s)
    BY <1>1, <2>2, <2>3, <2>4
  <2>7. s = t
    BY <1>1, <2>2, <2>3, <2>5, <2>6
  <2> QED BY <1>3, <2>1, <2>7 DEF s, t
<1> QED BY <1>2, <1>3

(***************************************************************************)
(* Types, for any number of processes                                      *)
(***************************************************************************)

Types == TypeOK /\ \A p \in Processes : ~Idle(p) => done[p] \in Versions

LEMMA TypesInit == Init => Types
<1> SUFFICES ASSUME Init
             PROVE  Types
  OBVIOUS
<1>1. \A r \in Figures : first[r] \in Int
  BY RowsAreNumbers DEF Init
<1>2. CASE version >= Rescale
  <2>1. \A r \in Figures : Divisor(r) \in Nat \ {0}
    BY <1>2, DivisorIsWhole DEF Init
  <2>2. \A r \in Figures : first[r] \div Divisor(r) \in Int
    BY <1>1, <2>1
  <2>3. value = [r \in Figures |-> first[r] \div Divisor(r)]
    BY <1>2 DEF Init
  <2> QED BY <2>2, <2>3 DEF Init, Types, TypeOK, Idle
<1>3. CASE ~(version >= Rescale)
  <2>1. value = [r \in Figures |-> first[r]]
    BY <1>3 DEF Init
  <2> QED BY <1>1, <2>1 DEF Init, Types, TypeOK, Idle
<1> QED BY <1>2, <1>3

(* What a migration leaves of the tags of an entry. *)
LEMMA TagsAfter ==
  ASSUME Types, NEW v, Migration(v)
  PROVE  /\ tags' \in [Entries -> SUBSET Labels]
         /\ \A e \in Entries \ Bare : tags'[e] = tags[e]
<1>1. CASE UNCHANGED tags
  BY <1>1 DEF Types, TypeOK
<1>2. CASE TagReversals(v)
  <2>1. \A e \in Bare : e - 1 \in Entries
    BY RowsAreNumbers DEF Bare, Entries
  <2> QED BY <1>2, <2>1 DEF TagReversals, Types, TypeOK
<1>3. CASE TagChains(v)
  <2>1. \A e \in Entries : Source(e) \in Entries
    <3>1. ASSUME NEW e \in Entries
          PROVE  Source(e) \in Entries
      <4>1. Source(e) \in 1..e /\ e \in Nat /\ e <= Chain + 1 /\ Chain \in Nat
        BY SourceExists, RowsAreNumbers DEF Entries
      <4> HIDE DEF Source
      <4> QED BY <4>1 DEF Entries
    <3> QED BY <3>1
  <2>2. \A e \in Entries \ Bare : Source(e) = e
    BY SourceIsNear
  <2> QED BY <1>3, <2>1, <2>2 DEF TagChains, Types, TypeOK
<1> QED BY <1>1, <1>2, <1>3 DEF Migration, RunScript, ToMinor

LEMMA TypesNext == Types /\ [Next]_vars => Types'
<1> SUFFICES ASSUME Types, [Next]_vars
             PROVE  Types'
  OBVIOUS
<1>1. CASE UNCHANGED vars
  BY <1>1 DEF vars, Types, TypeOK, Idle
<1>2. ASSUME NEW p \in Processes, ReadVersion(p)
      PROVE  Types'
  BY <1>2 DEF ReadVersion, Types, TypeOK, Idle
<1>3. ASSUME NEW p \in Processes, Apply(p)
      PROVE  Types'
  <2> DEFINE v == done[p] + 1
  <2>1. /\ read[p] # Unknown /\ done[p] # Last /\ Migration(v) /\ version' = v
        /\ done' = [done EXCEPT ![p] = v] /\ UNCHANGED <<unit, first, edited, read>>
    BY <1>3 DEF Apply, Idle, Ready
  <2>2. v \in Versions
    BY <2>1, VersionsAreOrdered DEF Types, Versions, Idle
  <2> HIDE DEF v
  <2>3. schema' \subseteq Script
    BY <2>1 DEF Migration, RunScript, ToMinor, TagReversals, TagChains, Types, TypeOK
  <2>4. value' \in [Figures -> Int]
    <3>1. CASE value' = value
      BY <3>1 DEF Types, TypeOK
    <3>2. CASE ToMinor(v)
      <4>1. \A r \in Figures : Divisor(r) \in Nat \ {0} /\ value[r] \in Int
        BY <3>2, DivisorIsWhole DEF ToMinor, Types, TypeOK
      <4>2. \A r \in Figures : value[r] \div Divisor(r) \in Int
        BY <4>1
      <4> QED BY <3>2, <4>2 DEF ToMinor
    <3> QED BY <2>1, <3>1, <3>2 DEF Migration, RunScript, TagReversals, TagChains
  <2>5. tags' \in [Entries -> SUBSET Labels]
    BY <2>1, TagsAfter
  <2>6. /\ done' \in [Processes -> Versions \cup {Unknown}]
        /\ \A q \in Processes : ~Idle(q)' => done'[q] \in Versions
    BY <2>1, <2>2 DEF Types, TypeOK, Idle
  <2> QED BY <2>1, <2>2, <2>3, <2>4, <2>5, <2>6 DEF Types, TypeOK
<1>4. ASSUME NEW p \in Processes, Close(p)
      PROVE  Types'
  BY <1>4 DEF Close, Types, TypeOK, Idle
<1>5. ASSUME NEW p \in Processes, NEW e \in Entries, NEW set \in SUBSET Labels, SetTags(p, e, set)
      PROVE  Types'
  BY <1>5 DEF SetTags, Types, TypeOK, Idle
<1> QED BY <1>1, <1>2, <1>3, <1>4, <1>5 DEF Next

(***************************************************************************)
(* One process at a time                                                   *)
(***************************************************************************)

Alone == \A p, q \in Processes : p = q

(* The process that is at work knows the version, and a row in minor units has a unit. *)
KnowsVersion == \A p \in Processes : ~Idle(p) => done[p] = version
RowsHaveUnits == version >= Rescale => \A r \in Figures : unit[r] # NoUnit

IInv == Types /\ KnowsVersion /\ RowsHaveUnits /\ SchemaIsTheVersion /\ ValuesKept /\ ReversalsAreTagged

LEMMA InitHolds == Init => IInv
<1> SUFFICES ASSUME Init
             PROVE  IInv
  OBVIOUS
<1>1. Types
  BY TypesInit
<1>2. KnowsVersion /\ RowsHaveUnits /\ SchemaIsTheVersion
  BY DEF Init, KnowsVersion, RowsHaveUnits, SchemaIsTheVersion, Idle
<1>3. ValuesKept
  <2>1. ASSUME NEW r \in Figures, version >= Rescale
        PROVE  value[r] * Divisor(r) = first[r]
    <3>1. Divisor(r) \in Nat \ {0} /\ first[r] \in Int /\ first[r] % Divisor(r) = 0
      BY <2>1, DivisorIsWhole, RowsAreNumbers DEF Init
    <3>2. value[r] = first[r] \div Divisor(r)
      BY <2>1 DEF Init
    <3> HIDE DEF Divisor
    <3> QED BY <3>1, <3>2
  <2>2. ASSUME NEW r \in Figures, ~(version >= Rescale)
        PROVE  value[r] = first[r]
    BY <2>2 DEF Init
  <2> QED BY <2>1, <2>2 DEF ValuesKept
<1>4. ReversalsAreTagged
  BY DEF Init, ReversalsAreTagged
<1> QED BY <1>1, <1>2, <1>3, <1>4 DEF IInv

(* A step that leaves the file alone. *)
LEMMA FileUnchanged ==
  ASSUME IInv, Types', KnowsVersion', UNCHANGED <<version, schema, unit, value, first, tags, edited>>
  PROVE  IInv'
BY DEF IInv, RowsHaveUnits, SchemaIsTheVersion, ValuesKept, Divisor, ReversalsAreTagged

(* The next migration of the process that is at work. *)
LEMMA ApplyStep ==
  ASSUME IInv, Types', Alone, NEW p \in Processes, Apply(p)
  PROVE  IInv'
<1> DEFINE v == version + 1
<1>1. /\ done[p] = version /\ Migration(v) /\ version' = v /\ done' = [done EXCEPT ![p] = v]
      /\ UNCHANGED <<unit, first, edited, read>>
  BY DEF Apply, IInv, KnowsVersion
<1>2. version \in Nat /\ v \in Nat
  BY VersionsAreOrdered DEF IInv, Types, TypeOK, Versions
<1>3. KnowsVersion'
  BY <1>1 DEF KnowsVersion, Idle, Alone, IInv, Types, TypeOK
<1>4. SchemaIsTheVersion'
  <2>1. CASE v \in Script /\ RunScript(v)
    <3>1. \A u \in Script : u <= v <=> u <= version \/ u = v
      BY <1>2, VersionsAreOrdered
    <3>2. schema' = schema \cup {v}
      BY <2>1 DEF RunScript
    <3> HIDE DEF v
    <3> QED BY <1>1, <2>1, <3>1, <3>2 DEF IInv, SchemaIsTheVersion
  <2>2. CASE v \notin Script /\ schema' = schema
    <3>1. ASSUME NEW u \in Script
          PROVE  u <= v <=> u <= version
      <4>1. u \in Nat /\ u # version + 1
        BY <2>2, VersionsAreOrdered
      <4> QED BY <1>2, <4>1
    <3> HIDE DEF v
    <3> QED BY <1>1, <2>2, <3>1 DEF IInv, SchemaIsTheVersion
  <2> QED BY <1>1, <2>1, <2>2, VersionsAreOrdered DEF Migration, ToMinor, TagReversals, TagChains
<1>5. RowsHaveUnits' /\ ValuesKept'
  <2>1. CASE v = Rescale
    <3>1. ToMinor(v) /\ ~(version >= Rescale)
      BY <1>1, <1>2, <2>1, VersionsAreOrdered DEF Migration
    <3>2. ASSUME NEW r \in Figures
          PROVE  /\ Divisor(r) \in Nat \ {0} /\ Divisor(r)' = Divisor(r)
                 /\ value'[r] * Divisor(r) = first[r] /\ unit[r] # NoUnit
      <4>1. unit[r] # NoUnit /\ value[r] % Divisor(r) = 0 /\ value'[r] = value[r] \div Divisor(r)
        BY <3>1 DEF ToMinor
      <4>2. Divisor(r) \in Nat \ {0}
        BY <4>1, DivisorIsWhole DEF IInv, Types, TypeOK
      <4>3. value[r] \in Int /\ value[r] = first[r]
        BY <3>1 DEF IInv, ValuesKept, Types, TypeOK
      <4>4. Divisor(r)' = Divisor(r)
        BY <1>1 DEF Divisor
      <4> HIDE DEF Divisor
      <4> QED BY <4>1, <4>2, <4>3, <4>4
    <3>3. unit' = unit /\ first' = first
      BY <1>1
    <3>4. version' >= Rescale
      BY <1>1, <2>1, VersionsAreOrdered
    <3> HIDE DEF v
    <3>5. RowsHaveUnits'
      BY <3>2, <3>3 DEF RowsHaveUnits
    <3>6. ValuesKept'
      <4>1. \A r \in Figures : value'[r] * Divisor(r)' = first'[r]
        BY <3>2, <3>3
      <4> QED BY <3>4, <4>1 DEF ValuesKept
    <3> QED BY <3>5, <3>6
  <2>2. CASE v # Rescale
    <3>1. version' >= Rescale <=> version >= Rescale
      BY <1>1, <1>2, <2>2, VersionsAreOrdered
    <3>2. value' = value
      BY <1>1, <2>2 DEF Migration, RunScript, TagReversals, TagChains
    <3> QED BY <1>1, <3>1, <3>2 DEF IInv, RowsHaveUnits, ValuesKept, Divisor
  <2> QED BY <2>1, <2>2
<1>6. ReversalsAreTagged'
  <2>1. CASE v = RepairChains
    <3>1. tags' = [e \in Entries |-> tags[Source(e)]]
      BY <1>1, <2>1, VersionsAreOrdered DEF Migration, TagChains
    <3>2. ASSUME NEW e \in Entries \ {1}, tags'[e] = {}
          PROVE  e \in edited \/ tags'[e - 1] = {}
      <4>1. CASE e \in Bare
        <5>1. e - 1 \in Entries /\ Source(e) = Source(e - 1)
          BY <4>1, SourceIsNear
        <5> QED BY <3>1, <3>2, <5>1
      <4>2. CASE e \notin Bare
        <5>1. Source(e) = e
          BY <4>2, SourceIsNear
        <5> QED BY <3>1, <3>2, <4>2, <5>1 DEF Bare
      <4> QED BY <4>1, <4>2
    <3> QED BY <1>1, <3>2 DEF ReversalsAreTagged
  <2>2. CASE v < RepairChains
    BY <1>1, <1>2, <2>2, VersionsAreOrdered DEF ReversalsAreTagged
  <2>3. CASE v > RepairChains
    <3>1. version >= RepairChains
      BY <1>2, <2>3, VersionsAreOrdered
    <3>2. v # Rescale /\ v # RepairTags /\ v # RepairChains
      BY <1>2, <2>3, VersionsAreOrdered
    <3>3. tags' = tags
      BY <1>1, <3>2 DEF Migration, RunScript
    <3> QED BY <1>1, <3>1, <3>3 DEF IInv, ReversalsAreTagged
  <2> QED BY <1>2, <2>1, <2>2, <2>3, VersionsAreOrdered
<1> QED BY <1>3, <1>4, <1>5, <1>6 DEF IInv

LEMMA SetTagsStep ==
  ASSUME IInv, Types', NEW p \in Processes, NEW e \in Entries, NEW set \in SUBSET Labels, SetTags(p, e, set)
  PROVE  IInv'
<1>1. UNCHANGED <<version, schema, unit, value, first, read, done>>
  BY DEF SetTags
<1>2. ReversalsAreTagged'
  <2> SUFFICES ASSUME version >= RepairChains, NEW k \in Entries \ {1}, tags'[k] = {}
               PROVE  k \in edited' \/ k - 1 \in edited' \/ tags'[k - 1] = {}
    BY <1>1 DEF ReversalsAreTagged
  <2>1. k - 1 \in Entries
    BY RowsAreNumbers DEF Entries
  <2>2. tags' = [tags EXCEPT ![e] = set] /\ edited \subseteq edited' /\ (set # tags[e] => e \in edited')
    BY DEF SetTags
  <2>3. \A j \in Entries : j \in edited' \/ tags'[j] = tags[j]
    BY <2>2 DEF IInv, Types, TypeOK
  <2>4. tags[k] = {} => k \in edited \/ k - 1 \in edited \/ tags[k - 1] = {}
    BY DEF IInv, ReversalsAreTagged
  <2> QED BY <2>1, <2>2, <2>3, <2>4
<1> QED BY <1>1, <1>2 DEF IInv, KnowsVersion, Idle, RowsHaveUnits, SchemaIsTheVersion, ValuesKept, Divisor

LEMMA NextHolds == Alone /\ IInv /\ [Next]_vars => IInv'
<1> SUFFICES ASSUME Alone, IInv, [Next]_vars
             PROVE  IInv'
  OBVIOUS
<1>1. Types'
  BY TypesNext DEF IInv
<1>2. CASE UNCHANGED vars
  BY <1>1, <1>2, FileUnchanged DEF vars, IInv, KnowsVersion, Idle
<1>3. ASSUME NEW p \in Processes, ReadVersion(p) \/ Close(p)
      PROVE  IInv'
  <2>1. UNCHANGED <<version, schema, unit, value, first, tags, edited>>
    BY <1>3 DEF ReadVersion, Close
  <2>2. KnowsVersion'
    BY <1>3 DEF ReadVersion, Close, KnowsVersion, Idle, Alone, IInv, Types, TypeOK
  <2> QED BY <1>1, <2>1, <2>2, FileUnchanged
<1>4. ASSUME NEW p \in Processes, Apply(p)
      PROVE  IInv'
  BY <1>1, <1>4, ApplyStep
<1>5. ASSUME NEW p \in Processes, NEW e \in Entries, NEW set \in SUBSET Labels, SetTags(p, e, set)
      PROVE  IInv'
  BY <1>1, <1>5, SetTagsStep
<1> QED BY <1>2, <1>3, <1>4, <1>5 DEF Next

(***************************************************************************)
(* Theorems                                                                *)
(***************************************************************************)

(* Every variable keeps its type, for any number of processes that open the file. *)
THEOREM TypeCorrect == Spec => []TypeOK
<1>1. Types => TypeOK
  BY DEF Types
<1> QED BY <1>1, TypesInit, TypesNext, PTL DEF Spec

(* A migration changes the tags of bare reversals only. *)
LEMMA TagEditsKept == Types /\ [Next]_vars => [KeepsTagEdits]_vars
<1> SUFFICES ASSUME Types, NEW p \in Processes, Apply(p)
             PROVE  KeepsTagEdits
  BY DEF Next, ReadVersion, Close, SetTags, KeepsTagEdits, vars
<1>1. PICK v : Migration(v)
  BY DEF Apply
<1>2. \A e \in edited : e \in Entries \ Bare
  BY DEF Types, TypeOK, Bare
<1> QED BY <1>1, <1>2, TagsAfter DEF KeepsTagEdits

(* repair_reversal_tags, repair_reversal_chains and the others overwrite no tags that
   somebody set, for any number of processes. *)
THEOREM EditsAreKept == Spec => [][KeepsTagEdits]_vars
BY TagEditsKept, TypesInit, TypesNext, PTL DEF Spec

(* migrate_to, one process at a time, whatever fails or dies between two migrations: the
   version tells the tables, every value stays the decimal it was, and no reversal is
   without the tags of what it reverses once the repairs have run. *)
THEOREM UpgradeHolds ==
  ASSUME Alone
  PROVE  Spec => [](SchemaIsTheVersion /\ ValuesKept /\ ReversalsAreTagged)
<1>1. IInv => SchemaIsTheVersion /\ ValuesKept /\ ReversalsAreTagged
  BY DEF IInv
<1>2. IInv /\ [Next]_vars => IInv'
  BY NextHolds
<1> QED BY <1>1, <1>2, InitHolds, PTL DEF Spec

(* The same of the books as a whole, with everything else they can begin with. *)
THEOREM UpgradeOfTheBooks ==
  ASSUME Alone
  PROVE  Books => []UpgradeKeepsBooks
<1> DEFINE FileInv == focus = "file" => IInv
<1>1. Begins => FileInv
  BY InitHolds DEF Begins
<1>2. FileInv /\ [Work]_all => FileInv'
  <2> SUFFICES ASSUME FileInv, [Work]_all, focus' = "file"
               PROVE  IInv'
    OBVIOUS
  <2>1. focus = "file" /\ [Next]_vars
    BY DEF Work, AmountStep, ScheduleStep, OperationStep, ChartStep, CurrencyStep, FileStep, all
  <2> QED BY <2>1, NextHolds
<1>3. FileInv => UpgradeKeepsBooks
  BY DEF UpgradeKeepsBooks, IInv
<1> HIDE DEF FileInv
<1> QED BY <1>1, <1>2, <1>3, PTL DEF Books

(***************************************************************************)
(* Operations of several transactions, in the books as a whole             *)
(***************************************************************************)

(* MCBooks and the proofs instantiate the operations alike. *)
LEMMA SameOperations ==
  /\ Operation!Init => Whole!Init
  /\ Operation!Next => Whole!Next
  /\ operations = Whole!vars
<1>1. Operation!Init => Whole!Init
  BY DEF Operation!Init, Whole!Init, Operation!Entries, Whole!Entries,
         Operation!NoRow, Whole!NoRow, Operation!Idle, Whole!Idle
<1>2. Operation!Next => Whole!Next
  BY DEF Operation!Entries, Whole!Entries, Operation!NoEntry, Whole!NoEntry,
         Operation!NoRow, Whole!NoRow, Operation!Idle, Whole!Idle, Operation!Quiet, Whole!Quiet,
         Operation!Rows, Whole!Rows, Operation!Chained, Whole!Chained, Operation!Live, Whole!Live,
         Operation!Link, Whole!Link, Operation!HeadOf, Whole!HeadOf,
         Operation!Appended, Whole!Appended, Operation!Row, Whole!Row,
         Operation!Create, Whole!Create, Operation!Beside, Whole!Beside,
         Operation!Capture, Whole!Capture, Operation!Post, Whole!Post, Operation!Void, Whole!Void,
         Operation!Referred, Whole!Referred, Operation!DeleteDraft, Whole!DeleteDraft,
         Operation!SetPrice, Whole!SetPrice, Operation!SetLock, Whole!SetLock,
         Operation!Free, Whole!Free, Operation!FirstHalf, Whole!FirstHalf,
         Operation!SecondHalf, Whole!SecondHalf, Operation!Undo, Whole!Undo,
         Operation!LinkHalves, Whole!LinkHalves, Operation!Missing, Whole!Missing,
         Operation!Revalue, Whole!Revalue, Operation!Fixable, Whole!Fixable,
         Operation!Earliest, Whole!Earliest, Operation!RevalueNext, Whole!RevalueNext,
         Operation!RechainFrom, Whole!RechainFrom, Operation!RechainRow, Whole!RechainRow,
         Operation!Revalued, Whole!Revalued, Operation!Die, Whole!Die,
         Operation!Transfer, Whole!Transfer, Operation!Revaluation, Whole!Revaluation,
         Operation!Next, Whole!Next
<1>3. operations = Whole!vars
  BY DEF operations, Whole!vars
<1> QED BY <1>1, <1>2, <1>3

LEMMA SameWholeness ==
  Whole!ChainsVerify /\ Whole!TransfersAreWhole => Operation!TransfersAreWhole /\ Operation!ChainsVerify
BY DEF Operation!TransfersAreWhole, Whole!TransfersAreWhole,
       Operation!ChainsVerify, Whole!ChainsVerify, Operation!Verifies, Whole!Verifies,
       Operation!Quiet, Whole!Quiet, Operation!Rows, Whole!Rows, Operation!Entries, Whole!Entries,
       Operation!NoRow, Whole!NoRow, Operation!Idle, Whole!Idle, Operation!Chained, Whole!Chained,
       Operation!Link, Whole!Link

(* While the books are about operations, the whole invariant of LongOperationsProofs holds. *)
OperationInv == focus = "operations" => Whole!IInv

LEMMA OperationInvInit == Begins => OperationInv
<1>1. Begins /\ focus = "operations" => Operation!Init
  BY DEF Begins
<1> QED BY <1>1, RowsAreCounted, SameOperations, Whole!InitHolds DEF OperationInv

LEMMA OperationInvNext == OperationInv /\ [Work]_all => OperationInv'
<1> SUFFICES ASSUME OperationInv, [Work]_all, focus' = "operations"
             PROVE  Whole!IInv'
  BY DEF OperationInv
<1>1. focus = "operations" /\ (Operation!Next \/ UNCHANGED operations)
  BY DEF Work, AmountStep, ScheduleStep, OperationStep, ChartStep, CurrencyStep, FileStep, all
<1>2. [Whole!Next]_(Whole!vars)
  BY <1>1, SameOperations DEF operations, Whole!vars
<1> QED BY <1>1, <1>2, RowsAreCounted, Whole!NextHolds DEF OperationInv

(* No transfer stays one-sided and no chain is left wrong by an operation that is over
   (journal.rs, rates.rs), in the composition that the run checks. *)
THEOREM OperationsOfTheBooks == Books => []OperationsAreWhole
<1>1. OperationInv => OperationsAreWhole
  BY Whole!WholeAtTheEnd, SameWholeness DEF OperationsAreWhole, OperationInv
<1> QED BY <1>1, OperationInvInit, OperationInvNext, PTL DEF Books

(***************************************************************************)
(* What is settled                                                         *)
(***************************************************************************)

LEMMA ClosedKept ==
  ASSUME OperationInv, focus = "operations", Operation!Next
  PROVE  Operation!KeepsClosed
<1>1. [Whole!Next]_(Whole!vars)
  BY SameOperations
<1>2. Whole!Types
  BY DEF OperationInv, Whole!IInv
<1>3. [Whole!KeepsClosed]_(Whole!vars)
  BY <1>1, <1>2, Whole!ClosedKept
<1>4. Whole!KeepsClosed
  BY <1>3 DEF Whole!KeepsClosed, Whole!vars
<1> QED BY <1>4 DEF Operation!KeepsClosed, Whole!KeepsClosed, Operation!Rows, Whole!Rows,
            Operation!Entries, Whole!Entries, Operation!NoRow, Whole!NoRow

(* A change of the chart leaves a vault with the same fields. *)
LEMMA MergedFields ==
  ASSUME NEW v, NEW a, NEW b, NEW w \in Accounts!Merged(v, a, b)
  PROVE  DOMAIN w = DOMAIN v
BY DEF Accounts!Merged, Accounts!Redirected

LEMMA NodeFields ==
  ASSUME NEW v, NEW node, NEW w \in Accounts!WithNode(v, node)
  PROVE  DOMAIN w = DOMAIN v
<1>1. \A u, parent, name, type, place : \A x \in Accounts!Ensured(u, parent, name, type, place) : DOMAIN x = DOMAIN u
  BY DEF Accounts!Ensured, Accounts!Put
<1>2. \A u, a, placeholder : DOMAIN Accounts!AsPlaceholder(u, a, placeholder) = DOMAIN u
  BY DEF Accounts!AsPlaceholder
<1>3. \A x \in Accounts!WithTop(v, node) : DOMAIN x = DOMAIN v
  BY <1>1 DEF Accounts!WithTop
<1>4. \A x \in Accounts!WithPath(v, node) : DOMAIN x = DOMAIN v
  BY <1>1, <1>3 DEF Accounts!WithPath
<1> QED BY <1>2, <1>4 DEF Accounts!WithNode

LEMMA ChartFields ==
  ASSUME Accounts!Next
  PROVE  DOMAIN books' = DOMAIN books
<1>1. CASE Accounts!ApplyChart
  BY <1>1, NodeFields DEF Accounts!ApplyChart, Accounts!Edit
<1>2. CASE Accounts!Merge
  BY <1>2, MergedFields DEF Accounts!Merge, Accounts!Edit
<1>3. CASE Accounts!Remap
  BY <1>3, NodeFields, MergedFields DEF Accounts!Remap, Accounts!Edit
<1>4. CASE Accounts!CreateAccount
  BY <1>4 DEF Accounts!CreateAccount, Accounts!Put, Accounts!Edit
<1>5. CASE Accounts!Move \/ Accounts!Classify \/ Accounts!Reuse \/ Accounts!CloseAccount
  BY <1>5 DEF Accounts!Move, Accounts!Classify, Accounts!Reuse, Accounts!CloseAccount, Accounts!Edit
<1>6. CASE Accounts!Book \/ Accounts!Confirm \/ Accounts!Void \/ Accounts!Reconcile
  BY <1>6 DEF Accounts!Book, Accounts!Confirm, Accounts!Void, Accounts!Reconcile, Accounts!Edit
<1>7. CASE Accounts!Recategorize \/ Accounts!TagAccount
  BY <1>7 DEF Accounts!Recategorize, Accounts!Recategorized, Accounts!TagAccount, Accounts!Edit
<1>8. CASE Accounts!SaveRule \/ Accounts!SaveTemplate \/ Accounts!SaveBudget \/ Accounts!DeleteBudget
  BY <1>8 DEF Accounts!SaveRule, Accounts!SaveTemplate, Accounts!SaveBudget, Accounts!DeleteBudget, Accounts!Edit
<1> QED BY <1>1, <1>2, <1>3, <1>4, <1>5, <1>6, <1>7, <1>8 DEF Accounts!Next

ChartInv == focus = "chart" => "entries" \in DOMAIN books

LEMMA ChartInvInit == Begins => ChartInv
BY DEF Begins, ChartInv, Accounts!Init

LEMMA ChartInvNext == ChartInv /\ [Work]_all => ChartInv'
<1> SUFFICES ASSUME ChartInv, [Work]_all, focus' = "chart"
             PROVE  "entries" \in DOMAIN books'
  BY DEF ChartInv
<1>1. focus = "chart" /\ (Accounts!Next \/ UNCHANGED books)
  BY DEF Work, AmountStep, ScheduleStep, OperationStep, ChartStep, CurrencyStep, FileStep, all, chart
<1> QED BY <1>1, ChartFields DEF ChartInv

(* Postings that are reconciled are refused, and the others are all that is moved. *)
LEMMA EvidenceKept ==
  ASSUME "entries" \in DOMAIN books
  PROVE  Accounts!KeepsEvidence
<1> SUFFICES ASSUME Accounts!Recategorize, NEW j \in DOMAIN Accounts!Entries, Accounts!Entries[j].reconciled
             PROVE  books'.entries[j].account = Accounts!Entries[j].account
  BY DEF Accounts!KeepsEvidence
<1>1. PICK is, b, more : Accounts!AllAreFree(is) /\ books' = Accounts!Recategorized(is, b, more)
  BY DEF Accounts!Recategorize, Accounts!Edit
<1>2. j \notin is
  BY <1>1 DEF Accounts!AllAreFree
<1> QED BY <1>1, <1>2 DEF Accounts!Recategorized

FileInv == focus = "file" => Types

(* The three of them: closed periods (rates.rs), reconciled postings (accounts.rs) and
   edited tags (tags.rs) stay as they are, in the composition that the run checks. *)
THEOREM SettledForGood == Books => SettledStays
<1> DEFINE Settled ==
      /\ focus = "operations" => Operation!KeepsClosed
      /\ focus = "chart" => Accounts!KeepsEvidence
      /\ focus = "file" => KeepsTagEdits
<1>1. Begins => FileInv
  BY TypesInit DEF Begins, FileInv
<1>2. FileInv /\ [Work]_all => FileInv'
  <2> SUFFICES ASSUME FileInv, [Work]_all, focus' = "file"
               PROVE  Types'
    BY DEF FileInv
  <2>1. focus = "file" /\ [Next]_vars
    BY DEF Work, AmountStep, ScheduleStep, OperationStep, ChartStep, CurrencyStep, FileStep, all
  <2> QED BY <2>1, TypesNext DEF FileInv
<1>3. OperationInv /\ ChartInv /\ FileInv /\ [Work]_all => [Settled]_all
  <2> SUFFICES ASSUME OperationInv, ChartInv, FileInv, Work
               PROVE  Settled
    OBVIOUS
  <2>1. ASSUME focus = "operations"
        PROVE  Operation!KeepsClosed
    BY <2>1, ClosedKept DEF Work, AmountStep, ScheduleStep, OperationStep, ChartStep, CurrencyStep, FileStep
  <2>2. ASSUME focus = "chart"
        PROVE  Accounts!KeepsEvidence
    BY <2>2, EvidenceKept DEF ChartInv
  <2>3. ASSUME focus = "file"
        PROVE  KeepsTagEdits
    <3>1. Next /\ Types
      BY <2>3 DEF FileInv, Work, AmountStep, ScheduleStep, OperationStep, ChartStep, CurrencyStep, FileStep
    <3>2. [KeepsTagEdits]_vars
      BY <3>1, TagEditsKept
    <3> QED BY <3>2 DEF KeepsTagEdits, vars
  <2> QED BY <2>1, <2>2, <2>3
<1> HIDE DEF Settled
<1>4. Books => [][Settled]_all
  BY <1>1, <1>2, <1>3, OperationInvInit, OperationInvNext, ChartInvInit, ChartInvNext, PTL DEF Books
<1> QED BY <1>4 DEF Settled, SettledStays

(***************************************************************************)
(* Occurrences of schedules                                                *)
(***************************************************************************)

(* Of an entry it matters what it was made from; categorizing and voiding leave that. *)
Named == \A e \in Schedule!Rows : {"template", "date", "origin"} \subseteq DOMAIN entry[e]

ScheduleInv ==
  focus = "schedule" => DOMAIN entry = Occurring /\ Named /\ Schedule!EachDateOnce

(* A step that makes no row, and leaves what rows were made from. *)
LEMMA NoNewRow ==
  ASSUME Named, Schedule!EachDateOnce,
         \A e \in Occurring : entry'[e] # Schedule!None =>
           /\ e \in Schedule!Rows
           /\ {"template", "date", "origin"} \subseteq DOMAIN entry'[e]
           /\ entry'[e].template = entry[e].template /\ entry'[e].date = entry[e].date
           /\ entry'[e].origin = entry[e].origin
  PROVE  Named' /\ Schedule!EachDateOnce'
BY DEF Named, Schedule!EachDateOnce, Schedule!Rows

(* One new row: no occurrence, or one that was not there. *)
LEMMA NewRow ==
  ASSUME DOMAIN entry = Occurring, Named, Schedule!EachDateOnce, NEW row, Schedule!Apply(row),
         {"template", "date", "origin"} \subseteq DOMAIN row,
         row.origin = "schedule" => ~Schedule!Exists(row.template, row.date)
  PROVE  DOMAIN entry' = Occurring /\ Named' /\ Schedule!EachDateOnce'
<1>1. PICK n \in Occurring : entry' = [entry EXCEPT ![n] = row] /\ n \notin Schedule!Rows
  <2>1. Schedule!New \in Schedule!Free
    BY DEF Schedule!Apply, Schedule!New
  <2> QED BY <2>1 DEF Schedule!Apply, Schedule!Free
<1>2. Schedule!Rows' \subseteq Schedule!Rows \cup {n}
  BY <1>1 DEF Schedule!Rows
<1>3. entry'[n] = row /\ \A e \in Occurring : e # n => entry'[e] = entry[e]
  BY <1>1
<1>4. \A e \in Schedule!Rows : e \in Occurring /\ e # n
  BY <1>1 DEF Schedule!Rows
<1>5. Named'
  BY <1>2, <1>3, <1>4 DEF Named
<1>6. Schedule!EachDateOnce'
  <2>1. \A e \in Schedule!Rows : row.origin = "schedule" =>
          ~(entry[e].template = row.template /\ entry[e].date = row.date /\ entry[e].origin = "schedule")
    BY DEF Schedule!Exists
  <2> QED BY <1>2, <1>3, <1>4, <2>1 DEF Schedule!EachDateOnce
<1> QED BY <1>1, <1>5, <1>6

LEMMA AppliedFields ==
  ASSUME NEW t, NEW inputs, NEW date, NEW origin, NEW status, NEW ln
  PROVE  LET row == Schedule!Applied(t, inputs, date, origin, status, ln)
         IN  /\ {"template", "date", "origin"} \subseteq DOMAIN row
             /\ row.template = t /\ row.date = date /\ row.origin = origin
BY DEF Schedule!Applied

LEMMA ScheduleInvNext == ScheduleInv /\ [Work]_all => ScheduleInv'
<1> SUFFICES ASSUME ScheduleInv, [Work]_all, focus' = "schedule"
             PROVE  DOMAIN entry' = Occurring /\ Named' /\ Schedule!EachDateOnce'
  BY DEF ScheduleInv
<1>1. focus = "schedule" /\ DOMAIN entry = Occurring /\ Named /\ Schedule!EachDateOnce
  BY DEF ScheduleInv, Work, AmountStep, ScheduleStep, OperationStep, ChartStep, CurrencyStep, FileStep, all
<1>2. CASE UNCHANGED entry
  BY <1>1, <1>2, NoNewRow DEF Named, Schedule!Rows
<1>3. CASE Schedule!Manage \/ Schedule!Schedule \/ Schedule!Beside
  <2>1. CASE Schedule!Manage
    BY <1>2, <2>1 DEF Schedule!Manage, Schedule!Save, Schedule!Delete
  <2>2. CASE Schedule!BookOccurrence
    <3> DEFINE t == Head(run.todo)
               d == Head(run.dates)
               status == IF template[t].auto THEN "posted" ELSE "draft"
               row == Schedule!Applied(t, <<>>, d, "schedule", status, Unstated)
    <3>1. Schedule!Apply(row) /\ ~Schedule!Exists(t, d)
      BY <2>2 DEF Schedule!BookOccurrence
    <3>2. {"template", "date", "origin"} \subseteq DOMAIN row /\ row.template = t /\ row.date = d
      BY AppliedFields
    <3> HIDE DEF row, t, d
    <3> QED BY <1>1, <3>1, <3>2, NewRow
  <2>3. CASE Schedule!Schedule /\ ~Schedule!BookOccurrence
    BY <1>2, <2>3 DEF Schedule!Schedule, Schedule!RunSchedules, Schedule!GoesOn, Schedule!SkipBooked,
                     Schedule!Advance, Schedule!Stop
  <2>4. CASE Schedule!Beside
    <3>1. ASSUME NEW e \in Occurring, Schedule!DeleteDraft(e) \/ Schedule!Void(e)
          PROVE  DOMAIN entry' = Occurring /\ Named' /\ Schedule!EachDateOnce'
      BY <1>1, <3>1, NoNewRow DEF Schedule!DeleteDraft, Schedule!Void, Named, Schedule!Rows
    <3>2. ASSUME NEW e \in Occurring, NEW legs, Schedule!Categorize(e, legs)
          PROVE  DOMAIN entry' = Occurring /\ Named' /\ Schedule!EachDateOnce'
      <4>1. PICK postings : entry' = [entry EXCEPT ![e].status = "posted", ![e].postings = postings]
        BY <3>2 DEF Schedule!Categorize
      <4>2. e \in Schedule!Rows
        BY <3>2 DEF Schedule!Categorize
      <4> QED BY <1>1, <4>1, <4>2, NoNewRow DEF Named, Schedule!Rows
    <3>3. CASE \E d \in Schedule!Days : Schedule!SetLockDate(d)
      BY <1>2, <3>3 DEF Schedule!SetLockDate
    <3> QED BY <2>4, <3>1, <3>2, <3>3 DEF Schedule!Beside
  <2> QED BY <1>3, <2>1, <2>2, <2>3, <2>4
<1>4. [Schedule!Manage \/ Schedule!Schedule \/ Schedule!Beside]_entry
  BY <1>1 DEF Work, AmountStep, ScheduleStep, OperationStep, ChartStep, CurrencyStep, FileStep, all, templates
<1> QED BY <1>2, <1>3, <1>4

(* An occurrence of a schedule is in the journal at most once (templates.rs), for any
   number of templates, days, rows and runs that fail, in the composition. *)
THEOREM OccurrencesOnce == Books => []EachDateOnce
<1>1. Begins => ScheduleInv
  <2>1. Begins /\ focus = "schedule" => Schedule!Init
    BY DEF Begins
  <2> QED BY <2>1 DEF ScheduleInv, Schedule!Init, Named, Schedule!EachDateOnce, Schedule!Rows
<1>2. ScheduleInv => EachDateOnce
  BY DEF ScheduleInv, EachDateOnce
<1> QED BY <1>1, <1>2, ScheduleInvNext, PTL DEF Books


(***************************************************************************)
(* The chart is a forest: of any accounts some one has its parent outside   *)
(* of them.  The parents above an account, as far as there are accounts,    *)
(* then do not come back to it.                                            *)
(***************************************************************************)

Forest(A) == \A S \in SUBSET DOMAIN A : S # {} => \E x \in S : A[x].parent \notin S

Over(A, x)  == IF x \in DOMAIN A THEN A[x].parent ELSE 0
Up(A, x, N) == CHOOSE up : up = [n \in 0..N |-> IF n = 0 THEN x ELSE Over(A, up[n - 1])]

Chained(N, X, start, Step, g) ==
  g \in [0..N -> X] /\ g[0] = start /\ \A n \in 1..N : g[n] = Step[g[n - 1]]

(* A chain of steps, each a function of the one before, exists. *)
LEMMA ChainIs ==
  ASSUME NEW N \in Nat, NEW X, NEW start \in X, NEW Step \in [X -> X]
  PROVE  \E g : Chained(N, X, start, Step, g)
<1> DEFINE Goes(n) == \E g \in [0..n -> X] : g[0] = start /\ \A k \in 1..n : g[k] = Step[g[k - 1]]
           Fails == {n \in 0..N : ~Goes(n)}
<1>1. SUFFICES ASSUME ~Goes(N) PROVE FALSE
  BY DEF Chained
<1>2. N \in Fails /\ Fails \subseteq Nat
  BY <1>1
<1>3. PICK m \in Fails : \A k \in Fails : m <= k
  BY <1>2, Whole!LeastNumber
<1>4. CASE m = 0
  <2>1. [k \in 0..0 |-> start] \in [0..0 -> X] /\ [k \in 0..0 |-> start][0] = start
    OBVIOUS
  <2>2. \A k \in 1..0 : [i \in 0..0 |-> start][k] = Step[[i \in 0..0 |-> start][k - 1]]
    OBVIOUS
  <2>3. Goes(0)
    BY <2>1, <2>2
  <2> QED BY <1>3, <1>4, <2>3
<1>5. CASE m # 0
  <2>1. m \in 1..N /\ m - 1 \in 0..N /\ ~(m <= m - 1)
    BY <1>3, <1>5
  <2>2. Goes(m - 1)
    BY <1>3, <2>1
  <2>3. PICK g \in [0..(m - 1) -> X] : g[0] = start /\ \A k \in 1..(m - 1) : g[k] = Step[g[k - 1]]
    BY <2>2
  <2>4. g[m - 1] \in X /\ Step[g[m - 1]] \in X
    BY <2>1, <2>3
  <2>5. PICK final \in X : final = Step[g[m - 1]]
    BY <2>4
  <2> DEFINE h == [k \in 0..m |-> IF k = m THEN final ELSE g[k]]
  <2>6. h \in [0..m -> X] /\ h[m] = final /\ h[0] = start /\ \A k \in 0..(m - 1) : h[k] = g[k]
    BY <2>1, <2>3
  <2> HIDE DEF h
  <2>7. \A k \in 1..m : h[k] = Step[h[k - 1]]
    <3>1. ASSUME NEW k \in 1..m PROVE h[k] = Step[h[k - 1]]
      <4>1. k - 1 \in 0..(m - 1) /\ h[k - 1] = g[k - 1]
        BY <2>1, <2>6
      <4>2. CASE k = m
        BY <2>5, <2>6, <4>1, <4>2
      <4>3. CASE k # m
        <5>1. k \in 1..(m - 1) /\ k \in 0..(m - 1)
          BY <2>1, <4>3
        <5> QED BY <2>3, <2>6, <4>1, <5>1
      <4> QED BY <4>2, <4>3
    <3> QED BY <3>1
  <2>8. Goes(m)
    BY <2>6, <2>7
  <2> QED BY <1>3, <2>8
<1> QED BY <1>4, <1>5

(* The parents above x, one after the other. *)
LEMMA UpIs ==
  ASSUME NEW A, NEW x, NEW N \in Nat
  PROVE  /\ DOMAIN Up(A, x, N) = 0..N /\ Up(A, x, N)[0] = x
         /\ \A n \in 1..N : Up(A, x, N)[n] = Over(A, Up(A, x, N)[n - 1])
<1>1. \E X, Step : Step \in [X -> X] /\ x \in X /\ \A y \in X : Step[y] = Over(A, y)
  <2> DEFINE X == {x, 0} \cup {A[y].parent : y \in DOMAIN A}
             Step == [y \in X |-> Over(A, y)]
  <2>1. Step \in [X -> X] /\ x \in X /\ \A y \in X : Step[y] = Over(A, y)
    BY DEF Over
  <2> QED BY <2>1
<1>2. PICK X, Step : Step \in [X -> X] /\ x \in X /\ \A y \in X : Step[y] = Over(A, y)
  BY <1>1
<1>3. PICK g : g \in [0..N -> X] /\ g[0] = x /\ \A n \in 1..N : g[n] = Step[g[n - 1]]
  <2>1. PICK g : Chained(N, X, x, Step, g)
    BY <1>2, ChainIs
  <2> QED BY <2>1 DEF Chained
<1>4. \A n \in 1..N : g[n] = Over(A, g[n - 1])
  <2>1. ASSUME NEW n \in 1..N PROVE g[n] = Over(A, g[n - 1])
    <3>1. n - 1 \in 0..N /\ g[n - 1] \in X
      BY <1>3
    <3> QED BY <1>2, <1>3, <3>1
  <2> QED BY <2>1
<1>5. g = [n \in 0..N |-> IF n = 0 THEN x ELSE Over(A, g[n - 1])]
  <2>1. \A n \in 0..N : n = 0 \/ n \in 1..N
    OBVIOUS
  <2> QED BY <1>3, <1>4, <2>1
<1>6. Up(A, x, N) = [n \in 0..N |-> IF n = 0 THEN x ELSE Over(A, Up(A, x, N)[n - 1])]
  BY <1>5 DEF Up
<1>7. DOMAIN Up(A, x, N) = 0..N
  BY <1>6
<1>8. \A n \in 0..N : Up(A, x, N)[n] = IF n = 0 THEN x ELSE Over(A, Up(A, x, N)[n - 1])
  BY <1>6
<1> QED BY <1>7, <1>8

LEMMA AboveIs ==
  ASSUME NEW A, NEW x, IsFiniteSet(DOMAIN A)
  PROVE  /\ Cardinality(DOMAIN A) \in Nat
         /\ Accounts!Above(A, x) = {Up(A, x, Cardinality(DOMAIN A))[n] : n \in 1..Cardinality(DOMAIN A)} \ {0}
<1>1. Cardinality(DOMAIN A) \in Nat
  BY FS_CardinalityType
<1>2. Accounts!Cardinality(DOMAIN A) = Cardinality(DOMAIN A)
  BY DEF Accounts!Cardinality, Cardinality
<1>3. Accounts!Above(A, x) = {Up(A, x, Accounts!Cardinality(DOMAIN A))[n] : n \in 1..Accounts!Cardinality(DOMAIN A)} \ {0}
  BY Zenon DEF Accounts!Above, Up, Over, Accounts!None
<1> QED BY <1>1, <1>2, <1>3

(* What leaves the chart does not come back. *)
LEMMA OutStays ==
  ASSUME NEW A, NEW x, NEW N \in Nat, 0 \notin DOMAIN A,
         NEW i \in 0..N, NEW n \in 0..N, i <= n, Up(A, x, N)[n] \in DOMAIN A
  PROVE  Up(A, x, N)[i] \in DOMAIN A
<1> DEFINE U(k) == Up(A, x, N)[k]
           Back == {k \in Nat : k <= n - i /\ U(n - k) \notin DOMAIN A}
<1>1. SUFFICES ASSUME U(i) \notin DOMAIN A PROVE FALSE
  OBVIOUS
<1>2. n - i \in Back
  <2>1. n - i \in Nat /\ n - (n - i) = i
    OBVIOUS
  <2> QED BY <1>1, <2>1
<1>3. PICK k \in Back : \A j \in Back : k <= j
  BY <1>2, Whole!LeastNumber
<1>4. k # 0 /\ k \in Nat /\ k <= n - i
  BY <1>3
<1>5. k - 1 \in Nat /\ k - 1 <= n - i /\ ~(k <= k - 1) /\ n - (k - 1) \in 1..N /\ (n - (k - 1)) - 1 = n - k
  BY <1>4
<1>6. U(n - (k - 1)) \in DOMAIN A
  BY <1>3, <1>5
<1>7. U(n - (k - 1)) = Over(A, U(n - k))
  BY <1>5, UpIs
<1> QED BY <1>3, <1>6, <1>7 DEF Over

(* In a forest no account is above itself. *)
LEMMA NotAboveItself ==
  ASSUME NEW A, IsFiniteSet(DOMAIN A), 0 \notin DOMAIN A, Forest(A), NEW x \in DOMAIN A
  PROVE  x \notin Accounts!Above(A, x)
<1> SUFFICES ASSUME x \in Accounts!Above(A, x) PROVE FALSE
  OBVIOUS
<1>1. PICK N \in Nat : N = Cardinality(DOMAIN A)
  BY AboveIs
<1>2. PICK n \in 1..N : Up(A, x, N)[n] = x
  BY <1>1, AboveIs
<1> DEFINE S == {Up(A, x, N)[k] : k \in 0..(n - 1)}
<1>3. \A k \in 0..(n - 1) : Up(A, x, N)[k] \in DOMAIN A
  <2>1. ASSUME NEW k \in 0..(n - 1) PROVE Up(A, x, N)[k] \in DOMAIN A
    <3>1. k \in 0..N /\ n \in 0..N /\ k <= n
      OBVIOUS
    <3> QED BY <1>2, <3>1, OutStays
  <2> QED BY <2>1
<1>4. S \in SUBSET DOMAIN A /\ x \in S
  <2>1. 0 \in 0..(n - 1)
    OBVIOUS
  <2> QED BY <1>3, <2>1, UpIs
<1>5. \A k \in 0..(n - 1) : A[Up(A, x, N)[k]].parent \in S
  <2>1. ASSUME NEW k \in 0..(n - 1) PROVE A[Up(A, x, N)[k]].parent \in S
    <3>1. k + 1 \in 1..N /\ (k + 1) - 1 = k
      OBVIOUS
    <3>2. Up(A, x, N)[k + 1] = A[Up(A, x, N)[k]].parent
      BY <1>3, <3>1, UpIs DEF Over
    <3>3. CASE k + 1 = n
      BY <1>2, <1>4, <3>2, <3>3
    <3>4. CASE k + 1 # n
      <4>1. k + 1 \in 0..(n - 1)
        BY <3>4
      <4> QED BY <3>2, <4>1
    <3> QED BY <3>3, <3>4
  <2> QED BY <2>1
<1> QED BY <1>4, <1>5 DEF Forest

(* Two places of one chain with the same account make a ring. *)
LEMMA NoTwice ==
  ASSUME NEW A, 0 \notin DOMAIN A, Forest(A), NEW x, NEW N \in Nat,
         \A n \in 0..N : Up(A, x, N)[n] \in DOMAIN A,
         NEW i \in 0..N, NEW j \in 0..N, i < j
  PROVE  Up(A, x, N)[i] # Up(A, x, N)[j]
<1> SUFFICES ASSUME Up(A, x, N)[i] = Up(A, x, N)[j] PROVE FALSE
  OBVIOUS
<1> DEFINE S == {Up(A, x, N)[k] : k \in i..(j - 1)}
<1>1. S \in SUBSET DOMAIN A /\ Up(A, x, N)[i] \in S
  BY i \in i..(j - 1), i..(j - 1) \subseteq 0..N
<1>2. \A k \in i..(j - 1) : A[Up(A, x, N)[k]].parent \in S
  <2>1. ASSUME NEW k \in i..(j - 1) PROVE A[Up(A, x, N)[k]].parent \in S
    <3>1. k + 1 \in 1..N /\ (k + 1) - 1 = k /\ k \in 0..N
      OBVIOUS
    <3>2. Up(A, x, N)[k + 1] = A[Up(A, x, N)[k]].parent
      BY <3>1, UpIs DEF Over
    <3>3. CASE k + 1 = j
      BY <1>1, <3>2, <3>3
    <3>4. CASE k + 1 # j
      <4>1. k + 1 \in i..(j - 1)
        BY <3>4
      <4> QED BY <3>2, <4>1
    <3> QED BY <3>3, <3>4
  <2> QED BY <2>1
<1> QED BY <1>1, <1>2 DEF Forest

(* An account under a new parent that is not below it leaves a forest: were it in a ring, the
   parents above the new one would be as many as there are accounts, and one more. *)
LEMMA MovedForest ==
  ASSUME NEW A, IsFiniteSet(DOMAIN A), 0 \notin DOMAIN A, Forest(A),
         NEW x \in DOMAIN A, NEW p, p # 0 => p # x /\ x \notin Accounts!Above(A, p),
         NEW B, DOMAIN B = DOMAIN A, B[x].parent = p, \A y \in DOMAIN A \ {x} : B[y].parent = A[y].parent
  PROVE  Forest(B)
<1> SUFFICES ASSUME NEW S \in SUBSET DOMAIN A, S # {}, \A y \in S : B[y].parent \in S
             PROVE  FALSE
  BY DEF Forest
<1>1. x \in S
  BY DEF Forest
<1>2. p \in S /\ p # 0 /\ p # x /\ x # 0
  BY <1>1
<1>3. PICK N \in Nat : N = Cardinality(DOMAIN A)
  BY AboveIs
<1>4. \A n \in 1..N : Up(A, p, N)[n] # x
  BY <1>2, <1>3, AboveIs
<1> DEFINE Out == {n \in 0..N : Up(A, p, N)[n] \notin S \ {x}}
<1>5. Out = {}
  <2> SUFFICES ASSUME Out # {} PROVE FALSE
    OBVIOUS
  <2>1. PICK n \in Out : \A k \in Out : n <= k
    BY Out \subseteq Nat, Whole!LeastNumber
  <2>2. CASE n = 0
    <3>1. Up(A, p, N)[0] = p
      BY UpIs
    <3> QED BY <1>2, <2>1, <2>2, <3>1
  <2>3. CASE n # 0
    <3>1. n \in 1..N /\ n - 1 \in 0..N /\ ~(n <= n - 1)
      BY <2>1, <2>3
    <3>2. Up(A, p, N)[n - 1] \in S \ {x}
      BY <2>1, <3>1
    <3>3. Up(A, p, N)[n] = A[Up(A, p, N)[n - 1]].parent
      BY <3>1, <3>2, UpIs DEF Over
    <3>4. A[Up(A, p, N)[n - 1]].parent \in S
      BY <3>2
    <3>5. Up(A, p, N)[n] # x
      BY <1>4, <3>1
    <3> QED BY <2>1, <3>3, <3>4, <3>5
  <2> QED BY <2>2, <2>3
<1>6. \A n \in 0..N : Up(A, p, N)[n] \in DOMAIN A
  BY <1>5
<1>7. PICK f : f \in [0..N -> DOMAIN A] /\ \A n \in 0..N : f[n] = Up(A, p, N)[n]
  <2> DEFINE g == [n \in 0..N |-> Up(A, p, N)[n]]
  <2>1. g \in [0..N -> DOMAIN A] /\ \A n \in 0..N : g[n] = Up(A, p, N)[n]
    BY <1>6
  <2> HIDE DEF g
  <2> QED BY <2>1
<1>8. IsFiniteSet(0..N) /\ Cardinality(DOMAIN A) < Cardinality(0..N)
  <2>1. IsFiniteSet(0..N) /\ Cardinality(0..N) = N + 1
    <3>1. 0 \in Int /\ N \in Int /\ ~(0 > N) /\ N - 0 + 1 = N + 1
      OBVIOUS
    <3> QED BY <3>1, FS_Interval
  <2> QED BY <1>3, <2>1
<1>9. PICK i, j \in 0..N : i # j /\ f[i] = f[j]
  BY <1>7, <1>8, FS_PigeonHole
<1>10. i < j \/ j < i
  BY <1>9
<1> QED BY <1>6, <1>7, <1>9, <1>10, NoTwice

(* A new account, which is above none, and accounts that go. *)
LEMMA GrownForest ==
  ASSUME NEW A, 0 \notin DOMAIN A, Forest(A), \A y \in DOMAIN A : A[y].parent \in DOMAIN A \cup {0},
         NEW z, z \notin DOMAIN A, z # 0,
         NEW B, DOMAIN B = DOMAIN A \cup {z}, B[z].parent # z, \A y \in DOMAIN A : B[y].parent = A[y].parent
  PROVE  Forest(B)
<1> SUFFICES ASSUME NEW S \in SUBSET DOMAIN B, S # {}, \A y \in S : B[y].parent \in S
             PROVE  FALSE
  BY DEF Forest
<1>1. CASE S \ {z} = {}
  BY <1>1
<1>2. CASE S \ {z} # {}
  <2>1. PICK y \in S \ {z} : A[y].parent \notin S \ {z}
    BY <1>2 DEF Forest
  <2> QED BY <2>1
<1> QED BY <1>1, <1>2

LEMMA PrunedForest ==
  ASSUME NEW A, Forest(A), NEW B, DOMAIN B \subseteq DOMAIN A, \A y \in DOMAIN B : B[y].parent = A[y].parent
  PROVE  Forest(B)
BY DEF Forest

(***************************************************************************)
(* A sound chart: a forest of one type each, with no two accounts of one    *)
(* name and type below one parent; and what names its accounts.            *)
(***************************************************************************)

AccountRow ==
  [parent : Nat, name : ChartNames \cup {"bank", "fund", "system", "food"}, type : {"asset", "expense", "income"},
   unit : ChartUnits \cup {ChartHome, "share"}, class : {"", "fixed"}, placeholder : BOOLEAN, closed : BOOLEAN,
   holding : BOOLEAN]

PaymentRow ==
  [date : ChartDays \cup {Accounts!Min(ChartDays)}, account : Nat, quantity : Int, amount : Int,
   status : {"draft", "posted", "void"}, payee : ChartPayees, tags : SUBSET ChartTags, reverses : Nat,
   reconciled : BOOLEAN]

Planted(A) ==
  /\ A \in [DOMAIN A -> AccountRow] /\ 1 \in DOMAIN A
  /\ \E n \in Nat : DOMAIN A \subseteq 1..n
  /\ Forest(A)
  /\ \A x \in DOMAIN A : A[x].parent # 0 => A[x].parent \in DOMAIN A /\ A[A[x].parent].type = A[x].type

Distinct(A) ==
  \A x, y \in DOMAIN A : x # y => <<A[x].parent, A[x].name, A[x].type>> # <<A[y].parent, A[y].name, A[y].type>>

(* A rule or a template, a budget, and entries. *)
Naming(A, x)     == x \in DOMAIN A \cup {0}
Budgeting(A, bg) == "account" \in DOMAIN bg /\ Naming(A, bg.account) /\ (bg.account # 0 => A[bg.account].type = "expense")
Posting(A, E)    == E \in Seq(PaymentRow) /\ \A i \in DOMAIN E : E[i].account \in DOMAIN A /\ ~A[E[i].account].placeholder

Sound(v) ==
  /\ v = [accounts |-> v.accounts, entries |-> v.entries, rule |-> v.rule, template |-> v.template, budget |-> v.budget]
  /\ Planted(v.accounts) /\ Distinct(v.accounts)
  /\ Naming(v.accounts, v.rule) /\ Naming(v.accounts, v.template) /\ Budgeting(v.accounts, v.budget)
  /\ Posting(v.accounts, v.entries)

LEMMA PlantedIsFinite ==
  ASSUME NEW A, Planted(A)
  PROVE  IsFiniteSet(DOMAIN A) /\ 0 \notin DOMAIN A /\ DOMAIN A \subseteq Nat \ {0}
<1>1. PICK n \in Nat : DOMAIN A \subseteq 1..n
  BY DEF Planted
<1>2. IsFiniteSet(1..n)
  <2>1. 1 \in Int /\ n \in Int
    OBVIOUS
  <2> QED BY <2>1, FS_Interval
<1>3. IsFiniteSet(DOMAIN A)
  BY <1>1, <1>2, FS_Subset
<1> QED BY <1>1, <1>3

LEMMA SoundMeans == focus = "chart" /\ Sound(books) => NothingDangles
<1> SUFFICES ASSUME Sound(books)
             PROVE  Accounts!NothingDangles
  BY DEF NothingDangles
<1>1. \A x \in DOMAIN books.accounts : x \notin Accounts!Above(books.accounts, x)
  BY PlantedIsFinite, NotAboveItself DEF Sound, Planted
<1> QED BY <1>1 DEF Accounts!NothingDangles, Accounts!Accounts, Accounts!Entries, Accounts!None, Sound, Planted,
           Naming, Budgeting, Posting

(* Ids that are given are new. *)
LEMMA NewIdIs ==
  ASSUME NEW v, Planted(v.accounts)
  PROVE  Accounts!NewId(v) \notin DOMAIN v.accounts /\ Accounts!NewId(v) \in Nat \ {0}
<1> DEFINE D == DOMAIN v.accounts
<1>1. PICK n \in Nat : D \subseteq 1..n /\ 1 \in D
  BY DEF Planted
<1> HIDE DEF D
<1> DEFINE Back == {k \in Nat : n - k \in D}
<1>2. n - 1 \in Back
  BY <1>1
<1>3. PICK k \in Back : \A i \in Back : k <= i
  BY <1>2, Whole!LeastNumber
<1>4. n - k \in D /\ \A m \in D : n - k >= m
  <2>1. ASSUME NEW m \in D PROVE n - k >= m
    <3>1. m \in 1..n /\ n - m \in Nat /\ n - (n - m) = m
      BY <1>1
    <3>2. k <= n - m
      BY <1>3, <3>1
    <3> QED BY <1>3, <3>1, <3>2
  <2> QED BY <1>3, <2>1
<1>5. Accounts!Max(D) \in D /\ \A m \in D : Accounts!Max(D) >= m
  BY <1>4, Zenon DEF Accounts!Max
<1>6. PICK top \in Nat \ {0} : top = Accounts!Max(D) /\ \A m \in D : top >= m
  <2>1. \A m \in D : m \in Nat \ {0}
    BY <1>1
  <2>2. Accounts!Max(D) \in Nat \ {0}
    BY <1>5, <2>1, Zenon
  <2> QED BY <1>5, <2>2, Zenon
<1>7. top + 1 \notin D
  BY <1>6
<1>8. Accounts!NewId(v) = 1 + top
  BY <1>6 DEF Accounts!NewId, D
<1> QED BY <1>6, <1>7, <1>8 DEF D

LEMMA SoundIs ==
  ASSUME NEW A, NEW E, NEW r, NEW t, NEW g, Planted(A), Distinct(A), Naming(A, r), Naming(A, t), Budgeting(A, g),
         Posting(A, E)
  PROVE  Sound([accounts |-> A, entries |-> E, rule |-> r, template |-> t, budget |-> g])
BY DEF Sound

(* What names accounts keeps its sense while no account goes, changes its type, or becomes
   a placeholder under an entry. *)
LEMMA NamesStay ==
  ASSUME NEW A, NEW B, DOMAIN A \subseteq DOMAIN B, \A y \in DOMAIN A : B[y].type = A[y].type
  PROVE  /\ \A x : Naming(A, x) => Naming(B, x)
         /\ 0 \notin DOMAIN A => \A g : Budgeting(A, g) => Budgeting(B, g)
         /\ \A E : Posting(A, E) /\ (\A i \in DOMAIN E : ~B[E[i].account].placeholder) => Posting(B, E)
<1>1. \A x : Naming(A, x) => Naming(B, x)
  BY DEF Naming
<1>2. 0 \notin DOMAIN A => \A g : Budgeting(A, g) => Budgeting(B, g)
  BY DEF Budgeting, Naming
<1>3. ASSUME NEW E, Posting(A, E), \A i \in DOMAIN E : ~B[E[i].account].placeholder
      PROVE  Posting(B, E)
  BY <1>3 DEF Posting
<1> QED BY <1>1, <1>2, <1>3

IsPut(v, z, row, B) ==
  /\ Accounts!Put(v, z, row) = [accounts |-> B, entries |-> v.entries, rule |-> v.rule, template |-> v.template,
                                budget |-> v.budget]
  /\ DOMAIN B = DOMAIN v.accounts \cup {z} /\ B[z] = row /\ B = [y \in DOMAIN B |-> B[y]]
  /\ \A y \in DOMAIN v.accounts \ {z} : B[y] = v.accounts[y]

LEMMA PutIs ==
  ASSUME NEW v, v = [accounts |-> v.accounts, entries |-> v.entries, rule |-> v.rule, template |-> v.template,
                     budget |-> v.budget],
         NEW z, NEW row
  PROVE  \E B : IsPut(v, z, row, B)
<1> DEFINE B == [y \in DOMAIN v.accounts \cup {z} |-> IF y = z THEN row ELSE v.accounts[y]]
<1>1. Accounts!Put(v, z, row) = [accounts |-> B, entries |-> v.entries, rule |-> v.rule,
                                 template |-> v.template, budget |-> v.budget]
  BY DEF Accounts!Put
<1>2. /\ DOMAIN B = DOMAIN v.accounts \cup {z} /\ B[z] = row /\ B = [y \in DOMAIN B |-> B[y]]
      /\ \A y \in DOMAIN v.accounts \ {z} : B[y] = v.accounts[y]
  OBVIOUS
<1> QED BY <1>1, <1>2 DEF IsPut

(* A new account. *)
LEMMA GrownIsSound ==
  ASSUME NEW v, Sound(v), NEW row \in AccountRow, row.parent \in DOMAIN v.accounts \cup {0},
         row.parent # 0 => v.accounts[row.parent].type = row.type,
         Accounts!Free(v, 0, row.parent, row.name, row.type)
  PROVE  LET w == Accounts!Put(v, Accounts!NewId(v), row)
         IN  /\ Sound(w) /\ DOMAIN w.accounts = DOMAIN v.accounts \cup {Accounts!NewId(v)}
             /\ w.accounts[Accounts!NewId(v)] = row /\ w.entries = v.entries
             /\ \A y \in DOMAIN v.accounts : w.accounts[y] = v.accounts[y]
<1>1. PICK z \in Nat \ {0} : z = Accounts!NewId(v) /\ z \notin DOMAIN v.accounts
  BY NewIdIs DEF Sound
<1>2. PICK A : A = v.accounts
  OBVIOUS
<1>3. PICK B : /\ Accounts!Put(v, z, row) = [accounts |-> B, entries |-> v.entries, rule |-> v.rule,
                                              template |-> v.template, budget |-> v.budget]
               /\ DOMAIN B = DOMAIN A \cup {z} /\ B[z] = row /\ B = [y \in DOMAIN B |-> B[y]]
               /\ \A y \in DOMAIN A : B[y] = A[y]
  <2>1. v = [accounts |-> v.accounts, entries |-> v.entries, rule |-> v.rule, template |-> v.template,
             budget |-> v.budget]
    BY DEF Sound
  <2>2. PICK B : IsPut(v, z, row, B)
    BY <2>1, PutIs
  <2> QED BY <1>1, <1>2, <2>2 DEF IsPut
<1>4. Planted(A) /\ Distinct(A) /\ 0 \notin DOMAIN A /\ DOMAIN A \subseteq Nat \ {0}
  BY <1>2, PlantedIsFinite DEF Sound
<1>5. Planted(B)
  <2>1. B \in [DOMAIN B -> AccountRow] /\ 1 \in DOMAIN B
    BY <1>3, <1>4 DEF Planted
  <2>2. \E n \in Nat : DOMAIN B \subseteq 1..n
    <3>1. PICK n \in Nat : DOMAIN A \subseteq 1..n
      BY <1>4 DEF Planted
    <3>2. n + z \in Nat /\ 1..n \subseteq 1..(n + z) /\ z \in 1..(n + z)
      BY <1>1
    <3> QED BY <1>3, <3>1, <3>2
  <2>3. Forest(B)
    <3>1. \A y \in DOMAIN A : A[y].parent \in DOMAIN A \cup {0}
      BY <1>4 DEF Planted
    <3>2. B[z].parent # z
      BY <1>1, <1>2, <1>3
    <3>3. \A y \in DOMAIN A : B[y].parent = A[y].parent
      BY <1>3
    <3>4. Forest(A) /\ z \notin DOMAIN A /\ z # 0 /\ DOMAIN B = DOMAIN A \cup {z}
      BY <1>1, <1>2, <1>3, <1>4 DEF Planted
    <3> QED BY <1>4, <3>1, <3>2, <3>3, <3>4, GrownForest
  <2>4. \A x \in DOMAIN B : B[x].parent # 0 => B[x].parent \in DOMAIN B /\ B[B[x].parent].type = B[x].type
    <3>1. CASE TRUE
      <4>1. B[z].parent # 0 => B[z].parent \in DOMAIN A /\ B[B[z].parent].type = B[z].type
        BY <1>1, <1>2, <1>3
      <4>2. \A x \in DOMAIN A : A[x].parent # 0 => A[x].parent \in DOMAIN A /\ A[A[x].parent].type = A[x].type
        BY <1>4 DEF Planted
      <4> QED BY <1>3, <4>1, <4>2
    <3> QED BY <3>1
  <2> QED BY <2>1, <2>2, <2>3, <2>4 DEF Planted
<1>6. Distinct(B)
  <2>1. \A y \in DOMAIN A : <<A[y].parent, A[y].name, A[y].type>> # <<row.parent, row.name, row.type>>
    BY <1>2, <1>4 DEF Accounts!Free
  <2>2. \A x, y \in DOMAIN A : x # y => <<A[x].parent, A[x].name, A[x].type>> # <<A[y].parent, A[y].name, A[y].type>>
    BY <1>4 DEF Distinct
  <2> QED BY <1>3, <2>1, <2>2 DEF Distinct
<1>7. \A y \in DOMAIN A : B[y].type = A[y].type
  BY <1>3
<1>8. Naming(B, v.rule) /\ Naming(B, v.template) /\ Budgeting(B, v.budget) /\ Posting(B, v.entries)
  <2>1. Naming(A, v.rule) /\ Naming(A, v.template) /\ Budgeting(A, v.budget) /\ Posting(A, v.entries)
    BY <1>2 DEF Sound
  <2>2. \A i \in DOMAIN v.entries : ~B[v.entries[i].account].placeholder
    BY <1>3, <2>1 DEF Posting
  <2> QED BY <1>3, <1>4, <1>7, <2>1, <2>2, NamesStay
<1>9. Sound(Accounts!Put(v, z, row))
  BY <1>3, <1>5, <1>6, <1>8, SoundIs
<1> QED BY <1>1, <1>2, <1>3, <1>9

LEMMA SameTrees ==
  ASSUME NEW A, NEW B, Planted(A), Distinct(A), DOMAIN B = DOMAIN A, B \in [DOMAIN B -> AccountRow],
         \A y \in DOMAIN A : B[y].parent = A[y].parent /\ B[y].name = A[y].name /\ B[y].type = A[y].type
  PROVE  Planted(B) /\ Distinct(B)
<1>1. Forest(B)
  BY PrunedForest DEF Planted
<1>2. \A x \in DOMAIN B : B[x].parent # 0 => B[x].parent \in DOMAIN B /\ B[B[x].parent].type = B[x].type
  BY DEF Planted
<1>3. Planted(B)
  BY <1>1, <1>2 DEF Planted
<1>4. Distinct(B)
  <2>1. ASSUME NEW x \in DOMAIN B, NEW y \in DOMAIN B, x # y
        PROVE  <<B[x].parent, B[x].name, B[x].type>> # <<B[y].parent, B[y].name, B[y].type>>
    <3>1. <<A[x].parent, A[x].name, A[x].type>> # <<A[y].parent, A[y].name, A[y].type>>
      BY <2>1 DEF Distinct
    <3> QED BY <3>1
  <2> QED BY <2>1 DEF Distinct
<1> QED BY <1>3, <1>4

(* An account that is changed where it is. *)
LEMMA ChangedIsSound ==
  ASSUME NEW v, Sound(v), NEW a \in DOMAIN v.accounts, NEW row \in AccountRow,
         row.parent = v.accounts[a].parent, row.name = v.accounts[a].name, row.type = v.accounts[a].type,
         Accounts!Posted(v, a) = {} \/ row.placeholder = v.accounts[a].placeholder,
         NEW w, w = [v EXCEPT !.accounts[a] = row]
  PROVE  Sound(w)
<1>1. PICK A : A = v.accounts
  OBVIOUS
<1>2. PICK B : B = [A EXCEPT ![a] = row]
  OBVIOUS
<1>3. w = [accounts |-> B, entries |-> v.entries, rule |-> v.rule, template |-> v.template, budget |-> v.budget]
  BY <1>1, <1>2 DEF Sound
<1>4. Planted(A) /\ Distinct(A) /\ 0 \notin DOMAIN A
  BY <1>1, PlantedIsFinite DEF Sound
<1>5. A \in [DOMAIN A -> AccountRow] /\ a \in DOMAIN A
  BY <1>1, <1>4 DEF Planted
<1>6. DOMAIN B = DOMAIN A /\ B \in [DOMAIN B -> AccountRow] /\ B[a] = row /\ \A y \in DOMAIN A \ {a} : B[y] = A[y]
  BY <1>2, <1>5
<1>7. \A y \in DOMAIN A : B[y].parent = A[y].parent /\ B[y].name = A[y].name /\ B[y].type = A[y].type
  BY <1>1, <1>6
<1>8. Planted(B) /\ Distinct(B)
  BY <1>4, <1>6, <1>7, SameTrees
<1>9. Naming(B, v.rule) /\ Naming(B, v.template) /\ Budgeting(B, v.budget) /\ Posting(B, v.entries)
  <2>1. Naming(A, v.rule) /\ Naming(A, v.template) /\ Budgeting(A, v.budget) /\ Posting(A, v.entries)
    BY <1>1 DEF Sound
  <2>2. \A i \in DOMAIN v.entries : ~B[v.entries[i].account].placeholder
    <3>1. ASSUME NEW i \in DOMAIN v.entries PROVE ~B[v.entries[i].account].placeholder
      <4>1. v.entries[i].account \in DOMAIN A /\ ~A[v.entries[i].account].placeholder
        BY <2>1 DEF Posting
      <4>2. CASE v.entries[i].account = a
        <5>1. i \in Accounts!Posted(v, a)
          BY <4>2 DEF Accounts!Posted
        <5> QED BY <1>1, <1>6, <4>1, <4>2, <5>1
      <4>3. CASE v.entries[i].account # a
        BY <1>6, <4>1, <4>3
      <4> QED BY <4>2, <4>3
    <3> QED BY <3>1
  <2>3. DOMAIN A \subseteq DOMAIN B /\ \A y \in DOMAIN A : B[y].type = A[y].type
    BY <1>6, <1>7
  <2> QED BY <1>4, <2>1, <2>2, <2>3, NamesStay
<1>10. Sound([accounts |-> B, entries |-> v.entries, rule |-> v.rule, template |-> v.template, budget |-> v.budget])
  BY <1>8, <1>9, SoundIs
<1> QED BY <1>3, <1>10, Zenon

(* An account that moves below another. *)
LEMMA MovedIsSound ==
  ASSUME NEW v, Sound(v), NEW a \in DOMAIN v.accounts, NEW p \in DOMAIN v.accounts \cup {0},
         p # 0 => p # a /\ v.accounts[p].type = v.accounts[a].type /\ a \notin Accounts!Above(v.accounts, p),
         Accounts!Free(v, a, p, v.accounts[a].name, v.accounts[a].type),
         NEW w, w = [v EXCEPT !.accounts[a].parent = p]
  PROVE  Sound(w)
<1>1. PICK A : A = v.accounts
  OBVIOUS
<1>2. PICK B : B = [A EXCEPT ![a].parent = p]
  OBVIOUS
<1>3. w = [accounts |-> B, entries |-> v.entries, rule |-> v.rule, template |-> v.template, budget |-> v.budget]
  BY <1>1, <1>2 DEF Sound
<1>4. Planted(A) /\ Distinct(A) /\ 0 \notin DOMAIN A /\ DOMAIN A \subseteq Nat \ {0} /\ IsFiniteSet(DOMAIN A)
  BY <1>1, PlantedIsFinite DEF Sound
<1>5. A \in [DOMAIN A -> AccountRow] /\ a \in DOMAIN A /\ p \in Nat
  BY <1>1, <1>4 DEF Planted
<1>6. /\ DOMAIN B = DOMAIN A /\ B[a].parent = p /\ \A y \in DOMAIN A \ {a} : B[y] = A[y]
      /\ B[a].name = A[a].name /\ B[a].type = A[a].type /\ B[a].placeholder = A[a].placeholder
  BY <1>2, <1>5 DEF AccountRow
<1>7. B \in [DOMAIN B -> AccountRow]
  <2>1. PICK r \in AccountRow : r = A[a]
    BY <1>5
  <2>2. PICK q : q = [r EXCEPT !.parent = p]
    OBVIOUS
  <2>3. q \in AccountRow
    BY <1>5, <2>1, <2>2 DEF AccountRow
  <2>4. B = [A EXCEPT ![a] = q]
    BY <1>2, <2>1, <2>2, Zenon
  <2> QED BY <1>5, <2>3, <2>4
<1>8. Forest(B)
  <2>1. p # 0 => p # a /\ a \notin Accounts!Above(A, p)
    BY <1>1
  <2>2. Forest(A) /\ \A y \in DOMAIN A \ {a} : B[y].parent = A[y].parent
    BY <1>4, <1>6 DEF Planted
  <2> QED BY <1>4, <1>5, <1>6, <2>1, <2>2, MovedForest
<1>9. \A y \in DOMAIN A : B[y].type = A[y].type
  BY <1>6
<1>10. \A x \in DOMAIN B : B[x].parent # 0 => B[x].parent \in DOMAIN B /\ B[B[x].parent].type = B[x].type
  <2>1. \A x \in DOMAIN A : A[x].parent # 0 => A[x].parent \in DOMAIN A /\ A[A[x].parent].type = A[x].type
    BY <1>4 DEF Planted
  <2>2. B[a].parent # 0 => B[a].parent \in DOMAIN B /\ B[B[a].parent].type = B[a].type
    BY <1>1, <1>6, <1>9
  <2> QED BY <1>6, <1>9, <2>1, <2>2
<1>11. Planted(B)
  BY <1>4, <1>6, <1>7, <1>8, <1>10 DEF Planted
<1>12. Distinct(B)
  <2>1. \A y \in DOMAIN A \ {a} : <<A[y].parent, A[y].name, A[y].type>> # <<p, A[a].name, A[a].type>>
    BY <1>1 DEF Accounts!Free
  <2>2. \A x, y \in DOMAIN A : x # y => <<A[x].parent, A[x].name, A[x].type>> # <<A[y].parent, A[y].name, A[y].type>>
    BY <1>4 DEF Distinct
  <2>3. ASSUME NEW x \in DOMAIN B, NEW y \in DOMAIN B, x # y
        PROVE  <<B[x].parent, B[x].name, B[x].type>> # <<B[y].parent, B[y].name, B[y].type>>
    BY <1>6, <2>1, <2>2, <2>3
  <2> QED BY <2>3 DEF Distinct
<1>13. Naming(B, v.rule) /\ Naming(B, v.template) /\ Budgeting(B, v.budget) /\ Posting(B, v.entries)
  <2>1. Naming(A, v.rule) /\ Naming(A, v.template) /\ Budgeting(A, v.budget) /\ Posting(A, v.entries)
    BY <1>1 DEF Sound
  <2>2. \A i \in DOMAIN v.entries : ~B[v.entries[i].account].placeholder
    BY <1>6, <2>1 DEF Posting
  <2>3. DOMAIN A \subseteq DOMAIN B
    BY <1>6
  <2> QED BY <1>4, <1>9, <2>1, <2>2, <2>3, NamesStay
<1>14. Sound([accounts |-> B, entries |-> v.entries, rule |-> v.rule, template |-> v.template, budget |-> v.budget])
  BY <1>11, <1>12, <1>13, SoundIs
<1> QED BY <1>3, <1>14, Zenon

(* Entries that change one by one are as many. *)
LEMMA RowsAreAsMany ==
  ASSUME NEW E \in Seq(PaymentRow), NEW F, F = [i \in DOMAIN E |-> F[i]], \A i \in DOMAIN E : F[i] \in PaymentRow
  PROVE  F \in Seq(PaymentRow)
OBVIOUS

(* The accounts S are in w where they are in v. *)
Stay(S, v, w) ==
  /\ S \subseteq DOMAIN v.accounts /\ S \subseteq DOMAIN w.accounts
  /\ \A y \in S : /\ w.accounts[y].parent = v.accounts[y].parent /\ w.accounts[y].name = v.accounts[y].name
                  /\ w.accounts[y].type = v.accounts[y].type

(* What named the account that is merged names the target. *)
LEMMA RedirectedIs ==
  ASSUME NEW v, Sound(v), NEW a \in DOMAIN v.accounts, NEW b \in DOMAIN v.accounts, a # b,
         ~v.accounts[b].placeholder
  PROVE  \E E : /\ Accounts!Redirected(v, a, b)
                     = [accounts |-> v.accounts, entries |-> E, rule |-> Accounts!Redirect(v.rule, a, b),
                        template |-> Accounts!Redirect(v.template, a, b), budget |-> v.budget]
                /\ Posting(v.accounts, E) /\ \A i \in DOMAIN E : E[i].account # a
<1> DEFINE E == [i \in DOMAIN v.entries |-> [v.entries[i] EXCEPT !.account = Accounts!Redirect(@, a, b)]]
<1>1. Accounts!Redirected(v, a, b)
        = [accounts |-> v.accounts, entries |-> E, rule |-> Accounts!Redirect(v.rule, a, b),
           template |-> Accounts!Redirect(v.template, a, b), budget |-> v.budget]
  <2>1. PICK F, r, t : F = E /\ r = Accounts!Redirect(v.rule, a, b) /\ t = Accounts!Redirect(v.template, a, b)
    OBVIOUS
  <2>2. Accounts!Redirected(v, a, b) = [v EXCEPT !.entries = F, !.rule = r, !.template = t]
    BY <2>1, Zenon DEF Accounts!Redirected
  <2>3. [v EXCEPT !.entries = F, !.rule = r, !.template = t]
          = [accounts |-> v.accounts, entries |-> F, rule |-> r, template |-> t, budget |-> v.budget]
    <3>1. PICK A, G, x, y, g : v = [accounts |-> A, entries |-> G, rule |-> x, template |-> y, budget |-> g]
      BY DEF Sound
    <3>2. v.accounts = A /\ v.budget = g
      BY <3>1
    <3>3. [[accounts |-> A, entries |-> G, rule |-> x, template |-> y, budget |-> g]
             EXCEPT !.entries = F, !.rule = r, !.template = t]
            = [accounts |-> A, entries |-> F, rule |-> r, template |-> t, budget |-> g]
      <4>1. [[accounts |-> A, entries |-> G, rule |-> x, template |-> y, budget |-> g] EXCEPT !.entries = F]
              = [accounts |-> A, entries |-> F, rule |-> x, template |-> y, budget |-> g]
        OBVIOUS
      <4>2. [[accounts |-> A, entries |-> F, rule |-> x, template |-> y, budget |-> g] EXCEPT !.rule = r]
              = [accounts |-> A, entries |-> F, rule |-> r, template |-> y, budget |-> g]
        OBVIOUS
      <4>3. [[accounts |-> A, entries |-> F, rule |-> r, template |-> y, budget |-> g] EXCEPT !.template = t]
              = [accounts |-> A, entries |-> F, rule |-> r, template |-> t, budget |-> g]
        OBVIOUS
      <4> QED BY <4>1, <4>2, <4>3, Zenon
    <3> QED BY <3>1, <3>2, <3>3, Zenon
  <2> HIDE DEF E
  <2> QED BY <2>1, <2>2, <2>3
<1>2. Posting(v.accounts, v.entries) /\ DOMAIN v.accounts \subseteq Nat
  BY PlantedIsFinite DEF Sound
<1>3. ASSUME NEW i \in DOMAIN v.entries
      PROVE  E[i] \in PaymentRow /\ E[i].account = Accounts!Redirect(v.entries[i].account, a, b)
  <2>1. v.entries[i] \in PaymentRow
    BY <1>2 DEF Posting
  <2>2. Accounts!Redirect(v.entries[i].account, a, b) \in Nat
    BY <1>2, <2>1 DEF Accounts!Redirect, PaymentRow
  <2>3. PICK row \in PaymentRow : row = v.entries[i]
    BY <2>1
  <2>4. PICK x \in Nat : x = Accounts!Redirect(row.account, a, b)
    BY <2>2, <2>3
  <2>5. E[i] = [row EXCEPT !.account = x]
    BY <2>3, <2>4
  <2>6. [row EXCEPT !.account = x] \in PaymentRow /\ [row EXCEPT !.account = x].account = x
    BY DEF PaymentRow
  <2> QED BY <2>3, <2>4, <2>5, <2>6
<1>4. E = [i \in DOMAIN v.entries |-> E[i]] /\ DOMAIN E = DOMAIN v.entries
  OBVIOUS
<1> HIDE DEF E
<1>5. E \in Seq(PaymentRow)
  BY <1>2, <1>3, <1>4, RowsAreAsMany DEF Posting
<1>6. \A i \in DOMAIN E : /\ E[i].account \in DOMAIN v.accounts /\ ~v.accounts[E[i].account].placeholder
                          /\ E[i].account # a
  BY <1>2, <1>3, <1>4 DEF Posting, Accounts!Redirect
<1> QED BY <1>1, <1>5, <1>6 DEF Posting

(* A merge leaves the chart sound, and every other account where it was. *)
LEMMA MergedIsSound ==
  ASSUME NEW v, Sound(v), NEW a \in DOMAIN v.accounts, a # 1, NEW b \in DOMAIN v.accounts,
         Accounts!MayMerge(v, a, b), NEW w \in Accounts!Merged(v, a, b)
  PROVE  /\ Sound(w) /\ Stay(DOMAIN v.accounts \ {a}, v, w)
         /\ Accounts!Children(v, a) # {} => Stay(DOMAIN v.accounts, v, w)
<1>1. a # b /\ ~v.accounts[b].placeholder
  BY DEF Accounts!MayMerge
<1>2. PICK E : /\ Accounts!Redirected(v, a, b)
                     = [accounts |-> v.accounts, entries |-> E, rule |-> Accounts!Redirect(v.rule, a, b),
                        template |-> Accounts!Redirect(v.template, a, b), budget |-> v.budget]
               /\ Posting(v.accounts, E) /\ \A i \in DOMAIN E : E[i].account # a
  BY <1>1, RedirectedIs
<1>3. PICK A : A = v.accounts
  OBVIOUS
<1>4. PICK r, t : r = Accounts!Redirect(v.rule, a, b) /\ t = Accounts!Redirect(v.template, a, b)
  OBVIOUS
<1>5. Planted(A) /\ Distinct(A) /\ 0 \notin DOMAIN A /\ DOMAIN A \subseteq Nat \ {0} /\ A \in [DOMAIN A -> AccountRow]
  BY <1>3, PlantedIsFinite DEF Sound, Planted
<1>6. r \in (DOMAIN A \ {a}) \cup {0} /\ t \in (DOMAIN A \ {a}) \cup {0}
  BY <1>1, <1>3, <1>4 DEF Accounts!Redirect, Sound, Naming
<1>7. Budgeting(A, v.budget)
  BY <1>3 DEF Sound
<1>8. CASE Accounts!Children(v, a) # {}
  <2>1. PICK row \in AccountRow : row = [A[a] EXCEPT !.placeholder = TRUE]
    <3>1. PICK old \in AccountRow : old = A[a]
      BY <1>3, <1>5
    <3>2. [old EXCEPT !.placeholder = TRUE] \in AccountRow
      BY DEF AccountRow
    <3> QED BY <3>1, <3>2
  <2>2. row.parent = A[a].parent /\ row.name = A[a].name /\ row.type = A[a].type
    BY <1>3, <1>5, <2>1 DEF AccountRow
  <2>3. PICK B : B = [A EXCEPT ![a] = row]
    OBVIOUS
  <2>4. w = [accounts |-> B, entries |-> E, rule |-> r, template |-> t, budget |-> v.budget]
    <3>1. PICK R : R = Accounts!Redirected(v, a, b)
      OBVIOUS
    <3>2. w = [R EXCEPT !.accounts[a].placeholder = TRUE]
      BY <1>8, <3>1 DEF Accounts!Merged
    <3>3. R = [accounts |-> A, entries |-> E, rule |-> r, template |-> t, budget |-> v.budget]
      BY <1>2, <1>3, <1>4, <3>1
    <3>4. w = [R EXCEPT !.accounts = B]
      BY <2>1, <2>3, <3>2, <3>3
    <3> QED BY <3>3, <3>4
  <2>5. /\ DOMAIN B = DOMAIN A /\ B \in [DOMAIN B -> AccountRow] /\ \A y \in DOMAIN A \ {a} : B[y] = A[y]
        /\ \A y \in DOMAIN A : B[y].parent = A[y].parent /\ B[y].name = A[y].name /\ B[y].type = A[y].type
    BY <1>3, <1>5, <2>2, <2>3
  <2>6. Planted(B) /\ Distinct(B)
    BY <1>5, <2>5, SameTrees
  <2>7. Naming(B, r) /\ Naming(B, t) /\ Budgeting(B, v.budget) /\ Posting(B, E)
    <3>1. \A i \in DOMAIN E : ~B[E[i].account].placeholder
      BY <1>2, <1>3, <2>5 DEF Posting
    <3>2. Posting(A, E) /\ DOMAIN A \subseteq DOMAIN B /\ \A y \in DOMAIN A : B[y].type = A[y].type
      BY <1>2, <1>3, <2>5
    <3>3. Posting(B, E) /\ Budgeting(B, v.budget)
      BY <1>5, <1>7, <3>1, <3>2, NamesStay
    <3> QED BY <1>6, <2>5, <3>3 DEF Naming
  <2>8. Sound(w)
    BY <2>4, <2>6, <2>7, SoundIs
  <2>9. Stay(DOMAIN v.accounts, v, w) /\ Stay(DOMAIN v.accounts \ {a}, v, w)
    BY <1>3, <2>4, <2>5 DEF Stay
  <2> QED BY <2>8, <2>9
<1>9. CASE Accounts!Children(v, a) = {}
  <2>1. PICK B : B = [c \in DOMAIN A \ {a} |-> A[c]]
    OBVIOUS
  <2>2. PICK g : g = [v.budget EXCEPT !.account = Accounts!Redirect(@, a, b)]
    OBVIOUS
  <2>3. ~(v.budget.account = a /\ A[b].type # "expense")
    BY <1>3, <1>9 DEF Accounts!Merged
  <2>4. w = [accounts |-> B, entries |-> E, rule |-> r, template |-> t, budget |-> g]
    <3>1. PICK R : R = Accounts!Redirected(v, a, b)
      OBVIOUS
    <3>2. w = [R EXCEPT !.budget.account = Accounts!Redirect(@, a, b), !.accounts = [c \in DOMAIN @ \ {a} |-> @[c]]]
      BY <1>3, <1>9, <2>3, <3>1 DEF Accounts!Merged
    <3>3. R = [accounts |-> A, entries |-> E, rule |-> r, template |-> t, budget |-> v.budget]
      BY <1>2, <1>3, <1>4, <3>1
    <3>4. w = [R EXCEPT !.budget = g, !.accounts = B]
      BY <2>1, <2>2, <3>2, <3>3
    <3> QED BY <3>3, <3>4
  <2>5. DOMAIN B = DOMAIN A \ {a} /\ B \in [DOMAIN B -> AccountRow] /\ \A y \in DOMAIN B : B[y] = A[y]
    BY <1>5, <2>1
  <2>6. \A y \in DOMAIN A : A[y].parent # a
    BY <1>3, <1>9 DEF Accounts!Children
  <2>7. Planted(B)
    <3>1. 1 \in DOMAIN B /\ \E n \in Nat : DOMAIN B \subseteq 1..n
      BY <1>5, <2>5 DEF Planted
    <3>2. Forest(B)
      <4>1. DOMAIN B \subseteq DOMAIN A /\ \A y \in DOMAIN B : B[y].parent = A[y].parent
        BY <2>5
      <4> QED BY <1>5, <4>1, PrunedForest DEF Planted
    <3>3. \A x \in DOMAIN B : B[x].parent # 0 => B[x].parent \in DOMAIN B /\ B[B[x].parent].type = B[x].type
      BY <1>5, <2>5, <2>6 DEF Planted
    <3> QED BY <2>5, <3>1, <3>2, <3>3 DEF Planted
  <2>8. Distinct(B)
    BY <1>5, <2>5 DEF Distinct
  <2>9. Naming(B, r) /\ Naming(B, t) /\ Posting(B, E)
    BY <1>2, <1>3, <1>6, <2>5 DEF Naming, Posting
  <2>10. Budgeting(B, g)
    <3>1. "account" \in DOMAIN g /\ g.account = Accounts!Redirect(v.budget.account, a, b)
      BY <1>7, <2>2 DEF Budgeting
    <3>2. v.budget.account \in DOMAIN A \cup {0} /\ (v.budget.account # 0 => A[v.budget.account].type = "expense")
      BY <1>7 DEF Budgeting, Naming
    <3>3. g.account \in DOMAIN B \cup {0} /\ (g.account # 0 => A[g.account].type = "expense")
      BY <1>1, <1>3, <2>3, <2>5, <3>1, <3>2 DEF Accounts!Redirect
    <3>4. g.account # 0 => B[g.account].type = "expense"
      BY <2>5, <3>3
    <3> QED BY <3>1, <3>3, <3>4 DEF Budgeting, Naming
  <2>11. Sound(w)
    BY <2>4, <2>7, <2>8, <2>9, <2>10, SoundIs
  <2>12. Stay(DOMAIN v.accounts \ {a}, v, w)
    BY <1>3, <2>4, <2>5 DEF Stay
  <2> QED BY <1>9, <2>11, <2>12
<1> QED BY <1>8, <1>9

(* A node of a chart that the accounts have: a name below none, and a name below that. *)
Called(A, x, parent, name, type) ==
  x \in DOMAIN A /\ A[x].parent = parent /\ A[x].name = name /\ A[x].type = type

There(v, node) ==
  \E top \in DOMAIN v.accounts :
    /\ Called(v.accounts, top, 0, node.path[1], node.type)
    /\ Len(node.path) # 1 => \E a \in DOMAIN v.accounts : Called(v.accounts, a, top, node.path[2], node.type)

LEMMA FindIs ==
  ASSUME NEW v, NEW parent, NEW name, NEW type
  PROVE  Accounts!Find(v, parent, name, type) = {a \in DOMAIN v.accounts : Called(v.accounts, a, parent, name, type)}
BY DEF Accounts!Find, Called

LEMMA OnlyOneIsCalled ==
  ASSUME NEW A, Distinct(A), NEW x, NEW y, NEW parent, NEW name, NEW type,
         Called(A, x, parent, name, type), Called(A, y, parent, name, type)
  PROVE  x = y
BY DEF Distinct, Called

(* The accounts of a node. *)
LEMMA LeafIs ==
  ASSUME NEW v, Sound(v), NEW node, There(v, node)
  PROVE  /\ Called(v.accounts, Accounts!Top(v, node), 0, node.path[1], node.type)
         /\ Len(node.path) = 1 => Accounts!Leaf(v, node) = Accounts!Top(v, node)
         /\ Len(node.path) # 1 =>
              Called(v.accounts, Accounts!Leaf(v, node), Accounts!Top(v, node), node.path[2], node.type)
         /\ Accounts!Leaf(v, node) \in DOMAIN v.accounts
<1> DEFINE A == v.accounts
<1>1. PICK top \in DOMAIN A :
        /\ Called(A, top, 0, node.path[1], node.type)
        /\ Len(node.path) # 1 => \E a \in DOMAIN A : Called(A, a, top, node.path[2], node.type)
  BY DEF There
<1>2. Called(A, Accounts!Top(v, node), 0, node.path[1], node.type)
  <2>1. Accounts!Find(v, 0, node.path[1], node.type) # {}
    BY <1>1, FindIs
  <2>2. Accounts!Top(v, node) \in Accounts!Find(v, 0, node.path[1], node.type)
    BY <2>1 DEF Accounts!Top, Accounts!None
  <2> QED BY <2>2, FindIs
<1>3. Accounts!Top(v, node) = top
  BY <1>1, <1>2, OnlyOneIsCalled DEF Sound
<1>4. Len(node.path) = 1 => Accounts!Leaf(v, node) = Accounts!Top(v, node)
  BY DEF Accounts!Leaf
<1>5. Len(node.path) # 1 => Called(A, Accounts!Leaf(v, node), top, node.path[2], node.type)
  <2> SUFFICES ASSUME Len(node.path) # 1 PROVE Called(A, Accounts!Leaf(v, node), top, node.path[2], node.type)
    OBVIOUS
  <2>1. Accounts!Find(v, top, node.path[2], node.type) # {}
    BY <1>1, FindIs
  <2>2. Accounts!Leaf(v, node) \in Accounts!Find(v, top, node.path[2], node.type)
    BY <1>3, <2>1 DEF Accounts!Leaf
  <2> QED BY <2>2, FindIs
<1> QED BY <1>2, <1>3, <1>4, <1>5 DEF Called

(* A node stays when its accounts do. *)
LEMMA NodeStays ==
  ASSUME NEW v, Sound(v), NEW w, NEW node, There(v, node), NEW S,
         Stay(S, v, w), Accounts!Top(v, node) \in S, Accounts!Leaf(v, node) \in S
  PROVE  There(w, node)
<1>1. PICK top, leaf : top = Accounts!Top(v, node) /\ leaf = Accounts!Leaf(v, node)
  OBVIOUS
<1>2. /\ Called(v.accounts, top, 0, node.path[1], node.type)
      /\ Len(node.path) # 1 => Called(v.accounts, leaf, top, node.path[2], node.type)
  BY <1>1, LeafIs
<1>3. \A x \in S : \A parent, name, type : Called(v.accounts, x, parent, name, type) => Called(w.accounts, x, parent, name, type)
  BY DEF Called, Stay
<1>4. /\ Called(w.accounts, top, 0, node.path[1], node.type)
      /\ Len(node.path) # 1 => Called(w.accounts, leaf, top, node.path[2], node.type)
  BY <1>1, <1>2, <1>3
<1> QED BY <1>4 DEF There, Called

(* ensure_account: the account is there, as it was or new. *)
LEMMA EnsuredIsSound ==
  ASSUME NEW v, Sound(v), NEW parent \in DOMAIN v.accounts \cup {0}, NEW name \in ChartNames,
         NEW type \in {"expense", "income"}, parent # 0 => v.accounts[parent].type = type, NEW place,
         NEW w \in Accounts!Ensured(v, parent, name, type, place)
  PROVE  Sound(w) /\ Stay(DOMAIN v.accounts, v, w) /\ \E a : Called(w.accounts, a, parent, name, type)
<1>1. CASE Accounts!Find(v, parent, name, type) # {}
  <2>1. w = v
    BY <1>1 DEF Accounts!Ensured
  <2>2. \E a : Called(v.accounts, a, parent, name, type)
    BY <1>1, FindIs
  <2> QED BY <2>1, <2>2 DEF Stay
<1>2. CASE Accounts!Find(v, parent, name, type) = {}
  <2> DEFINE new == [Accounts!Account(parent, name, type, ChartHome) EXCEPT !.placeholder = place = "above"]
  <2>1. w = Accounts!Put(v, Accounts!NewId(v), new)
    BY <1>2 DEF Accounts!Ensured
  <2>2. /\ new \in AccountRow /\ new.parent = parent /\ new.name = name /\ new.type = type
    <3>1. parent \in Nat
      BY PlantedIsFinite DEF Sound
    <3> QED BY <3>1 DEF Accounts!Account, AccountRow
  <2> HIDE DEF new
  <2>3. PICK row \in AccountRow : row = new
    BY <2>2
  <2>4. \A a \in DOMAIN v.accounts : ~Called(v.accounts, a, parent, name, type)
    BY <1>2, FindIs
  <2>5. Accounts!Free(v, 0, row.parent, row.name, row.type)
    BY <2>2, <2>3, <2>4 DEF Accounts!Free, Called
  <2>6. row.parent \in DOMAIN v.accounts \cup {0} /\ (row.parent # 0 => v.accounts[row.parent].type = row.type)
    BY <2>2, <2>3
  <2>7. /\ Sound(w) /\ DOMAIN w.accounts = DOMAIN v.accounts \cup {Accounts!NewId(v)}
        /\ w.accounts[Accounts!NewId(v)] = row /\ \A y \in DOMAIN v.accounts : w.accounts[y] = v.accounts[y]
    BY <2>1, <2>3, <2>5, <2>6, GrownIsSound
  <2>8. Stay(DOMAIN v.accounts, v, w)
    BY <2>7 DEF Stay
  <2>9. Called(w.accounts, Accounts!NewId(v), parent, name, type)
    BY <2>2, <2>3, <2>7 DEF Called
  <2> QED BY <2>7, <2>8, <2>9
<1> QED BY <1>1, <1>2

(* The nodes of a chart. *)
LEMMA NodeIs ==
  ASSUME NEW node \in Accounts!Nodes
  PROVE  /\ node.type \in {"expense", "income"} /\ node.path[1] \in ChartNames
         /\ Len(node.path) # 1 => node.path[2] \in ChartNames
         /\ node.placeholder \in BOOLEAN
BY DEF Accounts!Nodes, Accounts!Categories

(* apply_chart: the accounts of the node are there. *)
LEMMA NodeIsSound ==
  ASSUME NEW v, Sound(v), NEW node \in Accounts!Nodes, NEW w \in Accounts!WithNode(v, node)
  PROVE  Sound(w) /\ There(w, node)
<1>1. PICK u \in Accounts!WithPath(v, node) : w = Accounts!AsPlaceholder(u, Accounts!Leaf(u, node), node.placeholder)
  BY DEF Accounts!WithNode
<1>2. ASSUME NEW x \in Accounts!WithTop(v, node)
      PROVE  Sound(x) /\ \E a : Called(x.accounts, a, 0, node.path[1], node.type)
  <2>1. PICK place : x \in Accounts!Ensured(v, 0, node.path[1], node.type, place)
    BY DEF Accounts!WithTop, Accounts!None
  <2>2. 0 \in DOMAIN v.accounts \cup {0}
    OBVIOUS
  <2> QED BY <2>1, <2>2, NodeIs, EnsuredIsSound
<1>3. Sound(u) /\ There(u, node)
  <2>1. CASE Len(node.path) = 1
    <3>1. Sound(u) /\ \E a : Called(u.accounts, a, 0, node.path[1], node.type)
      BY <1>2, <2>1 DEF Accounts!WithPath
    <3> QED BY <2>1, <3>1 DEF There, Called
  <2>2. CASE Len(node.path) # 1
    <3>1. PICK x \in Accounts!WithTop(v, node) :
            u \in Accounts!Ensured(x, Accounts!Top(x, node), node.path[2], node.type, "leaf")
      BY <2>2 DEF Accounts!WithPath
    <3>2. PICK top : top = Accounts!Top(x, node)
      OBVIOUS
    <3>3. Called(x.accounts, top, 0, node.path[1], node.type)
      <4>1. Accounts!Find(x, 0, node.path[1], node.type) # {}
        BY <1>2, FindIs DEF Called
      <4>2. top \in Accounts!Find(x, 0, node.path[1], node.type)
        BY <3>2, <4>1 DEF Accounts!Top, Accounts!None
      <4> QED BY <4>2, FindIs
    <3>4. Sound(u) /\ Stay(DOMAIN x.accounts, x, u) /\ \E a : Called(u.accounts, a, top, node.path[2], node.type)
      <4>1. top \in DOMAIN x.accounts \cup {0} /\ (top # 0 => x.accounts[top].type = node.type)
        BY <3>3 DEF Called
      <4> QED BY <1>2, <2>2, <3>1, <3>2, <4>1, NodeIs, EnsuredIsSound
    <3>5. Called(u.accounts, top, 0, node.path[1], node.type)
      BY <3>3, <3>4 DEF Called, Stay
    <3> QED BY <3>4, <3>5 DEF There, Called
  <2> QED BY <2>1, <2>2
<1>4. PICK leaf \in DOMAIN u.accounts : leaf = Accounts!Leaf(u, node)
  BY <1>3, LeafIs
<1>5. CASE w = u
  BY <1>3, <1>5
<1>6. CASE w # u
  <2>1. w = [u EXCEPT !.accounts[leaf].placeholder = TRUE] /\ Accounts!Posted(u, leaf) = {}
    BY <1>1, <1>4, <1>6 DEF Accounts!AsPlaceholder
  <2>2. PICK old \in AccountRow : old = u.accounts[leaf]
    BY <1>3 DEF Sound, Planted
  <2>3. PICK row : row = [old EXCEPT !.placeholder = TRUE]
    OBVIOUS
  <2>4. row \in AccountRow /\ row.parent = old.parent /\ row.name = old.name /\ row.type = old.type
    BY <2>2, <2>3 DEF AccountRow
  <2>5. w = [u EXCEPT !.accounts[leaf] = row]
    BY <2>1, <2>2, <2>3
  <2>6. Sound(w)
    <3>1. Sound(u) /\ leaf \in DOMAIN u.accounts /\ Accounts!Posted(u, leaf) = {}
      BY <1>3, <2>1
    <3>2. row \in AccountRow /\ row.parent = u.accounts[leaf].parent /\ row.name = u.accounts[leaf].name
          /\ row.type = u.accounts[leaf].type
      BY <2>2, <2>4
    <3> QED BY <2>5, <3>1, <3>2, ChangedIsSound
  <2>7. Stay(DOMAIN u.accounts, u, w)
    <3>1. PICK A, E, r, t, g : u = [accounts |-> A, entries |-> E, rule |-> r, template |-> t, budget |-> g]
      BY <1>3 DEF Sound
    <3>2. u.accounts = A /\ w.accounts = [A EXCEPT ![leaf] = row]
      BY <2>5, <3>1
    <3> QED BY <1>4, <2>2, <2>4, <3>2 DEF Stay
  <2>8. There(w, node)
    <3>1. Accounts!Top(u, node) \in DOMAIN u.accounts /\ Accounts!Leaf(u, node) \in DOMAIN u.accounts
      BY <1>3, LeafIs DEF Called
    <3> QED BY <1>3, <2>7, <3>1, NodeStays
  <2> QED BY <2>6, <2>8
<1> QED BY <1>5, <1>6

(* remap_accounts, one of its moves: into the account of the node, or skipped. *)
Tried(v, node, a) ==
  IF a \in DOMAIN v.accounts \ {Accounts!Bank, Accounts!Holding} /\ Accounts!MayMerge(v, a, Accounts!Leaf(v, node))
  THEN Accounts!Merged(v, a, Accounts!Leaf(v, node)) ELSE {v}

LEMMA TriedIsSound ==
  ASSUME NEW v, Sound(v), NEW node, There(v, node), NEW a, NEW w \in Tried(v, node, a)
  PROVE  Sound(w) /\ There(w, node)
<1>1. CASE w = v
  BY <1>1
<1>2. CASE w # v
  <2>1. PICK top, leaf : top = Accounts!Top(v, node) /\ leaf = Accounts!Leaf(v, node)
    OBVIOUS
  <2>2. a \in DOMAIN v.accounts /\ a # 1 /\ Accounts!MayMerge(v, a, leaf) /\ w \in Accounts!Merged(v, a, leaf)
    BY <1>2, <2>1 DEF Tried, Accounts!Bank
  <2>3. top \in DOMAIN v.accounts /\ leaf \in DOMAIN v.accounts /\ a # leaf
    BY <2>1, <2>2, LeafIs DEF Called, Accounts!MayMerge
  <2>4. /\ Sound(w) /\ Stay(DOMAIN v.accounts \ {a}, v, w)
        /\ Accounts!Children(v, a) # {} => Stay(DOMAIN v.accounts, v, w)
    BY <2>2, <2>3, MergedIsSound
  <2>5. CASE Accounts!Children(v, a) # {}
    BY <2>1, <2>3, <2>4, <2>5, NodeStays
  <2>6. CASE Accounts!Children(v, a) = {}
    <3>1. a # top
      <4>1. Len(node.path) # 1 => leaf \in Accounts!Children(v, top)
        BY <2>1, <2>3, LeafIs DEF Accounts!Children, Called
      <4>2. Len(node.path) = 1 => leaf = top
        BY <2>1, LeafIs
      <4> QED BY <2>3, <2>6, <4>1, <4>2
    <3>2. top \in DOMAIN v.accounts \ {a} /\ leaf \in DOMAIN v.accounts \ {a}
      BY <2>3, <3>1
    <3> QED BY <2>1, <2>4, <3>2, NodeStays
  <2> QED BY <2>4, <2>5, <2>6
<1> QED BY <1>1, <1>2

(* Entries that change while the chart does not. *)
LEMMA PostedIsSound ==
  ASSUME NEW v, Sound(v), NEW E, Posting(v.accounts, E), NEW w, w = [v EXCEPT !.entries = E]
  PROVE  Sound(w)
<1>1. w = [accounts |-> v.accounts, entries |-> E, rule |-> v.rule, template |-> v.template, budget |-> v.budget]
  BY DEF Sound
<1>2. Sound([accounts |-> v.accounts, entries |-> E, rule |-> v.rule, template |-> v.template, budget |-> v.budget])
  BY SoundIs DEF Sound
<1> QED BY <1>1, <1>2, Zenon

LEMMA RowChanges ==
  ASSUME NEW A, NEW E, Posting(A, E), NEW i \in DOMAIN E, NEW row \in PaymentRow, row.account = E[i].account
  PROVE  Posting(A, [E EXCEPT ![i] = row])
<1>1. PICK F : F = [E EXCEPT ![i] = row]
  OBVIOUS
<1>2. F \in Seq(PaymentRow) /\ DOMAIN F = DOMAIN E /\ F[i] = row /\ \A j \in DOMAIN E \ {i} : F[j] = E[j]
  BY <1>1 DEF Posting
<1>3. \A j \in DOMAIN F : F[j].account = E[j].account
  BY <1>2
<1>4. Posting(A, F)
  BY <1>2, <1>3 DEF Posting
<1> QED BY <1>1, <1>4

LEMMA RowComes ==
  ASSUME NEW A, NEW E, Posting(A, E), NEW row \in PaymentRow, row.account \in DOMAIN A, ~A[row.account].placeholder
  PROVE  Posting(A, Append(E, row))
<1>1. PICK F : F = Append(E, row)
  OBVIOUS
<1>2. /\ F \in Seq(PaymentRow) /\ DOMAIN F = 1..Len(E) + 1 /\ DOMAIN E = 1..Len(E) /\ Len(E) \in Nat
      /\ F[Len(E) + 1] = row /\ \A j \in 1..Len(E) : F[j] = E[j]
  BY <1>1 DEF Posting
<1>3. Posting(A, F)
  BY <1>2 DEF Posting
<1> QED BY <1>1, <1>3

(***************************************************************************)
(* The steps of the chart                                                  *)
(***************************************************************************)

LEMMA AccountsStaySound ==
  ASSUME Sound(books),
         Accounts!CreateAccount \/ Accounts!Move \/ Accounts!Classify \/ Accounts!Reuse \/ Accounts!CloseAccount
  PROVE  Sound(books')
<1>1. PICK A : A = books.accounts /\ A \in [DOMAIN A -> AccountRow] /\ 0 \notin DOMAIN A
  BY PlantedIsFinite DEF Sound, Planted
<1>2. CASE Accounts!CreateAccount
  <2>1. PICK parent \in DOMAIN A \cup {0}, name \in ChartNames, type \in {"expense", "income"}, u \in ChartUnits,
             p \in BOOLEAN :
          /\ Accounts!Free(books, 0, parent, name, type) /\ (parent # 0 => A[parent].type = type)
          /\ books' = Accounts!Put(books, Accounts!NewId(books),
                                   [Accounts!Account(parent, name, type, u) EXCEPT !.placeholder = p])
    BY <1>1, <1>2 DEF Accounts!CreateAccount, Accounts!Edit, Accounts!Accounts, Accounts!None, Accounts!Categories
  <2>2. PICK row : row = [Accounts!Account(parent, name, type, u) EXCEPT !.placeholder = p]
    OBVIOUS
  <2>3. row \in AccountRow /\ row.parent = parent /\ row.name = name /\ row.type = type
    <3>1. parent \in Nat
      BY <1>1, PlantedIsFinite DEF Sound
    <3> QED BY <2>2, <3>1 DEF Accounts!Account, AccountRow
  <2>4. /\ row.parent \in DOMAIN books.accounts \cup {0}
        /\ row.parent # 0 => books.accounts[row.parent].type = row.type
        /\ Accounts!Free(books, 0, row.parent, row.name, row.type)
    BY <1>1, <2>1, <2>3
  <2>5. Sound(Accounts!Put(books, Accounts!NewId(books), row))
    BY <2>3, <2>4, GrownIsSound
  <2> QED BY <2>1, <2>2, <2>5, Zenon
<1>3. CASE Accounts!Move
  <2>1. PICK a \in DOMAIN books.accounts, p \in DOMAIN books.accounts \cup {0} :
          /\ Accounts!MayMove(a, p) /\ Accounts!Free(books, a, p, books.accounts[a].name, books.accounts[a].type)
          /\ books' = [books EXCEPT !.accounts[a].parent = p]
    BY <1>3 DEF Accounts!Move, Accounts!Edit, Accounts!Accounts, Accounts!None
  <2>2. p # 0 => p # a /\ books.accounts[p].type = books.accounts[a].type
                 /\ a \notin Accounts!Above(books.accounts, p)
    BY <2>1 DEF Accounts!MayMove, Accounts!Accounts, Accounts!None
  <2> QED BY <2>1, <2>2, MovedIsSound
<1>4. ASSUME NEW a \in DOMAIN A, NEW row \in AccountRow, row.parent = A[a].parent, row.name = A[a].name,
             row.type = A[a].type, Accounts!Posted(books, a) = {} \/ row.placeholder = A[a].placeholder,
             books' = [books EXCEPT !.accounts[a] = row]
      PROVE  Sound(books')
  BY <1>1, <1>4, ChangedIsSound
<1>5. CASE Accounts!Classify
  <2>1. PICK a \in DOMAIN A, class \in {"", "fixed"} : books' = [books EXCEPT !.accounts[a].class = class]
    BY <1>1, <1>5 DEF Accounts!Classify, Accounts!Edit, Accounts!Accounts
  <2>2. PICK old, row : old \in AccountRow /\ old = A[a] /\ row = [old EXCEPT !.class = class]
    BY <1>1
  <2>3. /\ row \in AccountRow /\ row.parent = A[a].parent /\ row.name = A[a].name /\ row.type = A[a].type
        /\ row.placeholder = A[a].placeholder
    BY <2>2 DEF AccountRow
  <2>4. books' = [books EXCEPT !.accounts[a] = row]
    BY <1>1, <2>1, <2>2
  <2> QED BY <1>4, <2>3, <2>4
<1>6. CASE Accounts!Reuse
  <2>1. PICK a \in DOMAIN A, u \in ChartUnits, p \in BOOLEAN :
          /\ Accounts!Posted(books, a) = {}
          /\ books' = [books EXCEPT !.accounts[a].unit = u, !.accounts[a].placeholder = p]
    BY <1>1, <1>6 DEF Accounts!Reuse, Accounts!Edit, Accounts!Accounts
  <2>2. PICK old, row : old \in AccountRow /\ old = A[a] /\ row = [old EXCEPT !.unit = u, !.placeholder = p]
    BY <1>1
  <2>3. row \in AccountRow /\ row.parent = A[a].parent /\ row.name = A[a].name /\ row.type = A[a].type
    BY <2>2 DEF AccountRow
  <2>4. books' = [books EXCEPT !.accounts[a] = row]
    BY <1>1, <2>1, <2>2
  <2> QED BY <1>4, <2>1, <2>3, <2>4
<1>7. CASE Accounts!CloseAccount
  <2>1. PICK a \in DOMAIN A : books' = [books EXCEPT !.accounts[a].closed = ~@]
    BY <1>1, <1>7 DEF Accounts!CloseAccount, Accounts!Edit, Accounts!Accounts
  <2>2. PICK old, row : old \in AccountRow /\ old = A[a] /\ row = [old EXCEPT !.closed = ~@]
    BY <1>1
  <2>3. /\ row \in AccountRow /\ row.parent = A[a].parent /\ row.name = A[a].name /\ row.type = A[a].type
        /\ row.placeholder = A[a].placeholder
    BY <2>2 DEF AccountRow
  <2>4. books' = [books EXCEPT !.accounts[a] = row]
    BY <1>1, <2>1, <2>2
  <2> QED BY <1>4, <2>3, <2>4
<1> QED BY <1>2, <1>3, <1>5, <1>6, <1>7

LEMMA ChartsStaySound ==
  ASSUME Sound(books), Accounts!ApplyChart \/ Accounts!Merge \/ Accounts!Remap
  PROVE  Sound(books')
<1>1. CASE Accounts!ApplyChart
  <2>1. PICK node \in Accounts!Nodes : books' \in Accounts!WithNode(books, node)
    BY <1>1 DEF Accounts!ApplyChart, Accounts!Edit
  <2> QED BY <2>1, NodeIsSound
<1>2. CASE Accounts!Merge
  <2>1. PICK a, b \in DOMAIN books.accounts :
          a # 1 /\ Accounts!MayMerge(books, a, b) /\ books' \in Accounts!Merged(books, a, b)
    BY <1>2 DEF Accounts!Merge, Accounts!Edit, Accounts!Accounts, Accounts!Bank
  <2> QED BY <2>1, MergedIsSound
<1>3. CASE Accounts!Remap
  <2>1. PICK node \in Accounts!Nodes, moves \in Remaps :
          books' \in UNION {Tried(w, node, moves[2]) :
                              w \in UNION {Tried(v, node, moves[1]) : v \in Accounts!WithNode(books, node)}}
    BY <1>3, Zenon DEF Accounts!Remap, Accounts!Edit, Tried
  <2>2. PICK v \in Accounts!WithNode(books, node) :
          \E w \in Tried(v, node, moves[1]) : books' \in Tried(w, node, moves[2])
    BY <2>1
  <2>3. PICK w \in Tried(v, node, moves[1]) : books' \in Tried(w, node, moves[2])
    BY <2>2
  <2>4. Sound(v) /\ There(v, node)
    BY NodeIsSound
  <2>5. Sound(w) /\ There(w, node)
    BY <2>4, TriedIsSound
  <2> QED BY <2>3, <2>5, TriedIsSound
<1> QED BY <1>1, <1>2, <1>3

LEMMA NamesStaySound ==
  ASSUME Sound(books), Accounts!SaveRule \/ Accounts!SaveTemplate \/ Accounts!SaveBudget \/ Accounts!DeleteBudget
  PROVE  Sound(books')
<1>1. PICK A, E, r, t, g : books = [accounts |-> A, entries |-> E, rule |-> r, template |-> t, budget |-> g]
  BY DEF Sound
<1>2. /\ Planted(A) /\ Distinct(A) /\ Naming(A, r) /\ Naming(A, t) /\ Budgeting(A, g) /\ Posting(A, E)
      /\ 0 \notin DOMAIN A /\ A = books.accounts
  BY <1>1, PlantedIsFinite DEF Sound
<1>3. CASE Accounts!SaveRule
  <2>1. PICK a \in DOMAIN A : books' = [accounts |-> A, entries |-> E, rule |-> a, template |-> t, budget |-> g]
    BY <1>1, <1>2, <1>3 DEF Accounts!SaveRule, Accounts!Edit, Accounts!Accounts
  <2> QED BY <1>2, <2>1, SoundIs DEF Naming
<1>4. CASE Accounts!SaveTemplate
  <2>1. PICK a \in DOMAIN A : books' = [accounts |-> A, entries |-> E, rule |-> r, template |-> a, budget |-> g]
    BY <1>1, <1>2, <1>4 DEF Accounts!SaveTemplate, Accounts!Edit, Accounts!Accounts
  <2> QED BY <1>2, <2>1, SoundIs DEF Naming
<1>5. CASE Accounts!SaveBudget
  <2>1. PICK h : Budgeting(A, h) /\ books' = [books EXCEPT !.budget = h]
    <3>1. PICK a \in DOMAIN A \cup {0} : \E class, tag, from, to :
            /\ a # 0 => A[a].type = "expense"
            /\ books' = [books EXCEPT !.budget = [account |-> a, class |-> class, tag |-> tag, from |-> from, to |-> to]]
      BY <1>2, <1>5 DEF Accounts!SaveBudget, Accounts!Edit, Accounts!Accounts, Accounts!None
    <3> QED BY <1>2, <3>1 DEF Budgeting, Naming
  <2>2. books' = [accounts |-> A, entries |-> E, rule |-> r, template |-> t, budget |-> h]
    BY <1>1, <2>1
  <2>3. Sound([accounts |-> A, entries |-> E, rule |-> r, template |-> t, budget |-> h])
    BY <1>2, <2>1, SoundIs
  <2> QED BY <2>2, <2>3, Zenon
<1>6. CASE Accounts!DeleteBudget
  <2>1. books' = [accounts |-> A, entries |-> E, rule |-> r, template |-> t, budget |-> Accounts!NoBudget]
    BY <1>1, <1>6 DEF Accounts!DeleteBudget, Accounts!Edit
  <2>2. Budgeting(A, Accounts!NoBudget)
    BY DEF Budgeting, Naming, Accounts!NoBudget, Accounts!None
  <2> QED BY <1>2, <2>1, <2>2, SoundIs
<1> QED BY <1>3, <1>4, <1>5, <1>6

LEMMA EntriesStaySound ==
  ASSUME Sound(books),
         \/ Accounts!Book \/ Accounts!Confirm \/ Accounts!Void \/ Accounts!Reconcile
         \/ Accounts!Recategorize \/ Accounts!TagAccount
  PROVE  Sound(books')
<1>1. PICK A, E : A = books.accounts /\ E = books.entries
  OBVIOUS
<1>2. /\ Posting(A, E) /\ E \in Seq(PaymentRow) /\ A \in [DOMAIN A -> AccountRow] /\ DOMAIN A \subseteq Nat \ {0}
      /\ \A i \in DOMAIN E : E[i] \in PaymentRow
  <2>1. Posting(A, E) /\ E \in Seq(PaymentRow)
    BY <1>1 DEF Sound, Posting
  <2> QED BY <1>1, <2>1, PlantedIsFinite DEF Sound, Planted
<1>3. ASSUME NEW F, Posting(A, F), books' = [books EXCEPT !.entries = F]
      PROVE  Sound(books')
  BY <1>1, <1>3, PostedIsSound
<1>4. CASE Accounts!Book
  <2>1. PICK a \in DOMAIN A, d \in ChartDays, payee \in ChartPayees, ts \in SUBSET ChartTags, s \in {"draft", "posted"} :
          /\ Accounts!Takes(books, a)
          /\ books' = [books EXCEPT !.entries = Append(@, Accounts!Entry(A, Len(E) + 1, a, d, s, payee, ts))]
    <3>1. PICK a \in DOMAIN books.accounts \ {Accounts!Bank}, d \in ChartDays, payee \in ChartPayees,
               ts \in {{}} \cup {{t} : t \in ChartTags}, s \in {"draft", "posted"} :
            /\ Accounts!Takes(books, a)
            /\ books' = [books EXCEPT !.entries = Append(@, Accounts!Entry(books.accounts, Len(books.entries) + 1, a, d, s,
                                                                           payee, ts))]
      BY <1>4, Zenon DEF Accounts!Book, Accounts!Edit, Accounts!Accounts, Accounts!Entries
    <3>2. ts \in SUBSET ChartTags /\ a \in DOMAIN A
      BY <1>1
    <3> QED BY <1>1, <3>1, <3>2, Zenon
  <2>2. PICK row : row = Accounts!Entry(A, Len(E) + 1, a, d, s, payee, ts)
    OBVIOUS
  <2>3. row \in PaymentRow /\ row.account = a
    <3>1. Len(E) + 1 \in Int /\ (Len(E) + 1) * 1 \in Int /\ (Len(E) + 1) * 2 \in Int
      BY <1>2
    <3>2. (Len(E) + 1) * (IF A[a].unit = ChartHome THEN 1 ELSE 2) \in Int
      BY <3>1
    <3> QED BY <1>2, <2>2, <3>1, <3>2 DEF Accounts!Entry, PaymentRow
  <2>4. Posting(A, Append(E, row))
    BY <1>1, <1>2, <2>1, <2>3, RowComes DEF Accounts!Takes
  <2>5. books' = [books EXCEPT !.entries = Append(E, row)]
    BY <1>1, <2>1, <2>2
  <2> QED BY <1>3, <2>4, <2>5
<1>5. ASSUME NEW i \in DOMAIN E, NEW row \in PaymentRow, row.account = E[i].account,
             books' = [books EXCEPT !.entries[i] = row]
      PROVE  Sound(books')
  <2>1. Posting(A, [E EXCEPT ![i] = row])
    BY <1>2, <1>5, RowChanges
  <2>2. books' = [books EXCEPT !.entries = [E EXCEPT ![i] = row]]
    BY <1>1, <1>5
  <2> QED BY <1>3, <2>1, <2>2
<1>6. CASE Accounts!Confirm
  <2>1. PICK i \in DOMAIN E : books' = [books EXCEPT !.entries[i].status = "posted"]
    BY <1>1, <1>6 DEF Accounts!Confirm, Accounts!Edit, Accounts!Entries
  <2>2. PICK old, row : old \in PaymentRow /\ old = E[i] /\ row = [old EXCEPT !.status = "posted"]
    BY <1>2
  <2>3. row \in PaymentRow /\ row.account = old.account
    BY <2>2 DEF PaymentRow
  <2>4. books' = [books EXCEPT !.entries[i] = row]
    BY <1>1, <2>1, <2>2
  <2> QED BY <1>5, <2>2, <2>3, <2>4
<1>7. CASE Accounts!Reconcile
  <2>1. PICK i \in DOMAIN E : books' = [books EXCEPT !.entries[i].reconciled = TRUE]
    BY <1>1, <1>7 DEF Accounts!Reconcile, Accounts!Edit, Accounts!Entries
  <2>2. PICK old, row : old \in PaymentRow /\ old = E[i] /\ row = [old EXCEPT !.reconciled = TRUE]
    BY <1>2
  <2>3. row \in PaymentRow /\ row.account = old.account
    BY <2>2 DEF PaymentRow
  <2>4. books' = [books EXCEPT !.entries[i] = row]
    BY <1>1, <2>1, <2>2
  <2> QED BY <1>5, <2>2, <2>3, <2>4
<1>8. CASE Accounts!Void
  <2>1. PICK i \in DOMAIN E, d \in ChartDays :
          books' = [books EXCEPT !.entries =
                      Append([@ EXCEPT ![i].status = "void"],
                             [E[i] EXCEPT !.date = d, !.quantity = -@, !.amount = -@, !.reverses = i, !.reconciled = FALSE])]
    BY <1>1, <1>8 DEF Accounts!Void, Accounts!Edit, Accounts!Entries
  <2>2. PICK old, gone, new :
          /\ old \in PaymentRow /\ old = E[i] /\ gone = [old EXCEPT !.status = "void"]
          /\ new = [old EXCEPT !.date = d, !.quantity = -@, !.amount = -@, !.reverses = i, !.reconciled = FALSE]
    BY <1>2
  <2>3. gone \in PaymentRow /\ gone.account = old.account
    BY <2>2 DEF PaymentRow
  <2>4. new \in PaymentRow /\ new.account = old.account
    <3>1. i \in Nat /\ -old.quantity \in Int /\ -old.amount \in Int
      BY <1>2, <2>2 DEF PaymentRow
    <3> QED BY <2>2, <3>1 DEF PaymentRow
  <2>5. PICK F : F = [E EXCEPT ![i] = gone]
    OBVIOUS
  <2>6. Posting(A, F)
    BY <1>2, <2>2, <2>3, <2>5, RowChanges
  <2>7. new.account \in DOMAIN A /\ ~A[new.account].placeholder
    BY <1>2, <2>2, <2>4 DEF Posting
  <2>8. Posting(A, Append(F, new))
    BY <2>4, <2>6, <2>7, RowComes
  <2>9. books' = [books EXCEPT !.entries = Append(F, new)]
    BY <1>1, <2>1, <2>2, <2>5
  <2> QED BY <1>3, <2>8, <2>9
<1>9. ASSUME NEW F, F = [i \in DOMAIN E |-> F[i]], \A i \in DOMAIN E : F[i] \in PaymentRow,
             \A i \in DOMAIN E : F[i].account \in DOMAIN A /\ ~A[F[i].account].placeholder,
             books' = [books EXCEPT !.entries = F]
      PROVE  Sound(books')
  <2>1. F \in Seq(PaymentRow) /\ DOMAIN F = DOMAIN E
    BY <1>2, <1>9, RowsAreAsMany
  <2>2. Posting(A, F)
    BY <1>9, <2>1 DEF Posting
  <2> QED BY <1>3, <1>9, <2>2
<1>10. CASE Accounts!Recategorize
  <2>1. PICK b, ts, is :
          b \in DOMAIN A /\ ts \in SUBSET ChartTags /\ ~A[b].placeholder /\ books' = Accounts!Recategorized(is, b, ts)
    <3>1. PICK a \in DOMAIN books.accounts, b \in DOMAIN books.accounts, payee \in ChartPayees \cup {Accounts!Anything},
               ts \in {{}} \cup {{t} : t \in ChartTags} :
            Accounts!Takes(books, b) /\ books' = Accounts!Recategorized(Accounts!Matching(a, payee), b, ts)
      BY <1>10, Zenon DEF Accounts!Recategorize, Accounts!Edit, Accounts!Accounts
    <3>2. ts \in SUBSET ChartTags /\ b \in DOMAIN A
      BY <1>1
    <3> QED BY <1>1, <3>1, <3>2 DEF Accounts!Takes
  <2> DEFINE F == [i \in DOMAIN E |-> IF i \in is THEN [E[i] EXCEPT !.account = b, !.tags = @ \cup ts] ELSE E[i]]
  <2>2. books' = [books EXCEPT !.entries = F]
    BY <1>1, <2>1 DEF Accounts!Recategorized, Accounts!Entries
  <2>3. ASSUME NEW i \in DOMAIN E
        PROVE  F[i] \in PaymentRow /\ F[i].account \in DOMAIN A /\ ~A[F[i].account].placeholder
    <3>1. PICK old, new : old \in PaymentRow /\ old = E[i] /\ new = [old EXCEPT !.account = b, !.tags = @ \cup ts]
      BY <1>2
    <3>2. new \in PaymentRow /\ new.account = b
      <4>1. b \in Nat /\ old.tags \cup ts \in SUBSET ChartTags
        BY <1>2, <2>1, <3>1 DEF PaymentRow
      <4> QED BY <3>1, <4>1 DEF PaymentRow
    <3>3. F[i] = IF i \in is THEN new ELSE old
      BY <3>1
    <3>4. old.account \in DOMAIN A /\ ~A[old.account].placeholder
      BY <1>2, <3>1 DEF Posting
    <3> QED BY <2>1, <3>1, <3>2, <3>3, <3>4
  <2>4. F = [i \in DOMAIN E |-> F[i]]
    OBVIOUS
  <2> HIDE DEF F
  <2> QED BY <1>9, <2>2, <2>3, <2>4
<1>11. CASE Accounts!TagAccount
  <2>1. PICK a \in DOMAIN books.accounts, t \in ChartTags :
          books' = [books EXCEPT !.entries = [i \in DOMAIN books.entries |->
            IF books.entries[i].account = a /\ books.entries[i].status # "void"
            THEN [books.entries[i] EXCEPT !.tags = @ \cup {t}] ELSE books.entries[i]]]
    BY <1>11, Zenon DEF Accounts!TagAccount, Accounts!Edit, Accounts!Accounts, Accounts!Entries
  <2> DEFINE F == [i \in DOMAIN books.entries |->
                     IF books.entries[i].account = a /\ books.entries[i].status # "void"
                     THEN [books.entries[i] EXCEPT !.tags = @ \cup {t}] ELSE books.entries[i]]
  <2>2. books' = [books EXCEPT !.entries = F]
    BY <2>1, Zenon
  <2>3. ASSUME NEW i \in DOMAIN E
        PROVE  F[i] \in PaymentRow /\ F[i].account \in DOMAIN A /\ ~A[F[i].account].placeholder
    <3>1. PICK old, new : old \in PaymentRow /\ old = E[i] /\ new = [old EXCEPT !.tags = @ \cup {t}]
      BY <1>2
    <3>2. new \in PaymentRow /\ new.account = old.account
      BY <3>1 DEF PaymentRow
    <3>3. F[i] = IF old.account = a /\ old.status # "void" THEN new ELSE old
      BY <1>1, <3>1
    <3>4. old.account \in DOMAIN A /\ ~A[old.account].placeholder
      BY <1>2, <3>1 DEF Posting
    <3> QED BY <3>1, <3>2, <3>3, <3>4
  <2>4. F = [i \in DOMAIN E |-> F[i]]
    BY <1>1
  <2> HIDE DEF F
  <2> QED BY <1>9, <2>2, <2>3, <2>4
<1> QED BY <1>4, <1>6, <1>7, <1>8, <1>10, <1>11

(***************************************************************************)
(* The theorem                                                             *)
(***************************************************************************)

ChartSound == focus = "chart" => Sound(books)

LEMMA BeginsSound == Begins => ChartSound
<1> SUFFICES ASSUME focus = "chart", Accounts!Init
             PROVE  Sound(books)
  BY DEF Begins, ChartSound
<1>1. PICK A : A = Accounts!Fresh
  OBVIOUS
<1>2. /\ DOMAIN A = 1..4 /\ A \in [DOMAIN A -> AccountRow]
      /\ A[1].parent = 0 /\ A[2].parent = 1 /\ A[3].parent = 0 /\ A[4].parent = 0
      /\ A[1].name = "bank" /\ A[2].name = "fund" /\ A[3].name = "system" /\ A[4].name = "food"
      /\ A[1].type = "asset" /\ A[2].type = "asset"
      /\ A[4].placeholder = FALSE
  <2>1. PICK x, y, z, u : /\ x = Accounts!Account(0, "bank", "asset", ChartHome)
                          /\ y = [Accounts!Account(1, "fund", "asset", "share") EXCEPT !.holding = TRUE]
                          /\ z = Accounts!Account(0, "system", "expense", ChartHome)
                          /\ u = Accounts!Account(0, "food", "expense", ChartHome)
    OBVIOUS
  <2>2. A = <<x, y, z, u>>
    BY <1>1, <2>1, Zenon DEF Accounts!Fresh, Accounts!Bank, Accounts!None
  <2>3. /\ {x, y, z, u} \subseteq AccountRow /\ x.parent = 0 /\ y.parent = 1 /\ z.parent = 0 /\ u.parent = 0
        /\ x.name = "bank" /\ y.name = "fund" /\ z.name = "system" /\ u.name = "food"
        /\ x.type = "asset" /\ y.type = "asset" /\ u.placeholder = FALSE
    <3>1. PICK share : share = Accounts!Account(1, "fund", "asset", "share")
      OBVIOUS
    <3>2. share \in AccountRow /\ share.parent = 1 /\ share.name = "fund" /\ share.type = "asset"
      BY <3>1 DEF Accounts!Account, AccountRow
    <3>3. y = [share EXCEPT !.holding = TRUE]
      BY <2>1, <3>1, Zenon
    <3>4. y \in AccountRow /\ y.parent = 1 /\ y.name = "fund" /\ y.type = "asset"
      BY <3>2, <3>3 DEF AccountRow
    <3>5. /\ x \in AccountRow /\ z \in AccountRow /\ u \in AccountRow
          /\ x.parent = 0 /\ z.parent = 0 /\ u.parent = 0
          /\ x.name = "bank" /\ z.name = "system" /\ u.name = "food"
          /\ x.type = "asset" /\ u.placeholder = FALSE
      <4>1. \A n \in {"bank", "system", "food"}, ty \in {"asset", "expense"} :
              LET row == Accounts!Account(0, n, ty, ChartHome)
              IN  row \in AccountRow /\ row.parent = 0 /\ row.name = n /\ row.type = ty /\ row.placeholder = FALSE
        BY DEF Accounts!Account, AccountRow
      <4> QED BY <2>1, <4>1
    <3> QED BY <3>4, <3>5
  <2>4. DOMAIN A = 1..4 /\ A[1] = x /\ A[2] = y /\ A[3] = z /\ A[4] = u
    BY <2>2
  <2>5. A = [k \in 1..4 |-> A[k]]
    BY <2>2
  <2> QED BY <2>3, <2>4, <2>5
<1>3. Forest(A)
  <2> SUFFICES ASSUME NEW S \in SUBSET DOMAIN A, S # {} PROVE \E x \in S : A[x].parent \notin S
    BY DEF Forest
  <2>1. CASE S \subseteq {2}
    BY <1>2, <2>1
  <2>2. CASE ~(S \subseteq {2})
    BY <1>2, <2>2
  <2> QED BY <2>1, <2>2
<1>4. Planted(A)
  <2>1. DOMAIN A \subseteq 1..4 /\ 4 \in Nat /\ 1 \in DOMAIN A
    BY <1>2
  <2> QED BY <1>2, <1>3, <2>1 DEF Planted
<1>5. Distinct(A)
  BY <1>2 DEF Distinct
<1>6. Naming(A, 0) /\ Budgeting(A, Accounts!NoBudget)
  BY DEF Naming, Budgeting, Accounts!NoBudget, Accounts!None
<1>7. PICK E : /\ books = [accounts |-> A, entries |-> E, rule |-> 0, template |-> 0, budget |-> Accounts!NoBudget]
               /\ E = <<>> \/ \E p \in ChartPayees :
                                E = <<Accounts!Entry(A, 1, 4, Accounts!Min(ChartDays), "posted", p, {})>>
  BY <1>1 DEF Accounts!Init, Accounts!None
<1>8. Posting(A, E)
  <2>1. CASE E = <<>>
    BY <2>1 DEF Posting
  <2>2. CASE E # <<>>
    <3>1. PICK p, row : E = <<row>> /\ p \in ChartPayees /\ row = Accounts!Entry(A, 1, 4, Accounts!Min(ChartDays), "posted", p, {})
      BY <1>7, <2>2
    <3>2. row \in PaymentRow /\ row.account = 4
      BY <3>1 DEF Accounts!Entry, PaymentRow
    <3>3. E \in Seq(PaymentRow) /\ DOMAIN E = {1} /\ E[1] = row
      BY <3>1, <3>2
    <3> QED BY <1>2, <3>2, <3>3 DEF Posting
  <2> QED BY <2>1, <2>2
<1>9. Sound([accounts |-> A, entries |-> E, rule |-> 0, template |-> 0, budget |-> Accounts!NoBudget])
  BY <1>4, <1>5, <1>6, <1>8, SoundIs
<1> QED BY <1>7, <1>9, Zenon

LEMMA StaysSound == ChartSound /\ [Work]_all => ChartSound'
<1> SUFFICES ASSUME ChartSound, [Work]_all, focus' = "chart"
             PROVE  Sound(books')
  BY DEF ChartSound
<1>1. CASE UNCHANGED all
  BY <1>1 DEF all, chart, ChartSound
<1>2. CASE ChartStep
  BY <1>2, AccountsStaySound, ChartsStaySound, EntriesStaySound, NamesStaySound DEF ChartStep, Accounts!Next, ChartSound
<1>3. CASE AmountStep \/ ScheduleStep \/ OperationStep \/ CurrencyStep \/ FileStep
  BY <1>3 DEF AmountStep, ScheduleStep, OperationStep, CurrencyStep, FileStep, chart
<1> QED BY <1>1, <1>2, <1>3 DEF Work

(* Whatever is created, moved, merged away, remapped or reused (accounts.rs, budgets.rs): accounts
   form trees of one type each, what names an account names one that exists, and no entry is on
   an account that cannot hold postings, for any number of accounts, entries, names and changes. *)
THEOREM NothingDanglesHolds == Books => []NothingDangles
<1>1. ChartSound => NothingDangles
  BY SoundMeans DEF ChartSound, NothingDangles
<1> QED BY <1>1, BeginsSound, StaysSound, PTL DEF Books
=============================================================================
