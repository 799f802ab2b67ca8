---------------------------- MODULE JournalProofs ----------------------------
(***************************************************************************)
(* The books keep their types, their chain verifies and holds exactly the  *)
(* booked entries, and closed periods and voids are protected, for every   *)
(* number of entries, dates, accounts and quantities.                      *)
(***************************************************************************)
EXTENDS Journal, TLAPS

(***************************************************************************)
(* What append and rechain keep true of a chain that verifies, for any     *)
(* number of entries and any content.  c0 is the content before the step,  *)
(* c1 the content after it.                                                *)
(***************************************************************************)


ChainTypeOK ==
  /\ seq  \in [Entries -> Nat]
  /\ prev = [e \in Entries |-> prev[e]]
  /\ hash = [e \in Entries |-> hash[e]]

(* A chained entry has a positive number. *)
LEMMA ChainedNumbered ==
  ASSUME ChainTypeOK
  PROVE  \A e \in Chained : e \in Entries /\ seq[e] \in Nat /\ 1 <= seq[e]
<1>1. seq \in [Entries -> Nat]
  BY DEF ChainTypeOK
<1> QED BY <1>1 DEF Chained

(* The links numbered below an entry, and the entry's own, are exactly what
   its hash commits to; so the hash of the last entry below a number is the
   segment that ends there. *)
LEMMA HeadIsSegment ==
  ASSUME NEW c0, NEW c1, NEW S \in SUBSET Chained, NEW from \in Nat,
         ChainTypeOK, SeqUnique, VerifyPasses(c0),
         \A f \in Chained : seq[f] < from => f \in S,
         \A f \in S : seq[f] < from => c1[f] = c0[f],
         NEW head \in Heads({e \in S : seq[e] < from})
  PROVE  head.hash = Segment(S, 1, from, c1)
<1> DEFINE B == {e \in S : seq[e] < from}
<1>0. \A f \in S : f \in Entries /\ seq[f] \in Nat /\ 1 <= seq[f]
  BY ChainedNumbered
<1>1. CASE B = {}
  <2>1. head.hash = {}
    BY <1>1 DEF Heads
  <2>2. {g \in S : 1 <= seq[g] /\ seq[g] < from} = {}
    BY <1>1
  <2> QED BY <2>1, <2>2 DEF Segment
<1>2. CASE B # {}
  <2>1. PICK t \in B : (\A y \in B : seq[y] <= seq[t]) /\ head = [seq |-> seq[t], hash |-> hash[t]]
    BY <1>2 DEF Heads
  <2>2. head.hash = Segment(Chained, 1, seq[t], c0) \cup {Link(t, c0)}
    BY <2>1 DEF VerifyPasses, LinkVerifies, Digest
  <2>3. {g \in S : 1 <= seq[g] /\ seq[g] < from} = {g \in Chained : 1 <= seq[g] /\ seq[g] < seq[t]} \cup {t}
    BY <2>1, <1>0 DEF SeqUnique, Chained, ChainTypeOK
  <2>4. \A f \in B : Link(f, c1) = Link(f, c0)
    BY DEF Link
  <2>5. {g \in Chained : 1 <= seq[g] /\ seq[g] < seq[t]} \subseteq B
    BY <2>1, <1>0 DEF Chained, ChainTypeOK
  <2> QED BY <2>1, <2>2, <2>3, <2>4, <2>5 DEF Segment
<1> QED BY <1>1, <1>2

(* Two segments that meet are one. *)
LEMMA SegmentsMeet ==
  ASSUME NEW c, NEW S \in SUBSET Chained, NEW from \in Nat, NEW to \in Nat,
         ChainTypeOK, from <= to
  PROVE  Segment(S, 1, from, c) \cup Segment(S, from, to, c) = Segment(S, 1, to, c)
<1>1. \A f \in S : f \in Entries /\ seq[f] \in Nat /\ 1 <= seq[f]
  BY DEF Chained, ChainTypeOK
<1>2. {g \in S : 1 <= seq[g] /\ seq[g] < to}
        = {g \in S : 1 <= seq[g] /\ seq[g] < from} \cup {g \in S : from <= seq[g] /\ seq[g] < to}
  BY <1>1
<1> QED BY <1>2 DEF Segment

(* append keeps a chain that verifies, and numbers the new entry after all the
   others. *)
LEMMA AppendVerifies ==
  ASSUME NEW c0, NEW c1, NEW e \in Entries,
         ChainTypeOK, SeqUnique, VerifyPasses(c0), e \notin Chained,
         \A f \in Chained : c1[f] = c0[f],
         AppendLink(e, c1)
  PROVE  ChainTypeOK' /\ SeqUnique' /\ VerifyPasses(c1)' /\ Chained' = Chained \cup {e}
<1>1. PICK head \in Heads(Chained) :
        /\ seq'  = [seq EXCEPT ![e] = head.seq + 1]
        /\ prev' = [prev EXCEPT ![e] = head.hash]
        /\ hash' = [hash EXCEPT ![e] = Digest(head.hash, e, c1)]
  BY DEF AppendLink
<1>2. /\ head.seq \in Nat
      /\ \A f \in Chained : seq[f] <= head.seq
      /\ Chained # {} => \E t \in Chained : head.seq = seq[t]
      /\ Chained = {} => head.seq = 0
  BY DEF Heads, Chained, ChainTypeOK
<1>3. ChainTypeOK'
  <2>1. seq' \in [Entries -> Nat]
    BY <1>1, <1>2 DEF ChainTypeOK
  <2>2. prev' = [f \in Entries |-> prev'[f]]
    BY <1>1 DEF ChainTypeOK
  <2>3. hash' = [f \in Entries |-> hash'[f]]
    BY <1>1 DEF ChainTypeOK
  <2> QED BY <2>1, <2>2, <2>3 DEF ChainTypeOK
<1>4. Chained' = Chained \cup {e} /\ seq'[e] = head.seq + 1 /\ \A f \in Chained : seq'[f] = seq[f] /\ f # e
  BY <1>1, <1>2 DEF Chained, ChainTypeOK
<1>5. SeqUnique'
  BY <1>2, <1>4 DEF SeqUnique, Chained, ChainTypeOK
<1>6. head.hash = Segment(Chained, 1, head.seq + 1, c1)
  <2>1. {f \in Chained : seq[f] < head.seq + 1} = Chained
    BY <1>2 DEF Chained, ChainTypeOK
  <2>2. head \in Heads({f \in Chained : seq[f] < head.seq + 1})
    BY <2>1
  <2> QED BY <2>2, <1>2, HeadIsSegment
<1>7. \A n \in Nat : n <= head.seq + 1 => Segment(Chained, 1, n, c1)' = Segment(Chained, 1, n, c1)
  <2> SUFFICES ASSUME NEW n \in Nat, n <= head.seq + 1
               PROVE  Segment(Chained, 1, n, c1)' = Segment(Chained, 1, n, c1)
    OBVIOUS
  <2>1. {g \in Chained' : 1 <= seq'[g] /\ seq'[g] < n} = {g \in Chained : 1 <= seq[g] /\ seq[g] < n}
    BY <1>2, <1>4 DEF Chained, ChainTypeOK
  <2> QED BY <2>1 DEF Segment, Link
<1>8. LinkVerifies(e, c1)'
  <2>1. prev'[e] = head.hash /\ hash'[e] = Digest(head.hash, e, c1)
    BY <1>1 DEF ChainTypeOK
  <2>2. head.hash = Segment(Chained, 1, head.seq + 1, c1)'
    BY <1>6, <1>7, <1>2
  <2> QED BY <2>1, <2>2, <1>4 DEF LinkVerifies, Digest, Link
<1>9. ASSUME NEW f \in Chained
      PROVE  LinkVerifies(f, c1)'
  <2>1. f \in Entries /\ seq[f] \in Nat /\ seq[f] <= head.seq + 1
    BY <1>2 DEF Chained, ChainTypeOK
  <2>2. prev'[f] = prev[f] /\ hash'[f] = hash[f] /\ seq'[f] = seq[f]
    BY <1>1, <1>4, <2>1 DEF ChainTypeOK
  <2>3. prev[f] = Segment(Chained, 1, seq[f], c0) /\ hash[f] = Digest(prev[f], f, c0)
    BY DEF VerifyPasses, LinkVerifies
  <2>4. Segment(Chained, 1, seq[f], c0) = Segment(Chained, 1, seq[f], c1)
    BY DEF Segment, Link
  <2>5. Segment(Chained, 1, seq[f], c1)' = Segment(Chained, 1, seq[f], c1)
    BY <1>7, <2>1, <2>2
  <2>6. Digest(prev[f], f, c1) = Digest(prev[f], f, c0)
    BY DEF Digest, Link
  <2> QED BY <2>2, <2>3, <2>4, <2>5, <2>6 DEF LinkVerifies, Digest, Link
<1> QED BY <1>3, <1>4, <1>5, <1>8, <1>9 DEF VerifyPasses

(* rechain keeps a chain that verifies when the rows it keeps include all that
   are numbered below its start, and none of those changed. *)
LEMMA RechainVerifies ==
  ASSUME NEW c0, NEW c1, NEW S \in SUBSET Chained, NEW from \in Nat,
         ChainTypeOK, SeqUnique, VerifyPasses(c0),
         \A f \in Chained : seq[f] < from => f \in S,
         \A f \in S : seq[f] < from => c1[f] = c0[f],
         Rechain(S, from, c1),
         seq' = [e \in Entries |-> IF e \in S THEN seq[e] ELSE 0]
  PROVE  ChainTypeOK' /\ SeqUnique' /\ VerifyPasses(c1)' /\ Chained' = S
<1>0. \A f \in Chained : f \in Entries /\ seq[f] \in Nat /\ 1 <= seq[f]
  BY ChainedNumbered
<1> DEFINE Before(h, e) == h.hash \cup Segment(S, from, seq[e], c1)
           Kept(e)      == e \in S /\ seq[e] < from
<1>1. PICK head \in Heads({e \in S : seq[e] < from}) :
        /\ prev' = [e \in Entries |-> IF Kept(e) THEN prev[e]
                                      ELSE IF e \in S THEN Before(head, e) ELSE {}]
        /\ hash' = [e \in Entries |-> IF Kept(e) THEN hash[e]
                                      ELSE IF e \in S THEN Digest(Before(head, e), e, c1) ELSE {}]
  BY DEF Rechain
<1>2. head.hash = Segment(S, 1, from, c1)
  BY HeadIsSegment
<1>3. ChainTypeOK'
  <2>1. seq' \in [Entries -> Nat]
    BY DEF ChainTypeOK
  <2>2. prev' = [e \in Entries |-> prev'[e]] /\ hash' = [e \in Entries |-> hash'[e]]
    BY <1>1, Zenon
  <2> QED BY <2>1, <2>2 DEF ChainTypeOK
<1>4. Chained' = S /\ \A f \in S : seq'[f] = seq[f]
  <2>1. \A f \in Entries : seq'[f] = IF f \in S THEN seq[f] ELSE 0
    OBVIOUS
  <2>2. S \subseteq Entries
    BY <1>0
  <2> QED BY <1>0, <2>1, <2>2 DEF Chained
<1>5. SeqUnique'
  BY <1>4 DEF SeqUnique
<1>6. \A n \in Nat : Segment(Chained, 1, n, c1)' = Segment(S, 1, n, c1)
  <2>1. \A n \in Nat : {g \in Chained' : 1 <= seq'[g] /\ seq'[g] < n} = {g \in S : 1 <= seq[g] /\ seq[g] < n}
    BY <1>4
  <2> QED BY <2>1 DEF Segment, Link
<1>7. ASSUME NEW f \in S
      PROVE  LinkVerifies(f, c1)'
  <2>1. f \in Entries /\ seq[f] \in Nat /\ seq'[f] = seq[f]
    BY <1>0, <1>4
  <2>2. CASE seq[f] < from
    <3>1. prev'[f] = prev[f] /\ hash'[f] = hash[f]
      BY <1>1, <2>1, <2>2
    <3>2. prev[f] = Segment(Chained, 1, seq[f], c0) /\ hash[f] = Digest(prev[f], f, c0)
      BY DEF VerifyPasses, LinkVerifies
    <3>3. {g \in Chained : 1 <= seq[g] /\ seq[g] < seq[f]} = {g \in S : 1 <= seq[g] /\ seq[g] < seq[f]}
      BY <1>0, <2>1, <2>2
    <3>4. \A g \in S : seq[g] < seq[f] => Link(g, c1) = Link(g, c0)
      BY <1>0, <2>1, <2>2 DEF Link
    <3>5. Segment(Chained, 1, seq[f], c0) = Segment(S, 1, seq[f], c1)
      BY <3>3, <3>4 DEF Segment
    <3>6. Digest(prev[f], f, c0) = Digest(prev[f], f, c1)
      BY <2>2 DEF Digest, Link
    <3>7. prev'[f] = Segment(Chained, 1, seq[f], c1)'
      BY <3>1, <3>2, <3>5, <1>6, <2>1
    <3> QED BY <3>1, <3>2, <3>6, <3>7, <2>1 DEF LinkVerifies, Digest, Link
  <2>3. CASE ~(seq[f] < from)
    <3>1. prev'[f] = Before(head, f) /\ hash'[f] = Digest(Before(head, f), f, c1)
      BY <1>1, <2>1, <2>3
    <3>2. Before(head, f) = Segment(S, 1, seq[f], c1)
      <4>1. from <= seq[f]
        BY <2>1, <2>3
      <4>2. Segment(S, 1, from, c1) \cup Segment(S, from, seq[f], c1) = Segment(S, 1, seq[f], c1)
        BY <4>1, <2>1, SegmentsMeet
      <4> QED BY <4>2, <1>2
    <3>3. prev'[f] = Segment(Chained, 1, seq[f], c1)'
      BY <3>1, <3>2, <1>6, <2>1
    <3> QED BY <3>1, <3>3, <2>1 DEF LinkVerifies, Digest, Link
  <2> QED BY <2>2, <2>3
<1> QED BY <1>3, <1>4, <1>5, <1>7 DEF VerifyPasses

(* The two uses of rechain: an edit keeps every row, a roll-back deletes some. *)
LEMMA RechainFromVerifies ==
  ASSUME NEW c0, NEW c1, NEW from \in Nat,
         ChainTypeOK, SeqUnique, VerifyPasses(c0),
         \A f \in Chained : seq[f] < from => c1[f] = c0[f],
         RechainFrom(from, c1)
  PROVE  ChainTypeOK' /\ SeqUnique' /\ VerifyPasses(c1)' /\ Chained' = Chained
<1>1. seq' = [e \in Entries |-> IF e \in Chained THEN seq[e] ELSE 0]
  BY DEF RechainFrom, Chained, ChainTypeOK
<1>2. Rechain(Chained, from, c1)
  BY DEF RechainFrom
<1> QED BY <1>1, <1>2, RechainVerifies

(* A roll-back deletes booked entries and rechains from the first of them: what is
   left of the chain verifies, with the gaps of the deleted numbers in it. *)
LEMMA UnlinkVerifies ==
  ASSUME NEW c0, NEW rows \in SUBSET Chained, NEW from \in Nat,
         ChainTypeOK, SeqUnique, VerifyPasses(c0),
         \A f \in rows : from <= seq[f],
         Unlink(rows, from, c0)
  PROVE  ChainTypeOK' /\ SeqUnique' /\ VerifyPasses(c0)' /\ Chained' = Chained \ rows
<1> DEFINE S == Chained \ rows
<1>1. seq' = [e \in Entries |-> IF e \in S THEN seq[e] ELSE 0]
  BY DEF Unlink, Chained, ChainTypeOK
<1>2. Rechain(S, from, c0)
  BY DEF Unlink
<1>3. \A f \in Chained : seq[f] < from => f \in S
  BY ChainedNumbered
<1>4. S \in SUBSET Chained
  OBVIOUS
<1>5. ChainTypeOK' /\ SeqUnique' /\ VerifyPasses(c0)' /\ Chained' = S
  <2> HIDE DEF S
  <2> QED BY <1>1, <1>2, <1>3, <1>4, RechainVerifies
<1> QED BY <1>5

(***************************************************************************)
(* The books                                                               *)
(***************************************************************************)


(* The part of the inductive invariant about the chain: ChainVerifies alone is
   not inductive, since append must know that the entry it links is not in the
   chain yet and rechain that no two entries share a number. *)
ChainInv ==
  /\ ChainTypeOK
  /\ SeqUnique
  /\ VerifyPasses(content)
  /\ Chained = Booked

(***************************************************************************)
(* The chain operations, one lemma each                                    *)
(***************************************************************************)

(* A step that leaves the chain and the content of the booked entries alone keeps
   the chain invariant. *)
LEMMA UnchangedStep ==
  ASSUME ChainInv, UNCHANGED chainVars, Booked' = Booked,
         \A f \in Booked : content'[f] = content[f]
  PROVE  ChainInv'
<1>1. seq' = seq /\ prev' = prev /\ hash' = hash
  BY DEF chainVars
<1>2. Chained' = Chained /\ Chained = Booked
  BY <1>1 DEF Chained, ChainInv
<1>3. ChainTypeOK' /\ SeqUnique'
  BY <1>1, <1>2 DEF ChainInv, ChainTypeOK, SeqUnique
<1>4. \A f \in Chained : Link(f, content') = Link(f, content)
  BY <1>2 DEF Link
<1>5. \A n : Segment(Chained, 1, n, content)' = Segment(Chained, 1, n, content)
  BY <1>1, <1>2, <1>4 DEF Segment
<1>6. ASSUME NEW f \in Chained
      PROVE  LinkVerifies(f, content)'
  <2>1. prev[f] = Segment(Chained, 1, seq[f], content) /\ hash[f] = Digest(prev[f], f, content)
    BY DEF ChainInv, VerifyPasses, LinkVerifies
  <2>2. Digest(prev[f], f, content') = Digest(prev[f], f, content)
    BY <1>4 DEF Digest
  <2> QED BY <2>1, <2>2, <1>1, <1>5 DEF LinkVerifies, Digest
<1> QED BY <1>2, <1>3, <1>6 DEF ChainInv, VerifyPasses

(* A step that appends the newly booked entry e and changes the content of no
   entry that is already chained. *)
LEMMA AppendStep ==
  ASSUME ChainInv, NEW e \in Entries \ Booked,
         \A f \in Booked : content'[f] = content[f],
         AppendLink(e, content'), Booked' = Booked \cup {e}
  PROVE  ChainInv'
<1>1. ChainTypeOK' /\ SeqUnique' /\ VerifyPasses(content)' /\ Chained' = Chained \cup {e}
  <2>1. PICK c1 : c1 = content'
    OBVIOUS
  <2>2. PICK c0 : c0 = content
    OBVIOUS
  <2>3. AppendLink(e, c1) /\ VerifyPasses(c0) /\ ChainTypeOK /\ SeqUnique /\ e \notin Chained /\ \A f \in Chained : c1[f] = c0[f]
    BY <2>1, <2>2 DEF ChainInv
  <2>4. ChainTypeOK' /\ SeqUnique' /\ VerifyPasses(c1)' /\ Chained' = Chained \cup {e}
    BY <2>3, AppendVerifies
  <2> QED BY <2>4, <2>1 DEF VerifyPasses, LinkVerifies, Segment, Digest, Link
<1> QED BY <1>1 DEF ChainInv

(* An edit of booked entries numbered `from` or later that rechains from there
   keeps the chain invariant. *)
LEMMA RechainFromStep ==
  ASSUME ChainInv, NEW from \in Nat, RechainFrom(from, content'), Booked' = Booked,
         \A f \in Booked : seq[f] < from => content'[f] = content[f]
  PROVE  ChainInv'
<1>1. PICK c0, c1 : c0 = content /\ c1 = content'
  OBVIOUS
<1>2. /\ ChainTypeOK /\ SeqUnique /\ VerifyPasses(c0) /\ RechainFrom(from, c1)
      /\ \A f \in Chained : seq[f] < from => c1[f] = c0[f]
  BY <1>1 DEF ChainInv
<1>3. ChainTypeOK' /\ SeqUnique' /\ VerifyPasses(c1)' /\ Chained' = Chained
  BY <1>2, RechainFromVerifies
<1>4. VerifyPasses(content)'
  BY <1>3, <1>1 DEF VerifyPasses, LinkVerifies, Segment, Digest, Link
<1> QED BY <1>3, <1>4 DEF ChainInv

(* Bulk edits rechain from the first booked entry they touch. *)
LEMMA RechainFirstStep ==
  ASSUME ChainInv, NEW S \in SUBSET Entries, RechainFirst(S, content'), Booked' = Booked,
         \A f \in Entries \ S : content'[f] = content[f]
  PROVE  ChainInv'
<1>1. CASE S \cap Chained = {}
  <2>1. \A f \in Booked : content'[f] = content[f]
    BY <1>1 DEF ChainInv, Booked
  <2> QED BY <1>1, <2>1, UnchangedStep DEF RechainFirst
<1>2. CASE S \cap Chained # {}
  <2>1. PICK m \in S \cap Chained :
          (\A f \in S \cap Chained : seq[m] <= seq[f]) /\ RechainFrom(seq[m], content')
    BY <1>2 DEF RechainFirst
  <2>2. \A f \in Chained : f \in Entries /\ seq[f] \in Nat
    BY ChainedNumbered DEF ChainInv
  <2>3. \A f \in Booked : seq[f] < seq[m] => content'[f] = content[f]
    BY <2>1, <2>2 DEF ChainInv
  <2> QED BY <2>1, <2>2, <2>3, RechainFromStep
<1> QED BY <1>1, <1>2

(* A roll-back that deletes booked entries keeps the chain invariant. *)
LEMMA UnlinkStep ==
  ASSUME ChainInv, NEW rows \in SUBSET Booked, NEW m \in rows,
         \A f \in rows : seq[m] <= seq[f],
         Unlink(rows, seq[m], content), content' = content, Booked' = Booked \ rows
  PROVE  ChainInv'
<1>1. PICK c0 : c0 = content
  OBVIOUS
<1>2. \A f \in Chained : f \in Entries /\ seq[f] \in Nat
  BY ChainedNumbered DEF ChainInv
<1>3. /\ ChainTypeOK /\ SeqUnique /\ VerifyPasses(c0)
      /\ rows \in SUBSET Chained /\ seq[m] \in Nat /\ Unlink(rows, seq[m], c0)
  BY <1>1, <1>2 DEF ChainInv
<1>4. ChainTypeOK' /\ SeqUnique' /\ VerifyPasses(c0)' /\ Chained' = Chained \ rows
  BY <1>3, UnlinkVerifies
<1>5. VerifyPasses(content)'
  BY <1>4, <1>1 DEF VerifyPasses, LinkVerifies, Segment, Digest, Link
<1> QED BY <1>4, <1>5 DEF ChainInv

(***************************************************************************)
(* The actions                                                             *)
(***************************************************************************)

(* The empty books have an empty chain. *)
LEMMA ChainInit == Init => ChainInv
<1> SUFFICES ASSUME Init PROVE ChainInv
  OBVIOUS
<1>1. Chained = {} /\ Booked = {}
  BY DEF Init, Chained, Booked
<1>2. ChainTypeOK
  BY DEF Init, ChainTypeOK
<1> QED BY <1>1, <1>2 DEF ChainInv, SeqUnique, VerifyPasses

(* Every operation on the books keeps the chain invariant, action by action. *)
LEMMA ChainNext ==
  ASSUME TypeOK, ChainInv, [Next]_vars
  PROVE  ChainInv'
<1> USE DEF TypeOK
<1>0. \A f \in Chained : f \in Entries /\ seq[f] \in Nat
  BY ChainedNumbered DEF ChainInv
<1>1. ASSUME NEW e \in Entries, NEW d, NEW c, NEW q, NEW st \in {"draft", "posted"}, NEW from,
             Insert(e, d, c, q, st, from)
      PROVE  ChainInv'
  <2>1. e \in Entries \ Booked /\ \A f \in Booked : content'[f] = content[f]
    BY <1>1 DEF Insert, Booked
  <2>2. CASE st = "posted"
    <3>1. Booked' = Booked \cup {e}
      BY <1>1, <2>2 DEF Insert, Booked
    <3> QED BY <1>1, <2>1, <2>2, <3>1, AppendStep DEF Insert
  <2>3. CASE st = "draft"
    <3>1. Booked' = Booked
      BY <1>1, <2>3 DEF Insert, Booked
    <3> QED BY <1>1, <2>1, <2>3, <3>1, UnchangedStep DEF Insert
  <2> QED BY <2>2, <2>3
<1>2. ASSUME NEW e \in Entries, NEW d, NEW c, NEW q, NEW manual, NEW a, NEW st,
             UpdateEntry(e, d, c, q, manual, a, st)
      PROVE  ChainInv'
  <2>1. \A f \in Entries \ {e} : content'[f] = content[f] /\ status'[f] = status[f]
    BY <1>2 DEF UpdateEntry
  <2>2. e \in Live
    BY <1>2 DEF UpdateEntry
  <2>3. CASE status[e] = "posted"
    <3>1. Booked' = Booked
      BY <1>2, <2>1, <2>3 DEF UpdateEntry, Booked
    <3>2. e \in Chained /\ seq[e] \in Nat
      BY <2>3, <1>0 DEF ChainInv, Booked
    <3>3. RechainFrom(seq[e], content')
      BY <1>2, <2>3, <3>2 DEF UpdateEntry
    <3>4. \A f \in Booked : seq[f] < seq[e] => content'[f] = content[f]
      BY <2>1, <3>2 DEF Booked
    <3> QED BY <3>1, <3>2, <3>3, <3>4, RechainFromStep
  <2>4. CASE status[e] = "draft" /\ st = "posted"
    <3>1. e \in Entries \ Booked /\ e \notin Chained
      BY <2>4 DEF ChainInv, Booked
    <3>2. Booked' = Booked \cup {e}
      BY <1>2, <2>1, <2>4 DEF UpdateEntry, Booked
    <3>3. AppendLink(e, content')
      BY <1>2, <2>4, <3>1 DEF UpdateEntry
    <3>4. \A f \in Booked : content'[f] = content[f]
      BY <2>1, <3>1 DEF Booked
    <3> QED BY <3>1, <3>2, <3>3, <3>4, AppendStep
  <2>5. CASE status[e] = "draft" /\ st # "posted"
    <3>1. Booked' = Booked /\ e \notin Booked
      BY <1>2, <2>1, <2>5 DEF UpdateEntry, Booked
    <3>2. UNCHANGED chainVars
      BY <1>2, <2>5 DEF UpdateEntry
    <3>3. \A f \in Booked : content'[f] = content[f]
      BY <2>1, <3>1 DEF Booked
    <3> QED BY <3>1, <3>2, <3>3, UnchangedStep
  <2> QED BY <2>2, <2>3, <2>4, <2>5 DEF Live
<1>3. ASSUME NEW e \in Entries, PostEntry(e)
      PROVE  ChainInv'
  <2>1. e \in Entries \ Booked /\ Booked' = Booked \cup {e}
    BY <1>3 DEF PostEntry, Booked
  <2>2. content' = content /\ AppendLink(e, content')
    BY <1>3 DEF PostEntry, AppendLink, Digest, Link
  <2> QED BY <2>1, <2>2, AppendStep
<1>4. ASSUME NEW e \in Entries, DeleteEntry(e)
      PROVE  ChainInv'
  <2>1. Booked' = Booked
    BY <1>4 DEF DeleteEntry, Erase, Detach, Booked
  <2> QED BY <1>4, <2>1, UnchangedStep DEF DeleteEntry
<1>5. ASSUME NEW e \in Entries, Attach(e)
      PROVE  ChainInv'
  <2>1. content' = content
    BY <1>5 DEF Attach
  <2>2. CASE status[e] = "draft"
    <3>1. e \in Entries \ Booked /\ Booked' = Booked \cup {e}
      BY <1>5, <2>2 DEF Attach, Booked
    <3>2. AppendLink(e, content')
      BY <1>5, <2>1, <2>2 DEF Attach, AppendLink, Digest, Link
    <3> QED BY <2>1, <3>1, <3>2, AppendStep
  <2>3. CASE status[e] = "posted"
    <3>1. Booked' = Booked
      BY <1>5, <2>3 DEF Attach, Booked
    <3>2. UNCHANGED chainVars
      BY <1>5, <2>3 DEF Attach
    <3> QED BY <2>1, <3>1, <3>2, UnchangedStep
  <2> QED BY <1>5, <2>2, <2>3 DEF Attach, Live
<1>6. ASSUME NEW e \in Entries, NEW c, NEW existing, Categorize(e, c, existing)
      PROVE  ChainInv'
  <2>1. \A f \in Entries \ {e} : content'[f] = content[f] /\ status'[f] = status[f]
    BY <1>6 DEF Categorize
  <2>2. CASE status[e] = "posted"
    <3>1. Booked' = Booked
      BY <1>6, <2>1, <2>2 DEF Categorize, Booked
    <3>2. e \in Chained /\ seq[e] \in Nat
      BY <2>2, <1>0 DEF ChainInv, Booked
    <3>3. RechainFrom(seq[e], content')
      BY <1>6, <3>2 DEF Categorize
    <3>4. \A f \in Booked : seq[f] < seq[e] => content'[f] = content[f]
      BY <2>1, <3>2 DEF Booked
    <3> QED BY <3>1, <3>2, <3>3, <3>4, RechainFromStep
  <2>3. CASE status[e] = "draft"
    <3>1. e \in Entries \ Booked /\ e \notin Chained
      BY <2>3 DEF ChainInv, Booked
    <3>2. Booked' = Booked \cup {e}
      BY <1>6, <2>1, <2>3 DEF Categorize, Booked
    <3>3. AppendLink(e, content')
      BY <1>6, <3>1 DEF Categorize
    <3>4. \A f \in Booked : content'[f] = content[f]
      BY <2>1, <3>1 DEF Booked
    <3> QED BY <3>1, <3>2, <3>3, <3>4, AppendStep
  <2> QED BY <1>6, <2>2, <2>3 DEF Categorize, Live
<1>7. ASSUME NEW e \in Entries, NEW r \in Entries, NEW d, VoidEntry(e, r, d)
      PROVE  ChainInv'
  <2>1. r \in Entries \ Booked /\ Booked' = Booked \cup {r}
    BY <1>7 DEF VoidEntry, Booked
  <2>2. \A f \in Booked : content'[f] = content[f]
    BY <1>7, <2>1 DEF VoidEntry, Booked
  <2>3. AppendLink(r, content')
    BY <1>7 DEF VoidEntry
  <2> QED BY <2>1, <2>2, <2>3, AppendStep
<1>8. ASSUME NEW lines \in SUBSET Entries, DeleteImport(lines)
      PROVE  ChainInv'
  <2> DEFINE created == {e \in lines : line[e] = "created"}
             rows    == created \cap Chained
  <2>1. Booked' = Booked \ rows /\ rows \in SUBSET Booked /\ content' = content
    BY <1>8 DEF DeleteImport, Erase, Detach, Booked, ChainInv
  <2>2. CASE rows = {}
    BY <1>8, <2>1, <2>2, UnchangedStep DEF DeleteImport
  <2>3. CASE rows # {}
    <3>1. PICK m \in rows : (\A f \in rows : seq[m] <= seq[f]) /\ Unlink(rows, seq[m], content)
      BY <1>8, <2>3 DEF DeleteImport
    <3> HIDE DEF rows
    <3> QED BY <2>1, <3>1, UnlinkStep
  <2> QED BY <2>2, <2>3
<1>9. ASSUME NEW from, NEW to, NEW chosen \in SUBSET Entries, Recategorize(from, to, chosen)
      PROVE  ChainInv'
  <2>1. Booked' = Booked /\ \A f \in Entries \ chosen : content'[f] = content[f]
    BY <1>9 DEF Recategorize, Booked
  <2>2. RechainFirst(chosen, content')
    BY <1>9 DEF Recategorize
  <2> QED BY <2>1, <2>2, RechainFirstStep
<1>10. ASSUME NEW from, NEW to, MergeAccounts(from, to)
       PROVE  ChainInv'
  <2> DEFINE moved == {e \in Live \cup Booked : content[e].cat = from}
  <2>1. moved \in SUBSET Entries /\ Booked' = Booked /\ \A f \in Entries \ moved : content'[f] = content[f]
    BY <1>10 DEF MergeAccounts, EntriesOn, Booked, Live
  <2>2. RechainFirst(moved, content')
    BY <1>10 DEF MergeAccounts, EntriesOn
  <2> HIDE DEF moved
  <2> QED BY <2>1, <2>2, RechainFirstStep
<1>11. ASSUME RevalueMissing
       PROVE  ChainInv'
  <2> DEFINE stale == {e \in Live : missing[e] /\ MutationOpen(e)}
  <2>1. stale \in SUBSET Entries /\ Booked' = Booked /\ \A f \in Entries \ stale : content'[f] = content[f]
    BY <1>11 DEF RevalueMissing, Booked, Live
  <2>2. RechainFirst(stale, content')
    BY <1>11 DEF RevalueMissing
  <2> HIDE DEF stale
  <2> QED BY <2>1, <2>2, RechainFirstStep
<1>12. ASSUME (\E d \in 0..MaxDate : SetLockDate(d)) \/ SetPrice \/ UNCHANGED vars
       PROVE  ChainInv'
  <2>1. Booked' = Booked /\ content' = content /\ UNCHANGED chainVars
    BY <1>12 DEF SetLockDate, SetPrice, vars, bookVars, Booked
  <2> QED BY <2>1, UnchangedStep
<1> HIDE DEF TypeOK
<1> QED
  BY <1>1, <1>2, <1>3, <1>4, <1>5, <1>6, <1>7, <1>8, <1>9, <1>10, <1>11, <1>12
  DEF Next, CreateEntry, CreateFromLine

(***************************************************************************)
(* Types                                                                   *)
(***************************************************************************)

(* value_functional gives an amount. *)
LEMMA ValueIsInt == ASSUME NEW q \in Int PROVE Value(q) \in Int
BY QtyAssumption DEF Value

(* The empty books have their types. *)
LEMMA TypeInit == Init => TypeOK
<1> SUFFICES ASSUME Init PROVE TypeOK
  OBVIOUS
<1>1. 1 \in Dates /\ 0 \in 0..MaxDate /\ Suspense \in Cats
  BY SuspenseAssumption, DateAssumption DEF Dates
<1>2. [date |-> 1, cat |-> Suspense, qty |-> 0, amt |-> 0] \in Content
  BY <1>1 DEF Content
<1>3. content \in [Entries -> Content] /\ seq \in [Entries -> Nat]
  BY <1>2 DEF Init
<1> QED BY <1>1, <1>3 DEF Init, TypeOK

(* Every operation on the books keeps the types, action by action. *)
LEMMA TypeNext ==
  ASSUME TypeOK, ChainInv, [Next]_vars
  PROVE  TypeOK'
<1>0. seq' \in [Entries -> Nat]
  BY ChainNext DEF ChainInv, ChainTypeOK
<1> USE <1>0 DEF TypeOK
<1>1. ASSUME NEW e \in Entries, NEW d \in Dates, NEW c \in Cats, NEW q \in Qtys,
             NEW st \in {"draft", "posted"}, NEW from \in {"none", "created"},
             Insert(e, d, c, q, st, from)
      PROVE  TypeOK'
  <2>1. q \in Int /\ Value(q) \in Int
    BY QtyAssumption, ValueIsInt
  <2>2. [date |-> d, cat |-> c, qty |-> q, amt |-> Value(q)] \in Content
    BY <2>1 DEF Content
  <2>3. content' \in [Entries -> Content]
    BY <1>1, <2>2 DEF Insert
  <2> QED BY <1>1, <2>3 DEF Insert, envVars
<1>2. ASSUME NEW e \in Entries, NEW d \in Dates, NEW c \in Cats, NEW q \in Qtys \cup {content[e].qty},
             NEW manual \in BOOLEAN, NEW a \in {q, Rate * q}, NEW st \in {"draft", "posted"},
             UpdateEntry(e, d, c, q, manual, a, st)
      PROVE  TypeOK'
  <2>1. q \in Int /\ a \in Int
    BY QtyAssumption DEF Content
  <2>2. (IF manual THEN a ELSE Value(q)) \in Int
    BY <2>1, ValueIsInt
  <2>3. [date |-> d, cat |-> c, qty |-> q, amt |-> IF manual THEN a ELSE Value(q)] \in Content
    BY <2>1, <2>2 DEF Content
  <2>4. content' \in [Entries -> Content] /\ missing' \in [Entries -> BOOLEAN]
    <3>1. content' = content
            \/ content' = [content EXCEPT ![e] = [date |-> d, cat |-> c, qty |-> q,
                                                 amt |-> IF manual THEN a ELSE Value(q)]]
      BY <1>2 DEF UpdateEntry
    <3>2. content' \in [Entries -> Content]
      <4> HIDE DEF Content
      <4> QED BY <3>1, <2>3
    <3>3. missing' = missing \/ \E b \in BOOLEAN : missing' = [missing EXCEPT ![e] = b]
      BY <1>2, Zenon DEF UpdateEntry
    <3> QED BY <3>2, <3>3
  <2>5. status' \in [Entries -> {"none", "draft", "posted", "void", "gone"}]
    BY <1>2 DEF UpdateEntry
  <2> QED BY <1>2, <2>4, <2>5 DEF UpdateEntry, envVars
<1>3. ASSUME NEW e \in Entries, PostEntry(e) \/ DeleteEntry(e) \/ Attach(e)
      PROVE  TypeOK'
  BY <1>3 DEF PostEntry, DeleteEntry, Attach, Erase, Detach, envVars
<1>4. ASSUME NEW e \in Entries, NEW c \in Cats, NEW existing \in BOOLEAN, Categorize(e, c, existing)
      PROVE  TypeOK'
  <2>1. content' \in [Entries -> Content]
    BY <1>4 DEF Categorize, Content
  <2> QED BY <1>4, <2>1 DEF Categorize, envVars
<1>5. ASSUME NEW e \in Entries, NEW r \in Entries, NEW d \in Dates, VoidEntry(e, r, d)
      PROVE  TypeOK'
  <2>1. content[e] \in Content
    OBVIOUS
  <2>2. Negated(content[e], d) \in Content
    BY <2>1 DEF Content, Negated
  <2>3. content' = [content EXCEPT ![r] = Negated(content[e], d)]
    BY <1>5 DEF VoidEntry
  <2>4. content' \in [Entries -> Content]
    BY <2>2, <2>3
  <2> QED BY <1>5, <2>4 DEF VoidEntry, envVars
<1>6. ASSUME NEW lines \in SUBSET Entries, DeleteImport(lines)
      PROVE  TypeOK'
  BY <1>6 DEF DeleteImport, Erase, Detach, envVars
<1>7. ASSUME NEW from \in Cats, NEW to \in Cats, NEW chosen \in SUBSET Entries, Recategorize(from, to, chosen)
      PROVE  TypeOK'
  <2>1. content' \in [Entries -> Content]
    BY <1>7 DEF Recategorize, Content
  <2> QED BY <1>7, <2>1 DEF Recategorize, envVars
<1>8. ASSUME NEW from \in Cats, NEW to \in Cats, MergeAccounts(from, to)
      PROVE  TypeOK'
  <2>1. content' \in [Entries -> Content]
    BY <1>8 DEF MergeAccounts, EntriesOn, Content
  <2> QED BY <1>8, <2>1 DEF MergeAccounts
<1>9. ASSUME RevalueMissing
      PROVE  TypeOK'
  <2>1. \A e \in Entries : content[e] \in Content /\ Rate * content[e].qty \in Int
    BY QtyAssumption DEF Content
  <2>2. \A e \in Entries : [content[e] EXCEPT !.amt = Rate * content[e].qty] \in Content
    BY <2>1 DEF Content
  <2>3. content' \in [Entries -> Content] /\ missing' \in [Entries -> BOOLEAN]
    BY <1>9, <2>2 DEF RevalueMissing
  <2> QED BY <1>9, <2>3 DEF RevalueMissing, envVars
<1>10. ASSUME (\E d \in 0..MaxDate : SetLockDate(d)) \/ SetPrice \/ UNCHANGED vars
       PROVE  TypeOK'
  BY <1>10 DEF SetLockDate, SetPrice, vars, bookVars, envVars
<1> HIDE DEF TypeOK
<1> QED
  BY <1>1, <1>2, <1>3, <1>4, <1>5, <1>6, <1>7, <1>8, <1>9, <1>10
  DEF Next, CreateEntry, CreateFromLine

(***************************************************************************)
(* Voids and evidence                                                      *)
(***************************************************************************)

(* OneReversalPerVoid needs to know that a reversal is a booked entry that no
   statement line created: otherwise rolling back an import could delete it and
   leave its original void for nothing. *)
ReversalInv ==
  /\ OneReversalPerVoid
  /\ ReconciledMeansEvidence
  /\ \A r \in Entries : reverses[r] # NoEntry =>
       r \in Booked /\ reverses[r] \in Entries /\ line[r] # "created"

(* Nothing is void, reversed or reconciled in the empty books. *)
LEMMA ReversalInit == Init => ReversalInv
<1> SUFFICES ASSUME Init PROVE ReversalInv
  OBVIOUS
<1>1. \A e \in Entries : status[e] = "none" /\ reverses[e] = NoEntry /\ line[e] = "none" /\ reconciled[e] = FALSE
  BY DEF Init
<1> QED BY <1>1 DEF ReversalInv, OneReversalPerVoid, ReconciledMeansEvidence, Booked

(* Every operation keeps each void entry tied to its one reversal and each
   reconciled mark tied to its line, action by action. *)
LEMMA ReversalNext ==
  ASSUME TypeOK, ReversalInv, [Next]_vars
  PROVE  ReversalInv'
<1> USE NoEntryAssumption DEF TypeOK, ReversalInv, OneReversalPerVoid, ReconciledMeansEvidence, Live, Booked
<1>1. ASSUME NEW e \in Entries, NEW d, NEW c, NEW q, NEW st \in {"draft", "posted"},
             NEW from \in {"none", "created"}, Insert(e, d, c, q, st, from)
      PROVE  ReversalInv'
  <2>1. /\ status[e] = "none" /\ reverses' = reverses
        /\ status' = [status EXCEPT ![e] = st] /\ line' = [line EXCEPT ![e] = from]
    BY <1>1 DEF Insert
  <2>2. reconciled' = [reconciled EXCEPT ![e] = (from = "created")]
    BY <1>1 DEF Insert
  <2>3. /\ \A f \in Entries : f # e => status'[f] = status[f] /\ line'[f] = line[f] /\ reconciled'[f] = reconciled[f]
        /\ status'[e] = st /\ line'[e] = from /\ reconciled'[e] = (from = "created")
    BY <2>1, <2>2
  <2>4. reverses[e] = NoEntry /\ Booked' \subseteq Booked \cup {e} /\ Booked \subseteq Booked'
    BY <2>1, <2>3
  <2>5. OneReversalPerVoid'
    <3>1. \A f \in Entries : status'[f] = "void" <=> status[f] = "void"
      BY <2>1, <2>3
    <3>2. \A f \in Entries : (\E r \in Booked' : reverses'[r] = f) <=> (\E r \in Booked : reverses[r] = f)
      <4> HIDE DEF Booked
      <4> QED BY <2>1, <2>4
    <3> QED BY <2>1, <3>1, <3>2
  <2>6. ReconciledMeansEvidence'
    <3>1. \A f \in Entries : f # e => (f \in Live' <=> f \in Live)
      BY <2>3
    <3>2. e \in Live'
      BY <2>3
    <3>3. (line'[e] # "none" => reconciled'[e]) /\ (line'[e] = "none" => ~reconciled'[e])
      BY <2>3
    <3> HIDE DEF Live
    <3>4. ASSUME NEW f \in Entries, f # e
          PROVE  /\ line'[f] # "none" => f \in Live' /\ reconciled'[f]
                 /\ reconciled'[f] /\ line'[f] = "none" => status'[f] = "void"
      BY <2>3, <3>1, <3>4
    <3> QED BY <3>2, <3>3, <3>4
  <2> QED BY <2>1, <2>3, <2>4, <2>5, <2>6
<1>2. ASSUME NEW e \in Entries, NEW d, NEW c, NEW q, NEW manual, NEW a, NEW st,
             UpdateEntry(e, d, c, q, manual, a, st)
      PROVE  ReversalInv'
  <2>1. /\ UNCHANGED <<reconciled, line, reverses>>
        /\ status[e] \in {"draft", "posted"}
        /\ status' = [status EXCEPT ![e] = "posted"] \/ (status[e] = "draft" /\ status' = [status EXCEPT ![e] = "draft"])
    BY <1>2 DEF UpdateEntry
  <2> QED BY <2>1
<1>3. ASSUME NEW e \in Entries, PostEntry(e)
      PROVE  ReversalInv'
  BY <1>3 DEF PostEntry
<1>4. ASSUME NEW e \in Entries, DeleteEntry(e)
      PROVE  ReversalInv'
  BY <1>4 DEF DeleteEntry, Erase, Detach
<1>5. ASSUME NEW e \in Entries, Attach(e)
      PROVE  ReversalInv'
  BY <1>5 DEF Attach
<1>6. ASSUME NEW e \in Entries, NEW c, NEW existing, Categorize(e, c, existing)
      PROVE  ReversalInv'
  BY <1>6 DEF Categorize
<1>7. ASSUME NEW e \in Entries, NEW r \in Entries, NEW d, VoidEntry(e, r, d)
      PROVE  ReversalInv'
  BY <1>7 DEF VoidEntry
<1>8. ASSUME NEW lines \in SUBSET Entries, DeleteImport(lines)
      PROVE  ReversalInv'
  BY <1>8 DEF DeleteImport, Erase, Detach
<1>9. ASSUME UNCHANGED <<status, reconciled, line, reverses>>
      PROVE  ReversalInv'
  BY <1>9
<1> HIDE DEF TypeOK, ReversalInv, OneReversalPerVoid, ReconciledMeansEvidence, Live, Booked
<1>10. ASSUME \/ \E from, to \in Cats, chosen \in SUBSET Entries : Recategorize(from, to, chosen)
              \/ \E from, to \in Cats : MergeAccounts(from, to)
              \/ \E d \in 0..MaxDate : SetLockDate(d)
              \/ SetPrice \/ RevalueMissing \/ UNCHANGED vars
       PROVE  ReversalInv'
  <2>1. UNCHANGED <<status, reconciled, line, reverses>>
    BY <1>10 DEF Recategorize, MergeAccounts, SetLockDate, SetPrice, RevalueMissing, vars, bookVars
  <2> QED BY <2>1, <1>9
<1> QED
  BY <1>1, <1>2, <1>3, <1>4, <1>5, <1>6, <1>7, <1>8, <1>10
  DEF Next, CreateEntry, CreateFromLine

(***************************************************************************)
(* Theorems                                                                *)
(***************************************************************************)

IInv == TypeOK /\ ChainInv

(* Types and chain together are inductive. *)
LEMMA Inductive == Spec => []IInv
<1>1. Init => IInv
  BY ChainInit, TypeInit DEF IInv
<1>2. IInv /\ [Next]_vars => IInv'
  BY ChainNext, TypeNext DEF IInv
<1> QED BY <1>1, <1>2, PTL DEF Spec

(* Every variable keeps its type. *)
THEOREM TypeCorrect == Spec => []TypeOK
<1>1. IInv => TypeOK
  BY DEF IInv
<1> QED BY <1>1, Inductive, PTL

(* Whatever the operations do to the books, `means verify` passes. *)
THEOREM ChainAlwaysVerifies == Spec => []ChainVerifies
<1>1. IInv => ChainVerifies
  BY DEF IInv, ChainInv, ChainVerifies
<1> QED BY <1>1, Inductive, PTL

(* The chain holds the posted and the void entries, under distinct numbers. *)
THEOREM ChainAlwaysHoldsTheBooks == Spec => []ChainHoldsTheBooks
<1>1. IInv => ChainHoldsTheBooks
  BY DEF IInv, ChainInv, ChainHoldsTheBooks
<1> QED BY <1>1, Inductive, PTL

(* The reversal invariant holds in every reachable state. *)
LEMMA ReversalInductive == Spec => []ReversalInv
<1>1. Init => ReversalInv
  BY ReversalInit
<1>2. TypeOK /\ ReversalInv /\ [Next]_vars => ReversalInv'
  BY ReversalNext
<1> QED BY <1>1, <1>2, TypeCorrect, PTL DEF Spec

(* No sequence of edits, matches, roll-backs and voids of voids loses or doubles
   the reversal of a void entry. *)
THEOREM OneReversalAlways == Spec => []OneReversalPerVoid
<1>1. ReversalInv => OneReversalPerVoid
  BY DEF ReversalInv
<1> QED BY <1>1, ReversalInductive, PTL

(* A live entry is reconciled exactly while a statement line backs it. *)
THEOREM ReconciledAlwaysMeansEvidence == Spec => []ReconciledMeansEvidence
<1>1. ReversalInv => ReconciledMeansEvidence
  BY DEF ReversalInv
<1> QED BY <1>1, ReversalInductive, PTL

(* PostingsHaveAccounts is inductive on its own: an edit takes an account that
   exists, and a merge moves every posting off the account it removes. *)
LEMMA AccountsNext ==
  ASSUME TypeOK, PostingsHaveAccounts, [Next]_vars
  PROVE  PostingsHaveAccounts'
<1> USE DEF TypeOK, PostingsHaveAccounts, Live, Booked
<1>1. ASSUME NEW e \in Entries, NEW d, NEW c, NEW q, NEW st \in {"draft", "posted"}, NEW from,
             Insert(e, d, c, q, st, from)
      PROVE  PostingsHaveAccounts'
  BY <1>1 DEF Insert, envVars
<1>2. ASSUME NEW e \in Entries, NEW d, NEW c, NEW q, NEW manual, NEW a, NEW st,
             UpdateEntry(e, d, c, q, manual, a, st)
      PROVE  PostingsHaveAccounts'
  <2>1. /\ accts' = accts /\ c \in accts /\ status[e] \in {"draft", "posted"}
        /\ \A f \in Entries : f # e => status'[f] = status[f] /\ content'[f] = content[f]
        /\ content'[e] = content[e] \/ content'[e].cat = c
    BY <1>2 DEF UpdateEntry, envVars
  <2> QED BY <2>1
<1>3. ASSUME NEW e \in Entries, PostEntry(e) \/ DeleteEntry(e) \/ Attach(e)
      PROVE  PostingsHaveAccounts'
  BY <1>3 DEF PostEntry, DeleteEntry, Erase, Detach, Attach, envVars
<1>4. ASSUME NEW e \in Entries, NEW c, NEW existing, Categorize(e, c, existing)
      PROVE  PostingsHaveAccounts'
  <2>1. /\ accts' = accts /\ c \in accts
        /\ \A f \in Entries : f # e => status'[f] = status[f] /\ content'[f] = content[f]
        /\ content'[e].cat = c
    BY <1>4 DEF Categorize, envVars, Content
  <2> QED BY <2>1
<1>5. ASSUME NEW e \in Entries, NEW r \in Entries, NEW d, VoidEntry(e, r, d)
      PROVE  PostingsHaveAccounts'
  <2>1. /\ accts' = accts /\ e # r /\ status[e] = "posted"
        /\ \A f \in Entries : f # r => content'[f] = content[f] /\ (f \in Live' \cup Booked' => f \in Live \cup Booked)
        /\ content'[r].cat = content[e].cat
    BY <1>5 DEF VoidEntry, envVars, Negated
  <2> QED BY <2>1
<1>6. ASSUME NEW lines \in SUBSET Entries, DeleteImport(lines)
      PROVE  PostingsHaveAccounts'
  BY <1>6 DEF DeleteImport, Erase, Detach, envVars
<1>7. ASSUME NEW from \in Cats, NEW to \in Cats, NEW chosen \in SUBSET Entries, Recategorize(from, to, chosen)
      PROVE  PostingsHaveAccounts'
  <2>1. /\ accts' = accts /\ status' = status /\ to \in accts
        /\ \A f \in Entries : content'[f].cat = content[f].cat \/ content'[f].cat = to
    BY <1>7 DEF Recategorize, envVars, Content
  <2> QED BY <2>1
<1>8. ASSUME NEW from \in Cats, NEW to \in Cats, MergeAccounts(from, to)
      PROVE  PostingsHaveAccounts'
  <2>1. /\ accts' = accts \ {from} /\ status' = status /\ to \in accts' 
        /\ \A f \in Live \cup Booked : content'[f].cat = IF content[f].cat = from THEN to ELSE content[f].cat
    BY <1>8 DEF MergeAccounts, EntriesOn, Content
  <2> QED BY <2>1
<1>9. ASSUME RevalueMissing
      PROVE  PostingsHaveAccounts'
  <2>1. /\ accts' = accts /\ status' = status
        /\ \A f \in Entries : content'[f].cat = content[f].cat
    BY <1>9 DEF RevalueMissing, envVars, Content
  <2> QED BY <2>1
<1>10. ASSUME (\E d \in 0..MaxDate : SetLockDate(d)) \/ SetPrice \/ UNCHANGED vars
       PROVE  PostingsHaveAccounts'
  BY <1>10 DEF SetLockDate, SetPrice, vars, bookVars, envVars
<1> HIDE DEF TypeOK, PostingsHaveAccounts
<1> QED
  BY <1>1, <1>2, <1>3, <1>4, <1>5, <1>6, <1>7, <1>8, <1>9, <1>10
  DEF Next, CreateEntry, CreateFromLine

(* No posting is ever left on an account that was merged away. *)
THEOREM PostingsAlwaysHaveAccounts == Spec => []PostingsHaveAccounts
<1>1. Init => PostingsHaveAccounts
  BY DEF Init, PostingsHaveAccounts, Live, Booked
<1>2. TypeOK /\ PostingsHaveAccounts /\ [Next]_vars => PostingsHaveAccounts'
  BY AccountsNext
<1> QED BY <1>1, <1>2, TypeCorrect, PTL DEF Spec

(* One step and the closed period, action by action. *)
LEMMA ClosedNext ==
  ASSUME TypeOK, Next
  PROVE  ClosedPeriodStep
<1> USE DateAssumption DEF TypeOK, ClosedPeriodStep, Closed, Booked, Live, Open, MutationOpen, Dates, Content
<1>0. \A e \in Entries : content[e].date \in Int /\ lock \in Int
  OBVIOUS
<1>1. ASSUME NEW e \in Entries, NEW d \in Dates, NEW c \in Cats, NEW q, NEW st \in {"draft", "posted"}, NEW from,
             Insert(e, d, c, q, st, from)
      PROVE  ClosedPeriodStep
  <2>1. /\ status[e] = "none" /\ status'[e] = st /\ content'[e].date = d /\ (st = "posted" => d > lock)
        /\ \A f \in Entries : f # e => status'[f] = status[f] /\ content'[f] = content[f]
    BY <1>1 DEF Insert
  <2> QED BY <2>1, <1>0
<1>2. ASSUME NEW e \in Entries, NEW d \in Dates, NEW c \in Cats, NEW q, NEW manual, NEW a, NEW st,
             UpdateEntry(e, d, c, q, manual, a, st)
      PROVE  ClosedPeriodStep
  <2>1. /\ status[e] \in {"draft", "posted"}
        /\ \A f \in Entries : f # e => status'[f] = status[f] /\ content'[f] = content[f]
        /\ status'[e] \in {"draft", "posted"} /\ (status[e] = "posted" => status'[e] = "posted")
    BY <1>2 DEF UpdateEntry
  <2>2. content'[e] = content[e] \/ content'[e].date = d
    BY <1>2 DEF UpdateEntry
  <2>3. status[e] = "posted" => content'[e] = content[e] \/ (content[e].date > lock /\ d > lock)
    BY <1>2 DEF UpdateEntry
  <2>4. status[e] = "draft" /\ status'[e] = "posted" => content'[e].date > lock
    BY <1>2 DEF UpdateEntry
  <2> QED BY <2>1, <2>2, <2>3, <2>4, <1>0
<1>3. ASSUME NEW e \in Entries, PostEntry(e) \/ DeleteEntry(e) \/ Attach(e)
      PROVE  ClosedPeriodStep
  <2>1. content' = content
    BY <1>3 DEF PostEntry, DeleteEntry, Attach
  <2>2. /\ \A f \in Entries : f # e => status'[f] = status[f]
        /\ status[e] \in {"draft", "posted"} /\ (status[e] = "posted" => status'[e] = "posted")
        /\ status[e] = "draft" /\ status'[e] = "posted" => content[e].date > lock
        /\ status'[e] # "void"
    BY <1>3 DEF PostEntry, DeleteEntry, Erase, Detach, Attach
  <2> QED BY <2>1, <2>2, <1>0
<1>4. ASSUME NEW e \in Entries, NEW c \in Cats, NEW existing, Categorize(e, c, existing)
      PROVE  ClosedPeriodStep
  <2>1. /\ content[e].date > lock /\ content'[e].date = content[e].date
        /\ \A f \in Entries : f # e => status'[f] = status[f] /\ content'[f] = content[f]
    BY <1>4 DEF Categorize
  <2> QED BY <2>1, <1>0
<1>5. ASSUME NEW e \in Entries, NEW r \in Entries, NEW d \in Dates, VoidEntry(e, r, d)
      PROVE  ClosedPeriodStep
  <2>1. /\ status[e] = "posted" /\ status'[e] = "void" /\ status[r] = "none" /\ content'[r].date = d /\ d > lock
        /\ \A f \in Entries : f # r => content'[f] = content[f]
        /\ \A f \in Entries : f # r /\ f # e => status'[f] = status[f]
    BY <1>5 DEF VoidEntry, Negated
  <2> QED BY <2>1, <1>0
<1>6. ASSUME NEW lines \in SUBSET Entries, DeleteImport(lines)
      PROVE  ClosedPeriodStep
  <2>1. /\ content' = content
        /\ \A f \in Entries : status'[f] = status[f] \/ (status'[f] = "gone" /\ (status[f] = "draft" \/ content[f].date > lock))
    BY <1>6 DEF DeleteImport, Erase, Detach
  <2> QED BY <2>1, <1>0
<1>7. ASSUME NEW from \in Cats, NEW to \in Cats, NEW chosen \in SUBSET Entries, Recategorize(from, to, chosen)
      PROVE  ClosedPeriodStep
  <2>1. /\ status' = status
        /\ \A f \in Entries :
             \/ content'[f] = content[f]
             \/ content'[f].date = content[f].date /\ (status[f] = "draft" \/ (status[f] = "posted" /\ content[f].date > lock))
    BY <1>7 DEF Recategorize
  <2> QED BY <2>1, <1>0
<1>8. ASSUME NEW from \in Cats, NEW to \in Cats, MergeAccounts(from, to)
      PROVE  ClosedPeriodStep
  <2>1. /\ status' = status /\ from \notin accts'
        /\ \A f \in Entries :
             \/ content'[f] = content[f]
             \/ content[f].cat = from /\ Figures(content'[f]) = Figures(content[f]) /\ content'[f].date = content[f].date
    BY <1>8 DEF MergeAccounts, EntriesOn, Figures
  <2> QED BY <2>1, <1>0
<1>9. ASSUME RevalueMissing
      PROVE  ClosedPeriodStep
  <2>1. /\ status' = status
        /\ \A f \in Entries :
             \/ content'[f] = content[f]
             \/ content'[f].date = content[f].date /\ (status[f] = "draft" \/ (status[f] = "posted" /\ content[f].date > lock))
    BY <1>9 DEF RevalueMissing
  <2> QED BY <2>1, <1>0
<1>10. ASSUME (\E d \in 0..MaxDate : SetLockDate(d)) \/ SetPrice
       PROVE  ClosedPeriodStep
  <2>1. status' = status /\ content' = content
    BY <1>10 DEF SetLockDate, SetPrice, bookVars
  <2> QED BY <2>1, <1>0
<1> HIDE DEF TypeOK, ClosedPeriodStep, Closed, Booked, Live, Open, MutationOpen, Dates, Content
<1> QED
  BY <1>1, <1>2, <1>3, <1>4, <1>5, <1>6, <1>7, <1>8, <1>9, <1>10
  DEF Next, CreateEntry, CreateFromLine

(* Closed periods keep their figures through every operation, for any number of
   entries, dates and accounts. *)
THEOREM ClosedPeriodsAreProtected == Spec => ClosedPeriodProtected
<1>1. TypeOK /\ [Next]_vars => [ClosedPeriodStep]_vars
  BY ClosedNext
<1> QED BY <1>1, TypeCorrect, PTL DEF Spec, ClosedPeriodProtected

(* One step and the void entries.  A void entry has no statement line any more
   (ReconciledMeansEvidence), so no roll-back can reach it. *)
LEMMA VoidNext ==
  ASSUME TypeOK, ReversalInv, Next
  PROVE  VoidStep
<1> USE DEF TypeOK, VoidStep, Live
<1>1. ASSUME NEW e \in Entries, NEW d, NEW c, NEW q, NEW st, NEW from, Insert(e, d, c, q, st, from)
      PROVE  VoidStep
  BY <1>1 DEF Insert
<1>2. ASSUME NEW e \in Entries, NEW d, NEW c, NEW q, NEW manual, NEW a, NEW st,
             UpdateEntry(e, d, c, q, manual, a, st)
      PROVE  VoidStep
  <2>1. /\ status[e] # "void"
        /\ \A f \in Entries : f # e => status'[f] = status[f] /\ content'[f] = content[f]
    BY <1>2 DEF UpdateEntry
  <2> QED BY <2>1
<1>3. ASSUME NEW e \in Entries, PostEntry(e) \/ DeleteEntry(e) \/ Attach(e)
      PROVE  VoidStep
  BY <1>3 DEF PostEntry, DeleteEntry, Erase, Detach, Attach
<1>4. ASSUME NEW e \in Entries, NEW c, NEW existing, Categorize(e, c, existing)
      PROVE  VoidStep
  BY <1>4 DEF Categorize
<1>5. ASSUME NEW e \in Entries, NEW r \in Entries, NEW d, VoidEntry(e, r, d)
      PROVE  VoidStep
  BY <1>5 DEF VoidEntry
<1>6. ASSUME NEW lines \in SUBSET Entries, DeleteImport(lines)
      PROVE  VoidStep
  BY <1>6 DEF DeleteImport, Erase, Detach, ReversalInv, ReconciledMeansEvidence
<1>7. ASSUME NEW from, NEW to, NEW chosen \in SUBSET Entries, Recategorize(from, to, chosen)
      PROVE  VoidStep
  BY <1>7 DEF Recategorize
<1>8. ASSUME NEW from, NEW to, MergeAccounts(from, to)
      PROVE  VoidStep
  <2>1. status' = status /\ \A f \in Entries : Figures(content'[f]) = Figures(content[f])
    BY <1>8 DEF MergeAccounts, EntriesOn, Figures, Content
  <2> QED BY <2>1
<1>9. ASSUME RevalueMissing
      PROVE  VoidStep
  BY <1>9 DEF RevalueMissing
<1>10. ASSUME (\E d \in 0..MaxDate : SetLockDate(d)) \/ SetPrice
       PROVE  VoidStep
  BY <1>10 DEF SetLockDate, SetPrice, bookVars
<1> HIDE DEF TypeOK, VoidStep
<1> QED
  BY <1>1, <1>2, <1>3, <1>4, <1>5, <1>6, <1>7, <1>8, <1>9, <1>10
  DEF Next, CreateEntry, CreateFromLine

(* A void entry stays void, with the figures its reversal negated. *)
THEOREM VoidsAreFinal == Spec => VoidIsFinal
<1>1. TypeOK /\ ReversalInv /\ [Next]_vars => [VoidStep]_vars
  BY VoidNext
<1> QED BY <1>1, TypeCorrect, ReversalInductive, PTL DEF Spec, VoidIsFinal
==============================================================================
