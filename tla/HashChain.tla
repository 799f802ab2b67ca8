------------------------------ MODULE HashChain ------------------------------
(***************************************************************************)
(* The per-entity hash chain of crates/means-core/src/hashchain.rs.        *)
(*                                                                         *)
(* Every booked entry has a sequence number and                            *)
(* hash = sha256(prev_hash || canonical(entry)).  A digest is modelled by  *)
(* the set of links it commits to: canonical(entry) contains the entry's   *)
(* uid and its accounting content, and the sequence number of an entry     *)
(* never changes, so two chains that commit to the same links have the     *)
(* same digest and two that do not have different ones (sha256 is taken to *)
(* be injective).  The empty string before the first entry is the empty    *)
(* set.                                                                    *)
(***************************************************************************)
EXTENDS Integers, FiniteSets

CONSTANT Entries          \* the entries of one entity; uids are never reused

VARIABLES seq,            \* the sequence number of an entry, 0 for SQL NULL
          prev,           \* its stored prev_hash
          hash            \* its stored hash

chainVars == <<seq, prev, hash>>

Chained == {e \in Entries : seq[e] > 0}

(* What canonical(entry) fixes, given the accounting content of every entry. *)
Link(e, content) == <<e, content[e]>>

Digest(before, e, content) == before \cup {Link(e, content)}

(* ORDER BY seq DESC LIMIT 1: the number and hash of the last of S, or the
   values used when there is no such row. *)
Heads(S) ==
  IF S = {} THEN {[seq |-> 0, hash |-> {}]}
  ELSE {[seq |-> seq[t], hash |-> hash[t]] :
          t \in {x \in S : \A y \in S : seq[y] <= seq[x]}}

(* Slip caught by ChainHoldsTheBooks: the next number counts the chained rows
   instead of following the last one, and meets it again after a deletion. *)
AppendCounted(e, content) ==
  \E head \in Heads(Chained) :
    /\ seq'  = [seq EXCEPT ![e] = Cardinality(Chained) + 1]
    /\ prev' = [prev EXCEPT ![e] = head.hash]
    /\ hash' = [hash EXCEPT ![e] = Digest(head.hash, e, content)]

(* append: link a freshly posted entry after the current head. *)
AppendLink(e, content) ==
  \E head \in Heads(Chained) :
    /\ seq'  = [seq EXCEPT ![e] = head.seq + 1]
    /\ prev' = [prev EXCEPT ![e] = head.hash]
    /\ hash' = [hash EXCEPT ![e] = Digest(head.hash, e, content)]

(* The links of the entries of S numbered from `from` up to, but without, `to`. *)
Segment(S, from, to, content) ==
  {Link(f, content) : f \in {g \in S : from <= seq[g] /\ seq[g] < to}}

(* rechain: recompute prev_hash and hash of every entry numbered `from` or
   later, starting at the stored hash of the entry before it.  S holds the
   rows that are there after the step; a deleted row keeps no hash. *)
Rechain(S, from, content) ==
  \E head \in Heads({e \in S : seq[e] < from}) :
    LET Before(e) == head.hash \cup Segment(S, from, seq[e], content)
        Kept(e)   == e \in S /\ seq[e] < from
    IN  /\ prev' = [e \in Entries |->
                      IF Kept(e) THEN prev[e]
                      ELSE IF e \in S THEN Before(e) ELSE {}]
        /\ hash' = [e \in Entries |->
                      IF Kept(e) THEN hash[e]
                      ELSE IF e \in S THEN Digest(Before(e), e, content) ELSE {}]

(* Slip caught by ChainVerifies: the edited entry keeps its old hash. *)
RechainAfter(from, content) ==
  /\ Rechain(Chained, from + 1, content)
  /\ seq' = seq

(* An edit of a booked entry: its number stays, its suffix is recomputed. *)
RechainFrom(from, content) ==
  /\ Rechain(Chained, from, content)
  /\ seq' = seq

(* DELETE of the booked entries `rows`, the first of which is numbered `from`,
   and the rechains that follow.  Nothing is renumbered: a deleted number
   becomes a gap. *)
Unlink(rows, from, content) ==
  /\ Rechain(Chained \ rows, from, content)
  /\ seq' = [e \in Entries |-> IF e \in rows THEN 0 ELSE seq[e]]

(* verify: walk the chain in order, recompute every digest from the content
   the books hold now, and compare with what is stored.  The digest expected
   before an entry commits to exactly the links numbered below it. *)
LinkVerifies(e, content) ==
  /\ prev[e] = Segment(Chained, 1, seq[e], content)
  /\ hash[e] = Digest(prev[e], e, content)

VerifyPasses(content) == \A e \in Chained : LinkVerifies(e, content)

(* The UNIQUE index je_seq (entity_id, seq). *)
SeqUnique == \A e, f \in Chained : seq[e] = seq[f] => e = f
==============================================================================
