------------------------------ MODULE MCJournal ------------------------------
(* Journal for TLC: the entries of a small set of books are interchangeable. *)
EXTENDS Journal, TLC

EntrySymmetry == Permutations(Entries)

(* One date, open or closed, values at par: room for three entries, so that a gap
   in the chain, a reversal of a reversal and a merge across a void pair all happen. *)
OneDate ==
  /\ ~priced /\ lock <= 1
  /\ \A e \in Entries : content[e].date = 1 /\ content[e].amt = content[e].qty

(* Two entries, which and their reversals move across the lock date, and a price
   that changes book values. *)
TwoEntries == Cardinality({e \in Entries : status[e] # "none"}) <= 2

Within == OneDate \/ TwoEntries
==============================================================================
