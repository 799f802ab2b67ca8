---------------------------- MODULE ReplicaStream ----------------------------
(***************************************************************************)
(* What sharing a vault promises, one stream per grant: the owner publishes*)
(* one delivery at a time, the recipient accepts them all, in order, none  *)
(* twice and none that was not published, and the owner goes on only after *)
(* it learned of the acceptance.  A revocation ends the stream.            *)
(***************************************************************************)
EXTENDS Naturals, Sequences, SequencesExt

CONSTANTS Grants,    \* the grants of one owner
          Notice     \* the delivery that revokes a grant

VARIABLES books,     \* the version of the owner's books
          published, \* what the owner has exported under a grant, in order
          accepted,  \* what the recipient's replica was built from, in order
          acked      \* how many deliveries the owner knows to be accepted

vars == <<books, published, accepted, acked>>

Init ==
  /\ books = 0
  /\ published = [g \in Grants |-> <<>>]
  /\ accepted  = [g \in Grants |-> <<>>]
  /\ acked     = [g \in Grants |-> 0]

Edit == books' = books + 1 /\ UNCHANGED <<published, accepted, acked>>

(* The next delivery is the books as they are, or the revocation. *)
Publish(g) ==
  /\ acked[g] = Len(published[g])
  /\ published[g] # <<>> => Last(published[g]) # Notice
  /\ \E d \in {books, Notice} : published' = [published EXCEPT ![g] = Append(@, d)]
  /\ UNCHANGED <<books, accepted, acked>>

(* The recipient takes the next delivery; a stream starts with a snapshot. *)
Accept(g) ==
  /\ Len(accepted[g]) < Len(published[g])
  /\ published[g][1] # Notice
  /\ accepted' = [accepted EXCEPT ![g] = SubSeq(published[g], 1, Len(@) + 1)]
  /\ UNCHANGED <<books, published, acked>>

Acknowledge(g) ==
  /\ acked[g] < Len(accepted[g])
  /\ acked' = [acked EXCEPT ![g] = Len(accepted[g])]
  /\ UNCHANGED <<books, published, accepted>>

Next == Edit \/ \E g \in Grants : Publish(g) \/ Accept(g) \/ Acknowledge(g)

Spec == Init /\ [][Next]_vars
==============================================================================
