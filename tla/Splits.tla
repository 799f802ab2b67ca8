------------------------------- MODULE Splits -------------------------------
(***************************************************************************)
(* The splits of a receipt, or of a statement line (means-core/src/          *)
(* splits.rs): amounts that sum to the total; only the last may be left      *)
(* out, for what remains.                                                   *)
(***************************************************************************)
EXTENDS Integers, Sequences, Functions

CONSTANTS Unstated, \* no amount is given
          Refused   \* an error, and the transaction is rolled back

ResolveSplits(total, legs) ==
  LET last   == Len(legs)
      stated == [i \in {j \in DOMAIN legs : legs[j] # Unstated} |-> legs[i]]
      rest   == total - SumFunction(stated)
      all    == [i \in DOMAIN legs |-> IF legs[i] = Unstated THEN rest ELSE legs[i]]
  IN  IF \/ total <= 0 \/ legs = <<>>
         \/ \E i \in 1..last - 1 : legs[i] = Unstated
         \/ \E i \in DOMAIN all : all[i] = 0
         \/ legs[last] = Unstated /\ rest < 0
         \/ SumFunction(all) # total
      THEN Refused ELSE all
=============================================================================
