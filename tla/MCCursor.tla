------------------------------- MODULE MCCursor -------------------------------
(***************************************************************************)
(* A pull for which a human gives the date (`means pluggy pull --since`),   *)
(* of one transaction, without the inbox: see Intake.                       *)
(***************************************************************************)
EXTENDS Intake

CONSTANTS payment, checking

FirstDay == [t \in Txs |-> 1]
NoExports == <<>>
==============================================================================
