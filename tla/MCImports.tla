------------------------------ MODULE MCImports ------------------------------
(* Two pairs of small statement files that overlap, for Imports. *)
EXTENDS Imports, TLC

CONSTANTS coffee, same,  \* movements: two coffees of one day
          jan, feb, mar, apr, r1, r2

VARIABLE scope  \* the pair of a behaviour

Alike == Permutations(Entries)
Looks == [m \in Moves |-> coffee]

Statements ==
     \* exports without references; February's starts before January's ends
     jan :> <<[move |-> coffee, ref |-> NoRef], [move |-> same, ref |-> NoRef]>>
  @@ feb :> <<[move |-> coffee, ref |-> NoRef]>>
     \* the bank's references identify the movements
  @@ mar :> <<[move |-> coffee, ref |-> r1], [move |-> same, ref |-> r2]>>
  @@ apr :> <<[move |-> same, ref |-> r2]>>

FilesOf == [plain |-> {jan, feb}, strict |-> {mar, apr}]

(* Bound: nobody books or skips a line by hand, or runs the rules, where references
   identify the movements. *)
Step ==
  /\ \/ scope = "plain" /\ Next
     \/ scope = "strict" /\ \E w \in Workers : Compete(w)
  /\ stored' \subseteq FilesOf[scope]
  /\ UNCHANGED scope

Pipeline  == scope \in DOMAIN FilesOf /\ Init /\ [][Step]_<<vars, scope>>
PlainSpec == scope = "plain" /\ Init /\ [][Step]_<<vars, scope>>

(* One worker retries a file; see Imports. *)
Recovery ==
  /\ scope = "strict" /\ Init
  /\ [][(\E w \in Workers : Recover(w)) /\ UNCHANGED scope]_<<vars, scope>>
  /\ Persistence
==============================================================================
