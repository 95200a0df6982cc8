---------------------------- MODULE MCBusyWindow ----------------------------
(***************************************************************************)
(* Captures of eleven seconds, a row a second with three powers and up to  *)
(* three changes between them; of one row more with one plateau, one   *)
(* row of which is narrow or has an unreadable rail; and a short one.  *)
(***************************************************************************)
EXTENDS BusyWindow

Level == {0, 1, 3}

Whole(p) == [wide |-> TRUE, arm |-> p, soc |-> p]

Broken(p) ==
  {[wide |-> FALSE, arm |-> p, soc |-> None], [wide |-> TRUE, arm |-> None, soc |-> p],
   [wide |-> TRUE, arm |-> p, soc |-> None]}

Steps ==
  {f \in [1 .. 11 -> {Whole(p) : p \in Level}] :
     Cardinality({k \in 2 .. 11 : f[k] # f[k - 1]}) <= 3}

Hat(a, b, k) == IF k > a /\ k <= b THEN 3 ELSE 0

OneBroken(a, b, at) ==
  {[k \in 1 .. 12 |-> IF k = at THEN row ELSE Whole(Hat(a, b, k))] : row \in Broken(Hat(a, b, at))}

MCCaptures ==
  Steps
    \cup UNION {OneBroken(h[1], h[2], h[3]) : h \in {0, 4} \X {9, 12} \X (1 .. 12)}
    \cup {[k \in 1 .. 3 |-> Whole(3)]}
=============================================================================
