----------------------------- MODULE MCRunMulti -----------------------------
(* An instance of RunMulti: two runs, the second with fewer applications.  *)
EXTENDS RunMulti

TwoThenOne == <<2, 1>>
=============================================================================
