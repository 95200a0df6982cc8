-------------------------------- MODULE Lists --------------------------------
(***************************************************************************)
(* The list that a loop builds by appending: rows that are read in         *)
(* busywin.py, positions of slides in deck_edit.py.                        *)
(***************************************************************************)
EXTENDS Integers, Sequences

(* What a loop over 1 .. n builds that appends the positions in S. *)
Appended(S, n) ==
  LET list[k \in 0 .. n] ==
        IF k = 0 THEN <<>>
        ELSE IF k \in S THEN Append(list[k - 1], k) ELSE list[k - 1]
  IN  list[n]
=============================================================================
