------------------------------ MODULE MCMoves ------------------------------
(***************************************************************************)
(* Three users who list each other and move, and two workers of all their  *)
(* servers.                                                                *)
(***************************************************************************)
EXTENDS Moves, TLC
CONSTANTS u1, u2, u3, w1, w2

Three == {u1, u2, u3}
Two   == {w1, w2}
MaxR  == [o \in BOOLEAN |-> IF o THEN 5 ELSE 4]
Alike == Permutations(Three) \cup Permutations(Two)
=============================================================================
