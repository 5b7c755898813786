------------------------------ MODULE MCGroups ------------------------------
(* Two users, of whom one owns two groups and the other at most one. *)
EXTENDS Groups, TLC
CONSTANTS u1, u2, g1, g2, g3, t1, t2
TwoUsers == {u1, u2}
TwoGroups == {g1, g2}
AllGroups == {g1, g2, g3}
Owners    == [g \in Groups |-> IF g = g3 THEN u2 ELSE u1]
One == {t1}
Two == {t1, t2}
Alike == Permutations(Threads) \cup Permutations(TwoGroups)
=============================================================================
