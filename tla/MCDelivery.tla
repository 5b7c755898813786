----------------------------- MODULE MCDelivery -----------------------------
(***************************************************************************)
(* Three users of two servers, one of which knows the status that is       *)
(* answered.                                                               *)
(***************************************************************************)
EXTENDS Delivery, TLC
CONSTANTS ann, una, uli, vera, here, there

Three == {una, uli, vera}
Two == {here, there}
Places == [u \in Three |-> IF u = vera THEN there ELSE here]
Knowing == {here}
MaxE == [o \in BOOLEAN |-> IF o THEN 3 ELSE 2]
Alike == Permutations({una, uli})
=============================================================================
