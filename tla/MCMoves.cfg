SPECIFICATION Spec
CONSTANTS
  u1 = u1
  u2 = u2
  u3 = u3
  w1 = w1
  w2 = w2
  Users <- Three
  Workers <- Two
  MaxRequests <- MaxR
  Orders = {TRUE, FALSE}
SYMMETRY Alike
CHECK_DEADLOCK FALSE
INVARIANTS OnlyAgreedMoves OnlyOddMovesMislead
