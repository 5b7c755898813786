SPECIFICATION Spec
CONSTANTS
  ann = ann
  una = una
  uli = uli
  vera = vera
  here = here
  there = there
  Users <- Three
  Servers <- Two
  At <- Places
  Author = ann
  ParentAt <- Knowing
  Things = {"list", "comment", "reply"}
  MaxEvents <- MaxE
  Orders = {TRUE}
SYMMETRY Alike
CHECK_DEADLOCK FALSE
INVARIANT OneRowEach
