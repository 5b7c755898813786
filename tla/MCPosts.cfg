SPECIFICATION MCSpec
CONSTANTS
  bob = bob
  film = film
  Scenes <- TheScenes
  People = {ann, bob, vera}
  Readers = {ann, vera}
  Films = {film}
  Clerks = {w1, w2}
  ann = ann
  una = una
  uli = uli
  vera = vera
  here = here
  there = there
  Users <- Three
  Servers <- Two
  At <- Places
  Author = ann
  ParentAt <- Knowing
  Things = {"list", "comment", "reply"}
  MaxEvents <- MaxE
  Orders = {TRUE, FALSE}
SYMMETRY Alike
CHECK_DEADLOCK FALSE
INVARIANTS TypesOK  NoServerHearsInVain CopiesAreExact
