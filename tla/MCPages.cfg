SPECIFICATION MCSpec
CONSTANTS
  Users = {ann, bob, vera}
  Lists = {l}
  Owner <- OfOther
  GroupOwner = bob
  Workers = {w1, w2}
  MaxEvents <- SomeEvents
  Orders = {TRUE, FALSE}
  Here = {ann, vera}
  Clerks = {w3}
  ClerkOrders = {TRUE}
SYMMETRY AlikeWorkers
CHECK_DEADLOCK FALSE
INVARIANTS OnlyEverSeen ListsAgree  SuggestionsAreExact
