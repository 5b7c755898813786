SPECIFICATION MCSpec
CONSTANTS
  u1 = u1
  u2 = u2
  g1 = g1
  g2 = g2
  g3 = g3
  t1 = t1
  t2 = t2
  Custom = {c1}
  Users <- TwoUsers
  Groups <- AllGroups
  Owner <- Owners
  Threads <- Two
  MaxRow = 5
  MaxReview = 3
SYMMETRY Alike
INVARIANTS OwnerIsMember OnlyTornDisagree OnlyTornDuplicates
PROPERTIES OnlyStaleGetIn OnlyStaleRevives
