SPECIFICATION Spec
CONSTANTS
  u1 = u1
  u2 = u2
  g1 = g1
  g2 = g2
  g3 = g3
  t1 = t1
  t2 = t2
  Users <- TwoUsers
  Groups <- TwoGroups
  Owner <- Owners
  Threads <- One
SYMMETRY Alike
PROPERTIES RemovalIsOfOneGroup
