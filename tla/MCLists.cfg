SPECIFICATION Spec
CONSTANTS
  f1 = f1
  f2 = f2
  f3 = f3
  t1 = t1
  t2 = t2
  Films <- Three
  Threads <- Two
  Curations = {"closed", "curated"}
  NoFilm = NoFilm
  MaxOrder = 4
SYMMETRY Alike
INVARIANTS CarefulWithOrder GapsAreExplained
 
