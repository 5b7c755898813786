SPECIFICATION Spec
CONSTANTS
  t1 = t1
  Threads = {t1}
  MaxFilms = 2
  MaxRequests = 4
CHECK_DEADLOCK FALSE
INVARIANT OneMatch
