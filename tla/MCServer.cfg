SPECIFICATION MCSpec
CONSTANTS
  Threads = {q1, q2, q3, q4}
  Clerks = {t1, t2}
  Fans = {u1, u2}
  Here = {u1}
  There = {r1}
  MaxRow = 2
  MaxNote = 3
  MaxInvites = 2
  Limits = {2}
  MaxGuests = 3
  MaxFilms = 2
  MaxRequests = 4
CHECK_DEADLOCK FALSE
INVARIANTS TypesOK OnlyTornBlocksLeak ConsentFirst OnlyOvertakenAskTwice OnlyRacedPagesLie   OnlyOverlapsMisinvite OnlyRacedOrMixedDouble
PROPERTY OnlyStaleOverwrites
