------------------------------- MODULE MCClub -------------------------------
(***************************************************************************)
(* What two workers do for the users of a server: two users with their     *)
(* groups, or a user with a film and a shelf of their own.  A behaviour is *)
(* one of either.                                                          *)
(***************************************************************************)
EXTENDS MCGroups
CONSTANTS Custom,            \* the user's own shelves
          MaxRow, MaxReview  \* see Shelving

VARIABLES
  shelving,    \* is the behaviour one of shelves?
  on, reviews, sh_job, sh_stale, sh_torn, careless

Film == INSTANCE Shelving WITH
  job <- sh_job, stale <- sh_stale, torn <- sh_torn
shelfVars == <<on, reviews, sh_job, sh_stale, sh_torn, careless>>

ASSUME ClubAssumption == IsFiniteSet(Threads) /\ Film!ShelfAssumption

MCInit == shelving \in BOOLEAN /\ Init /\ Film!Init
MCNext ==
  /\ UNCHANGED shelving
  /\ \/ ~shelving /\ Next /\ UNCHANGED shelfVars
     \/ shelving /\ Film!Next /\ UNCHANGED vars
clubVars == <<shelving, vars, shelfVars>>
MCSpec == MCInit /\ [][MCNext]_clubVars

-----------------------------------------------------------------------------
\* A film is on one status shelf and has one review, unless a request wrote on
\* the strength of what another had changed, or came by a way that does not look
\* for duplicates (views/reading.py:78, views/status.py:92).
OnlyTornDuplicates == Film!OnlyTornDuplicates

\* A deleted review comes back only by what was read before (views/status.py:111).
OnlyStaleRevives == Film!OnlyStaleRevives
=============================================================================
