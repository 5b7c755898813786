------------------------------ MODULE MCServer ------------------------------
(***************************************************************************)
(* Parts of one server that share no state: the relationships of two users *)
(* of it, likes and boosts, accounts, invitations and films.  A behaviour  *)
(* is one of the part that it is about; the others stay as they begin.     *)
(***************************************************************************)
EXTENDS RelationshipRaces

CONSTANTS Clerks,         \* workers, whatever the part is about
          Fans,           \* users who like or boost the status
          Here, There,    \* users of this server, and of another
          MaxRow, MaxNote, MaxInvites, Limits, MaxGuests, MaxFilms,
          MaxRequests     \* bounds of the parts

\* There are as many workers as a server starts; numbers are numbers; nobody
\* has an account on both servers, or is "none".
ASSUME ServerAssumption ==
  /\ IsFiniteSet(Clerks)
  /\ {MaxRow, MaxNote, MaxInvites, MaxFilms, MaxRequests} \subseteq Nat
  /\ MaxGuests \in Nat \ {0} /\ Limits \subseteq 1 .. MaxGuests
  /\ Here \cap There = {} /\ "none" \notin Here \cup There

VARIABLE about    \* the part that the behaviour is about
Parts == {"races", "likes", "people", "invited", "catalogue"}

\* A status, and users who like or boost it.
VARIABLES lk_kind, lk_rows, lk_there, lk_about, lk_read, lk_cached, lk_job,
          lk_cleared, lk_met, lk_doubled
Likes == INSTANCE Interactions WITH Workers <- Clerks, Users <- Fans,
           kind <- lk_kind, rows <- lk_rows, there <- lk_there, about <-
           lk_about, read <- lk_read, cached <- lk_cached, job <- lk_job,
           cleared <- lk_cleared, met <- lk_met, doubled <- lk_doubled
lk_vars == <<lk_kind, lk_rows, lk_there, lk_about, lk_read, lk_cached, lk_job,
             lk_cleared, lk_met, lk_doubled>>

\* Accounts of this server, and of another.
VARIABLES pe_cast, pe_row, pe_posts, pe_blocked, pe_confirm, pe_inbox, pe_job,
          pe_stale, pe_held, pe_torn
People == INSTANCE Accounts WITH Locals <- Here, Remotes <- There, Threads <-
           Clerks, cast <- pe_cast, row <- pe_row, posts <- pe_posts, blocked <-
           pe_blocked, confirm <- pe_confirm, inbox <- pe_inbox, job <-
           pe_job, stale <- pe_stale, held <- pe_held, torn <- pe_torn
pe_vars == <<pe_cast, pe_row, pe_posts, pe_blocked, pe_confirm, pe_inbox,
             pe_job, pe_stale, pe_held, pe_torn>>

\* Invitations, and a request for one.
VARIABLES iv_invite, iv_made, iv_joined, iv_request, iv_job, iv_granted,
          iv_met, iv_torn, iv_crossed
Invited == INSTANCE Invitations WITH Threads <- Clerks, invite <-
           iv_invite, made <- iv_made, joined <- iv_joined, request <-
           iv_request, job <- iv_job, granted <- iv_granted, met <- iv_met,
           torn <- iv_torn, crossed <- iv_crossed
iv_vars == <<iv_invite, iv_made, iv_joined, iv_request, iv_job, iv_granted,
             iv_met, iv_torn, iv_crossed>>

\* The rows of a film.
VARIABLES ca_films, ca_job, ca_requests, ca_stale, ca_raced, ca_mixed
Catalogue == INSTANCE Films WITH Threads <- Clerks, films <- ca_films, job <-
           ca_job, requests <- ca_requests, stale <- ca_stale, raced <-
           ca_raced, mixed <- ca_mixed
ca_vars == <<ca_films, ca_job, ca_requests, ca_stale, ca_raced, ca_mixed>>

Rest(part) ==
  /\ part # "races" => UNCHANGED vars
  /\ part # "likes" => UNCHANGED lk_vars
  /\ part # "people" => UNCHANGED pe_vars
  /\ part # "invited" => UNCHANGED iv_vars
  /\ part # "catalogue" => UNCHANGED ca_vars

MCInit ==
  /\ about \in Parts
  /\ Init
  /\ Likes!Init
  /\ People!Init
  /\ Invited!Init
  /\ Catalogue!Init
  /\ about # "races" => ~manual
  /\ about # "likes" => lk_kind = "fav"
  /\ about # "people" => pe_cast = Here /\ ~pe_confirm

MCNext ==
  /\ UNCHANGED about /\ Rest(about)
  /\ \/ about = "races" /\ Next
     \/ about = "likes" /\ Likes!Next
     \/ about = "people" /\ People!Next
     \/ about = "invited" /\ Invited!Next
     \/ about = "catalogue" /\ Catalogue!Next

mcVars == <<about, vars, lk_vars, pe_vars, iv_vars, ca_vars>>
MCSpec == MCInit /\ [][MCNext]_mcVars

-----------------------------------------------------------------------------
\* The types of all the parts.
TypesOK ==
  /\ about = "races" => TypeOK
  /\ about = "likes" => Likes!TypeOK
  /\ about = "people" => People!TypeOK
  /\ about = "invited" => Invited!TypeOK
  /\ about = "catalogue" => Catalogue!TypeOK

\* Likes, boosts, what pages say of them and what their author is told agree,
\* unless requests about them are worked off at once
\* (models/notification.py:120, models/status.py:462).
OnlyOverlapsMislead == Likes!OnlyDoubledMislead /\ Likes!OnlyMetMislead

\* No account contradicts the settings of the site, the block of its server or
\* itself, and one that a moderator has suspended stays so while its server is
\* blocked and let in again, unless requests tore each other
\* (models/user.py:463, models/federated_server.py:31).
OnlyTornContradict == People!HeldStayOut /\ People!OnlyTornContradict

\* A deleted account comes back, and what TMDB says of a film is replaced by
\* hand, only by what was read before (models/user.py:463,
\* views/films/edit_film.py:36).
OnlyStaleOverwrites == People!OnlyStaleRevives /\ Catalogue!OnlyStaleOverrules

\* An invitation makes no more accounts than it allows, and who asks for one
\* has no more than one, unless requests overlap or end half way
\* (views/landing/register.py:85, views/admin/invite.py:168).
OnlyOverlapsMisinvite == Invited!OnlyMetOrTornOveruse /\ Invited!OnlyCrossedInviteTwice

\* A film of TMDB has two rows only by a race or by an import that finds it
\* under its other identifier (tmdb.py:180).
OnlyRacedOrMixedDouble == Catalogue!OnlyRacedOrMixedDouble
=============================================================================
