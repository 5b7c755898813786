------------------------------- MODULE MCJobs -------------------------------
(***************************************************************************)
(* Two parts of a server in which something has to happen in the end:      *)
(* exports and cleanups of one user, and the inbox with an author's status *)
(* and two workers that store it.  A behaviour is one of either.           *)
(***************************************************************************)
EXTENDS ExportJobs

CONSTANTS Threads,                             \* workers
          Resends, Deaths, MaxVersion, MaxRow  \* see Ingest

ASSUME InboxAssumption == {Resends, Deaths, MaxVersion, MaxRow} \subseteq Nat

VARIABLES
  exporting_,    \* is the behaviour one of exports?
  origin, gone, inbox, rows_, lock, job, late, resent, died, disorder

Inbox == INSTANCE Ingest WITH rows <- rows_
\* Workers are not named like the two states of a key that nobody has.
ASSUME NamesAssumption == {Inbox!Free, Inbox!Left} \cap Threads = {}

inboxVars == <<origin, gone, inbox, rows_, lock, job, late, resent, died, disorder>>

MCInit == exporting_ \in BOOLEAN /\ Init /\ Inbox!Init
MCNext ==
  /\ UNCHANGED exporting_
  /\ \/ exporting_ /\ Next /\ UNCHANGED inboxVars
     \/ ~exporting_ /\ Inbox!Next /\ UNCHANGED vars
MCSpec ==
  /\ MCInit /\ [][MCNext]_<<vars, inboxVars, exporting_>>
  /\ Fairness /\ Inbox!Fairness

-----------------------------------------------------------------------------
\* The types of both parts.
TypesOK == TypeOK /\ Inbox!TypeOK

\* Two workers are at one object only if one of them has been there, or waited,
\* for longer than its lock lives (activitypub/base_activity.py:85).
OneAtATime == Inbox!OneAtATime

\* A status is here as its author has left it, unless activities were repeated,
\* reordered, lost or worked off at once (activitypub/base_activity.py:201).
OnlyDisorderMisleads == Inbox!OnlyDisorderMisleads

\* Nobody waits for a lock forever, and none is held forever
\* (activitypub/base_activity.py:67).
NothingHangs == Inbox!NothingHangs
=============================================================================
