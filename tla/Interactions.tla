---------------------------- MODULE Interactions ----------------------------
(***************************************************************************)
(* One status of a local author: others like and boost it and take that    *)
(* back (views/interaction.py, favorite.py, status.py), the author is told *)
(* (notification.py), and pages remember what a user has done              *)
(* (templatetags/interaction.py).                                          *)
(*                                                                         *)
(* A worker reads, and writes in a step of its own what it has made of it. *)
(* A like is unique in the database, a boost is not, and neither are       *)
(* notifications.  A worker may stop at any step.  The requests are all of *)
(* one kind: likes and boosts have no row and no cached value in common.   *)
(***************************************************************************)
EXTENDS Naturals, FiniteSets

CONSTANTS Workers, Users,
          MaxRow,    \* bound on a user's boosts
          MaxNote    \* bound on notifications of a kind

Kinds == {"fav", "boost"}
Notes == 1 .. MaxNote
None  == 0

VARIABLES
  kind,    \* what the requests are about
  rows,    \* rows[u]: how many likes or boosts of u there are
  there,   \* the author's notifications of them
  about,   \* about[n]: the related_users of notification n
  read,    \* those that the author has read
  cached,  \* cached[u]: what the cache says that u has done
  job,     \* job[w]: what w is at
  cleared, \* history: has the author deleted a notification?
  met,     \* history: have two workers been at a request at once?
  doubled  \* history: the users for whom two workers have been at a request
           \* or a page at once

notes   == <<there, about, read>>
history == <<cleared, met, doubled>>
vars    == <<kind, rows, notes, cached, job, history>>

Idle == [at |-> "idle", user |-> None, note |-> None, last |-> FALSE,
         value |-> FALSE]

Init ==
  /\ kind \in Kinds
  /\ rows = [u \in Users |-> 0] /\ cached = [u \in Users |-> "unknown"]
  /\ there = {} /\ read = {} /\ about = [n \in Notes |-> {}]
  /\ job = [w \in Workers |-> Idle]
  /\ cleared = FALSE /\ met = FALSE /\ doubled = {}

Goes(w)  == job' = [job EXCEPT ![w] = Idle]
First(S) == IF S = {} THEN None ELSE CHOOSE n \in S : \A x \in S : n <= x
Does(u)  == rows[u] > 0

\* A request begins by forgetting what the pages show.
Begins(w, u, step) ==
  /\ job[w] = Idle
  /\ cached' = [cached EXCEPT ![u] = "unknown"]
  /\ job' = [job EXCEPT ![w] = [Idle EXCEPT !.at = step, !.user = u]]

-----------------------------------------------------------------------------
(* Liking and boosting *)

DoUncached(w, u) ==   \* (Mutant: the cache is left alone.)
  /\ job[w] = Idle
  /\ job' = [job EXCEPT ![w] = [Idle EXCEPT !.user = u,
                                  !.at = IF kind = "fav" THEN "insert" ELSE "check"]]
  /\ UNCHANGED <<rows, notes, cached>>

Do(w, u) ==
  /\ Begins(w, u, IF kind = "fav" THEN "insert" ELSE "check")
  /\ UNCHANGED <<rows, notes>>

CheckNothing(w) ==       \* (Mutant: it is not asked whether there is a boost.)
  /\ job[w].at = "check"
  /\ job' = [job EXCEPT ![w].at = "insert"]
  /\ UNCHANGED <<rows, notes, cached>>

\* Boost.post and Boost.save ask whether there is a boost already.
Check(w) ==
  /\ job[w].at = "check"
  /\ IF Does(job[w].user) THEN Goes(w)
     ELSE job' = [job EXCEPT ![w].at = "insert"]
  /\ UNCHANGED <<rows, notes, cached>>

InsertAgain(w) ==        \* (Mutant: likes are not unique.)
  /\ job[w].at = "insert"
  /\ rows[job[w].user] < MaxRow
  /\ rows' = [rows EXCEPT ![job[w].user] = @ + 1]
  /\ job' = [job EXCEPT ![w].at = "notify"]
  /\ UNCHANGED <<notes, cached>>

\* can't fav things twice: the database refuses a second like.
Insert(w) ==
  LET u == job[w].user
  IN  /\ job[w].at = "insert"
      /\ IF kind = "fav" /\ Does(u)
           THEN Goes(w) /\ UNCHANGED rows
           ELSE /\ rows[u] < MaxRow
                /\ rows' = [rows EXCEPT ![u] = @ + 1]
                /\ job' = [job EXCEPT ![w].at = "notify"]
      /\ UNCHANGED <<notes, cached>>

-----------------------------------------------------------------------------
(* Telling the author *)

NotifyAnew(w) ==         \* (Mutant: every like has a notification of its own.)
  /\ job[w].at = "notify"
  /\ job' = [job EXCEPT ![w].at = "tell", ![w].note = None]
  /\ UNCHANGED <<rows, notes, cached>>

NotifyNot(w) ==          \* (Mutant: a status that has a notification gets no more.)
  /\ job[w].at = "notify"
  /\ IF there = {} THEN job' = [job EXCEPT ![w].at = "tell"] ELSE Goes(w)
  /\ UNCHANGED <<rows, notes, cached>>

\* Notification.notify: the first of the kind, if there is one.
Notify(w) ==
  /\ job[w].at = "notify"
  /\ job' = [job EXCEPT ![w].at = "tell", ![w].note = First(there)]
  /\ UNCHANGED <<rows, notes, cached>>

\* It is made, or extended, and unread again; save inserts it if it is gone.
Tell(w) ==
  LET u == job[w].user
  IN  /\ job[w].at = "tell"
      /\ \E n \in Notes :
           /\ IF job[w].note = None THEN n = First(Notes \ there) ELSE n = job[w].note
           /\ there' = there \cup {n}
           /\ about' = [about EXCEPT ![n] = (IF n \in there THEN @ ELSE {}) \cup {u}]
           /\ read' = read \ {n}
      /\ Goes(w)
      /\ UNCHANGED <<rows, cached>>

-----------------------------------------------------------------------------
(* Taking it back *)

\* Unfavorite and Unboost look for the row, of which there may be none.
Undo(w, u) ==
  /\ Begins(w, u, "undo")
  /\ Does(u)
  /\ UNCHANGED <<rows, notes>>

\* unnotify, in the transaction that deletes the row: get finds one
\* notification, or none, or raises and nothing is deleted.
Unnotify(w) ==
  LET n == First(there)
  IN  /\ job[w].at = "undo"
      /\ IF Cardinality(there) > 1 THEN Goes(w)
         ELSE job' = [job EXCEPT ![w].at = "delete", ![w].note = n,
                        ![w].last = n # None /\ about[n] \subseteq {job[w].user}]
      /\ UNCHANGED <<rows, notes, cached>>

DeleteLeavesEmpty(w) ==  \* (Mutant: a notification without users is kept.)
  LET u == job[w].user
  IN  /\ job[w].at = "delete"
      /\ rows' = [rows EXCEPT ![u] = IF Does(u) THEN @ - 1 ELSE 0]
      /\ about' = [n \in Notes |-> IF n = job[w].note THEN about[n] \ {u} ELSE about[n]]
      /\ Goes(w)
      /\ UNCHANGED <<there, read, cached>>

\* The row is gone, and the notification if nobody else was seen in it.
Delete(w) ==
  LET u == job[w].user
      gone == IF job[w].last THEN {job[w].note} ELSE {}
  IN  /\ job[w].at = "delete"
      /\ rows' = [rows EXCEPT ![u] = IF Does(u) THEN @ - 1 ELSE 0]
      /\ there' = there \ gone
      /\ read' = read \ gone
      /\ about' = [n \in Notes |-> IF n \in gone THEN {}
                                   ELSE about[n] \ (IF n = job[w].note THEN {u} ELSE {})]
      /\ Goes(w)
      /\ UNCHANGED cached

-----------------------------------------------------------------------------
(* Pages *)

\* get_or_set, when the cache knows nothing: it computes a value, and sets it.
PageBegin(w, u) ==
  /\ job[w] = Idle
  /\ cached[u] = "unknown"
  /\ job' = [job EXCEPT ![w] = [Idle EXCEPT !.at = "page", !.user = u,
                                            !.value = Does(u)]]
  /\ UNCHANGED <<rows, notes, cached>>

PageEnd(w) ==
  /\ job[w].at = "page"
  /\ cached' = [cached EXCEPT ![job[w].user] =
                  IF job[w].value THEN "done" ELSE "not done"]
  /\ Goes(w)
  /\ UNCHANGED <<rows, notes>>

\* The author looks at the notifications, and deletes those that are read.
ReadAll ==
  /\ read' = there
  /\ UNCHANGED <<rows, there, about, cached, job>>

ClearRead ==
  /\ there' = there \ read
  /\ about' = [n \in Notes |-> IF n \in read THEN {} ELSE about[n]]
  /\ read' = {}
  /\ UNCHANGED <<rows, cached, job>>

-----------------------------------------------------------------------------
Step ==
  \/ \E w \in Workers :
       \/ \E u \in Users : Do(w, u) \/ Undo(w, u) \/ PageBegin(w, u)
       \/ Check(w) \/ Insert(w) \/ Notify(w) \/ Tell(w) \/ Unnotify(w) \/ Delete(w)
       \/ PageEnd(w)
  \/ ReadAll \/ ClearRead

\* The workers that are at a request, and those at a request or page of u.
Busy  == {w \in Workers : job[w].at \notin {"idle", "page"}}
At(u) == {w \in Workers : job[w] # Idle /\ job[w].user = u}

Recorded ==
  /\ cleared' = (cleared \/ read \ there' # {})
  /\ met' = (met \/ Cardinality(Busy') > 1)
  /\ doubled' = doubled \cup {u \in Users : Cardinality(At(u)') > 1}

Next == Step /\ Recorded /\ UNCHANGED kind

Spec == Init /\ [][Next]_vars

-----------------------------------------------------------------------------
\* A notification that is not there is about nobody, and unread.
TypeOK ==
  /\ kind \in Kinds
  /\ rows \in [Users -> 0 .. MaxRow]
  /\ kind = "fav" => \A u \in Users : rows[u] <= 1
  /\ read \subseteq there /\ there \subseteq Notes
  /\ about \in [Notes -> SUBSET Users]
  /\ \A n \in Notes \ there : about[n] = {}
  /\ cached \in [Users -> {"unknown", "done", "not done"}]
  /\ cleared \in BOOLEAN /\ met \in BOOLEAN /\ doubled \subseteq Users

\* "unique_together = ('user', 'boosted_status')", which "can't work"
OneRow(u) == rows[u] <= 1

\* "did the given user fav a status?": the page shows what is so, when no
\* request of that user is under way.
CacheIsTrue(u) ==
  At(u) = {} => cached[u] \in {"unknown", IF Does(u) THEN "done" ELSE "not done"}

\* Both fail only of a user for whom two requests or pages have been worked
\* off at once: whatever others do meanwhile does not disturb them.
OnlyDoubledMislead == \A u \in Users \ doubled : OneRow(u) /\ CacheIsTrue(u)

\* test_notify_grouping: likes are bundled in one notification.  (So unnotify,
\* which fails if there are two, lets everybody take a like back.)
OneNotification == Cardinality(there) <= 1

\* "delete it if that was the only user": a notification is about users who
\* have done it, and at least one.
NotesAreTrue == \A n \in there : about[n] # {} /\ \A u \in about[n] : Does(u)

\* An author who deletes no notification has one of everybody who has done it.
EverybodyIsTold == \A u \in Users : Does(u) => \E n \in there : u \in about[n]

\* The author is told the truth, in one notification, unless two requests
\* have been worked off at once; pages do no harm.
OnlyMetMislead ==
  ~met => /\ OneNotification
          /\ Busy = {} => NotesAreTrue /\ (cleared \/ EverybodyIsTold)
=============================================================================
