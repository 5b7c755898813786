------------------------------- MODULE Ingest -------------------------------
(***************************************************************************)
(* What becomes of one status of another server here: its author creates,  *)
(* edits and deletes it there, the activities reach the inbox and are      *)
(* worked off, by verbs.py, ActivityObject.to_model and the lock of        *)
(* base_activity.py.                                                       *)
(*                                                                         *)
(* to_model looks for the status, then takes the lock, then writes.  The   *)
(* lock is a key in Redis that expires; a worker that has been at it for   *)
(* that long since it began to wait does not release it.  remote_id is not *)
(* unique in the database.                                                 *)
(***************************************************************************)
EXTENDS Naturals, Sequences, FiniteSets, SequencesExt

CONSTANTS Threads,    \* web and task workers
          Resends,    \* bound on activities that arrive twice
          Deaths,     \* bound on workers killed in the middle of an activity
          MaxVersion, \* bound on the versions that the author makes
          MaxRow      \* bound on rows of the status here

Nothing == 0                       \* the content of a tombstone
Free    == "free"                  \* nobody has the lock
Left    == "left"                  \* the key is there, its owner is not
Rows    == 1 .. MaxRow

VARIABLES
  origin,   \* the version that the author has there, 0 before the first
  gone,     \* has the author deleted it?
  inbox,    \* activities that have arrived and wait
  rows,     \* rows[r]: "none", or the content and whether it is deleted
  lock,     \* the key lock:<hash of the status' id>
  job,      \* job[t]: the activity that t is at, and the row that it found
  late,     \* threads past the deadline that item_lock has computed
  resent, died,
  disorder  \* history: has an activity arrived twice, been put off or passed
            \* over, or a worker died, been late or not been alone?

vars == <<origin, gone, inbox, rows, lock, job, late, resent, died, disorder>>

NoRow == [there |-> FALSE, content |-> Nothing, deleted |-> FALSE]
Idle  == [at |-> "idle", kind |-> "none", version |-> 0, row |-> 0,
          copy |-> NoRow, again |-> FALSE]
Found == {r \in Rows : rows[r].there}

Activities == [kind : {"create", "update", "delete"}, version : 0 .. MaxVersion,
               again : BOOLEAN]

Init ==
  /\ origin = 0 /\ gone = FALSE
  /\ inbox = <<>>
  /\ rows = [r \in Rows |-> NoRow]
  /\ lock = Free
  /\ job = [t \in Threads |-> Idle]
  /\ late = {}
  /\ resent = 0 /\ died = 0 /\ disorder = FALSE

-----------------------------------------------------------------------------
(* The author *)

Send(kind, version) ==
  inbox' = Append(inbox, [kind |-> kind, version |-> version, again |-> FALSE])

AuthorWrites(n) ==
  /\ ~gone /\ n = origin + 1
  /\ origin' = n
  /\ Send(IF n = 1 THEN "create" ELSE "update", n)
  /\ UNCHANGED <<gone, rows, lock, job, late, resent, died>>

AuthorDeletes ==
  /\ ~gone /\ origin # 0
  /\ gone' = TRUE
  /\ Send("delete", 0)
  /\ UNCHANGED <<origin, rows, lock, job, late, resent, died>>

\* The same activity once more: a server that got no answer tries again.
Resend ==
  /\ resent < Resends
  /\ origin # 0
  /\ \/ Send("create", 1)
     \/ \E n \in 2 .. origin : Send("update", n)
     \/ gone /\ Send("delete", 0)
  /\ resent' = resent + 1
  /\ UNCHANGED <<origin, gone, rows, lock, job, late, died>>

-----------------------------------------------------------------------------
(* A worker *)

Ends(t) == job' = [job EXCEPT ![t] = Idle] /\ late' = late \ {t}

\* The activity is parsed and the status looked up: any row will do.  What is
\* not found is not updated or deleted, but created.
Look(t, i) ==
  /\ job[t] = Idle
  /\ i \in DOMAIN inbox
  /\ inbox' = RemoveAt(inbox, i)
  /\ LET a == inbox[i]
         Job(at, r) == [at |-> at, kind |-> a.kind, version |-> a.version, row |-> r,
                        copy |-> IF r = 0 THEN NoRow ELSE rows[r], again |-> a.again]
     IN  \/ \E r \in Found :
              job' = [job EXCEPT ![t] = Job(IF a.kind = "delete" THEN "delete" ELSE "wait", r)]
         \/ /\ Found = {}
            /\ job' = IF a.kind = "create" THEN [job EXCEPT ![t] = Job("wait", 0)] ELSE job
  /\ UNCHANGED <<origin, gone, rows, lock, late, resent, died>>

\* sometimes_async_activity_task: what cannot be done at once is queued.
Defer(i) ==
  /\ i \in DOMAIN inbox /\ ~inbox[i].again
  /\ inbox' = Append(RemoveAt(inbox, i), [inbox[i] EXCEPT !.again = TRUE])
  /\ UNCHANGED <<origin, gone, rows, lock, job, late, resent, died>>

AcquireAnyway(t) ==      \* (Mutant: SET without NX.)
  /\ job[t].at = "wait" /\ t \notin late
  /\ lock' = t
  /\ job' = [job EXCEPT ![t].at = "write"]
  /\ UNCHANGED <<origin, gone, inbox, rows, late, resent, died>>

\* item_lock: SET NX, until the deadline is near.
Acquire(t) ==
  /\ job[t].at = "wait" /\ t \notin late
  /\ lock = Free
  /\ lock' = t
  /\ job' = [job EXCEPT ![t].at = "write"]
  /\ UNCHANGED <<origin, gone, inbox, rows, late, resent, died>>

GiveUpNever(t) ==        \* (Mutant: there is no deadline to the waiting.)
  /\ FALSE
  /\ job[t].at = "wait" /\ UNCHANGED vars

\* "Lock expired before being acquired": a web worker queues the activity, a
\* task worker drops it.
GiveUp(t) ==
  /\ job[t].at = "wait" /\ t \in late
  /\ inbox' = IF job[t].again THEN inbox
              ELSE Append(inbox, [kind |-> job[t].kind, version |-> job[t].version,
                                  again |-> TRUE])
  /\ Ends(t)
  /\ UNCHANGED <<origin, gone, rows, lock, resent, died>>

SaveOnce(t) ==           \* (Mutant: what is there is not overwritten.)
  LET j == job[t]
  IN  /\ j.at = "write"
      /\ rows' = IF j.row = 0 THEN [rows EXCEPT ![1] = [there |-> TRUE,
                                      content |-> j.version, deleted |-> FALSE]]
                 ELSE rows
      /\ job' = [job EXCEPT ![t].at = "release"]
      /\ UNCHANGED <<origin, gone, inbox, lock, late, resent, died>>

\* A new row, or the fields that differ from those that were read.
Save(t) ==
  LET j == job[t]
  IN  /\ j.at = "write"
      /\ IF j.row = 0
           THEN \E r \in Rows \ Found :
                  /\ \A x \in Rows \ Found : r <= x
                  /\ rows' = [rows EXCEPT ![r] = [there |-> TRUE, content |-> j.version,
                                                  deleted |-> FALSE]]
           ELSE rows' = IF j.copy.content = j.version THEN rows
                        ELSE [rows EXCEPT ![j.row].content = j.version]
      /\ job' = [job EXCEPT ![t].at = "release"]
      /\ UNCHANGED <<origin, gone, inbox, lock, late, resent, died>>

ReleaseAlways(t) ==      \* (Mutant: the key is deleted even if it is late.)
  /\ job[t].at = "release"
  /\ lock' = Free
  /\ Ends(t)
  /\ UNCHANGED <<origin, gone, inbox, rows, resent, died>>

ReleaseForgets(t) ==     \* (Mutant: an error keeps the key from being deleted.)
  /\ job[t].at = "release"
  /\ Ends(t)
  /\ UNCHANGED <<origin, gone, inbox, rows, lock, resent, died>>

\* DEL, whoever's the key is, unless the deadline is past.
Release(t) ==
  /\ job[t].at = "release"
  /\ lock' = IF t \notin late THEN Free ELSE IF lock = t THEN Left ELSE lock
  /\ Ends(t)
  /\ UNCHANGED <<origin, gone, inbox, rows, resent, died>>

\* Status.delete makes a tombstone of the row, and takes no lock.
Delete(t) ==
  /\ job[t].at = "delete"
  /\ rows' = [rows EXCEPT ![job[t].row] = [there |-> TRUE, content |-> Nothing,
                                           deleted |-> TRUE]]
  /\ Ends(t)
  /\ UNCHANGED <<origin, gone, inbox, lock, resent, died>>

-----------------------------------------------------------------------------
(* Time *)

\* The deadline is as long after item_lock began as a key lives after it was
\* set: whoever has the lock is late before their key expires.
Deadline(t) ==
  /\ job[t].at \in {"wait", "write", "release"} /\ t \notin late
  /\ late' = late \cup {t}
  /\ UNCHANGED <<origin, gone, inbox, rows, lock, job, resent, died>>

ExpireNever ==           \* (Mutant: SET without EX.)
  /\ FALSE
  /\ UNCHANGED vars

Expire ==
  /\ lock = Left \/ lock \in late
  /\ lock' = Free
  /\ UNCHANGED <<origin, gone, inbox, rows, job, late, resent, died>>

\* Tasks are acknowledged early: what a worker was at is lost with it.
Die(t) ==
  /\ died < Deaths
  /\ job[t] # Idle
  /\ died' = died + 1
  /\ lock' = IF lock = t THEN Left ELSE lock
  /\ Ends(t)
  /\ UNCHANGED <<origin, gone, inbox, rows, resent>>

-----------------------------------------------------------------------------
Works(t) ==
  \/ \E i \in DOMAIN inbox : Look(t, i)
  \/ Acquire(t) \/ GiveUp(t) \/ Save(t) \/ Release(t) \/ Delete(t)

Step ==
  \/ \E n \in 1 .. MaxVersion : AuthorWrites(n)
  \/ AuthorDeletes \/ Resend \/ Expire
  \/ \E i \in DOMAIN inbox : Defer(i)
  \/ \E t \in Threads : Works(t) \/ Deadline(t) \/ Die(t)

\* An activity that is not the first leaves the inbox, or leaves it while a
\* worker is at another; one enters it again; a worker dies or is late.
Disordered ==
  \/ resent' # resent \/ died' # died \/ late' # {}
  \/ \E i \in DOMAIN inbox : inbox[i].again
  \/ \E i \in 2 .. Len(inbox) : inbox' = RemoveAt(inbox, i)
  \/ Len(inbox') < Len(inbox) /\ \E t \in Threads : job[t] # Idle

Recorded == disorder' = (disorder \/ Disordered)

Next == Step /\ Recorded

Spec == Init /\ [][Next]_vars

\* Workers go on with what they are at, and time passes; nobody owes anything.
Fairness == /\ \A t \in Threads : /\ WF_vars(Works(t) /\ Recorded)
                                /\ WF_vars(Deadline(t) /\ Recorded)
            /\ WF_vars(Expire /\ Recorded)
FairSpec == Spec /\ Fairness

-----------------------------------------------------------------------------
Inside(t) == job[t].at \in {"write", "release"}
Quiet     == inbox = <<>> /\ \A t \in Threads : job[t] = Idle

\* A row that is not there is empty, and a lock that is held by a worker is
\* held by one who is inside.
TypeOK ==
  /\ origin \in 0 .. MaxVersion /\ gone \in BOOLEAN
  /\ inbox \in Seq(Activities)
  /\ rows \in [Rows -> [there : BOOLEAN, content : 0 .. MaxVersion, deleted : BOOLEAN]]
  /\ \A r \in Rows \ Found : rows[r] = NoRow
  /\ lock \in {Free, Left} \cup {t \in Threads : Inside(t)}
  /\ late \subseteq {t \in Threads : job[t].at \in {"wait", "write", "release"}}
  /\ disorder \in BOOLEAN

\* "otherwise we might clear a lock owned by another process": two workers are
\* inside only if one of them has been there, or waited, for longer than a key
\* lives, whoever has released or lost the lock before.
OneAtATime ==
  \A t, x \in Threads : t # x /\ Inside(t) /\ Inside(x) => t \in late \/ x \in late

\* Status.delete: "clear user content"
TombstonesAreEmpty == \A r \in Rows : rows[r].deleted => rows[r].content = Nothing

\* When all is worked off, a status that its author has deleted is not shown,
\* and of any other there is one row, as the author has left it ("prevent race
\* conditions causing duplicates").
AsTheAuthorLeftIt ==
  /\ gone => \A r \in Found : rows[r].deleted
  /\ ~gone /\ origin # 0 =>
       /\ Cardinality(Found) = 1
       /\ \A r \in Found : rows[r].content = origin /\ ~rows[r].deleted

\* Neither fails unless activities were repeated, put off, reordered, lost with
\* their worker or worked off at the same time.
OnlyDisorderMisleads ==
  ~disorder => TombstonesAreEmpty /\ (Quiet => AsTheAuthorLeftIt)

\* Nobody waits forever, whoever has died with the lock, and the lock does not
\* stay with the dead or the late.
NothingHangs ==
  /\ \A t \in Threads : job[t].at = "wait" ~> job[t].at # "wait"
  /\ lock # Free ~> lock = Free
=============================================================================
