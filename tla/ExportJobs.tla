----------------------------- MODULE ExportJobs -----------------------------
(***************************************************************************)
(* Exports of an account and the cleaning up of their files: job.py,       *)
(* reeltalk_export_job.py and housekeeping.py, and the views that start    *)
(* and cancel them.                                                        *)
(*                                                                         *)
(* An export is a row that two tasks work on, one after the other; a       *)
(* cleanup is a row and one task for each file that has expired.  A task   *)
(* holds the row that it read when it began.  A worker may die at any      *)
(* step: its task is not taken up again.                                   *)
(***************************************************************************)
EXTENDS Naturals, FiniteSets

CONSTANTS MaxExport, \* bound on exports, all of one user
          MaxClean,  \* bound on cleanups
          MaxAsking  \* bound on requests for an export that are handled at once

ASSUME BoundAssumption == {MaxExport, MaxClean, MaxAsking} \subseteq Nat

Exports  == 1 .. MaxExport
Cleanups == 1 .. MaxClean

VARIABLES
  status,     \* status[e]: of the row of export e
  data,       \* the exports whose export_json is saved
  file,       \* file[e]: the archive of e, with its data or without
  recent,     \* the exports made within user_import_time_limit
  old,        \* the exports updated export_files_lifetime_hours ago
  asking,     \* requests that have found that an export is allowed
  json,       \* json[e]: the task that gathers the data
  archive,    \* archive[e]: the task that packs them
  copy,       \* the exports whose data that task has read
  phase,      \* phase[c]: how far start_job has come with cleanup c
  found,      \* found[c]: the exports that it has still to queue
  tasks, completed, outcome, \* the row of c
  work,       \* work[c][e]: the task that deletes the file of e for c
  cancelling, \* cleanups that a request has read in order to stop them
  overlapped  \* history: has a request or a task begun to read what another
              \* one had still to write?

rows      == <<status, data, file, recent, old>>
exporting == <<asking, json, archive, copy>>
cleaning  == <<phase, found, tasks, completed, outcome, work, cancelling>>
steps     == <<rows, exporting, cleaning>>
vars      == <<steps, overlapped>>

\* complete is written with the status, and says whether the job has ended.
Done(e)    == status[e] \in {"complete", "failed"}
Stopped(c) == outcome[c] \in {"complete", "stopped"}

Init ==
  /\ status = [e \in Exports |-> "none"]
  /\ file = [e \in Exports |-> "none"]
  /\ data = {} /\ recent = {} /\ old = {} /\ copy = {} /\ cancelling = {}
  /\ asking = 0 /\ overlapped = FALSE
  /\ json = [e \in Exports |-> "none"] /\ archive = [e \in Exports |-> "none"]
  /\ phase = [c \in Cleanups |-> "none"] /\ outcome = [c \in Cleanups |-> "none"]
  /\ found = [c \in Cleanups |-> {}]
  /\ tasks = [c \in Cleanups |-> 0] /\ completed = [c \in Cleanups |-> 0]
  /\ work = [c \in Cleanups |-> [e \in Exports |-> "none"]]

-----------------------------------------------------------------------------
(* Exports *)

AskBlindly ==            \* (Mutant: the time limit is not looked at.)
  /\ asking < MaxAsking
  /\ asking' = asking + 1
  /\ UNCHANGED <<rows, json, archive, copy, cleaning>>

\* new_export_blocked_until: the last export is not too recent.
AskBegin ==
  /\ asking < MaxAsking
  /\ recent = {}
  /\ asking' = asking + 1
  /\ UNCHANGED <<rows, json, archive, copy, cleaning>>

Ask(e) ==
  /\ asking > 0
  /\ status[e] = "none" /\ \A x \in 1 .. e - 1 : status[x] # "none"
  /\ asking' = asking - 1
  /\ status' = [status EXCEPT ![e] = "pending"]
  /\ recent' = recent \cup {e}
  /\ UNCHANGED <<data, file, old, json, archive, copy, cleaning>>

StartExport(e) ==
  /\ status[e] = "pending"
  /\ status' = [status EXCEPT ![e] = "active"]
  /\ json' = [json EXCEPT ![e] = "queued"]
  /\ old' = old \ {e}
  /\ UNCHANGED <<data, file, recent, asking, archive, copy, cleaning>>

JsonBegin(e) ==
  /\ json[e] = "queued"
  /\ json' = [json EXCEPT ![e] = "open"]
  /\ UNCHANGED <<rows, asking, archive, copy, cleaning>>

\* complete_job and stop_job also set updated_date.
Ends(e, s) ==
  /\ status' = [status EXCEPT ![e] = s]
  /\ old' = old \ {e}
  /\ UNCHANGED <<data, file, recent>>

JsonFail(e) ==
  /\ json[e] = "open" /\ archive[e] = "none"
  /\ Ends(e, "failed")
  /\ json' = [json EXCEPT ![e] = "over"]
  /\ UNCHANGED <<asking, archive, copy, cleaning>>

\* create_archive_task.delay, inside the transaction that saves the data.
JsonDelay(e) ==
  /\ json[e] = "open" /\ archive[e] = "none"
  /\ archive' = [archive EXCEPT ![e] = "queued"]
  /\ UNCHANGED <<rows, asking, json, copy, cleaning>>

JsonCommitNothing(e) ==  \* (Mutant: the data are not among the saved fields.)
  /\ json[e] = "open" /\ archive[e] # "none"
  /\ json' = [json EXCEPT ![e] = "over"]
  /\ UNCHANGED <<rows, asking, archive, copy, cleaning>>

JsonCommit(e) ==
  /\ json[e] = "open" /\ archive[e] # "none"
  /\ data' = data \cup {e}
  /\ json' = [json EXCEPT ![e] = "over"]
  /\ UNCHANGED <<status, file, recent, old, asking, archive, copy, cleaning>>

ArchiveBegin(e) ==
  /\ archive[e] = "queued"
  /\ archive' = [archive EXCEPT ![e] = "open"]
  /\ copy' = copy \cup (data \cap {e})
  /\ UNCHANGED <<rows, asking, json, cleaning>>

ArchiveSave(e) ==
  /\ archive[e] = "open"
  /\ file' = [file EXCEPT ![e] = IF e \in copy THEN "whole" ELSE "empty"]
  /\ archive' = [archive EXCEPT ![e] = "saved"]
  /\ UNCHANGED <<status, data, recent, old, asking, json, copy, cleaning>>

ArchiveEnd(e) ==
  /\ archive[e] = "saved"
  /\ Ends(e, "complete")
  /\ archive' = [archive EXCEPT ![e] = "over"]
  /\ UNCHANGED <<asking, json, copy, cleaning>>

ArchiveGoes(e) ==        \* (Mutant: an error is logged, but not recorded.)
  /\ archive[e] \in {"open", "saved"}
  /\ archive' = [archive EXCEPT ![e] = "over"]
  /\ UNCHANGED <<rows, asking, json, copy, cleaning>>

ArchiveFail(e) ==
  /\ archive[e] \in {"open", "saved"}
  /\ Ends(e, "failed")
  /\ archive' = [archive EXCEPT ![e] = "over"]
  /\ UNCHANGED <<asking, json, copy, cleaning>>

-----------------------------------------------------------------------------
(* Cleanups *)

\* A cleanup that finds the exports of F.
Begins(c, F) ==
  /\ phase[c] = "none" /\ \A x \in 1 .. c - 1 : phase[x] # "none"
  /\ phase' = [phase EXCEPT ![c] = "scheduling"]
  /\ outcome' = [outcome EXCEPT ![c] = "active"]
  /\ found' = [found EXCEPT ![c] = F]
  /\ UNCHANGED <<rows, exporting, tasks, completed, work, cancelling>>

CleanAnything(c) ==      \* (Mutant: complete is not asked for.)
  Begins(c, {e \in old : file[e] # "none"})

\* start_export_deletions, by the schedule or by hand.
CleanBegin(c) ==
  Begins(c, {e \in old : Done(e) /\ file[e] # "none"})

\* The number of tasks is saved as n before the next of them is queued.
Queues(c, e, n) ==
  /\ e \in found[c]
  /\ found' = [found EXCEPT ![c] = @ \ {e}]
  /\ tasks' = [tasks EXCEPT ![c] = n]
  /\ work' = [work EXCEPT ![c][e] = "queued"]
  /\ UNCHANGED <<rows, exporting, phase, completed, outcome, cancelling>>

CleanNextUncounted(c, e) == Queues(c, e, 1) \* (Mutant: the counter is not counted up.)

CleanNext(c, e) == Queues(c, e, tasks[c] + 1)

\* complete_job asks complete of a row that was read before it was so.
CleanEnd(c) ==
  /\ phase[c] = "scheduling" /\ found[c] = {}
  /\ phase' = [phase EXCEPT ![c] = "scheduled"]
  /\ outcome' = [outcome EXCEPT ![c] = IF tasks[c] = 0 THEN "complete" ELSE @]
  /\ UNCHANGED <<rows, exporting, found, tasks, completed, work, cancelling>>

TaskBegin(c, e) ==
  /\ work[c][e] = "queued"
  /\ work' = [work EXCEPT ![c][e] = "running"]
  /\ UNCHANGED <<rows, exporting, phase, found, tasks, completed, outcome, cancelling>>

\* The file is deleted, or cannot be.
TaskEnd(c, e) ==
  /\ work[c][e] = "running"
  /\ work' = [work EXCEPT ![c][e] = "ended"]
  /\ file' \in {file, [file EXCEPT ![e] = "none"]}
  /\ UNCHANGED <<status, data, recent, old, exporting>>
  /\ UNCHANGED <<phase, found, tasks, completed, outcome, cancelling>>

\* after_return: the row is locked, counted up and kept.  Whoever counts the
\* last task will complete the job, unless it is complete.
Counts(c, e, complete) ==
  /\ work[c][e] = "ended"
  /\ completed' = [completed EXCEPT ![c] = @ + 1]
  /\ work' = [work EXCEPT ![c][e] =
                IF completed[c] + 1 = tasks[c] /\ ~complete THEN "last" ELSE "over"]
  /\ UNCHANGED <<rows, exporting, phase, found, tasks, outcome, cancelling>>

CountAlways(c, e) ==     \* (Mutant: it is not asked whether the job is complete.)
  Counts(c, e, FALSE)

CountGood(c, e) ==       \* (Mutant: on_success instead of after_return.)
  file[e] = "none" /\ Counts(c, e, Stopped(c))

Count(c, e) == Counts(c, e, Stopped(c))

Finish(c, e) ==
  /\ work[c][e] = "last"
  /\ outcome' = [outcome EXCEPT ![c] = "complete"]
  /\ work' = [work EXCEPT ![c][e] = "over"]
  /\ UNCHANGED <<rows, exporting, phase, found, tasks, completed, cancelling>>

\* stop_job revokes the task that began last, which runs: no task is stopped.
CancelBegin(c) ==
  /\ phase[c] # "none" /\ ~Stopped(c) /\ c \notin cancelling
  /\ cancelling' = cancelling \cup {c}
  /\ UNCHANGED <<rows, exporting, phase, found, tasks, completed, outcome, work>>

Cancel(c) ==
  /\ c \in cancelling
  /\ cancelling' = cancelling \ {c}
  /\ outcome' = [outcome EXCEPT ![c] = "stopped"]
  /\ UNCHANGED <<rows, exporting, phase, found, tasks, completed, work>>

-----------------------------------------------------------------------------
(* Time *)

\* user_import_time_limit is over for e, and so for those before it.
AllowAgain(e) ==
  /\ e \in recent /\ \A x \in recent : e <= x
  /\ recent' = recent \ {e}
  /\ UNCHANGED <<status, data, file, old, exporting, cleaning>>

\* updated_date is export_files_lifetime_hours ago.
Expire(e) ==
  /\ status[e] # "none"
  /\ old' = old \cup {e}
  /\ UNCHANGED <<status, data, file, recent, exporting, cleaning>>

-----------------------------------------------------------------------------
ExportStep(e) ==
  \/ StartExport(e)
  \/ JsonBegin(e) \/ JsonFail(e) \/ JsonDelay(e) \/ JsonCommit(e)
  \/ ArchiveBegin(e) \/ ArchiveSave(e) \/ ArchiveEnd(e) \/ ArchiveFail(e)

CleanStep(c) ==
  \/ CleanEnd(c)
  \/ \E e \in Exports : CleanNext(c, e) \/ TaskBegin(c, e) \/ TaskEnd(c, e)
                        \/ Count(c, e) \/ Finish(c, e)

Step ==
  \/ AskBegin
  \/ \E e \in Exports : Ask(e) \/ ExportStep(e) \/ AllowAgain(e) \/ Expire(e)
  \/ \E c \in Cleanups : CleanBegin(c) \/ CleanStep(c) \/ CancelBegin(c) \/ Cancel(c)

\* Who will still write to the row of a cleanup what it has made of it?
Held(c) == \/ phase[c] = "scheduling" \/ c \in cancelling
           \/ \E e \in Exports : work[c][e] = "last"

\* A second request looks for the last export, the data are packed before they
\* are committed, or a task is counted or a cleanup cancelled while its row is
\* held.
Overlapping ==
  \/ asking' > 1
  \/ \E e \in Exports : archive'[e] = "open" /\ json[e] # "over"
  \/ \E c \in Cleanups :
       Held(c) /\ (completed'[c] # completed[c] \/ c \in cancelling' \ cancelling)

Recorded == overlapped' = (overlapped \/ Overlapping)

Next == Step /\ Recorded

Spec == Init /\ [][Next]_vars

\* Workers do not die: who has begun goes on, and queued tasks are taken up.
\* Nobody owes a request.
Fairness == /\ \A e \in Exports : WF_vars(ExportStep(e) /\ Recorded)
            /\ \A c \in Cleanups : WF_vars(CleanStep(c) /\ Recorded)
FairSpec == Spec /\ Fairness

-----------------------------------------------------------------------------
\* A task that is over has recorded how its job has ended.
TypeOK ==
  /\ status \in [Exports -> {"none", "pending", "active", "complete", "failed"}]
  /\ file \in [Exports -> {"none", "whole", "empty"}]
  /\ data \subseteq Exports /\ recent \subseteq Exports /\ old \subseteq Exports
  /\ copy \subseteq data
  /\ asking \in 0 .. MaxAsking
  /\ json \in [Exports -> {"none", "queued", "open", "over"}]
  /\ archive \in [Exports -> {"none", "queued", "open", "saved", "over"}]
  /\ \A e \in Exports : archive[e] = "over" => Done(e)
  /\ phase \in [Cleanups -> {"none", "scheduling", "scheduled"}]
  /\ outcome \in [Cleanups -> {"none", "active", "complete", "stopped"}]
  /\ found \in [Cleanups -> SUBSET Exports]
  /\ tasks \in [Cleanups -> Nat] /\ completed \in [Cleanups -> Nat]
  /\ work \in [Cleanups -> [Exports -> {"none", "queued", "running", "ended", "last", "over"}]]
  /\ cancelling \subseteq Cleanups /\ overlapped \in BOOLEAN

\* "whether the user is allowed to request a new export": one in a while.
OneInAWhile == Cardinality(recent) <= 1

\* "create the archive containing the JSON file and additional files"
ArchiveHasJson == \A e \in Exports : file[e] # "empty"

\* However long an export takes, and whatever cleanups run, a file is deleted
\* only when its export has ended, and ended that long ago.
OnlyExpiredFilesGo ==
  [][\A e \in Exports : file[e] # "none" /\ file'[e] = "none" => Done(e) /\ e \in old]_vars

\* A cleanup that says that it is complete has nothing left to do.
CompleteMeansDone ==
  \A c \in Cleanups : outcome[c] = "complete" =>
    found[c] = {} /\ \A e \in Exports : work[c][e] \in {"none", "last", "over"}

\* What a cleanup has ended as, it stays.
StaysEnded == \A c \in Cleanups : Stopped(c) => outcome'[c] = outcome[c]

\* None of these fails unless requests or tasks have overlapped as Overlapping
\* says, whatever fails in a task and whichever worker dies.
OnlyOverlapsErr ==
  [][~overlapped' =>
       OneInAWhile' /\ ArchiveHasJson' /\ CompleteMeansDone' /\ StaysEnded]_vars

\* No export and no cleanup is under way forever, whatever fails in it.
JobsEnd ==
  /\ \A e \in Exports : status[e] = "pending" ~> Done(e)
  /\ \A c \in Cleanups : phase[c] = "scheduling" ~> Stopped(c)
=============================================================================
