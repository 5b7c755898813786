----------------------------- MODULE JobsProofs -----------------------------
(***************************************************************************)
(* Two parts of a server in which something has to happen in the end.      *)
(*                                                                         *)
(* Exports and cleanups, however many there are, and however their tasks   *)
(* interleave or die.  What a task of a cleanup relies on was read when    *)
(* the cleanup began.  It is still true when the file goes because an      *)
(* export that has ended is never written again: no task of it is left     *)
(* that could.                                                             *)
(*                                                                         *)
(* The inbox, for any number of workers, versions, repetitions and deaths. *)
(* The lock keeps workers apart.  That rows are as the author has left     *)
(* them is owed to the order instead: only where activities are worked off *)
(* one after the other, each by a worker who is alone.                     *)
(***************************************************************************)
EXTENDS MCJobs, Sequences, FiniteSetTheorems, TLAPS

\* Whoever may still write the row of an export finds it not ended.
WritersAreEarly ==
  \A e \in Exports :
    \/ status[e] \in {"none", "pending"}
    \/ json[e] \in {"queued", "open"} /\ archive[e] = "none"
    \/ archive[e] \in {"queued", "open", "saved"}
    => ~Done(e)

\* What a cleanup has still to delete.
ToDelete(c) ==
  found[c] \cup {e \in Exports : work[c][e] \in {"queued", "running"}}

ToDeleteIsExpired ==
  \A c \in Cleanups : \A e \in ToDelete(c) : Done(e) /\ e \in old

IInv == TypeOK /\ WritersAreEarly /\ ToDeleteIsExpired

LEMMA InitInv == Init => IInv
<1> SUFFICES ASSUME Init PROVE IInv
  OBVIOUS
<1>1. TypeOK
  <2>0. MaxAsking \in Nat
    BY BoundAssumption
  <2>1. asking \in 0 .. MaxAsking
    <3>1. asking = 0
      BY DEF Init
    <3> QED
      BY <2>0, <3>1
  <2>4. overlapped \in BOOLEAN
    BY DEF Init
  <2>2. \A e \in Exports : archive[e] = "over" => Done(e)
    BY DEF Init
  <2>3. /\ tasks \in [Cleanups -> Nat] /\ completed \in [Cleanups -> Nat]
        /\ found \in [Cleanups -> SUBSET Exports]
    BY DEF Init
  <2> QED
    BY <2>1, <2>2, <2>3, <2>4 DEF Init, TypeOK
<1>2. WritersAreEarly
  BY DEF Init, WritersAreEarly, Done
<1>3. ToDeleteIsExpired
  BY DEF Init, ToDeleteIsExpired, ToDelete
<1> QED
  BY <1>1, <1>2, <1>3 DEF IInv

USE BoundAssumption

\* The types, action by action.
LEMMA TypeStep == TypeOK /\ WritersAreEarly /\ [Next]_vars => TypeOK'
<1> SUFFICES ASSUME TypeOK, WritersAreEarly, [Next]_vars PROVE TypeOK'
  OBVIOUS
<1>0. overlapped' \in BOOLEAN
  BY DEF Next, Recorded, vars, TypeOK
<1> USE <1>0 DEF TypeOK, rows, exporting, cleaning, Done
<1>1. CASE AskBegin
  BY <1>1 DEF AskBegin
<1>2. ASSUME NEW e \in Exports, Ask(e) PROVE TypeOK'
  BY <1>2 DEF Ask, WritersAreEarly
<1>3. ASSUME NEW e \in Exports, StartExport(e) PROVE TypeOK'
  BY <1>3 DEF StartExport
<1>4. ASSUME NEW e \in Exports, JsonBegin(e) \/ JsonDelay(e) PROVE TypeOK'
  <2>1. CASE JsonBegin(e)
    BY <2>1 DEF JsonBegin
  <2>2. CASE JsonDelay(e)
    BY <2>2 DEF JsonDelay
  <2> QED
    BY <1>4, <2>1, <2>2
<1>5. ASSUME NEW e \in Exports, JsonFail(e) PROVE TypeOK'
  BY <1>5 DEF JsonFail, Ends
<1>6. ASSUME NEW e \in Exports, JsonCommit(e) PROVE TypeOK'
  BY <1>6 DEF JsonCommit
<1>7. ASSUME NEW e \in Exports, ArchiveBegin(e) PROVE TypeOK'
  BY <1>7 DEF ArchiveBegin
<1>8. ASSUME NEW e \in Exports, ArchiveSave(e) PROVE TypeOK'
  BY <1>8 DEF ArchiveSave
<1>9. ASSUME NEW e \in Exports, ArchiveEnd(e) PROVE TypeOK'
  BY <1>9 DEF ArchiveEnd, Ends
<1>10. ASSUME NEW e \in Exports, ArchiveFail(e) PROVE TypeOK'
  BY <1>10 DEF ArchiveFail, Ends
<1>11. ASSUME NEW c \in Cleanups, CleanBegin(c) PROVE TypeOK'
  BY <1>11 DEF CleanBegin, Begins
<1>12. ASSUME NEW c \in Cleanups, NEW e \in Exports, CleanNext(c, e) PROVE TypeOK'
  BY <1>12 DEF CleanNext, Queues
<1>13. ASSUME NEW c \in Cleanups, CleanEnd(c) PROVE TypeOK'
  BY <1>13 DEF CleanEnd
<1>14. ASSUME NEW c \in Cleanups, NEW e \in Exports, TaskBegin(c, e) PROVE TypeOK'
  BY <1>14 DEF TaskBegin
<1>15. ASSUME NEW c \in Cleanups, NEW e \in Exports, TaskEnd(c, e) PROVE TypeOK'
  <2>1. file' \in [Exports -> {"none", "whole", "empty"}]
    BY <1>15 DEF TaskEnd
  <2>2. work' \in [Cleanups -> [Exports -> {"none", "queued", "running", "ended", "last", "over"}]]
    BY <1>15 DEF TaskEnd
  <2> QED
    BY <1>15, <2>1, <2>2 DEF TaskEnd
<1>16. ASSUME NEW c \in Cleanups, NEW e \in Exports, Count(c, e) PROVE TypeOK'
  BY <1>16 DEF Count, Counts
<1>17. ASSUME NEW c \in Cleanups, NEW e \in Exports, Finish(c, e) PROVE TypeOK'
  BY <1>17 DEF Finish
<1>18. ASSUME NEW c \in Cleanups, CancelBegin(c) \/ Cancel(c) PROVE TypeOK'
  BY <1>18 DEF CancelBegin, Cancel
<1>19. ASSUME NEW e \in Exports, AllowAgain(e) \/ Expire(e) PROVE TypeOK'
  BY <1>19 DEF AllowAgain, Expire
<1>20. CASE UNCHANGED vars
  BY <1>20 DEF vars, steps
<1> QED
  BY <1>1, <1>2, <1>3, <1>4, <1>5, <1>6, <1>7, <1>8, <1>9, <1>10, <1>11, <1>12, <1>13,
     <1>14, <1>15, <1>16, <1>17, <1>18, <1>19, <1>20 DEF Next, Step, ExportStep, CleanStep

\* The steps of an export: they write rows that have not ended, and so none
\* that a cleanup has chosen.
LEMMA ExportSteps ==
  ASSUME IInv, NEW e \in Exports,
         Ask(e) \/ ExportStep(e) \/ AllowAgain(e) \/ Expire(e)
  PROVE  WritersAreEarly' /\ ToDeleteIsExpired'
<1> USE DEF IInv, TypeOK, WritersAreEarly, rows, exporting, cleaning, Done
<1>1. UNCHANGED <<found, work>>
  BY DEF ExportStep, Ask, StartExport, JsonBegin, JsonFail, JsonDelay, JsonCommit,
         ArchiveBegin, ArchiveSave, ArchiveEnd, ArchiveFail, AllowAgain, Expire
<1>2. \A x \in Exports : Done(x) /\ x \in old => Done(x)' /\ x \in old'
  BY DEF ExportStep, Ask, StartExport, JsonBegin, JsonFail, JsonDelay, JsonCommit, Ends,
         ArchiveBegin, ArchiveSave, ArchiveEnd, ArchiveFail, AllowAgain, Expire
<1>3. ToDeleteIsExpired'
  BY <1>1, <1>2 DEF ToDeleteIsExpired, ToDelete
<1>4. CASE Ask(e) \/ StartExport(e)
  BY <1>3, <1>4 DEF Ask, StartExport
<1>5. CASE JsonBegin(e) \/ JsonDelay(e) \/ JsonCommit(e)
  BY <1>3, <1>5 DEF JsonBegin, JsonDelay, JsonCommit
<1>6. CASE JsonFail(e)
  BY <1>3, <1>6 DEF JsonFail, Ends
<1>7. CASE ArchiveBegin(e) \/ ArchiveSave(e)
  BY <1>3, <1>7 DEF ArchiveBegin, ArchiveSave
<1>8. CASE ArchiveEnd(e) \/ ArchiveFail(e)
  BY <1>3, <1>8 DEF ArchiveEnd, ArchiveFail, Ends
<1>9. CASE AllowAgain(e) \/ Expire(e)
  BY <1>3, <1>9 DEF AllowAgain, Expire
<1> QED
  BY <1>4, <1>5, <1>6, <1>7, <1>8, <1>9 DEF ExportStep

\* The steps of a cleanup: what it chooses has ended, and it chooses once.
LEMMA CleanSteps ==
  ASSUME IInv, NEW c \in Cleanups,
         CleanBegin(c) \/ CleanStep(c) \/ CancelBegin(c) \/ Cancel(c)
  PROVE  WritersAreEarly' /\ ToDeleteIsExpired'
<1> USE DEF IInv, TypeOK, rows, exporting, cleaning, Done
<1>1. UNCHANGED <<json, archive>>
  BY DEF CleanBegin, Begins, CleanStep, CleanEnd, CleanNext, Queues, TaskBegin, TaskEnd,
         Count, Counts, Finish, CancelBegin, Cancel
<1>2. UNCHANGED <<status, old>>
  BY DEF CleanBegin, Begins, CleanStep, CleanEnd, CleanNext, Queues, TaskBegin, TaskEnd,
         Count, Counts, Finish, CancelBegin, Cancel
<1>3. WritersAreEarly'
  BY <1>1, <1>2 DEF WritersAreEarly
<1>4. ASSUME NEW x \in Cleanups, NEW y \in ToDelete(x)'
      PROVE  y \in Exports /\ Done(y) /\ y \in old
  <2> USE DEF ToDeleteIsExpired, ToDelete
  <2>1. CASE CleanBegin(c)
    BY <1>4, <2>1 DEF CleanBegin, Begins
  <2>2. ASSUME NEW e \in Exports, CleanNext(c, e)
        PROVE  y \in Exports /\ Done(y) /\ y \in old
    BY <1>4, <2>2 DEF CleanNext, Queues
  <2>3. CASE CleanEnd(c)
    BY <1>4, <2>3 DEF CleanEnd
  <2>4. ASSUME NEW e \in Exports, TaskBegin(c, e) \/ TaskEnd(c, e)
        PROVE  y \in Exports /\ Done(y) /\ y \in old
    <3>1. work[c][e] \in {"queued", "running"}
      BY <2>4 DEF TaskBegin, TaskEnd
    <3>2. y \in Exports /\ ((x = c /\ y = e) \/ work'[x][y] = work[x][y])
      BY <1>4, <2>4 DEF TaskBegin, TaskEnd
    <3>3. UNCHANGED found
      BY <2>4 DEF TaskBegin, TaskEnd
    <3> QED
      BY <1>4, <3>1, <3>2, <3>3
  <2>5. ASSUME NEW e \in Exports, Count(c, e) \/ Finish(c, e)
        PROVE  y \in Exports /\ Done(y) /\ y \in old
    BY <1>4, <2>5 DEF Count, Counts, Finish
  <2>6. CASE CancelBegin(c) \/ Cancel(c)
    BY <1>4, <2>6 DEF CancelBegin, Cancel
  <2> QED
    BY <2>1, <2>2, <2>3, <2>4, <2>5, <2>6 DEF CleanStep
<1> QED
  BY <1>2, <1>3, <1>4 DEF ToDeleteIsExpired

LEMMA NextInv == IInv /\ [Next]_vars => IInv'
<1> SUFFICES ASSUME IInv, [Next]_vars PROVE WritersAreEarly' /\ ToDeleteIsExpired'
  BY TypeStep DEF IInv
<1>1. CASE AskBegin \/ UNCHANGED vars
  BY <1>1 DEF IInv, WritersAreEarly, ToDeleteIsExpired, ToDelete, AskBegin,
              rows, exporting, cleaning, vars, steps, Done
<1>2. CASE ~(AskBegin \/ UNCHANGED vars)
  BY <1>2, ExportSteps, CleanSteps DEF Next, Step
<1> QED
  BY <1>1, <1>2

\* A task deletes the file of an export that was expired when it was chosen,
\* and is so still; nothing else takes a file away.
LEMMA FilesGo ==
  ASSUME IInv, [Next]_vars
  PROVE  \A e \in Exports : file[e] # "none" /\ file'[e] = "none"
           => Done(e) /\ e \in old
<1> SUFFICES ASSUME NEW e \in Exports, file[e] # "none", file'[e] = "none"
             PROVE  Done(e) /\ e \in old
  OBVIOUS
<1> USE DEF IInv, TypeOK, rows, exporting, cleaning, Done
<1>1. CASE AskBegin \/ UNCHANGED vars
  BY <1>1 DEF AskBegin, vars, steps
<1>2. ASSUME NEW x \in Exports, Ask(x) \/ AllowAgain(x) \/ Expire(x)
      PROVE  FALSE
  BY <1>2 DEF Ask, AllowAgain, Expire
<1>3. ASSUME NEW x \in Exports, ExportStep(x)
      PROVE  FALSE
  BY <1>3 DEF ExportStep, StartExport, JsonBegin, JsonFail, JsonDelay, JsonCommit, Ends,
         ArchiveBegin, ArchiveSave, ArchiveEnd, ArchiveFail
<1>4. ASSUME NEW c \in Cleanups, CleanBegin(c) \/ CancelBegin(c) \/ Cancel(c)
      PROVE  FALSE
  BY <1>4 DEF CleanBegin, Begins, CancelBegin, Cancel
<1>5. ASSUME NEW c \in Cleanups, CleanStep(c)
      PROVE  Done(e) /\ e \in old
  BY <1>5 DEF CleanStep, CleanEnd, CleanNext, Queues, TaskBegin, TaskEnd, Count, Counts, Finish,
         ToDeleteIsExpired, ToDelete
<1> QED
  BY <1>1, <1>2, <1>3, <1>4, <1>5 DEF Next, Step

-----------------------------------------------------------------------------
\* The variables keep their types, and a task that is over has recorded how
\* its job has ended.
THEOREM TypeCorrect == Spec => []TypeOK
<1>1. IInv => TypeOK
  BY DEF IInv
<1> QED
  BY <1>1, InitInv, NextInv, PTL DEF Spec

\* delete_user_export_file_task takes a file only from an export that ended
\* before the expiry date of the cleanup.
THEOREM ExpiredFilesGo == Spec => OnlyExpiredFilesGo
<1>1. IInv /\ [Next]_vars
        => [\A e \in Exports : file[e] # "none" /\ file'[e] = "none"
              => Done(e) /\ e \in old]_vars
  BY FilesGo
<1> QED
  BY <1>1, InitInv, NextInv, PTL DEF Spec, OnlyExpiredFilesGo

-----------------------------------------------------------------------------
(* What goes wrong goes wrong because something overlapped                  *)

\* A request that may make an export has found none that is recent.
AsksAlone ==
  /\ asking \in {0, 1}
  /\ asking = 1 => recent = {}
  /\ \A d, e \in recent : d = e

\* An archive is asked for in the transaction that saves the data, and packed
\* when that is over.
DataAreSaved == \A e \in Exports : json[e] = "over" /\ archive[e] # "none" => e \in data
ArchiversHaveData ==
  \A e \in Exports : /\ archive[e] \in {"open", "saved"} => e \in copy
                     /\ file[e] # "empty"

\* The tasks of a cleanup that were queued, and those that were counted.
Queued(c)  == {e \in Exports : work[c][e] # "none"}
Counted(c) == {e \in Exports : work[c][e] \in {"last", "over"}}

Numbered(c) ==
  /\ tasks[c] = Cardinality(Queued(c))
  /\ completed[c] = Cardinality(Counted(c))
  /\ \A e \in found[c] : work[c][e] = "none"
  /\ phase[c] = "none" <=> outcome[c] = "none"
  /\ phase[c] = "none" => Queued(c) = {} /\ c \notin cancelling
  /\ phase[c] # "scheduling" => found[c] = {}

AllCounted(c) == found[c] = {} /\ Queued(c) = Counted(c)

\* One at a time holds the row of a cleanup, which has not ended then; the
\* last of its tasks holds it when the others have been counted.
HeldByOne(c) ==
  /\ phase[c] = "scheduling" \/ c \in cancelling => outcome[c] = "active"
  /\ phase[c] = "scheduling" =>
       c \notin cancelling /\ \A e \in Exports : work[c][e] # "last"
  /\ outcome[c] = "complete" => AllCounted(c) /\ \A e \in Exports : work[c][e] # "last"
  /\ \A e \in Exports : work[c][e] = "last" =>
       /\ outcome[c] = "active" /\ c \notin cancelling /\ AllCounted(c)
       /\ \A d \in Exports : work[c][d] = "last" => d = e

Calm == AsksAlone /\ ArchiversHaveData /\ \A c \in Cleanups : HeldByOne(c)

OInv == /\ IInv /\ DataAreSaved
        /\ \A c \in Cleanups : Numbered(c)
        /\ ~overlapped => Calm

LEMMA InitOInv == Init => OInv
<1> SUFFICES ASSUME Init PROVE OInv
  OBVIOUS
<1>1. DataAreSaved /\ ArchiversHaveData
  BY DEF Init, DataAreSaved, ArchiversHaveData
<1>2. AsksAlone
  BY DEF Init, AsksAlone
<1>3. \A c \in Cleanups : Numbered(c)
  <2>1. \A c \in Cleanups : Queued(c) = {} /\ Counted(c) = {}
    BY DEF Init, Queued, Counted
  <2> QED
    BY <2>1, FS_EmptySet DEF Init, Numbered
<1>4. \A c \in Cleanups : HeldByOne(c)
  BY DEF Init, HeldByOne
<1> QED
  BY <1>1, <1>2, <1>3, <1>4, InitInv DEF OInv, Calm

\* The steps of cleanups leave exports alone, and those of exports cleanups.
LEMMA ExportsOnly ==
  ASSUME AskBegin \/ \E e \in Exports : Ask(e) \/ ExportStep(e) \/ AllowAgain(e) \/ Expire(e)
  PROVE  UNCHANGED cleaning
BY DEF AskBegin, Ask, ExportStep, StartExport, JsonBegin, JsonFail, JsonDelay, JsonCommit,
       ArchiveBegin, ArchiveSave, ArchiveEnd, ArchiveFail, AllowAgain, Expire, cleaning

LEMMA CleanupsOnly ==
  ASSUME TypeOK, NEW c \in Cleanups,
         CleanBegin(c) \/ CleanStep(c) \/ CancelBegin(c) \/ Cancel(c)
  PROVE  /\ UNCHANGED <<exporting, status, data, recent, old>>
         /\ \A e \in Exports : file'[e] \in {file[e], "none"}
BY DEF TypeOK, CleanBegin, Begins, CleanStep, CleanEnd, CleanNext, Queues, TaskBegin, TaskEnd,
       Count, Counts, Finish, CancelBegin, Cancel, rows

LEMMA NextDataAreSaved == IInv /\ DataAreSaved /\ [Next]_vars => DataAreSaved'
<1> SUFFICES ASSUME IInv, DataAreSaved, [Next]_vars PROVE DataAreSaved'
  OBVIOUS
<1> USE DEF IInv, TypeOK, DataAreSaved, rows, exporting, cleaning
<1>1. CASE UNCHANGED vars
  BY <1>1 DEF vars, steps
<1>2. ASSUME NEW c \in Cleanups, CleanBegin(c) \/ CleanStep(c) \/ CancelBegin(c) \/ Cancel(c)
      PROVE  DataAreSaved'
  BY <1>2, CleanupsOnly
<1>3. CASE AskBegin
  BY <1>3 DEF AskBegin
<1>4. ASSUME NEW e \in Exports, Ask(e) \/ AllowAgain(e) \/ Expire(e) PROVE DataAreSaved'
  BY <1>4 DEF Ask, AllowAgain, Expire
<1>5. ASSUME NEW e \in Exports, ExportStep(e) PROVE DataAreSaved'
  BY <1>5 DEF ExportStep, StartExport, JsonBegin, JsonFail, JsonDelay, JsonCommit, Ends,
         ArchiveBegin, ArchiveSave, ArchiveEnd, ArchiveFail
<1> QED
  BY <1>1, <1>2, <1>3, <1>4, <1>5 DEF Next, Step

\* A cleanup keeps its row and its tasks.
Left(c) ==
  /\ UNCHANGED <<phase[c], outcome[c], found[c], tasks[c], completed[c], work[c]>>
  /\ c \in cancelling' <=> c \in cancelling

LEMMA LeftIsKept ==
  ASSUME NEW c \in Cleanups, Left(c)
  PROVE  (Numbered(c) => Numbered(c)') /\ (HeldByOne(c) => HeldByOne(c)')
BY DEF Left, Numbered, HeldByOne, Queued, Counted, AllCounted

LEMMA OthersAreLeft ==
  ASSUME TypeOK, NEW c \in Cleanups, NEW x \in Cleanups, x # c,
         CleanBegin(c) \/ CleanStep(c) \/ CancelBegin(c) \/ Cancel(c)
  PROVE  Left(x)
BY DEF TypeOK, Left, CleanBegin, Begins, CleanStep, CleanEnd, CleanNext, Queues, TaskBegin,
       TaskEnd, Count, Counts, Finish, CancelBegin, Cancel

LEMMA CountedFinite ==
  \A c \in Cleanups :
    /\ IsFiniteSet(Queued(c)) /\ IsFiniteSet(Counted(c)) /\ Counted(c) \subseteq Queued(c)
    /\ Cardinality(Queued(c)) \in Nat /\ Cardinality(Counted(c)) \in Nat
<1>1. IsFiniteSet(Exports)
  BY FS_Interval DEF Exports
<1>2. \A c \in Cleanups : Queued(c) \subseteq Exports /\ Counted(c) \subseteq Queued(c)
  BY DEF Queued, Counted
<1>3. \A c \in Cleanups : IsFiniteSet(Queued(c)) /\ IsFiniteSet(Counted(c))
  BY <1>1, <1>2, FS_Subset
<1> QED
  BY <1>2, <1>3, FS_CardinalityType

\* Each task is counted once when it is queued, and once when it is over.
LEMMA OwnNumbers ==
  ASSUME TypeOK, NEW c \in Cleanups, Numbered(c),
         CleanBegin(c) \/ CleanStep(c) \/ CancelBegin(c) \/ Cancel(c)
  PROVE  Numbered(c)'
<1> USE DEF TypeOK, rows, exporting
<1>0. /\ IsFiniteSet(Queued(c)) /\ IsFiniteSet(Counted(c))
      /\ Cardinality(Queued(c)) \in Nat /\ Cardinality(Counted(c)) \in Nat
  BY CountedFinite
<1>1. CASE CleanBegin(c)
  BY <1>1 DEF CleanBegin, Begins, Numbered, Queued, Counted
<1>2. CASE CleanEnd(c)
  BY <1>2 DEF CleanEnd, Numbered, Queued, Counted
<1>3. CASE CancelBegin(c) \/ Cancel(c)
  <2>1. /\ UNCHANGED <<phase, found, tasks, completed, work>>
        /\ Queued(c)' = Queued(c) /\ Counted(c)' = Counted(c)
    BY <1>3 DEF CancelBegin, Cancel, Queued, Counted
  <2>2. outcome'[c] = outcome[c] \/ (outcome'[c] = "stopped" /\ c \in cancelling)
    BY <1>3 DEF CancelBegin, Cancel
  <2>3. c \in cancelling' => c \in cancelling \/ phase[c] # "none"
    BY <1>3 DEF CancelBegin, Cancel
  <2> QED
    BY <2>1, <2>2, <2>3 DEF Numbered
<1>4. ASSUME NEW e \in Exports, CleanNext(c, e) PROVE Numbered(c)'
  <2>1. Queued(c)' = Queued(c) \cup {e} /\ Counted(c)' = Counted(c) /\ e \notin Queued(c)
    BY <1>4 DEF CleanNext, Queues, Numbered, Queued, Counted
  <2>2. Cardinality(Queued(c)') = Cardinality(Queued(c)) + 1
    BY <1>0, <2>1, FS_AddElement
  <2>3. UNCHANGED <<phase, outcome, completed, cancelling>> /\ tasks'[c] = tasks[c] + 1
    BY <1>4 DEF CleanNext, Queues
  <2>4. /\ phase[c] = "scheduling" /\ found'[c] = found[c] \ {e}
        /\ \A x \in Exports : x # e => work'[c][x] = work[c][x]
    BY <1>4 DEF CleanNext, Queues, Numbered
  <2>5. \A x \in found'[c] : work'[c][x] = "none"
    BY <2>4 DEF Numbered
  <2> QED
    BY <2>1, <2>2, <2>3, <2>4, <2>5 DEF Numbered
<1>5. ASSUME NEW e \in Exports, TaskBegin(c, e) \/ TaskEnd(c, e) \/ Finish(c, e)
      PROVE  Numbered(c)'
  <2>1. Queued(c)' = Queued(c) /\ Counted(c)' = Counted(c)
    BY <1>5 DEF TaskBegin, TaskEnd, Finish, Queued, Counted
  <2>2. \A x \in Exports : work[c][x] = "none" => work'[c][x] = "none"
    BY <1>5 DEF TaskBegin, TaskEnd, Finish
  <2>3. UNCHANGED <<phase, found, tasks, completed, cancelling>>
    BY <1>5 DEF TaskBegin, TaskEnd, Finish
  <2>4. outcome'[c] = outcome[c] \/ (outcome'[c] = "complete" /\ e \in Queued(c))
    BY <1>5 DEF TaskBegin, TaskEnd, Finish, Queued
  <2> QED
    BY <2>1, <2>2, <2>3, <2>4 DEF Numbered
<1>6. ASSUME NEW e \in Exports, Count(c, e) PROVE Numbered(c)'
  <2>1. Queued(c)' = Queued(c) /\ Counted(c)' = Counted(c) \cup {e} /\ e \notin Counted(c)
    BY <1>6 DEF Count, Counts, Queued, Counted
  <2>2. Cardinality(Counted(c)') = Cardinality(Counted(c)) + 1
    BY <1>0, <2>1, FS_AddElement
  <2>3. /\ UNCHANGED <<phase, found, outcome, tasks, cancelling>>
        /\ completed'[c] = completed[c] + 1
    BY <1>6 DEF Count, Counts
  <2>4. \A x \in Exports : work[c][x] = "none" => work'[c][x] = "none"
    BY <1>6 DEF Count, Counts
  <2> QED
    BY <2>1, <2>2, <2>3, <2>4 DEF Numbered
<1> QED
  BY <1>1, <1>2, <1>3, <1>4, <1>5, <1>6 DEF CleanStep

\* While the row of a cleanup is held by one, no task of it is counted, and it
\* is not cancelled; whoever counts the last task then holds the row alone.
LEMMA OwnHolding ==
  ASSUME TypeOK, NEW c \in Cleanups, Numbered(c), HeldByOne(c),
         CleanBegin(c) \/ CleanStep(c) \/ CancelBegin(c) \/ Cancel(c),
         ~Overlapping
  PROVE  HeldByOne(c)' /\ (Stopped(c) => outcome'[c] = outcome[c])
<1> USE DEF TypeOK
<1>0. /\ IsFiniteSet(Queued(c)) /\ IsFiniteSet(Counted(c)) /\ Counted(c) \subseteq Queued(c)
      /\ Cardinality(Queued(c)) \in Nat /\ Cardinality(Counted(c)) \in Nat
  BY CountedFinite
<1>1. CASE CleanBegin(c)
  BY <1>1 DEF CleanBegin, Begins, Numbered, HeldByOne, Queued, Stopped
<1>2. CASE CleanEnd(c)
  <2>1. /\ phase[c] = "scheduling" /\ found[c] = {} /\ phase'[c] = "scheduled"
        /\ outcome'[c] = IF tasks[c] = 0 THEN "complete" ELSE outcome[c]
        /\ UNCHANGED <<found, work, cancelling>>
    BY <1>2 DEF CleanEnd
  <2>2. outcome[c] = "active" /\ c \notin cancelling /\ \A e \in Exports : work[c][e] # "last"
    BY <2>1 DEF HeldByOne
  <2>3. tasks[c] = 0 => Queued(c) = {} /\ Counted(c) = {}
    BY <1>0, FS_EmptySet DEF Numbered
  <2>4. outcome'[c] = "complete" => AllCounted(c)'
    BY <2>1, <2>2, <2>3 DEF AllCounted, Queued, Counted
  <2> QED
    BY <2>1, <2>2, <2>4 DEF HeldByOne, Stopped
<1>3. CASE CancelBegin(c)
  <2>1. ~Held(c) /\ ~Stopped(c) /\ phase[c] # "none"
    BY <1>3 DEF Overlapping, CancelBegin
  <2>2. UNCHANGED <<phase, found, outcome, work>> /\ outcome[c] = "active"
    BY <1>3, <2>1 DEF CancelBegin, Stopped, Numbered
  <2> QED
    BY <2>1, <2>2 DEF HeldByOne, Held, Stopped
<1>4. CASE Cancel(c)
  <2>1. /\ c \in cancelling /\ outcome[c] = "active" /\ phase[c] # "scheduling"
        /\ \A e \in Exports : work[c][e] # "last"
    BY <1>4 DEF Cancel, HeldByOne
  <2>2. /\ UNCHANGED <<phase, found, work>> /\ outcome'[c] = "stopped"
        /\ c \notin cancelling'
    BY <1>4 DEF Cancel
  <2> QED
    BY <2>1, <2>2 DEF HeldByOne, Stopped
<1>5. ASSUME NEW e \in Exports, CleanNext(c, e)
      PROVE  HeldByOne(c)' /\ (Stopped(c) => outcome'[c] = outcome[c])
  <2>1. /\ phase[c] = "scheduling" /\ UNCHANGED <<phase, outcome, cancelling>>
        /\ \A x \in Exports : work'[c][x] # "last" \/ work[c][x] = "last"
    BY <1>5 DEF CleanNext, Queues, Numbered
  <2>2. /\ outcome[c] = "active" /\ c \notin cancelling
        /\ \A x \in Exports : work'[c][x] # "last"
    BY <2>1 DEF HeldByOne
  <2> QED
    BY <2>1, <2>2 DEF HeldByOne
<1>6. ASSUME NEW e \in Exports, TaskBegin(c, e) \/ TaskEnd(c, e)
      PROVE  HeldByOne(c)' /\ (Stopped(c) => outcome'[c] = outcome[c])
  <2>1. /\ UNCHANGED <<phase, found, outcome, cancelling>>
        /\ Queued(c)' = Queued(c) /\ Counted(c)' = Counted(c)
        /\ \A x \in Exports : work'[c][x] = "last" <=> work[c][x] = "last"
    BY <1>6 DEF TaskBegin, TaskEnd, Queued, Counted
  <2> QED
    BY <2>1 DEF HeldByOne, AllCounted
<1>7. ASSUME NEW e \in Exports, Count(c, e)
      PROVE  HeldByOne(c)' /\ (Stopped(c) => outcome'[c] = outcome[c])
  <2>1. /\ UNCHANGED <<phase, found, outcome, tasks, cancelling>>
        /\ completed'[c] = completed[c] + 1
        /\ work[c][e] = "ended"
        /\ work'[c][e] = IF completed[c] + 1 = tasks[c] /\ ~Stopped(c) THEN "last" ELSE "over"
        /\ \A x \in Exports : x # e => work'[c][x] = work[c][x]
    BY <1>7 DEF Count, Counts
  <2>2. ~Held(c)
    BY <2>1 DEF Overlapping
  <2>3. /\ Queued(c)' = Queued(c) /\ Counted(c)' = Counted(c) \cup {e} /\ e \notin Counted(c)
        /\ e \in Queued(c)
    BY <1>7 DEF Count, Counts, Queued, Counted
  <2>4. IsFiniteSet(Counted(c) \cup {e}) /\ Cardinality(Counted(c) \cup {e}) = completed[c] + 1
    BY <1>0, <2>3, FS_AddElement DEF Numbered
  <2>5. completed[c] + 1 = tasks[c] => Queued(c)' = Counted(c)'
    BY <1>0, <2>3, <2>4, FS_Subset DEF Numbered
  <2>6. outcome[c] = "complete" => FALSE
    BY <2>1 DEF HeldByOne, AllCounted, Queued, Counted
  <2>7. /\ phase[c] # "scheduling" /\ c \notin cancelling /\ found[c] = {}
        /\ \A x \in Exports : work[c][x] # "last"
    BY <2>2 DEF Held, Numbered
  <2>8. phase[c] # "none" /\ outcome[c] # "none"
    BY <2>3 DEF Numbered
  <2>9. ASSUME NEW d \in Exports, work'[c][d] = "last"
        PROVE  d = e /\ AllCounted(c)' /\ outcome[c] = "active"
    BY <2>1, <2>5, <2>7, <2>8, <2>9 DEF AllCounted, Stopped
  <2> QED
    BY <2>1, <2>6, <2>7, <2>9 DEF HeldByOne
<1>8. ASSUME NEW e \in Exports, Finish(c, e)
      PROVE  HeldByOne(c)' /\ (Stopped(c) => outcome'[c] = outcome[c])
  <2>1. /\ UNCHANGED <<phase, found, cancelling>> /\ outcome'[c] = "complete"
        /\ work[c][e] = "last" /\ work'[c][e] = "over"
        /\ \A x \in Exports : x # e => work'[c][x] = work[c][x]
    BY <1>8 DEF Finish
  <2>2. /\ outcome[c] = "active" /\ c \notin cancelling /\ AllCounted(c)
        /\ phase[c] # "scheduling"
        /\ \A x \in Exports : work'[c][x] # "last"
    BY <2>1 DEF HeldByOne
  <2>3. Queued(c)' = Queued(c) /\ Counted(c)' = Counted(c)
    BY <1>8 DEF Finish, Queued, Counted
  <2> QED
    BY <2>1, <2>2, <2>3 DEF HeldByOne, AllCounted, Stopped
<1> QED
  BY <1>1, <1>2, <1>3, <1>4, <1>5, <1>6, <1>7, <1>8 DEF CleanStep

\* Asking and packing, when nothing overlaps.
LEMMA ExportsCalm ==
  ASSUME IInv, DataAreSaved, AsksAlone, ArchiversHaveData, ~Overlapping, [Next]_vars
  PROVE  AsksAlone' /\ ArchiversHaveData'
<1> USE DEF IInv, TypeOK, rows, exporting, cleaning
<1>1. asking' <= 1
  BY TypeStep DEF Overlapping
<1>2. \A e \in Exports : archive'[e] = "open" => json[e] = "over"
  BY DEF Overlapping
<1>3. CASE UNCHANGED vars
  BY <1>3 DEF vars, steps, AsksAlone, ArchiversHaveData
<1>4. ASSUME NEW c \in Cleanups, CleanBegin(c) \/ CleanStep(c) \/ CancelBegin(c) \/ Cancel(c)
      PROVE  AsksAlone' /\ ArchiversHaveData'
  BY <1>4, CleanupsOnly DEF AsksAlone, ArchiversHaveData
<1>5. CASE AskBegin
  BY <1>1, <1>5 DEF AskBegin, AsksAlone, ArchiversHaveData
<1>6. ASSUME NEW e \in Exports, Ask(e) \/ AllowAgain(e) \/ Expire(e)
      PROVE  AsksAlone' /\ ArchiversHaveData'
  BY <1>6 DEF Ask, AllowAgain, Expire, AsksAlone, ArchiversHaveData
<1>7. ASSUME NEW e \in Exports, ExportStep(e) PROVE AsksAlone' /\ ArchiversHaveData'
  <2>1. AsksAlone'
    BY <1>7 DEF ExportStep, StartExport, JsonBegin, JsonFail, JsonDelay, JsonCommit, Ends,
           ArchiveBegin, ArchiveSave, ArchiveEnd, ArchiveFail, AsksAlone
  <2>2. ASSUME ArchiveBegin(e) PROVE ArchiversHaveData'
    <3>1. /\ archive[e] = "queued" /\ archive'[e] = "open" /\ UNCHANGED file
          /\ \A x \in Exports : x # e => archive'[x] = archive[x]
          /\ copy' = copy \cup (data \cap {e})
      BY <2>2 DEF ArchiveBegin
    <3>2. e \in data
      BY <1>2, <3>1 DEF DataAreSaved
    <3> QED
      BY <3>1, <3>2 DEF ArchiversHaveData
  <2>3. ASSUME ArchiveSave(e) PROVE ArchiversHaveData'
    <3>1. /\ archive[e] = "open" /\ archive'[e] = "saved" /\ UNCHANGED copy
          /\ \A x \in Exports : x # e => archive'[x] = archive[x] /\ file'[x] = file[x]
      BY <2>3 DEF ArchiveSave
    <3>2. file'[e] = "whole"
      BY <2>3 DEF ArchiveSave, ArchiversHaveData
    <3> QED
      BY <3>1, <3>2 DEF ArchiversHaveData
  <2>4. ASSUME ~ArchiveBegin(e), ~ArchiveSave(e) PROVE ArchiversHaveData'
    <3>1. /\ UNCHANGED <<file, copy>>
          /\ \A x \in Exports : archive'[x] \in {"open", "saved"} => archive'[x] = archive[x]
      BY <1>7, <2>4 DEF ExportStep, StartExport, JsonBegin, JsonFail, JsonDelay, JsonCommit, Ends,
             ArchiveEnd, ArchiveFail
    <3> QED
      BY <3>1 DEF ArchiversHaveData
  <2> QED
    BY <2>1, <2>2, <2>3, <2>4
<1> QED
  BY <1>3, <1>4, <1>5, <1>6, <1>7 DEF Next, Step

LEMMA NextOInv ==
  ASSUME OInv, [Next]_vars
  PROVE  OInv' /\ (~overlapped' => StaysEnded)
<1>1. IInv' /\ DataAreSaved' /\ TypeOK
  BY NextInv, NextDataAreSaved DEF OInv, IInv
<1>2. overlapped => overlapped'
  BY DEF Next, Recorded, vars
<1>3. ASSUME NEW c \in Cleanups, UNCHANGED cleaning PROVE Left(c)
  BY <1>3 DEF Left, cleaning
<1>4. CASE UNCHANGED vars
  <2>1. UNCHANGED <<asking, recent, archive, copy, file, cleaning, overlapped>>
    BY <1>4 DEF vars, steps, rows, exporting
  <2>2. \A c \in Cleanups : Left(c)
    BY <1>3, <2>1
  <2>3. (\A c \in Cleanups : Numbered(c)') /\ (~overlapped' => \A c \in Cleanups : HeldByOne(c)')
    BY <2>1, <2>2, LeftIsKept DEF OInv, Calm
  <2>4. ~overlapped' => AsksAlone' /\ ArchiversHaveData'
    BY <2>1 DEF OInv, Calm, AsksAlone, ArchiversHaveData
  <2> QED
    BY <1>1, <2>1, <2>3, <2>4 DEF OInv, Calm, StaysEnded, cleaning
<1>5. CASE Next
  <2>1. ~overlapped' => ~Overlapping /\ Calm
    BY <1>5 DEF Next, Recorded, OInv
  <2>2. ~overlapped' => AsksAlone' /\ ArchiversHaveData'
    BY <2>1, ExportsCalm DEF OInv, Calm
  <2>3. ASSUME NEW c \in Cleanups
        PROVE  /\ Numbered(c)'
               /\ ~overlapped' => HeldByOne(c)' /\ (Stopped(c) => outcome'[c] = outcome[c])
    <3>1. CASE UNCHANGED cleaning
      BY <1>3, <2>1, <3>1, LeftIsKept DEF OInv, Calm, cleaning
    <3>2. ASSUME NEW d \in Cleanups, d # c,
                 CleanBegin(d) \/ CleanStep(d) \/ CancelBegin(d) \/ Cancel(d)
          PROVE  /\ Numbered(c)'
                 /\ ~overlapped' => HeldByOne(c)' /\ (Stopped(c) => outcome'[c] = outcome[c])
      BY <1>1, <2>1, <3>2, OthersAreLeft, LeftIsKept DEF OInv, Calm, Left
    <3>3. CASE CleanBegin(c) \/ CleanStep(c) \/ CancelBegin(c) \/ Cancel(c)
      BY <1>1, <2>1, <3>3, OwnNumbers, OwnHolding DEF OInv, Calm
    <3> QED
      BY <1>5, <3>1, <3>2, <3>3, ExportsOnly DEF Next, Step
  <2> QED
    BY <1>1, <2>2, <2>3 DEF OInv, Calm, StaysEnded
<1> QED
  BY <1>4, <1>5

LEMMA CalmIsRight ==
  ASSUME TypeOK, Calm
  PROVE  OneInAWhile /\ ArchiveHasJson /\ CompleteMeansDone
<1>1. OneInAWhile
  <2>1. recent = {} \/ \E e \in recent : recent = {e}
    BY DEF Calm, AsksAlone
  <2>2. Cardinality(recent) \in {0, 1}
    BY <2>1, FS_EmptySet, FS_Singleton
  <2> QED
    BY <2>2 DEF OneInAWhile
<1>2. ArchiveHasJson
  BY DEF Calm, ArchiversHaveData, ArchiveHasJson
<1>3. CompleteMeansDone
  <2> SUFFICES ASSUME NEW c \in Cleanups, outcome[c] = "complete"
               PROVE  found[c] = {} /\ \A e \in Exports : work[c][e] \in {"none", "last", "over"}
    BY DEF CompleteMeansDone
  <2>1. AllCounted(c)
    BY DEF Calm, HeldByOne
  <2> QED
    BY <2>1 DEF AllCounted, Queued, Counted
<1> QED
  BY <1>1, <1>2, <1>3

\* Unless requests or tasks overlap as Overlapping says, whichever worker dies
\* and whatever fails: one export in a while (new_export_blocked_until), no
\* archive without its data (create_archive_task), and a cleanup that has ended
\* is done and stays what it has ended as (complete_job, after_return).
THEOREM OverlapsAlone == Spec => OnlyOverlapsErr
<1>1. OInv => (~overlapped => OneInAWhile /\ ArchiveHasJson /\ CompleteMeansDone)
  BY CalmIsRight DEF OInv, IInv
<1>2. OInv /\ [Next]_vars => OInv' /\ (~overlapped' => StaysEnded)
  BY NextOInv
<1> QED
  BY <1>1, <1>2, InitOInv, PTL DEF Spec, OnlyOverlapsErr

HIDE BoundAssumption

-----------------------------------------------------------------------------
(* The lock *)

\* Whoever is inside and punctual has the key, which is why nobody else gets it
\* and why releasing it without a look at it takes nobody else's away.
Holds(t) == Inbox!Inside(t) /\ t \notin late => lock = t
AreJobs  == DOMAIN job = Threads /\ \A t \in Threads : DOMAIN job[t] = DOMAIN Inbox!Idle
LockInv     == AreJobs /\ \A t \in Threads : Holds(t)

\* Everybody but t is where they were, and t, who is not inside, takes no key
\* of theirs away.
LEMMA Outside ==
  ASSUME NEW t \in Threads, NEW j, LockInv, DOMAIN j = DOMAIN Inbox!Idle,
         j.at \notin {"write", "release"}, job' = [job EXCEPT ![t] = j],
         late \ {t} \subseteq late',
         \A x \in Threads : x # t /\ lock = x /\ Holds(x) /\ Inbox!Inside(x) => lock' = x \/ x \in late
  PROVE  LockInv'
<1>1. AreJobs'
  BY DEF LockInv, AreJobs
<1>2. ASSUME NEW x \in Threads, Inbox!Inside(x)', x \notin late' PROVE lock' = x
  <2>1. x # t /\ job'[x] = job[x]
    BY <1>2 DEF LockInv, AreJobs, Inbox!Inside
  <2>2. Inbox!Inside(x) /\ x \notin late
    BY <1>2, <2>1 DEF Inbox!Inside
  <2> QED
    BY <2>1, <2>2 DEF LockInv, Holds
<1> QED
  BY <1>1, <1>2 DEF LockInv, Holds

\* Nobody gets inside, nobody becomes punctual and nobody punctual loses a key.
LEMMA Kept ==
  ASSUME LockInv, UNCHANGED job, late \subseteq late',
         \A x \in Threads : lock = x /\ x \notin late => lock' = x
  PROVE  LockInv'
BY DEF LockInv, AreJobs, Holds, Inbox!Inside

-----------------------------------------------------------------------------
\* A worker without an activity is not inside.
LEMMA IdleIsOutside == Inbox!Idle.at \notin {"write", "release"}
BY DEF Inbox!Idle

LEMMA LookLockInv ==
  ASSUME LockInv, NEW t \in Threads, NEW i, Inbox!Look(t, i)
  PROVE  LockInv'
<1> DEFINE a == inbox[i]
           Job(at, r) == [at |-> at, kind |-> a.kind, version |-> a.version, row |-> r,
                          copy |-> IF r = 0 THEN Inbox!NoRow ELSE rows_[r], again |-> a.again]
<1>1. lock' = lock /\ late' = late
  BY DEF Inbox!Look
<1>2. \A at, r : DOMAIN Job(at, r) = DOMAIN Inbox!Idle /\ Job(at, r).at = at
  BY DEF Inbox!Idle
<1>3. \/ UNCHANGED job
      \/ \E at \in {"wait", "delete"} : \E r : job' = [job EXCEPT ![t] = Job(at, r)]
  <2>1. CASE \E r \in Inbox!Found :
              job' = [job EXCEPT ![t] = Job(IF a.kind = "delete" THEN "delete" ELSE "wait", r)]
    BY <2>1
  <2>2. CASE job' = IF a.kind = "create" THEN [job EXCEPT ![t] = Job("wait", 0)] ELSE job
    BY <2>2
  <2> HIDE DEF Job
  <2> QED
    BY <2>1, <2>2 DEF Inbox!Look, Job
<1>4. CASE UNCHANGED job
  BY <1>1, <1>4, Kept
<1>5. ASSUME NEW at \in {"wait", "delete"}, NEW r, job' = [job EXCEPT ![t] = Job(at, r)]
      PROVE  LockInv'
  <2> DEFINE j == Job(at, r)
  <2>1. DOMAIN j = DOMAIN Inbox!Idle /\ j.at \notin {"write", "release"} /\ job' = [job EXCEPT ![t] = j]
    BY <1>2, <1>5
  <2> HIDE DEF j
  <2> QED
    BY <1>1, <2>1, Outside
<1> QED
  BY <1>3, <1>4, <1>5

LEMMA AcquireLockInv ==
  ASSUME LockInv, NEW t \in Threads, Inbox!Acquire(t)
  PROVE  LockInv'
<1>1. job' = [job EXCEPT ![t].at = "write"] /\ late' = late /\ lock = Inbox!Free /\ lock' = t
  BY DEF Inbox!Acquire
<1>2. AreJobs'
  BY <1>1 DEF LockInv, AreJobs
\* The key was there to be taken, so nobody else was inside in time.
<1>3. ASSUME NEW x \in Threads, x # t PROVE Holds(x)'
  BY <1>1, <1>3, NamesAssumption DEF LockInv, AreJobs, Holds, Inbox!Inside
<1> QED
  BY <1>1, <1>2, <1>3 DEF LockInv, Holds

LEMMA SaveLockInv ==
  ASSUME LockInv, NEW t \in Threads, Inbox!Save(t)
  PROVE  LockInv'
<1>1. /\ job' = [job EXCEPT ![t].at = "release"] /\ late' = late /\ lock' = lock
      /\ Inbox!Inside(t)
  BY DEF Inbox!Save, Inbox!Inside
<1>2. AreJobs'
  BY <1>1 DEF LockInv, AreJobs
<1>3. ASSUME NEW x \in Threads PROVE Inbox!Inside(x)' => Inbox!Inside(x)
  BY <1>1 DEF LockInv, AreJobs, Inbox!Inside
<1> QED
  BY <1>1, <1>2, <1>3 DEF LockInv, Holds

LEMMA ReleaseLockInv ==
  ASSUME LockInv, NEW t \in Threads, Inbox!Release(t)
  PROVE  LockInv'
<1>1. job' = [job EXCEPT ![t] = Inbox!Idle] /\ late \ {t} \subseteq late' /\ Inbox!Inside(t)
  BY DEF Inbox!Release, Inbox!Ends, Inbox!Inside
\* In time the key is t's own, and otherwise it is only left if it is t's own.
<1>2. ASSUME NEW x \in Threads, x # t, lock = x PROVE lock' = x
  BY <1>1, <1>2 DEF LockInv, Holds, Inbox!Release
<1> QED
  BY <1>1, <1>2, IdleIsOutside, Outside

LEMMA DieLockInv ==
  ASSUME LockInv, NEW t \in Threads, Inbox!Die(t)
  PROVE  LockInv'
<1>1. job' = [job EXCEPT ![t] = Inbox!Idle] /\ late \ {t} \subseteq late'
  BY DEF Inbox!Die, Inbox!Ends
<1>2. ASSUME NEW x \in Threads, x # t, lock = x PROVE lock' = x
  BY <1>2 DEF Inbox!Die
<1> QED
  BY <1>1, <1>2, IdleIsOutside, Outside

LEMMA EndsLockInv ==
  ASSUME LockInv, NEW t \in Threads, Inbox!GiveUp(t) \/ Inbox!Delete(t)
  PROVE  LockInv'
<1>1. job' = [job EXCEPT ![t] = Inbox!Idle] /\ late \ {t} \subseteq late' /\ lock' = lock
  BY DEF Inbox!GiveUp, Inbox!Delete, Inbox!Ends
<1> QED
  BY <1>1, IdleIsOutside, Outside

LEMMA ExpireLockInv ==
  ASSUME LockInv, Inbox!Expire
  PROVE  LockInv'
<1>1. UNCHANGED job /\ late' = late /\ (lock = Inbox!Left \/ lock \in late)
  BY DEF Inbox!Expire
<1> QED
  BY <1>1, Kept, NamesAssumption

\* What the author does, what the queue does and what the clock does takes
\* nobody's key.
LEMMA RestLockInv ==
  ASSUME LockInv,
         \/ \E n \in 1 .. MaxVersion : Inbox!AuthorWrites(n)
         \/ Inbox!AuthorDeletes \/ Inbox!Resend
         \/ \E i \in DOMAIN inbox : Inbox!Defer(i)
         \/ \E t \in Threads : Inbox!Deadline(t)
         \/ UNCHANGED Inbox!vars
  PROVE  LockInv'
<1>1. UNCHANGED job /\ lock' = lock /\ late \subseteq late'
  BY DEF Inbox!AuthorWrites, Inbox!AuthorDeletes, Inbox!Resend, Inbox!Defer, Inbox!Deadline, Inbox!vars
<1> QED
  BY <1>1, Kept

LEMMA NextLockInv == ASSUME LockInv, [Inbox!Next]_(Inbox!vars) PROVE LockInv'
<1>1. CASE \/ \E n \in 1 .. MaxVersion : Inbox!AuthorWrites(n)
           \/ Inbox!AuthorDeletes \/ Inbox!Resend
           \/ \E i \in DOMAIN inbox : Inbox!Defer(i)
           \/ \E t \in Threads : Inbox!Deadline(t)
           \/ UNCHANGED Inbox!vars
  BY <1>1, RestLockInv
<1>2. CASE Inbox!Expire
  BY <1>2, ExpireLockInv
<1>3. ASSUME NEW t \in Threads, NEW i, Inbox!Look(t, i) PROVE LockInv'
  BY <1>3, LookLockInv
<1>4. ASSUME NEW t \in Threads, Inbox!Acquire(t) PROVE LockInv'
  BY <1>4, AcquireLockInv
<1>5. ASSUME NEW t \in Threads, Inbox!Save(t) PROVE LockInv'
  BY <1>5, SaveLockInv
<1>6. ASSUME NEW t \in Threads, Inbox!Release(t) PROVE LockInv'
  BY <1>6, ReleaseLockInv
<1>7. ASSUME NEW t \in Threads, Inbox!GiveUp(t) \/ Inbox!Delete(t) PROVE LockInv'
  BY <1>7, EndsLockInv
<1>8. ASSUME NEW t \in Threads, Inbox!Die(t) PROVE LockInv'
  BY <1>8, DieLockInv
<1> QED
  BY <1>1, <1>2, <1>3, <1>4, <1>5, <1>6, <1>7, <1>8 DEF Inbox!Next, Inbox!Step, Inbox!Works


-----------------------------------------------------------------------------
(* What workers have found, and what there is of the status *)

InboxRow == [there : BOOLEAN, content : 0 .. MaxVersion, deleted : BOOLEAN]
JobsTyped ==
  job \in [Threads -> [at : {"idle", "wait", "write", "release", "delete"},
                       kind : {"none", "create", "update", "delete"},
                       version : 0 .. MaxVersion, row : 0 .. MaxRow,
                       copy : InboxRow, again : BOOLEAN]]

\* A worker is at an activity of some kind, and the row that it has found is
\* still there: nothing takes rows away.
JobsFit == \A t \in Threads : /\ job[t].row = 0 \/ job[t].row \in Inbox!Found
                              /\ job[t].at = "delete" => job[t].row # 0
                              /\ job[t].kind = "none" => job[t].at = "idle"

InboxInv == Inbox!TypeOK /\ JobsTyped /\ JobsFit

\* The parts of a step that types depend on: t's job ends, or goes on as j.
LEMMA InboxTypes ==
  ASSUME InboxInv, NEW t \in Threads,
         NEW j \in [at : {"idle", "wait", "write", "release", "delete"},
                    kind : {"none", "create", "update", "delete"},
                    version : 0 .. MaxVersion, row : 0 .. MaxRow,
                    copy : InboxRow, again : BOOLEAN],
         job' = [job EXCEPT ![t] = j], j.row = 0 \/ j.row \in Inbox!Found,
         j.at = "delete" => j.row # 0, j.kind = "none" => j.at = "idle",
         UNCHANGED <<origin, gone>>, inbox' \in Seq(Inbox!Activities),
         rows_' \in [Inbox!Rows -> InboxRow], disorder' \in BOOLEAN,
         \A r \in Inbox!Rows : ~rows_'[r].there => rows_'[r] = Inbox!NoRow /\ ~rows_[r].there,
         lock' \in {Inbox!Free, Inbox!Left} \/ lock' = lock \/ lock' = t,
         lock' = t => j.at \in {"write", "release"} \/ t \in {Inbox!Free, Inbox!Left},
         late' \subseteq late,
         t \in late' => j.at \in {"wait", "write", "release"}
  PROVE  InboxInv'
<1>1. /\ JobsTyped' /\ job'[t] = j /\ \A x \in Threads : x # t => job'[x] = job[x]
  BY DEF InboxInv, JobsTyped, InboxRow
<1>2. \A r \in Inbox!Rows : r \in Inbox!Found => r \in Inbox!Found'
  BY DEF InboxInv, Inbox!TypeOK, Inbox!Found, Inbox!Rows
<1>3. JobsFit'
  <2>1. Inbox!Found \subseteq Inbox!Rows
    BY DEF Inbox!Found
  <2> QED
    BY <1>1, <1>2, <2>1 DEF InboxInv, JobsFit
<1>4. \A r \in (Inbox!Rows \ Inbox!Found)' : rows_'[r] = Inbox!NoRow
  BY DEF Inbox!Found, Inbox!Rows
<1>5. lock' \in {Inbox!Free, Inbox!Left} \cup {x \in Threads : Inbox!Inside(x)'}
  <2>1. CASE lock' = t
    BY <1>1, <2>1 DEF Inbox!Inside
  <2>2. CASE lock' # t /\ lock' = lock
    BY <1>1, <2>2 DEF InboxInv, Inbox!TypeOK, Inbox!Inside
  <2> QED
    BY <2>1, <2>2
<1>6. late' \subseteq {x \in Threads : job'[x].at \in {"wait", "write", "release"}}
  BY <1>1 DEF InboxInv, Inbox!TypeOK
<1>7. Inbox!TypeOK'
  BY <1>4, <1>5, <1>6 DEF InboxInv, Inbox!TypeOK, InboxRow, Inbox!Rows, Inbox!Activities,
                          Inbox!Free, Inbox!Left
<1> QED
  BY <1>1, <1>3, <1>7 DEF InboxInv

\* Steps in which nobody's job changes.
LEMMA InboxTypesAtRest ==
  ASSUME InboxInv, UNCHANGED <<job, rows_>>, origin' \in 0 .. MaxVersion, gone' \in BOOLEAN,
         inbox' \in Seq(Inbox!Activities), disorder' \in BOOLEAN,
         lock' \in {lock, Inbox!Free},
         late' \subseteq {t \in Threads : job[t].at \in {"wait", "write", "release"}}
  PROVE  InboxInv'
<1>1. JobsTyped' /\ JobsFit'
  BY DEF InboxInv, JobsTyped, InboxRow, JobsFit, Inbox!Found, Inbox!Rows
<1>2. Inbox!TypeOK'
  BY DEF InboxInv, Inbox!TypeOK, Inbox!Found, Inbox!Rows, Inbox!Activities, Inbox!Inside,
         Inbox!Free, Inbox!Left
<1> QED
  BY <1>1, <1>2 DEF InboxInv

LEMMA Taken ==
  ASSUME NEW S, NEW q \in Seq(S), NEW i \in DOMAIN q
  PROVE  Inbox!RemoveAt(q, i) \in Seq(S) /\ q[i] \in S
<1>1. i \in 1 .. Len(q) /\ q[i] \in S
  OBVIOUS
<1>2. SubSeq(q, 1, i - 1) \in Seq(S) /\ SubSeq(q, i + 1, Len(q)) \in Seq(S)
  BY <1>1
<1> QED
  BY <1>1, <1>2 DEF Inbox!RemoveAt

LEMMA NextInboxInv == InboxInv /\ [Inbox!Next]_(Inbox!vars) => InboxInv'
<1> SUFFICES ASSUME InboxInv, [Inbox!Next]_(Inbox!vars) PROVE InboxInv'
  OBVIOUS
<1> DEFINE At == {"idle", "wait", "write", "release", "delete"}
           J  == [at : At, kind : {"none", "create", "update", "delete"},
                  version : 0 .. MaxVersion, row : 0 .. MaxRow,
                  copy : InboxRow, again : BOOLEAN]
<1> USE InboxAssumption
<1>1. /\ origin \in 0 .. MaxVersion /\ gone \in BOOLEAN /\ inbox \in Seq(Inbox!Activities)
      /\ rows_ \in [Inbox!Rows -> InboxRow] /\ disorder \in BOOLEAN
      /\ \A r \in Inbox!Rows \ Inbox!Found : rows_[r] = Inbox!NoRow
      /\ lock \in {Inbox!Free, Inbox!Left} \cup {t \in Threads : Inbox!Inside(t)}
      /\ late \subseteq {t \in Threads : job[t].at \in {"wait", "write", "release"}}
  BY DEF InboxInv, Inbox!TypeOK, InboxRow
<1>2. /\ job \in [Threads -> J]
      /\ \A t \in Threads : /\ job[t].row = 0 \/ job[t].row \in Inbox!Found
                            /\ job[t].at = "delete" => job[t].row # 0
                            /\ job[t].kind = "none" => job[t].at = "idle"
  BY DEF InboxInv, JobsTyped, JobsFit
<1>3. MaxVersion \in Nat /\ MaxRow \in Nat /\ Inbox!NoRow \in InboxRow /\ Inbox!Idle \in J
  BY DEF Inbox!NoRow, InboxRow, Inbox!Idle, Inbox!Nothing
<1>4. \A r \in Inbox!Rows : ~rows_[r].there => rows_[r] = Inbox!NoRow
  BY <1>1 DEF Inbox!Found
<1>5. ASSUME Inbox!Next PROVE disorder' \in BOOLEAN
  BY <1>1, <1>5 DEF Inbox!Next, Inbox!Recorded
\* The author, the queue and time.
<1>6. \A v \in 0 .. MaxVersion : \A k \in {"create", "update", "delete"} : \A b \in BOOLEAN :
        [kind |-> k, version |-> v, again |-> b] \in Inbox!Activities
  BY DEF Inbox!Activities
<1>7. ASSUME Inbox!Next,
             \/ \E n \in 1 .. MaxVersion : Inbox!AuthorWrites(n)
             \/ Inbox!AuthorDeletes \/ Inbox!Resend \/ Inbox!Expire
             \/ \E i \in DOMAIN inbox : Inbox!Defer(i)
             \/ \E t \in Threads : Inbox!Deadline(t)
      PROVE  InboxInv'
  <2>1. /\ UNCHANGED <<job, rows_>> /\ lock' \in {lock, Inbox!Free}
        /\ origin' = origin \/ origin' \in 1 .. MaxVersion
        /\ gone' = gone \/ gone' = TRUE
    BY <1>7 DEF Inbox!AuthorWrites, Inbox!AuthorDeletes, Inbox!Resend, Inbox!Expire,
                Inbox!Defer, Inbox!Deadline
  <2>4. origin' \in 0 .. MaxVersion /\ gone' \in BOOLEAN
    <3>1. origin' \in 0 .. MaxVersion
      BY <1>1, <1>3, <2>1
    <3>2. gone' \in BOOLEAN
      BY <1>1, <2>1, Zenon
    <3> QED
      BY <3>1, <3>2
  <2>2. late' \subseteq {t \in Threads : job[t].at \in {"wait", "write", "release"}}
    BY <1>1, <1>7 DEF Inbox!AuthorWrites, Inbox!AuthorDeletes, Inbox!Resend, Inbox!Expire,
                      Inbox!Defer, Inbox!Deadline
  <2>3. inbox' \in Seq(Inbox!Activities)
    <3>1. CASE \E i \in DOMAIN inbox : Inbox!Defer(i)
      <4>1. PICK i \in DOMAIN inbox : Inbox!Defer(i)
        BY <3>1
      <4>2. Inbox!RemoveAt(inbox, i) \in Seq(Inbox!Activities) /\ inbox[i] \in Inbox!Activities
        BY <1>1, Taken
      <4>3. [inbox[i] EXCEPT !.again = TRUE] \in Inbox!Activities
        BY <4>2 DEF Inbox!Activities
      <4> QED
        BY <4>1, <4>2, <4>3 DEF Inbox!Defer
    <3>2. CASE \E n \in 1 .. MaxVersion : Inbox!AuthorWrites(n)
      <4>1. PICK n \in 1 .. MaxVersion : Inbox!AuthorWrites(n)
        BY <3>2
      <4>2. n \in 0 .. MaxVersion /\ (IF n = 1 THEN "create" ELSE "update") \in {"create", "update", "delete"}
        BY <1>3
      <4>3. [kind |-> IF n = 1 THEN "create" ELSE "update", version |-> n, again |-> FALSE]
            \in Inbox!Activities
        BY <1>6, <4>2
      <4> QED
        BY <1>1, <4>1, <4>3 DEF Inbox!AuthorWrites, Inbox!Send
    <3>3. CASE Inbox!AuthorDeletes
      <4>1. [kind |-> "delete", version |-> 0, again |-> FALSE] \in Inbox!Activities
        <5>1. 0 \in 0 .. MaxVersion
          BY <1>3
        <5> QED
          BY <1>6, <5>1
      <4> QED
        BY <1>1, <3>3, <4>1 DEF Inbox!AuthorDeletes, Inbox!Send
    <3>4. CASE Inbox!Resend
      <4>1. PICK v \in 0 .. MaxVersion, k \in {"create", "update", "delete"} : Inbox!Send(k, v)
        <5>1. origin # 0
          BY <3>4 DEF Inbox!Resend
        <5>2. 0 \in 0 .. MaxVersion /\ 1 \in 0 .. MaxVersion /\ 2 .. origin \subseteq 0 .. MaxVersion
          BY <1>1, <1>3, <5>1
        <5>3. Inbox!Send("create", 1) \/ (\E n \in 2 .. origin : Inbox!Send("update", n))
              \/ Inbox!Send("delete", 0)
          BY <3>4 DEF Inbox!Resend
        <5> QED
          BY <5>2, <5>3
      <4>2. [kind |-> k, version |-> v, again |-> FALSE] \in Inbox!Activities
        BY <1>6
      <4> QED
        BY <1>1, <4>1, <4>2 DEF Inbox!Send
    <3>5. CASE Inbox!Expire \/ \E t \in Threads : Inbox!Deadline(t)
      BY <1>1, <3>5 DEF Inbox!Expire, Inbox!Deadline
    <3> QED
      BY <1>7, <3>1, <3>2, <3>3, <3>4, <3>5
  <2> QED
    BY <1>5, <1>7, <2>1, <2>2, <2>3, <2>4, InboxTypesAtRest
\* A worker begins, or has nothing to do.
<1>8. ASSUME Inbox!Next, NEW t \in Threads, NEW i \in DOMAIN inbox, Inbox!Look(t, i)
      PROVE  InboxInv'
  <2> DEFINE a == inbox[i]
             Job(at, r) == [at |-> at, kind |-> a.kind, version |-> a.version, row |-> r,
                            copy |-> IF r = 0 THEN Inbox!NoRow ELSE rows_[r], again |-> a.again]
  <2>1. /\ Inbox!RemoveAt(inbox, i) \in Seq(Inbox!Activities)
        /\ a.kind \in {"create", "update", "delete"} /\ a.version \in 0 .. MaxVersion
        /\ a.again \in BOOLEAN
    <3>1. Inbox!RemoveAt(inbox, i) \in Seq(Inbox!Activities) /\ a \in Inbox!Activities
      BY <1>1, Taken
    <3> QED
      BY <3>1 DEF Inbox!Activities
  <2>2. /\ inbox' = Inbox!RemoveAt(inbox, i) /\ UNCHANGED <<origin, gone, rows_, lock, late>>
        /\ job[t] = Inbox!Idle
    BY <1>8 DEF Inbox!Look
  <2>3. \/ UNCHANGED job
        \/ \E at \in {"wait", "delete"} : \E r \in Inbox!Found : job' = [job EXCEPT ![t] = Job(at, r)]
        \/ job' = [job EXCEPT ![t] = Job("wait", 0)]
    <3>1. CASE \E r \in Inbox!Found :
                job' = [job EXCEPT ![t] = Job(IF a.kind = "delete" THEN "delete" ELSE "wait", r)]
      BY <3>1
    <3>2. CASE job' = IF a.kind = "create" THEN [job EXCEPT ![t] = Job("wait", 0)] ELSE job
      BY <3>2
    <3> HIDE DEF Job
    <3> QED
      BY <1>8, <3>1, <3>2 DEF Inbox!Look, Job
  <2>4. (t \notin late /\ lock # t) \/ t \in {Inbox!Free, Inbox!Left}
    BY <1>1, <2>2 DEF Inbox!Idle, Inbox!Inside
  <2>5. t \notin late
    BY <1>1, <2>2 DEF Inbox!Idle
  <2>6. ASSUME NEW at \in {"wait", "delete"}, NEW r \in Inbox!Found \cup {0},
               at = "delete" => r # 0, job' = [job EXCEPT ![t] = Job(at, r)]
        PROVE  InboxInv'
    <3>1. r \in 0 .. MaxRow /\ (r # 0 => rows_[r] \in InboxRow)
      BY <1>1, <1>3, <2>6 DEF Inbox!Found, Inbox!Rows
    <3>2. /\ Job(at, r) \in J /\ Job(at, r).at = at /\ Job(at, r).row = r
          /\ Job(at, r).kind # "none"
      BY <1>3, <2>1, <3>1
    <3> DEFINE j == Job(at, r)
    <3>3. /\ j \in J /\ job' = [job EXCEPT ![t] = j] /\ (j.row = 0 \/ j.row \in Inbox!Found)
          /\ j.at = "delete" => j.row # 0
          /\ j.kind # "none"
      BY <2>6, <3>2
    <3> HIDE DEF j
    <3>4. lock' = t => t \in {Inbox!Free, Inbox!Left}
      BY <2>2, <2>4
    <3> QED
      BY <1>1, <1>4, <1>5, <1>8, <2>1, <2>2, <2>5, <3>3, <3>4, InboxTypes
  <2>7. CASE UNCHANGED job
    BY <1>1, <1>5, <1>8, <2>1, <2>2, <2>7, InboxTypesAtRest
  <2>8. CASE \E at \in {"wait", "delete"} : \E r \in Inbox!Found : job' = [job EXCEPT ![t] = Job(at, r)]
    <3>1. PICK at \in {"wait", "delete"}, r \in Inbox!Found : job' = [job EXCEPT ![t] = Job(at, r)]
      BY <2>8
    <3>2. r # 0
      BY DEF Inbox!Found, Inbox!Rows
    <3> QED
      BY <2>6, <3>1, <3>2
  <2>9. CASE job' = [job EXCEPT ![t] = Job("wait", 0)]
    BY <2>6, <2>9
  <2> QED
    BY <2>3, <2>7, <2>8, <2>9
\* A worker goes on, with or without writing a row.
<1>9. ASSUME Inbox!Next, NEW t \in Threads, Inbox!Acquire(t) \/ Inbox!Save(t)
      PROVE  InboxInv'
  <2>1. PICK at \in {"write", "release"} :
          /\ job' = [job EXCEPT ![t].at = at] /\ UNCHANGED <<origin, gone, inbox, late>>
          /\ lock' \in {lock, t} /\ job[t].at \in {"wait", "write"}
    BY <1>9 DEF Inbox!Acquire, Inbox!Save
  <2> DEFINE j == [job[t] EXCEPT !.at = at]
  <2>2. /\ j \in J /\ job' = [job EXCEPT ![t] = j] /\ j.at = at /\ j.row = job[t].row
        /\ (j.row = 0 \/ j.row \in Inbox!Found) /\ j.kind # "none"
    BY <1>2, <2>1
  <2>3. /\ rows_' \in [Inbox!Rows -> InboxRow]
        /\ \A r \in Inbox!Rows : ~rows_'[r].there => rows_'[r] = Inbox!NoRow /\ ~rows_[r].there
    <3>1. CASE UNCHANGED rows_
      BY <1>1, <1>4, <3>1
    <3>2. CASE Inbox!Save(t) /\ job[t].row = 0
      <4>1. PICK r \in Inbox!Rows :
              rows_' = [rows_ EXCEPT ![r] = [there |-> TRUE, content |-> job[t].version, deleted |-> FALSE]]
        BY <3>2 DEF Inbox!Save
      <4>2. [there |-> TRUE, content |-> job[t].version, deleted |-> FALSE] \in InboxRow
        BY <1>2 DEF InboxRow
      <4> QED
        BY <1>1, <1>4, <4>1, <4>2
    <3>3. CASE /\ job[t].row # 0
               /\ rows_' = [rows_ EXCEPT ![job[t].row].content = job[t].version]
      <4>1. job[t].row \in Inbox!Rows /\ rows_[job[t].row].there /\ job[t].version \in 0 .. MaxVersion
        BY <1>2, <3>3 DEF Inbox!Found
      <4>2. [rows_[job[t].row] EXCEPT !.content = job[t].version] \in InboxRow
        BY <1>1, <4>1 DEF InboxRow
      <4> QED
        BY <1>1, <1>4, <3>3, <4>1, <4>2 DEF InboxRow
    <3> QED
      BY <1>9, <3>1, <3>2, <3>3 DEF Inbox!Acquire, Inbox!Save
  <2> HIDE DEF j
  <2>4. late' \subseteq late /\ j.at # "delete" /\ j.at \in {"wait", "write", "release"}
    BY <2>1, <2>2
  <2> QED
    BY <1>1, <1>5, <1>9, <2>1, <2>2, <2>3, <2>4, InboxTypes
\* A worker is through, or dies.
<1>10. ASSUME Inbox!Next, NEW t \in Threads,
              Inbox!GiveUp(t) \/ Inbox!Release(t) \/ Inbox!Delete(t) \/ Inbox!Die(t)
       PROVE  InboxInv'
  <2>1. /\ job' = [job EXCEPT ![t] = Inbox!Idle] /\ late' = late \ {t}
        /\ UNCHANGED <<origin, gone>>
    BY <1>10 DEF Inbox!GiveUp, Inbox!Release, Inbox!Delete, Inbox!Die, Inbox!Ends
  <2>2. lock' \in {lock, Inbox!Free, Inbox!Left}
    BY <1>10 DEF Inbox!GiveUp, Inbox!Release, Inbox!Delete, Inbox!Die
  <2>3. lock' = t => t \in {Inbox!Free, Inbox!Left}
    <3>1. CASE Inbox!GiveUp(t) \/ Inbox!Delete(t)
      BY <1>1, <3>1 DEF Inbox!GiveUp, Inbox!Delete, Inbox!Inside
    <3>2. CASE Inbox!Release(t) /\ t \notin late
      BY <3>2 DEF Inbox!Release
    <3>3. CASE Inbox!Release(t) /\ t \in late
      BY <3>3 DEF Inbox!Release
    <3>4. CASE Inbox!Die(t)
      BY <3>4 DEF Inbox!Die
    <3> QED
      BY <1>10, <3>1, <3>2, <3>3, <3>4
  <2>4. inbox' \in Seq(Inbox!Activities)
    <3>1. CASE Inbox!GiveUp(t) /\ ~job[t].again
      <4>1. job[t].at = "wait"
        BY <3>1 DEF Inbox!GiveUp
      <4>2. job[t].kind \in {"create", "update", "delete"} /\ job[t].version \in 0 .. MaxVersion
        BY <1>2, <4>1
      <4>3. [kind |-> job[t].kind, version |-> job[t].version, again |-> TRUE] \in Inbox!Activities
        BY <1>6, <4>2
      <4>4. inbox' = Append(inbox, [kind |-> job[t].kind, version |-> job[t].version, again |-> TRUE])
        BY <3>1 DEF Inbox!GiveUp
      <4> QED
        BY <1>1, <4>3, <4>4
    <3>2. CASE UNCHANGED inbox
      BY <1>1, <3>2
    <3> QED
      BY <1>10, <3>1, <3>2 DEF Inbox!GiveUp, Inbox!Release, Inbox!Delete, Inbox!Die
  <2>5. /\ rows_' \in [Inbox!Rows -> InboxRow]
        /\ \A r \in Inbox!Rows : ~rows_'[r].there => rows_'[r] = Inbox!NoRow /\ ~rows_[r].there
    <3>1. CASE UNCHANGED rows_
      BY <1>1, <1>4, <3>1
    <3>2. CASE Inbox!Delete(t)
      <4>1. [there |-> TRUE, content |-> Inbox!Nothing, deleted |-> TRUE] \in InboxRow
        BY <1>3 DEF InboxRow, Inbox!Nothing
      <4> QED
        BY <1>1, <1>4, <3>2, <4>1 DEF Inbox!Delete
    <3> QED
      BY <1>10, <3>1, <3>2 DEF Inbox!GiveUp, Inbox!Release, Inbox!Die
  <2>6. Inbox!Idle.row = 0 /\ Inbox!Idle.at = "idle" /\ t \notin late'
    BY <2>1 DEF Inbox!Idle
  <2> QED
    BY <1>1, <1>3, <1>5, <1>10, <2>1, <2>2, <2>3, <2>4, <2>5, <2>6, InboxTypes
<1>11. CASE Inbox!Next
  BY <1>7, <1>8, <1>9, <1>10, <1>11 DEF Inbox!Next, Inbox!Step, Inbox!Works
<1>12. CASE UNCHANGED Inbox!vars
  BY <1>1, <1>12, InboxTypesAtRest DEF Inbox!vars
<1> QED
  BY <1>11, <1>12

LEMMA InitInboxInv == Inbox!Init => InboxInv
<1> SUFFICES ASSUME Inbox!Init PROVE InboxInv
  OBVIOUS
<1> USE InboxAssumption DEF Inbox!Init
<1>1. Inbox!NoRow \in InboxRow /\ MaxVersion \in Nat /\ MaxRow \in Nat /\ Inbox!NoRow.there = FALSE
  BY DEF Inbox!NoRow, InboxRow, Inbox!Nothing
<1>2. JobsTyped
  BY <1>1 DEF JobsTyped, Inbox!Idle
<1>3. JobsFit
  BY DEF JobsFit, Inbox!Idle
<1>4. Inbox!TypeOK
  <2>1. inbox \in Seq(Inbox!Activities) /\ rows_ \in [Inbox!Rows -> InboxRow]
    BY <1>1
  <2>2. /\ origin = 0 /\ gone = FALSE /\ disorder = FALSE /\ late = {} /\ lock = Inbox!Free
        /\ \A r \in Inbox!Rows : rows_[r] = Inbox!NoRow
    BY <1>1
  <2>3. /\ origin \in 0 .. MaxVersion /\ gone \in BOOLEAN /\ disorder \in BOOLEAN
        /\ late \subseteq {t \in Threads : job[t].at \in {"wait", "write", "release"}}
        /\ lock \in {Inbox!Free, Inbox!Left} \cup {t \in Threads : Inbox!Inside(t)}
    <3> HIDE DEF Inbox!Init
    <3>1. 0 \in 0 .. MaxVersion
      BY <1>1
    <3> QED
      BY <2>2, <3>1
  <2> HIDE DEF Inbox!Init
  <2> QED
    BY <2>1, <2>2, <2>3 DEF Inbox!TypeOK, InboxRow
<1> QED
  BY <1>2, <1>3, <1>4 DEF InboxInv

-----------------------------------------------------------------------------
(* What was not put in disorder is done as the author did it *)

Again == \E i \in DOMAIN inbox : inbox[i].again

\* The activities q are those after version n, in turn.
Rest(q, n) ==
  /\ n \in 0 .. origin
  /\ Len(q) = origin - n + (IF gone THEN 1 ELSE 0)
  /\ \A i \in DOMAIN q :
       q[i] = IF n + i <= origin
              THEN [kind |-> IF n + i = 1 THEN "create" ELSE "update",
                    version |-> n + i, again |-> FALSE]
              ELSE [kind |-> "delete", version |-> 0, again |-> FALSE]

\* There is one row, and it says this; or none, before the first version.
OneRow(content, deleted) ==
  \E r \in Inbox!Rows : /\ Inbox!Found = {r}
                        /\ rows_[r].content = content /\ rows_[r].deleted = deleted
AsOf(n) == IF n = 0 THEN Inbox!Found = {} ELSE OneRow(n, FALSE)

\* Job j makes version n of what is there.
Makes(j, n) ==
  /\ n # 0 /\ j.version = n /\ j.kind # "delete"
  /\ \/ j.at = "release" /\ AsOf(n)
     \/ /\ j.at \in {"wait", "write"} /\ AsOf(n - 1)
        /\ n = 1 => j.row = 0
        /\ n # 1 => Inbox!Found = {j.row} /\ j.copy.content = n - 1
Deletes(j) == j.at = "delete" /\ AsOf(origin) /\ Inbox!Found = {j.row}

\* Nobody but t is at an activity.
Alone(t)  == \A x \in Threads \ {t} : job[x] = Inbox!Idle
NobodyIsAtWork == \A t \in Threads : job[t] = Inbox!Idle

InTurn ==
  \/ \E n \in 0 .. origin :
       /\ Rest(inbox, n)
       /\ \/ NobodyIsAtWork /\ AsOf(n)
          \/ \E t \in Threads : Alone(t) /\ Makes(job[t], n)
  \/ /\ gone /\ inbox = <<>>
     /\ \/ NobodyIsAtWork /\ OneRow(Inbox!Nothing, TRUE)
        \/ \E t \in Threads : Alone(t) /\ Deletes(job[t])

\* An activity that is put off is one that is there again, until the next step.
OrderInv ==
  /\ InboxInv /\ resent \in Nat /\ died \in Nat
  /\ gone => origin # 0
  /\ ~disorder => late = {} /\ Inbox!TombstonesAreEmpty /\ (Again \/ InTurn)

LEMMA InitOrderInv == Inbox!Init => OrderInv
<1> SUFFICES ASSUME Inbox!Init PROVE OrderInv
  OBVIOUS
<1>1. InboxInv
  BY InitInboxInv
<1>2. Rest(inbox, 0)
  BY DEF Inbox!Init, Rest
<1>3. NobodyIsAtWork /\ AsOf(0)
  BY DEF Inbox!Init, NobodyIsAtWork, AsOf, Inbox!Found, Inbox!NoRow
<1>4. InTurn
  <2>1. 0 \in 0 .. origin
    BY DEF Inbox!Init
  <2> QED
    BY <1>2, <1>3, <2>1 DEF InTurn
<1>5. Inbox!TombstonesAreEmpty
  BY DEF Inbox!Init, Inbox!TombstonesAreEmpty, Inbox!NoRow
<1> QED
  BY <1>1, <1>4, <1>5 DEF OrderInv, Inbox!Init

\* In turn a tombstone is empty, and who is at work is not idle.
LEMMA InTurnIsEmpty == InboxInv /\ InTurn => Inbox!TombstonesAreEmpty
<1> SUFFICES ASSUME InboxInv, InTurn PROVE Inbox!TombstonesAreEmpty
  OBVIOUS
<1>1. ASSUME NEW n \in 0 .. origin, AsOf(n) PROVE Inbox!TombstonesAreEmpty
  BY <1>1 DEF AsOf, OneRow, Inbox!TombstonesAreEmpty, Inbox!Found, InboxInv, Inbox!TypeOK, Inbox!NoRow
<1>2. ASSUME OneRow(Inbox!Nothing, TRUE) PROVE Inbox!TombstonesAreEmpty
  BY <1>2 DEF OneRow, Inbox!TombstonesAreEmpty, Inbox!Found, InboxInv, Inbox!TypeOK, Inbox!NoRow
<1>3. origin \in Nat
  BY InboxAssumption DEF InboxInv, Inbox!TypeOK
<1>4. ASSUME NEW n \in 0 .. origin, NEW j, Makes(j, n) PROVE \E k \in 0 .. origin : AsOf(k)
  <2>1. n - 1 \in 0 .. origin
    BY <1>3, <1>4 DEF Makes
  <2> QED
    BY <1>4, <2>1 DEF Makes
<1>5. origin \in 0 .. origin
  BY <1>3
<1> QED
  BY <1>1, <1>2, <1>4, <1>5 DEF InTurn, Deletes

\* Rows and jobs are as they were.
LEMMA AsOfElsewhere ==
  ASSUME UNCHANGED rows_
  PROVE  /\ Inbox!Found' = Inbox!Found /\ \A n : AsOf(n)' <=> AsOf(n)
         /\ \A c, d : OneRow(c, d)' <=> OneRow(c, d)
         /\ \A j, n : Makes(j, n)' <=> Makes(j, n)
BY DEF Inbox!Found, AsOf, OneRow, Makes, Inbox!Rows

LEMMA AddedLast ==
  ASSUME NEW q \in Seq(Inbox!Activities), NEW a \in Inbox!Activities
  PROVE  /\ Len(Append(q, a)) = Len(q) + 1 /\ DOMAIN Append(q, a) = 1 .. Len(q) + 1
         /\ \A i \in 1 .. Len(q) : Append(q, a)[i] = q[i]
         /\ Append(q, a)[Len(q) + 1] = a /\ Len(q) \in Nat
OBVIOUS

LEMMA WriteInTurn ==
  ASSUME OrderInv, InTurn, NEW v \in 1 .. MaxVersion, Inbox!AuthorWrites(v)
  PROVE  InTurn'
<1>1. /\ ~gone /\ v = origin + 1 /\ origin' = v /\ UNCHANGED <<gone, rows_, job>>
      /\ inbox' = Append(inbox, [kind |-> IF v = 1 THEN "create" ELSE "update",
                                 version |-> v, again |-> FALSE])
  BY DEF Inbox!AuthorWrites, Inbox!Send
<1>2. PICK n \in 0 .. origin :
        /\ Rest(inbox, n)
        /\ \/ NobodyIsAtWork /\ AsOf(n)
           \/ \E t \in Threads : Alone(t) /\ Makes(job[t], n)
  BY <1>1 DEF InTurn
<1>3. PICK a : a = [kind |-> IF v = 1 THEN "create" ELSE "update", version |-> v, again |-> FALSE]
  OBVIOUS
<1>4. /\ origin \in Nat /\ inbox \in Seq(Inbox!Activities) /\ MaxVersion \in Nat
      /\ a \in Inbox!Activities
  BY <1>3, InboxAssumption DEF OrderInv, InboxInv, Inbox!TypeOK, Inbox!Activities
<1>5. PICK q : q = inbox'
  OBVIOUS
<1>6. /\ Len(q) = Len(inbox) + 1 /\ DOMAIN q = 1 .. Len(inbox) + 1
      /\ \A i \in 1 .. Len(inbox) : q[i] = inbox[i]
      /\ q[Len(inbox) + 1] = a /\ Len(inbox) \in Nat
  BY <1>1, <1>3, <1>4, <1>5, AddedLast
<1>7. Len(inbox) = origin - n /\ DOMAIN inbox = 1 .. Len(inbox)
  BY <1>1, <1>2, <1>4 DEF Rest
<1>8. Rest(q, n)'
  <2>1. ASSUME NEW i \in 1 .. Len(inbox) + 1
        PROVE  q[i] = [kind |-> IF n + i = 1 THEN "create" ELSE "update",
                       version |-> n + i, again |-> FALSE] /\ n + i <= v
    <3>1. CASE i = Len(inbox) + 1
      <4>1. n + i = v
        BY <1>1, <1>4, <1>7, <3>1
      <4>2. q[i] = a
        BY <1>6, <3>1
      <4>3. a = [kind |-> IF n + i = 1 THEN "create" ELSE "update",
                 version |-> n + i, again |-> FALSE]
        BY <1>3, <4>1, Zenon
      <4>4. n + i <= v
        BY <1>4, <4>1
      <4> QED
        BY <4>2, <4>3, <4>4
    <3>2. CASE i # Len(inbox) + 1
      <4>1. i \in 1 .. Len(inbox) /\ n + i <= origin
        BY <1>4, <1>6, <1>7, <3>2
      <4>2. inbox[i] = [kind |-> IF n + i = 1 THEN "create" ELSE "update",
                        version |-> n + i, again |-> FALSE]
        BY <1>2, <1>7, <4>1 DEF Rest
      <4> QED
        BY <1>1, <1>4, <1>6, <4>1, <4>2
    <3> QED
      BY <3>1, <3>2
  <2>2. n \in 0 .. v /\ Len(q) = v - n
    BY <1>1, <1>4, <1>6, <1>7
  <2> QED
    BY <1>1, <1>6, <2>1, <2>2 DEF Rest
<1>9. Rest(inbox, n)'
  BY <1>5, <1>8 DEF Rest
<1>10. n \in 0 .. origin'
  BY <1>1, <1>4
<1>11. \/ NobodyIsAtWork' /\ AsOf(n)'
       \/ \E t \in Threads : Alone(t)' /\ Makes(job[t], n)'
  <2>1. CASE NobodyIsAtWork /\ AsOf(n)
    BY <1>1, <2>1, AsOfElsewhere DEF NobodyIsAtWork
  <2>2. CASE \E t \in Threads : Alone(t) /\ Makes(job[t], n)
    <3>1. PICK t \in Threads : Alone(t) /\ Makes(job[t], n)
      BY <2>2
    <3>2. Alone(t)' /\ Makes(job[t], n)'
      BY <1>1, <3>1, AsOfElsewhere DEF Alone, Makes, Inbox!Found, AsOf, OneRow, Inbox!Rows
    <3> QED
      BY <3>2
  <2> QED
    BY <1>2, <2>1, <2>2
<1> QED
  BY <1>9, <1>10, <1>11 DEF InTurn

LEMMA DeleteSentInTurn ==
  ASSUME OrderInv, InTurn, Inbox!AuthorDeletes
  PROVE  InTurn'
<1>1. /\ ~gone /\ gone' = TRUE /\ origin # 0 /\ UNCHANGED <<origin, rows_, job>>
      /\ inbox' = Append(inbox, [kind |-> "delete", version |-> 0, again |-> FALSE])
  BY DEF Inbox!AuthorDeletes, Inbox!Send
<1>2. PICK n \in 0 .. origin :
        /\ Rest(inbox, n)
        /\ \/ NobodyIsAtWork /\ AsOf(n)
           \/ \E t \in Threads : Alone(t) /\ Makes(job[t], n)
  BY <1>1 DEF InTurn
<1>3. PICK a : a = [kind |-> "delete", version |-> 0, again |-> FALSE]
  OBVIOUS
<1>4. origin \in Nat /\ inbox \in Seq(Inbox!Activities) /\ a \in Inbox!Activities
  BY <1>3, InboxAssumption DEF OrderInv, InboxInv, Inbox!TypeOK, Inbox!Activities
<1>5. PICK q : q = inbox'
  OBVIOUS
<1>6. /\ Len(q) = Len(inbox) + 1 /\ DOMAIN q = 1 .. Len(inbox) + 1
      /\ \A i \in 1 .. Len(inbox) : q[i] = inbox[i]
      /\ q[Len(inbox) + 1] = a /\ Len(inbox) \in Nat
  BY <1>1, <1>3, <1>4, <1>5, AddedLast
<1>7. Len(inbox) = origin - n /\ DOMAIN inbox = 1 .. Len(inbox)
  BY <1>1, <1>2, <1>4 DEF Rest
<1>8. Rest(q, n)'
  <2>1. ASSUME NEW i \in 1 .. Len(inbox) + 1
        PROVE  q[i] = IF n + i <= origin
                      THEN [kind |-> IF n + i = 1 THEN "create" ELSE "update",
                            version |-> n + i, again |-> FALSE]
                      ELSE [kind |-> "delete", version |-> 0, again |-> FALSE]
    <3>1. CASE i = Len(inbox) + 1
      <4>1. ~(n + i <= origin)
        BY <1>4, <1>7, <3>1
      <4> QED
        BY <1>3, <1>6, <3>1, <4>1
    <3>2. CASE i # Len(inbox) + 1
      <4>1. i \in 1 .. Len(inbox) /\ i \in DOMAIN inbox
        BY <1>6, <1>7, <3>2
      <4>2. q[i] = inbox[i]
        BY <1>6, <4>1
      <4> QED
        BY <1>2, <4>1, <4>2 DEF Rest
    <3> QED
      BY <3>1, <3>2
  <2>2. n \in 0 .. origin' /\ Len(q) = origin' - n + 1
    BY <1>1, <1>4, <1>6, <1>7
  <2> QED
    BY <1>1, <1>6, <2>1, <2>2 DEF Rest
<1>9. Rest(inbox, n)'
  BY <1>5, <1>8 DEF Rest
<1>10. n \in 0 .. origin'
  BY <1>1
<1>11. \/ NobodyIsAtWork' /\ AsOf(n)'
       \/ \E t \in Threads : Alone(t)' /\ Makes(job[t], n)'
  BY <1>1, <1>2 DEF NobodyIsAtWork, Alone, Makes, AsOf, OneRow, Inbox!Found, Inbox!Rows
<1> QED
  BY <1>9, <1>10, <1>11 DEF InTurn

\* The first activity of a queue is taken off it.
LEMMA HeadTaken ==
  ASSUME NEW S, NEW q \in Seq(S), 1 \in DOMAIN q
  PROVE  /\ Inbox!RemoveAt(q, 1) \in Seq(S) /\ Len(Inbox!RemoveAt(q, 1)) = Len(q) - 1
         /\ \A i \in 1 .. Len(q) - 1 : Inbox!RemoveAt(q, 1)[i] = q[i + 1]
<1>1. Inbox!RemoveAt(q, 1) \in Seq(S)
  BY Taken
<1>2. Len(q) \in Nat /\ Len(q) >= 1
  OBVIOUS
<1>3. SubSeq(q, 1, 0) = <<>>
  OBVIOUS
<1>4. SubSeq(q, 2, Len(q)) \in Seq(S) /\ Len(SubSeq(q, 2, Len(q))) = Len(q) - 1
  <2>1. \A i \in 2 .. Len(q) : q[i] \in S
    OBVIOUS
  <2>2. SubSeq(q, 2, Len(q)) \in Seq(S)
    BY <1>2, <2>1
  <2>3. Len(SubSeq(q, 2, Len(q))) = Len(q) - 1
    BY <1>2
  <2> QED
    BY <2>2, <2>3
<1>5. \A i \in 1 .. Len(q) - 1 : SubSeq(q, 2, Len(q))[i] = q[i + 1]
  BY <1>2
<1>6. Inbox!RemoveAt(q, 1) = SubSeq(q, 1, 0) \o SubSeq(q, 2, Len(q))
  BY DEF Inbox!RemoveAt
<1>7. Inbox!RemoveAt(q, 1) = SubSeq(q, 2, Len(q))
  BY <1>3, <1>4, <1>6
<1> QED
  BY <1>1, <1>4, <1>5, <1>7

\* The first of the rest is the next version, or the end.
LEMMA TakenInTurn ==
  ASSUME InboxInv, NEW n \in 0 .. origin, Rest(inbox, n), 1 \in DOMAIN inbox,
         NEW q, q = Inbox!RemoveAt(inbox, 1)
  PROVE  \/ /\ n + 1 \in 0 .. origin /\ Rest(q, n + 1)
            /\ inbox[1] = [kind |-> IF n = 0 THEN "create" ELSE "update",
                           version |-> n + 1, again |-> FALSE]
         \/ /\ n = origin /\ gone /\ q = <<>>
            /\ inbox[1] = [kind |-> "delete", version |-> 0, again |-> FALSE]
<1>1. origin \in Nat /\ n \in Nat /\ inbox \in Seq(Inbox!Activities) /\ gone \in BOOLEAN
  BY InboxAssumption DEF InboxInv, Inbox!TypeOK
<1>2. /\ q \in Seq(Inbox!Activities) /\ Len(q) = Len(inbox) - 1
      /\ \A i \in 1 .. Len(inbox) - 1 : q[i] = inbox[i + 1]
  BY <1>1, HeadTaken
<1>3. Len(inbox) \in Nat /\ Len(inbox) >= 1 /\ DOMAIN inbox = 1 .. Len(inbox)
  BY <1>1
<1>4. CASE n + 1 <= origin
  <2>1. inbox[1] = [kind |-> IF n = 0 THEN "create" ELSE "update",
                    version |-> n + 1, again |-> FALSE]
    <3>1. (n + 1 = 1) <=> (n = 0)
      BY <1>1
    <3> QED
      BY <1>4, <3>1 DEF Rest
  <2>2. Len(q) = origin - (n + 1) + (IF gone THEN 1 ELSE 0)
    BY <1>1, <1>2, <1>3 DEF Rest
  <2>3. ASSUME NEW i \in DOMAIN q
        PROVE  q[i] = IF (n + 1) + i <= origin
                      THEN [kind |-> IF (n + 1) + i = 1 THEN "create" ELSE "update",
                            version |-> (n + 1) + i, again |-> FALSE]
                      ELSE [kind |-> "delete", version |-> 0, again |-> FALSE]
    <3>1. i \in 1 .. Len(inbox) - 1 /\ i + 1 \in DOMAIN inbox /\ q[i] = inbox[i + 1]
      BY <1>2, <1>3
    <3>2. n + (i + 1) = (n + 1) + i
      BY <1>1, <3>1
    <3> QED
      BY <3>1, <3>2 DEF Rest
  <2>4. n + 1 \in 0 .. origin
    BY <1>1, <1>4
  <2> QED
    BY <2>1, <2>2, <2>3, <2>4 DEF Rest
<1>5. CASE ~(n + 1 <= origin)
  <2>1. n = origin
    BY <1>1, <1>5
  <2>2. gone /\ Len(inbox) = 1
    BY <1>1, <1>3, <2>1 DEF Rest
  <2>3. inbox[1] = [kind |-> "delete", version |-> 0, again |-> FALSE]
    BY <1>5 DEF Rest
  <2>4. q = <<>>
    BY <1>2, <2>2
  <2> QED
    BY <2>1, <2>2, <2>3, <2>4
<1> QED
  BY <1>4, <1>5

\* Who looks for work when nobody is at any takes the next activity.
LEMMA LookInTurn ==
  ASSUME OrderInv, InTurn, NobodyIsAtWork, NEW t \in Threads, 1 \in DOMAIN inbox,
         Inbox!Look(t, 1)
  PROVE  InTurn'
<1> DEFINE a == inbox[1]
           Job(at, r) == [at |-> at, kind |-> a.kind, version |-> a.version, row |-> r,
                          copy |-> IF r = 0 THEN Inbox!NoRow ELSE rows_[r], again |-> a.again]
<1>1. /\ inbox' = Inbox!RemoveAt(inbox, 1) /\ UNCHANGED <<origin, gone, rows_>>
      /\ \/ \E r \in Inbox!Found :
              job' = [job EXCEPT ![t] = Job(IF a.kind = "delete" THEN "delete" ELSE "wait", r)]
         \/ /\ Inbox!Found = {}
            /\ job' = IF a.kind = "create" THEN [job EXCEPT ![t] = Job("wait", 0)] ELSE job
  BY DEF Inbox!Look
<1>2. PICK n \in 0 .. origin : Rest(inbox, n) /\ AsOf(n)
  <2>1. ASSUME NEW x \in Threads, NEW n, Makes(job[x], n) PROVE FALSE
    BY <2>1 DEF NobodyIsAtWork, Makes, Inbox!Idle
  <2>2. inbox # <<>>
    OBVIOUS
  <2> QED
    BY <2>1, <2>2 DEF InTurn
<1>3. PICK q : q = Inbox!RemoveAt(inbox, 1)
  OBVIOUS
<1>4. origin \in Nat /\ n \in Nat /\ Inbox!Found \subseteq Inbox!Rows /\ 0 \notin Inbox!Rows
  BY InboxAssumption DEF OrderInv, InboxInv, Inbox!TypeOK, Inbox!Found, Inbox!Rows
<1>5. /\ DOMAIN job = Threads
      /\ \A j : job' = [job EXCEPT ![t] = j] => job'[t] = j /\ Alone(t)'
  BY DEF OrderInv, InboxInv, JobsTyped, NobodyIsAtWork, Alone
<1>6. /\ \A k : AsOf(k)' <=> AsOf(k)
      /\ \A j, k : Makes(j, k)' <=> Makes(j, k)
      /\ \A c, d : OneRow(c, d)' <=> OneRow(c, d)
      /\ Inbox!Found' = Inbox!Found
  BY <1>1, AsOfElsewhere
<1>7. CASE /\ n + 1 \in 0 .. origin /\ Rest(q, n + 1)
           /\ a = [kind |-> IF n = 0 THEN "create" ELSE "update",
                   version |-> n + 1, again |-> FALSE]
  <2>1. \E r : job' = [job EXCEPT ![t] = Job("wait", r)] /\ Makes(Job("wait", r), n + 1)
    <3>1. CASE n = 0
      <4>1. Inbox!Found = {} /\ a.kind = "create" /\ a.version = 1
        BY <1>2, <1>7, <3>1 DEF AsOf
      <4>2. Makes(Job("wait", 0), n + 1)
        <5>1. AsOf((n + 1) - 1)
          <6>1. (n + 1) - 1 = 0
            BY <3>1
          <6> QED
            BY <4>1, <6>1 DEF AsOf
        <5>2. n + 1 = 1
          BY <3>1
        <5> QED
          BY <4>1, <5>1, <5>2 DEF Makes
      <4>3. job' = [job EXCEPT ![t] = Job("wait", 0)]
        <5> HIDE DEF Job
        <5> QED
          BY <1>1, <4>1
      <4> QED
        BY <4>2, <4>3
    <3>2. CASE n # 0
      <4>1. PICK r \in Inbox!Rows :
              Inbox!Found = {r} /\ rows_[r].content = n /\ rows_[r].deleted = FALSE
        BY <1>2, <3>2 DEF AsOf, OneRow
      <4>2. r # 0 /\ a.kind = "update" /\ a.version = n + 1
        BY <1>4, <1>7, <3>2
      <4>3. Makes(Job("wait", r), n + 1)
        <5>1. (n + 1) - 1 = n /\ n + 1 # 0 /\ n + 1 # 1
          BY <1>4, <3>2
        <5>2. AsOf((n + 1) - 1)
          BY <1>2, <5>1
        <5> QED
          BY <4>1, <4>2, <5>1, <5>2 DEF Makes
      <4>4. job' = [job EXCEPT ![t] = Job("wait", r)]
        <5>1. Inbox!Found # {} /\ (IF a.kind = "delete" THEN "delete" ELSE "wait") = "wait"
          BY <4>1, <4>2
        <5> HIDE DEF Job
        <5> QED
          BY <1>1, <4>1, <5>1
      <4> QED
        BY <4>3, <4>4
    <3> QED
      BY <3>1, <3>2
  <2>2. PICK j : job' = [job EXCEPT ![t] = j] /\ Makes(j, n + 1)
    BY <2>1
  <2>3. Alone(t)' /\ job'[t] = j /\ Makes(j, n + 1)'
    BY <1>5, <1>6, <2>2
  <2>4. Makes(job[t], n + 1)'
    BY <2>3 DEF Makes
  <2>5. Rest(inbox, n + 1)' /\ n + 1 \in 0 .. origin'
    BY <1>1, <1>3, <1>7 DEF Rest
  <2> QED
    BY <2>3, <2>4, <2>5 DEF InTurn
<1>8. CASE /\ n = origin /\ gone /\ q = <<>>
           /\ a = [kind |-> "delete", version |-> 0, again |-> FALSE]
  <2>1. PICK r \in Inbox!Rows :
          Inbox!Found = {r} /\ rows_[r].content = n /\ rows_[r].deleted = FALSE
    BY <1>2, <1>8 DEF AsOf, OneRow, OrderInv
  <2>2. job' = [job EXCEPT ![t] = Job("delete", r)]
    <3>1. Inbox!Found # {} /\ (IF a.kind = "delete" THEN "delete" ELSE "wait") = "delete"
      BY <1>8, <2>1
    <3> HIDE DEF Job
    <3> QED
      BY <1>1, <2>1, <3>1
  <2>3. Alone(t)' /\ job'[t] = Job("delete", r)
    BY <1>5, <2>2
  <2>4. AsOf(origin)' /\ Inbox!Found' = {r}
    <3>1. AsOf(n)'
      BY <1>2, <1>6
    <3> QED
      BY <1>1, <1>6, <1>8, <2>1, <3>1 DEF AsOf, OneRow
  <2>5. Deletes(job[t])'
    BY <2>3, <2>4 DEF Deletes
  <2> QED
    BY <1>1, <1>3, <1>8, <2>3, <2>5 DEF InTurn
<1> QED
  BY <1>2, <1>3, <1>7, <1>8, TakenInTurn DEF OrderInv

\* Whoever is at work is so alone, and with the activity that was next.
LEMMA WorkInTurn ==
  ASSUME OrderInv, InTurn, NEW t \in Threads, job[t] # Inbox!Idle
  PROVE  /\ Alone(t)
         /\ \/ \E n \in 0 .. origin : Rest(inbox, n) /\ Makes(job[t], n)
            \/ gone /\ inbox = <<>> /\ Deletes(job[t])
BY DEF InTurn, Alone, NobodyIsAtWork

\* The activity that is worked on is done when its row is saved.
LEMMA SaveInTurn ==
  ASSUME OrderInv, InTurn, NEW t \in Threads, Inbox!Save(t)
  PROVE  InTurn'
<1>1. /\ job[t].at = "write" /\ job[t] # Inbox!Idle
      /\ job' = [job EXCEPT ![t].at = "release"] /\ UNCHANGED <<origin, gone, inbox>>
  BY DEF Inbox!Save, Inbox!Idle
<1>2. Alone(t) /\ (\E n \in 0 .. origin : Rest(inbox, n) /\ Makes(job[t], n))
  BY <1>1, WorkInTurn DEF Deletes
<1>3. PICK n \in 0 .. origin : Rest(inbox, n) /\ Makes(job[t], n)
  BY <1>2
<1>4. /\ n # 0 /\ job[t].version = n /\ job[t].kind # "delete" /\ AsOf(n - 1)
      /\ n = 1 => job[t].row = 0
      /\ n # 1 => Inbox!Found = {job[t].row} /\ job[t].copy.content = n - 1
  BY <1>1, <1>3 DEF Makes
<1>5. /\ rows_ \in [Inbox!Rows -> InboxRow] /\ 0 \notin Inbox!Rows
      /\ Inbox!Found \subseteq Inbox!Rows /\ n \in Nat
  BY InboxAssumption DEF OrderInv, InboxInv, Inbox!TypeOK, InboxRow, Inbox!Found, Inbox!Rows
<1>6. OneRow(n, FALSE)'
  <2>1. CASE n = 1
    <3>1. Inbox!Found = {}
      <4>1. n - 1 = 0
        BY <2>1
      <4> QED
        BY <1>4, <4>1 DEF AsOf
    <3>2. PICK r \in Inbox!Rows :
            rows_' = [rows_ EXCEPT ![r] = [there |-> TRUE, content |-> n, deleted |-> FALSE]]
      BY <1>4, <2>1 DEF Inbox!Save
    <3>3. \A x \in Inbox!Rows : ~rows_[x].there
      BY <3>1 DEF Inbox!Found
    <3>4. Inbox!Found' = {r}
      BY <1>5, <3>2, <3>3 DEF Inbox!Found, Inbox!Rows
    <3>5. rows_'[r] = [there |-> TRUE, content |-> n, deleted |-> FALSE]
      BY <1>5, <3>2
    <3> QED
      BY <3>4, <3>5 DEF OneRow, Inbox!Rows
  <2>2. CASE n # 1
    <3>1. n - 1 # 0 /\ n - 1 # n
      BY <1>4, <1>5, <2>2
    <3>2. OneRow(n - 1, FALSE)
      BY <1>4, <3>1 DEF AsOf
    <3>3. PICK r \in Inbox!Rows : /\ Inbox!Found = {r}
                                  /\ rows_[r].content = n - 1 /\ rows_[r].deleted = FALSE
      BY <3>2 DEF OneRow
    <3>4. r = job[t].row /\ r # 0
      BY <1>4, <1>5, <2>2, <3>3
    <3>5. rows_' = [rows_ EXCEPT ![r].content = n]
      BY <1>4, <2>2, <3>1, <3>4 DEF Inbox!Save
    <3>6. rows_'[r].there /\ rows_'[r].content = n /\ rows_'[r].deleted = FALSE
      <4>1. rows_[r] \in InboxRow /\ rows_[r].there
        BY <1>5, <3>3 DEF Inbox!Found
      <4> QED
        BY <1>5, <3>3, <3>5, <4>1 DEF InboxRow
    <3>7. Inbox!Found' = {r}
      BY <1>5, <3>3, <3>5, <3>6 DEF Inbox!Found, Inbox!Rows
    <3> QED
      BY <3>6, <3>7 DEF OneRow, Inbox!Rows
  <2> QED
    BY <2>1, <2>2
<1>7. Alone(t)' /\ job'[t] = [job[t] EXCEPT !.at = "release"]
  BY <1>1, <1>2 DEF Alone, OrderInv, InboxInv, JobsTyped
<1>8. job'[t].at = "release" /\ job'[t].version = n /\ job'[t].kind # "delete"
  BY <1>4, <1>7 DEF OrderInv, InboxInv, JobsTyped
<1>9. AsOf(n)'
  BY <1>4, <1>6 DEF AsOf
<1>10. Makes(job[t], n)'
  BY <1>4, <1>8, <1>9 DEF Makes
<1>11. Rest(inbox, n)' /\ n \in 0 .. origin'
  BY <1>1, <1>3 DEF Rest
<1> QED
  BY <1>7, <1>10, <1>11 DEF InTurn

\* Who has the lock goes on, and who has released it is through.
LEMMA LockInTurn ==
  ASSUME OrderInv, InTurn, NEW t \in Threads, Inbox!Acquire(t) \/ Inbox!Release(t)
  PROVE  InTurn'
<1>1. job[t].at \in {"wait", "release"} /\ UNCHANGED <<origin, gone, inbox, rows_>>
  BY DEF Inbox!Acquire, Inbox!Release
<1>2. Alone(t) /\ (\E n \in 0 .. origin : Rest(inbox, n) /\ Makes(job[t], n))
  <2>1. job[t] # Inbox!Idle /\ ~Deletes(job[t])
    BY <1>1 DEF Inbox!Idle, Deletes
  <2> QED
    BY <2>1, WorkInTurn
<1>3. PICK n \in 0 .. origin : Rest(inbox, n) /\ Makes(job[t], n)
  BY <1>2
<1>4. Rest(inbox, n)' /\ n \in 0 .. origin'
  BY <1>1, <1>3 DEF Rest
<1>5. /\ \A k : AsOf(k)' <=> AsOf(k)
      /\ \A j, k : Makes(j, k)' <=> Makes(j, k)
  BY <1>1, AsOfElsewhere
<1>6. CASE Inbox!Acquire(t)
  <2>1. job' = [job EXCEPT ![t].at = "write"] /\ job[t].at = "wait"
    BY <1>6 DEF Inbox!Acquire
  <2>2. PICK j : j = [job[t] EXCEPT !.at = "write"]
    OBVIOUS
  <2>3. Alone(t)' /\ job'[t] = j
    BY <1>2, <2>1, <2>2 DEF Alone, OrderInv, InboxInv, JobsTyped
  <2>4. /\ j.at = "write" /\ j.version = job[t].version /\ j.kind = job[t].kind
        /\ j.row = job[t].row /\ j.copy = job[t].copy
    BY <2>2 DEF OrderInv, InboxInv, JobsTyped
  <2>5. Makes(j, n)
    BY <1>3, <2>1, <2>4 DEF Makes
  <2>6. Makes(job[t], n)'
    BY <1>5, <2>3, <2>5 DEF Makes
  <2> QED
    BY <1>4, <2>3, <2>6 DEF InTurn
<1>7. CASE Inbox!Release(t)
  <2>1. job' = [job EXCEPT ![t] = Inbox!Idle] /\ job[t].at = "release"
    BY <1>7 DEF Inbox!Release, Inbox!Ends
  <2>2. NobodyIsAtWork'
    BY <1>2, <2>1 DEF Alone, NobodyIsAtWork, OrderInv, InboxInv, JobsTyped
  <2>3. AsOf(n)'
    BY <1>3, <1>5, <2>1 DEF Makes
  <2> QED
    BY <1>4, <2>2, <2>3 DEF InTurn
<1> QED
  BY <1>6, <1>7

\* What is deleted last is a tombstone.
LEMMA DeleteInTurn ==
  ASSUME OrderInv, InTurn, NEW t \in Threads, Inbox!Delete(t)
  PROVE  InTurn'
<1>1. /\ job[t].at = "delete" /\ job[t] # Inbox!Idle /\ UNCHANGED <<origin, gone, inbox>>
      /\ job' = [job EXCEPT ![t] = Inbox!Idle]
      /\ rows_' = [rows_ EXCEPT ![job[t].row] = [there |-> TRUE, content |-> Inbox!Nothing,
                                                 deleted |-> TRUE]]
  BY DEF Inbox!Delete, Inbox!Ends, Inbox!Idle
<1>2. Alone(t) /\ gone /\ inbox = <<>> /\ Inbox!Found = {job[t].row}
  BY <1>1, WorkInTurn DEF Deletes, Makes
<1>3. NobodyIsAtWork'
  BY <1>1, <1>2 DEF Alone, NobodyIsAtWork, OrderInv, InboxInv, JobsTyped
<1>4. PICK r \in Inbox!Rows : r = job[t].row
  BY <1>2 DEF Inbox!Found
<1>5. rows_ \in [Inbox!Rows -> InboxRow]
  BY DEF OrderInv, InboxInv, Inbox!TypeOK, InboxRow
<1>6. rows_'[r] = [there |-> TRUE, content |-> Inbox!Nothing, deleted |-> TRUE]
  BY <1>1, <1>4, <1>5
<1>7. Inbox!Found' = {r}
  BY <1>1, <1>2, <1>4, <1>5, <1>6 DEF Inbox!Found, Inbox!Rows
<1>8. OneRow(Inbox!Nothing, TRUE)'
  BY <1>6, <1>7 DEF OneRow, Inbox!Nothing, Inbox!Rows
<1> QED
  BY <1>1, <1>2, <1>3, <1>8 DEF InTurn

\* A step that leaves what is recorded of disorder as it was.
LEMMA InOrder ==
  ASSUME OrderInv, ~disorder, Inbox!Next, ~disorder'
  PROVE  /\ late = {} /\ late' = {} /\ InTurn /\ resent' = resent /\ died' = died
         /\ \A i \in 2 .. Len(inbox) : inbox' # Inbox!RemoveAt(inbox, i)
         /\ Len(inbox') < Len(inbox) => NobodyIsAtWork
<1>1. ~Inbox!Disordered
  BY DEF Inbox!Next, Inbox!Recorded
<1>2. ~Again
  BY <1>1 DEF Inbox!Disordered, Again
<1> QED
  BY <1>1, <1>2 DEF Inbox!Disordered, OrderInv, NobodyIsAtWork

LEMMA NextInTurn ==
  ASSUME OrderInv, ~disorder, Inbox!Next, ~disorder'
  PROVE  InTurn' \/ (Again' /\ UNCHANGED rows_)
<1>1. /\ late = {} /\ late' = {} /\ InTurn /\ resent' = resent /\ died' = died
      /\ \A i \in 2 .. Len(inbox) : inbox' # Inbox!RemoveAt(inbox, i)
      /\ Len(inbox') < Len(inbox) => NobodyIsAtWork
  BY InOrder
<1>2. inbox \in Seq(Inbox!Activities) /\ Len(inbox) \in Nat /\ DOMAIN inbox = 1 .. Len(inbox)
  BY DEF OrderInv, InboxInv, Inbox!TypeOK
<1>3. CASE \/ \E n \in 1 .. MaxVersion : Inbox!AuthorWrites(n)
           \/ Inbox!AuthorDeletes
  BY <1>1, <1>3, WriteInTurn, DeleteSentInTurn
<1>4. CASE Inbox!Expire
  <2>1. UNCHANGED <<origin, gone, inbox, rows_, job>>
    BY <1>4 DEF Inbox!Expire
  <2> QED
    BY <1>1, <2>1 DEF InTurn, Rest, NobodyIsAtWork, Alone, Makes, Deletes, AsOf, OneRow,
                      Inbox!Found, Inbox!Rows
<1>5. ASSUME NEW i \in DOMAIN inbox, Inbox!Defer(i) PROVE Again' /\ UNCHANGED rows_
  <2>1. PICK q : q = Inbox!RemoveAt(inbox, i)
    OBVIOUS
  <2>2. PICK a : a = [inbox[i] EXCEPT !.again = TRUE]
    OBVIOUS
  <2>3. q \in Seq(Inbox!Activities) /\ inbox[i] \in Inbox!Activities
    BY <1>2, <2>1, Taken
  <2>4. a \in Inbox!Activities /\ a.again
    BY <2>2, <2>3 DEF Inbox!Activities
  <2>5. inbox' = Append(q, a) /\ UNCHANGED rows_
    BY <1>5, <2>1, <2>2 DEF Inbox!Defer
  <2>6. Len(q) + 1 \in DOMAIN inbox' /\ inbox'[Len(q) + 1] = a
    BY <2>3, <2>4, <2>5, AddedLast
  <2> QED
    BY <2>4, <2>5, <2>6 DEF Again
<1>6. ASSUME NEW t \in Threads, NEW i \in DOMAIN inbox, Inbox!Look(t, i) PROVE InTurn'
  <2>1. inbox' = Inbox!RemoveAt(inbox, i)
    BY <1>6 DEF Inbox!Look
  <2>2. i = 1
    BY <1>1, <1>2, <2>1
  <2>3. Len(inbox') < Len(inbox)
    <3>1. Len(Inbox!RemoveAt(inbox, 1)) = Len(inbox) - 1
      BY <1>2, <2>2, HeadTaken
    <3> QED
      BY <1>2, <2>1, <2>2, <3>1
  <2> QED
    BY <1>1, <1>6, <2>2, <2>3, LookInTurn
<1>7. ASSUME NEW t \in Threads,
             Inbox!Acquire(t) \/ Inbox!Save(t) \/ Inbox!Release(t) \/ Inbox!Delete(t)
      PROVE  InTurn'
  BY <1>1, <1>7, LockInTurn, SaveInTurn, DeleteInTurn
\* Nothing comes twice, nobody is late and nobody dies.
<1>8. ~Inbox!Resend
  BY <1>1 DEF Inbox!Resend, OrderInv
<1>9. ASSUME NEW t \in Threads PROVE ~Inbox!GiveUp(t) /\ ~Inbox!Deadline(t) /\ ~Inbox!Die(t)
  BY <1>1 DEF OrderInv, Inbox!GiveUp, Inbox!Deadline, Inbox!Die
<1> QED
  BY <1>3, <1>4, <1>5, <1>6, <1>7, <1>8, <1>9 DEF Inbox!Next, Inbox!Step, Inbox!Works

LEMMA NextOrderInv == OrderInv /\ [Inbox!Next]_(Inbox!vars) => OrderInv'
<1> SUFFICES ASSUME OrderInv, [Inbox!Next]_(Inbox!vars) PROVE OrderInv'
  OBVIOUS
<1>1. InboxInv'
  BY NextInboxInv DEF OrderInv
<1>4. resent' \in Nat /\ died' \in Nat
  <2>1. /\ UNCHANGED resent \/ resent' = resent + 1
        /\ UNCHANGED died \/ died' = died + 1
    BY DEF Inbox!Next, Inbox!Step, Inbox!Works, Inbox!AuthorWrites, Inbox!AuthorDeletes,
           Inbox!Resend, Inbox!Expire, Inbox!Defer, Inbox!Deadline, Inbox!Die, Inbox!Look,
           Inbox!Acquire, Inbox!GiveUp, Inbox!Save, Inbox!Release, Inbox!Delete, Inbox!vars
  <2> QED
    BY <2>1 DEF OrderInv
<1>2. gone' => origin' # 0
  <2>1. \/ UNCHANGED <<gone, origin>> \/ Inbox!AuthorDeletes
        \/ \E n \in 1 .. MaxVersion : Inbox!AuthorWrites(n)
    BY DEF Inbox!Next, Inbox!Step, Inbox!Works, Inbox!Resend, Inbox!Expire, Inbox!Defer,
           Inbox!Deadline, Inbox!Die, Inbox!Look, Inbox!Acquire, Inbox!GiveUp, Inbox!Save,
           Inbox!Release, Inbox!Delete, Inbox!vars
  <2> QED
    BY <2>1 DEF OrderInv, Inbox!AuthorDeletes, Inbox!AuthorWrites
<1>3. ASSUME ~disorder' PROVE late' = {} /\ Inbox!TombstonesAreEmpty' /\ (Again' \/ InTurn')
  <2>1. CASE Inbox!Next
    <3>1. ~disorder
      BY <1>3, <2>1 DEF Inbox!Next, Inbox!Recorded
    <3>2. late' = {}
      BY <1>3, <2>1, <3>1, InOrder
    <3>3. CASE InTurn'
      <4>1. Inbox!TombstonesAreEmpty'
        BY <1>1, <3>3, InTurnIsEmpty, PTL
      <4> QED
        BY <3>2, <3>3, <4>1
    <3>4. CASE Again' /\ UNCHANGED rows_
      <4>1. Inbox!TombstonesAreEmpty'
        BY <3>1, <3>4 DEF OrderInv, Inbox!TombstonesAreEmpty, Inbox!Rows
      <4> QED
        BY <3>2, <3>4, <4>1
    <3> QED
      BY <1>3, <2>1, <3>1, <3>3, <3>4, NextInTurn
  <2>2. CASE UNCHANGED Inbox!vars
    BY <1>3, <2>2 DEF OrderInv, Inbox!vars, Inbox!TombstonesAreEmpty, Again, InTurn, Rest,
                      NobodyIsAtWork, Alone, Makes, Deletes, AsOf, OneRow, Inbox!Found,
                      Inbox!Rows
  <2> QED
    BY <2>1, <2>2
<1> QED
  BY <1>1, <1>2, <1>3, <1>4 DEF OrderInv

LEMMA InTurnIsTold == OrderInv => Inbox!OnlyDisorderMisleads
<1> SUFFICES ASSUME OrderInv, ~disorder, Inbox!Quiet PROVE Inbox!AsTheAuthorLeftIt
  BY DEF OrderInv, Inbox!OnlyDisorderMisleads
<1>1. origin \in Nat /\ inbox = <<>> /\ NobodyIsAtWork
  BY InboxAssumption DEF OrderInv, InboxInv, Inbox!TypeOK, Inbox!Quiet, NobodyIsAtWork
<1>2. InTurn
  BY <1>1 DEF OrderInv, Again
<1>3. \A t \in Threads : ~Deletes(job[t]) /\ \A n : ~Makes(job[t], n)
  BY <1>1 DEF NobodyIsAtWork, Deletes, Makes, Inbox!Idle
<1>4. CASE gone /\ OneRow(Inbox!Nothing, TRUE)
  BY <1>4 DEF OneRow, Inbox!AsTheAuthorLeftIt
<1>5. CASE \E n \in 0 .. origin : Rest(inbox, n) /\ AsOf(n)
  <2>1. PICK n \in 0 .. origin : Rest(inbox, n) /\ AsOf(n)
    BY <1>5
  <2>2. ~gone /\ n = origin
    BY <1>1, <2>1 DEF Rest
  <2>3. ASSUME origin # 0
        PROVE  /\ Inbox!Cardinality(Inbox!Found) = 1
               /\ \A r \in Inbox!Found : rows_[r].content = origin /\ ~rows_[r].deleted
    <3>1. PICK r : /\ Inbox!Found = {r}
                   /\ rows_[r].content = origin /\ rows_[r].deleted = FALSE
      BY <2>1, <2>2, <2>3 DEF AsOf, OneRow
    <3>2. Inbox!Cardinality({r}) = 1
      <4>1. Inbox!Cardinality({r}) = Cardinality({r})
        BY DEF Cardinality, Inbox!Cardinality
      <4> QED
        BY <4>1, FS_Singleton
    <3> QED
      BY <3>1, <3>2
  <2> QED
    BY <2>2, <2>3 DEF Inbox!AsTheAuthorLeftIt
<1> QED
  BY <1>2, <1>3, <1>4, <1>5 DEF InTurn

-----------------------------------------------------------------------------
LEMMA InitLockInv == Inbox!Init => LockInv
BY DEF Inbox!Init, LockInv, AreJobs, Holds, Inbox!Inside, Inbox!Idle

\* Every step is one of the parts, and leaves the other as it is.
LEMMA PartsStep ==
  [MCNext]_<<vars, inboxVars, exporting_>> => [Next]_vars /\ [Inbox!Next]_(Inbox!vars)
BY DEF MCNext, inboxVars, Inbox!vars

\* The types of both parts, with what the shape of the rows and jobs implies: a
\* row that is not there is empty, a key that is held is held by one inside.
THEOREM TypesKept == MCSpec => []TypesOK
<1>1. Init /\ Inbox!Init => IInv /\ InboxInv
  BY InitInv, InitInboxInv
<1>2. IInv /\ [Next]_vars => IInv'
  BY NextInv
<1>3. InboxInv /\ [Inbox!Next]_(Inbox!vars) => InboxInv'
  BY NextInboxInv
<1>4. IInv /\ InboxInv => TypesOK
  BY DEF IInv, InboxInv, TypesOK
<1> QED
  BY <1>1, <1>2, <1>3, <1>4, PartsStep, PTL DEF MCSpec, MCInit

\* Two workers are at one object only if one of them has been there, or waited,
\* for longer than its lock lives (activitypub/base_activity.py:85).
THEOREM LockExcludes == MCSpec => []OneAtATime
<1>1. Inbox!Init => LockInv
  BY InitLockInv
<1>2. LockInv /\ [Inbox!Next]_(Inbox!vars) => LockInv'
  BY NextLockInv
<1>3. LockInv => OneAtATime
  BY DEF LockInv, Holds, OneAtATime, Inbox!OneAtATime
<1> QED
  BY <1>1, <1>2, <1>3, PartsStep, PTL DEF MCSpec, MCInit

\* A status is here as its author has left it, unless activities were repeated,
\* reordered, lost or worked off at once (activitypub/base_activity.py:201).
THEOREM DisorderAlone == MCSpec => []OnlyDisorderMisleads
<1>1. Inbox!Init => OrderInv
  BY InitOrderInv
<1>2. OrderInv /\ [Inbox!Next]_(Inbox!vars) => OrderInv'
  BY NextOrderInv
<1>3. OrderInv => OnlyDisorderMisleads
  BY InTurnIsTold DEF OnlyDisorderMisleads
<1> QED
  BY <1>1, <1>2, <1>3, PartsStep, PTL DEF MCSpec, MCInit
=============================================================================
