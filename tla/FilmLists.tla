------------------------------ MODULE FilmLists ------------------------------
(***************************************************************************)
(* One film list: the orders of its items, as the views of views/list/     *)
(* keep them.  (order, film_list) and (film, film_list) are unique in the  *)
(* database, and a statement that would break that raises IntegrityError   *)
(* and rolls its transaction back.                                         *)
(*                                                                         *)
(* A request reads its item and the highest order first and writes later.  *)
(* All the writes of a transaction are one step: the first saved item      *)
(* updates the row of the list, which keeps other transactions from saving *)
(* items until the commit, and what READ COMMITTED lets a transaction see  *)
(* of the others is what it reads then.                                    *)
(***************************************************************************)
EXTENDS Integers, FiniteSets, FiniteSetsExt

CONSTANTS Films,     \* what may be put on the list
          Threads,   \* web workers, each of which handles one request at a time
          Curations, \* the curation settings that the owner uses
          NoFilm,    \* what an idle worker handles
          MaxOrder   \* bound on orders

ASSUME FilmAssumption  == /\ IsFiniteSet(Films) /\ NoFilm \notin Films
                          /\ MaxOrder \in Nat
ASSUME CurationAssumption == Curations \subseteq {"closed", "open", "curated", "group"}

VARIABLES
  order,     \* order[f]: the order of f's item, 0 if f is not on the list
  approved,  \* the films on the list whose items are approved
  curation,  \* the list's curation setting
  job,       \* job[t]: the request that t handles, with what it has read
  stale,     \* threads whose list another thread has changed since they read it
  gone,      \* threads whose item another thread has deleted since they read it
  torn,      \* history: has a request written what it read before another
             \* changed it, or died half way?
  skipped,   \* history: has an item been approved that was not the last
             \* of the list and still pending?
  refused    \* history: threads that ran into IntegrityError on fresh data

list    == <<order, approved>>
history == <<torn, skipped, refused>>
vars    == <<list, curation, job, stale, gone, history>>

Idle   == [op |-> "idle", film |-> NoFilm, at |-> 0, to |-> 0, trusted |-> FALSE]

OnList(o)   == {f \in Films : o[f] # 0}
Highest(S)  == Max({order[f] : f \in S} \cup {0})   \* Max("order") or 0
Distinct(o) == \A f, g \in OnList(o) : f # g => o[f] # o[g]

Init ==
  /\ order = [f \in Films |-> 0]
  /\ approved = {}
  /\ curation \in Curations
  /\ job = [t \in Threads |-> Idle]
  /\ stale = {} /\ gone = {}
  /\ torn = FALSE /\ skipped = FALSE /\ refused = {}

-----------------------------------------------------------------------------
(* The helpers that renumber items, on a table of orders. *)

\* increment_order_in_reverse; MaxOrder + 1 stands for no end.
Incremented(o, start, end) ==
  [f \in Films |-> IF o[f] >= start /\ o[f] < end THEN o[f] + 1 ELSE o[f]]

\* decrement_order  (Mutant: order__lt for the end.)
DecrementedTooFew(o, start, end) ==
  [f \in Films |-> IF o[f] > start /\ o[f] < end THEN o[f] - 1 ELSE o[f]]
Decremented(o, start, end) ==
  [f \in Films |-> IF o[f] > start /\ o[f] <= end THEN o[f] - 1 ELSE o[f]]

\* normalize_film_list_ordering  (Mutant: the enumeration begins after start.)
NormalizedPast(o, start) ==
  [f \in Films |-> IF o[f] > start
     THEN start + Cardinality({g \in Films : o[g] > start /\ o[g] <= o[f]})
     ELSE o[f]]
Normalized(o, start) ==
  [f \in Films |-> IF o[f] > start
     THEN start + Cardinality({g \in Films : o[g] > start /\ o[g] < o[f]})
     ELSE o[f]]

-----------------------------------------------------------------------------
(* A request begins with what it reads. *)
Begin(t, op, f, to, trusted) ==
  /\ job[t] = Idle
  /\ job' = [job EXCEPT ![t] = [op |-> op, film |-> f, at |-> order[f],
                                to |-> to, trusted |-> trusted]]
  /\ UNCHANGED <<list, curation, stale, gone, history>>

\* Everybody else who is being served now holds stale data.
Others(t) == {u \in Threads \ {t} : job[u] # Idle}

\* t commits the orders o and the approved films a, if no row is in the way,
\* and goes on with the request next.
Commit(t, free, o, a, next) ==
  LET ok  == free /\ Distinct(o)
      cut == {u \in Others(t) : order[job[u].film] # 0 /\ o[job[u].film] = 0}
  IN  /\ IF ok THEN order' = o /\ approved' = a ELSE UNCHANGED list
      /\ job'     = [job EXCEPT ![t] = IF ok THEN next ELSE Idle]
      /\ stale'   = (IF ok /\ <<o, a>> # list THEN stale \cup Others(t) ELSE stale)
                      \ (IF ok /\ next # Idle THEN {} ELSE {t})
      /\ gone'    = (IF ok THEN gone \cup cut ELSE gone)
                      \ (IF ok /\ next # Idle THEN {} ELSE {t})
      /\ torn'    = (torn \/ t \in stale)
      /\ refused' = IF ok \/ t \in stale THEN refused ELSE refused \cup {t}
      /\ UNCHANGED curation

\* Model.save inserts the row of t's item again if it has gone, which the film
\* must not have a new row for.
RowIsFree(t) == ~(t \in gone /\ order[job[t].film] # 0)
Saved(t, o, n) == [o EXCEPT ![job[t].film] = n]

-----------------------------------------------------------------------------
\* add_film and set_list_item_order.  The owner and group members are trusted
\* with curated lists; the form refuses a film that is on the list.
AddBegin(t, f, trusted) ==
  /\ order[f] = 0
  /\ trusted \/ curation # "closed"
  /\ Begin(t, IF curation = "curated" THEN "add_last" ELSE "add", f,
           (IF curation = "curated" THEN Highest(Films) ELSE Highest(approved)) + 1,
           trusted \/ curation # "curated")

Add(t) ==
  /\ job[t].op \in {"add", "add_last"}
  /\ LET f == job[t].film   n == job[t].to
         room == IF job[t].op = "add" THEN Incremented(order, n, MaxOrder + 1) ELSE order
     IN  Commit(t, order[f] = 0, Saved(t, room, n),
                IF job[t].trusted THEN approved \cup {f} ELSE approved, Idle)

\* remove_film: the item is deleted and the rest renumbered, in one transaction.
RemoveBegin(t, f) == f \in approved /\ Begin(t, "remove", f, 0, TRUE)
Without(t, table) == IF t \in gone THEN table ELSE [table EXCEPT ![job[t].film] = 0]
StillApproved(t) == IF t \in gone THEN approved ELSE approved \ {job[t].film}
Remove(t) ==
  /\ job[t].op = "remove"
  /\ Commit(t, TRUE, Normalized(Without(t, order), job[t].at), StillApproved(t), Idle)

\* set_film_position: the position is cut to the highest approved order.  The
\* item waits under the order -1, which is 0 here, while others make room.
MoveBegin(t, f, position) ==
  LET to == Min({position, Highest(approved)})
  IN  f \in approved /\ order[f] # to /\ Begin(t, "move", f, to, TRUE)
\* (Mutant: the film changes places with the one that is there.)
MoveBySwap(t) ==
  /\ job[t].op = "move"
  /\ LET swapped == [f \in Films |-> IF order[f] = job[t].to THEN job[t].at ELSE order[f]]
     IN  Commit(t, RowIsFree(t), Saved(t, swapped, job[t].to),
                approved \cup {job[t].film}, Idle)
Move(t) ==
  /\ job[t].op = "move"
  /\ LET f == job[t].film   from == job[t].at   to == job[t].to
         o == [order EXCEPT ![f] = 0]
         room == IF from > to THEN Incremented(o, to, from) ELSE Decremented(o, from, to)
     IN  Commit(t, RowIsFree(t), Saved(t, room, to), approved \cup {f}, Idle)

\* ListItem.post: the notes change, but the whole row is written.
EditBegin(t, f) == f \in approved /\ Begin(t, "edit", f, order[f], TRUE)
Edit(t) ==
  /\ job[t].op = "edit"
  /\ Commit(t, RowIsFree(t), Saved(t, order, job[t].to),
            approved \cup {job[t].film}, Idle)

\* Curate.post, approved: room is made after the approved films in a
\* transaction, and the item saved in another.  The curator's page may be old,
\* so that the item has been approved already.
ApproveBegin(t, f) ==
  order[f] # 0 /\ Begin(t, "approve", f, Highest(approved) + 1, f \in approved)
Approve(t) ==
  /\ job[t].op = "approve"
  /\ Commit(t, TRUE, Incremented(order, job[t].to, MaxOrder + 1), approved,
            [job[t] EXCEPT !.op = "approve_save"])
  /\ skipped' = (skipped \/ job[t].trusted \/ order[job[t].film] # Highest(Films))
ApproveSave(t) ==
  /\ job[t].op = "approve_save"
  /\ Commit(t, RowIsFree(t), Saved(t, order, job[t].to),
            approved \cup {job[t].film}, Idle)

\* Curate.post, discarded: two transactions.
RejectBegin(t, f) == order[f] # 0 /\ Begin(t, "reject", f, 0, TRUE)
Reject(t) ==
  /\ job[t].op = "reject"
  /\ Commit(t, TRUE, Without(t, order), StillApproved(t),
            [job[t] EXCEPT !.op = "reject_normalize"])
RejectNormalize(t) ==
  /\ job[t].op = "reject_normalize"
  /\ Commit(t, TRUE, Normalized(order, job[t].at), approved, Idle)

\* List.post: the owner changes the curation.
EditList(c) ==
  /\ curation' = c
  /\ UNCHANGED <<list, job, stale, gone, history>>

\* The worker dies between the two transactions of a curator's request.
Crash(t) ==
  /\ job[t].op \in {"approve_save", "reject_normalize"}
  /\ job' = [job EXCEPT ![t] = Idle]
  /\ stale' = stale \ {t} /\ gone' = gone \ {t}
  /\ torn' = TRUE
  /\ UNCHANGED <<list, curation, skipped, refused>>

-----------------------------------------------------------------------------
BeginSome(t) ==
  \E f \in Films :
    \/ \E trusted \in BOOLEAN : AddBegin(t, f, trusted)
    \/ \E n \in 1 .. MaxOrder : MoveBegin(t, f, n)
    \/ RemoveBegin(t, f) \/ EditBegin(t, f) \/ ApproveBegin(t, f) \/ RejectBegin(t, f)

Continue(t) ==
  \/ Approve(t)
  \/ /\ \/ Add(t) \/ Remove(t) \/ Move(t) \/ Edit(t)
        \/ ApproveSave(t) \/ Reject(t) \/ RejectNormalize(t)
     /\ UNCHANGED skipped

Next ==
  /\ \/ \E t \in Threads : BeginSome(t) \/ Continue(t) \/ Crash(t)
     \/ \E c \in Curations : EditList(c)
  /\ \A f \in Films : order'[f] <= MaxOrder

Spec == Init /\ [][Next]_vars
-----------------------------------------------------------------------------
Sequential == {order[f] : f \in OnList(order)} = 1 .. Cardinality(OnList(order))
Quiet      == \A t \in Threads : job[t] = Idle

\* list.py:283 "takes special care with the unique ordering per list": a
\* request that has the list to itself never runs into the unique constraint,
\* however the orders were left by earlier requests, gaps included.
CarefulWithOrder == refused = {}

\* list.py:361 "gives each film in a list the proper sequential order number":
\* the orders have a gap only after a request wrote what another had changed
\* since it read it, or after an approval out of turn.
GapsAreExplained == Quiet /\ ~torn /\ ~skipped => Sequential

\* No step puts two films in another order than before, save for one film that
\* the step is about, if there is one, whatever the interleaving.
OthersKeepTheirOrder ==
  [][\E x \in Films \cup {NoFilm} : \A f, g \in (OnList(order) \cap OnList(order')) \ {x} :
       order[f] < order[g] => order'[f] < order'[g]]_vars
=============================================================================
