--------------------------- MODULE SuggestedUsers ---------------------------
(***************************************************************************)
(* Whom users are advised to follow: for every local user a set in Redis,  *)
(* kept by suggested_users.py.  Signals queue tasks, a worker reads the    *)
(* rows and writes the sets later, and the page leaves out some of what it *)
(* finds there.  Everybody here uses this software; the remote users are   *)
(* of one server, which can be blocked.  Ranks are left out.               *)
(***************************************************************************)
EXTENDS Naturals, FiniteSets, SequencesExt

CONSTANTS
  Users, Locals, Workers,
  MaxEvents,  \* MaxEvents[o]: how many events, when tasks start in order or not
  Orders      \* may tasks overtake each other?  A subset of BOOLEAN

VARIABLES
  inOrder,   \* does a task start when those queued before it are done?
  discoverable, active,     \* users who are
  follows, asked, blocks,   \* pairs <<subject, object>>; asked are requests
  server,    \* the other server: "open", "closing", "blocked" or "lifting"
  store,     \* store[v]: who is in the suggestions of v
  queue,
  work,      \* work[w]: what worker w has read and will write
  events,
  unheard,   \* history: pairs <<v, c>> that no task has put right since
  everFit    \* history: pairs that there was a moment to suggest c to v

rows == <<discoverable, active, follows, asked, blocks, server>>
vars == <<inOrder, rows, store, queue, work, events, unheard, everFit>>

Remotes == Users \ Locals
Both(v, c)  == {<<v, c>>, <<c, v>>}
Apart(v, c) == Both(v, c) \cap blocks # {}

\* get_annotated_users
Fit(v, c) == c \in discoverable /\ c \in active /\ ~Apart(v, c) /\ c # v

\* get_users_for_object, "who might want to follow them": it excludes those whom
\* c follows, not those who follow c.
Wanting(c) == {v \in Locals \cap active : v # c /\ <<c, v>> \notin follows /\ ~Apart(v, c)}

\* get_suggestions and get_objects_for_store leave out whom v follows or asks.
Unrelated(v, c) == <<v, c>> \notin follows \cup asked
ShownUnasked(v) == {c \in store[v] \cap active : c # v}    \* (Mutant: they do not.)
Shown(v) == {c \in store[v] \cap active : c # v /\ Unrelated(v, c)}

-----------------------------------------------------------------------------
(* Tasks, and what each will write after it has read the rows *)

Task(kind, v, c) == [do |-> kind, user |-> v, of |-> c]
Rerank(c)        == Task("rerank_user", c, c)
RemoveUser(c)    == Task("remove_user", c, c)
Unsuggest(v, c)  == Task("remove_suggestion", v, c)
Populate(v)      == Task("rerank_suggestions", v, v)
BulkRemove       == Task("bulk_remove_instance", {}, Remotes)
BulkAdd          == Task("bulk_add_instance", {}, Remotes)

Nothing == [add |-> {}, drop |-> {}]
Adding(P)   == [add |-> P, drop |-> {}]
Dropping(P) == [add |-> {}, drop |-> P]

Pairs(C)    == {p \in Locals \X C : p[1] \in Wanting(p[2])}
FitPairsUnasked(C) == Pairs(C)    \* (Mutant: rerank_obj adds whom it is given.)
FitPairs(C) == {p \in Pairs(C) : Fit(p[1], p[2])}

Reads(t) ==
  CASE t.do = "rerank_user" -> Adding(FitPairs({t.of}))
    [] t.do = "bulk_add_instance" -> Adding(FitPairs(t.of))
    [] t.do = "remove_user" -> Dropping(Pairs({t.of}))
    [] t.do = "bulk_remove_instance" -> Dropping(Pairs(t.of))
    [] t.do = "remove_suggestion" -> Dropping({<<t.user, t.of>>})
    [] t.do = "rerank_suggestions" ->
         Adding({t.user} \X {c \in Users : Fit(t.user, c) /\ Unrelated(t.user, c)})

Idle(w) == work[w] = Nothing

Init ==
  /\ inOrder \in Orders
  /\ discoverable = {} /\ active = Users
  /\ follows = {} /\ asked = {} /\ blocks = {} /\ server = "open"
  /\ store = [v \in Locals |-> {}]
  /\ queue = <<>> /\ work = [w \in Workers |-> Nothing]
  /\ events = 0 /\ unheard = {} /\ everFit = {}

-----------------------------------------------------------------------------
(* Events of the database, with the tasks their signals queue *)

\* Those who are wanting are told of a user; the pairs that nobody is told of
\* are remembered.
Event(tasks, without) ==
  LET told == {p \in Locals \X Users :
                 /\ p[1] \in Wanting(p[2])
                 /\ Contains(tasks, Rerank(p[2])) \/ Contains(tasks, RemoveUser(p[2]))}
  IN  /\ events < MaxEvents[inOrder]
      /\ events' = events + 1
      /\ queue' = queue \o tasks
      /\ unheard' = (unheard \ told) \cup (without \cap (Locals \X Users))
      /\ UNCHANGED <<store, work>>

When(c, t) == IF c THEN <<t>> ELSE <<>>
Acts(u)    == u \in active /\ (u \in Locals \/ server = "open")

\* update_user, on a save of the whole row: "this happens on every save".
\* (Mutant: who hides is not taken out.)
HideSilently(c) ==
  /\ Acts(c) /\ c \in discoverable
  /\ discoverable' = discoverable \ {c}
  /\ Event(<<>>, {})
  /\ UNCHANGED <<active, follows, asked, blocks, server>>
Show(c) ==
  /\ Acts(c)
  /\ discoverable' = discoverable \cup {c}
  /\ Event(<<Rerank(c)>>, {})
  /\ UNCHANGED <<active, follows, asked, blocks, server>>
Hide(c) ==
  /\ Acts(c) /\ c \in discoverable
  /\ discoverable' = discoverable \ {c}
  /\ Event(<<RemoveUser(c)>>, {})
  /\ UNCHANGED <<active, follows, asked, blocks, server>>

\* A request, and its end without a follow, which has no handler.
Ask(v, c) ==
  /\ v # c /\ Acts(v) /\ Unrelated(v, c) /\ ~Apart(v, c)
  /\ asked' = asked \cup {<<v, c>>}
  /\ Event(When(c \in discoverable /\ v \in Locals, Unsuggest(v, c)), {})
  /\ UNCHANGED <<discoverable, active, follows, blocks, server>>
Withdraw(v, c) ==
  /\ <<v, c>> \in asked
  /\ asked' = asked \ {<<v, c>>}
  /\ Event(<<>>, {<<v, c>>})
  /\ UNCHANGED <<discoverable, active, follows, blocks, server>>

\* A follow, by acceptance of a request or at once.  From now on c is not told
\* what happens to v.
Follow(v, c) ==
  /\ v # c /\ Acts(v) /\ <<v, c>> \notin follows /\ ~Apart(v, c)
  /\ follows' = follows \cup {<<v, c>>} /\ asked' = asked \ {<<v, c>>}
  /\ Event(IF c \notin discoverable THEN <<>>
           ELSE When(v \in Locals, Unsuggest(v, c)) \o <<Rerank(c)>>, {<<c, v>>})
  /\ UNCHANGED <<discoverable, active, blocks, server>>

\* "don't re-suggest because it was probably intentional", and then it does.
Unfollow(v, c) ==
  /\ <<v, c>> \in follows
  /\ follows' = follows \ {<<v, c>>}
  /\ Event(When(c \in discoverable, Rerank(c)), {})
  /\ UNCHANGED <<discoverable, active, asked, blocks, server>>

\* UserBlocks.save, once for the row and for a local one once for its remote_id;
\* then the follows go, which counts as unfollowing.
Block(v, c) ==
  LET both == When(v \in Locals /\ c \in discoverable, Unsuggest(v, c))
              \o When(c \in Locals /\ v \in discoverable, Unsuggest(c, v))
      gone(x, y) == When(<<x, y>> \in follows /\ y \in discoverable, Rerank(y))
  IN  /\ v # c /\ Acts(v) /\ <<v, c>> \notin blocks
      /\ blocks' = blocks \cup {<<v, c>>}
      /\ follows' = follows \ Both(v, c) /\ asked' = asked \ Both(v, c)
      /\ Event(both \o (IF v \in Locals THEN both ELSE <<>>) \o gone(v, c) \o gone(c, v),
               {p \in Both(v, c) : p[2] \notin discoverable})
      /\ UNCHANGED <<discoverable, active, server>>
Unblock(v, c) ==
  /\ <<v, c>> \in blocks /\ Acts(v)
  /\ blocks' = blocks \ {<<v, c>>}
  /\ Event(<<>>, Both(v, c))
  /\ UNCHANGED <<discoverable, active, follows, asked, server>>

\* deactivate saves the whole row, reactivate three columns.
Deactivate(u) ==
  /\ u \in Locals \cap active
  /\ active' = active \ {u}
  /\ Event(<<RemoveUser(u)>>, {u} \X Users)
  /\ UNCHANGED <<discoverable, follows, asked, blocks, server>>
Reactivate(u) ==
  /\ u \in Locals \ active
  /\ active' = active \cup {u}
  /\ Event(<<>>, (Locals \X {u}) \cup ({u} \X Users))
  /\ UNCHANGED <<discoverable, follows, asked, blocks, server>>

\* FederatedServer.block and unblock save the status, whose signal queues the
\* task, and update the accounts then.
Close ==
  /\ server = "open"
  /\ server' = "closing"
  /\ Event(<<BulkRemove>>, {})
  /\ UNCHANGED <<discoverable, active, follows, asked, blocks>>
Closed ==
  /\ server = "closing"
  /\ server' = "blocked" /\ active' = active \ Remotes
  /\ UNCHANGED <<discoverable, follows, asked, blocks, store, queue, work, events, unheard>>
Lift ==
  /\ server = "blocked"
  /\ server' = "lifting"
  /\ Event(<<BulkAdd>>, {})
  /\ UNCHANGED <<discoverable, active, follows, asked, blocks>>
Lifted ==
  /\ server = "lifting"
  /\ server' = "open" /\ active' = active \cup Remotes
  /\ unheard' = IF Contains(queue, BulkAdd) THEN unheard ELSE unheard \cup (Locals \X Remotes)
  /\ UNCHANGED <<discoverable, follows, asked, blocks, store, queue, work, events>>

\* The command populate_suggestions, as for a user who has joined.
Repopulate(v) ==
  /\ v \in Locals \cap active
  /\ Event(<<Populate(v)>>, {})
  /\ UNCHANGED rows

-----------------------------------------------------------------------------
\* A worker takes a task and reads the database, and writes later.
Start(w) ==
  /\ Idle(w)
  /\ \E i \in 1 .. Len(queue) :
       /\ inOrder => i = 1 /\ \A x \in Workers : Idle(x)
       /\ work' = [work EXCEPT ![w] = Reads(queue[i])]
       /\ queue' = RemoveAt(queue, i)
  /\ UNCHANGED <<rows, store, events, unheard>>
Finish(w) ==
  /\ ~Idle(w)
  /\ store' = [v \in Locals |-> {c \in Users : \/ <<v, c>> \in work[w].add
                                               \/ c \in store[v] /\ <<v, c>> \notin work[w].drop}]
  /\ work' = [work EXCEPT ![w] = Nothing]
  /\ UNCHANGED <<rows, queue, events, unheard>>

Happen ==
  \/ \E c \in Users : Show(c) \/ Hide(c) \/ Deactivate(c) \/ Reactivate(c) \/ Repopulate(c)
  \/ \E v, c \in Users : \/ Ask(v, c) \/ Withdraw(v, c) \/ Follow(v, c) \/ Unfollow(v, c)
                         \/ Block(v, c) \/ Unblock(v, c)
  \/ Close \/ Closed \/ Lift \/ Lifted

Next ==
  /\ UNCHANGED inOrder
  /\ Happen \/ \E w \in Workers : Start(w) \/ Finish(w)
  /\ everFit' = everFit \cup {p \in Locals \X Users : Fit(p[1], p[2])'}

Spec == Init /\ [][Next]_vars
-----------------------------------------------------------------------------
Settled == inOrder /\ queue = <<>> /\ (\A w \in Workers : Idle(w)) /\ server \in {"open", "blocked"}

\* Nobody is ever suggested to somebody for whom there was no moment to suggest
\* them, because they did not want to be found or one blocked the other.
OnlyEverFit == \A v \in Locals : \A c \in store[v] : <<v, c>> \in everFit

\* When all tasks have run, in order, people see exactly those who want to be
\* found and whom they neither follow nor ask nor block, but for what no task
\* has put right: those who follow them, who came back, whom they unblocked, or
\* whose request ended.
SuggestionsAreExact ==
  Settled => \A v \in Locals \cap active, c \in Users :
    \/ <<v, c>> \in unheard
    \/ c \in Shown(v) <=> Fit(v, c) /\ Unrelated(v, c)
=============================================================================
