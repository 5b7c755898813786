---------------------------- MODULE ListsStreams ----------------------------
(***************************************************************************)
(* The lists page of every local user, a set that lists_stream.py keeps in *)
(* Redis.  Signals of the database queue tasks, a worker reads the rows    *)
(* and later writes the sets.  A list whose privacy may have changed is    *)
(* taken off every page by one task, which queues the one that puts it     *)
(* back.  Memberships of groups and the activity of accounts change who    *)
(* may see a list as well, but have no handler here.                       *)
(***************************************************************************)
EXTENDS Naturals, SequencesExt, Visibility

CONSTANTS
  Users,      \* all local
  Lists,
  Owner,      \* Owner[l]: the user of list l
  GroupOwner,       \* the owner of the group that lists may be in
  Workers,
  MaxEvents,  \* MaxEvents[o]: how many events, when tasks start in order or not
  Orders      \* may tasks overtake each other?  A subset of BOOLEAN

ASSUME ListsAssumption ==
  /\ Owner \in [Lists -> Users] /\ GroupOwner \in Users /\ Anonymous \notin Users
  /\ Orders \subseteq BOOLEAN /\ MaxEvents \in [BOOLEAN -> Nat]

VARIABLES
  inOrder,    \* does a task start when those queued before it are done?
  lists,      \* the lists that there are
  privacy,    \* privacy[l]
  grouped,    \* lists that are the group's
  members,    \* the members of the group
  follows, blocks,
  active,     \* users who are active
  page,       \* page[v]: the lists in the stream of v
  queue,
  work,       \* work[w]: what worker w has read and will write
  events,
  unheard,    \* history: pairs <<user, list>> that changed with no task to follow
  everSeen    \* history: pairs that there was a moment for the user to see the list

rows == <<lists, privacy, grouped, members, follows, blocks, active>>
vars == <<inOrder, rows, page, queue, work, events, unheard, everSeen>>

TheList(l) == [kind |-> "list", owner |-> Owner[l], privacy |-> privacy[l],
               with |-> IF l \in grouped THEN members ELSE {}]
Apart(v, u) == <<v, u>> \in blocks \/ <<u, v>> \in blocks

\* List.privacy_filter, with all levels and with those of get_lists_for_user.
Sees(v, l)   == l \in lists /\ Selects(v, TheList(l), Privacies, follows, blocks)
IsOpen(v, l) == l \in lists /\ Selects(v, TheList(l), {"public", "followers"}, follows, blocks)

\* get_audience.  The query for a direct list of a group compares users' groups
\* with a manager, which raises an error; the task ends there.
NoAudience(l) == privacy[l] = "direct" /\ l \in grouped
InAudience(v, l) ==
  CASE privacy[l] = "direct"    -> Owns(v, TheList(l))
    [] privacy[l] = "followers" -> \/ Owns(v, TheList(l)) \/ Named(v, TheList(l))
                                   \/ Follows(v, TheList(l), follows)
    [] OTHER -> TRUE
\* (Mutants: everybody gets the lists of a group; nobody asks who blocks whom.)
AudienceOfAll(l) ==
  IF l \in grouped THEN {v \in active : ~Apart(v, Owner[l])}
  ELSE {v \in active : ~Apart(v, Owner[l]) /\ InAudience(v, l)}
AudienceUnasked(l) == IF NoAudience(l) THEN {} ELSE {v \in active : InAudience(v, l)}
Audience(l) ==
  IF NoAudience(l) THEN {} ELSE {v \in active : ~Apart(v, Owner[l]) /\ InAudience(v, l)}

-----------------------------------------------------------------------------
(* Tasks, and what each will write after it has read the rows *)

Task(kind, v, x) == [do |-> kind, user |-> v, of |-> x]
AddList(l)       == Task("add_list", Owner[l], l)
RemoveList(l)    == Task("remove_list", Owner[l], l)
MoveList(l)      == Task("move_list", Owner[l], l)        \* remove_list_task(re_add=True)
AddUser(v, u)    == Task("add_user_lists", v, u)
RemoveUser(v, u) == Task("remove_user_lists", v, u)
RemoveUnseen(v, u) == Task("remove_but_public", v, u)     \* exclude_privacy="public"
Populate(v)      == Task("populate_lists", v, v)

Nothing == [add |-> {}, drop |-> {}, then |-> <<>>]
Adding(V, S)   == [add |-> V \X S, drop |-> {}, then |-> <<>>]
Dropping(V, S) == [add |-> {}, drop |-> V \X S, then |-> <<>>]
ListsOf(u)     == {l \in lists : Owner[l] = u}

\* (Mutant: the removal does not put the list back.)
MovedOff(l) == Dropping(active, {l})
Moved(l)    == [add |-> {}, drop |-> active \X {l}, then |-> <<AddList(l)>>]

Reads(t) ==
  CASE t.do = "add_list" ->
         IF t.of \in lists THEN Adding(Audience(t.of), {t.of}) ELSE Nothing
    [] t.do = "remove_list" -> Dropping(active, {t.of})
    [] t.do = "move_list"   -> Moved(t.of)
    [] t.do = "add_user_lists" -> Adding({t.user}, {l \in ListsOf(t.of) : Sees(t.user, l)})
    [] t.do = "remove_user_lists" -> Dropping({t.user}, ListsOf(t.of))
    [] t.do = "remove_but_public" ->
         Dropping({t.user}, {l \in ListsOf(t.of) : privacy[l] # "public"})
    [] t.do = "populate_lists" -> Adding({t.user}, {l \in lists : IsOpen(t.user, l)})

Written(v, w) == (page[v] \ {l \in Lists : <<v, l>> \in w.drop}) \cup {l \in Lists : <<v, l>> \in w.add}

Idle(w) == work[w] = Nothing

Init ==
  /\ inOrder \in Orders
  /\ lists = {} /\ privacy = [l \in Lists |-> "public"] /\ grouped = {}
  /\ members = {GroupOwner}
  /\ follows = {} /\ blocks = {}
  /\ active = Users
  /\ page = [v \in Users |-> {}]
  /\ queue = <<>>
  /\ work = [w \in Workers |-> Nothing]
  /\ events = 0
  /\ unheard = {} /\ everSeen = {}

-----------------------------------------------------------------------------
(* Events of the database, with the tasks their signals queue *)

Told(tasks) == {p \in active \X Lists : Contains(tasks, MoveList(p[2]))}

\* An edit of a list tells all who are active, whatever they had missed.
Event(tasks, without) ==
  /\ events < MaxEvents[inOrder]
  /\ events' = events + 1
  /\ queue' = queue \o tasks
  /\ unheard' = (unheard \cup without) \ Told(tasks)
  /\ UNCHANGED <<inOrder, page, work>>

\* All pairs about lists that are the group's or are u's.
OfGroup == Users \X grouped
Mine(u) == Users \X ListsOf(u)

\* The row is created, and set_remote_id saves it once more within its first save.
Create(l, p, g) ==
  /\ l \notin lists /\ Owner[l] \in active
  /\ g => Owner[l] \in members
  /\ lists' = lists \cup {l}
  /\ privacy' = [privacy EXCEPT ![l] = p]
  /\ grouped' = IF g THEN grouped \cup {l} ELSE grouped
  /\ Event(<<MoveList(l), AddList(l)>>, {})
  /\ UNCHANGED <<members, follows, blocks, active>>

\* List.post saves the form, and again without a group unless a group curates it.
\* (Mutant: the handler is told which fields were saved, and privacy is not one.)
EditQuietly(l, p, g) ==
  /\ l \in lists /\ Owner[l] \in active
  /\ g => Owner[l] \in members
  /\ privacy' = [privacy EXCEPT ![l] = p]
  /\ grouped' = IF g THEN grouped \cup {l} ELSE grouped \ {l}
  /\ Event(<<>>, {})
  /\ UNCHANGED <<lists, members, follows, blocks, active>>
Edit(l, p, g) ==
  /\ l \in lists /\ Owner[l] \in active
  /\ g => Owner[l] \in members
  /\ privacy' = [privacy EXCEPT ![l] = p]
  /\ grouped' = IF g THEN grouped \cup {l} ELSE grouped \ {l}
  /\ Event(<<MoveList(l)>> \o (IF g THEN <<>> ELSE <<MoveList(l)>>), {})
  /\ UNCHANGED <<lists, members, follows, blocks, active>>

Delete(l) ==
  /\ l \in lists /\ Owner[l] \in active
  /\ lists' = lists \ {l} /\ grouped' = grouped \ {l}
  /\ Event(<<RemoveList(l)>>, {})
  /\ UNCHANGED <<privacy, members, follows, blocks, active>>

-----------------------------------------------------------------------------
Follow(v, u) ==
  /\ v # u /\ v \in active /\ <<v, u>> \notin follows /\ ~Apart(v, u)
  /\ follows' = follows \cup {<<v, u>>}
  /\ Event(<<AddUser(v, u)>>, {})
  /\ UNCHANGED <<lists, privacy, grouped, members, blocks, active>>

\* An unfollow takes all lists but the public ones: those that are unlisted, or
\* of a group that v is in, v could still see.
Unfollow(v, u) ==
  /\ <<v, u>> \in follows /\ {v, u} \cap active # {}
  /\ follows' = follows \ {<<v, u>>}
  /\ Event(<<RemoveUnseen(v, u)>>, {v} \X {l \in ListsOf(u) : privacy[l] # "public"})
  /\ UNCHANGED <<lists, privacy, grouped, members, blocks, active>>

\* UserBlocks.save queues both directions, for the row and for its remote_id,
\* and deletes the follows; then the view takes the blocked user's lists and
\* the blocked user out of the group, if it is the blocker's.  (Mutant: only
\* the blocker's page is seen to.)
BlockOneWay(v, u) ==
  /\ v # u /\ v \in active /\ <<v, u>> \notin blocks
  /\ blocks' = blocks \cup {<<v, u>>}
  /\ follows' = follows \ {<<v, u>>, <<u, v>>}
  /\ IF v = GroupOwner THEN grouped' = grouped \ ListsOf(u) /\ members' = members \ {u}
     ELSE UNCHANGED <<grouped, members>>
  /\ Event(<<RemoveUser(v, u)>>, IF v = GroupOwner THEN OfGroup ELSE {})
  /\ UNCHANGED <<lists, privacy, active>>
Block(v, u) ==
  LET both == <<RemoveUser(v, u), RemoveUser(u, v)>>
      gone(x, y) == IF <<x, y>> \in follows THEN <<RemoveUnseen(x, y)>> ELSE <<>>
  IN  /\ v # u /\ v \in active /\ <<v, u>> \notin blocks
      /\ blocks' = blocks \cup {<<v, u>>}
      /\ follows' = follows \ {<<v, u>>, <<u, v>>}
      /\ IF v = GroupOwner THEN grouped' = grouped \ ListsOf(u) /\ members' = members \ {u}
         ELSE UNCHANGED <<grouped, members>>
      /\ Event(both \o both \o gone(v, u) \o gone(u, v), IF v = GroupOwner THEN OfGroup ELSE {})
      /\ UNCHANGED <<lists, privacy, active>>

\* Nothing is put back while the other blocks as well.  (Mutant: never.)
UnblockSilently(v, u) ==
  /\ <<v, u>> \in blocks /\ v \in active
  /\ blocks' = blocks \ {<<v, u>>}
  /\ Event(<<>>, {})
  /\ UNCHANGED <<lists, privacy, grouped, members, follows, active>>
Unblock(v, u) ==
  /\ <<v, u>> \in blocks /\ v \in active
  /\ blocks' = blocks \ {<<v, u>>}
  /\ Event(IF <<u, v>> \in blocks THEN <<>> ELSE <<AddUser(v, u), AddUser(u, v)>>, {})
  /\ UNCHANGED <<lists, privacy, grouped, members, follows, active>>

-----------------------------------------------------------------------------
\* Somebody accepts an invitation to the group, or leaves it with their lists;
\* or the group is deleted, and its lists are closed ones.  All of that writes
\* with update() or to other tables: no signal of List is sent.
Join(u) ==
  /\ u \in active \ members /\ ~Apart(u, GroupOwner) /\ GroupOwner \in members
  /\ members' = members \cup {u}
  /\ Event(<<>>, {u} \X grouped)
  /\ UNCHANGED <<lists, privacy, grouped, follows, blocks, active>>
Leave(u) ==
  /\ u \in members \ {GroupOwner}
  /\ members' = members \ {u} /\ grouped' = grouped \ ListsOf(u)
  /\ Event(<<>>, ({u} \X grouped) \cup Mine(u))
  /\ UNCHANGED <<lists, privacy, follows, blocks, active>>
DeleteGroup ==
  /\ GroupOwner \in active \cap members
  /\ members' = {} /\ grouped' = {}
  /\ Event(<<>>, OfGroup)
  /\ UNCHANGED <<lists, privacy, follows, blocks, active>>

\* Users deactivate and reactivate their accounts.
Deactivate(u) ==
  /\ u \in active
  /\ active' = active \ {u}
  /\ Event(<<>>, {u} \X Lists)
  /\ UNCHANGED <<lists, privacy, grouped, members, follows, blocks>>
Reactivate(u) ==
  /\ u \in Users \ active
  /\ active' = active \cup {u}
  /\ Event(<<>>, {})
  /\ UNCHANGED <<lists, privacy, grouped, members, follows, blocks>>

\* The command populate_lists_streams, as it does for a user who has joined.
Repopulate(v) ==
  /\ v \in active
  /\ Event(<<Populate(v)>>, {})
  /\ UNCHANGED rows

-----------------------------------------------------------------------------
\* A worker takes a task and reads the database.
Start(w) ==
  /\ Idle(w)
  /\ \E i \in 1 .. Len(queue) :
       /\ inOrder => i = 1 /\ \A x \in Workers : Idle(x)
       /\ work' = [work EXCEPT ![w] = Reads(queue[i])]
       /\ queue' = RemoveAt(queue, i)
  /\ UNCHANGED <<inOrder, rows, page, events, unheard>>

\* It executes its pipeline, and may queue a task.
Finish(w) ==
  /\ ~Idle(w)
  /\ page' = [v \in Users |-> Written(v, work[w])]
  /\ queue' = queue \o work[w].then
  /\ work' = [work EXCEPT ![w] = Nothing]
  /\ UNCHANGED <<inOrder, rows, events, unheard>>

Happen ==
  \/ \E l \in Lists : \/ Delete(l)
                      \/ \E p \in Privacies, g \in BOOLEAN : Create(l, p, g) \/ Edit(l, p, g)
  \/ \E v, u \in Users : Follow(v, u) \/ Unfollow(v, u) \/ Block(v, u) \/ Unblock(v, u)
  \/ \E u \in Users : Join(u) \/ Leave(u) \/ Deactivate(u) \/ Reactivate(u) \/ Repopulate(u)
  \/ DeleteGroup

Next ==
  /\ Happen \/ \E w \in Workers : Start(w) \/ Finish(w)
  /\ everSeen' = everSeen \cup {p \in Users \X Lists : Sees(p[1], p[2])'}

Spec == Init /\ [][Next]_vars
-----------------------------------------------------------------------------
Tasks ==
  [do : {"add_list", "remove_list", "move_list"}, user : Users, of : Lists] \cup
  [do : {"add_user_lists", "remove_user_lists", "remove_but_public", "populate_lists"},
   user : Users, of : Users]
Works == [add : SUBSET (Users \X Lists), drop : SUBSET (Users \X Lists), then : Seq(Tasks)]

\* The variables have their types, whatever runs.
TypeOK ==
  /\ inOrder \in BOOLEAN
  /\ lists \subseteq Lists /\ privacy \in [Lists -> Privacies] /\ grouped \subseteq lists
  /\ members \subseteq Users /\ active \subseteq Users
  /\ follows \subseteq Users \X Users /\ blocks \subseteq Users \X Users
  /\ page \in [Users -> SUBSET Lists]
  /\ queue \in Seq(Tasks) /\ work \in [Workers -> Works]
  /\ events \in 0 .. MaxEvents[inOrder]
  /\ unheard \subseteq Users \X Lists /\ everSeen \subseteq Users \X Lists

\* "add a list to any stream it should be in": in whatever order tasks run and
\* whatever happens while they do, nobody's page has a list that there was no
\* moment for them to see.
OnlyEverSeen == \A v \in Users : \A l \in page[v] : <<v, l>> \in everSeen

\* Everything that was queued has run, one task after the other.
Settled == inOrder /\ queue = <<>> /\ \A w \in Workers : Idle(w)

\* Pages and queries agree about every list, for users and for visitors.
ListsAgree ==
  \A v \in Users \cup {Anonymous}, l \in Lists : PagesAgree(v, TheList(l), follows, blocks)

\* Every list that is shown can be opened, and every one that its user may see
\* is shown; but for changes that no task follows, and for private lists of a
\* group.
PagesAreExact ==
  Settled => \A v \in active, l \in lists :
    \/ l \in page[v] <=> Sees(v, l)
    \/ <<v, l>> \in unheard
    \/ l \notin page[v] /\ NoAudience(l)
=============================================================================
