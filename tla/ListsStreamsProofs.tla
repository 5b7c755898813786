------------------------- MODULE ListsStreamsProofs -------------------------
(***************************************************************************)
(* What holds of the lists pages for any users, lists, groups, workers and *)
(* bounds, in whatever order the tasks run; and then of the suggestions of *)
(* users to follow.                                                        *)
(***************************************************************************)
EXTENDS MCPages, TLAPS

\* Whatever the kind of object, the two ways to decide who sees it agree.
LEMMA PagesAlwaysAgree ==
  ASSUME NEW Somebody, Anonymous \notin Somebody, NEW o \in Objects(Somebody), NEW v,
         NEW F \in SUBSET (Somebody \X Somebody), NEW B
  PROVE  PagesAgree(v, o, F, B)
<1> USE DEF Opens, Owns, Follows, Named, BlockedBy, Blocking, FollowersFilter, DirectFilter
<1>1. ASSUME NEW levels \in SUBSET Privacies, Selects(v, o, levels, F, B)
      PROVE  Opens(v, o, F, B)
  BY <1>1 DEF Selects, Objects, Privacies
<1>2. ASSUME Opens(v, o, F, B), ~Blocking(v, o, B)
      PROVE  \/ Selects(v, o, Privacies, F, B)
             \/ o.kind = "group" /\ o.privacy = "direct" /\ Owns(v, o) /\ ~Named(v, o)
  <2>1. CASE v = Anonymous
    <3>1. ~Owns(v, o) /\ ~Follows(v, o, F) /\ ~Named(v, o)
      BY <2>1 DEF Objects
    <3> QED
      BY <3>1, <1>2, <2>1 DEF Selects, Objects, Privacies
  <2>2. CASE v # Anonymous
    BY <1>2, <2>2 DEF Selects, Objects, Privacies
  <2> QED
    BY <2>1, <2>2
<1> QED
  BY <1>1, <1>2 DEF PagesAgree

LEMMA InitTypeOK == Init => TypeOK
<1> SUFFICES ASSUME Init PROVE TypeOK
  OBVIOUS
<1>1. work \in [Workers -> Works] /\ queue \in Seq(Tasks)
  BY DEF Init, Works, Nothing
<1> QED
  BY <1>1, ListsAssumption DEF Init, TypeOK, Privacies

LEMMA AddsSeen ==
  ASSUME NEW V \in SUBSET Users, NEW S \in SUBSET Lists,
         \A v \in V, l \in S : Sees(v, l)
  PROVE  /\ Adding(V, S) \in Works
         /\ \A p \in Adding(V, S).add : Sees(p[1], p[2])
BY DEF Adding, Nothing, Works

LEMMA DropsTyped ==
  ASSUME NEW V \in SUBSET Users, NEW S \in SUBSET Lists
  PROVE  /\ Nothing \in Works /\ Dropping(V, S) \in Works
         /\ Nothing.add = {} /\ Dropping(V, S).add = {}
BY DEF Dropping, Nothing, Works

\* What a worker writes is of the right type, and what it adds could be seen at
\* the moment at which it read.
LEMMA ReadsSeen ==
  ASSUME TypeOK, NEW t \in Tasks
  PROVE  /\ Reads(t) \in Works
         /\ \A p \in Reads(t).add : Sees(p[1], p[2])
<1> DEFINE r == Reads(t)
<1> USE AddsSeen, DropsTyped
<1>1. CASE t.do = "add_list"
  <2>1. CASE t.of \notin lists
    <3>1. r = Nothing
      BY <1>1, <2>1 DEF Reads
    <3> QED
      BY <3>1
  <2>2. CASE t.of \in lists
    <3>1. r = Adding(Audience(t.of), {t.of})
      BY <1>1, <2>2 DEF Reads
    <3>2. t.of \in Lists /\ Audience(t.of) \subseteq Users
      BY <2>2 DEF TypeOK, Audience
    <3>3. ASSUME NEW v \in Audience(t.of) PROVE Sees(v, t.of)
      <4>1. /\ ~NoAudience(t.of) /\ v \in active
            /\ ~Apart(v, Owner[t.of]) /\ InAudience(v, t.of)
        BY <3>3 DEF Audience
      <4>2. v \in Users /\ v # Anonymous /\ privacy[t.of] \in Privacies
        BY <4>1, <3>2, ListsAssumption DEF TypeOK
      <4>3. /\ ~BlockedBy(v, TheList(t.of), blocks)
            /\ ~Blocking(v, TheList(t.of), blocks)
        BY <4>1 DEF Apart, BlockedBy, Blocking, TheList
      <4>4. FollowersFilter(v, TheList(t.of), follows)
        BY <4>1 DEF InAudience, FollowersFilter, TheList
      <4>5. DirectFilter(v, TheList(t.of))
        BY <4>1 DEF InAudience, DirectFilter, TheList
      <4> QED
        BY <2>2, <4>2, <4>3, <4>4, <4>5 DEF Sees, Selects, TheList
    <3> QED
      BY <3>1, <3>2, <3>3
  <2> QED
    BY <2>1, <2>2
<1>2. CASE t.do = "remove_list"
  <2>1. r = Dropping(active, {t.of}) /\ t.of \in Lists
    BY <1>2 DEF Reads, Tasks
  <2>2. {t.of} \in SUBSET Lists /\ active \in SUBSET Users
    BY <2>1 DEF TypeOK
  <2> QED
    BY <2>1, <2>2
<1>3. CASE t.do = "move_list"
  <2>1. r = Moved(t.of) /\ t.of \in Lists
    BY <1>3 DEF Reads, Tasks
  <2>2. <<AddList(t.of)>> \in Seq(Tasks)
    BY <2>1, ListsAssumption DEF AddList, Task, Tasks
  <2> QED
    BY <2>1, <2>2 DEF TypeOK, Moved, Dropping, Nothing, Works
<1>4. CASE t.do = "add_user_lists"
  <2>1. r = Adding({t.user}, {l \in ListsOf(t.of) : Sees(t.user, l)}) /\ t.user \in Users
    BY <1>4 DEF Reads, Tasks
  <2>2. ListsOf(t.of) \subseteq Lists
    BY DEF TypeOK, ListsOf
  <2> QED
    BY <2>1, <2>2
<1>5. CASE t.do \in {"remove_user_lists", "remove_but_public"}
  <2>1. /\ t.user \in Users
        /\ \/ r = Dropping({t.user}, ListsOf(t.of))
           \/ r = Dropping({t.user}, {l \in ListsOf(t.of) : privacy[l] # "public"})
    BY <1>5 DEF Reads, Tasks
  <2>2. ListsOf(t.of) \subseteq Lists
    BY DEF TypeOK, ListsOf
  <2> QED
    BY <2>1, <2>2
<1>6. CASE t.do = "populate_lists"
  <2>1. r = Adding({t.user}, {l \in lists : IsOpen(t.user, l)}) /\ t.user \in Users
    BY <1>6 DEF Reads, Tasks
  <2>2. ASSUME NEW l \in lists, IsOpen(t.user, l) PROVE Sees(t.user, l)
    <3> DEFINE o == TheList(l)
    <3>1. t.user # Anonymous
      BY <2>1, ListsAssumption
    <3>2. /\ ~BlockedBy(t.user, o, blocks) /\ ~Blocking(t.user, o, blocks)
          /\ o.privacy \in {"public", "followers"} /\ FollowersFilter(t.user, o, follows)
      BY <2>2, <3>1 DEF IsOpen, Selects
    <3>3. DirectFilter(t.user, o) /\ o.privacy \in Privacies
      BY <3>2 DEF DirectFilter, Privacies
    <3> HIDE DEF o
    <3> QED
      BY <3>1, <3>2, <3>3 DEF Sees, Selects, o
  <2>3. {t.user} \in SUBSET Users /\ {l \in lists : IsOpen(t.user, l)} \in SUBSET Lists
    BY <2>1 DEF TypeOK
  <2> QED
    BY <2>1, <2>2, <2>3
<1> QED
  BY <1>1, <1>2, <1>3, <1>4, <1>5, <1>6 DEF Tasks

\* An event queues tasks and leaves the pages and the workers alone.
LEMMA EventTyped ==
  ASSUME TypeOK, NEW tasks \in Seq(Tasks), NEW without \in SUBSET (Users \X Lists),
         Event(tasks, without)
  PROVE  /\ inOrder' \in BOOLEAN /\ events' \in 0 .. MaxEvents[inOrder]'
         /\ queue' \in Seq(Tasks) /\ unheard' \in SUBSET (Users \X Lists)
         /\ page' \in [Users -> SUBSET Lists] /\ work' \in [Workers -> Works]
BY ListsAssumption DEF TypeOK, Event

LEMMA TasksTyped ==
  /\ \A l \in Lists : {AddList(l), RemoveList(l), MoveList(l)} \subseteq Tasks
  /\ \A v, u \in Users :
       {AddUser(v, u), RemoveUser(v, u), RemoveUnseen(v, u), Populate(v)} \subseteq Tasks
BY ListsAssumption
   DEF Tasks, Task, AddList, RemoveList, MoveList, AddUser, RemoveUser, RemoveUnseen, Populate

RowsOK ==
  /\ lists \subseteq Lists /\ privacy \in [Lists -> Privacies] /\ grouped \subseteq lists
  /\ members \subseteq Users /\ active \subseteq Users
  /\ follows \subseteq Users \X Users /\ blocks \subseteq Users \X Users

\* What an event leaves behind.
EventOK ==
  /\ RowsOK'
  /\ \E tasks \in Seq(Tasks), without \in SUBSET (Users \X Lists) : Event(tasks, without)

LEMMA HappenTyped ==
  ASSUME TypeOK, Happen PROVE EventOK
<1> USE TasksTyped, ListsAssumption DEF TypeOK, RowsOK
<1> DEFINE All == Users \X Lists
<1>1. ASSUME NEW l \in Lists, NEW p \in Privacies, NEW g \in BOOLEAN, Create(l, p, g)
      PROVE  EventOK
  <2>1. <<MoveList(l), AddList(l)>> \in Seq(Tasks) /\ {} \in SUBSET All
    OBVIOUS
  <2> QED
    BY <1>1, <2>1 DEF Create, EventOK
<1>2. ASSUME NEW l \in Lists, NEW p \in Privacies, NEW g \in BOOLEAN, Edit(l, p, g)
      PROVE  EventOK
  <2>1. /\ <<MoveList(l)>> \o (IF g THEN <<>> ELSE <<MoveList(l)>>) \in Seq(Tasks)
        /\ {} \in SUBSET All
    OBVIOUS
  <2> QED
    BY <1>2, <2>1 DEF Edit, EventOK
<1>3. ASSUME NEW l \in Lists, Delete(l) PROVE EventOK
  <2>1. <<RemoveList(l)>> \in Seq(Tasks) /\ {} \in SUBSET All
    OBVIOUS
  <2> QED
    BY <1>3, <2>1 DEF Delete, EventOK
<1>4. ASSUME NEW v \in Users, NEW u \in Users, Follow(v, u) PROVE EventOK
  <2>1. <<AddUser(v, u)>> \in Seq(Tasks) /\ {} \in SUBSET All
    OBVIOUS
  <2>2. RowsOK' /\ Event(<<AddUser(v, u)>>, {})
    BY <1>4 DEF Follow
  <2> QED
    BY <2>1, <2>2, Zenon DEF EventOK
<1>5. ASSUME NEW v \in Users, NEW u \in Users, Unfollow(v, u) PROVE EventOK
  <2> DEFINE kept == {v} \X {l \in ListsOf(u) : privacy[l] # "public"}
  <2>1. <<RemoveUnseen(v, u)>> \in Seq(Tasks) /\ kept \in SUBSET All
    BY DEF ListsOf
  <2>2. RowsOK' /\ Event(<<RemoveUnseen(v, u)>>, kept)
    BY <1>5 DEF Unfollow
  <2> HIDE DEF kept
  <2> QED
    BY <2>1, <2>2 DEF EventOK
<1>6. ASSUME NEW v \in Users, NEW u \in Users, Block(v, u) PROVE EventOK
  <2> DEFINE both == <<RemoveUser(v, u), RemoveUser(u, v)>>
             gone(x, y) == IF <<x, y>> \in follows THEN <<RemoveUnseen(x, y)>> ELSE <<>>
             without == IF v = GroupOwner THEN OfGroup ELSE {}
             tasks == both \o both \o gone(v, u) \o gone(u, v)
  <2>1. both \in Seq(Tasks) /\ gone(v, u) \in Seq(Tasks) /\ gone(u, v) \in Seq(Tasks)
    OBVIOUS
  <2>2. tasks \in Seq(Tasks)
    <3> HIDE DEF both, gone
    <3> QED
      BY <2>1
  <2>3. without \in SUBSET All
    BY DEF OfGroup
  <2>4. RowsOK' /\ Event(tasks, without)
    BY <1>6 DEF Block
  <2> QED
    BY <2>2, <2>3, <2>4 DEF EventOK
<1>7. ASSUME NEW v \in Users, NEW u \in Users, Unblock(v, u) PROVE EventOK
  <2> DEFINE tasks == IF <<u, v>> \in blocks THEN <<>> ELSE <<AddUser(v, u), AddUser(u, v)>>
  <2>1. tasks \in Seq(Tasks) /\ {} \in SUBSET All
    OBVIOUS
  <2>2. RowsOK' /\ Event(tasks, {})
    BY <1>7 DEF Unblock
  <2> QED
    BY <2>1, <2>2 DEF EventOK
<1>8. ASSUME NEW u \in Users, Join(u) \/ Leave(u) \/ Deactivate(u) \/ Reactivate(u)
      PROVE  EventOK
  <2>1. /\ <<>> \in Seq(Tasks) /\ {} \in SUBSET All
        /\ {u} \X grouped \in SUBSET All /\ {u} \X Lists \in SUBSET All
        /\ ({u} \X grouped) \cup Mine(u) \in SUBSET All
    BY DEF Mine, ListsOf
  <2> QED
    BY <1>8, <2>1 DEF Join, Leave, Deactivate, Reactivate, EventOK
<1>9. ASSUME NEW u \in Users, Repopulate(u) PROVE EventOK
  <2>1. <<Populate(u)>> \in Seq(Tasks) /\ {} \in SUBSET All
    OBVIOUS
  <2> QED
    BY <1>9, <2>1 DEF Repopulate, EventOK, rows
<1>10. CASE DeleteGroup
  <2>1. <<>> \in Seq(Tasks) /\ OfGroup \in SUBSET All
    BY DEF OfGroup
  <2> QED
    BY <1>10, <2>1 DEF DeleteGroup, EventOK
<1> QED
  BY <1>1, <1>2, <1>3, <1>4, <1>5, <1>6, <1>7, <1>8, <1>9, <1>10, Happen DEF Happen

\* A worker's steps.  The page is what it was, without some lists and with those
\* that the worker adds.
LEMMA WorkTyped ==
  ASSUME TypeOK, NEW w \in Workers, Start(w) \/ Finish(w)
  PROVE  /\ inOrder' \in BOOLEAN /\ events' \in 0 .. MaxEvents[inOrder]'
         /\ queue' \in Seq(Tasks) /\ unheard' \in SUBSET (Users \X Lists)
         /\ page' \in [Users -> SUBSET Lists] /\ work' \in [Workers -> Works]
         /\ RowsOK'
<1> USE DEF TypeOK, RowsOK, rows
<1>1. CASE Start(w)
  <2>1. PICK i \in 1 .. Len(queue) : /\ work' = [work EXCEPT ![w] = Reads(queue[i])]
                                     /\ queue' = RemoveAt(queue, i)
    BY <1>1 DEF Start
  <2>2. queue[i] \in Tasks /\ queue' \in Seq(Tasks)
    <3>1. queue[i] \in Tasks
      BY <2>1
    <3>2. SubSeq(queue, 1, i - 1) \in Seq(Tasks) /\ SubSeq(queue, i + 1, Len(queue)) \in Seq(Tasks)
      BY <2>1
    <3>3. queue' = SubSeq(queue, 1, i - 1) \o SubSeq(queue, i + 1, Len(queue))
      BY <2>1 DEF RemoveAt
    <3> QED
      BY <3>1, <3>2, <3>3
  <2>3. Reads(queue[i]) \in Works
    BY <2>2, ReadsSeen
  <2> QED
    BY <1>1, <2>1, <2>2, <2>3 DEF Start
<1>2. CASE Finish(w)
  <2>1. queue' \in Seq(Tasks)
    <3>1. work[w] \in Works /\ work[w].then \in Seq(Tasks) /\ queue \in Seq(Tasks)
      BY DEF Works
    <3>2. queue' = queue \o work[w].then
      BY <1>2 DEF Finish
    <3> QED
      BY <3>1, <3>2
  <2>2. page' \in [Users -> SUBSET Lists]
    BY <1>2 DEF Finish, Written
  <2>3. work' \in [Workers -> Works]
    BY <1>2, DropsTyped DEF Finish
  <2> QED
    BY <1>2, <2>1, <2>2, <2>3 DEF Finish
<1> QED
  BY <1>1, <1>2

LEMMA NextTypeOK == TypeOK /\ [Next]_vars => TypeOK'
<1> SUFFICES ASSUME TypeOK, [Next]_vars PROVE TypeOK'
  OBVIOUS
<1>1. CASE Next
  <2>1. everSeen' \subseteq Users \X Lists
    BY <1>1 DEF Next, TypeOK
  <2>2. CASE Happen
    <3>1. EventOK
      BY <2>2, HappenTyped
    <3>2. PICK tasks \in Seq(Tasks), without \in SUBSET (Users \X Lists) : Event(tasks, without)
      BY <3>1 DEF EventOK
    <3>3. /\ inOrder' \in BOOLEAN /\ events' \in 0 .. MaxEvents[inOrder]'
          /\ queue' \in Seq(Tasks) /\ unheard' \in SUBSET (Users \X Lists)
          /\ page' \in [Users -> SUBSET Lists] /\ work' \in [Workers -> Works]
      BY <3>2, EventTyped
    <3> QED
      BY <2>1, <3>1, <3>3 DEF TypeOK, EventOK, RowsOK
  <2>3. ASSUME NEW w \in Workers, Start(w) \/ Finish(w) PROVE TypeOK'
    BY <2>1, <2>3, WorkTyped DEF TypeOK, RowsOK
  <2> QED
    BY <1>1, <2>2, <2>3 DEF Next
<1>2. CASE UNCHANGED vars
  BY <1>2 DEF vars, rows, TypeOK
<1> QED
  BY <1>1, <1>2

\* The variables of ListsStreams keep their types, whatever runs.
THEOREM TypeCorrect == Spec => []TypeOK
BY InitTypeOK, NextTypeOK, PTL DEF Spec

-----------------------------------------------------------------------------
\* What is about to be added could be seen at some moment as well.
SeenOK == \A w \in Workers : \A p \in work[w].add : p \in everSeen
NowSeen == \A v \in Users, l \in Lists : Sees(v, l) => <<v, l>> \in everSeen
Seen    == OnlyEverSeen /\ SeenOK /\ NowSeen

LEMMA InitSeen == Init => Seen
BY DEF Init, Seen, OnlyEverSeen, SeenOK, NowSeen, Nothing, Sees

LEMMA NextSeen == TypeOK /\ TypeOK' /\ Seen /\ [Next]_vars => Seen'
<1> SUFFICES ASSUME TypeOK, TypeOK', Seen, [Next]_vars PROVE Seen'
  OBVIOUS
<1> USE DEF Seen
<1>1. CASE Next
  <2>1. everSeen \subseteq everSeen' /\ NowSeen'
    BY <1>1 DEF Next, NowSeen
  <2>2. CASE Happen
    <3>1. page' = page /\ work' = work
      BY <2>2 DEF Happen, Create, Edit, Delete, Follow, Unfollow, Block, Unblock,
                  Join, Leave, DeleteGroup, Deactivate, Reactivate, Repopulate, Event
    <3> QED
      BY <2>1, <3>1 DEF OnlyEverSeen, SeenOK
  <2>3. ASSUME NEW w \in Workers, Start(w) PROVE Seen'
    <3>1. PICK i \in 1 .. Len(queue) : work' = [work EXCEPT ![w] = Reads(queue[i])]
      BY <2>3 DEF Start
    <3>2. queue[i] \in Tasks
      BY <3>1 DEF TypeOK
    <3>3. \A p \in Reads(queue[i]).add : p \in everSeen
      <4>1. Reads(queue[i]) \in Works /\ \A p \in Reads(queue[i]).add : Sees(p[1], p[2])
        BY <3>2, ReadsSeen
      <4>2. ASSUME NEW p \in Reads(queue[i]).add PROVE p \in everSeen
        <5>1. p \in Users \X Lists
          BY <4>1 DEF Works
        <5>2. p = <<p[1], p[2]>> /\ p[1] \in Users /\ p[2] \in Lists /\ Sees(p[1], p[2])
          BY <5>1, <4>1
        <5> QED
          BY <5>2 DEF NowSeen
      <4> QED
        BY <4>2
    <3>4. SeenOK'
      BY <2>1, <3>1, <3>3 DEF SeenOK, TypeOK
    <3>5. page' = page
      BY <2>3 DEF Start
    <3> QED
      BY <2>1, <3>4, <3>5 DEF OnlyEverSeen
  <2>4. ASSUME NEW w \in Workers, Finish(w) PROVE Seen'
    <3>1. SeenOK'
      BY <2>1, <2>4 DEF Finish, SeenOK, Nothing, TypeOK
    <3>2. ASSUME NEW v \in Users, NEW l \in page'[v] PROVE <<v, l>> \in everSeen
      <4>1. l \in page[v] \/ <<v, l>> \in work[w].add
        BY <2>4, <3>2 DEF Finish, Written
      <4> QED
        BY <4>1 DEF OnlyEverSeen, SeenOK
    <3> QED
      BY <2>1, <3>1, <3>2 DEF OnlyEverSeen
  <2> QED
    BY <1>1, <2>2, <2>3, <2>4 DEF Next
<1>2. CASE UNCHANGED vars
  <2>1. /\ page' = page /\ work' = work /\ everSeen' = everSeen
        /\ \A v \in Users, l \in Lists : Sees(v, l)' = Sees(v, l)
    BY <1>2 DEF vars, rows, Sees, TheList
  <2> QED
    BY <2>1 DEF OnlyEverSeen, SeenOK, NowSeen
<1> QED
  BY <1>1, <1>2

\* For any users, lists, groups and workers, and tasks that overtake each other
\* at will, nobody's page has a list that there was no moment for them to see.
THEOREM NothingUnseen == Spec => []OnlyEverSeen
<1>1. Init => TypeOK /\ Seen
  BY InitTypeOK, InitSeen
<1>2. (TypeOK /\ Seen) /\ [Next]_vars => (TypeOK /\ Seen)'
  BY NextTypeOK, NextSeen
<1>3. TypeOK /\ Seen => OnlyEverSeen
  BY DEF Seen
<1> QED
  BY <1>1, <1>2, <1>3, PTL DEF Spec

\* For any of them, the page of a list opens for whom queries select it, and
\* queries select it for whom it opens unless the viewer blocks its owner.
THEOREM PagesAndQueriesAgree == Spec => []ListsAgree
<1>1. TypeOK => ListsAgree
  <2> SUFFICES ASSUME TypeOK, NEW v \in Users \cup {Anonymous}, NEW l \in Lists
               PROVE  PagesAgree(v, TheList(l), follows, blocks)
    BY DEF ListsAgree
  <2>1. TheList(l) \in Objects(Users)
    BY ListsAssumption DEF TypeOK, TheList, Objects, Kinds
  <2> QED
    BY <2>1, PagesAlwaysAgree, ListsAssumption DEF TypeOK
<1> QED
  BY <1>1, TypeCorrect, PTL

-----------------------------------------------------------------------------
(* What a page will have when the tasks are done *)

\* v's page once the workers have written.
Shown(v, l) == \/ \E w \in Workers : <<v, l>> \in work[w].add
               \/ l \in page[v] /\ \A w \in Workers : <<v, l>> \notin work[w].drop

\* Tasks that put l on v's page if v may see it, and tasks that take it away.
Puts(t, v, l)  == \/ t.do = "add_list" /\ t.of = l
                  \/ t.do = "add_user_lists" /\ t.user = v /\ t.of = Owner[l]
Parts(t, v, l) == t.do = "remove_user_lists" /\ t.user = v /\ t.of = Owner[l]
Takes(t, v, l) ==
  \/ t.do = "remove_list" /\ t.of = l
  \/ Parts(t, v, l)
  \/ t.do = "remove_but_public" /\ t.user = v /\ t.of = Owner[l] /\ privacy[l] # "public"
Moves(t, l)    == t.do = "move_list" /\ t.of = l

\* l will be put on all the pages that it belongs on.
Moving(l) ==
  \/ \E i \in 1 .. Len(queue) : Moves(queue[i], l)
  \/ \E w \in Workers : \E i \in 1 .. Len(work[w].then) : work[w].then[i].of = l

\* Something puts l on v's page, or it is there, and nothing takes it after that.
Coming(v, l) ==
  \E i \in 0 .. Len(queue) :
    /\ IF i = 0 THEN Shown(v, l) ELSE Puts(queue[i], v, l)
    /\ \A j \in 1 .. Len(queue) : j > i => ~Takes(queue[j], v, l)
Going(v, l) == \E i \in 1 .. Len(queue) : Moves(queue[i], l) \/ Parts(queue[i], v, l)

\* The page of v will be right about l.
WillBeRight(v, l) ==
  /\ ~Sees(v, l) /\ Shown(v, l) => Going(v, l)
  /\ Sees(v, l) => Moving(l) \/ NoAudience(l) \/ Coming(v, l)

\* Who is away has missed something about every list.
AwayIsUnheard == \A v \in Users \ active, l \in Lists : <<v, l>> \in unheard

\* Tasks that keep their order are done one at a time, and queue only additions.
OneAtWork ==
  /\ \A w, x \in Workers : Idle(w) \/ Idle(x) \/ w = x
  /\ \A w \in Workers : work[w].then = <<>> \/ \E l \in Lists : work[w].then = <<AddList(l)>>

PagesInv ==
  /\ AwayIsUnheard /\ \A u \in Users : <<u, u>> \notin blocks
  /\ inOrder => /\ OneAtWork
                /\ \A v \in active, l \in lists : <<v, l>> \in unheard \/ WillBeRight(v, l)

\* What it takes to see a list.
In(v, l)  == l \in grouped /\ v \in members
May(v, l) ==
  /\ privacy[l] = "followers" => <<v, Owner[l]>> \in follows \/ v = Owner[l] \/ In(v, l)
  /\ privacy[l] = "direct" => v = Owner[l] \/ In(v, l)

Sight == \A v \in Users, l \in Lists :
           Sees(v, l) <=> l \in lists /\ ~Apart(v, Owner[l]) /\ May(v, l)

LEMMA SeesIs == TypeOK => Sight
<1> SUFFICES ASSUME TypeOK, NEW v \in Users, NEW l \in Lists
             PROVE  Sees(v, l) <=> l \in lists /\ ~Apart(v, Owner[l]) /\ May(v, l)
  BY DEF Sight
<1>1. v # Anonymous /\ privacy[l] \in Privacies /\ {"followers", "direct"} \subseteq Privacies
  BY ListsAssumption DEF TypeOK, Privacies
<1>2. PICK o : o = TheList(l)
  OBVIOUS
<1>3. /\ o.kind = "list" /\ o.owner = Owner[l] /\ o.privacy = privacy[l]
      /\ o.with = IF l \in grouped THEN members ELSE {}
  BY <1>2 DEF TheList
<1>4. BlockedBy(v, o, blocks) \/ Blocking(v, o, blocks) <=> Apart(v, Owner[l])
  BY <1>3 DEF BlockedBy, Blocking, Apart
<1>5. Named(v, o) <=> In(v, l)
  BY <1>3 DEF Named, In
<1>6. FollowersFilter(v, o, follows) /\ DirectFilter(v, o) <=> May(v, l)
  BY <1>3, <1>5 DEF FollowersFilter, DirectFilter, Follows, Owns, May
<1>7. Sees(v, l) <=> /\ l \in lists /\ ~BlockedBy(v, o, blocks) /\ ~Blocking(v, o, blocks)
                     /\ FollowersFilter(v, o, follows) /\ DirectFilter(v, o)
  BY <1>1, <1>2, <1>3 DEF Sees, Selects
<1> QED
  BY <1>4, <1>6, <1>7

LEMMA SeersAreAudience ==
  ASSUME TypeOK, NEW v \in active, NEW l \in lists, Sees(v, l), ~NoAudience(l)
  PROVE  v \in Audience(l)
<1>1. v \in Users /\ l \in Lists
  BY DEF TypeOK
<1>2. ~Apart(v, Owner[l]) /\ May(v, l)
  BY <1>1, SeesIs DEF Sight
<1>3. PICK o : o = TheList(l)
  OBVIOUS
<1>4. /\ o.kind = "list" /\ o.owner = Owner[l] /\ o.privacy = privacy[l]
      /\ o.with = IF l \in grouped THEN members ELSE {}
  BY <1>3 DEF TheList
<1>5. /\ Owns(v, o) <=> v = Owner[l]
      /\ Named(v, o) <=> In(v, l)
      /\ Follows(v, o, follows) <=> <<v, Owner[l]>> \in follows
  BY <1>4 DEF Owns, Named, In, Follows
<1>6. privacy[l] = "direct" => Owns(v, o)
  BY <1>2, <1>5 DEF May, In, NoAudience
<1>7. privacy[l] = "followers" => Owns(v, o) \/ Named(v, o) \/ Follows(v, o, follows)
  BY <1>2, <1>5 DEF May
<1>8. InAudience(v, l)
  BY <1>3, <1>6, <1>7 DEF InAudience
<1> QED
  BY <1>2, <1>8 DEF Audience

\* What a task will write about a page.
LEMMA ReadsAbout ==
  ASSUME TypeOK, NEW t \in Tasks, NEW v \in active, NEW l \in lists
  PROVE  /\ Puts(t, v, l) /\ Sees(v, l) /\ ~NoAudience(l) => <<v, l>> \in Reads(t).add
         /\ Moves(t, l) \/ Parts(t, v, l) => <<v, l>> \in Reads(t).drop /\ <<v, l>> \notin Reads(t).add
         /\ ~Takes(t, v, l) /\ ~Moves(t, l) => <<v, l>> \notin Reads(t).drop
         /\ Moves(t, l) => \E i \in 1 .. Len(Reads(t).then) : Reads(t).then[i].of = l
<1>1. v \in Users /\ l \in Lists /\ l \in ListsOf(Owner[l])
  BY DEF TypeOK, ListsOf
<1>2. /\ Nothing.add = {} /\ Nothing.drop = {} /\ Nothing.then = <<>>
      /\ \A V, S : /\ Adding(V, S).add = V \X S /\ Adding(V, S).drop = {}
                   /\ Dropping(V, S).add = {} /\ Dropping(V, S).drop = V \X S
      /\ Moved(l).add = {} /\ Moved(l).drop = active \X {l} /\ Moved(l).then = <<AddList(l)>>
  BY DEF Nothing, Adding, Dropping, Moved
<1>3. PICK r : r = Reads(t)
  OBVIOUS
<1>4. CASE t.do = "add_list"
  <2>1. r = IF t.of \in lists THEN Adding(Audience(t.of), {t.of}) ELSE Nothing
    BY <1>3, <1>4 DEF Reads
  <2>2. r.drop = {}
    BY <1>2, <2>1
  <2>3. Puts(t, v, l) /\ Sees(v, l) /\ ~NoAudience(l) => <<v, l>> \in r.add
    BY <1>2, <1>4, <2>1, SeersAreAudience DEF Puts
  <2> QED
    BY <1>3, <1>4, <2>2, <2>3 DEF Parts, Moves
<1>5. CASE t.do = "remove_list"
  <2>1. r = Dropping(active, {t.of})
    BY <1>3, <1>5 DEF Reads
  <2>2. t.of # l => <<v, l>> \notin r.drop
    BY <1>2, <2>1
  <2> QED
    BY <1>3, <1>5, <2>2 DEF Parts, Moves, Puts, Takes
<1>6. CASE t.do = "move_list"
  <2>1. r = Moved(t.of)
    BY <1>3, <1>6 DEF Reads
  <2>2. t.of # l => <<v, l>> \notin r.drop
    BY <2>1 DEF Moved
  <2>3. t.of = l => <<v, l>> \in r.drop /\ <<v, l>> \notin r.add /\ r.then = <<AddList(l)>>
    BY <1>2, <2>1
  <2>4. AddList(l).of = l
    BY DEF AddList, Task
  <2>5. ASSUME t.of = l PROVE \E i \in 1 .. Len(r.then) : r.then[i].of = l
    <3>1. Len(r.then) = 1 /\ r.then[1] = AddList(l)
      BY <2>3, <2>5
    <3> QED
      BY <2>4, <3>1
  <2> QED
    BY <1>3, <1>6, <2>2, <2>3, <2>5 DEF Parts, Moves, Puts, Takes
<1>7. CASE t.do = "add_user_lists"
  <2>1. r = Adding({t.user}, {x \in ListsOf(t.of) : Sees(t.user, x)})
    BY <1>3, <1>7 DEF Reads
  <2>2. r.drop = {}
    BY <1>2, <2>1
  <2>3. Puts(t, v, l) /\ Sees(v, l) => <<v, l>> \in r.add
    BY <1>1, <1>2, <1>7, <2>1 DEF Puts
  <2> QED
    BY <1>3, <1>7, <2>2, <2>3 DEF Parts, Moves
<1>8. CASE t.do = "remove_user_lists"
  <2>1. r = Dropping({t.user}, ListsOf(t.of))
    BY <1>3, <1>8 DEF Reads
  <2>2. <<v, l>> \in r.drop <=> t.user = v /\ t.of = Owner[l]
    BY <1>2, <2>1 DEF ListsOf
  <2>3. r.add = {}
    BY <1>2, <2>1
  <2> QED
    BY <1>3, <1>8, <2>2, <2>3 DEF Parts, Moves, Puts, Takes
<1>9. CASE t.do = "remove_but_public"
  <2>1. r = Dropping({t.user}, {x \in ListsOf(t.of) : privacy[x] # "public"})
    BY <1>3, <1>9 DEF Reads
  <2>2. <<v, l>> \in r.drop => t.user = v /\ t.of = Owner[l] /\ privacy[l] # "public"
    BY <1>2, <2>1 DEF ListsOf
  <2> QED
    BY <1>3, <1>9, <2>2 DEF Parts, Moves, Puts, Takes
<1>10. CASE t.do = "populate_lists"
  <2>1. r = Adding({t.user}, {x \in lists : IsOpen(t.user, x)})
    BY <1>3, <1>10 DEF Reads
  <2>2. r.drop = {}
    BY <1>2, <2>1
  <2> QED
    BY <1>3, <1>10, <2>2 DEF Parts, Moves, Puts
<1> QED
  BY <1>4, <1>5, <1>6, <1>7, <1>8, <1>9, <1>10 DEF Tasks

-----------------------------------------------------------------------------
(* Events *)

\* Of what an event queues behind the other tasks.
LEMMA QueuedBehind ==
  ASSUME TypeOK, NEW tasks \in Seq(Tasks), queue' = queue \o tasks, UNCHANGED <<page, work>>,
         NEW v, NEW l, UNCHANGED privacy[l]
  PROVE  /\ Shown(v, l)' <=> Shown(v, l)
         /\ Moving(l) => Moving(l)'
         /\ Going(v, l) => Going(v, l)'
         /\ (\E k \in 1 .. Len(tasks) : Moves(tasks[k], l)) => Moving(l)' /\ Going(v, l)'
         /\ (\E k \in 1 .. Len(tasks) : Parts(tasks[k], v, l)) => Going(v, l)'
         /\ (\A k \in 1 .. Len(tasks) : ~Takes(tasks[k], v, l)) =>
              /\ Coming(v, l) => Coming(v, l)'
              /\ (\E k \in 1 .. Len(tasks) : Puts(tasks[k], v, l)) => Coming(v, l)'
<1>1. PICK n, m \in Nat : n = Len(queue) /\ m = Len(tasks)
  BY DEF TypeOK
<1>2. /\ Len(queue') = n + m
      /\ \A i \in 1 .. n : i \in 1 .. n + m /\ queue'[i] = queue[i]
      /\ \A k \in 1 .. m : n + k \in 1 .. n + m /\ queue'[n + k] = tasks[k]
      /\ \A j \in 1 .. n + m : j \in 1 .. n \/ (j - n \in 1 .. m /\ queue'[j] = tasks[j - n])
  BY <1>1 DEF TypeOK
<1>3. Shown(v, l)' <=> Shown(v, l)
  BY DEF Shown
<1>4. \A t : Takes(t, v, l)' <=> Takes(t, v, l)
  BY DEF Takes, Parts
<1>5. (Moving(l) => Moving(l)') /\ (Going(v, l) => Going(v, l)')
  BY <1>1, <1>2 DEF Moving, Going, Moves, Parts
<1>6. ASSUME NEW k \in 1 .. m, Moves(tasks[k], l) PROVE Moving(l)' /\ Going(v, l)'
  <2>1. n + k \in 1 .. Len(queue') /\ Moves(queue'[n + k], l)
    BY <1>2, <1>6
  <2> QED
    BY <2>1 DEF Moving, Going, Moves
<1>7. ASSUME NEW k \in 1 .. m, Parts(tasks[k], v, l) PROVE Going(v, l)'
  <2>1. n + k \in 1 .. Len(queue') /\ Parts(queue'[n + k], v, l)
    BY <1>2, <1>7
  <2> QED
    BY <2>1 DEF Going, Parts
<1>8. ASSUME \A k \in 1 .. m : ~Takes(tasks[k], v, l), Coming(v, l) PROVE Coming(v, l)'
  <2>1. PICK i \in 0 .. n : /\ IF i = 0 THEN Shown(v, l) ELSE Puts(queue[i], v, l)
                            /\ \A j \in 1 .. n : j > i => ~Takes(queue[j], v, l)
    BY <1>1, <1>8 DEF Coming
  <2>2. i \in 0 .. n + m /\ IF i = 0 THEN Shown(v, l)' ELSE Puts(queue'[i], v, l)
    BY <1>2, <1>3, <2>1
  <2>3. ASSUME NEW j \in 1 .. n + m, j > i PROVE ~Takes(queue'[j], v, l)
    BY <1>2, <1>8, <2>1, <2>3
  <2> QED
    BY <1>2, <1>4, <2>2, <2>3 DEF Coming, Puts
<1>9. ASSUME \A k \in 1 .. m : ~Takes(tasks[k], v, l), NEW k \in 1 .. m, Puts(tasks[k], v, l)
      PROVE  Coming(v, l)'
  <2>1. n + k \in 0 .. n + m /\ n + k # 0 /\ Puts(queue'[n + k], v, l)
    BY <1>2, <1>9
  <2>2. ASSUME NEW j \in 1 .. n + m, j > n + k PROVE ~Takes(queue'[j], v, l)
    BY <1>2, <1>9, <2>2
  <2> QED
    BY <1>2, <1>4, <2>1, <2>2 DEF Coming, Puts
<1> QED
  BY <1>1, <1>3, <1>5, <1>6, <1>7, <1>8, <1>9

\* What suffices for the page of v to stay right about l.
LEMMA StaysRight ==
  ASSUME TypeOK, NEW tasks \in Seq(Tasks), NEW v, NEW l, WillBeRight(v, l),
         queue' = queue \o tasks, UNCHANGED <<page, work, privacy[l]>>,
         ~Sees(v, l)' => ~Sees(v, l) \/ \E k \in 1 .. Len(tasks) : Parts(tasks[k], v, l),
         Sees(v, l)' =>
           /\ \A k \in 1 .. Len(tasks) : ~Takes(tasks[k], v, l)
           /\ \/ Sees(v, l) /\ (NoAudience(l) => NoAudience(l)')
              \/ \E k \in 1 .. Len(tasks) : Puts(tasks[k], v, l)
  PROVE  WillBeRight(v, l)'
BY QueuedBehind DEF WillBeRight

\* An event that moves l makes every page right about it.
LEMMA MovedIsRight ==
  ASSUME TypeOK, NEW tasks \in Seq(Tasks), NEW v, NEW l, NEW k \in 1 .. Len(tasks),
         Moves(tasks[k], l), queue' = queue \o tasks
  PROVE  WillBeRight(v, l)'
<1>1. PICK i \in 1 .. Len(queue') : Moves(queue'[i], l)
  <2>1. /\ Len(queue) + k \in 1 .. Len(queue \o tasks)
        /\ (queue \o tasks)[Len(queue) + k] = tasks[k]
    BY DEF TypeOK
  <2> QED
    BY <2>1
<1> QED
  BY <1>1 DEF WillBeRight, Going, Moving, Moves

\* Who has heard of all changes had heard of the earlier ones.
LEMMA HeardBefore ==
  ASSUME TypeOK, PagesInv, inOrder, NEW tasks \in Seq(Tasks), NEW without, Event(tasks, without),
         NEW v \in Users, NEW l \in lists, <<v, l>> \notin unheard',
         \A k \in 1 .. Len(tasks) : ~Moves(tasks[k], l)
  PROVE  /\ v \in active /\ WillBeRight(v, l) /\ <<v, l>> \notin without
         /\ queue' = queue \o tasks /\ UNCHANGED <<page, work>>
<1>1. MoveList(l).do = "move_list" /\ MoveList(l).of = l /\ l \in Lists
  BY DEF MoveList, Task, TypeOK
<1>2. ~Contains(tasks, MoveList(l))
  BY <1>1 DEF Contains, Moves
<1>3. <<v, l>> \notin Told(tasks)
  BY <1>2 DEF Told
<1>4. <<v, l>> \notin unheard /\ <<v, l>> \notin without
  BY <1>3 DEF Event
<1>5. v \in active
  BY <1>1, <1>4 DEF PagesInv, AwayIsUnheard
<1> QED
  BY <1>4, <1>5 DEF PagesInv, Event

\* Who sees a list sees it as long as none of this changes.
LEMMA SeesSame ==
  ASSUME TypeOK, TypeOK', NEW v \in Users, NEW l \in lists, l \in lists', UNCHANGED privacy[l],
         In(v, l)' <=> In(v, l), Apart(v, Owner[l])' <=> Apart(v, Owner[l]),
         <<v, Owner[l]>> \in follows' <=> <<v, Owner[l]>> \in follows
  PROVE  Sees(v, l)' <=> Sees(v, l)
<1>1. Sight'
  BY SeesIs, PTL
<1>2. l \in Lists
  BY DEF TypeOK
<1>3. May(v, l)' <=> May(v, l)
  BY DEF May
<1> QED
  BY <1>1, <1>2, <1>3, SeesIs DEF Sight

\* Of an event after which v sees what v saw before.
LEMMA NothingNew ==
  ASSUME TypeOK, TypeOK', PagesInv, inOrder, NEW tasks \in Seq(Tasks), NEW without,
         Event(tasks, without), NEW v \in Users, NEW l \in lists, l \in lists',
         <<v, l>> \notin unheard',
         \A k \in 1 .. Len(tasks) : ~Moves(tasks[k], l) /\ ~Takes(tasks[k], v, l),
         UNCHANGED privacy[l], In(v, l)' <=> In(v, l), NoAudience(l) => NoAudience(l)',
         Apart(v, Owner[l])' <=> Apart(v, Owner[l]),
         <<v, Owner[l]>> \in follows' <=> <<v, Owner[l]>> \in follows
  PROVE  WillBeRight(v, l)'
<1>1. Sees(v, l)' <=> Sees(v, l)
  BY SeesSame
<1> QED
  BY <1>1, HeardBefore, StaysRight

LEMMA ListEvents ==
  ASSUME TypeOK, TypeOK', PagesInv, inOrder, NEW v \in active', NEW l \in lists',
         <<v, l>> \notin unheard', NEW x \in Lists, NEW p \in Privacies, NEW g \in BOOLEAN,
         Create(x, p, g) \/ Edit(x, p, g) \/ Delete(x)
  PROVE  WillBeRight(v, l)'
<1> USE TasksTyped
<1>1. v \in Users /\ l \in Lists
  BY DEF TypeOK
<1>2. /\ MoveList(x).do = "move_list" /\ MoveList(x).of = x
      /\ AddList(x).do = "add_list" /\ RemoveList(x).do = "remove_list" /\ RemoveList(x).of = x
  BY DEF MoveList, AddList, RemoveList, Task
<1>3. PICK tasks, without :
        /\ tasks \in Seq(Tasks)
        /\ Event(tasks, without)
        /\ \A k \in 1 .. Len(tasks) : tasks[k] \in {MoveList(x), AddList(x), RemoveList(x)}
        /\ \/ 1 \in 1 .. Len(tasks) /\ tasks[1] = MoveList(x)
           \/ x \notin lists'
        /\ l # x => l \in lists
  <2>1. CASE Create(x, p, g)
    <3>1. PICK tasks : tasks = <<MoveList(x), AddList(x)>>
      OBVIOUS
    <3>2. /\ tasks \in Seq(Tasks) /\ 1 \in 1 .. Len(tasks) /\ tasks[1] = MoveList(x)
          /\ \A k \in 1 .. Len(tasks) : tasks[k] \in {MoveList(x), AddList(x)}
      BY <3>1
    <3>3. Event(tasks, {}) /\ (l # x => l \in lists)
      BY <2>1, <3>1 DEF Create
    <3> QED
      BY <3>2, <3>3
  <2>2. CASE Edit(x, p, g)
    <3>1. PICK tasks : tasks = <<MoveList(x)>> \o (IF g THEN <<>> ELSE <<MoveList(x)>>)
      OBVIOUS
    <3>2. /\ tasks \in Seq(Tasks) /\ 1 \in 1 .. Len(tasks) /\ tasks[1] = MoveList(x)
          /\ \A k \in 1 .. Len(tasks) : tasks[k] = MoveList(x)
      <4>1. CASE g
        BY <3>1, <4>1
      <4>2. CASE ~g
        BY <3>1, <4>2
      <4> QED
        BY <4>1, <4>2
    <3>3. Event(tasks, {}) /\ l \in lists
      BY <2>2, <3>1 DEF Edit
    <3> QED
      BY <3>2, <3>3
  <2>3. CASE Delete(x)
    <3>1. PICK tasks : tasks = <<RemoveList(x)>>
      OBVIOUS
    <3>2. tasks \in Seq(Tasks) /\ \A k \in 1 .. Len(tasks) : tasks[k] = RemoveList(x)
      BY <3>1
    <3>3. Event(tasks, {}) /\ x \notin lists' /\ l \in lists
      BY <2>3, <3>1 DEF Delete
    <3> QED
      BY <3>2, <3>3
  <2> QED
    BY <2>1, <2>2, <2>3
<1>4. CASE l = x
  BY <1>2, <1>3, <1>4, MovedIsRight DEF Moves, Event
<1>5. CASE l # x
  <2>1. \A k \in 1 .. Len(tasks) : ~Moves(tasks[k], l) /\ ~Takes(tasks[k], v, l)
    BY <1>2, <1>3, <1>5 DEF Moves, Takes, Parts
  <2>2. /\ UNCHANGED <<members, follows, blocks, privacy[l]>>
        /\ l \in grouped' <=> l \in grouped
    BY <1>1, <1>5 DEF Create, Edit, Delete, TypeOK
  <2>3. /\ In(v, l)' <=> In(v, l)
        /\ NoAudience(l) => NoAudience(l)'
        /\ Apart(v, Owner[l])' <=> Apart(v, Owner[l])
    BY <2>2 DEF In, NoAudience, Apart
  <2> QED
    BY <1>1, <1>3, <1>5, <2>1, <2>2, <2>3, NothingNew
<1> QED
  BY <1>4, <1>5

LEMMA FollowEvents ==
  ASSUME TypeOK, TypeOK', PagesInv, inOrder, NEW v \in active', NEW l \in lists',
         <<v, l>> \notin unheard', NEW a \in Users, NEW b \in Users,
         Follow(a, b) \/ Unfollow(a, b)
  PROVE  WillBeRight(v, l)'
<1> USE TasksTyped
<1>1. /\ v \in Users /\ l \in Lists /\ l \in lists /\ Owner[l] \in Users
      /\ UNCHANGED <<lists, privacy, grouped, members, blocks>>
  BY ListsAssumption DEF TypeOK, Follow, Unfollow
<1>2. /\ In(v, l)' <=> In(v, l)
      /\ NoAudience(l) => NoAudience(l)'
      /\ Apart(v, Owner[l])' <=> Apart(v, Owner[l])
  BY <1>1 DEF In, NoAudience, Apart
<1>3. CASE Follow(a, b)
  <2>1. PICK tasks : tasks = <<AddUser(a, b)>>
    OBVIOUS
  <2>2. tasks \in Seq(Tasks) /\ 1 \in 1 .. Len(tasks) /\ Event(tasks, {})
    BY <1>3, <2>1 DEF Follow
  <2>3. \A k \in 1 .. Len(tasks) : tasks[k] = AddUser(a, b)
    BY <2>1
  <2>4. \A k \in 1 .. Len(tasks) : ~Moves(tasks[k], l) /\ ~Takes(tasks[k], v, l)
    BY <2>3 DEF Moves, Takes, Parts, AddUser, Task
  <2>5. CASE v = a /\ Owner[l] = b
    <3>1. Puts(tasks[1], v, l)
      BY <2>2, <2>3, <2>5 DEF Puts, AddUser, Task
    <3>2. WillBeRight(v, l) /\ queue' = queue \o tasks /\ UNCHANGED <<page, work>>
      BY <1>1, <2>2, <2>4, HeardBefore
    <3>3. Sees(v, l) => Sees(v, l)'
      <4>1. Sight'
        BY SeesIs, PTL
      <4>2. May(v, l) => May(v, l)'
        BY <1>1, <1>2, <1>3 DEF May, Follow
      <4> QED
        BY <1>1, <1>2, <4>1, <4>2, SeesIs DEF Sight
    <3> QED
      BY <1>1, <2>2, <2>4, <3>1, <3>2, <3>3, StaysRight
  <2>6. CASE ~(v = a /\ Owner[l] = b)
    <3>1. <<v, Owner[l]>> \in follows' <=> <<v, Owner[l]>> \in follows
      BY <1>3, <2>6 DEF Follow
    <3> QED
      BY <1>1, <1>2, <2>2, <2>4, <3>1, NothingNew
  <2> QED
    BY <2>5, <2>6
<1>4. CASE Unfollow(a, b)
  <2> DEFINE without == {a} \X {x \in ListsOf(b) : privacy[x] # "public"}
  <2>1. PICK tasks : tasks = <<RemoveUnseen(a, b)>>
    OBVIOUS
  <2>2. tasks \in Seq(Tasks) /\ Event(tasks, without)
    BY <1>4, <2>1 DEF Unfollow
  <2>3. \A k \in 1 .. Len(tasks) : tasks[k] = RemoveUnseen(a, b)
    BY <2>1
  <2>4. \A k \in 1 .. Len(tasks) : ~Moves(tasks[k], l)
    BY <2>3 DEF Moves, RemoveUnseen, Task
  <2>5. WillBeRight(v, l) /\ <<v, l>> \notin without
        /\ queue' = queue \o tasks /\ UNCHANGED <<page, work>>
    <3> HIDE DEF without
    <3> QED
      BY <1>1, <2>2, <2>4, HeardBefore
  <2>6. v = a /\ Owner[l] = b => privacy[l] = "public"
    BY <1>1, <2>5 DEF ListsOf
  <2>7. \A k \in 1 .. Len(tasks) : ~Takes(tasks[k], v, l)
    BY <2>3, <2>6 DEF Takes, Parts, RemoveUnseen, Task
  <2>8. May(v, l)' <=> May(v, l)
    BY <1>1, <1>2, <1>4, <2>6 DEF May, Unfollow
  <2>9. Sees(v, l)' <=> Sees(v, l)
    <3>1. Sight'
      BY SeesIs, PTL
    <3> QED
      BY <1>1, <1>2, <2>8, <3>1, SeesIs DEF Sight
  <2> HIDE DEF without
  <2> QED
    BY <1>1, <1>2, <2>2, <2>5, <2>7, <2>9, StaysRight
<1> QED
  BY <1>3, <1>4

LEMMA Few ==
  ASSUME NEW T, NEW x \in T, NEW y \in T
  PROVE  <<x, y>> \in Seq(T) /\ <<x>> \in Seq(T) /\ <<>> \in Seq(T)
OBVIOUS

LEMMA Heads ==
  ASSUME NEW T, NEW x \in Seq(T), NEW y \in Seq(T), Len(x) >= 2
  PROVE  x \o y \in Seq(T) /\ Len(x \o y) >= 2 /\ (x \o y)[1] = x[1] /\ (x \o y)[2] = x[2]
OBVIOUS

\* A block parts two users; the lists of the group go from it, unheard.
LEMMA BlockEvents ==
  ASSUME TypeOK, TypeOK', PagesInv, inOrder, NEW v \in active', NEW l \in lists',
         <<v, l>> \notin unheard', NEW a \in Users, NEW b \in Users, Block(a, b)
  PROVE  WillBeRight(v, l)'
<1> USE TasksTyped
<1>1. v \in Users /\ l \in Lists /\ l \in lists /\ UNCHANGED <<lists, privacy>>
  BY DEF TypeOK, Block
<1> DEFINE both == <<RemoveUser(a, b), RemoveUser(b, a)>>
           gone(x, y) == IF <<x, y>> \in follows THEN <<RemoveUnseen(x, y)>> ELSE <<>>
           without == IF a = GroupOwner THEN OfGroup ELSE {}
<1>2. PICK s, t : s = gone(a, b) /\ t = gone(b, a)
  OBVIOUS
<1>3. /\ s \in {<<>>, <<RemoveUnseen(a, b)>>} /\ t \in {<<>>, <<RemoveUnseen(b, a)>>}
      /\ both \in Seq(Tasks) /\ s \in Seq(Tasks) /\ t \in Seq(Tasks)
      /\ Len(both) = 2 /\ both[1] = RemoveUser(a, b) /\ both[2] = RemoveUser(b, a)
  BY <1>2
<1>4. PICK tasks : tasks = both \o both \o s \o t
  OBVIOUS
<1>5. Event(tasks, without)
  BY <1>2, <1>4 DEF Block
<1> HIDE DEF both, gone, without
<1>6. /\ tasks \in Seq(Tasks)
      /\ 1 \in 1 .. Len(tasks) /\ tasks[1] = RemoveUser(a, b)
      /\ 2 \in 1 .. Len(tasks) /\ tasks[2] = RemoveUser(b, a)
  <2>1. PICK q : q = both \o both
    OBVIOUS
  <2>2. PICK r : r = q \o s
    OBVIOUS
  <2>3. both \in Seq(Tasks) /\ Len(both) >= 2 /\ s \in Seq(Tasks) /\ t \in Seq(Tasks)
    BY <1>3
  <2>4. q \in Seq(Tasks) /\ Len(q) >= 2 /\ q[1] = both[1] /\ q[2] = both[2]
    BY <2>1, <2>3, Heads
  <2>5. r \in Seq(Tasks) /\ Len(r) >= 2 /\ r[1] = both[1] /\ r[2] = both[2]
    BY <2>2, <2>3, <2>4, Heads
  <2>6. tasks = r \o t
    BY <1>4, <2>1, <2>2
  <2>7. tasks \in Seq(Tasks) /\ Len(tasks) >= 2 /\ tasks[1] = both[1] /\ tasks[2] = both[2]
    BY <2>3, <2>5, <2>6, Heads
  <2> QED
    BY <1>3, <2>7
<1>7. \A k \in 1 .. Len(tasks) :
        tasks[k] \in {RemoveUser(a, b), RemoveUser(b, a), RemoveUnseen(a, b), RemoveUnseen(b, a)}
  <2> DEFINE Those == {RemoveUser(a, b), RemoveUser(b, a), RemoveUnseen(a, b), RemoveUnseen(b, a)}
  <2>0. {RemoveUser(a, b), RemoveUser(b, a), RemoveUnseen(a, b), RemoveUnseen(b, a)} \subseteq Those
    OBVIOUS
  <2> HIDE DEF Those
  <2>1. both \in Seq(Those) /\ s \in Seq(Those) /\ t \in Seq(Those)
    BY <1>3, <2>0, Few DEF both
  <2>2. tasks \in Seq(Those)
    BY <1>4, <2>1
  <2>3. \A k \in 1 .. Len(tasks) : tasks[k] \in Those
    BY <2>2
  <2> QED
    BY <2>3 DEF Those
<1>8. \A k \in 1 .. Len(tasks) : ~Moves(tasks[k], l)
  BY <1>7 DEF Moves, RemoveUser, RemoveUnseen, Task
<1>9. /\ WillBeRight(v, l) /\ <<v, l>> \notin without
      /\ queue' = queue \o tasks /\ UNCHANGED <<page, work>>
  BY <1>1, <1>5, <1>6, <1>8, HeardBefore
<1>10. CASE (v = a /\ Owner[l] = b) \/ (v = b /\ Owner[l] = a)
  <2>1. \E k \in 1 .. Len(tasks) : Parts(tasks[k], v, l)
    BY <1>6, <1>10 DEF Parts, RemoveUser, Task
  <2>2. ~Sees(v, l)'
    <3>1. Sight'
      BY SeesIs, PTL
    <3>2. Apart(v, Owner[l])'
      BY <1>10 DEF Apart, Block
    <3> QED
      BY <1>1, <3>1, <3>2 DEF Sight
  <2> QED
    BY <1>1, <1>6, <1>9, <2>1, <2>2, StaysRight
<1>11. CASE ~((v = a /\ Owner[l] = b) \/ (v = b /\ Owner[l] = a))
  <2>1. \A k \in 1 .. Len(tasks) : ~Takes(tasks[k], v, l)
    BY <1>7, <1>11 DEF Takes, Parts, RemoveUser, RemoveUnseen, Task
  <2>2. a = GroupOwner => l \notin grouped
    BY <1>1, <1>9 DEF without, OfGroup
  <2>3. (In(v, l)' <=> In(v, l)) /\ (NoAudience(l) => NoAudience(l)')
    BY <1>1, <2>2 DEF Block, In, NoAudience
  <2>4. /\ Apart(v, Owner[l])' <=> Apart(v, Owner[l])
        /\ <<v, Owner[l]>> \in follows' <=> <<v, Owner[l]>> \in follows
    BY <1>11 DEF Apart, Block
  <2> QED
    BY <1>1, <1>5, <1>6, <1>8, <2>1, <2>3, <2>4, NothingNew
<1> QED
  BY <1>10, <1>11

LEMMA UnblockEvents ==
  ASSUME TypeOK, TypeOK', PagesInv, inOrder, NEW v \in active', NEW l \in lists',
         <<v, l>> \notin unheard', NEW a \in Users, NEW b \in Users, Unblock(a, b)
  PROVE  WillBeRight(v, l)'
<1> USE TasksTyped
<1>1. /\ v \in Users /\ l \in Lists /\ l \in lists
      /\ UNCHANGED <<lists, privacy, grouped, members, follows>>
  BY DEF TypeOK, Unblock
<1>2. /\ In(v, l)' <=> In(v, l)
      /\ NoAudience(l) => NoAudience(l)'
      /\ Apart(v, Owner[l])' => Apart(v, Owner[l])
      /\ May(v, l)' <=> May(v, l)
  BY <1>1 DEF In, NoAudience, Apart, May, Unblock
<1>3. PICK tasks : tasks = IF <<b, a>> \in blocks THEN <<>> ELSE <<AddUser(a, b), AddUser(b, a)>>
  OBVIOUS
<1>4. /\ tasks \in Seq(Tasks) /\ Event(tasks, {})
      /\ \A k \in 1 .. Len(tasks) : tasks[k] \in {AddUser(a, b), AddUser(b, a)}
  <2>1. Event(tasks, {})
    BY <1>3 DEF Unblock
  <2>2. CASE <<b, a>> \in blocks
    BY <1>3, <2>1, <2>2
  <2>3. CASE <<b, a>> \notin blocks
    BY <1>3, <2>1, <2>3
  <2> QED
    BY <2>2, <2>3
<1>5. \A k \in 1 .. Len(tasks) : ~Moves(tasks[k], l) /\ ~Takes(tasks[k], v, l)
  BY <1>4 DEF Moves, Takes, Parts, AddUser, Task
<1>6. CASE Apart(v, Owner[l])' <=> Apart(v, Owner[l])
  BY <1>1, <1>2, <1>4, <1>5, <1>6, NothingNew
<1>7. CASE ~(Apart(v, Owner[l])' <=> Apart(v, Owner[l]))
  <2>1. <<b, a>> \notin blocks /\ ((v = a /\ Owner[l] = b) \/ (v = b /\ Owner[l] = a))
    BY <1>1, <1>7, ListsAssumption DEF Apart, Unblock, PagesInv, TypeOK
  <2>2. /\ 1 \in 1 .. Len(tasks) /\ tasks[1] = AddUser(a, b)
        /\ 2 \in 1 .. Len(tasks) /\ tasks[2] = AddUser(b, a)
    BY <1>3, <2>1
  <2>3. \E k \in 1 .. Len(tasks) : Puts(tasks[k], v, l)
    BY <2>1, <2>2 DEF Puts, AddUser, Task
  <2>4. WillBeRight(v, l) /\ queue' = queue \o tasks /\ UNCHANGED <<page, work>>
    BY <1>1, <1>4, <1>5, HeardBefore
  <2>5. Sees(v, l) => Sees(v, l)'
    <3>1. Sight'
      BY SeesIs, PTL
    <3> QED
      BY <1>1, <1>2, <3>1, SeesIs DEF Sight
  <2> QED
    BY <1>1, <1>4, <1>5, <2>3, <2>4, <2>5, StaysRight
<1> QED
  BY <1>6, <1>7

\* Events of groups and accounts, which are heard by nobody whom they are about.
LEMMA QuietEvents ==
  ASSUME TypeOK, TypeOK', PagesInv, inOrder, NEW v \in active', NEW l \in lists',
         <<v, l>> \notin unheard', NEW u \in Users,
         \/ Join(u) \/ Leave(u) \/ Deactivate(u) \/ Reactivate(u) \/ Repopulate(u)
         \/ DeleteGroup
  PROVE  WillBeRight(v, l)'
<1> USE TasksTyped
<1>1. /\ v \in Users /\ l \in Lists /\ l \in lists
      /\ UNCHANGED <<lists, privacy, follows, blocks>>
  BY DEF TypeOK, Join, Leave, Deactivate, Reactivate, Repopulate, DeleteGroup, rows
<1>2. /\ Apart(v, Owner[l])' <=> Apart(v, Owner[l])
      /\ <<v, Owner[l]>> \in follows' <=> <<v, Owner[l]>> \in follows
  BY <1>1 DEF Apart
<1>3. PICK tasks, without :
        /\ tasks \in Seq(Tasks)
        /\ Event(tasks, without)
        /\ \A k \in 1 .. Len(tasks) : tasks[k] = Populate(u)
        /\ Join(u) => without = {u} \X grouped
        /\ Leave(u) => without = ({u} \X grouped) \cup Mine(u)
        /\ DeleteGroup => without = OfGroup
  <2>1. CASE Repopulate(u)
    <3>1. PICK tasks : tasks = <<Populate(u)>>
      OBVIOUS
    <3>2. tasks \in Seq(Tasks) /\ \A k \in 1 .. Len(tasks) : tasks[k] = Populate(u)
      BY <3>1
    <3>3. Event(tasks, {}) /\ ~Join(u) /\ ~Leave(u) /\ ~DeleteGroup
      BY <2>1, <3>1 DEF Repopulate, Join, Leave, DeleteGroup, rows
    <3> QED
      BY <3>2, <3>3
  <2>2. CASE ~Repopulate(u)
    <3>1. PICK tasks : tasks = <<>>
      OBVIOUS
    <3>2. tasks \in Seq(Tasks) /\ \A k \in 1 .. Len(tasks) : tasks[k] = Populate(u)
      BY <3>1
    <3>3. \E without :
            /\ Event(tasks, without)
            /\ Join(u) => without = {u} \X grouped
            /\ Leave(u) => without = ({u} \X grouped) \cup Mine(u)
            /\ DeleteGroup => without = OfGroup
      <4>1. ASSUME Join(u) PROVE Event(tasks, {u} \X grouped) /\ ~Leave(u) /\ ~DeleteGroup
        BY <3>1, <4>1 DEF Join, Leave, DeleteGroup, TypeOK
      <4>2. ASSUME Leave(u) PROVE Event(tasks, ({u} \X grouped) \cup Mine(u)) /\ ~DeleteGroup
        BY <3>1, <4>2, ListsAssumption DEF Leave, DeleteGroup, TypeOK
      <4>3. ASSUME DeleteGroup PROVE Event(tasks, OfGroup)
        BY <3>1, <4>3 DEF DeleteGroup
      <4>4. ASSUME Deactivate(u) \/ Reactivate(u)
            PROVE  \E without : Event(tasks, without)
        BY <3>1, <4>4 DEF Deactivate, Reactivate
      <4>5. ASSUME Deactivate(u) \/ Reactivate(u) PROVE ~Join(u) /\ ~Leave(u) /\ ~DeleteGroup
        BY <4>5 DEF Deactivate, Reactivate, Join, Leave, DeleteGroup
      <4> QED
        BY <2>2, <4>1, <4>2, <4>3, <4>4, <4>5
    <3> QED
      BY <3>2, <3>3
  <2> QED
    BY <2>1, <2>2
<1>4. \A k \in 1 .. Len(tasks) : ~Moves(tasks[k], l) /\ ~Takes(tasks[k], v, l)
  BY <1>3 DEF Moves, Takes, Parts, Populate, Task
<1>5. <<v, l>> \notin without
  BY <1>1, <1>3, <1>4, HeardBefore
<1>6. (In(v, l)' <=> In(v, l)) /\ (NoAudience(l) => NoAudience(l)')
  <2>1. ASSUME Join(u) PROVE (In(v, l)' <=> In(v, l)) /\ UNCHANGED grouped
    BY <1>1, <1>3, <1>5, <2>1 DEF Join, In
  <2>2. ASSUME Leave(u) PROVE (In(v, l)' <=> In(v, l)) /\ (l \in grouped' <=> l \in grouped)
    BY <1>1, <1>3, <1>5, <2>2 DEF Leave, In, Mine
  <2>3. ASSUME DeleteGroup PROVE l \notin grouped /\ l \notin grouped'
    BY <1>1, <1>3, <1>5, <2>3 DEF DeleteGroup, OfGroup
  <2>4. ASSUME Deactivate(u) \/ Reactivate(u) \/ Repopulate(u) PROVE UNCHANGED <<grouped, members>>
    BY <2>4 DEF Deactivate, Reactivate, Repopulate, rows
  <2> QED
    BY <1>1, <2>1, <2>2, <2>3, <2>4 DEF In, NoAudience
<1> QED
  BY <1>1, <1>2, <1>3, <1>4, <1>6, NothingNew

-----------------------------------------------------------------------------
(* Workers *)

\* A worker that takes the first task, when all others are done.
LEMMA StartsRight ==
  ASSUME TypeOK, PagesInv, inOrder, NEW w \in Workers, Start(w), NEW v \in active, NEW l \in lists,
         <<v, l>> \notin unheard
  PROVE  WillBeRight(v, l)'
<1>1. /\ \A x \in Workers : Idle(x)
      /\ 1 \in 1 .. Len(queue)
      /\ work' = [work EXCEPT ![w] = Reads(queue[1])] /\ queue' = RemoveAt(queue, 1)
      /\ UNCHANGED <<lists, privacy, grouped, members, follows, blocks, active, page>>
  BY DEF Start, rows
<1>2. PICK t : t = queue[1]
  OBVIOUS
<1>3. PICK n \in Nat : Len(queue) = n + 1
  BY <1>1 DEF TypeOK
<1>4. /\ t \in Tasks /\ Len(queue') = n
      /\ \A i \in 1 .. n : i + 1 \in 1 .. n + 1 /\ queue'[i] = queue[i + 1]
  <2>1. queue' = SubSeq(queue, 1, 0) \o SubSeq(queue, 2, n + 1)
    BY <1>1, <1>3 DEF RemoveAt
  <2>2. SubSeq(queue, 1, 0) = <<>> /\ SubSeq(queue, 2, n + 1) \in Seq(Tasks)
    BY <1>3 DEF TypeOK
  <2>3. queue' = SubSeq(queue, 2, n + 1)
    BY <2>1, <2>2
  <2> QED
    BY <1>1, <1>2, <1>3, <2>3 DEF TypeOK
<1>5. \A i \in 1 .. n + 1 : i = 1 \/ (i - 1 \in 1 .. n /\ queue'[i - 1] = queue[i])
  BY <1>4
<1>6. /\ \A x \in Workers : work[x].add = {} /\ work[x].drop = {} /\ work[x].then = <<>>
      /\ \A x \in Workers \ {w} : work'[x] = work[x]
      /\ work'[w] = Reads(t)
  BY <1>1, <1>2 DEF Idle, Nothing, TypeOK
<1>7. PICK r : r = Reads(t)
  OBVIOUS
<1>8. Shown(v, l) <=> l \in page[v]
  BY <1>6 DEF Shown
<1>9. Shown(v, l)' <=> <<v, l>> \in r.add \/ (l \in page[v] /\ <<v, l>> \notin r.drop)
  BY <1>1, <1>6, <1>7 DEF Shown
<1>10. /\ Puts(t, v, l) /\ Sees(v, l) /\ ~NoAudience(l) => <<v, l>> \in r.add
       /\ Moves(t, l) \/ Parts(t, v, l) => <<v, l>> \in r.drop /\ <<v, l>> \notin r.add
       /\ ~Takes(t, v, l) /\ ~Moves(t, l) => <<v, l>> \notin r.drop
       /\ Moves(t, l) => \E i \in 1 .. Len(r.then) : r.then[i].of = l
  BY <1>4, <1>7, ReadsAbout
<1>11. <<v, l>> \in r.add => Sees(v, l)
  BY <1>4, <1>7, ReadsSeen
<1>12. /\ Sees(v, l)' <=> Sees(v, l)
       /\ NoAudience(l)' <=> NoAudience(l)
       /\ \A x : Takes(x, v, l)' <=> Takes(x, v, l)
  BY <1>1 DEF Sees, TheList, NoAudience, Takes, Parts
<1>13. WillBeRight(v, l)
  BY DEF PagesInv
<1>14. ASSUME ~Sees(v, l), Shown(v, l)' PROVE Going(v, l)'
  <2>1. l \in page[v] /\ <<v, l>> \notin r.drop
    BY <1>9, <1>11, <1>14
  <2>2. PICK i \in 1 .. n + 1 : Moves(queue[i], l) \/ Parts(queue[i], v, l)
    BY <1>3, <1>8, <1>13, <1>14, <2>1 DEF WillBeRight, Going
  <2>3. i # 1
    BY <1>2, <1>10, <2>1, <2>2
  <2>4. i - 1 \in 1 .. n /\ (Moves(queue'[i - 1], l) \/ Parts(queue'[i - 1], v, l))
    BY <1>5, <2>2, <2>3
  <2> QED
    BY <1>4, <2>4 DEF Going, Parts
<1>15. ASSUME Moving(l) PROVE Moving(l)'
  <2>1. PICK i \in 1 .. n + 1 : Moves(queue[i], l)
    BY <1>3, <1>6, <1>15 DEF Moving
  <2>2. CASE i = 1
    <3>1. \E k \in 1 .. Len(work'[w].then) : work'[w].then[k].of = l
      BY <1>2, <1>6, <1>7, <1>10, <2>1, <2>2
    <3> QED
      BY <3>1 DEF Moving
  <2>3. CASE i # 1
    <3>1. i - 1 \in 1 .. n /\ Moves(queue'[i - 1], l)
      BY <1>5, <2>1, <2>3
    <3> QED
      BY <1>4, <3>1 DEF Moving
  <2> QED
    BY <2>2, <2>3
<1>16. ASSUME Sees(v, l), Coming(v, l), ~NoAudience(l) PROVE Moving(l)' \/ Coming(v, l)'
  <2>1. PICK i \in 0 .. n + 1 : /\ IF i = 0 THEN Shown(v, l) ELSE Puts(queue[i], v, l)
                                /\ \A j \in 1 .. n + 1 : j > i => ~Takes(queue[j], v, l)
    BY <1>3, <1>16 DEF Coming
  <2>2. ASSUME NEW j \in 1 .. n, j + 1 > i PROVE ~Takes(queue'[j], v, l)
    BY <1>4, <2>1, <2>2
  <2>3. ASSUME Shown(v, l)', i <= 1 PROVE Coming(v, l)'
    <3>1. \A j \in 1 .. n : j > 0 => ~Takes(queue'[j], v, l)
      BY <2>2, <2>3
    <3>2. 0 \in 0 .. n
      OBVIOUS
    <3> QED
      BY <1>4, <1>12, <2>3, <3>1, <3>2 DEF Coming
  <2>4. CASE i = 0
    <3>1. l \in page[v] /\ ~Takes(t, v, l)
      BY <1>2, <1>8, <2>1, <2>4
    <3>2. CASE Moves(t, l)
      <4>1. \E k \in 1 .. Len(work'[w].then) : work'[w].then[k].of = l
        BY <1>6, <1>7, <1>10, <3>2
      <4> QED
        BY <4>1 DEF Moving
    <3>3. CASE ~Moves(t, l)
      BY <1>9, <1>10, <2>3, <2>4, <3>1, <3>3
    <3> QED
      BY <3>2, <3>3
  <2>5. CASE i = 1
    BY <1>2, <1>9, <1>10, <1>16, <2>1, <2>3, <2>5
  <2>6. CASE i > 1
    <3>1. i - 1 \in 0 .. n /\ i - 1 # 0 /\ Puts(queue'[i - 1], v, l)
      BY <1>5, <2>1, <2>6
    <3>2. \A j \in 1 .. n : j > i - 1 => ~Takes(queue'[j], v, l)
      BY <2>2
    <3> QED
      BY <1>4, <1>12, <3>1, <3>2 DEF Coming, Puts
  <2> QED
    BY <2>4, <2>5, <2>6
<1> QED
  BY <1>12, <1>13, <1>14, <1>15, <1>16 DEF WillBeRight

\* The only worker writes, and puts back what it has moved.
LEMMA FinishesRight ==
  ASSUME TypeOK, PagesInv, inOrder, NEW w \in Workers, Finish(w), NEW v \in active, NEW l \in lists,
         <<v, l>> \notin unheard
  PROVE  WillBeRight(v, l)'
<1>1. /\ ~Idle(w) /\ page' = [x \in Users |-> Written(x, work[w])]
      /\ queue' = queue \o work[w].then /\ work' = [work EXCEPT ![w] = Nothing]
      /\ UNCHANGED <<lists, privacy, grouped, members, follows, blocks, active>>
  BY DEF Finish, rows
<1>2. v \in Users /\ l \in Lists /\ queue \in Seq(Tasks) /\ work[w] \in Works
  BY DEF TypeOK
<1>3. /\ \A x \in Workers \ {w} : work[x] = Nothing
      /\ \A x \in Workers : work'[x] = Nothing
  BY <1>1 DEF PagesInv, OneAtWork, Idle, TypeOK
<1>4. Nothing.add = {} /\ Nothing.drop = {} /\ Nothing.then = <<>>
  BY DEF Nothing
<1>5. Shown(v, l)' <=> Shown(v, l)
  <2>1. Shown(v, l)' <=> l \in page'[v]
    BY <1>3, <1>4 DEF Shown
  <2>2. l \in page'[v] <=> <<v, l>> \in work[w].add \/ (l \in page[v] /\ <<v, l>> \notin work[w].drop)
    BY <1>1, <1>2 DEF Written
  <2>3. Shown(v, l) <=> <<v, l>> \in work[w].add \/ (l \in page[v] /\ <<v, l>> \notin work[w].drop)
    BY <1>3, <1>4 DEF Shown
  <2> QED
    BY <2>1, <2>2, <2>3
<1>6. /\ Sees(v, l)' <=> Sees(v, l)
      /\ NoAudience(l)' <=> NoAudience(l)
      /\ \A x : Takes(x, v, l)' <=> Takes(x, v, l)
  BY <1>1 DEF Sees, TheList, NoAudience, Takes, Parts
<1>7. WillBeRight(v, l)
  BY DEF PagesInv
<1>8. PICK n \in Nat : n = Len(queue)
  BY <1>2
<1>9. CASE work[w].then = <<>>
  <2>1. queue' = queue
    BY <1>1, <1>2, <1>9
  <2>2. Moving(l) => Moving(l)'
    BY <1>3, <1>4, <1>9, <2>1 DEF Moving
  <2>3. Coming(v, l) => Coming(v, l)'
    BY <1>5, <1>6, <2>1 DEF Coming, Puts
  <2>4. Going(v, l) => Going(v, l)'
    BY <2>1 DEF Going, Parts
  <2> QED
    BY <1>5, <1>6, <1>7, <2>2, <2>3, <2>4 DEF WillBeRight
<1>10. ASSUME NEW y \in Lists, work[w].then = <<AddList(y)>> PROVE WillBeRight(v, l)'
  <2>1. PICK a : a = AddList(y)
    OBVIOUS
  <2>2. a.do = "add_list" /\ a.of = y
    BY <2>1 DEF AddList, Task
  <2>3. /\ Len(queue') = n + 1 /\ queue'[n + 1] = a
        /\ \A i \in 1 .. n : i \in 1 .. n + 1 /\ queue'[i] = queue[i]
        /\ \A j \in 1 .. n + 1 : j \in 1 .. n \/ j = n + 1
    BY <1>1, <1>2, <1>8, <1>10, <2>1
  <2>4. ~Takes(a, v, l)
    BY <2>2 DEF Takes, Parts
  <2>5. Moving(l) => Moving(l)' \/ Coming(v, l)'
    <3>1. ASSUME NEW i \in 1 .. n, Moves(queue[i], l) PROVE Moving(l)'
      BY <2>3, <3>1 DEF Moving
    <3>2. ASSUME y = l PROVE Coming(v, l)'
      <4>1. n + 1 \in 0 .. n + 1 /\ n + 1 # 0 /\ Puts(queue'[n + 1], v, l)
        BY <2>2, <2>3, <3>2 DEF Puts
      <4>2. \A j \in 1 .. n + 1 : ~(j > n + 1)
        OBVIOUS
      <4> QED
        BY <2>3, <4>1, <4>2 DEF Coming, Puts
    <3>3. ASSUME NEW x \in Workers, NEW i \in 1 .. Len(work[x].then), work[x].then[i].of = l
          PROVE  y = l
      <4>1. x = w
        BY <1>3, <1>4, <3>3
      <4>2. work[x].then = <<a>> /\ Len(work[x].then) = 1
        BY <1>10, <2>1, <4>1
      <4> QED
        BY <2>2, <3>3, <4>2
    <3> QED
      BY <1>8, <3>1, <3>2, <3>3 DEF Moving
  <2>6. Coming(v, l) => Coming(v, l)'
    <3>1. ASSUME NEW i \in 0 .. n, IF i = 0 THEN Shown(v, l) ELSE Puts(queue[i], v, l),
                 \A j \in 1 .. n : j > i => ~Takes(queue[j], v, l)
          PROVE  Coming(v, l)'
      <4>1. i \in 0 .. n + 1 /\ IF i = 0 THEN Shown(v, l)' ELSE Puts(queue'[i], v, l)
        BY <1>5, <2>3, <3>1
      <4>2. \A j \in 1 .. n + 1 : j > i => ~Takes(queue'[j], v, l)
        BY <2>3, <2>4, <3>1
      <4> QED
        BY <1>6, <2>3, <4>1, <4>2 DEF Coming, Puts
    <3> QED
      BY <1>8, <3>1 DEF Coming
  <2>7. Going(v, l) => Going(v, l)'
    BY <1>8, <2>3 DEF Going, Parts
  <2> QED
    BY <1>5, <1>6, <1>7, <2>5, <2>6, <2>7 DEF WillBeRight
<1> QED
  BY <1>9, <1>10 DEF PagesInv, OneAtWork

-----------------------------------------------------------------------------
LEMMA InitPages == Init => PagesInv
<1> SUFFICES ASSUME Init PROVE PagesInv
  OBVIOUS
<1>1. \A w \in Workers : Idle(w) /\ work[w].then = <<>>
  BY DEF Init, Idle, Nothing
<1>2. active = Users /\ lists = {} /\ blocks = {}
  BY DEF Init
<1> QED
  BY <1>1, <1>2 DEF PagesInv, AwayIsUnheard, OneAtWork

\* What a task queues in its turn.
LEMMA QueuesAdditions ==
  ASSUME NEW t \in Tasks
  PROVE  Reads(t).then = <<>> \/ \E l \in Lists : Reads(t).then = <<AddList(l)>>
<1>1. Nothing.then = <<>> /\ \A V, S : Adding(V, S).then = <<>> /\ Dropping(V, S).then = <<>>
  BY DEF Nothing, Adding, Dropping
<1>2. CASE t.do = "move_list"
  <2>1. Reads(t).then = <<AddList(t.of)>> /\ t.of \in Lists
    BY <1>2 DEF Reads, Moved, Tasks
  <2> QED
    BY <2>1
<1>3. CASE t.do # "move_list"
  BY <1>1, <1>3 DEF Reads, Tasks
<1> QED
  BY <1>2, <1>3

LEMMA HappenPages ==
  ASSUME TypeOK, TypeOK', PagesInv, Happen PROVE PagesInv'
<1>1. PICK tasks, without : Event(tasks, without)
  BY HappenTyped DEF EventOK
<1>2. UNCHANGED <<inOrder, work>>
  BY <1>1 DEF Event
<1>3. OneAtWork => OneAtWork'
  BY <1>2 DEF OneAtWork, Idle
<1>4. \A u \in Users : <<u, u>> \notin blocks'
  <2>1. ASSUME NEW a \in Users, NEW b \in Users, Block(a, b)
        PROVE  \A u \in Users : <<u, u>> \notin blocks'
    BY <2>1 DEF Block, PagesInv
  <2>2. ASSUME NEW a \in Users, NEW b \in Users, Unblock(a, b) PROVE blocks' \subseteq blocks
    BY <2>2 DEF Unblock
  <2>3. UNCHANGED blocks \/ \E a, b \in Users : Block(a, b) \/ Unblock(a, b)
    BY DEF Happen, Create, Edit, Delete, Follow, Unfollow,
           Join, Leave, DeleteGroup, Deactivate, Reactivate, Repopulate, rows
  <2> QED
    BY <2>1, <2>2, <2>3 DEF PagesInv
<1>5. AwayIsUnheard'
  <2> SUFFICES ASSUME NEW v \in Users, v \notin active', NEW l \in Lists
               PROVE  <<v, l>> \in unheard'
    BY DEF AwayIsUnheard
  <2>1. CASE v \notin active
    <3>1. <<v, l>> \in unheard
      BY <2>1 DEF PagesInv, AwayIsUnheard
    <3>2. <<v, l>> \notin Told(tasks)
      BY <2>1 DEF Told
    <3> QED
      BY <1>1, <3>1, <3>2 DEF Event
  <2>2. CASE v \in active
    <3>1. Deactivate(v)
      BY <2>2 DEF Happen, Create, Edit, Delete, Follow, Unfollow, Block, Unblock,
                  Join, Leave, DeleteGroup, Deactivate, Reactivate, Repopulate, rows
    <3>2. PICK none : none = <<>>
      OBVIOUS
    <3>3. Told(none) = {}
      BY <3>2 DEF Told, Contains
    <3>4. Event(none, {v} \X Lists)
      BY <3>1, <3>2 DEF Deactivate
    <3> QED
      BY <3>3, <3>4 DEF Event
  <2> QED
    BY <2>1, <2>2
<1>6. ASSUME inOrder, NEW v \in active', NEW l \in lists', <<v, l>> \notin unheard'
      PROVE  WillBeRight(v, l)'
  <2>1. v \in Users
    BY <1>6 DEF TypeOK
  <2>2. ASSUME NEW x \in Lists, NEW p \in Privacies, NEW g \in BOOLEAN,
               Create(x, p, g) \/ Edit(x, p, g) \/ Delete(x)
        PROVE  WillBeRight(v, l)'
    BY <1>6, <2>2, ListEvents
  <2>3. ASSUME NEW a \in Users, NEW b \in Users,
               Follow(a, b) \/ Unfollow(a, b) \/ Block(a, b) \/ Unblock(a, b)
        PROVE  WillBeRight(v, l)'
    BY <1>6, <2>3, FollowEvents, BlockEvents, UnblockEvents
  <2>4. ASSUME NEW u \in Users, \/ Join(u) \/ Leave(u) \/ Deactivate(u) \/ Reactivate(u)
                                 \/ Repopulate(u) \/ DeleteGroup
        PROVE  WillBeRight(v, l)'
    BY <1>6, <2>4, QuietEvents
  <2>5. "public" \in Privacies /\ TRUE \in BOOLEAN
    BY DEF Privacies
  <2>6. CASE DeleteGroup
    BY <2>1, <2>4, <2>6
  <2> QED
    BY <2>2, <2>3, <2>4, <2>5, <2>6 DEF Happen
<1> QED
  BY <1>2, <1>3, <1>4, <1>5, <1>6 DEF PagesInv

LEMMA WorkPages ==
  ASSUME TypeOK, PagesInv, NEW w \in Workers, Start(w) \/ Finish(w) PROVE PagesInv'
<1>1. UNCHANGED <<inOrder, lists, blocks, active, unheard>>
  BY DEF Start, Finish, rows
<1>2. ASSUME inOrder PROVE OneAtWork'
  <2>1. CASE Start(w)
    <3>1. /\ \A x \in Workers : Idle(x) /\ 1 \in 1 .. Len(queue)
          /\ work' = [work EXCEPT ![w] = Reads(queue[1])]
      BY <1>2, <2>1 DEF Start
    <3>2. queue[1] \in Tasks
      BY <3>1 DEF TypeOK
    <3>3. \A x \in Workers \ {w} : work'[x] = work[x] /\ Idle(x)'
      BY <3>1 DEF Idle
    <3>4. work'[w].then = <<>> \/ \E l \in Lists : work'[w].then = <<AddList(l)>>
      BY <3>1, <3>2, QueuesAdditions DEF TypeOK
    <3> QED
      BY <1>2, <3>3, <3>4 DEF OneAtWork, PagesInv
  <2>2. CASE Finish(w)
    <3>1. \A x \in Workers : work'[x] = IF x = w THEN Nothing ELSE work[x]
      BY <2>2 DEF Finish, TypeOK
    <3>2. \A x \in Workers : Idle(x) => Idle(x)'
      BY <3>1 DEF Idle
    <3>3. Nothing.then = <<>>
      BY DEF Nothing
    <3> QED
      BY <1>2, <3>1, <3>2, <3>3 DEF OneAtWork, PagesInv
  <2> QED
    BY <2>1, <2>2
<1>3. ASSUME inOrder, NEW v \in active, NEW l \in lists, <<v, l>> \notin unheard
      PROVE  WillBeRight(v, l)'
  BY <1>3, StartsRight, FinishesRight
<1>4. AwayIsUnheard'
  BY <1>1 DEF PagesInv, AwayIsUnheard
<1> QED
  BY <1>1, <1>2, <1>3, <1>4 DEF PagesInv

LEMMA NextPages == TypeOK /\ TypeOK' /\ PagesInv /\ [Next]_vars => PagesInv'
<1> SUFFICES ASSUME TypeOK, TypeOK', PagesInv, [Next]_vars PROVE PagesInv'
  OBVIOUS
<1>1. CASE Next
  BY <1>1, HappenPages, WorkPages DEF Next
<1>2. CASE UNCHANGED vars
  <2>1. UNCHANGED <<inOrder, lists, privacy, grouped, members, follows, blocks, active, page,
                    queue, work, unheard>>
    BY <1>2 DEF vars, rows
  <2>2. \A v, l : WillBeRight(v, l) => WillBeRight(v, l)'
    BY <2>1 DEF WillBeRight, Sees, TheList, Shown, Going, Moves, Parts, Moving, NoAudience,
                Coming, Puts, Takes
  <2> QED
    BY <2>1, <2>2 DEF PagesInv, AwayIsUnheard, OneAtWork, Idle
<1> QED
  BY <1>1, <1>2

\* For any users, lists, groups and bounds, when all tasks have run in order,
\* every page has the lists that its user sees, but for changes that no task
\* follows and for private lists of a group (lists_stream.py:238).
THEOREM QuietPagesAreExact == Spec => []PagesAreExact
<1>1. Init => TypeOK /\ PagesInv
  BY InitTypeOK, InitPages
<1>2. (TypeOK /\ PagesInv) /\ [Next]_vars => (TypeOK /\ PagesInv)'
  BY NextTypeOK, NextPages
<1>3. TypeOK /\ PagesInv => PagesAreExact
  <2> SUFFICES ASSUME TypeOK, PagesInv, Settled, NEW v \in active, NEW l \in lists,
                      <<v, l>> \notin unheard
               PROVE  (l \in page[v] <=> Sees(v, l)) \/ (l \notin page[v] /\ NoAudience(l))
    BY DEF PagesAreExact
  <2>1. queue = <<>> /\ Len(queue) = 0 /\ WillBeRight(v, l)
    BY DEF Settled, PagesInv
  <2>2. \A w \in Workers : work[w].add = {} /\ work[w].drop = {} /\ work[w].then = <<>>
    BY DEF Settled, Idle, Nothing
  <2>3. Shown(v, l) <=> l \in page[v]
    BY <2>2 DEF Shown
  <2>4. ~Going(v, l) /\ ~Moving(l) /\ (Coming(v, l) => Shown(v, l))
    BY <2>1, <2>2 DEF Going, Moving, Coming
  <2> QED
    BY <2>1, <2>3, <2>4 DEF WillBeRight
<1> QED
  BY <1>1, <1>2, <1>3, PTL DEF Spec

-----------------------------------------------------------------------------
(* Suggestions: tasks, and what is read for them.                            *)

\* The tasks that are queued, and what a worker may write.
RerankTasks == [do : {"rerank_user", "remove_user", "remove_suggestion"}, user : Users, of : Users]
BulkTasks   == [do : {"bulk_remove_instance", "bulk_add_instance"}, user : {{}}, of : {Advice!Remotes}]
Duties      == RerankTasks \cup BulkTasks \cup [do : {"rerank_suggestions"}, user : Here, of : Here]
Writes      == [add : SUBSET (Here \X Users), drop : SUBSET (Here \X Users)]

StoreTyped ==
  /\ suggested \in [Here -> SUBSET Users] /\ su_queue \in Seq(Duties) /\ DOMAIN su_work = Clerks
  /\ \A w \in Clerks : su_work[w].add \subseteq Here \X Users
  /\ su_active \subseteq Users

LEMMA DutiesAre ==
  /\ \A v, c \in Users :
       {Advice!Rerank(c), Advice!RemoveUser(c), Advice!Unsuggest(v, c)} \subseteq Duties
  /\ \A v \in Here : Advice!Populate(v) \in Duties
  /\ Advice!BulkRemove \in Duties /\ Advice!BulkAdd \in Duties
BY SMT DEF Duties, RerankTasks, BulkTasks, Advice!Rerank, Advice!RemoveUser, Advice!Unsuggest,
   Advice!Populate, Advice!BulkRemove, Advice!BulkAdd, Advice!Task

\* Tasks that put c in v's suggestions if c fits, that take c out, and that do so
\* even if a block stands between them.
Adds(t, v, c)    == \/ t.do = "rerank_user" /\ t.of = c
                    \/ t.do = "bulk_add_instance" /\ c \in t.of
Parting(t, v, c) == t.do = "remove_suggestion" /\ t.user = v /\ t.of = c
Removes(t, v, c) == \/ t.do = "remove_user" /\ t.of = c
                    \/ t.do = "bulk_remove_instance" /\ c \in t.of
                    \/ Parting(t, v, c)

\* What a worker reads for a task.
LEMMA DutiesRead ==
  ASSUME NEW t \in Duties
  PROVE  /\ Advice!Reads(t).add \subseteq Here \X Users
         /\ \A v \in Here, c \in Users :
              /\ <<v, c>> \in Advice!Reads(t).add => Advice!Fit(v, c)
              /\ Adds(t, v, c) /\ v \in Advice!Wanting(c) /\ Advice!Fit(v, c) =>
                   <<v, c>> \in Advice!Reads(t).add
              /\ <<v, c>> \in Advice!Reads(t).drop => Removes(t, v, c)
              /\ Parting(t, v, c) => <<v, c>> \in Advice!Reads(t).drop
              /\ t.do = "remove_user" /\ t.of = c /\ v \in Advice!Wanting(c) =>
                   <<v, c>> \in Advice!Reads(t).drop
<1>0. Here \subseteq Users
  BY PagesAssumption
<1>1. \A P : /\ Advice!Adding(P).add = P /\ Advice!Adding(P).drop = {}
             /\ Advice!Dropping(P).add = {} /\ Advice!Dropping(P).drop = P
  BY DEF Advice!Adding, Advice!Dropping
<1>2. ASSUME NEW C \in SUBSET Users
      PROVE  /\ Advice!FitPairs(C) \subseteq Here \X Users
             /\ \A v \in Here, c \in Users :
                  /\ <<v, c>> \in Advice!FitPairs(C) <=>
                       c \in C /\ v \in Advice!Wanting(c) /\ Advice!Fit(v, c)
                  /\ <<v, c>> \in Advice!Pairs(C) <=> c \in C /\ v \in Advice!Wanting(c)
  BY DEF Advice!FitPairs, Advice!Pairs
<1>3. CASE t.do = "rerank_user"
  <2>1. t.of \in Users /\ Advice!Reads(t) = Advice!Adding(Advice!FitPairs({t.of}))
    BY <1>3 DEF Duties, RerankTasks, BulkTasks, Advice!Reads
  <2> QED
    BY <1>1, <1>2, <1>3, <2>1 DEF Adds, Parting
<1>4. CASE t.do = "bulk_add_instance"
  <2>1. t.of \in SUBSET Users /\ Advice!Reads(t) = Advice!Adding(Advice!FitPairs(t.of))
    BY <1>4 DEF Duties, RerankTasks, BulkTasks, Advice!Reads, Advice!Remotes
  <2> QED
    BY <1>1, <1>2, <1>4, <2>1 DEF Adds, Parting
<1>5. CASE t.do = "remove_user"
  <2>1. t.of \in Users /\ Advice!Reads(t) = Advice!Dropping(Advice!Pairs({t.of}))
    BY <1>5 DEF Duties, RerankTasks, BulkTasks, Advice!Reads
  <2> QED
    BY <1>1, <1>2, <1>5, <2>1 DEF Adds, Parting, Removes
<1>6. CASE t.do = "bulk_remove_instance"
  <2>1. t.of \in SUBSET Users /\ Advice!Reads(t) = Advice!Dropping(Advice!Pairs(t.of))
    BY <1>6 DEF Duties, RerankTasks, BulkTasks, Advice!Reads, Advice!Remotes
  <2> QED
    BY <1>1, <1>2, <1>6, <2>1 DEF Adds, Parting, Removes
<1>7. CASE t.do = "remove_suggestion"
  <2>1. Advice!Reads(t) = Advice!Dropping({<<t.user, t.of>>})
    BY <1>7 DEF Advice!Reads
  <2> QED
    BY <1>1, <1>7, <2>1 DEF Adds, Parting, Removes
<1>8. CASE t.do = "rerank_suggestions"
  <2>1. t.user \in Here
        /\ Advice!Reads(t) =
             Advice!Adding({t.user} \X {d \in Users : /\ Advice!Fit(t.user, d)
                                                      /\ Advice!Unrelated(t.user, d)})
    BY <1>8 DEF Duties, RerankTasks, BulkTasks, Advice!Reads
  <2> QED
    BY <1>1, <1>8, <2>1 DEF Adds, Parting
<1> QED
  BY <1>3, <1>4, <1>5, <1>6, <1>7, <1>8 DEF Duties, RerankTasks, BulkTasks

LEMMA WhenDue == ASSUME NEW C, NEW t \in Duties PROVE Advice!When(C, t) \in Seq(Duties)
BY DEF Advice!When

\* What every event does to the queue, and what it leaves alone.
LEMMA DutiesQueue ==
  ASSUME StoreTyped, Advice!Happen
  PROVE  /\ \E tasks \in Seq(Duties) : su_queue' = su_queue \o tasks
         /\ UNCHANGED <<suggested, su_work>> /\ su_active' \subseteq Users
<1> DEFINE Goal == /\ \E tasks \in Seq(Duties) : su_queue' = su_queue \o tasks
                   /\ UNCHANGED <<suggested, su_work>> /\ su_active' \subseteq Users
<1>0. /\ su_active \subseteq Users /\ su_queue \in Seq(Duties) /\ Here \subseteq Users
      /\ <<>> \in Seq(Duties) /\ su_queue \o <<>> = su_queue
      /\ \A x, y \in Seq(Duties) : x \o y \in Seq(Duties)
      /\ \A t \in Duties : <<t>> \in Seq(Duties)
      /\ \A x \in SUBSET Users : su_active \cup x \subseteq Users /\ su_active \ x \subseteq Users
  BY PagesAssumption DEF StoreTyped
<1>1. ASSUME NEW tasks \in Seq(Duties), NEW without, Advice!Event(tasks, without),
             su_active' \subseteq Users
      PROVE  Goal
  BY <1>1 DEF Advice!Event
<1>2. ASSUME NEW c \in Users, Advice!Show(c) \/ Advice!Hide(c) PROVE Goal
  <2>1. <<Advice!Rerank(c)>> \in Seq(Duties) /\ <<Advice!RemoveUser(c)>> \in Seq(Duties)
    BY <1>0, DutiesAre
  <2>2. su_active' \subseteq Users
         /\ (Advice!Event(<<Advice!Rerank(c)>>, {}) \/ Advice!Event(<<Advice!RemoveUser(c)>>, {}))
    BY <1>0, <1>2 DEF Advice!Show, Advice!Hide
  <2> QED
    BY <1>1, <2>1, <2>2
<1>3. ASSUME NEW c \in Users, Advice!Deactivate(c) \/ Advice!Reactivate(c) PROVE Goal
  <2>1. <<Advice!RemoveUser(c)>> \in Seq(Duties)
    BY <1>0, DutiesAre
  <2>2. su_active' \subseteq Users /\ \E without :
          Advice!Event(<<Advice!RemoveUser(c)>>, without) \/ Advice!Event(<<>>, without)
    BY <1>0, <1>3 DEF Advice!Deactivate, Advice!Reactivate
  <2> QED
    BY <1>0, <1>1, <2>1, <2>2
<1>4. ASSUME NEW c \in Users, Advice!Repopulate(c) PROVE Goal
  <2>1. <<Advice!Populate(c)>> \in Seq(Duties)
    BY <1>0, <1>4, DutiesAre DEF Advice!Repopulate
  <2>2. su_active' \subseteq Users /\ Advice!Event(<<Advice!Populate(c)>>, {})
    BY <1>0, <1>4 DEF Advice!Repopulate, Advice!rows
  <2> QED
    BY <1>1, <2>1, <2>2
<1>5. ASSUME NEW v \in Users, NEW c \in Users, Advice!Ask(v, c) \/ Advice!Withdraw(v, c) PROVE Goal
  <2>1. Advice!When(c \in discoverable /\ v \in Here, Advice!Unsuggest(v, c)) \in Seq(Duties)
    BY WhenDue, DutiesAre
  <2>2. su_active' \subseteq Users
        /\ \E without :
             \/ Advice!Event(Advice!When(c \in discoverable /\ v \in Here, Advice!Unsuggest(v, c)),
                             without)
             \/ Advice!Event(<<>>, without)
    BY <1>0, <1>5 DEF Advice!Ask, Advice!Withdraw
  <2> QED
    BY <1>0, <1>1, <2>1, <2>2
<1>6. ASSUME NEW v \in Users, NEW c \in Users, Advice!Follow(v, c) PROVE Goal
  <2>1. Advice!When(v \in Here, Advice!Unsuggest(v, c)) \o <<Advice!Rerank(c)>> \in Seq(Duties)
    BY <1>0, WhenDue, DutiesAre
  <2>2. su_active' \subseteq Users
        /\ \E tasks \in {<<>>, Advice!When(v \in Here, Advice!Unsuggest(v, c)) \o <<Advice!Rerank(c)>>} :
             Advice!Event(tasks, {<<c, v>>})
    BY <1>0, <1>6 DEF Advice!Follow
  <2> QED
    BY <1>0, <1>1, <2>1, <2>2
<1>7. ASSUME NEW v \in Users, NEW c \in Users, Advice!Unfollow(v, c) \/ Advice!Unblock(v, c)
      PROVE  Goal
  <2>1. Advice!When(c \in discoverable, Advice!Rerank(c)) \in Seq(Duties)
    BY WhenDue, DutiesAre
  <2>2. su_active' \subseteq Users
        /\ \E without : \/ Advice!Event(Advice!When(c \in discoverable, Advice!Rerank(c)), without)
                        \/ Advice!Event(<<>>, without)
    BY <1>0, <1>7 DEF Advice!Unfollow, Advice!Unblock
  <2> QED
    BY <1>0, <1>1, <2>1, <2>2
<1>8. ASSUME NEW v \in Users, NEW c \in Users, Advice!Block(v, c) PROVE Goal
  <2>1. PICK both, x, y : /\ both = Advice!When(v \in Here /\ c \in discoverable, Advice!Unsuggest(v, c))
                                    \o Advice!When(c \in Here /\ v \in discoverable, Advice!Unsuggest(c, v))
                          /\ x = Advice!When(<<v, c>> \in su_follows /\ c \in discoverable, Advice!Rerank(c))
                          /\ y = Advice!When(<<c, v>> \in su_follows /\ v \in discoverable, Advice!Rerank(v))
    OBVIOUS
  <2>2. both \in Seq(Duties) /\ x \in Seq(Duties) /\ y \in Seq(Duties)
    BY <1>0, <2>1, WhenDue, DutiesAre
  <2>3. (IF v \in Here THEN both ELSE <<>>) \in Seq(Duties)
    BY <1>0, <2>2
  <2>4. both \o (IF v \in Here THEN both ELSE <<>>) \o x \o y \in Seq(Duties)
    BY <1>0, <2>2, <2>3
  <2>5. su_active' \subseteq Users
        /\ Advice!Event(both \o (IF v \in Here THEN both ELSE <<>>) \o x \o y,
                 {p \in Advice!Both(v, c) : p[2] \notin discoverable})
    BY <1>0, <1>8, <2>1 DEF Advice!Block
  <2> QED
    BY <1>1, <2>4, <2>5
<1>9. CASE Advice!Close \/ Advice!Lift
  <2>1. <<Advice!BulkRemove>> \in Seq(Duties) /\ <<Advice!BulkAdd>> \in Seq(Duties)
    BY <1>0, DutiesAre
  <2>2. su_active' \subseteq Users
         /\ (Advice!Event(<<Advice!BulkRemove>>, {}) \/ Advice!Event(<<Advice!BulkAdd>>, {}))
    BY <1>0, <1>9 DEF Advice!Close, Advice!Lift
  <2> QED
    BY <1>1, <2>1, <2>2
<1>10. CASE Advice!Closed \/ Advice!Lifted
  <2>1. su_queue' = su_queue \o <<>> /\ UNCHANGED <<suggested, su_work>>
    BY <1>0, <1>10 DEF Advice!Closed, Advice!Lifted
  <2>2. su_active' \subseteq Users
    BY <1>0, <1>10 DEF Advice!Closed, Advice!Lifted, Advice!Remotes
  <2> QED
    BY <1>0, <2>1, <2>2
<1> QED
  BY <1>2, <1>3, <1>4, <1>5, <1>6, <1>7, <1>8, <1>9, <1>10 DEF Advice!Happen

\* The queue without one of its tasks.
LEMMA TakenOut ==
  ASSUME NEW S, NEW q \in Seq(S), NEW i \in 1 .. Len(q)
  PROVE  q[i] \in S /\ Advice!RemoveAt(q, i) \in Seq(S)
<1>1. i - 1 \in Nat /\ i - 1 <= Len(q) /\ i + 1 \in Nat /\ Len(q) \in Nat
  OBVIOUS
<1>2. SubSeq(q, 1, i - 1) \in Seq(S) /\ SubSeq(q, i + 1, Len(q)) \in Seq(S)
  BY <1>1
<1> QED
  BY <1>2 DEF Advice!RemoveAt

LEMMA WorkStoreTyped ==
  ASSUME StoreTyped, NEW w \in Clerks, Advice!Start(w) \/ Advice!Finish(w)
  PROVE  StoreTyped'
<1>1. CASE Advice!Start(w)
  <2>1. PICK i \in 1 .. Len(su_queue) : /\ su_work' = [su_work EXCEPT ![w] = Advice!Reads(su_queue[i])]
                                        /\ su_queue' = Advice!RemoveAt(su_queue, i)
    BY <1>1 DEF Advice!Start
  <2>2. su_queue[i] \in Duties /\ su_queue' \in Seq(Duties)
    BY <2>1, TakenOut DEF StoreTyped
  <2>3. Advice!Reads(su_queue[i]).add \subseteq Here \X Users
    BY <2>2, DutiesRead
  <2>4. UNCHANGED <<suggested, su_active>>
    BY <1>1 DEF Advice!Start, Advice!rows
  <2> QED
    BY <2>1, <2>2, <2>3, <2>4 DEF StoreTyped
<1>2. CASE Advice!Finish(w)
  <2>1. su_work' = [su_work EXCEPT ![w] = Advice!Nothing] /\ UNCHANGED <<su_queue, su_active>>
    BY <1>2 DEF Advice!Finish, Advice!rows
  <2>2. suggested' \in [Here -> SUBSET Users]
    BY <1>2 DEF Advice!Finish
  <2>3. Advice!Nothing.add = {}
    BY DEF Advice!Nothing
  <2> QED
    BY <2>1, <2>2, <2>3 DEF StoreTyped
<1> QED
  BY <1>1, <1>2

LEMMA NextStoreTyped == StoreTyped /\ [Advice!Next]_(Advice!vars) => StoreTyped'
<1> SUFFICES ASSUME StoreTyped, [Advice!Next]_(Advice!vars) PROVE StoreTyped'
  OBVIOUS
<1>1. CASE Advice!Happen
  <2>1. PICK tasks \in Seq(Duties) : su_queue' = su_queue \o tasks
    BY <1>1, DutiesQueue
  <2>2. su_queue' \in Seq(Duties)
    BY <2>1 DEF StoreTyped
  <2> QED
    BY <1>1, <2>2, DutiesQueue DEF StoreTyped
<1>2. CASE \E w \in Clerks : Advice!Start(w) \/ Advice!Finish(w)
  BY <1>2, WorkStoreTyped
<1>3. CASE UNCHANGED Advice!vars
  BY <1>3 DEF Advice!vars, Advice!rows, StoreTyped
<1> QED
  BY <1>1, <1>2, <1>3 DEF Advice!Next

\* What is there, or about to be added, has fitted at some moment.
FitKnown ==
  /\ Advice!OnlyEverFit
  /\ \A w \in Clerks : su_work[w].add \subseteq everFit
  /\ \A v \in Here, c \in Users : Advice!Fit(v, c) => <<v, c>> \in everFit

LEMMA NextFitKnown == StoreTyped /\ FitKnown /\ [Advice!Next]_(Advice!vars) => FitKnown'
<1> SUFFICES ASSUME StoreTyped, FitKnown, [Advice!Next]_(Advice!vars) PROVE FitKnown'
  OBVIOUS
<1>1. CASE Advice!Next
  <2>1. /\ everFit \subseteq everFit'
        /\ \A v \in Here, c \in Users : Advice!Fit(v, c)' => <<v, c>> \in everFit'
    <3>1. everFit' = everFit \cup {p \in Here \X Users : Advice!Fit(p[1], p[2])'}
      BY <1>1 DEF Advice!Next
    <3>2. ASSUME NEW v \in Here, NEW c \in Users, Advice!Fit(v, c)' PROVE <<v, c>> \in everFit'
      <4>1. <<v, c>> \in Here \X Users /\ <<v, c>>[1] = v /\ <<v, c>>[2] = c
        OBVIOUS
      <4>2. Advice!Fit(<<v, c>>[1], <<v, c>>[2])'
        BY <3>2 DEF Advice!Fit, Advice!Apart, Advice!Both
      <4> QED
        BY <3>1, <4>1, <4>2
    <3> QED
      BY <3>1, <3>2
  <2>2. CASE Advice!Happen
    <3>1. UNCHANGED <<suggested, su_work>>
      BY <2>2, DutiesQueue
    <3> QED
      BY <2>1, <3>1 DEF FitKnown, Advice!OnlyEverFit
  <2>3. ASSUME NEW w \in Clerks, Advice!Start(w) PROVE FitKnown'
    <3>1. PICK i \in 1 .. Len(su_queue) :
            su_work' = [su_work EXCEPT ![w] = Advice!Reads(su_queue[i])]
      BY <2>3 DEF Advice!Start
    <3>2. su_queue[i] \in Duties
      BY <3>1 DEF StoreTyped
    <3>3. Advice!Reads(su_queue[i]).add \subseteq everFit
      BY <3>2, DutiesRead DEF FitKnown
    <3>4. suggested' = suggested
      BY <2>3 DEF Advice!Start
    <3>5. \A x \in Clerks : su_work'[x].add \subseteq everFit
      BY <3>1, <3>3 DEF FitKnown, StoreTyped
    <3> QED
      BY <2>1, <3>4, <3>5 DEF FitKnown, Advice!OnlyEverFit
  <2>4. ASSUME NEW w \in Clerks, Advice!Finish(w) PROVE FitKnown'
    <3>1. /\ su_work' = [su_work EXCEPT ![w] = Advice!Nothing]
          /\ \A v \in Here : \A c \in suggested'[v] :
               <<v, c>> \in su_work[w].add \/ c \in suggested[v]
      BY <2>4 DEF Advice!Finish
    <3>2. \A x \in Clerks : su_work'[x].add \subseteq everFit
      BY <3>1 DEF FitKnown, StoreTyped, Advice!Nothing
    <3>3. \A v \in Here : \A c \in suggested'[v] : <<v, c>> \in everFit
      BY <3>1 DEF FitKnown, Advice!OnlyEverFit
    <3> QED
      BY <2>1, <3>2, <3>3 DEF FitKnown, Advice!OnlyEverFit
  <2> QED
    BY <1>1, <2>2, <2>3, <2>4 DEF Advice!Next
<1>2. CASE UNCHANGED Advice!vars
  BY <1>2 DEF Advice!vars, Advice!rows, FitKnown, Advice!OnlyEverFit, Advice!Fit, Advice!Apart,
     Advice!Both
<1> QED
  BY <1>1, <1>2

LEMMA InitStore == Advice!Init => StoreTyped /\ FitKnown
BY PagesAssumption DEF Advice!Init, StoreTyped, FitKnown, Advice!OnlyEverFit, Advice!Fit,
   Advice!Nothing

-----------------------------------------------------------------------------
(* Who will be in the suggestions of a user when the tasks are done          *)

\* c is in v's suggestions once the workers have written.
Kept(v, c) == \/ \E w \in Clerks : <<v, c>> \in su_work[w].add
              \/ c \in suggested[v] /\ \A w \in Clerks : <<v, c>> \notin su_work[w].drop

\* Whatever takes c away from v is followed by something that puts c back.
Mended(v, c) == \A i \in 1 .. Len(su_queue) : Removes(su_queue[i], v, c) =>
                  \E j \in 1 .. Len(su_queue) : j > i /\ Adds(su_queue[j], v, c)
Due(v, c)     == /\ Mended(v, c)
                 /\ Kept(v, c) \/ \E i \in 1 .. Len(su_queue) : Adds(su_queue[i], v, c)
Leaving(v, c) == \E i \in 1 .. Len(su_queue) :
                   \/ Parting(su_queue[i], v, c)
                   \/ su_queue[i].do = "remove_user" /\ su_queue[i].of = c /\ ~Advice!Apart(v, c)

Wished(v, c) == c \in discoverable /\ ~Advice!Apart(v, c) /\ Advice!Unrelated(v, c)
Lifting      == \E i \in 1 .. Len(su_queue) : su_queue[i] = Advice!BulkAdd

\* The suggestions of v will be right about c.
WillFit(v, c) ==
  /\ (c \notin discoverable \/ Advice!Apart(v, c)) /\ Kept(v, c) => Leaving(v, c)
  /\ Wished(v, c) /\ c \in su_active /\ (c \in Advice!Remotes => server # "closing") => Due(v, c)
  /\ Wished(v, c) /\ c \in Advice!Remotes /\ server = "lifting" /\ Lifting => Mended(v, c)

OneWriting == \A w, x \in Clerks : Advice!Idle(w) \/ Advice!Idle(x) \/ w = x

\* v is here, and has heard of all that happened to c.
Heard(v, c) == v \in Here \cap su_active /\ c \in Users \ {v} /\ <<v, c>> \notin su_unheard

\* Nobody hears of those who follow them; the accounts of a server that is
\* blocked, or that is about to be let in, are not active.
StoreInv ==
  /\ \A v \in Here, c \in Users : <<v, c>> \in su_unheard \/ <<c, v>> \notin su_follows
  /\ \A u \in Users : ~Advice!Apart(u, u)
  /\ server \in {"blocked", "lifting"} => su_active \cap Advice!Remotes = {}
  /\ su_inOrder => OneWriting /\ \A v, c \in Users : Heard(v, c) => WillFit(v, c)

-----------------------------------------------------------------------------
(* Events                                                                    *)

Has(tasks, t) == \E k \in 1 .. Len(tasks) : tasks[k] = t

LEMMA HasWhat ==
  /\ \A t : ~Has(<<>>, t)
  /\ \A s, t : Has(<<s>>, t) <=> t = s
  /\ \A C \in BOOLEAN : \A s, t : Has(Advice!When(C, s), t) <=> C /\ t = s
<1>1. \A t : ~Has(<<>>, t)
  BY DEF Has
<1>2. ASSUME NEW s, NEW t PROVE Has(<<s>>, t) <=> t = s
  <2>1. Len(<<s>>) = 1 /\ <<s>>[1] = s
    OBVIOUS
  <2> QED
    BY <2>1 DEF Has
<1> QED
  BY <1>1, <1>2 DEF Advice!When

LEMMA HasEither ==
  ASSUME NEW S, NEW x \in Seq(S), NEW y \in Seq(S), NEW t
  PROVE  Has(x \o y, t) <=> Has(x, t) \/ Has(y, t)
<1>1. PICK n, m \in Nat : n = Len(x) /\ m = Len(y)
  OBVIOUS
<1>2. /\ Len(x \o y) = n + m
      /\ \A i \in 1 .. n : i \in 1 .. n + m /\ (x \o y)[i] = x[i]
      /\ \A k \in 1 .. m : n + k \in 1 .. n + m /\ (x \o y)[n + k] = y[k]
      /\ \A j \in 1 .. n + m : (j \in 1 .. n) \/ (j - n \in 1 .. m /\ (x \o y)[j] = y[j - n])
  BY <1>1
<1>3. ASSUME Has(x \o y, t) PROVE Has(x, t) \/ Has(y, t)
  <2>1. PICK j \in 1 .. n + m : (x \o y)[j] = t
    BY <1>2, <1>3 DEF Has
  <2> QED
    BY <1>1, <1>2, <2>1 DEF Has
<1>4. ASSUME Has(x, t) \/ Has(y, t) PROVE Has(x \o y, t)
  <2>1. CASE Has(x, t)
    <3>1. PICK i \in 1 .. n : x[i] = t
      BY <1>1, <2>1 DEF Has
    <3> QED
      BY <1>2, <3>1 DEF Has
  <2>2. CASE Has(y, t)
    <3>1. PICK k \in 1 .. m : y[k] = t
      BY <1>1, <2>2 DEF Has
    <3>2. n + k \in 1 .. Len(x \o y) /\ (x \o y)[n + k] = t
      BY <1>2, <3>1
    <3> QED
      BY <3>2 DEF Has
  <2> QED
    BY <1>4, <2>1, <2>2
<1> QED
  BY <1>3, <1>4

\* Tasks that are queued behind the others.
LEMMA StoreQueued ==
  ASSUME StoreTyped, NEW tasks \in Seq(Duties), su_queue' = su_queue \o tasks,
         UNCHANGED <<suggested, su_work>>,
         NEW v, NEW c
  PROVE  /\ Kept(v, c)' <=> Kept(v, c)
         /\ Leaving(v, c) /\ ~(Advice!Apart(v, c)' /\ ~Advice!Apart(v, c)) => Leaving(v, c)'
         /\ (\E t : Has(tasks, t) /\ Parting(t, v, c)) => Leaving(v, c)'
         /\ (\E t : Has(tasks, t) /\ t.do = "remove_user" /\ t.of = c) /\ ~Advice!Apart(v, c)' =>
              Leaving(v, c)'
         /\ (\A t : Has(tasks, t) => ~Removes(t, v, c)) =>
              /\ Mended(v, c) => Mended(v, c)'
              /\ Due(v, c) => Due(v, c)'
              /\ (\E t : Has(tasks, t) /\ Adds(t, v, c)) => Mended(v, c)' /\ Due(v, c)'
         /\ Lifting' => Lifting \/ Has(tasks, Advice!BulkAdd)
<1>1. PICK n, m \in Nat : n = Len(su_queue) /\ m = Len(tasks)
  BY DEF StoreTyped
<1>2. /\ Len(su_queue') = n + m
      /\ \A i \in 1 .. n : i \in 1 .. n + m /\ su_queue'[i] = su_queue[i]
      /\ \A k \in 1 .. m : n + k \in 1 .. n + m /\ su_queue'[n + k] = tasks[k]
      /\ \A j \in 1 .. n + m : (j \in 1 .. n) \/ (j - n \in 1 .. m /\ su_queue'[j] = tasks[j - n])
  BY <1>1 DEF StoreTyped
<1>3. Kept(v, c)' <=> Kept(v, c)
  BY DEF Kept
<1>4. \A t : (Removes(t, v, c)' <=> Removes(t, v, c)) /\ (Adds(t, v, c)' <=> Adds(t, v, c))
             /\ (Parting(t, v, c)' <=> Parting(t, v, c))
  BY DEF Removes, Parting, Adds
<1>5. ASSUME Leaving(v, c), ~(Advice!Apart(v, c)' /\ ~Advice!Apart(v, c)) PROVE Leaving(v, c)'
  BY <1>1, <1>2, <1>5 DEF Leaving, Parting
<1>6. ASSUME NEW t, Has(tasks, t),
             Parting(t, v, c) \/ (t.do = "remove_user" /\ t.of = c /\ ~Advice!Apart(v, c)')
      PROVE  Leaving(v, c)'
  <2>1. PICK k \in 1 .. m : tasks[k] = t
    BY <1>1, <1>6 DEF Has
  <2>2. n + k \in 1 .. Len(su_queue') /\ su_queue'[n + k] = t
    BY <1>2, <2>1
  <2> QED
    BY <1>6, <2>2 DEF Leaving, Parting
<1>7. Lifting' => Lifting \/ Has(tasks, Advice!BulkAdd)
  <2>1. ASSUME NEW j \in 1 .. n + m, su_queue'[j] = Advice!BulkAdd
        PROVE  Lifting \/ Has(tasks, Advice!BulkAdd)
    BY <1>1, <1>2, <2>1 DEF Lifting, Has
  <2>2. Advice!BulkAdd' = Advice!BulkAdd
    BY DEF Advice!BulkAdd, Advice!Task, Advice!Remotes
  <2> QED
    BY <1>2, <2>1, <2>2 DEF Lifting
<1>8. ASSUME \A t : Has(tasks, t) => ~Removes(t, v, c)
      PROVE  /\ Mended(v, c) => Mended(v, c)'
             /\ (\E t : Has(tasks, t) /\ Adds(t, v, c)) =>
                  Mended(v, c)' /\ \E i \in 1 .. Len(su_queue') : Adds(su_queue'[i], v, c)
             /\ (\E i \in 1 .. Len(su_queue) : Adds(su_queue[i], v, c)) =>
                   \E i \in 1 .. Len(su_queue') : Adds(su_queue'[i], v, c)
  <2>1. \A k \in 1 .. m : ~Removes(tasks[k], v, c)
    BY <1>1, <1>8 DEF Has
  <2>2. ASSUME NEW i \in 1 .. n + m, Removes(su_queue'[i], v, c)
        PROVE  i \in 1 .. n /\ Removes(su_queue[i], v, c)
    BY <1>2, <2>1, <2>2
  <2>3. ASSUME Mended(v, c) PROVE Mended(v, c)'
    <3>1. ASSUME NEW i \in 1 .. n + m, Removes(su_queue'[i], v, c)
          PROVE  \E j \in 1 .. n + m : j > i /\ Adds(su_queue'[j], v, c)
      <4>1. PICK j \in 1 .. n : j > i /\ Adds(su_queue[j], v, c)
        BY <1>1, <2>2, <2>3, <3>1 DEF Mended
      <4> QED
        BY <1>2, <4>1
    <3> QED
      BY <1>2, <1>4, <3>1 DEF Mended
  <2>4. ASSUME NEW t, Has(tasks, t), Adds(t, v, c)
        PROVE  Mended(v, c)' /\ \E i \in 1 .. Len(su_queue') : Adds(su_queue'[i], v, c)
    <3>1. PICK k \in 1 .. m : tasks[k] = t
      BY <1>1, <2>4 DEF Has
    <3>2. n + k \in 1 .. n + m /\ Adds(su_queue'[n + k], v, c)
      BY <1>2, <2>4, <3>1
    <3>3. ASSUME NEW i \in 1 .. n + m, Removes(su_queue'[i], v, c)
          PROVE  \E j \in 1 .. n + m : j > i /\ Adds(su_queue'[j], v, c)
      <4>1. n + k > i
        BY <1>1, <2>2, <3>1, <3>3
      <4> QED
        BY <3>2, <4>1
    <3> QED
      BY <1>2, <1>4, <3>2, <3>3 DEF Mended
  <2>5. (\E i \in 1 .. n : Adds(su_queue[i], v, c)) =>
          \E i \in 1 .. n + m : Adds(su_queue'[i], v, c)
    BY <1>2
  <2> QED
    BY <1>1, <1>2, <2>3, <2>4, <2>5
<1>9. ASSUME \A t : Has(tasks, t) => ~Removes(t, v, c)
      PROVE  (Due(v, c) => Due(v, c)')
             /\ ((\E t : Has(tasks, t) /\ Adds(t, v, c)) => Mended(v, c)' /\ Due(v, c)')
  BY <1>3, <1>4, <1>8, <1>9 DEF Due
<1> QED
  BY <1>3, <1>5, <1>6, <1>7, <1>8, <1>9

\* What suffices for the suggestions of v to stay right about c.
LEMMA StaysFit ==
  ASSUME StoreTyped, NEW tasks \in Seq(Duties), su_queue' = su_queue \o tasks,
         UNCHANGED <<suggested, su_work, server>>, NEW v, NEW c,
         c \notin discoverable' \/ Advice!Apart(v, c)' =>
           \/ WillFit(v, c) /\ (c \notin discoverable \/ Advice!Apart(v, c))
               /\ (Advice!Apart(v, c)' => Advice!Apart(v, c))
           \/ \E t : Has(tasks, t) /\ Parting(t, v, c)
           \/ ~Advice!Apart(v, c)' /\ \E t : Has(tasks, t) /\ t.do = "remove_user" /\ t.of = c,
         Wished(v, c)' /\ (c \in su_active' \/ c \in Advice!Remotes) =>
           /\ \A t : Has(tasks, t) => ~Removes(t, v, c) /\ t # Advice!BulkAdd
           /\ \/ WillFit(v, c) /\ Wished(v, c) /\ (c \in su_active' => c \in su_active)
              \/ \E t : Has(tasks, t) /\ Adds(t, v, c)
  PROVE  WillFit(v, c)'
<1>1. (c \notin discoverable' \/ Advice!Apart(v, c)') /\ Kept(v, c)' => Leaving(v, c)'
  BY StoreQueued DEF WillFit
<1>2. Advice!Remotes' = Advice!Remotes
  BY DEF Advice!Remotes
<1>3. Wished(v, c)' /\ c \in su_active' /\ (c \in Advice!Remotes => server # "closing") =>
        Due(v, c)'
  BY StoreQueued DEF WillFit
<1>4. Wished(v, c)' /\ c \in Advice!Remotes /\ server = "lifting" /\ Lifting' => Mended(v, c)'
  BY StoreQueued DEF WillFit
<1> QED
  BY <1>1, <1>2, <1>3, <1>4 DEF WillFit

\* Whoever has heard of all had heard of it before, or hears of c now.
LEMMA HeardOf ==
  ASSUME StoreTyped, StoreInv, su_inOrder, NEW tasks \in Seq(Duties), NEW without,
         Advice!Event(tasks, without),
         NEW v \in Here \cap su_active, NEW c \in Users \ {v}, <<v, c>> \notin su_unheard'
  PROVE  /\ <<v, c>> \notin without /\ <<c, v>> \notin su_follows
         /\ \/ WillFit(v, c)
            \/ v \in Advice!Wanting(c) /\ ~Advice!Apart(v, c)
                /\ (Has(tasks, Advice!Rerank(c)) \/ Has(tasks, Advice!RemoveUser(c)))
<1> DEFINE told == {p \in Here \X Users :
                     /\ p[1] \in Advice!Wanting(p[2])
                     /\ Advice!Contains(tasks, Advice!Rerank(p[2]))
                         \/ Advice!Contains(tasks, Advice!RemoveUser(p[2]))}
<1>1. su_unheard' = (su_unheard \ told) \cup (without \cap (Here \X Users))
  BY DEF Advice!Event
<1>2. v \in Users
  BY PagesAssumption
<1>3. <<v, c>> \in Here \X Users /\ <<v, c>>[1] = v /\ <<v, c>>[2] = c
  OBVIOUS
<1>4. <<v, c>> \notin without /\ (<<v, c>> \notin su_unheard \/ <<v, c>> \in told)
  BY <1>1, <1>3
<1>5. CASE <<v, c>> \notin su_unheard
  BY <1>2, <1>4, <1>5 DEF StoreInv, Heard
<1>6. CASE <<v, c>> \in told
  <2>1. v \in Advice!Wanting(c)
         /\ (Advice!Contains(tasks, Advice!Rerank(c)) \/ Advice!Contains(tasks, Advice!RemoveUser(c)))
    BY <1>3, <1>6
  <2>2. ~Advice!Apart(v, c) /\ <<c, v>> \notin su_follows
    BY <2>1 DEF Advice!Wanting
  <2> QED
    BY <1>4, <2>1, <2>2 DEF Advice!Contains, Has
<1> QED
  BY <1>4, <1>5, <1>6

LEMMA DutyFields ==
  /\ \A x : Advice!Rerank(x).do = "rerank_user" /\ Advice!Rerank(x).of = x
  /\ \A x : Advice!RemoveUser(x).do = "remove_user" /\ Advice!RemoveUser(x).of = x
  /\ \A x, y : /\ Advice!Unsuggest(x, y).do = "remove_suggestion"
               /\ Advice!Unsuggest(x, y).user = x /\ Advice!Unsuggest(x, y).of = y
  /\ \A x : Advice!Populate(x).do = "rerank_suggestions"
  /\ Advice!BulkRemove.do = "bulk_remove_instance" /\ Advice!BulkRemove.of = Advice!Remotes
  /\ Advice!BulkAdd.do = "bulk_add_instance" /\ Advice!BulkAdd.of = Advice!Remotes
BY DEF Advice!Rerank, Advice!RemoveUser, Advice!Unsuggest, Advice!Populate, Advice!BulkRemove,
   Advice!BulkAdd, Advice!Task

\* What the tasks that events queue do to the pair of v and c.
LEMMA RerankDoes ==
  ASSUME NEW v, NEW c, NEW x
  PROVE  /\ Adds(Advice!Rerank(x), v, c) <=> x = c
         /\ ~Removes(Advice!Rerank(x), v, c) /\ Advice!Rerank(x) # Advice!BulkAdd
         /\ Advice!Rerank(c) = Advice!Rerank(x) <=> x = c
         /\ Advice!RemoveUser(c) # Advice!Rerank(x)
BY DutyFields DEF Adds, Removes, Parting

LEMMA RemoveDoes ==
  ASSUME NEW v, NEW c, NEW x
  PROVE  /\ Removes(Advice!RemoveUser(x), v, c) <=> x = c
         /\ Advice!RemoveUser(x) # Advice!BulkAdd
         /\ Advice!RemoveUser(c) = Advice!RemoveUser(x) <=> x = c
         /\ Advice!Rerank(c) # Advice!RemoveUser(x)
BY DutyFields DEF Removes, Parting

LEMMA UnsuggestDoes ==
  ASSUME NEW v, NEW c, NEW x, NEW y
  PROVE  /\ Parting(Advice!Unsuggest(x, y), v, c) <=> x = v /\ y = c
         /\ Removes(Advice!Unsuggest(x, y), v, c) <=> x = v /\ y = c
         /\ Advice!Unsuggest(x, y) # Advice!BulkAdd
             /\ Advice!RemoveUser(c) # Advice!Unsuggest(x, y) /\ Advice!Rerank(c) # Advice!Unsuggest(x, y)
BY DutyFields DEF Removes, Parting

LEMMA OthersDo ==
  ASSUME NEW v, NEW c, NEW x
  PROVE  /\ ~Removes(Advice!Populate(x), v, c) /\ Advice!Populate(x) # Advice!BulkAdd
         /\ Advice!RemoveUser(c) # Advice!Populate(x) /\ Advice!Rerank(c) # Advice!Populate(x)
         /\ Removes(Advice!BulkRemove, v, c) <=> c \in Advice!Remotes
         /\ Advice!BulkRemove # Advice!BulkAdd /\ Advice!RemoveUser(c) # Advice!BulkRemove
             /\ Advice!Rerank(c) # Advice!BulkRemove
         /\ Adds(Advice!BulkAdd, v, c) <=> c \in Advice!Remotes
         /\ ~Removes(Advice!BulkAdd, v, c) /\ Advice!RemoveUser(c) # Advice!BulkAdd
             /\ Advice!Rerank(c) # Advice!BulkAdd
BY DutyFields DEF Adds, Removes, Parting

\* Somebody wants to be found, or not to be.
LEMMA ShowingFits ==
  ASSUME StoreTyped, StoreInv, su_inOrder, NEW v, NEW c, Heard(v, c)', NEW x \in Users,
         Advice!Show(x) \/ Advice!Hide(x)
  PROVE  WillFit(v, c)'
<1>1. /\ UNCHANGED <<su_active, su_follows, asked, su_blocks, server>>
      /\ v \in Here \cap su_active /\ c \in Users \ {v} /\ <<v, c>> \notin su_unheard'
      /\ Advice!Apart(v, c)' <=> Advice!Apart(v, c)
      /\ Advice!Unrelated(v, c)' <=> Advice!Unrelated(v, c)
  BY DEF Advice!Show, Advice!Hide, Heard, Advice!Apart, Advice!Unrelated
<1>2. CASE Advice!Show(x)
  <2>1. PICK tasks : tasks = <<Advice!Rerank(x)>>
    OBVIOUS
  <2>2. tasks \in Seq(Duties) /\ (\A t : Has(tasks, t) <=> t = Advice!Rerank(x))
    BY <2>1, HasWhat, DutiesAre
  <2>3. Advice!Event(tasks, {}) /\ discoverable' = discoverable \cup {x}
    BY <1>2, <2>1 DEF Advice!Show
  <2>4. su_queue' = su_queue \o tasks /\ UNCHANGED <<suggested, su_work>>
    BY <2>3 DEF Advice!Event
  <2>5. WillFit(v, c) \/ (c = x /\ ~Advice!Apart(v, c))
    <3>1. \/ WillFit(v, c)
          \/ ~Advice!Apart(v, c)
              /\ (Has(tasks, Advice!Rerank(c)) \/ Has(tasks, Advice!RemoveUser(c)))
      BY <1>1, <2>2, <2>3, HeardOf
    <3> QED
      BY <2>2, <3>1, RerankDoes
  <2>8. /\ \A t : Has(tasks, t) => ~Removes(t, v, c) /\ t # Advice!BulkAdd
        /\ c = x => \E t : Has(tasks, t) /\ Adds(t, v, c)
    BY <2>2, RerankDoes
  <2>6. c \notin discoverable' \/ Advice!Apart(v, c)' =>
           WillFit(v, c) /\ (c \notin discoverable \/ Advice!Apart(v, c))
            /\ (Advice!Apart(v, c)' => Advice!Apart(v, c))
    BY <1>1, <2>3, <2>5
  <2>7. Wished(v, c)' =>
           /\ \A t : Has(tasks, t) => ~Removes(t, v, c) /\ t # Advice!BulkAdd
           /\ \/ WillFit(v, c) /\ Wished(v, c) /\ (c \in su_active' => c \in su_active)
              \/ \E t : Has(tasks, t) /\ Adds(t, v, c)
    BY <1>1, <2>3, <2>5, <2>8 DEF Wished
  <2> QED
    BY <1>1, <2>2, <2>4, <2>6, <2>7, StaysFit
<1>3. CASE Advice!Hide(x)
  <2>1. PICK tasks : tasks = <<Advice!RemoveUser(x)>>
    OBVIOUS
  <2>2. tasks \in Seq(Duties) /\ (\A t : Has(tasks, t) <=> t = Advice!RemoveUser(x))
    BY <2>1, HasWhat, DutiesAre
  <2>3. Advice!Event(tasks, {}) /\ discoverable' = discoverable \ {x} /\ x \in discoverable
    BY <1>3, <2>1 DEF Advice!Hide
  <2>4. su_queue' = su_queue \o tasks /\ UNCHANGED <<suggested, su_work>>
    BY <2>3 DEF Advice!Event
  <2>5. WillFit(v, c) \/ (c = x /\ ~Advice!Apart(v, c))
    <3>1. \/ WillFit(v, c)
          \/ ~Advice!Apart(v, c)
              /\ (Has(tasks, Advice!Rerank(c)) \/ Has(tasks, Advice!RemoveUser(c)))
      BY <1>1, <2>2, <2>3, HeardOf
    <3> QED
      BY <2>2, <3>1, RemoveDoes
  <2>8. \A t : Has(tasks, t) => (Removes(t, v, c) => c = x) /\ t # Advice!BulkAdd
    BY <2>2, RemoveDoes
  <2>6. c \notin discoverable' \/ Advice!Apart(v, c)' =>
           \/ WillFit(v, c) /\ (c \notin discoverable \/ Advice!Apart(v, c))
               /\ (Advice!Apart(v, c)' => Advice!Apart(v, c))
           \/ ~Advice!Apart(v, c)' /\ \E t : Has(tasks, t) /\ t.do = "remove_user" /\ t.of = c
    BY <1>1, <2>2, <2>3, <2>5, DutyFields
  <2>7. Wished(v, c)' =>
           /\ \A t : Has(tasks, t) => ~Removes(t, v, c) /\ t # Advice!BulkAdd
           /\ WillFit(v, c) /\ Wished(v, c) /\ (c \in su_active' => c \in su_active)
    BY <1>1, <2>2, <2>3, <2>5, <2>8 DEF Wished
  <2> QED
    BY <1>1, <2>2, <2>4, <2>6, <2>7, StaysFit
<1> QED
  BY <1>2, <1>3

LEMMA WhenHas == ASSUME NEW C, NEW s, NEW t PROVE Has(Advice!When(C, s), t) <=> C /\ t = s
<1>1. CASE C
  BY <1>1, HasWhat DEF Advice!When
<1>2. CASE ~C
  BY <1>2, HasWhat DEF Advice!When
<1> QED
  BY <1>1, <1>2

\* Somebody asks to follow another, or the request ends.
LEMMA AskingFits ==
  ASSUME StoreTyped, StoreInv, su_inOrder, NEW v, NEW c, Heard(v, c)', NEW x \in Users,
         NEW y \in Users,
         Advice!Ask(x, y) \/ Advice!Withdraw(x, y)
  PROVE  WillFit(v, c)'
<1>1. /\ UNCHANGED <<discoverable, su_active, su_follows, su_blocks, server>>
      /\ v \in Here \cap su_active /\ c \in Users \ {v} /\ <<v, c>> \notin su_unheard'
      /\ Advice!Apart(v, c)' <=> Advice!Apart(v, c)
  BY DEF Advice!Ask, Advice!Withdraw, Heard, Advice!Apart
<1>2. PICK tasks, without :
        /\ Advice!Event(tasks, without)
        /\ \/ /\ tasks = Advice!When(y \in discoverable /\ x \in Here, Advice!Unsuggest(x, y))
              /\ asked' = asked \cup {<<x, y>>}
           \/ tasks = <<>> /\ without = {<<x, y>>} /\ asked' = asked \ {<<x, y>>}
  BY DEF Advice!Ask, Advice!Withdraw
<1>3. tasks \in Seq(Duties) /\ \A t : Has(tasks, t) =>
        t = Advice!Unsuggest(x, y) /\ asked' = asked \cup {<<x, y>>}
  <2>1. /\ <<>> \in Seq(Duties)
        /\ Advice!When(y \in discoverable /\ x \in Here, Advice!Unsuggest(x, y)) \in Seq(Duties)
    BY WhenDue, DutiesAre
  <2>2. ASSUME NEW t
        PROVE  /\ ~Has(<<>>, t)
               /\ Has(Advice!When(y \in discoverable /\ x \in Here, Advice!Unsuggest(x, y)), t)
                    => t = Advice!Unsuggest(x, y)
    BY HasWhat, WhenHas
  <2> QED
    BY <1>2, <2>1, <2>2
<1>4. su_queue' = su_queue \o tasks /\ UNCHANGED <<suggested, su_work>>
  BY <1>2 DEF Advice!Event
<1>5. <<v, c>> \notin without /\ WillFit(v, c)
  <2>1. /\ <<v, c>> \notin without
        /\ WillFit(v, c) \/ Has(tasks, Advice!Rerank(c)) \/ Has(tasks, Advice!RemoveUser(c))
    BY <1>1, <1>2, <1>3, HeardOf
  <2> QED
    BY <1>3, <2>1, UnsuggestDoes
<1>6. \A t : Has(tasks, t) => (Removes(t, v, c) => v = x /\ c = y) /\ t # Advice!BulkAdd
  BY <1>3, UnsuggestDoes
<1>7. Wished(v, c)' => Wished(v, c) /\ \A t : Has(tasks, t) =>
        ~Removes(t, v, c) /\ t # Advice!BulkAdd
  BY <1>1, <1>2, <1>3, <1>5, <1>6 DEF Wished, Advice!Unrelated
<1> QED
  BY <1>1, <1>3, <1>4, <1>5, <1>7, StaysFit

\* Somebody follows another.
LEMMA FollowingFits ==
  ASSUME StoreTyped, StoreInv, su_inOrder, NEW v, NEW c, Heard(v, c)', NEW x \in Users,
         NEW y \in Users,
         Advice!Follow(x, y)
  PROVE  WillFit(v, c)'
<1>1. /\ UNCHANGED <<discoverable, su_active, su_blocks, server>>
      /\ su_follows' = su_follows \cup {<<x, y>>} /\ asked' = asked \ {<<x, y>>}
      /\ v \in Here \cap su_active /\ c \in Users \ {v} /\ <<v, c>> \notin su_unheard'
      /\ Advice!Apart(v, c)' <=> Advice!Apart(v, c)
  BY DEF Advice!Follow, Heard, Advice!Apart
<1>2. PICK tasks, without :
        /\ Advice!Event(tasks, without)
        /\ tasks = IF y \notin discoverable THEN <<>>
                   ELSE Advice!When(x \in Here, Advice!Unsuggest(x, y)) \o <<Advice!Rerank(y)>>
  BY DEF Advice!Follow
<1>3. /\ tasks \in Seq(Duties)
      /\ \A t : Has(tasks, t) =>
           y \in discoverable /\ (t = Advice!Unsuggest(x, y) \/ t = Advice!Rerank(y))
      /\ y \in discoverable => Has(tasks, Advice!Rerank(y))
  <2>1. CASE y \notin discoverable
    BY <1>2, <2>1, HasWhat
  <2>2. CASE y \in discoverable
    <3>1. PICK r, s : r = Advice!When(x \in Here, Advice!Unsuggest(x, y)) /\ s = <<Advice!Rerank(y)>>
      OBVIOUS
    <3>2. /\ r \in Seq(Duties) /\ s \in Seq(Duties) /\ tasks = r \o s
          /\ \A t : (Has(r, t) => t = Advice!Unsuggest(x, y)) /\ (Has(s, t) <=> t = Advice!Rerank(y))
      <4>1. r \in Seq(Duties) /\ s \in Seq(Duties)
        BY <3>1, WhenDue, DutiesAre
      <4>2. ASSUME NEW t
            PROVE  (Has(r, t) => t = Advice!Unsuggest(x, y)) /\ (Has(s, t) <=> t = Advice!Rerank(y))
        BY <3>1, HasWhat, WhenHas
      <4> QED
        BY <1>2, <2>2, <3>1, <4>1, <4>2
    <3>3. tasks \in Seq(Duties)
      BY <3>2
    <3>4. \A t : Has(tasks, t) <=> Has(r, t) \/ Has(s, t)
      BY <3>2, HasEither
    <3> QED
      BY <2>2, <3>2, <3>3, <3>4
  <2> QED
    BY <2>1, <2>2
<1>4. su_queue' = su_queue \o tasks /\ UNCHANGED <<suggested, su_work>>
  BY <1>2 DEF Advice!Event
<1>5. WillFit(v, c) \/ (c = y /\ y \in discoverable /\ ~Advice!Apart(v, c))
  <2>1. \/ WillFit(v, c)
        \/ ~Advice!Apart(v, c) /\ (Has(tasks, Advice!Rerank(c)) \/ Has(tasks, Advice!RemoveUser(c)))
    BY <1>1, <1>2, <1>3, HeardOf
  <2>2. Has(tasks, Advice!Rerank(c)) \/ Has(tasks, Advice!RemoveUser(c)) =>
          c = y /\ y \in discoverable
    BY <1>3, RerankDoes, UnsuggestDoes
  <2> QED
    BY <2>1, <2>2
<1>6. ASSUME NEW t, Has(tasks, t) PROVE (Removes(t, v, c) => v = x /\ c = y) /\ t # Advice!BulkAdd
  <2>1. CASE t = Advice!Unsuggest(x, y)
    BY <2>1, UnsuggestDoes
  <2>2. CASE t = Advice!Rerank(y)
    BY <2>2, RerankDoes
  <2> QED
    BY <1>3, <1>6, <2>1, <2>2
<1>7. c = y /\ y \in discoverable => \E t : Has(tasks, t) /\ Adds(t, v, c)
  BY <1>3, RerankDoes
<1>8. Wished(v, c)' => /\ \A t : Has(tasks, t) => ~Removes(t, v, c) /\ t # Advice!BulkAdd
                       /\ Wished(v, c)
  BY <1>1, <1>6 DEF Wished, Advice!Unrelated
<1>9. c \notin discoverable' \/ Advice!Apart(v, c)' =>
        WillFit(v, c) /\ (c \notin discoverable \/ Advice!Apart(v, c))
         /\ (Advice!Apart(v, c)' => Advice!Apart(v, c))
  BY <1>1, <1>5
<1> QED
  BY <1>1, <1>3, <1>4, <1>5, <1>7, <1>8, <1>9, StaysFit

\* Somebody ends to follow another.
LEMMA UnfollowingFits ==
  ASSUME StoreTyped, StoreInv, su_inOrder, NEW v, NEW c, Heard(v, c)', NEW x \in Users,
         NEW y \in Users,
         Advice!Unfollow(x, y)
  PROVE  WillFit(v, c)'
<1>1. /\ UNCHANGED <<discoverable, su_active, asked, su_blocks, server>>
      /\ su_follows' = su_follows \ {<<x, y>>}
      /\ v \in Here \cap su_active /\ c \in Users \ {v} /\ <<v, c>> \notin su_unheard'
      /\ Advice!Apart(v, c)' <=> Advice!Apart(v, c)
  BY DEF Advice!Unfollow, Heard, Advice!Apart
<1>2. PICK tasks : tasks = Advice!When(y \in discoverable, Advice!Rerank(y)) /\ Advice!Event(tasks, {})
  BY DEF Advice!Unfollow
<1>3. /\ tasks \in Seq(Duties)
      /\ \A t : Has(tasks, t) <=> y \in discoverable /\ t = Advice!Rerank(y)
  <2>1. (y \in discoverable) \in BOOLEAN
    OBVIOUS
  <2> QED
    BY <1>2, <2>1, HasWhat, WhenDue, DutiesAre
<1>4. su_queue' = su_queue \o tasks /\ UNCHANGED <<suggested, su_work>>
  BY <1>2 DEF Advice!Event
<1>5. WillFit(v, c) \/ (c = y /\ y \in discoverable /\ ~Advice!Apart(v, c))
  <2>1. \/ WillFit(v, c)
        \/ ~Advice!Apart(v, c) /\ (Has(tasks, Advice!Rerank(c)) \/ Has(tasks, Advice!RemoveUser(c)))
    BY <1>1, <1>2, <1>3, HeardOf
  <2>2. Has(tasks, Advice!Rerank(c)) \/ Has(tasks, Advice!RemoveUser(c)) =>
          c = y /\ y \in discoverable
    BY <1>3, RerankDoes
  <2> QED
    BY <2>1, <2>2
<1>6. \A t : Has(tasks, t) => ~Removes(t, v, c) /\ t # Advice!BulkAdd
  BY <1>3, RerankDoes
<1>7. c = y /\ y \in discoverable => \E t : Has(tasks, t) /\ Adds(t, v, c)
  BY <1>3, RerankDoes
<1>8. Wished(v, c)' => Wished(v, c) \/ (c = y /\ y \in discoverable)
  BY <1>1 DEF Wished, Advice!Unrelated
<1>9. c \notin discoverable' \/ Advice!Apart(v, c)' =>
        WillFit(v, c) /\ (c \notin discoverable \/ Advice!Apart(v, c))
         /\ (Advice!Apart(v, c)' => Advice!Apart(v, c))
  BY <1>1, <1>5
<1> QED
  BY <1>1, <1>3, <1>4, <1>5, <1>6, <1>7, <1>8, <1>9, StaysFit

\* Somebody blocks another, or ends it.
LEMMA BlockQueues ==
  ASSUME StoreTyped, NEW x \in Users, NEW y \in Users, Advice!Block(x, y)
  PROVE  \E tasks \in Seq(Duties) :
           /\ Advice!Event(tasks, {p \in Advice!Both(x, y) : p[2] \notin discoverable})
           /\ \A t : Has(tasks, t) => \/ t = Advice!Unsuggest(x, y) \/ t = Advice!Unsuggest(y, x)
                                      \/ t = Advice!Rerank(y) /\ y \in discoverable
                                      \/ t = Advice!Rerank(x) /\ x \in discoverable
           /\ x \in Here /\ y \in discoverable => Has(tasks, Advice!Unsuggest(x, y))
           /\ y \in Here /\ x \in discoverable => Has(tasks, Advice!Unsuggest(y, x))
<1>1. PICK r, s, f, g :
        /\ r = Advice!When(x \in Here /\ y \in discoverable, Advice!Unsuggest(x, y))
        /\ s = Advice!When(y \in Here /\ x \in discoverable, Advice!Unsuggest(y, x))
        /\ f = Advice!When(<<x, y>> \in su_follows /\ y \in discoverable, Advice!Rerank(y))
        /\ g = Advice!When(<<y, x>> \in su_follows /\ x \in discoverable, Advice!Rerank(x))
  OBVIOUS
<1>2. PICK both, again : both = r \o s /\ again = IF x \in Here THEN both ELSE <<>>
  OBVIOUS
<1>3. Advice!Event(both \o again \o f \o g, {p \in Advice!Both(x, y) : p[2] \notin discoverable})
  BY <1>1, <1>2 DEF Advice!Block
<1>4. /\ r \in Seq(Duties) /\ s \in Seq(Duties) /\ f \in Seq(Duties) /\ g \in Seq(Duties)
      /\ both \in Seq(Duties)
  <2>1. r \in Seq(Duties) /\ s \in Seq(Duties) /\ f \in Seq(Duties) /\ g \in Seq(Duties)
    BY <1>1, WhenDue, DutiesAre
  <2> QED
    BY <1>2, <2>1
<1>5. again \in Seq(Duties)
  BY <1>2, <1>4
<1>6. PICK k, l, tasks : k = both \o again /\ l = k \o f /\ tasks = l \o g
  OBVIOUS
<1>7. k \in Seq(Duties) /\ l \in Seq(Duties) /\ tasks \in Seq(Duties)
  <2>1. k \in Seq(Duties)
    BY <1>4, <1>5, <1>6
  <2>2. l \in Seq(Duties)
    BY <1>4, <1>6, <2>1
  <2> QED
    BY <1>4, <1>6, <2>1, <2>2
<1>8. ASSUME NEW t
      PROVE  /\ Has(tasks, t) => Has(r, t) \/ Has(s, t) \/ Has(f, t) \/ Has(g, t)
             /\ Has(r, t) \/ Has(s, t) => Has(tasks, t)
  <2>1. Has(both, t) <=> Has(r, t) \/ Has(s, t)
    BY <1>2, <1>4, HasEither
  <2>2. Has(again, t) => Has(both, t)
    BY <1>2, HasWhat
  <2>3. Has(k, t) <=> Has(both, t) \/ Has(again, t)
    BY <1>4, <1>5, <1>6, HasEither
  <2>4. Has(l, t) <=> Has(k, t) \/ Has(f, t)
    BY <1>4, <1>6, <1>7, HasEither
  <2>5. Has(tasks, t) <=> Has(l, t) \/ Has(g, t)
    BY <1>4, <1>6, <1>7, HasEither
  <2> QED
    BY <2>1, <2>2, <2>3, <2>4, <2>5
<1>9. ASSUME NEW t
      PROVE  /\ Has(r, t) <=> x \in Here /\ y \in discoverable /\ t = Advice!Unsuggest(x, y)
             /\ Has(s, t) <=> y \in Here /\ x \in discoverable /\ t = Advice!Unsuggest(y, x)
             /\ Has(f, t) => y \in discoverable /\ t = Advice!Rerank(y)
             /\ Has(g, t) => x \in discoverable /\ t = Advice!Rerank(x)
  BY <1>1, WhenHas
<1>10. ASSUME NEW t, Has(tasks, t)
       PROVE  \/ t = Advice!Unsuggest(x, y) \/ t = Advice!Unsuggest(y, x)
              \/ t = Advice!Rerank(y) /\ y \in discoverable
              \/ t = Advice!Rerank(x) /\ x \in discoverable
  <2>1. Has(r, t) \/ Has(s, t) \/ Has(f, t) \/ Has(g, t)
    BY <1>8, <1>10
  <2> QED
    BY <1>9, <2>1
<1>11. /\ x \in Here /\ y \in discoverable => Has(tasks, Advice!Unsuggest(x, y))
       /\ y \in Here /\ x \in discoverable => Has(tasks, Advice!Unsuggest(y, x))
  BY <1>8, <1>9
<1> QED
  BY <1>3, <1>6, <1>7, <1>10, <1>11

LEMMA BlockingFits ==
  ASSUME StoreTyped, StoreInv, su_inOrder, NEW v, NEW c, Heard(v, c)', NEW x \in Users,
         NEW y \in Users,
         Advice!Block(x, y)
  PROVE  WillFit(v, c)'
<1>1. /\ UNCHANGED <<discoverable, su_active, server>> /\ su_blocks' = su_blocks \cup {<<x, y>>}
      /\ su_follows' = su_follows \ Advice!Both(x, y) /\ asked' = asked \ Advice!Both(x, y)
      /\ v \in Here \cap su_active /\ c \in Users \ {v} /\ <<v, c>> \notin su_unheard'
  BY DEF Advice!Block, Heard
<1>2. PICK tasks \in Seq(Duties) :
           /\ Advice!Event(tasks, {p \in Advice!Both(x, y) : p[2] \notin discoverable})
           /\ \A t : Has(tasks, t) => \/ t = Advice!Unsuggest(x, y) \/ t = Advice!Unsuggest(y, x)
                                      \/ t = Advice!Rerank(y) /\ y \in discoverable
                                      \/ t = Advice!Rerank(x) /\ x \in discoverable
           /\ x \in Here /\ y \in discoverable => Has(tasks, Advice!Unsuggest(x, y))
           /\ y \in Here /\ x \in discoverable => Has(tasks, Advice!Unsuggest(y, x))
  BY BlockQueues
<1>3. su_queue' = su_queue \o tasks /\ UNCHANGED <<suggested, su_work>>
  BY <1>2 DEF Advice!Event
<1>4. /\ <<v, c>> \notin {p \in Advice!Both(x, y) : p[2] \notin discoverable}
      /\ WillFit(v, c) \/ (~Advice!Apart(v, c) /\ (Has(tasks, Advice!Rerank(c)) \/ Has(tasks, Advice!RemoveUser(c))))
  BY <1>1, <1>2, HeardOf
<1>5. CASE <<v, c>> \in Advice!Both(x, y)
  <2>1. c \in discoverable
    BY <1>4, <1>5
  <2>2. (v = x /\ c = y) \/ (v = y /\ c = x)
    BY <1>5 DEF Advice!Both
  <2>3. Has(tasks, Advice!Unsuggest(v, c))
    BY <1>1, <1>2, <2>1, <2>2
  <2>4. \E t : Has(tasks, t) /\ Parting(t, v, c)
    BY <2>3, UnsuggestDoes
  <2>5. Advice!Apart(v, c)'
    BY <1>1, <2>2 DEF Advice!Apart, Advice!Both
  <2> QED
    BY <1>1, <1>2, <1>3, <2>4, <2>5, StaysFit DEF Wished
<1>6. CASE <<v, c>> \notin Advice!Both(x, y)
  <2>1. /\ Advice!Apart(v, c)' <=> Advice!Apart(v, c)
        /\ Advice!Unrelated(v, c)' <=> Advice!Unrelated(v, c)
        /\ ~(v = x /\ c = y) /\ ~(v = y /\ c = x)
    BY <1>1, <1>6 DEF Advice!Apart, Advice!Both, Advice!Unrelated
  <2>2. ASSUME NEW t, Has(tasks, t) PROVE ~Removes(t, v, c) /\ t # Advice!BulkAdd
    <3>1. CASE t = Advice!Unsuggest(x, y) \/ t = Advice!Unsuggest(y, x)
      BY <2>1, <3>1, UnsuggestDoes
    <3>2. CASE t = Advice!Rerank(x) \/ t = Advice!Rerank(y)
      BY <3>2, RerankDoes
    <3> QED
      BY <1>2, <2>2, <3>1, <3>2
  <2>3. WillFit(v, c) \/ (~Advice!Apart(v, c) /\ c \in discoverable /\ Has(tasks, Advice!Rerank(c)))
    <3>1. ~Has(tasks, Advice!RemoveUser(c))
      <4>1. /\ Advice!RemoveUser(c) # Advice!Unsuggest(x, y)
                /\ Advice!RemoveUser(c) # Advice!Unsuggest(y, x)
            /\ Advice!RemoveUser(c) # Advice!Rerank(x) /\ Advice!RemoveUser(c) # Advice!Rerank(y)
        BY DutyFields
      <4> QED
        BY <1>2, <4>1
    <3>2. Has(tasks, Advice!Rerank(c)) => c \in discoverable
      <4>1. Advice!Rerank(c) # Advice!Unsuggest(x, y) /\ Advice!Rerank(c) # Advice!Unsuggest(y, x)
        BY DutyFields
      <4>2. (Advice!Rerank(c) = Advice!Rerank(x) => c = x)
             /\ (Advice!Rerank(c) = Advice!Rerank(y) => c = y)
        BY RerankDoes
      <4> QED
        BY <1>2, <4>1, <4>2
    <3> QED
      BY <1>4, <3>1, <3>2
  <2>4. Has(tasks, Advice!Rerank(c)) => \E t : Has(tasks, t) /\ Adds(t, v, c)
    BY RerankDoes
  <2>5. Wished(v, c)' => Wished(v, c)
    BY <1>1, <2>1 DEF Wished
  <2>6. c \notin discoverable' \/ Advice!Apart(v, c)' =>
          WillFit(v, c) /\ (c \notin discoverable \/ Advice!Apart(v, c))
           /\ (Advice!Apart(v, c)' => Advice!Apart(v, c))
    BY <1>1, <2>1, <2>3
  <2> QED
    BY <1>1, <1>2, <1>3, <2>2, <2>3, <2>4, <2>5, <2>6, StaysFit
<1> QED
  BY <1>5, <1>6

LEMMA UnblockingFits ==
  ASSUME StoreTyped, StoreInv, su_inOrder, NEW v, NEW c, Heard(v, c)', NEW x \in Users,
         NEW y \in Users,
         Advice!Unblock(x, y)
  PROVE  WillFit(v, c)'
<1>1. /\ UNCHANGED <<discoverable, su_active, su_follows, asked, server>>
          /\ su_blocks' = su_blocks \ {<<x, y>>}
      /\ v \in Here \cap su_active /\ c \in Users \ {v} /\ <<v, c>> \notin su_unheard'
  BY DEF Advice!Unblock, Heard
<1>2. PICK tasks \in Seq(Duties) : tasks = <<>> /\ Advice!Event(tasks, Advice!Both(x, y))
  <2>1. <<>> \in Seq(Duties)
    OBVIOUS
  <2> QED
    BY <2>1 DEF Advice!Unblock
<1>3. su_queue' = su_queue \o tasks /\ UNCHANGED <<suggested, su_work>> /\ \A t : ~Has(tasks, t)
  BY <1>2, HasWhat DEF Advice!Event
<1>4. <<v, c>> \notin Advice!Both(x, y) /\ WillFit(v, c)
  BY <1>1, <1>2, <1>3, HeardOf
<1>5. (Advice!Apart(v, c)' <=> Advice!Apart(v, c))
       /\ (Advice!Unrelated(v, c)' <=> Advice!Unrelated(v, c))
  BY <1>1, <1>4 DEF Advice!Apart, Advice!Both, Advice!Unrelated
<1>6. Wished(v, c)' => Wished(v, c)
  BY <1>1, <1>5 DEF Wished
<1> QED
  BY <1>1, <1>2, <1>3, <1>4, <1>5, <1>6, StaysFit

\* Somebody leaves, comes back, or is given new suggestions.
LEMMA ReturningFits ==
  ASSUME StoreTyped, StoreInv, su_inOrder, NEW v, NEW c, Heard(v, c)', NEW x \in Users,
         Advice!Deactivate(x) \/ Advice!Reactivate(x) \/ Advice!Repopulate(x)
  PROVE  WillFit(v, c)'
<1>1. /\ UNCHANGED <<discoverable, su_follows, asked, su_blocks, server>>
      /\ v \in Here \cap su_active' /\ c \in Users \ {v} /\ <<v, c>> \notin su_unheard'
      /\ Advice!Apart(v, c)' <=> Advice!Apart(v, c)
      /\ Wished(v, c)' <=> Wished(v, c)
  BY DEF Advice!Deactivate, Advice!Reactivate, Advice!Repopulate, Advice!rows, Heard,
     Advice!Apart, Advice!Unrelated, Wished
<1>2. CASE Advice!Deactivate(x)
  <2>1. PICK tasks : tasks = <<Advice!RemoveUser(x)>>
    OBVIOUS
  <2>2. tasks \in Seq(Duties) /\ (\A t : Has(tasks, t) <=> t = Advice!RemoveUser(x))
    BY <2>1, HasWhat, DutiesAre
  <2>3. Advice!Event(tasks, {x} \X Users) /\ su_active' = su_active \ {x} /\ x \in Here
    BY <1>2, <2>1 DEF Advice!Deactivate
  <2>4. su_queue' = su_queue \o tasks /\ UNCHANGED <<suggested, su_work>>
    BY <2>3 DEF Advice!Event
  <2>5. WillFit(v, c) \/ (c = x /\ ~Advice!Apart(v, c))
    <3>1. \/ WillFit(v, c)
          \/ ~Advice!Apart(v, c) /\ (Has(tasks, Advice!Rerank(c)) \/ Has(tasks, Advice!RemoveUser(c)))
      BY <1>1, <2>2, <2>3, HeardOf
    <3> QED
      BY <2>2, <3>1, RemoveDoes
  <2>6. \A t : Has(tasks, t) => (Removes(t, v, c) => c = x) /\ t # Advice!BulkAdd
    BY <2>2, RemoveDoes
  <2>7. c \notin discoverable' \/ Advice!Apart(v, c)' =>
           \/ WillFit(v, c) /\ (c \notin discoverable \/ Advice!Apart(v, c))
               /\ (Advice!Apart(v, c)' => Advice!Apart(v, c))
           \/ ~Advice!Apart(v, c)' /\ \E t : Has(tasks, t) /\ t.do = "remove_user" /\ t.of = c
    BY <1>1, <2>2, <2>5, DutyFields
  <2>8. Wished(v, c)' /\ (c \in su_active' \/ c \in Advice!Remotes) =>
           /\ \A t : Has(tasks, t) => ~Removes(t, v, c) /\ t # Advice!BulkAdd
           /\ WillFit(v, c) /\ Wished(v, c) /\ (c \in su_active' => c \in su_active)
    <3>1. c \in su_active' \/ c \in Advice!Remotes => c # x
      BY <2>3 DEF Advice!Remotes
    <3> QED
      BY <1>1, <2>3, <2>5, <2>6, <3>1
  <2> QED
    BY <1>1, <2>2, <2>4, <2>7, <2>8, StaysFit
<1>3. CASE Advice!Reactivate(x)
  <2>1. PICK tasks \in Seq(Duties) :
          tasks = <<>> /\ Advice!Event(tasks, (Here \X {x}) \cup ({x} \X Users))
    <3>1. <<>> \in Seq(Duties)
      OBVIOUS
    <3> QED
      BY <1>3, <3>1 DEF Advice!Reactivate
  <2>2. su_queue' = su_queue \o tasks /\ UNCHANGED <<suggested, su_work>> /\ \A t : ~Has(tasks, t)
    BY <2>1, HasWhat DEF Advice!Event
  <2>3. su_active' = su_active \cup {x}
    BY <1>3 DEF Advice!Reactivate
  <2>4. v # x /\ c # x
    BY <1>1, <2>1 DEF Advice!Event
  <2>5. WillFit(v, c)
    BY <1>1, <2>1, <2>2, <2>3, <2>4, HeardOf
  <2> QED
    BY <1>1, <2>1, <2>2, <2>3, <2>4, <2>5, StaysFit
<1>4. CASE Advice!Repopulate(x)
  <2>1. PICK tasks : tasks = <<Advice!Populate(x)>>
    OBVIOUS
  <2>2. x \in Here /\ Advice!Event(tasks, {}) /\ su_active' = su_active
    BY <1>4, <2>1 DEF Advice!Repopulate, Advice!rows
  <2>3. tasks \in Seq(Duties) /\ (\A t : Has(tasks, t) <=> t = Advice!Populate(x))
    BY <2>1, <2>2, HasWhat, DutiesAre
  <2>4. su_queue' = su_queue \o tasks /\ UNCHANGED <<suggested, su_work>>
    BY <2>2 DEF Advice!Event
  <2>5. WillFit(v, c)
    <3>1. WillFit(v, c) \/ Has(tasks, Advice!Rerank(c)) \/ Has(tasks, Advice!RemoveUser(c))
      BY <1>1, <2>2, <2>3, HeardOf
    <3> QED
      BY <2>3, <3>1, OthersDo
  <2>6. \A t : Has(tasks, t) => ~Removes(t, v, c) /\ t # Advice!BulkAdd
    BY <2>3, OthersDo
  <2> QED
    BY <1>1, <2>2, <2>3, <2>4, <2>5, <2>6, StaysFit
<1> QED
  BY <1>2, <1>3, <1>4

\* The other server is blocked, or let in again.
LEMMA ServersFit ==
  ASSUME StoreTyped, StoreInv, su_inOrder, NEW v, NEW c, Heard(v, c)',
         Advice!Close \/ Advice!Closed \/ Advice!Lift \/ Advice!Lifted
  PROVE  WillFit(v, c)'
<1>1. /\ UNCHANGED <<discoverable, su_follows, asked, su_blocks, suggested, su_work>>
      /\ v \in Here \cap su_active' /\ c \in Users \ {v} /\ <<v, c>> \notin su_unheard'
      /\ Advice!Apart(v, c)' <=> Advice!Apart(v, c)
      /\ Wished(v, c)' <=> Wished(v, c)
      /\ Advice!Remotes' = Advice!Remotes
  BY DEF Advice!Close, Advice!Closed, Advice!Lift, Advice!Lifted, Advice!Event, Heard,
     Advice!Apart, Advice!Unrelated, Wished, Advice!Remotes
<1>2. CASE Advice!Close
  <2>1. PICK tasks : tasks = <<Advice!BulkRemove>>
    OBVIOUS
  <2>2. /\ tasks \in Seq(Duties) /\ (\A t : Has(tasks, t) <=> t = Advice!BulkRemove)
        /\ Advice!Event(tasks, {}) /\ server' = "closing" /\ server = "open"
            /\ su_active' = su_active
    BY <1>2, <2>1, HasWhat, DutiesAre DEF Advice!Close
  <2>3. su_queue' = su_queue \o tasks
    BY <2>2 DEF Advice!Event
  <2>4. WillFit(v, c)
    <3>1. WillFit(v, c) \/ Has(tasks, Advice!Rerank(c)) \/ Has(tasks, Advice!RemoveUser(c))
      BY <1>1, <2>2, HeardOf
    <3> QED
      BY <2>2, <3>1, OthersDo
  <2>5. (c \notin discoverable' \/ Advice!Apart(v, c)') /\ Kept(v, c)' => Leaving(v, c)'
    BY <1>1, <2>2, <2>3, <2>4, StoreQueued DEF WillFit
  <2>6. Wished(v, c)' /\ c \in su_active' /\ c \notin Advice!Remotes => Due(v, c)'
    <3>1. c \notin Advice!Remotes => \A t : Has(tasks, t) => ~Removes(t, v, c)
      BY <2>2, OthersDo
    <3> QED
      BY <1>1, <2>2, <2>3, <2>4, <3>1, StoreQueued DEF WillFit
  <2> QED
    BY <1>1, <2>2, <2>5, <2>6 DEF WillFit
<1>3. CASE Advice!Lift
  <2>1. PICK tasks : tasks = <<Advice!BulkAdd>>
    OBVIOUS
  <2>2. /\ tasks \in Seq(Duties) /\ (\A t : Has(tasks, t) <=> t = Advice!BulkAdd)
        /\ Advice!Event(tasks, {}) /\ server' = "lifting" /\ server = "blocked"
            /\ su_active' = su_active
    BY <1>3, <2>1, HasWhat, DutiesAre DEF Advice!Lift
  <2>3. su_queue' = su_queue \o tasks
    BY <2>2 DEF Advice!Event
  <2>4. WillFit(v, c)
    <3>1. WillFit(v, c) \/ Has(tasks, Advice!Rerank(c)) \/ Has(tasks, Advice!RemoveUser(c))
      BY <1>1, <2>2, HeardOf
    <3> QED
      BY <2>2, <3>1, OthersDo
  <2>5. (c \notin discoverable' \/ Advice!Apart(v, c)') /\ Kept(v, c)' => Leaving(v, c)'
    BY <1>1, <2>2, <2>3, <2>4, StoreQueued DEF WillFit
  <2>6. /\ \A t : Has(tasks, t) => ~Removes(t, v, c)
        /\ c \in Advice!Remotes => \E t : Has(tasks, t) /\ Adds(t, v, c)
    BY <2>2, OthersDo
  <2>7. Wished(v, c)' /\ c \in su_active' => Due(v, c)'
    <3>1. c \in su_active' => c \notin Advice!Remotes
      BY <2>2 DEF StoreInv
    <3> QED
      BY <1>1, <2>2, <2>3, <2>4, <2>6, <3>1, StoreQueued DEF WillFit
  <2>8. c \in Advice!Remotes => Mended(v, c)'
    BY <1>1, <2>2, <2>3, <2>6, StoreQueued
  <2> QED
    BY <1>1, <2>5, <2>7, <2>8 DEF WillFit
<1>4. CASE Advice!Closed
  <2>1. /\ server' = "blocked" /\ su_active' = su_active \ Advice!Remotes
            /\ UNCHANGED <<su_queue, su_unheard>>
        /\ server = "closing"
    BY <1>4 DEF Advice!Closed
  <2>2. WillFit(v, c)
    <3>1. Heard(v, c)
      BY <1>1, <2>1 DEF Heard
    <3>2. v \in Users /\ c \in Users
      BY <3>1, PagesAssumption DEF Heard
    <3> QED
      BY <3>1, <3>2 DEF StoreInv
  <2>3. /\ Kept(v, c)' <=> Kept(v, c)
        /\ Leaving(v, c)' <=> Leaving(v, c)
        /\ Due(v, c)' <=> Due(v, c)
    BY <1>1, <2>1 DEF Kept, Leaving, Due, Mended, Parting, Removes, Adds
  <2> QED
    BY <1>1, <2>1, <2>2, <2>3 DEF WillFit
<1>5. CASE Advice!Lifted
  <2>1. /\ server' = "open" /\ su_active' = su_active \cup Advice!Remotes /\ UNCHANGED su_queue
        /\ su_unheard' = IF Advice!Contains(su_queue, Advice!BulkAdd) THEN su_unheard
                          ELSE su_unheard \cup (Here \X Advice!Remotes)
        /\ server = "lifting"
    BY <1>5 DEF Advice!Lifted
  <2>2. WillFit(v, c)
    <3>1. Heard(v, c)
      <4>1. v \in Here \cap su_active
        BY <1>1, <2>1 DEF Advice!Remotes
      <4> QED
        BY <1>1, <2>1, <4>1 DEF Heard
    <3>2. v \in Users /\ c \in Users
      BY <3>1, PagesAssumption DEF Heard
    <3> QED
      BY <3>1, <3>2 DEF StoreInv
  <2>3. /\ Kept(v, c)' <=> Kept(v, c)
        /\ Leaving(v, c)' <=> Leaving(v, c)
        /\ Due(v, c)' <=> Due(v, c)
    BY <1>1, <2>1 DEF Kept, Leaving, Due, Mended, Parting, Removes, Adds
  <2>4. ASSUME Wished(v, c), c \in Advice!Remotes PROVE Due(v, c)
    <3>1. Lifting
      BY <1>1, <2>1, <2>4 DEF Advice!Contains, Lifting
    <3>2. Mended(v, c)
      BY <2>1, <2>2, <2>4, <3>1 DEF WillFit
    <3>3. \E i \in 1 .. Len(su_queue) : Adds(su_queue[i], v, c)
      BY <2>4, <3>1, OthersDo DEF Lifting
    <3> QED
      BY <3>2, <3>3 DEF Due
  <2> QED
    BY <1>1, <2>1, <2>2, <2>3, <2>4 DEF WillFit
<1> QED
  BY <1>2, <1>3, <1>4, <1>5

\* What no task has put right is remembered until those who are wanting are told.
LEMMA EventRemembers ==
  ASSUME NEW tasks, NEW without, Advice!Event(tasks, without), NEW v \in Here, NEW c \in Users
  PROVE  /\ <<v, c>> \in without => <<v, c>> \in su_unheard'
         /\ <<v, c>> \in su_unheard /\ <<c, v>> \in su_follows => <<v, c>> \in su_unheard'
<1> DEFINE told == {p \in Here \X Users :
                     /\ p[1] \in Advice!Wanting(p[2])
                     /\ Advice!Contains(tasks, Advice!Rerank(p[2]))
                         \/ Advice!Contains(tasks, Advice!RemoveUser(p[2]))}
<1>1. su_unheard' = (su_unheard \ told) \cup (without \cap (Here \X Users))
  BY DEF Advice!Event
<1>2. <<v, c>> \in Here \X Users /\ <<v, c>>[1] = v /\ <<v, c>>[2] = c
  OBVIOUS
<1>3. <<v, c>> \in told => <<c, v>> \notin su_follows
  BY <1>2 DEF Advice!Wanting
<1> QED
  BY <1>1, <1>2, <1>3

\* The follows that events make are remembered, and end without being told of.
LEMMA FollowersUnheard ==
  ASSUME StoreInv, Advice!Happen, NEW v \in Here, NEW c \in Users
  PROVE  <<v, c>> \in su_unheard' \/ <<c, v>> \notin su_follows'
<1>1. ASSUME NEW tasks, NEW without, Advice!Event(tasks, without), su_follows' \subseteq su_follows
      PROVE  <<v, c>> \in su_unheard' \/ <<c, v>> \notin su_follows'
  BY <1>1, EventRemembers DEF StoreInv
<1>2. ASSUME NEW x \in Users,
             Advice!Show(x) \/ Advice!Hide(x) \/ Advice!Deactivate(x) \/ Advice!Reactivate(x)
              \/ Advice!Repopulate(x)
      PROVE  <<v, c>> \in su_unheard' \/ <<c, v>> \notin su_follows'
  <2>1. su_follows' \subseteq su_follows /\ \E tasks, without : Advice!Event(tasks, without)
    BY <1>2 DEF Advice!Show, Advice!Hide, Advice!Deactivate, Advice!Reactivate,
       Advice!Repopulate, Advice!rows
  <2> QED
    BY <1>1, <2>1
<1>3. ASSUME NEW x \in Users, NEW y \in Users,
             Advice!Ask(x, y) \/ Advice!Withdraw(x, y) \/ Advice!Unfollow(x, y)
              \/ Advice!Block(x, y) \/ Advice!Unblock(x, y)
      PROVE  <<v, c>> \in su_unheard' \/ <<c, v>> \notin su_follows'
  <2>1. su_follows' \subseteq su_follows /\ \E tasks, without : Advice!Event(tasks, without)
    BY <1>3 DEF Advice!Ask, Advice!Withdraw, Advice!Unfollow, Advice!Block, Advice!Unblock
  <2> QED
    BY <1>1, <2>1
<1>4. ASSUME NEW x \in Users, NEW y \in Users, Advice!Follow(x, y)
      PROVE  <<v, c>> \in su_unheard' \/ <<c, v>> \notin su_follows'
  <2>1. su_follows' = su_follows \cup {<<x, y>>} /\ \E tasks : Advice!Event(tasks, {<<y, x>>})
    BY <1>4 DEF Advice!Follow
  <2>2. CASE c = x /\ v = y
    <3>1. <<v, c>> \in {<<y, x>>}
      BY <2>2
    <3> QED
      BY <2>1, <3>1, EventRemembers
  <2>3. CASE ~(c = x /\ v = y)
    <3>1. <<c, v>> \in su_follows' => <<c, v>> \in su_follows
      BY <2>1, <2>3
    <3> QED
      BY <2>1, <3>1, EventRemembers DEF StoreInv
  <2> QED
    BY <2>2, <2>3
<1>5. CASE Advice!Close \/ Advice!Lift
  <2>1. su_follows' \subseteq su_follows /\ \E tasks, without : Advice!Event(tasks, without)
    BY <1>5 DEF Advice!Close, Advice!Lift
  <2> QED
    BY <1>1, <2>1
<1>6. CASE Advice!Closed \/ Advice!Lifted
  BY <1>6 DEF Advice!Closed, Advice!Lifted, StoreInv
<1> QED
  BY <1>2, <1>3, <1>4, <1>5, <1>6 DEF Advice!Happen

\* Nobody blocks themselves.
LEMMA BlocksOthers ==
  ASSUME StoreInv, Advice!Happen, NEW u \in Users
  PROVE  ~Advice!Apart(u, u)'
<1>1. <<u, u>> \notin su_blocks
  BY DEF StoreInv, Advice!Apart, Advice!Both
<1>2. <<u, u>> \notin su_blocks'
  <2>1. ASSUME NEW x \in Users,
               Advice!Show(x) \/ Advice!Hide(x) \/ Advice!Deactivate(x)
                \/ Advice!Reactivate(x) \/ Advice!Repopulate(x)
        PROVE  su_blocks' = su_blocks
    BY <2>1 DEF Advice!Show, Advice!Hide, Advice!Deactivate, Advice!Reactivate,
       Advice!Repopulate, Advice!rows
  <2>2. ASSUME NEW x \in Users, NEW y \in Users,
               Advice!Ask(x, y) \/ Advice!Withdraw(x, y) \/ Advice!Follow(x, y)
                \/ Advice!Unfollow(x, y)
        PROVE  su_blocks' = su_blocks
    BY <2>2 DEF Advice!Ask, Advice!Withdraw, Advice!Follow, Advice!Unfollow
  <2>3. ASSUME NEW x \in Users, NEW y \in Users, Advice!Block(x, y) \/ Advice!Unblock(x, y)
        PROVE  <<u, u>> \notin su_blocks'
    BY <1>1, <2>3 DEF Advice!Block, Advice!Unblock
  <2>4. CASE Advice!Close \/ Advice!Closed \/ Advice!Lift \/ Advice!Lifted
    BY <1>1, <2>4 DEF Advice!Close, Advice!Closed, Advice!Lift, Advice!Lifted
  <2> QED
    BY <1>1, <2>1, <2>2, <2>3, <2>4 DEF Advice!Happen
<1> QED
  BY <1>2 DEF Advice!Apart, Advice!Both

\* The accounts of a server that is blocked are not active.
LEMMA BlockedInactive ==
  ASSUME StoreInv, Advice!Happen
  PROVE  server' \in {"blocked", "lifting"} => su_active' \cap Advice!Remotes = {}
<1>1. server \in {"blocked", "lifting"} => su_active \cap Advice!Remotes = {}
  BY DEF StoreInv
<1>2. ASSUME NEW x \in Users,
             Advice!Show(x) \/ Advice!Hide(x) \/ Advice!Deactivate(x) \/ Advice!Reactivate(x)
              \/ Advice!Repopulate(x)
      PROVE  server' = server
       /\ (su_active \cap Advice!Remotes = {} => su_active' \cap Advice!Remotes = {})
  BY <1>2 DEF Advice!Show, Advice!Hide, Advice!Deactivate, Advice!Reactivate, Advice!Repopulate,
     Advice!rows, Advice!Remotes
<1>3. ASSUME NEW x \in Users, NEW y \in Users,
             \/ Advice!Ask(x, y) \/ Advice!Withdraw(x, y) \/ Advice!Follow(x, y)
                 \/ Advice!Unfollow(x, y)
             \/ Advice!Block(x, y) \/ Advice!Unblock(x, y)
      PROVE  server' = server /\ su_active' = su_active
  BY <1>3 DEF Advice!Ask, Advice!Withdraw, Advice!Follow, Advice!Unfollow, Advice!Block,
     Advice!Unblock
<1>4. CASE Advice!Close \/ Advice!Closed \/ Advice!Lift \/ Advice!Lifted
  BY <1>1, <1>4 DEF Advice!Close, Advice!Closed, Advice!Lift, Advice!Lifted
<1> QED
  BY <1>1, <1>2, <1>3, <1>4 DEF Advice!Happen

LEMMA HappenStoreInv ==
  ASSUME StoreTyped, StoreInv, Advice!Happen, UNCHANGED su_inOrder
  PROVE  StoreInv'
<1>1. Advice!Remotes' = Advice!Remotes /\ (OneWriting => OneWriting')
  <2>1. su_work' = su_work
    BY DutiesQueue
  <2> QED
    BY <2>1 DEF Advice!Remotes, OneWriting, Advice!Idle
<1>2. ASSUME su_inOrder, NEW v \in Users, NEW c \in Users, Heard(v, c)' PROVE WillFit(v, c)'
  <2>1. ASSUME NEW x \in Users,
               Advice!Show(x) \/ Advice!Hide(x) \/ Advice!Deactivate(x)
                \/ Advice!Reactivate(x) \/ Advice!Repopulate(x)
        PROVE  WillFit(v, c)'
    BY <1>2, <2>1, ShowingFits, ReturningFits
  <2>2. ASSUME NEW x \in Users, NEW y \in Users,
               Advice!Ask(x, y) \/ Advice!Withdraw(x, y) \/ Advice!Follow(x, y)
                \/ Advice!Unfollow(x, y)
        PROVE  WillFit(v, c)'
    BY <1>2, <2>2, AskingFits, FollowingFits, UnfollowingFits
  <2>3. ASSUME NEW x \in Users, NEW y \in Users, Advice!Block(x, y) \/ Advice!Unblock(x, y)
        PROVE  WillFit(v, c)'
    BY <1>2, <2>3, BlockingFits, UnblockingFits
  <2>4. CASE Advice!Close \/ Advice!Closed \/ Advice!Lift \/ Advice!Lifted
    BY <1>2, <2>4, ServersFit
  <2> QED
    BY <2>1, <2>2, <2>3, <2>4 DEF Advice!Happen
<1>3. su_inOrder' => OneWriting' /\ \A v, c \in Users : Heard(v, c)' => WillFit(v, c)'
  BY <1>1, <1>2 DEF StoreInv
<1>4. \A v \in Here, c \in Users : <<v, c>> \in su_unheard' \/ <<c, v>> \notin su_follows'
  BY FollowersUnheard
<1>5. \A u \in Users : ~Advice!Apart(u, u)'
  BY BlocksOthers
<1>6. server' \in {"blocked", "lifting"} => su_active' \cap Advice!Remotes' = {}
  BY <1>1, BlockedInactive
<1> QED
  BY <1>3, <1>4, <1>5, <1>6 DEF StoreInv

-----------------------------------------------------------------------------
(* Clerks                                                                   *)

\* What is left of the queue when the first of its tasks starts.
LEMMA FirstOut ==
  ASSUME NEW S, NEW q \in Seq(S), 1 \in 1 .. Len(q)
  PROVE  /\ Advice!RemoveAt(q, 1) \in Seq(S) /\ Len(Advice!RemoveAt(q, 1)) = Len(q) - 1
         /\ \A i \in 1 .. Len(q) - 1 : Advice!RemoveAt(q, 1)[i] = q[i + 1]
<1>1. SubSeq(q, 1, 0) = <<>> /\ SubSeq(q, 2, Len(q)) \in Seq(S)
  OBVIOUS
<1>2. Advice!RemoveAt(q, 1) = SubSeq(q, 2, Len(q))
  BY <1>1 DEF Advice!RemoveAt
<1>3. Len(SubSeq(q, 2, Len(q))) = Len(q) - 1
      /\ \A i \in 1 .. Len(q) - 1 : SubSeq(q, 2, Len(q))[i] = q[i + 1]
  <2>1. PICK n \in Nat : n = Len(q) /\ n >= 1
    OBVIOUS
  <2>2. Len(SubSeq(q, 2, n)) = n - 1
    BY <2>1
  <2>3. \A i \in 1 .. n - 1 : SubSeq(q, 2, n)[i] = q[i + 1]
    BY <2>1, <2>2
  <2> QED
    BY <2>1, <2>2, <2>3
<1> QED
  BY <1>1, <1>2, <1>3

LEMMA StartFits ==
  ASSUME StoreTyped, StoreInv, su_inOrder, NEW w \in Clerks, Advice!Start(w), NEW v, NEW c,
         Heard(v, c)
  PROVE  WillFit(v, c)'
<1>1. /\ UNCHANGED <<discoverable, su_active, su_follows, asked, su_blocks, server, suggested>>
      /\ \A x \in Clerks : su_work[x] = Advice!Nothing
      /\ 1 \in 1 .. Len(su_queue) /\ su_queue' = Advice!RemoveAt(su_queue, 1)
      /\ su_work' = [su_work EXCEPT ![w] = Advice!Reads(su_queue[1])]
  BY DEF Advice!Start, Advice!rows, Advice!Idle
<1>2. PICK n \in Nat : n = Len(su_queue)
  BY DEF StoreTyped
<1>3. /\ Len(su_queue') = n - 1 /\ n >= 1
      /\ \A i \in 1 .. n - 1 : i + 1 \in 1 .. n /\ i + 1 > 1 /\ su_queue'[i] = su_queue[i + 1]
      /\ \A i \in 1 .. n : i = 1 \/ (i - 1 \in 1 .. n - 1 /\ su_queue'[i - 1] = su_queue[i])
  <2>1. Len(su_queue') = n - 1 /\ n >= 1 /\ \A i \in 1 .. n - 1 : su_queue'[i] = su_queue[i + 1]
    BY <1>1, <1>2, FirstOut DEF StoreTyped
  <2> QED
    BY <1>2, <2>1
<1>4. /\ v \in Here /\ c \in Users /\ WillFit(v, c)
          /\ (~Advice!Apart(v, c) => v \in Advice!Wanting(c))
      /\ su_queue[1] \in Duties /\ v # c
  <2>1. v \in Here \cap su_active /\ c \in Users \ {v} /\ v \in Users /\ <<v, c>> \notin su_unheard
    BY PagesAssumption DEF Heard
  <2>2. <<c, v>> \notin su_follows
    BY <2>1 DEF StoreInv
  <2> QED
    BY <1>1, <2>1, <2>2 DEF StoreInv, Advice!Wanting, StoreTyped
<1>5. /\ <<v, c>> \in Advice!Reads(su_queue[1]).add => Advice!Fit(v, c)
      /\ Adds(su_queue[1], v, c) /\ v \in Advice!Wanting(c) /\ Advice!Fit(v, c) =>
           <<v, c>> \in Advice!Reads(su_queue[1]).add
      /\ <<v, c>> \in Advice!Reads(su_queue[1]).drop => Removes(su_queue[1], v, c)
      /\ Parting(su_queue[1], v, c) => <<v, c>> \in Advice!Reads(su_queue[1]).drop
      /\ su_queue[1].do = "remove_user" /\ su_queue[1].of = c /\ v \in Advice!Wanting(c) =>
           <<v, c>> \in Advice!Reads(su_queue[1]).drop
  BY <1>4, DutiesRead
<1>6. Kept(v, c) <=> c \in suggested[v]
  BY <1>1 DEF Kept, Advice!Nothing
<1>7. Kept(v, c)' <=> \/ <<v, c>> \in Advice!Reads(su_queue[1]).add
                      \/ c \in suggested[v] /\ <<v, c>> \notin Advice!Reads(su_queue[1]).drop
  <2>1. su_work'[w] = Advice!Reads(su_queue[1]) /\ \A x \in Clerks : x # w =>
          su_work'[x] = Advice!Nothing
    BY <1>1 DEF StoreTyped
  <2> QED
    BY <1>1, <2>1 DEF Kept, Advice!Nothing
<1>8. /\ Advice!Remotes' = Advice!Remotes /\ (Advice!Apart(v, c)' <=> Advice!Apart(v, c))
      /\ (Wished(v, c)' <=> Wished(v, c)) /\ (Lifting' => Lifting)
  <2>1. Lifting' => Lifting
    BY <1>2, <1>3 DEF Lifting, Advice!BulkAdd, Advice!Task, Advice!Remotes
  <2> QED
    BY <1>1, <2>1 DEF Advice!Remotes, Advice!Apart, Wished, Advice!Unrelated
<1>9. ASSUME c \notin discoverable \/ Advice!Apart(v, c), Kept(v, c)' PROVE Leaving(v, c)'
  <2>1. c \in suggested[v] /\ <<v, c>> \notin Advice!Reads(su_queue[1]).drop
    BY <1>5, <1>7, <1>9 DEF Advice!Fit
  <2>2. PICK i \in 1 .. n : \/ Parting(su_queue[i], v, c)
                            \/ su_queue[i].do = "remove_user" /\ su_queue[i].of = c
                                /\ ~Advice!Apart(v, c)
    BY <1>2, <1>4, <1>6, <1>9, <2>1 DEF WillFit, Leaving
  <2>3. i # 1
    BY <1>4, <1>5, <2>1, <2>2
  <2>4. PICK k \in 1 .. n - 1 : su_queue'[k] = su_queue[i]
    BY <1>3, <2>3
  <2>5. k \in 1 .. Len(su_queue') /\ (\/ Parting(su_queue'[k], v, c)
                                      \/ su_queue'[k].do = "remove_user"
                                          /\ su_queue'[k].of = c /\ ~Advice!Apart(v, c)')
    BY <1>3, <1>8, <2>2, <2>4
  <2> QED
    BY <2>5 DEF Leaving, Parting
<1>10. Mended(v, c) => Mended(v, c)'
  <2>1. SUFFICES ASSUME Mended(v, c), NEW i \in 1 .. n - 1, Removes(su_queue'[i], v, c)
                 PROVE  \E j \in 1 .. n - 1 : j > i /\ Adds(su_queue'[j], v, c)
    BY <1>3 DEF Mended, Removes, Parting, Adds
  <2>2. PICK j \in 1 .. n : j > i + 1 /\ Adds(su_queue[j], v, c)
    BY <1>2, <1>3, <2>1 DEF Mended
  <2>3. j - 1 \in 1 .. n - 1 /\ j - 1 > i /\ su_queue'[j - 1] = su_queue[j]
    BY <1>3, <2>2
  <2> QED
    BY <2>2, <2>3
<1>11. ASSUME Wished(v, c), c \in su_active, Due(v, c) PROVE Due(v, c)'
  <2>1. v \in Advice!Wanting(c) /\ Advice!Fit(v, c)
    BY <1>4, <1>11 DEF Wished, Advice!Fit
  <2>2. ASSUME NEW i \in 1 .. n, i # 1, Adds(su_queue[i], v, c)
        PROVE  \E j \in 1 .. Len(su_queue') : Adds(su_queue'[j], v, c)
    BY <1>3, <2>2
  <2>3. CASE Adds(su_queue[1], v, c)
    BY <1>5, <1>7, <1>10, <1>11, <2>1, <2>3 DEF Due
  <2>4. CASE <<v, c>> \in Advice!Reads(su_queue[1]).drop
    <3>1. PICK j \in 1 .. n : j > 1 /\ Adds(su_queue[j], v, c)
      BY <1>1, <1>2, <1>5, <1>11, <2>4 DEF Due, Mended
    <3>2. \E k \in 1 .. Len(su_queue') : Adds(su_queue'[k], v, c)
      BY <2>2, <3>1
    <3> QED
      BY <1>10, <1>11, <3>2 DEF Due, Adds
  <2>5. CASE ~Adds(su_queue[1], v, c) /\ <<v, c>> \notin Advice!Reads(su_queue[1]).drop
    <3>1. Kept(v, c)' \/ \E i \in 1 .. n : i # 1 /\ Adds(su_queue[i], v, c)
      BY <1>2, <1>6, <1>7, <1>11, <2>5 DEF Due
    <3>2. Kept(v, c)' \/ \E k \in 1 .. Len(su_queue') : Adds(su_queue'[k], v, c)
      BY <2>2, <3>1
    <3> QED
      BY <1>10, <1>11, <3>2 DEF Due, Adds
  <2> QED
    BY <2>3, <2>4, <2>5
<1> QED
  BY <1>1, <1>4, <1>8, <1>9, <1>10, <1>11 DEF WillFit

LEMMA WorkStoreInv ==
  ASSUME StoreTyped, StoreInv, NEW w \in Clerks, Advice!Start(w) \/ Advice!Finish(w),
         UNCHANGED su_inOrder
  PROVE  StoreInv'
<1>1. /\ UNCHANGED <<Advice!rows, su_unheard>>
      /\ Advice!Remotes' = Advice!Remotes
      /\ \A v, c : (Advice!Apart(v, c)' <=> Advice!Apart(v, c)) /\ (Heard(v, c)' <=> Heard(v, c))
  BY DEF Advice!Start, Advice!Finish, Advice!rows, Advice!Remotes, Advice!Apart, Heard
<1>2. CASE Advice!Start(w)
  <2>1. su_inOrder => OneWriting'
    <3>1. su_inOrder => \A x \in Clerks : x # w => su_work'[x] = Advice!Nothing
      BY <1>2 DEF Advice!Start, Advice!Idle, StoreTyped
    <3> QED
      BY <3>1 DEF OneWriting, Advice!Idle, Advice!Nothing
  <2>2. su_inOrder => \A v, c \in Users : Heard(v, c)' => WillFit(v, c)'
    BY <1>1, <1>2, StartFits
  <2> QED
    BY <1>1, <2>1, <2>2 DEF StoreInv, Advice!rows
<1>3. CASE Advice!Finish(w)
  <2>1. /\ su_work' = [su_work EXCEPT ![w] = Advice!Nothing] /\ ~Advice!Idle(w)
            /\ su_queue' = su_queue
        /\ suggested' = [v \in Here |-> {c \in Users : \/ <<v, c>> \in su_work[w].add
                                                       \/ c \in suggested[v]
                                                           /\ <<v, c>> \notin su_work[w].drop}]
    BY <1>3 DEF Advice!Finish
  <2>2. su_work'[w] = Advice!Nothing /\ \A x \in Clerks : x # w => su_work'[x] = su_work[x]
    BY <2>1 DEF StoreTyped
  <2>3. OneWriting => OneWriting'
    BY <2>2 DEF OneWriting, Advice!Idle, Advice!Nothing
  <2>4. ASSUME su_inOrder, NEW v \in Users, NEW c \in Users, Heard(v, c)
        PROVE  WillFit(v, c)'
    <3>1. \A x \in Clerks : x # w => su_work[x] = Advice!Nothing
      BY <2>1, <2>4 DEF StoreInv, OneWriting, Advice!Idle
    <3>2. \A x \in Clerks : su_work'[x] = Advice!Nothing
      BY <2>2, <3>1
    <3>3. c \in suggested'[v] <=> \/ <<v, c>> \in su_work[w].add
                                  \/ c \in suggested[v] /\ <<v, c>> \notin su_work[w].drop
      BY <2>1, <2>4 DEF Heard
    <3>4. Kept(v, c) <=> \/ <<v, c>> \in su_work[w].add
                         \/ c \in suggested[v] /\ <<v, c>> \notin su_work[w].drop
      BY <3>1 DEF Kept, Advice!Nothing
    <3>5. Kept(v, c)' <=> c \in suggested'[v]
      BY <3>2 DEF Kept, Advice!Nothing
    <3>6. (Leaving(v, c)' <=> Leaving(v, c)) /\ (Mended(v, c)' <=> Mended(v, c))
           /\ (Lifting' <=> Lifting)
      BY <1>1, <2>1 DEF Leaving, Mended, Lifting, Parting, Removes, Adds, Advice!Apart,
         Advice!BulkAdd, Advice!Task, Advice!Remotes, Advice!rows
    <3>7. Due(v, c)' <=> Due(v, c)
      BY <2>1, <3>3, <3>4, <3>5, <3>6 DEF Due, Adds
    <3>8. Wished(v, c)' <=> Wished(v, c)
      BY <1>1 DEF Wished, Advice!Unrelated, Advice!rows
    <3>9. WillFit(v, c)
      BY <2>4 DEF StoreInv
    <3> QED
      BY <1>1, <3>3, <3>4, <3>5, <3>6, <3>7, <3>8, <3>9 DEF WillFit, Advice!rows
  <2> QED
    BY <1>1, <2>3, <2>4 DEF StoreInv, Advice!rows
<1> QED
  BY <1>2, <1>3

LEMMA NextStoreInv == StoreTyped /\ StoreInv /\ [Advice!Next]_(Advice!vars) => StoreInv'
<1> SUFFICES ASSUME StoreTyped, StoreInv, [Advice!Next]_(Advice!vars) PROVE StoreInv'
  OBVIOUS
<1>1. CASE Advice!Next
  BY <1>1, HappenStoreInv, WorkStoreInv DEF Advice!Next
<1>2. CASE UNCHANGED Advice!vars
  <2>1. UNCHANGED <<su_inOrder, Advice!rows, suggested, su_queue, su_work, su_unheard>>
    BY <1>2 DEF Advice!vars
  <2>2. /\ Advice!Remotes' = Advice!Remotes /\ (OneWriting' <=> OneWriting)
        /\ \A v, c : (Advice!Apart(v, c)' <=> Advice!Apart(v, c)) /\ (Heard(v, c)' <=> Heard(v, c))
    BY <2>1 DEF Advice!rows, Advice!Remotes, OneWriting, Advice!Idle, Advice!Apart, Advice!Both,
       Heard
  <2>3. ASSUME NEW v, NEW c PROVE WillFit(v, c)' <=> WillFit(v, c)
    <3>1. (Kept(v, c)' <=> Kept(v, c)) /\ (Leaving(v, c)' <=> Leaving(v, c))
           /\ (Lifting' <=> Lifting)
      BY <2>1, <2>2 DEF Kept, Leaving, Lifting, Parting, Advice!BulkAdd, Advice!Task, Advice!Remotes
    <3>2. Mended(v, c)' <=> Mended(v, c)
      BY <2>1 DEF Mended, Removes, Parting, Adds
    <3>3. Due(v, c)' <=> Due(v, c)
      BY <2>1, <3>1, <3>2 DEF Due, Adds
    <3>4. Wished(v, c)' <=> Wished(v, c)
      BY <2>1, <2>2 DEF Wished, Advice!Unrelated, Advice!rows
    <3> QED
      BY <2>1, <2>2, <3>1, <3>2, <3>3, <3>4 DEF WillFit, Advice!rows
  <2> QED
    BY <2>1, <2>2, <2>3 DEF StoreInv, Advice!rows
<1> QED
  BY <1>1, <1>2

LEMMA InitStoreInv == Advice!Init => StoreInv
<1> SUFFICES ASSUME Advice!Init PROVE StoreInv
  OBVIOUS
<1>1. /\ discoverable = {} /\ su_blocks = {} /\ su_follows = {} /\ server = "open"
          /\ su_queue = <<>>
      /\ suggested = [v \in Here |-> {}] /\ su_work = [w \in Clerks |-> Advice!Nothing]
  BY DEF Advice!Init
<1>2. ASSUME NEW v \in Users, NEW c \in Users, Heard(v, c) PROVE WillFit(v, c)
  <2>1. ~Kept(v, c)
    BY <1>1, <1>2 DEF Kept, Heard, Advice!Nothing
  <2> QED
    BY <1>1, <2>1 DEF WillFit, Wished
<1> QED
  BY <1>1, <1>2 DEF StoreInv, Advice!Apart, OneWriting, Advice!Idle

-----------------------------------------------------------------------------
\* What the page shows when nothing is left to do.
LEMMA SettledIsExact ==
  StoreTyped /\ StoreInv => Advice!SuggestionsAreExact
<1> SUFFICES ASSUME StoreTyped, StoreInv, Advice!Settled, NEW v \in Here \cap su_active,
                    NEW c \in Users,
                    <<v, c>> \notin su_unheard
             PROVE  c \in Advice!Shown(v) <=> Advice!Fit(v, c) /\ Advice!Unrelated(v, c)
  BY DEF Advice!SuggestionsAreExact
<1>1. su_inOrder /\ su_queue = <<>> /\ (\A w \in Clerks : su_work[w] = Advice!Nothing) /\ server \in {"open", "blocked"}
  BY DEF Advice!Settled, Advice!Idle
<1>2. CASE c = v
  BY <1>2 DEF Advice!Shown, Advice!Fit
<1>3. CASE c # v
  <2>1. WillFit(v, c)
    BY <1>1, <1>3, PagesAssumption DEF StoreInv, Heard
  <2>2. Kept(v, c) <=> c \in suggested[v]
    BY <1>1 DEF Kept, Advice!Nothing
  <2>3. ~Leaving(v, c) /\ (Due(v, c) => Kept(v, c))
    BY <1>1 DEF Leaving, Due
  <2>4. c \in Advice!Shown(v) => Advice!Fit(v, c) /\ Advice!Unrelated(v, c)
    BY <1>3, <2>1, <2>2, <2>3 DEF WillFit, Advice!Shown, Advice!Fit
  <2>5. Advice!Fit(v, c) /\ Advice!Unrelated(v, c) => c \in Advice!Shown(v)
    BY <1>1, <1>3, <2>1, <2>2, <2>3 DEF WillFit, Wished, Advice!Shown, Advice!Fit
  <2> QED
    BY <2>4, <2>5
<1> QED
  BY <1>2, <1>3

-----------------------------------------------------------------------------
(* The two stores                                                            *)

\* A step of one store is a step of it, or none.
LEMMA StoresStep ==
  [MCNext]_mcVars => [Next]_vars /\ [Advice!Next]_(Advice!vars)
BY DEF MCNext, mcVars, suggestionVars, Advice!vars, Advice!rows

\* What holds of lists holds of them beside suggestions.
LEMMA ListsWithin == MCSpec => Spec
<1>1. MCInit => Init
  BY DEF MCInit
<1>2. [MCNext]_mcVars => [Next]_vars
  BY StoresStep
<1> QED
  BY <1>1, <1>2, PTL DEF MCSpec, Spec

\* For any users, servers and bounds, nobody is ever suggested who was never to
\* be; and when all tasks have run in order, users see exactly those who want to
\* be found and are strangers to them, but for changes that no task follows
\* (suggested_users.py:61).
THEOREM QuietSuggestionsAreExact == MCSpec => []SuggestionsAreExact
<1>1. MCInit => StoreTyped /\ FitKnown /\ StoreInv
  BY InitStore, InitStoreInv DEF MCInit
<1>2. (StoreTyped /\ FitKnown /\ StoreInv) /\ [MCNext]_mcVars =>
        (StoreTyped /\ FitKnown /\ StoreInv)'
  BY StoresStep, NextStoreTyped, NextFitKnown, NextStoreInv
<1>3. StoreTyped /\ FitKnown /\ StoreInv => SuggestionsAreExact
  BY SettledIsExact DEF SuggestionsAreExact, FitKnown
<1> QED
  BY <1>1, <1>2, <1>3, PTL DEF MCSpec
=============================================================================
