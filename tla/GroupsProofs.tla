---------------------------- MODULE GroupsProofs ----------------------------
(***************************************************************************)
(* What holds of Groups for any users, groups, owners and workers: every   *)
(* row points at rows that exist, and a group has its owner in it; and     *)
(* then of a film, its shelves and its reviews.                            *)
(***************************************************************************)
EXTENDS MCClub, FiniteSetTheorems, WellFoundedInduction, TLAPS

Steps == {"idle", "invite", "accept", "remove", "unlist", "expel", "list"}
Jobs  == [op : Steps, group : Groups \cup {NoGroup}, user : Users \cup {Nobody},
          by : Users \cup {Nobody}, member : BOOLEAN, invite : BOOLEAN]

\* What a request knows of its user and group; it never removes the user on
\* whose behalf it removes.
JobOK ==
  /\ job \in [Threads -> Jobs]
  /\ \A t \in Threads :
       /\ job[t].op # "idle" => job[t].user \in Users
       /\ job[t].op \in {"invite", "accept", "remove", "list"} => job[t].group \in Groups
       /\ job[t].op \in {"remove", "unlist", "expel"} => job[t].user # job[t].by

RowsOK ==
  /\ groups \subseteq Groups
  /\ members \subseteq groups \X Users
  /\ invited \subseteq groups \X Users
  /\ blocks \subseteq Users \X Users
  /\ list \in [Users -> groups \cup {NoGroup}]

StaleOK == stale \subseteq Busy

Inv == JobOK /\ RowsOK /\ StaleOK /\ OwnerIsMember

-----------------------------------------------------------------------------
\* The first look at the tables leaves a well-formed job behind.
LEMMA BeginKeeps ==
  ASSUME Inv, NEW t \in Threads, NEW op \in {"invite", "accept", "remove", "list"},
         NEW g \in Groups, NEW u \in Users, NEW by \in Users,
         op = "remove" => u # by, Begin(t, op, g, u, by)
  PROVE  Inv'
<1> USE OwnerAssumption
<1>1. JobOK'
  BY SMT DEF Inv, JobOK, Jobs, Steps, Begin
<1>2. RowsOK' /\ OwnerIsMember'
  BY DEF Inv, RowsOK, OwnerIsMember, Begin, tables
<1>3. StaleOK'
  <2>1. \A x \in Threads \ {t} : job'[x] = job[x]
    BY DEF Inv, JobOK, Begin
  <2>2. stale' = stale /\ t \notin stale
    BY DEF Inv, StaleOK, Busy, Begin
  <2> QED BY <2>1, <2>2 DEF Inv, StaleOK, Busy
<1> QED BY <1>1, <1>2, <1>3 DEF Inv

\* A request that ends is idle, and no longer stale.
LEMMA DoneKeeps ==
  ASSUME Inv, NEW t \in Threads, Done(t)
  PROVE  JobOK' /\ StaleOK'
<1>1. JobOK'
  BY OwnerAssumption, SMT DEF Inv, JobOK, Jobs, Steps, Done, Ends, Idle
<1>2. StaleOK'
  <2>1. \A x \in Threads \ {t} : job'[x] = job[x]
    BY DEF Inv, JobOK, Done, Ends
  <2>2. stale' \subseteq (stale \cup Busy) \ {t}
    BY DEF Done
  <2> QED BY <2>1, <2>2 DEF Inv, StaleOK, Busy
<1> QED BY <1>1, <1>2

\* A step of one action leaves the jobs alone and makes only the busy stale.
LEMMA OneStepKeeps ==
  ASSUME Inv, UNCHANGED job, stale' \in {stale, stale \cup Busy}
  PROVE  JobOK' /\ StaleOK'
BY DEF Inv, JobOK, StaleOK, Busy

\* A request that goes on with "expel" after "unlist", or with "unlist".
LEMMA GoesKeeps ==
  ASSUME Inv, NEW t \in Threads, job[t].op \in {"remove", "unlist"},
         NEW op \in {"unlist", "expel"}, Goes(t, op), Others(t)
  PROVE  JobOK' /\ StaleOK'
<1>1. job' = [job EXCEPT ![t] = [job[t] EXCEPT !.op = op]]
  BY DEF Goes
<1>2. JobOK'
  BY <1>1, OwnerAssumption, SMT DEF Inv, JobOK, Jobs, Steps
<1>3. StaleOK'
  <2>1. \A x \in Threads \ {t} : job'[x] = job[x]
    BY <1>1 DEF Inv, JobOK
  <2>2. job'[t] # Idle
    BY <1>1 DEF Inv, JobOK, Jobs, Idle
  <2>3. stale' \subseteq stale \cup Busy
    BY DEF Others
  <2> QED BY <2>1, <2>2, <2>3 DEF Inv, StaleOK, Busy
<1> QED BY <1>2, <1>3

-----------------------------------------------------------------------------
LEMMA InitInv == Init => Inv
<1> SUFFICES ASSUME Init PROVE Inv
  OBVIOUS
<1>1. JobOK
  BY DEF Init, JobOK, Jobs, Steps, Idle
<1>2. RowsOK /\ StaleOK /\ OwnerIsMember
  BY DEF Init, RowsOK, StaleOK, OwnerIsMember
<1> QED BY <1>1, <1>2 DEF Inv

LEMMA NextInv == Inv /\ [Next]_vars => Inv'
<1> SUFFICES ASSUME Inv, [Next]_vars PROVE Inv'
  OBVIOUS
<1> USE OwnerAssumption
<1>1. ASSUME NEW g \in Groups, Create(g) PROVE Inv'
  <2>1. RowsOK' /\ OwnerIsMember'
    BY <1>1 DEF Inv, RowsOK, OwnerIsMember, Create
  <2> QED BY <1>1, <2>1, OneStepKeeps DEF Create, Inv
<1>2. ASSUME NEW g \in Groups, DeleteGroup(g) PROVE Inv'
  <2>1. members' \subseteq groups' \X Users /\ invited' \subseteq groups' \X Users
    BY <1>2 DEF Inv, RowsOK, DeleteGroup
  <2>2. list' \in [Users -> groups' \cup {NoGroup}]
    BY <1>2 DEF Inv, RowsOK, DeleteGroup
  <2>3. RowsOK'
    BY <1>2, <2>1, <2>2 DEF Inv, RowsOK, DeleteGroup
  <2>4. OwnerIsMember'
    BY <1>2 DEF Inv, OwnerIsMember, DeleteGroup
  <2> QED BY <1>2, <2>3, <2>4, OneStepKeeps DEF DeleteGroup, Inv
<1>3. ASSUME NEW u \in Users, CloseList(u) PROVE Inv'
  <2>1. RowsOK' /\ OwnerIsMember'
    BY <1>3 DEF Inv, RowsOK, OwnerIsMember, CloseList
  <2> QED BY <1>3, <2>1, OneStepKeeps DEF CloseList, Inv
<1>4. ASSUME NEW g \in Groups, NEW u \in Users, Reject(g, u) PROVE Inv'
  <2>1. RowsOK' /\ OwnerIsMember'
    BY <1>4 DEF Inv, RowsOK, OwnerIsMember, Reject
  <2> QED BY <1>4, <2>1, OneStepKeeps DEF Reject, Inv
<1>5. ASSUME NEW u \in Users, NEW v \in Users, Unblock(u, v) PROVE Inv'
  <2>1. RowsOK' /\ OwnerIsMember'
    BY <1>5 DEF Inv, RowsOK, OwnerIsMember, Unblock
  <2> QED BY <1>5, <2>1, OneStepKeeps DEF Unblock, Inv
<1>6. ASSUME NEW t \in Threads, NEW g \in Groups, NEW u \in Users,
             InviteBegin(t, g, u) \/ AcceptBegin(t, g, u)
               \/ RemoveBegin(t, g, u) \/ ListBegin(t, g, u)
      PROVE Inv'
  <2>1. Owner[g] \in Users
    OBVIOUS
  <2> QED
    BY <1>6, <2>1, BeginKeeps DEF InviteBegin, AcceptBegin, RemoveBegin, ListBegin
<1>7. ASSUME NEW t \in Threads, Invite(t) PROVE Inv'
  <2>1. job[t].user \in Users
    BY <1>7 DEF Invite, On, Inv, JobOK
  <2>2. RowsOK' /\ OwnerIsMember'
    BY <1>7, <2>1 DEF Inv, RowsOK, OwnerIsMember, Invite
  <2> QED BY <1>7, <2>2, DoneKeeps DEF Invite, Inv
<1>8. ASSUME NEW t \in Threads, Accept(t) PROVE Inv'
  <2>1. job[t].user \in Users
    BY <1>8 DEF Accept, On, Inv, JobOK
  <2>2. RowsOK' /\ OwnerIsMember'
    BY <1>8, <2>1 DEF Inv, RowsOK, OwnerIsMember, Accept
  <2> QED BY <1>8, <2>2, DoneKeeps DEF Accept, Inv
<1>9. ASSUME NEW t \in Threads, SaveList(t) PROVE Inv'
  <2>1. RowsOK' /\ OwnerIsMember'
    BY <1>9 DEF Inv, RowsOK, OwnerIsMember, SaveList
  <2> QED BY <1>9, <2>1, DoneKeeps DEF SaveList, Inv
<1>10. ASSUME NEW t \in Threads, RemoveInvite(t) PROVE Inv'
  <2>1. RowsOK' /\ OwnerIsMember'
    BY <1>10 DEF Inv, RowsOK, OwnerIsMember, RemoveInvite
  <2>2. JobOK' /\ StaleOK'
    BY <1>10, DoneKeeps, GoesKeeps DEF RemoveInvite, On
  <2> QED BY <2>1, <2>2 DEF Inv
<1>11. ASSUME NEW t \in Threads, Unlist(t) PROVE Inv'
  <2>1. list' \in [Users -> groups' \cup {NoGroup}]
    BY <1>11 DEF Inv, RowsOK, Unlist
  <2>2. RowsOK' /\ OwnerIsMember'
    BY <1>11, <2>1 DEF Inv, RowsOK, OwnerIsMember, Unlist
  <2>3. JobOK' /\ StaleOK'
    BY <1>11, GoesKeeps DEF Unlist, On
  <2> QED BY <2>2, <2>3 DEF Inv
<1>12. ASSUME NEW t \in Threads, Expel(t) PROVE Inv'
  \* The owner of a group that the user is taken out of is the one on whose
  \* behalf that happens, and so is not the user.
  <2>1. job[t].user # job[t].by
    BY <1>12 DEF Expel, On, Inv, JobOK
  <2>2. \A g \in groups : <<g, Owner[g]>> \in members'
    BY <1>12, <2>1 DEF Expel, Owned, Inv, RowsOK, OwnerIsMember
  <2>3. RowsOK' /\ OwnerIsMember'
    BY <1>12, <2>2 DEF Inv, RowsOK, OwnerIsMember, Expel
  <2> QED BY <1>12, <2>3, DoneKeeps DEF Expel, Inv
<1>13. ASSUME NEW t \in Threads, NEW u \in Users, NEW v \in Users, Block(t, u, v)
       PROVE Inv'
  <2>1. RowsOK' /\ OwnerIsMember'
    BY <1>13 DEF Inv, RowsOK, OwnerIsMember, Block
  <2> DEFINE j == [op |-> "unlist", group |-> NoGroup, user |-> v, by |-> u,
                   member |-> FALSE, invite |-> FALSE]
  <2>2. job' = [job EXCEPT ![t] = j]
    BY <1>13 DEF Block
  <2>3. JobOK'
    <3>1. j \in Jobs /\ u # v
      BY <1>13 DEF Jobs, Steps, Block
    <3>2. job' \in [Threads -> Jobs]
      BY <2>2, <3>1 DEF Inv, JobOK
    <3>3. \A x \in Threads : job'[x] = IF x = t THEN j ELSE job[x]
      BY <2>2 DEF Inv, JobOK
    <3> HIDE DEF j
    <3>4. j.op = "unlist" /\ j.user = v /\ j.by = u
      BY DEF j
    <3> QED BY <3>1, <3>2, <3>3, <3>4 DEF Inv, JobOK
  <2>4. StaleOK'
    <3>1. \A x \in Threads \ {t} : job'[x] = job[x]
      BY <2>2 DEF Inv, JobOK
    <3>2. job'[t] # Idle
      BY <2>2 DEF Inv, JobOK, Idle
    <3>3. stale' \subseteq stale \cup Busy
      BY <1>13 DEF Block
    <3> QED BY <3>1, <3>2, <3>3 DEF Inv, StaleOK, Busy
  <2> QED BY <2>1, <2>3, <2>4 DEF Inv
<1>14. CASE UNCHANGED vars
  BY <1>14 DEF vars, tables, Inv, JobOK, RowsOK, StaleOK, Busy, OwnerIsMember
<1> QED
  BY <1>1, <1>2, <1>3, <1>4, <1>5, <1>6, <1>7, <1>8, <1>9, <1>10, <1>11, <1>12,
     <1>13, <1>14 DEF Next, Step

-----------------------------------------------------------------------------
LEMMA Inductive == Spec => []Inv
BY InitInv, NextInv, PTL DEF Spec

\* Every row points at rows that exist, and only busy requests are stale.
THEOREM TypeCorrect == Spec => []TypeOK
<1> DEFINE TornOK == torn \in BOOLEAN
<1>1. Inv /\ TornOK => TypeOK
  BY DEF Inv, RowsOK, StaleOK, TypeOK
<1>2. Init => TornOK
  BY DEF Init
<1>3. TornOK /\ [Next]_vars => TornOK'
  <2>1. TornOK /\ Next => TornOK'
    BY DEF Next
  <2>2. TornOK /\ UNCHANGED vars => TornOK'
    BY DEF vars
  <2> QED BY <2>1, <2>2
<1> HIDE DEF TornOK
<1> QED BY <1>1, <1>2, <1>3, Inductive, PTL DEF Spec

\* "you can't be removed from your own group": whatever requests interleave,
\* among them blocks and removals that began before, the owner stays in.
THEOREM OwnersStay == Spec => []OwnerIsMember
<1>1. Inv => OwnerIsMember
  BY DEF Inv
<1> QED BY <1>1, Inductive, PTL

-----------------------------------------------------------------------------
(* What a request knows that nobody has changed the tables under. *)

Knows(t) ==
  LET j == job[t]
      m == <<j.group, j.user>>
  IN  /\ j.op = "invite" => m \notin members
      /\ j.op = "accept" => m \in invited /\ ~Apart(j.user, Owner[j.group])
      /\ j.op = "list"   => m \in members
      /\ j.op = "expel"  => list[j.user] \notin Owned(j.by)

Knowledge == \A t \in Threads \ stale : Knows(t)
KInv == Inv /\ Knowledge

\* Whoever is busy and does nothing knows what they knew, or is stale.
LEMMA OthersKnow ==
  ASSUME KInv, NEW t, NEW x \in Threads \ stale', x # t, job'[x] = job[x],
         \/ UNCHANGED tables /\ stale \ {t} \subseteq stale'
         \/ Busy \ {t} \subseteq stale'
  PROVE  Knows(x)'
<1>1. CASE job[x] = Idle
  BY <1>1 DEF Knows, Idle
<1>2. CASE job[x] # Idle
  <2>1. UNCHANGED tables /\ x \notin stale
    BY <1>2 DEF Busy
  <2> QED
    BY <2>1 DEF KInv, Knowledge, Knows, tables, Apart, Owned
<1> QED
  BY <1>1, <1>2

LEMMA BeginKnows ==
  ASSUME KInv, NEW t \in Threads, NEW op, NEW g, NEW u, NEW by, Begin(t, op, g, u, by),
         op = "invite" => <<g, u>> \notin members,
         op = "accept" => <<g, u>> \in invited /\ ~Apart(u, Owner[g]),
         op = "list" => <<g, u>> \in members, op # "expel"
  PROVE  Knowledge'
<1>1. \A x \in Threads : x # t => job'[x] = job[x]
  BY DEF KInv, Inv, JobOK, Begin
<1>2. job'[t].op = op /\ job'[t].group = g /\ job'[t].user = u
  BY DEF KInv, Inv, JobOK, Begin
<1>3. Knows(t)'
  BY <1>2 DEF Begin, Knows, tables, Apart
<1>4. ASSUME NEW x \in Threads \ stale', x # t PROVE Knows(x)'
  BY <1>1, <1>4, OthersKnow DEF Begin
<1> QED
  BY <1>3, <1>4 DEF Knowledge

LEMMA DoneKnows ==
  ASSUME KInv, NEW t \in Threads, Done(t)
  PROVE  Knowledge'
<1>1. job'[t] = Idle /\ \A x \in Threads : x # t => job'[x] = job[x]
  BY DEF KInv, Inv, JobOK, Done, Ends
<1>2. Knows(t)'
  BY <1>1 DEF Knows, Idle
<1>3. ASSUME NEW x \in Threads \ stale', x # t PROVE Knows(x)'
  BY <1>1, <1>3, OthersKnow DEF Done
<1> QED
  BY <1>2, <1>3 DEF Knowledge

LEMMA OneStepKnows ==
  ASSUME KInv, UNCHANGED job, \/ UNCHANGED <<tables, stale>>
                              \/ stale' = stale \cup Busy
  PROVE  Knowledge'
<1>1. ASSUME NEW x \in Threads \ stale' PROVE Knows(x)'
  <2>1. CASE job[x] = Idle
    BY <2>1 DEF Knows, Idle
  <2>2. CASE job[x] # Idle
    <3>1. UNCHANGED tables /\ x \notin stale
      BY <2>2 DEF Busy
    <3> QED
      BY <3>1 DEF KInv, Knowledge, Knows, tables, Apart, Owned
  <2> QED
    BY <2>1, <2>2
<1> QED
  BY <1>1 DEF Knowledge

LEMMA GoesKnows ==
  ASSUME KInv, NEW t \in Threads, NEW op \in {"unlist", "expel"}, Goes(t, op), Others(t),
         op = "expel" => list'[job[t].user] \notin Owned(job[t].by)
  PROVE  Knowledge'
<1>1. /\ job'[t].op = op /\ job'[t].user = job[t].user /\ job'[t].by = job[t].by
      /\ \A x \in Threads : x # t => job'[x] = job[x]
  BY DEF KInv, Inv, JobOK, Jobs, Goes
<1>2. Knows(t)'
  BY <1>1 DEF Knows, Owned
<1>3. ASSUME NEW x \in Threads \ stale', x # t PROVE Knows(x)'
  BY <1>1, <1>3, OthersKnow DEF Others
<1> QED
  BY <1>2, <1>3 DEF Knowledge

LEMMA NextKInv == KInv /\ [Next]_vars => KInv'
<1> SUFFICES ASSUME KInv, [Next]_vars PROVE Knowledge'
  BY NextInv DEF KInv
<1> USE OwnerAssumption
<1>1. ASSUME NEW g \in Groups, Create(g) \/ DeleteGroup(g) PROVE Knowledge'
  BY <1>1, OneStepKnows DEF Create, DeleteGroup
<1>2. ASSUME NEW u \in Users, CloseList(u) PROVE Knowledge'
  BY <1>2, OneStepKnows DEF CloseList
<1>3. ASSUME NEW g \in Groups, NEW u \in Users, Reject(g, u) PROVE Knowledge'
  BY <1>3, OneStepKnows DEF Reject
<1>4. ASSUME NEW u \in Users, NEW v \in Users, Unblock(u, v) PROVE Knowledge'
  BY <1>4, OneStepKnows DEF Unblock
<1>5. ASSUME NEW t \in Threads, NEW g \in Groups, NEW u \in Users,
             InviteBegin(t, g, u) \/ AcceptBegin(t, g, u)
               \/ RemoveBegin(t, g, u) \/ ListBegin(t, g, u)
      PROVE  Knowledge'
  BY <1>5, BeginKnows DEF InviteBegin, AcceptBegin, RemoveBegin, ListBegin
<1>6. ASSUME NEW t \in Threads, Invite(t) \/ Accept(t) \/ SaveList(t) \/ Expel(t)
      PROVE  Knowledge'
  BY <1>6, DoneKnows DEF Invite, Accept, SaveList, Expel
<1>7. ASSUME NEW t \in Threads, RemoveInvite(t) PROVE Knowledge'
  BY <1>7, DoneKnows, GoesKnows DEF RemoveInvite
<1>8. ASSUME NEW t \in Threads, Unlist(t) PROVE Knowledge'
  <2>1. list'[job[t].user] \notin Owned(job[t].by)
    <3>1. job[t].user \in Users /\ list \in [Users -> groups \cup {NoGroup}]
      BY <1>8 DEF Unlist, On, KInv, Inv, JobOK, RowsOK
    <3> QED
      BY <1>8, <3>1 DEF Unlist, Owned
  <2> QED
    BY <1>8, <2>1, GoesKnows DEF Unlist
<1>9. ASSUME NEW t \in Threads, NEW u \in Users, NEW v \in Users, Block(t, u, v)
      PROVE  Knowledge'
  <2>1. job'[t].op = "unlist" /\ \A x \in Threads : x # t => job'[x] = job[x]
    BY <1>9 DEF Block, KInv, Inv, JobOK
  <2>2. ASSUME NEW x \in Threads \ stale', x # t PROVE Knows(x)'
    BY <1>9, <2>1, <2>2, OthersKnow DEF Block
  <2> QED
    BY <2>1, <2>2 DEF Knowledge, Knows
<1>10. CASE UNCHANGED vars
  BY <1>10, OneStepKnows DEF vars, tables
<1> QED
  BY <1>1, <1>2, <1>3, <1>4, <1>5, <1>6, <1>7, <1>8, <1>9, <1>10 DEF Next, Step

LEMMA InitKInv == Init => KInv
BY InitInv DEF Init, KInv, Knowledge, Knows, Idle

\* One becomes a member by creating the group, by an invitation that is still
\* there, or by accepting one that was withdrawn meanwhile
\* (views/group.py:263, models/group.py:139).
THEOREM StaleGetIn == Spec => OnlyStaleGetIn
<1> DEFINE GotIn(m) == \/ m \in invited
                       \/ m[2] = Owner[m[1]]
                       \/ \E t \in stale : On(t, "accept") /\ job[t].user = m[2] /\ job'[t] = Idle
<1>1. KInv /\ [Next]_vars => [\A m \in members' \ members : GotIn(m)]_vars
  <2> SUFFICES ASSUME KInv, Next, NEW m \in members' \ members PROVE GotIn(m)
    OBVIOUS
  <2>1. ASSUME NEW g \in Groups, Create(g) PROVE m = <<g, Owner[g]>>
    BY <2>1 DEF Create
  <2>2. ASSUME NEW t \in Threads, Accept(t) PROVE GotIn(m)
    <3>1. /\ m = <<job[t].group, job[t].user>> /\ On(t, "accept")
          /\ job'[t] = Idle
      BY <2>2 DEF Accept, Done, Ends, KInv, Inv, JobOK
    <3>2. CASE t \in stale
      BY <3>1, <3>2
    <3>3. CASE t \notin stale
      BY <3>1, <3>3 DEF KInv, Knowledge, Knows, On
    <3> QED
      BY <3>2, <3>3
  <2>3. ASSUME NEW t \in Threads, NEW g, NEW u,
               \/ Invite(t) \/ SaveList(t) \/ RemoveInvite(t) \/ Unlist(t) \/ Expel(t)
               \/ InviteBegin(t, g, u) \/ AcceptBegin(t, g, u)
               \/ RemoveBegin(t, g, u) \/ ListBegin(t, g, u) \/ Block(t, g, u)
        PROVE  FALSE
    BY <2>3 DEF Invite, SaveList, RemoveInvite, Unlist, Expel, InviteBegin, AcceptBegin,
                RemoveBegin, ListBegin, Begin, tables, Block
  <2>4. ASSUME NEW g, NEW u,
               DeleteGroup(g) \/ CloseList(u) \/ Reject(g, u) \/ Unblock(g, u)
        PROVE  FALSE
    BY <2>4 DEF DeleteGroup, CloseList, Reject, Unblock
  <2> QED
    BY <2>1, <2>2, <2>3, <2>4 DEF Next, Step
<1> QED
  BY <1>1, InitKInv, NextKInv, PTL DEF Spec, OnlyStaleGetIn

-----------------------------------------------------------------------------
(* As long as nothing was torn: the three relations hold of the rows, but for *)
(* the blocked, whom somebody is about to take out of the blocker's groups.   *)

Irreflexive == \A b \in blocks : b[1] # b[2]

BlockedAreLeaving ==
  \A b \in blocks : \A g \in Owned(b[1]) : <<g, b[2]>> \in members =>
    \E t \in Threads : /\ job[t].op \in {"unlist", "expel"}
                       /\ job[t].user = b[2] /\ job[t].by = b[1]

Agreement == NotInvitedAndMember /\ ListsAreOfMembers /\ BlockedAreLeaving

TInv == KInv /\ Irreflexive /\ (torn \/ Agreement)

LEMMA InitTInv == Init => TInv
BY InitKInv DEF Init, TInv, Irreflexive, Agreement, NotInvitedAndMember, ListsAreOfMembers,
                BlockedAreLeaving

LEMMA NextIrreflexive == Irreflexive /\ [Next]_vars => Irreflexive'
<1> SUFFICES ASSUME Irreflexive, [Next]_vars PROVE Irreflexive'
  OBVIOUS
<1>1. ASSUME NEW t, NEW u, NEW v, Block(t, u, v) PROVE Irreflexive'
  BY <1>1 DEF Block, Irreflexive
<1>2. ASSUME NEW t \in Threads, NEW g, NEW u,
             \/ Invite(t) \/ Accept(t) \/ SaveList(t) \/ RemoveInvite(t) \/ Unlist(t) \/ Expel(t)
             \/ InviteBegin(t, g, u) \/ AcceptBegin(t, g, u)
             \/ RemoveBegin(t, g, u) \/ ListBegin(t, g, u)
      PROVE  blocks' \subseteq blocks
  BY <1>2 DEF Invite, Accept, SaveList, RemoveInvite, Unlist, Expel, InviteBegin, AcceptBegin,
              RemoveBegin, ListBegin, Begin, tables
<1>3. ASSUME NEW g, NEW u,
             Create(g) \/ DeleteGroup(g) \/ CloseList(u) \/ Reject(g, u) \/ Unblock(g, u)
      PROVE  blocks' \subseteq blocks
  BY <1>3 DEF Create, DeleteGroup, CloseList, Reject, Unblock
<1>4. CASE UNCHANGED vars
  BY <1>4 DEF vars, Irreflexive
<1>5. blocks' \subseteq blocks => Irreflexive'
  BY DEF Irreflexive
<1> QED
  BY <1>1, <1>2, <1>3, <1>4, <1>5 DEF Next, Step

\* Who is leaving still is, whatever else happens, until they are expelled.
LEMMA StillLeaving ==
  ASSUME Agreement,
         \A b \in blocks' : \A g \in Owned(b[1]) :
           <<g, b[2]>> \in members' => <<g, b[2]>> \in members,
         \A b \in blocks' \ blocks :
           \E t \in Threads : /\ job'[t].op \in {"unlist", "expel"}
                              /\ job'[t].user = b[2] /\ job'[t].by = b[1],
         \A t \in Threads : job[t].op \in {"unlist", "expel"} =>
           \/ /\ job'[t].op \in {"unlist", "expel"}
              /\ job'[t].user = job[t].user /\ job'[t].by = job[t].by
           \/ \A g \in Owned(job[t].by) : <<g, job[t].user>> \notin members'
  PROVE  BlockedAreLeaving'
<1> SUFFICES ASSUME NEW b \in blocks', NEW g \in Owned(b[1]), <<g, b[2]>> \in members'
             PROVE  \E t \in Threads : /\ job'[t].op \in {"unlist", "expel"}
                                       /\ job'[t].user = b[2] /\ job'[t].by = b[1]
  BY DEF BlockedAreLeaving, Owned
<1>1. <<g, b[2]>> \in members
  OBVIOUS
<1>2. CASE b \in blocks
  BY <1>1, <1>2 DEF Agreement, BlockedAreLeaving
<1> QED
  BY <1>2

LEMMA NextTInv == TInv /\ [Next]_vars => TInv'
<1> SUFFICES ASSUME TInv, [Next]_vars PROVE TInv'
  OBVIOUS
<1>0. KInv /\ Inv /\ RowsOK /\ JobOK /\ Irreflexive /\ KInv' /\ Irreflexive'
  BY NextKInv, NextIrreflexive DEF TInv, KInv, Inv
<1>u. CASE UNCHANGED vars
  BY <1>0, <1>u DEF vars, TInv, Agreement, NotInvitedAndMember, ListsAreOfMembers,
                    BlockedAreLeaving, Owned
<1>n. CASE Next
<2> SUFFICES ASSUME ~torn, ~Tearing PROVE Agreement'
  BY <1>0, <1>n DEF TInv, Next
<2>a. Agreement
  BY DEF TInv
\* Who writes on the strength of what they know, knows it.
<2>b. ASSUME NEW t \in Threads, Done(t) \/ Goes(t, "expel"), job[t].op \notin {"idle", "expel"},
             tables' # tables
      PROVE  Knows(t)
  <3>1. job'[t] # job[t]
    BY <1>0, <2>b DEF Done, Ends, Goes, Idle, JobOK, Jobs
  <3>2. t \notin stale
    BY <2>b, <3>1 DEF Tearing
  <3> QED
    BY <1>0, <3>2 DEF KInv, Knowledge
<2> USE OwnerAssumption
<2>1. ASSUME NEW g \in Groups, Create(g) PROVE Agreement'
  <3>1. ListsAreOfMembers' /\ NotInvitedAndMember'
    BY <1>0, <2>a, <2>1 DEF Create, Agreement, ListsAreOfMembers, NotInvitedAndMember, RowsOK
  <3>2. \A b \in blocks' : \A h \in Owned(b[1]) : <<h, b[2]>> # <<g, Owner[g]>>
    BY <1>0, <2>1 DEF Create, Irreflexive, Owned
  <3>3. BlockedAreLeaving'
    BY <2>a, <2>1, <3>2, StillLeaving DEF Create
  <3> QED
    BY <3>1, <3>3 DEF Agreement
<2>2. ASSUME NEW g \in Groups, DeleteGroup(g) PROVE Agreement'
  <3>1. NotInvitedAndMember'
    BY <2>a, <2>2 DEF DeleteGroup, Agreement, NotInvitedAndMember
  <3>2. ListsAreOfMembers'
    BY <1>0, <2>a, <2>2 DEF DeleteGroup, Agreement, ListsAreOfMembers, RowsOK
  <3>3. BlockedAreLeaving'
    BY <2>a, <2>2, StillLeaving DEF DeleteGroup
  <3> QED
    BY <3>1, <3>2, <3>3 DEF Agreement
<2>3. ASSUME NEW u \in Users, CloseList(u) PROVE Agreement'
  <3>1. NotInvitedAndMember' /\ ListsAreOfMembers'
    BY <1>0, <2>a, <2>3 DEF CloseList, Agreement, NotInvitedAndMember, ListsAreOfMembers, RowsOK
  <3>2. BlockedAreLeaving'
    BY <2>a, <2>3, StillLeaving DEF CloseList
  <3> QED
    BY <3>1, <3>2 DEF Agreement
<2>4. ASSUME NEW g \in Groups, NEW u \in Users, Reject(g, u) PROVE Agreement'
  <3>1. NotInvitedAndMember' /\ ListsAreOfMembers'
    BY <2>a, <2>4 DEF Reject, Agreement, NotInvitedAndMember, ListsAreOfMembers
  <3>2. BlockedAreLeaving'
    BY <2>a, <2>4, StillLeaving DEF Reject
  <3> QED
    BY <3>1, <3>2 DEF Agreement
<2>5. ASSUME NEW u \in Users, NEW v \in Users, Unblock(u, v) PROVE Agreement'
  <3>1. NotInvitedAndMember' /\ ListsAreOfMembers'
    BY <2>a, <2>5 DEF Unblock, Agreement, NotInvitedAndMember, ListsAreOfMembers
  <3>2. BlockedAreLeaving'
    BY <2>a, <2>5, StillLeaving DEF Unblock
  <3> QED
    BY <3>1, <3>2 DEF Agreement
<2>6. ASSUME NEW t \in Threads, NEW u \in Users, NEW v \in Users, Block(t, u, v)
      PROVE  Agreement'
  <3>1. NotInvitedAndMember' /\ ListsAreOfMembers'
    BY <2>a, <2>6 DEF Block, Agreement, NotInvitedAndMember, ListsAreOfMembers
  <3>2. /\ job'[t].op = "unlist" /\ job'[t].user = v /\ job'[t].by = u
        /\ \A x \in Threads : x # t => job'[x] = job[x]
        /\ job[t].op = "idle"
    BY <1>0, <2>6 DEF Block, JobOK, Idle
  <3>3. BlockedAreLeaving'
    BY <2>a, <2>6, <3>2, StillLeaving DEF Block
  <3> QED
    BY <3>1, <3>3 DEF Agreement
<2>7. ASSUME NEW t \in Threads, NEW g \in Groups, NEW u \in Users,
             InviteBegin(t, g, u) \/ AcceptBegin(t, g, u)
               \/ RemoveBegin(t, g, u) \/ ListBegin(t, g, u)
      PROVE  Agreement'
  <3>1. UNCHANGED tables /\ job[t] = Idle /\ \A x \in Threads : x # t => job'[x] = job[x]
    BY <1>0, <2>7 DEF InviteBegin, AcceptBegin, RemoveBegin, ListBegin, Begin, JobOK
  <3>2. NotInvitedAndMember' /\ ListsAreOfMembers'
    BY <2>a, <3>1 DEF tables, Agreement, NotInvitedAndMember, ListsAreOfMembers
  <3>3. BlockedAreLeaving'
    BY <2>a, <3>1, StillLeaving DEF tables, Idle
  <3> QED
    BY <3>2, <3>3 DEF Agreement
\* Steps that end a request, but for the one that takes a member out.
<2>8. ASSUME NEW t \in Threads, Done(t), job[t].op \in {"invite", "accept", "list", "remove"},
             blocks' = blocks,
             \A b \in blocks' : \A h \in Owned(b[1]) :
               <<h, b[2]>> \in members' => <<h, b[2]>> \in members
      PROVE  BlockedAreLeaving'
  <3>1. \A x \in Threads : x # t => job'[x] = job[x]
    BY <1>0, <2>8 DEF JobOK, Done, Ends
  <3> QED
    BY <2>a, <2>8, <3>1, StillLeaving
<2>9. ASSUME NEW t \in Threads, Invite(t) PROVE Agreement'
  <3>1. ListsAreOfMembers' /\ BlockedAreLeaving'
    BY <2>a, <2>8, <2>9 DEF Invite, On, Agreement, ListsAreOfMembers
  <3>2. NotInvitedAndMember'
    <4>1. CASE tables' = tables
      BY <2>a, <4>1 DEF tables, Agreement, NotInvitedAndMember
    <4>2. CASE tables' # tables
      BY <2>a, <2>b, <2>9, <4>2 DEF Invite, On, Knows, Agreement, NotInvitedAndMember
    <4> QED
      BY <4>1, <4>2
  <3> QED
    BY <3>1, <3>2 DEF Agreement
<2>10. ASSUME NEW t \in Threads, Accept(t) PROVE Agreement'
  <3>1. ListsAreOfMembers' /\ NotInvitedAndMember'
    BY <2>a, <2>10 DEF Accept, Agreement, ListsAreOfMembers, NotInvitedAndMember
  <3>2. BlockedAreLeaving'
    <4>1. CASE tables' = tables
      BY <2>8, <2>10, <4>1 DEF Accept, On, tables
    <4>2. CASE tables' # tables
      <5>1. ~Apart(job[t].user, Owner[job[t].group])
        BY <2>b, <2>10, <4>2 DEF Accept, On, Knows
      <5>2. \A b \in blocks : \A h \in Owned(b[1]) : <<h, b[2]>> # <<job[t].group, job[t].user>>
        BY <1>0, <5>1 DEF Apart, Owned, RowsOK
      <5> QED
        BY <2>8, <2>10, <5>2 DEF Accept, On
    <4> QED
      BY <4>1, <4>2
  <3> QED
    BY <3>1, <3>2 DEF Agreement
<2>11. ASSUME NEW t \in Threads, SaveList(t) PROVE Agreement'
  <3>1. NotInvitedAndMember' /\ BlockedAreLeaving'
    BY <2>a, <2>8, <2>11 DEF SaveList, On, Agreement, NotInvitedAndMember
  <3>2. ListsAreOfMembers'
    <4>1. CASE tables' = tables
      BY <2>a, <4>1 DEF tables, Agreement, ListsAreOfMembers
    <4>2. CASE tables' # tables
      <5>1. <<job[t].group, job[t].user>> \in members
        BY <2>b, <2>11, <4>2 DEF SaveList, On, Knows
      <5> QED
        BY <1>0, <2>a, <2>11, <5>1 DEF SaveList, Agreement, ListsAreOfMembers, RowsOK
    <4> QED
      BY <4>1, <4>2
  <3> QED
    BY <3>1, <3>2 DEF Agreement
<2>12. ASSUME NEW t \in Threads, RemoveInvite(t) PROVE Agreement'
  <3>1. NotInvitedAndMember' /\ ListsAreOfMembers'
    BY <2>a, <2>12 DEF RemoveInvite, Agreement, NotInvitedAndMember, ListsAreOfMembers
  <3>2. job[t].op = "remove" /\ \A x \in Threads : x # t => job'[x] = job[x]
    BY <1>0, <2>12 DEF RemoveInvite, On, Done, Ends, Goes, JobOK
  <3>3. BlockedAreLeaving'
    BY <2>a, <2>12, <3>2, StillLeaving DEF RemoveInvite
  <3> QED
    BY <3>1, <3>3 DEF Agreement
<2>13. ASSUME NEW t \in Threads, Unlist(t) PROVE Agreement'
  <3>1. NotInvitedAndMember' /\ ListsAreOfMembers'
    BY <1>0, <2>a, <2>13 DEF Unlist, Agreement, NotInvitedAndMember, ListsAreOfMembers, RowsOK
  <3>2. /\ job'[t].op = "expel" /\ job'[t].user = job[t].user /\ job'[t].by = job[t].by
        /\ \A x \in Threads : x # t => job'[x] = job[x]
    BY <1>0, <2>13 DEF Unlist, Goes, JobOK, Jobs
  <3>3. BlockedAreLeaving'
    BY <2>a, <2>13, <3>2, StillLeaving DEF Unlist
  <3> QED
    BY <3>1, <3>3 DEF Agreement
\* Their list is not in any of those groups any more, or nothing changes.
<2>14. ASSUME NEW t \in Threads, Expel(t) PROVE Agreement'
  <3>1. NotInvitedAndMember'
    BY <2>a, <2>14 DEF Expel, Agreement, NotInvitedAndMember
  <3>2. ListsAreOfMembers'
    <4>1. CASE tables' = tables
      BY <2>a, <4>1 DEF tables, Agreement, ListsAreOfMembers
    <4>2. CASE tables' # tables
      <5>1. job'[t] # job[t]
        BY <1>0, <2>14 DEF Expel, On, Done, Ends, Idle, JobOK
      <5>2. list[job[t].user] \notin Owned(job[t].by)
        BY <1>0, <2>14, <4>2, <5>1 DEF Tearing, KInv, Knowledge, Knows, Expel, On
      <5> QED
        BY <1>0, <2>a, <2>14, <5>2 DEF Expel, Agreement, ListsAreOfMembers, RowsOK
    <4> QED
      BY <4>1, <4>2
  <3>3. \A x \in Threads : x # t => job'[x] = job[x]
    BY <1>0, <2>14 DEF Expel, Done, Ends, JobOK
  <3>4. \A g \in Owned(job[t].by) : <<g, job[t].user>> \notin members'
    BY <2>14 DEF Expel
  <3>5. BlockedAreLeaving'
    BY <2>a, <2>14, <3>3, <3>4, StillLeaving DEF Expel
  <3> QED
    BY <3>1, <3>2, <3>5 DEF Agreement
<2> QED
  BY <1>n, <2>1, <2>2, <2>3, <2>4, <2>5, <2>6, <2>7, <2>9, <2>10, <2>11, <2>12, <2>13, <2>14
     DEF Next, Step
<1> QED
  BY <1>u, <1>n

\* Groups, invitations, blocks and lists agree when nobody is at work, unless
\* somebody wrote on the strength of what another had changed
\* (models/group.py:65, 121, views/preferences/block.py:24).
THEOREM TornDisagree == Spec => []OnlyTornDisagree
<1>1. TInv => OnlyTornDisagree
  <2> SUFFICES ASSUME TInv, Busy = {}, ~torn
               PROVE  NotInvitedAndMember /\ OwnersBlockHolds /\ ListsAreOfMembers
    BY DEF OnlyTornDisagree
  <2>1. Agreement /\ \A t \in Threads : job[t].op = "idle"
    BY DEF TInv, Busy, Idle
  <2>2. ASSUME NEW b \in blocks, NEW g \in Owned(b[1])
        PROVE  <<g, b[2]>> \notin members /\ list[b[2]] # g
    <3>1. <<g, b[2]>> \notin members
      BY <2>1, <2>2 DEF Agreement, BlockedAreLeaving
    <3>2. b[2] \in Users /\ g # NoGroup
      BY <2>2, OwnerAssumption DEF TInv, KInv, Inv, RowsOK, Owned
    <3> QED
      BY <2>1, <3>1, <3>2 DEF Agreement, ListsAreOfMembers
  <2> QED
    BY <2>1, <2>2 DEF Agreement, OwnersBlockHolds
<1> QED
  BY InitTInv, NextTInv, <1>1, PTL DEF Spec

-----------------------------------------------------------------------------
(* Film!Shelves and reviews of a film                                             *)

\* Requests that may write a review that was not there.
Posting  == {"finish", "import", "review", "rate"}
Requests == {"idle", "want", "shelve", "unshelve", "put", "edit", "delete"} \cup Posting
ShelfJobs == [op : Requests, shelf : Film!Shelves \cup {Film!NoShelf}, drop : Nat,
              from : Film!Shelves \cup {Film!NoShelf}, review : 0 .. MaxReview]
Posters == {t \in Threads : sh_job[t].op \in Posting}

\* Keys and reviews are numbers with a bound, a request holds a review that has
\* been written, and there are reviews left for those who may write one.
ShelvesTyped ==
  /\ on \in [Film!Shelves -> Nat] /\ reviews \in [1 .. MaxReview -> {"none", "live", "deleted"}]
  /\ sh_job \in [Threads -> ShelfJobs]
  /\ \E n \in Nat :
        /\ \A s \in Film!Shelves : on[s] <= n
        /\ \A t \in Threads : sh_job[t].drop <= n
  /\ \A t \in Threads : /\ sh_job[t].review # 0 => reviews[sh_job[t].review] # "none"
                        /\ sh_job[t].op \in {"edit", "delete"} => sh_job[t].review # 0
                        /\ sh_job[t].op \in {"shelve", "put", "import"} =>
                             sh_job[t].shelf \in Film!Shelves
  /\ Cardinality(Posters) <= Cardinality(Film!Unused)

\* What a request knows that is not stale.
Knowing(t) ==
  /\ sh_job[t].op \in {"finish", "want"} => sh_job[t].drop = Film!CurrentRow
  /\ sh_job[t].op = "finish" => sh_job[t].review = Film!ExistingReview
  /\ sh_job[t].op = "shelve" /\ sh_job[t].shelf \in Film!Status =>
       sh_job[t].drop = IF Film!Current = sh_job[t].from THEN 0 ELSE Film!CurrentRow
  /\ sh_job[t].op = "review" => Film!Live(reviews) = {}
  /\ sh_job[t].op \in {"edit", "delete"} => reviews[sh_job[t].review] = "live"

OneStatus == on[Film!Watchlist] = 0 \/ on[Film!Watched] = 0
OneReview == \A i, j \in Film!Live(reviews) : i = j

ShelvesInv ==
  /\ ShelvesTyped
  /\ \A t \in Threads \ sh_stale : Knowing(t)
  /\ ~careless => ~Film!Careless
  /\ ~sh_torn /\ ~careless => OneStatus /\ OneReview

-----------------------------------------------------------------------------
\* Counting is the same for shelves and for groups.
LEMMA SameCount == ASSUME NEW S PROVE Film!Cardinality(S) = Cardinality(S)
BY DEF Cardinality, Film!Cardinality

\* Greatest and least numbers.
LEMMA HasGreatest ==
  ASSUME NEW S, S \subseteq Nat, S # {}, NEW b \in Nat, \A n \in S : n <= b
  PROVE  Film!Max(S) \in S /\ \A n \in S : n <= Film!Max(S)
<1> DEFINE D == {b - n : n \in S}
<1>1. D \subseteq Nat /\ D # {}
  <2>1. ASSUME NEW n \in S PROVE b - n \in Nat
    <3>1. n \in Nat /\ n <= b
      OBVIOUS
    <3> QED
      BY <3>1
  <2> QED
    BY <2>1
<1>2. PICK d \in D : \A c \in D : ~(<<c, d>> \in OpToRel(<, Nat))
  <2> HIDE DEF D
  <2> QED
    BY <1>1, NatLessThanWellFounded, WFMin
<1>3. PICK m \in S : d = b - m
  BY <1>2
<1>4. ASSUME NEW n \in S PROVE m >= n
  <2>1. b - n \in D /\ b - n \in Nat /\ d \in Nat
    BY <1>1, <1>2
  <2>2. ~(b - n < d)
    BY <1>2, <2>1 DEF OpToRel
  <2>3. n \in Nat /\ m \in Nat
    OBVIOUS
  <2> QED
    BY <1>3, <2>1, <2>2, <2>3
<1>5. Film!Max(S) \in S /\ \A n \in S : Film!Max(S) >= n
  BY <1>4 DEF Film!Max
<1>6. \A n \in S : n \in Nat
  OBVIOUS
<1> QED
  BY <1>5, <1>6

LEMMA HasLeast ==
  ASSUME NEW S, S \subseteq Nat, S # {}
  PROVE  Film!Min(S) \in S
<1>1. PICK d \in S : \A c \in S : ~(<<c, d>> \in OpToRel(<, Nat))
  BY NatLessThanWellFounded, WFMin
<1>2. \A c \in S : d =< c
  <2>1. ASSUME NEW c \in S PROVE d =< c
    <3>1. c \in Nat /\ d \in Nat /\ ~(c < d)
      BY <1>1 DEF OpToRel
    <3> QED
      BY <3>1
  <2> QED
    BY <2>1
<1> QED
  BY <1>2 DEF Film!Min

\* The next primary key is a number, above the bound of those in use by one at most.
LEMMA NextRow ==
  ASSUME ShelvesTyped, NEW n \in Nat, \A s \in Film!Shelves : on[s] <= n,
         \A t \in Threads : sh_job[t].drop <= n
  PROVE  Film!row \in Nat /\ Film!row # 0 /\ Film!row <= n + 1
<1> DEFINE S == {0} \cup {on[s] : s \in Film!Shelves} \cup {sh_job[t].drop : t \in Threads}
<1>1. S \subseteq Nat /\ S # {} /\ \A m \in S : m <= n
  <2>1. ASSUME NEW m \in S PROVE m \in Nat /\ m <= n
    <3>1. CASE m = 0
      BY <3>1
    <3>2. ASSUME NEW s \in Film!Shelves, m = on[s] PROVE m \in Nat /\ m <= n
      BY <3>2 DEF ShelvesTyped
    <3>3. ASSUME NEW t \in Threads, m = sh_job[t].drop PROVE m \in Nat /\ m <= n
      BY <3>3 DEF ShelvesTyped, ShelfJobs
    <3> QED
      BY <3>1, <3>2, <3>3
  <2> QED
    BY <2>1
<1> HIDE DEF S
<1>2. Film!Max(S) \in S
  BY <1>1, HasGreatest
<1>3. Film!row = 1 + Film!Max(S)
  BY DEF Film!row, S
<1>4. Film!Max(S) \in Nat /\ Film!Max(S) <= n
  BY <1>1, <1>2
<1> QED
  BY <1>3, <1>4

LEMMA RowIsNew == ShelvesTyped => Film!row \in Nat /\ Film!row # 0
BY NextRow DEF ShelvesTyped

LEMMA ReviewBound == MaxReview \in Nat /\ Film!Watchlist \in Film!Shelves
 /\ Film!Watched \in Film!Shelves
                     /\ Film!NoShelf \notin Film!Shelves /\ Film!Watchlist # Film!Watched
BY ClubAssumption DEF Film!ShelfAssumption, Film!Shelves, Film!Status, Film!Watchlist,
   Film!Watched, Film!NoShelf

\* The review that a request finds is live, and is the only one if there is one.
LEMMA FoundReview ==
  ASSUME ShelvesTyped
  PROVE  /\ Film!ExistingReview \in 0 .. MaxReview
         /\ Film!Live(reviews) = {} => Film!ExistingReview = 0
         /\ Film!Live(reviews) # {} =>
              Film!ExistingReview \in Film!Live(reviews) /\ Film!ExistingReview # 0
<1>1. /\ Film!Live(reviews) \subseteq Nat /\ MaxReview \in Nat
      /\ \A n \in Film!Live(reviews) : n <= MaxReview /\ n # 0
  BY ReviewBound DEF Film!Live
<1>2. Film!Live(reviews) # {} => Film!Max(Film!Live(reviews)) \in Film!Live(reviews)
  BY <1>1, HasGreatest
<1>3. Film!Live(reviews) \subseteq 1 .. MaxReview /\ 0 \in 0 .. MaxReview
  BY <1>1 DEF Film!Live
<1>4. CASE Film!Live(reviews) = {}
  BY <1>3, <1>4 DEF Film!ExistingReview
<1>5. CASE Film!Live(reviews) # {}
  <2>1. Film!ExistingReview = Film!Max(Film!Live(reviews))
    BY <1>5 DEF Film!ExistingReview
  <2>2. Film!ExistingReview \in 1 .. MaxReview
    BY <1>2, <1>3, <1>5, <2>1
  <2> QED
    BY <1>1, <1>2, <1>5, <2>1, <2>2
<1> QED
  BY <1>4, <1>5

\* The current row is a number, and the film is on no other status shelf than the
\* one it is on.
LEMMA CurrentIs ==
  ASSUME ShelvesTyped
  PROVE  /\ Film!Current \in Film!Status \cup {Film!NoShelf} /\ Film!CurrentRow \in Nat
         /\ Film!Current \in Film!Status =>
              on[Film!Current] = Film!CurrentRow /\ Film!CurrentRow # 0
         /\ Film!Current = Film!NoShelf => on[Film!Watchlist] = 0 /\ on[Film!Watched] = 0
         /\ (Film!CurrentRow # 0 \/ Film!Current = Film!NoShelf)
         /\ \E n \in Film!Shelves : Film!CurrentRow = on[n] \/ Film!CurrentRow = 0
<1>1. Film!Status \subseteq Film!Shelves /\ Film!Watchlist \in Film!Status
       /\ Film!Watched \in Film!Status /\ Film!NoShelf \notin Film!Status
      /\ Film!Status = {Film!Watchlist, Film!Watched}
  BY ReviewBound DEF Film!Shelves, Film!Status
<1>2. PICK a, b \in Nat : a = on[Film!Watchlist] /\ b = on[Film!Watched]
  BY <1>1 DEF ShelvesTyped
<1>3. CASE \E s \in Film!Status : on[s] # 0
  <2>1. {on[x] : x \in Film!Status} = {a, b}
    BY <1>1, <1>2
  <2>2. PICK c \in Nat : a <= c /\ b <= c
    BY <1>2
  <2>3. /\ Film!Max({a, b}) \in {a, b} /\ a <= Film!Max({a, b}) /\ b <= Film!Max({a, b})
    <3>1. {a, b} \subseteq Nat /\ {a, b} # {} /\ \A n \in {a, b} : n <= c
      BY <1>2, <2>2
    <3> QED
      BY <3>1, HasGreatest
  <2>4. \E s \in Film!Status : on[s] = Film!Max({on[x] : x \in Film!Status})
    BY <1>1, <1>2, <2>1, <2>3
  <2>5. Film!Current \in Film!Status /\ on[Film!Current] = Film!Max({a, b})
    BY <1>3, <2>1, <2>4 DEF Film!Current
  <2>6. Film!Max({a, b}) \in Nat /\ Film!Max({a, b}) # 0
    BY <1>1, <1>2, <1>3, <2>3
  <2>7. Film!CurrentRow = on[Film!Current]
    BY <1>1, <2>5 DEF Film!CurrentRow
  <2> QED
    BY <1>1, <2>5, <2>6, <2>7
<1>4. CASE ~\E s \in Film!Status : on[s] # 0
  <2>1. Film!Current = Film!NoShelf /\ Film!CurrentRow = 0
    BY <1>4 DEF Film!Current, Film!CurrentRow
  <2> QED
    BY <1>1, <1>4, <2>1
<1> QED
  BY <1>3, <1>4

\* Without the current row the film is on no status shelf.
LEMMA WithoutCurrent ==
  ASSUME ShelvesTyped, OneStatus, NEW o \in [Film!Shelves -> Nat],
         \A s \in Film!Shelves : o[s] \in {0, on[s]}
  PROVE  \A s \in Film!Status : Film!Without(o, Film!CurrentRow)[s] = 0
<1>1. Film!Status = {Film!Watchlist, Film!Watched} /\ Film!Watchlist \in Film!Shelves
       /\ Film!Watched \in Film!Shelves
  BY ReviewBound DEF Film!Status
<1>2. \A s \in Film!Shelves :
        Film!Without(o, Film!CurrentRow)[s] =
          IF Film!CurrentRow # 0 /\ o[s] = Film!CurrentRow THEN 0 ELSE o[s]
  BY DEF Film!Without
<1>3. CASE Film!Current = Film!NoShelf
  BY <1>1, <1>2, <1>3, CurrentIs
<1>4. CASE Film!Current \in Film!Status
  <2>1. on[Film!Current] = Film!CurrentRow /\ Film!CurrentRow # 0
    BY <1>4, CurrentIs
  <2>2. \A s \in Film!Status : s # Film!Current => on[s] = 0
    BY <1>1, <1>4, <2>1 DEF OneStatus
  <2>3. ASSUME NEW s \in Film!Status PROVE Film!Without(o, Film!CurrentRow)[s] = 0
    <3>1. s \in Film!Shelves /\ o[s] \in {0, on[s]}
      BY <1>1
    <3> QED
      BY <1>2, <2>1, <2>2, <3>1
  <2> QED
    BY <2>3
<1> QED
  BY <1>3, <1>4, CurrentIs

LEMMA SameKnown ==
  ASSUME UNCHANGED <<on, reviews>>
  PROVE  /\ Film!Current' = Film!Current /\ Film!CurrentRow' = Film!CurrentRow
         /\ Film!Live(reviews)' = Film!Live(reviews) /\ Film!ExistingReview' = Film!ExistingReview
<1>1. Film!Current' = Film!Current
  BY DEF Film!Current
<1>2. Film!Live(reviews)' = Film!Live(reviews)
  BY DEF Film!Live
<1> QED
  BY <1>1, <1>2 DEF Film!CurrentRow, Film!ExistingReview

-----------------------------------------------------------------------------
\* How many reviews may still be written.
LEMMA PostersAreFew ==
  /\ IsFiniteSet(Posters) /\ IsFiniteSet(Film!Unused) /\ IsFiniteSet(Film!Busy)
  /\ Cardinality(Posters) \in Nat /\ Cardinality(Film!Unused) \in Nat
      /\ Cardinality(Film!Busy) \in Nat
  /\ Posters \subseteq Film!Busy /\ Cardinality(Posters) <= Cardinality(Film!Busy)
<1>1. IsFiniteSet(Posters) /\ IsFiniteSet(Film!Busy)
  BY ClubAssumption, FS_Subset DEF Posters, Film!Busy
<1>2. IsFiniteSet(Film!Unused)
  <2>1. IsFiniteSet(1 .. MaxReview)
    BY ReviewBound, FS_Interval
  <2> QED
    BY <2>1, FS_Subset DEF Film!Unused
<1>3. Posters \subseteq Film!Busy
  BY DEF Posters, Film!Busy, Posting, Film!Idle
<1> QED
  BY <1>1, <1>2, <1>3, FS_CardinalityType, FS_Subset

\* A request that may write a review has one to write.
LEMMA LeastUnused ==
  ASSUME ShelvesTyped, NEW t \in Posters
  PROVE  Film!Unused # {} /\ Film!Min(Film!Unused) \in Film!Unused /\ Film!Min(Film!Unused) # 0
<1>1. Cardinality(Posters) # 0
  BY PostersAreFew, FS_EmptySet
<1>2. Film!Unused # {}
  BY <1>1, PostersAreFew, FS_EmptySet DEF ShelvesTyped
<1>3. Film!Unused \subseteq Nat /\ 0 \notin Film!Unused
  BY ReviewBound DEF Film!Unused
<1> QED
  BY <1>2, <1>3, HasLeast

\* What a commit writes: some rows and at most one review, which is a new one
\* only if the request may write one.
Shape(t, o, r) ==
  /\ o \in [Film!Shelves -> Nat] /\ \A s \in Film!Shelves : o[s] \in {0, on[s], Film!row}
  /\ \/ r = reviews
     \/ \E p \in 1 .. MaxReview, x \in {"live", "deleted"} :
          r = [reviews EXCEPT ![p] = x] /\ (t \in Posters \/ p \notin Film!Unused)

LEMMA CommitTyped ==
  ASSUME ShelvesTyped, NEW t \in Threads, NEW o, NEW r, Film!Commit(t, o, r), Shape(t, o, r)
  PROVE  ShelvesTyped'
<1>1. on' = o /\ reviews' = r /\ sh_job' = [sh_job EXCEPT ![t] = Film!Idle]
  BY DEF Film!Commit, Film!Finished
<1>2. Film!Idle \in ShelfJobs /\ Film!Idle.drop = 0 /\ Film!Idle.review = 0 /\ Film!Idle.op = "idle"
  BY ReviewBound DEF Film!Idle, ShelfJobs, Requests
<1>3. sh_job' \in [Threads -> ShelfJobs] /\ sh_job'[t] = Film!Idle /\ \A x \in Threads : x # t =>
        sh_job'[x] = sh_job[x]
  BY <1>1, <1>2 DEF ShelvesTyped
<1>4. reviews' \in [1 .. MaxReview -> {"none", "live", "deleted"}]
      /\ \A i \in 1 .. MaxReview : reviews[i] # "none" => reviews'[i] # "none"
  BY <1>1 DEF Shape, ShelvesTyped
<1>5. \E n \in Nat :
      /\ \A s \in Film!Shelves : on'[s] <= n
      /\ \A x \in Threads : sh_job'[x].drop <= n
  <2>1. PICK n \in Nat :
        /\ \A s \in Film!Shelves : on[s] <= n
        /\ \A x \in Threads : sh_job[x].drop <= n
    BY DEF ShelvesTyped
  <2>2. Film!row \in Nat /\ Film!row <= n + 1
    BY <2>1, NextRow
  <2>3. ASSUME NEW s \in Film!Shelves PROVE on'[s] <= n + 1
    <3>1. o[s] \in {0, on[s], Film!row} /\ on[s] \in Nat /\ on[s] <= n
      BY <2>1 DEF Shape, ShelvesTyped
    <3> QED
      BY <1>1, <2>2, <3>1
  <2>4. ASSUME NEW x \in Threads PROVE sh_job'[x].drop <= n + 1
    <3>1. sh_job[x].drop \in Nat /\ sh_job[x].drop <= n
      BY <2>1 DEF ShelvesTyped, ShelfJobs
    <3> QED
      BY <1>2, <1>3, <3>1
  <2> QED
    BY <2>3, <2>4
<1>6. \A x \in Threads : /\ sh_job'[x].review # 0 => reviews'[sh_job'[x].review] # "none"
                         /\ sh_job'[x].op \in {"edit", "delete"} => sh_job'[x].review # 0
                         /\ sh_job'[x].op \in {"shelve", "put", "import"} =>
                              sh_job'[x].shelf \in Film!Shelves
  <2>1. ASSUME NEW x \in Threads, x # t
        PROVE  sh_job[x].review # 0 => reviews'[sh_job[x].review] # "none"
    <3>1. sh_job[x].review \in 0 .. MaxReview
      BY DEF ShelvesTyped, ShelfJobs
    <3>2. sh_job[x].review # 0 => sh_job[x].review \in 1 .. MaxReview
      BY <3>1, ReviewBound
    <3> QED
      BY <1>4, <3>2 DEF ShelvesTyped
  <2> QED
    BY <1>2, <1>3, <2>1 DEF ShelvesTyped
<1>7. Cardinality(Posters') <= Cardinality(Film!Unused')
  <2>1. Posters' = Posters \ {t}
    BY <1>2, <1>3 DEF Posters, Posting
  <2>2. PICK m, k \in Nat : m = Cardinality(Posters) /\ k = Cardinality(Film!Unused) /\ m <= k
    BY PostersAreFew DEF ShelvesTyped
  <2>3. IsFiniteSet(Film!Unused')
    <3>1. IsFiniteSet(1 .. MaxReview)
      BY ReviewBound, FS_Interval
    <3> QED
      BY <3>1, FS_Subset DEF Film!Unused
  <2>4. CASE t \in Posters
    <3>1. Cardinality(Posters') = m - 1
      BY <2>1, <2>2, <2>4, PostersAreFew, FS_RemoveElement
    <3>2. PICK p : Film!Unused \ {p} \subseteq Film!Unused'
      BY <1>1 DEF Shape, Film!Unused, ShelvesTyped
    <3>3. Cardinality(Film!Unused \ {p}) \in {k, k - 1}
      BY <2>2, PostersAreFew, FS_RemoveElement
    <3>4. Cardinality(Film!Unused \ {p}) <= Cardinality(Film!Unused')
           /\ Cardinality(Film!Unused') \in Nat
      BY <2>3, <3>2, FS_Subset, FS_CardinalityType
    <3> QED
      BY <2>2, <3>1, <3>3, <3>4
  <2>5. CASE t \notin Posters
    <3>1. Posters' = Posters
      BY <2>1, <2>5
    <3>2. Film!Unused \subseteq Film!Unused'
      BY <1>1, <2>5 DEF Shape, Film!Unused, ShelvesTyped
    <3>3. k <= Cardinality(Film!Unused') /\ Cardinality(Film!Unused') \in Nat
      BY <2>2, <2>3, <3>2, FS_Subset, FS_CardinalityType
    <3> QED
      BY <2>2, <3>1, <3>3
  <2> QED
    BY <2>4, <2>5
<1>8. on' \in [Film!Shelves -> Nat]
  BY <1>1 DEF Shape
<1> QED
  BY <1>3, <1>4, <1>5, <1>6, <1>7, <1>8 DEF ShelvesTyped

\* Whoever is not stale after a commit knows what they knew.
LEMMA OthersStillKnow ==
  ASSUME ShelvesTyped, \A x \in Threads \ sh_stale : Knowing(x), NEW t \in Threads,
         NEW o, NEW r, Film!Commit(t, o, r)
  PROVE  \A x \in Threads \ sh_stale' : Knowing(x)'
<1>1. /\ on' = o /\ reviews' = r /\ sh_job' = [sh_job EXCEPT ![t] = Film!Idle]
      /\ sh_stale' = (IF <<o, r>> = Film!tables THEN sh_stale ELSE sh_stale \cup Film!Busy) \ {t}
  BY DEF Film!Commit, Film!Finished
<1>2. sh_job'[t] = Film!Idle /\ \A x \in Threads : x # t => sh_job'[x] = sh_job[x]
  BY <1>1 DEF ShelvesTyped
<1>3. \A x \in Threads : sh_job'[x] = Film!Idle => Knowing(x)'
  BY DEF Knowing, Film!Idle
<1>4. ASSUME NEW x \in Threads \ sh_stale', sh_job'[x] # Film!Idle PROVE Knowing(x)'
  <2>1. x # t /\ sh_job'[x] = sh_job[x] /\ x \in Film!Busy
    BY <1>2, <1>4 DEF Film!Busy
  <2>2. x \notin sh_stale /\ on' = on /\ reviews' = reviews
    BY <1>1, <1>4, <2>1 DEF Film!tables
  <2>3. Knowing(x)
    BY <2>2
  <2> QED
    BY <2>1, <2>2, <2>3, SameKnown DEF Knowing
<1> QED
  BY <1>3, <1>4

LEMMA CommitKeeps ==
  ASSUME ShelvesInv, NEW t \in Threads, NEW o, NEW r, Film!Commit(t, o, r), Shape(t, o, r),
         careless' = (careless \/ Film!Careless'),
         ~sh_torn /\ ~careless /\ t \notin sh_stale /\ OneStatus /\ OneReview =>
           OneStatus' /\ OneReview'
  PROVE  ShelvesInv'
<1>1. ShelvesTyped' /\ \A x \in Threads \ sh_stale' : Knowing(x)'
  BY CommitTyped, OthersStillKnow DEF ShelvesInv
<1>2. sh_torn' = (sh_torn \/ t \in sh_stale)
  BY DEF Film!Commit
<1> QED
  BY <1>1, <1>2 DEF ShelvesInv

LEMMA RollBackKeeps ==
  ASSUME ShelvesInv, NEW t \in Threads, Film!RollBack(t), careless' = (careless \/ Film!Careless')
  PROVE  ShelvesInv'
<1>1. /\ UNCHANGED <<on, reviews, sh_torn>> /\ sh_stale' = sh_stale \ {t}
          /\ sh_job' = [sh_job EXCEPT ![t] = Film!Idle]
  BY DEF Film!RollBack, Film!Finished, Film!tables
<1>2. Film!Idle \in ShelfJobs /\ Film!Idle.drop = 0 /\ Film!Idle.review = 0 /\ Film!Idle.op = "idle"
  BY ReviewBound DEF Film!Idle, ShelfJobs, Requests
<1>3. sh_job' \in [Threads -> ShelfJobs] /\ sh_job'[t] = Film!Idle /\ \A x \in Threads : x # t =>
        sh_job'[x] = sh_job[x]
  BY <1>1, <1>2 DEF ShelvesInv, ShelvesTyped
<1>4. Cardinality(Posters') <= Cardinality(Film!Unused')
  <2>1. Posters' = Posters \ {t} /\ Film!Unused' = Film!Unused
    BY <1>1, <1>2, <1>3 DEF Posters, Posting, Film!Unused
  <2>2. PICK m, k \in Nat : m = Cardinality(Posters) /\ k = Cardinality(Film!Unused) /\ m <= k
    BY PostersAreFew DEF ShelvesInv, ShelvesTyped
  <2>3. Cardinality(Posters \ {t}) \in {m, m - 1}
    BY <2>2, PostersAreFew, FS_RemoveElement
  <2> QED
    BY <2>1, <2>2, <2>3
<1>5. \E n \in Nat :
      /\ \A s \in Film!Shelves : on'[s] <= n
      /\ \A x \in Threads : sh_job'[x].drop <= n
  <2>1. PICK n \in Nat :
        /\ \A s \in Film!Shelves : on[s] <= n
        /\ \A x \in Threads : sh_job[x].drop <= n
    BY DEF ShelvesInv, ShelvesTyped
  <2> QED
    BY <1>1, <1>2, <1>3, <2>1
<1>6. ShelvesTyped'
  BY <1>1, <1>2, <1>3, <1>4, <1>5 DEF ShelvesInv, ShelvesTyped
<1>7. ASSUME NEW x \in Threads \ sh_stale' PROVE Knowing(x)'
  <2>1. CASE x = t
    BY <1>2, <1>3, <2>1 DEF Knowing
  <2>2. CASE x # t
    <3>1. Knowing(x) /\ sh_job'[x] = sh_job[x]
      BY <1>1, <1>3, <1>7, <2>2 DEF ShelvesInv
    <3> QED
      BY <1>1, <3>1, SameKnown DEF Knowing
  <2> QED
    BY <2>1, <2>2
<1>8. (OneStatus' <=> OneStatus) /\ (OneReview' <=> OneReview)
  BY <1>1 DEF OneStatus, OneReview, Film!Live
<1> QED
  BY <1>1, <1>6, <1>7, <1>8 DEF ShelvesInv

LEMMA BeginKeepsShelves ==
  ASSUME ShelvesInv, NEW t \in Threads, NEW j \in ShelfJobs, Film!Begin(t, j),
         careless' = (careless \/ Film!Careless'),
         j.drop = 0 \/ \E s \in Film!Shelves : j.drop = on[s],
         j.op \in Posting => Film!ReviewsLeft,
         j.review # 0 => reviews[j.review] # "none",
         j.op \in {"edit", "delete"} => j.review # 0,
         j.op \in {"shelve", "put", "import"} => j.shelf \in Film!Shelves,
         Knowing(t)'
  PROVE  ShelvesInv'
<1>1. /\ UNCHANGED <<on, reviews, sh_torn, sh_stale>> /\ sh_job' = [sh_job EXCEPT ![t] = j]
          /\ sh_job[t] = Film!Idle
  BY DEF Film!Begin, Film!tables
<1>3. sh_job' \in [Threads -> ShelfJobs] /\ sh_job'[t] = j /\ \A x \in Threads : x # t =>
        sh_job'[x] = sh_job[x]
  BY <1>1 DEF ShelvesInv, ShelvesTyped
<1>4. Cardinality(Posters') <= Cardinality(Film!Unused')
  <2>1. Film!Unused' = Film!Unused /\ t \notin Film!Busy
    BY <1>1 DEF Film!Unused, Film!Busy
  <2>2. PICK m, k, b \in Nat : m = Cardinality(Posters) /\ k = Cardinality(Film!Unused)
                               /\ b = Cardinality(Film!Busy) /\ m <= k /\ m <= b
    BY PostersAreFew DEF ShelvesInv, ShelvesTyped
  <2>3. CASE j.op \in Posting
    <3>1. Posters' = Posters \cup {t} /\ t \notin Posters
      BY <1>1, <1>3, <2>1, <2>3, PostersAreFew DEF Posters
    <3>2. Cardinality(Posters') = m + 1
      BY <2>2, <3>1, PostersAreFew, FS_AddElement
    <3>3. k > b
      BY <2>2, <2>3, SameCount DEF Film!ReviewsLeft
    <3> QED
      BY <2>1, <2>2, <3>2, <3>3
  <2>4. CASE j.op \notin Posting
    <3>1. Posters' = Posters
      BY <1>1, <1>3, <2>1, <2>4, PostersAreFew DEF Posters
    <3> QED
      BY <2>1, <2>2, <3>1
  <2> QED
    BY <2>3, <2>4
<1>5. \E n \in Nat :
      /\ \A s \in Film!Shelves : on'[s] <= n
      /\ \A x \in Threads : sh_job'[x].drop <= n
  <2>1. PICK n \in Nat :
        /\ \A s \in Film!Shelves : on[s] <= n
        /\ \A x \in Threads : sh_job[x].drop <= n
    BY DEF ShelvesInv, ShelvesTyped
  <2>2. j.drop <= n
    BY <2>1
  <2> QED
    BY <1>1, <1>3, <2>1, <2>2
<1>6. ShelvesTyped'
  <2>1. \A x \in Threads : /\ sh_job'[x].review # 0 => reviews'[sh_job'[x].review] # "none"
                           /\ sh_job'[x].op \in {"edit", "delete"} => sh_job'[x].review # 0
                           /\ sh_job'[x].op \in {"shelve", "put", "import"} =>
                                sh_job'[x].shelf \in Film!Shelves
    BY <1>1, <1>3 DEF ShelvesInv, ShelvesTyped
  <2> QED
    BY <1>1, <1>3, <1>4, <1>5, <2>1 DEF ShelvesInv, ShelvesTyped
<1>7. ASSUME NEW x \in Threads \ sh_stale', x # t PROVE Knowing(x)'
  <2>1. Knowing(x) /\ sh_job'[x] = sh_job[x]
    BY <1>1, <1>3, <1>7 DEF ShelvesInv
  <2> QED
    BY <1>1, <2>1, SameKnown DEF Knowing
<1>8. (OneStatus' <=> OneStatus) /\ (OneReview' <=> OneReview)
  BY <1>1 DEF OneStatus, OneReview, Film!Live
<1> QED
  BY <1>1, <1>6, <1>7, <1>8 DEF ShelvesInv

-----------------------------------------------------------------------------
\* Every request begins with what it has read.
LEMMA IdleFields == /\ Film!Idle.op = "idle" /\ Film!Idle.shelf = Film!NoShelf /\ Film!Idle.drop = 0
                    /\ Film!Idle.from = Film!NoShelf /\ Film!Idle.review = 0
BY DEF Film!Idle

LEMMA ReadingBegins ==
  ASSUME ShelvesInv, careless' = (careless \/ Film!Careless'), NEW t \in Threads,
         NEW shelf \in Film!Status, NEW from \in Custom \cup {Film!NoShelf},
         Film!ReadingBegin(t, shelf, from)
  PROVE  ShelvesInv'
<1>1. PICK j : /\ j = [op |-> IF shelf = Film!Watched THEN "finish" ELSE "want",
                       shelf |-> shelf, drop |-> Film!CurrentRow, from |-> from,
                       review |-> IF shelf = Film!Watched THEN Film!ExistingReview ELSE 0]
               /\ Film!Begin(t, j) /\ Film!ReviewsLeft
  BY DEF Film!ReadingBegin
<1>2. j.op \in {"finish", "want"} /\ j.drop = Film!CurrentRow
       /\ (j.op = "finish" => j.review = Film!ExistingReview)
      /\ j.review \in {0, Film!ExistingReview}
  BY <1>1
<1>3. ShelvesTyped
  BY DEF ShelvesInv
<1>4. j \in ShelfJobs
  <2>1. Film!CurrentRow \in Nat /\ Film!ExistingReview \in 0 .. MaxReview /\ 0 \in 0 .. MaxReview
    BY <1>3, CurrentIs, FoundReview, ReviewBound
  <2>2. shelf \in Film!Shelves \cup {Film!NoShelf} /\ from \in Film!Shelves \cup {Film!NoShelf}
    BY DEF Film!Shelves
  <2> QED
    BY <1>1, <2>1, <2>2 DEF ShelfJobs, Requests, Posting
<1>5. /\ j.drop = 0 \/ \E s \in Film!Shelves : j.drop = on[s]
      /\ j.review # 0 => reviews[j.review] # "none"
  <2>1. Film!ExistingReview # 0 => reviews[Film!ExistingReview] = "live"
    BY <1>3, FoundReview DEF Film!Live
  <2> QED
    BY <1>2, <1>3, <2>1, CurrentIs
<1>6. Knowing(t)'
  <2>1. UNCHANGED <<on, reviews>> /\ sh_job'[t] = j
    BY <1>1, <1>3 DEF Film!Begin, Film!tables, ShelvesTyped
  <2> QED
    BY <1>2, <2>1, SameKnown DEF Knowing
<1> QED
  BY <1>1, <1>2, <1>4, <1>5, <1>6, BeginKeepsShelves

LEMMA ShelveBegins ==
  ASSUME ShelvesInv, careless' = (careless \/ Film!Careless'), NEW t \in Threads,
         NEW shelf \in Film!Shelves, NEW from \in Film!Shelves \cup {Film!NoShelf},
         Film!ShelveBegin(t, shelf, from)
  PROVE  ShelvesInv'
<1>1. PICK j : /\ j = [op |-> "shelve", shelf |-> shelf, review |-> 0, from |-> from,
                       drop |-> IF shelf \in Custom
                        \/ Film!Current = from THEN 0 ELSE Film!CurrentRow]
               /\ Film!Begin(t, j)
  BY DEF Film!ShelveBegin
<1>2. /\ j.op = "shelve" /\ j.review = 0 /\ j.shelf = shelf /\ j.from = from
      /\ j.drop = IF shelf \in Custom \/ Film!Current = from THEN 0 ELSE Film!CurrentRow
  BY <1>1
<1>3. ShelvesTyped
  BY DEF ShelvesInv
<1>4. j \in ShelfJobs
  <2>1. Film!CurrentRow \in Nat /\ 0 \in 0 .. MaxReview
    BY <1>3, CurrentIs, ReviewBound
  <2> QED
    BY <1>1, <2>1 DEF ShelfJobs, Requests, Posting
<1>5. j.drop = 0 \/ \E s \in Film!Shelves : j.drop = on[s]
  BY <1>2, <1>3, CurrentIs
<1>6. Knowing(t)'
  <2>1. UNCHANGED <<on, reviews>> /\ sh_job'[t] = j
    BY <1>1, <1>3 DEF Film!Begin, Film!tables, ShelvesTyped
  <2>2. shelf \in Film!Status => shelf \notin Custom
    BY ClubAssumption DEF Film!ShelfAssumption
  <2> QED
    BY <1>2, <2>1, <2>2, SameKnown DEF Knowing
<1> QED
  BY <1>1, <1>2, <1>4, <1>5, <1>6, BeginKeepsShelves DEF Posting

Are(j, op, shelf, drop, review) ==
  /\ j = [op |-> j.op, shelf |-> j.shelf, drop |-> j.drop, from |-> j.from, review |-> j.review]
  /\ j.op = op /\ j.shelf = shelf /\ j.drop = drop /\ j.from = Film!NoShelf /\ j.review = review

LEMMA RecordsOfRequests ==
  ASSUME NEW op, NEW shelf, NEW drop, NEW review
  PROVE  /\ Are([Film!Idle EXCEPT !.op = op], op, Film!NoShelf, 0, 0)
         /\ Are([Film!Idle EXCEPT !.op = op, !.shelf = shelf], op, shelf, 0, 0)
         /\ Are([Film!Idle EXCEPT !.op = op, !.drop = drop], op, Film!NoShelf, drop, 0)
         /\ Are([Film!Idle EXCEPT !.op = op, !.review = review], op, Film!NoShelf, 0, review)
<1>1. ASSUME NEW j, j = [Film!Idle EXCEPT !.op = op] PROVE Are(j, op, Film!NoShelf, 0, 0)
  BY <1>1 DEF Film!Idle, Are
<1>2. ASSUME NEW j, j = [Film!Idle EXCEPT !.op = op, !.shelf = shelf] PROVE Are(j, op, shelf, 0, 0)
  BY <1>2 DEF Film!Idle, Are
<1>3. ASSUME NEW j, j = [Film!Idle EXCEPT !.op = op, !.drop = drop]
      PROVE  Are(j, op, Film!NoShelf, drop, 0)
  BY <1>3 DEF Film!Idle, Are
<1>4. ASSUME NEW j, j = [Film!Idle EXCEPT !.op = op, !.review = review]
      PROVE  Are(j, op, Film!NoShelf, 0, review)
  BY <1>4 DEF Film!Idle, Are
<1> QED
  BY <1>1, <1>2, <1>3, <1>4

\* The requests that read one row or one review.
LEMMA SmallBegins ==
  ASSUME ShelvesInv, careless' = (careless \/ Film!Careless'), NEW t \in Threads, NEW j,
         Film!Begin(t, j),
         NEW op, NEW shelf, NEW drop, NEW review,
         Are(j, op, shelf, drop, review),
         op \in {"unshelve", "put", "edit", "delete", "import", "review", "rate"},
         op \in Posting => Film!ReviewsLeft,
         shelf \in Film!Shelves \cup {Film!NoShelf}, op \in {"put", "import"} =>
           shelf \in Film!Shelves,
         drop = 0 \/ \E s \in Film!Shelves : drop = on[s],
         review \in 0 .. MaxReview,
         review = 0 <=> op \notin {"edit", "delete"},
         review # 0 => reviews[review] = "live",
         op = "review" => Film!Live(reviews) = {}
  PROVE  ShelvesInv'
<1>1. /\ j = [op |-> j.op, shelf |-> j.shelf, drop |-> j.drop, from |-> j.from, review |-> j.review]
      /\ j.op = op /\ j.shelf = shelf /\ j.drop = drop /\ j.from = Film!NoShelf /\ j.review = review
  BY DEF Are
<1>2. ShelvesTyped
  BY DEF ShelvesInv
<1>3. j \in ShelfJobs
  <2>1. drop \in Nat
    BY <1>2 DEF ShelvesTyped
  <2>2. op \in Requests
    BY DEF Requests, Posting
  <2> QED
    BY <1>1, <2>1, <2>2 DEF ShelfJobs
<1>4. Knowing(t)'
  <2>1. UNCHANGED <<on, reviews>> /\ sh_job'[t] = j
    BY <1>2 DEF Film!Begin, Film!tables, ShelvesTyped
  <2>2. Film!Live(reviews)' = Film!Live(reviews)
    BY <2>1, SameKnown
  <2> QED
    BY <1>1, <2>1, <2>2 DEF Knowing
<1>5. (review # 0 => reviews[review] # "none") /\ (op \in {"edit", "delete"} => review # 0)
  OBVIOUS
<1> QED
  BY <1>1, <1>3, <1>4, <1>5, BeginKeepsShelves

LEMMA OthersBegin ==
  ASSUME ShelvesInv, careless' = (careless \/ Film!Careless'), NEW t \in Threads,
         \/ \E s \in Film!Shelves : Film!UnshelveBegin(t, s) \/ Film!StartBegin(t, s)
         \/ \E i \in 1 .. MaxReview : Film!EditBegin(t, i) \/ Film!DeleteBegin(t, i)
         \/ \E rated \in BOOLEAN : Film!ImportBegin(t, rated)
         \/ Film!QuickBegin(t) \/ Film!ReviewBegin(t) \/ Film!RateBegin(t)
  PROVE  ShelvesInv'
<1>1. 0 \in 0 .. MaxReview /\ \A i \in 1 .. MaxReview : i \in 0 .. MaxReview /\ i # 0
  BY ReviewBound
<1>2. ASSUME NEW s \in Film!Shelves, Film!UnshelveBegin(t, s) PROVE ShelvesInv'
  <2>1. Film!Begin(t, [Film!Idle EXCEPT !.op = "unshelve", !.drop = on[s]])
    BY <1>2 DEF Film!UnshelveBegin
  <2>2. Are([Film!Idle EXCEPT !.op = "unshelve", !.drop = on[s]],
            "unshelve", Film!NoShelf, on[s], 0)
    BY RecordsOfRequests
  <2> QED
    BY <1>1, <2>1, <2>2, SmallBegins, ReviewBound DEF Posting
<1>3. ASSUME NEW s \in Film!Shelves, Film!StartBegin(t, s) PROVE ShelvesInv'
  <2>1. Film!Begin(t, [Film!Idle EXCEPT !.op = "put", !.shelf = s])
    BY <1>3 DEF Film!StartBegin
  <2>2. Are([Film!Idle EXCEPT !.op = "put", !.shelf = s], "put", s, 0, 0)
    BY RecordsOfRequests
  <2> QED
    BY <1>1, <2>1, <2>2, SmallBegins, ReviewBound DEF Posting
<1>4. ASSUME NEW i \in 1 .. MaxReview, Film!EditBegin(t, i) PROVE ShelvesInv'
  <2>1. Film!Begin(t, [Film!Idle EXCEPT !.op = "edit", !.review = i]) /\ reviews[i] = "live"
    BY <1>4 DEF Film!EditBegin
  <2>2. Are([Film!Idle EXCEPT !.op = "edit", !.review = i], "edit", Film!NoShelf, 0, i)
    BY RecordsOfRequests
  <2> QED
    BY <1>1, <2>1, <2>2, SmallBegins, ReviewBound DEF Posting
<1>5. ASSUME NEW i \in 1 .. MaxReview, Film!DeleteBegin(t, i) PROVE ShelvesInv'
  <2>1. Film!Begin(t, [Film!Idle EXCEPT !.op = "delete", !.review = i]) /\ reviews[i] = "live"
    BY <1>5 DEF Film!DeleteBegin
  <2>2. Are([Film!Idle EXCEPT !.op = "delete", !.review = i], "delete", Film!NoShelf, 0, i)
    BY RecordsOfRequests
  <2> QED
    BY <1>1, <2>1, <2>2, SmallBegins, ReviewBound DEF Posting
<1>6. ASSUME NEW rated \in BOOLEAN, Film!ImportBegin(t, rated) PROVE ShelvesInv'
  <2>0. PICK s : s = IF rated THEN Film!Watched ELSE Film!Watchlist
    OBVIOUS
  <2>1. Film!Begin(t, [Film!Idle EXCEPT !.op = "import", !.shelf = s]) /\ Film!ReviewsLeft
         /\ s \in Film!Shelves
    BY <1>6, <2>0, ReviewBound DEF Film!ImportBegin
  <2>2. Are([Film!Idle EXCEPT !.op = "import", !.shelf = s], "import", s, 0, 0)
    BY RecordsOfRequests
  <2> QED
    BY <1>1, <2>1, <2>2, SmallBegins, ReviewBound DEF Posting
<1>7. CASE Film!QuickBegin(t)
  <2>1. Film!Begin(t, [Film!Idle EXCEPT !.op = "put", !.shelf = Film!Watchlist])
    BY <1>7 DEF Film!QuickBegin
  <2>2. Are([Film!Idle EXCEPT !.op = "put", !.shelf = Film!Watchlist], "put", Film!Watchlist, 0, 0)
    BY RecordsOfRequests
  <2> QED
    BY <1>1, <2>1, <2>2, SmallBegins, ReviewBound DEF Posting
<1>8. CASE Film!ReviewBegin(t)
  <2>1. Film!Begin(t, [Film!Idle EXCEPT !.op = "review"]) /\ Film!ReviewsLeft
         /\ Film!Live(reviews) = {}
    BY <1>8 DEF Film!ReviewBegin, Film!MayReview
  <2>2. Are([Film!Idle EXCEPT !.op = "review"], "review", Film!NoShelf, 0, 0)
    BY RecordsOfRequests
  <2> QED
    BY <1>1, <2>1, <2>2, SmallBegins, ReviewBound DEF Posting
<1>9. CASE Film!RateBegin(t)
  <2>1. Film!Begin(t, [Film!Idle EXCEPT !.op = "rate"]) /\ Film!ReviewsLeft
    BY <1>9 DEF Film!RateBegin
  <2>2. Are([Film!Idle EXCEPT !.op = "rate"], "rate", Film!NoShelf, 0, 0)
    BY RecordsOfRequests
  <2> QED
    BY <1>1, <2>1, <2>2, SmallBegins, ReviewBound DEF Posting
<1> QED
  BY <1>2, <1>3, <1>4, <1>5, <1>6, <1>7, <1>8, <1>9

-----------------------------------------------------------------------------
\* What a commit makes of the shelves and of the reviews.
LEMMA FewerRows ==
  ASSUME ShelvesTyped, NEW o \in [Film!Shelves -> Nat],
         \A s \in Film!Shelves : o[s] \in {0, on[s]}, NEW k
  PROVE  Film!Without(o, k) \in [Film!Shelves -> Nat] /\ \A s \in Film!Shelves :
    Film!Without(o, k)[s] \in {0, on[s]}
BY DEF Film!Without

LEMMA OneRow ==
  ASSUME ShelvesTyped, NEW o \in [Film!Shelves -> Nat], \A s \in Film!Shelves : o[s] \in {0, on[s]},
         NEW s \in Film!Shelves
  PROVE  /\ [o EXCEPT ![s] = Film!row] \in [Film!Shelves -> Nat]
         /\ \A x \in Film!Shelves : [o EXCEPT ![s] = Film!row][x] \in {0, on[x], Film!row}
BY RowIsNew

\* The film stays on one status shelf if it leaves both, or gets on neither.
LEMMA StatusKept ==
  ASSUME NEW o \in [Film!Shelves -> Nat], on' = o, NEW s \in Film!Shelves,
         \/ \A x \in Film!Status : x # s => o[x] = 0
         \/ OneStatus /\ \A x \in Film!Status : o[x] \in {0, on[x]}
  PROVE  OneStatus'
<1>1. Film!Watchlist \in Film!Status /\ Film!Watched \in Film!Status
       /\ Film!Watchlist # Film!Watched
  BY ReviewBound DEF Film!Status
<1> QED
  BY <1>1 DEF OneStatus

LEMMA ReviewKept ==
  ASSUME ShelvesTyped, NEW p \in 1 .. MaxReview, OneReview,
         \/ reviews' = reviews
         \/ reviews' = [reviews EXCEPT ![p] = "deleted"]
         \/ reviews' = [reviews EXCEPT ![p] = "live"]
             /\ (Film!Live(reviews) = {} \/ p \in Film!Live(reviews))
  PROVE  OneReview'
<1>1. CASE reviews' = reviews
  BY <1>1 DEF OneReview, Film!Live
<1>2. CASE reviews' = [reviews EXCEPT ![p] = "deleted"]
  <2>1. Film!Live(reviews)' \subseteq Film!Live(reviews)
    BY <1>2 DEF Film!Live, ShelvesTyped
  <2>2. Film!Live(reviews') = Film!Live(reviews)'
    OBVIOUS
  <2> QED
    BY <2>1 DEF OneReview
<1>3. CASE reviews' = [reviews EXCEPT ![p] = "live"]
       /\ (Film!Live(reviews) = {} \/ p \in Film!Live(reviews))
  <2>1. Film!Live(reviews)' \subseteq Film!Live(reviews) \cup {p}
    BY <1>3 DEF Film!Live, ShelvesTyped
  <2>2. \A i \in Film!Live(reviews)' : i = p
    BY <1>3, <2>1 DEF OneReview
  <2> QED
    BY <2>2 DEF OneReview
<1> QED
  BY <1>1, <1>2, <1>3

\* A request and the thread that handles it.
LEMMA JobTyped ==
  ASSUME ShelvesInv, NEW t \in Threads
  PROVE  /\ sh_job[t].op \in Requests /\ sh_job[t].shelf \in Film!Shelves \cup {Film!NoShelf}
         /\ sh_job[t].from \in Film!Shelves \cup {Film!NoShelf} /\ sh_job[t].drop \in Nat
         /\ sh_job[t].review \in 0 .. MaxReview
         /\ sh_job[t].review # 0 =>
              sh_job[t].review \in 1 .. MaxReview /\ sh_job[t].review \notin Film!Unused
         /\ sh_job[t].op \in {"edit", "delete"} => sh_job[t].review # 0
         /\ sh_job[t].op \in {"shelve", "put", "import"} => sh_job[t].shelf \in Film!Shelves
         /\ sh_job[t].op \in {"put", "import", "rate"} => careless
         /\ t \notin sh_stale => Knowing(t)
<1>1. sh_job[t] \in ShelfJobs /\ ShelvesTyped
  BY DEF ShelvesInv, ShelvesTyped
<1>2. sh_job[t].review \in 0 .. MaxReview
  BY <1>1 DEF ShelfJobs
<1>3. sh_job[t].review # 0 => sh_job[t].review \in 1 .. MaxReview
  BY <1>2, ReviewBound
<1>4. sh_job[t].review # 0 => reviews[sh_job[t].review] # "none"
  BY <1>1 DEF ShelvesTyped
<1>5. sh_job[t].op \in {"put", "import", "rate"} => careless
  BY DEF ShelvesInv, Film!Careless
<1>6. t \notin sh_stale => Knowing(t)
  BY DEF ShelvesInv
<1> QED
  BY <1>1, <1>2, <1>3, <1>4, <1>5, <1>6 DEF ShelfJobs, ShelvesTyped, Film!Unused

LEMMA FinishKeeps ==
  ASSUME ShelvesInv, careless' = (careless \/ Film!Careless'), NEW t \in Threads, Film!Finish(t)
  PROVE  ShelvesInv'
<1> DEFINE o == Film!Without(on, sh_job[t].drop)
<1>1. ShelvesTyped /\ on \in [Film!Shelves -> Nat]
  BY DEF ShelvesInv, ShelvesTyped
<1>2. sh_job[t].op = "finish" /\ t \in Posters
  BY DEF Film!Finish, Posters, Posting
<1>3. Film!Watched \in Film!Shelves /\ Film!Watched \in Film!Status
  BY ReviewBound DEF Film!Status
<1>4. o \in [Film!Shelves -> Nat] /\ \A s \in Film!Shelves : o[s] \in {0, on[s]}
  BY <1>1, FewerRows
<1>5. CASE Film!RollBack(t)
  BY <1>5, RollBackKeeps
<1>6. ASSUME NEW q, q = [o EXCEPT ![Film!Watched] = Film!row], NEW r,
             r = [reviews EXCEPT ![Film!Posted(t)] = "live"],
             Film!Commit(t, q, r)
      PROVE  ShelvesInv'
  <2>1. Film!Posted(t) \in 1 .. MaxReview
    <3>1. Film!Min(Film!Unused) \in 1 .. MaxReview
      BY <1>1, <1>2, LeastUnused DEF Film!Unused
    <3> QED
      BY <3>1, JobTyped DEF Film!Posted
  <2>2. q \in [Film!Shelves -> Nat] /\ \A s \in Film!Shelves : q[s] \in {0, on[s], Film!row}
    BY <1>1, <1>3, <1>4, <1>6, OneRow
  <2>3. Shape(t, q, r)
    BY <1>2, <1>6, <2>1, <2>2 DEF Shape
  <2>4. on' = q /\ reviews' = r
    BY <1>6 DEF Film!Commit
  <2>5. ASSUME t \notin sh_stale, OneStatus, OneReview PROVE OneStatus' /\ OneReview'
    <3>1. sh_job[t].drop = Film!CurrentRow /\ sh_job[t].review = Film!ExistingReview
      BY <1>2, <2>5, JobTyped DEF Knowing
    <3>2. \A s \in Film!Status : o[s] = 0
      BY <1>1, <2>5, <3>1, WithoutCurrent
    <3>3. \A s \in Film!Status : s # Film!Watched => q[s] = 0
      <4>1. \A s \in Film!Status : s \in Film!Shelves
        BY DEF Film!Shelves
      <4> QED
        BY <1>4, <1>6, <3>2, <4>1
    <3>4. OneStatus'
      BY <1>3, <2>2, <2>4, <3>3, StatusKept
    <3>5. Film!Live(reviews) = {} \/ Film!Posted(t) \in Film!Live(reviews)
      BY <1>1, <3>1, FoundReview DEF Film!Posted
    <3> QED
      BY <1>1, <1>6, <2>1, <2>4, <2>5, <3>4, <3>5, ReviewKept
  <2> QED
    BY <1>6, <2>3, <2>5, CommitKeeps
<1> QED
  BY <1>5, <1>6 DEF Film!Finish

LEMMA WantKeeps ==
  ASSUME ShelvesInv, careless' = (careless \/ Film!Careless'), NEW t \in Threads, Film!Want(t)
  PROVE  ShelvesInv'
<1> DEFINE w == Film!Without(on, sh_job[t].drop)
           o == [w EXCEPT ![Film!Watchlist] = Film!row]
           moves == sh_job[t].from # Film!NoShelf /\ sh_job[t].drop # 0
<1>1. ShelvesTyped /\ on \in [Film!Shelves -> Nat]
  BY DEF ShelvesInv, ShelvesTyped
<1>2. sh_job[t].op = "want"
  BY DEF Film!Want
<1>3. Film!Watchlist \in Film!Shelves /\ Film!Watchlist \in Film!Status
  BY ReviewBound DEF Film!Status
<1>4. w \in [Film!Shelves -> Nat] /\ \A s \in Film!Shelves : w[s] \in {0, on[s]}
  BY <1>1, FewerRows
<1>5. CASE Film!RollBack(t)
  BY <1>5, RollBackKeeps
<1>6. ASSUME NEW q, q = (IF moves THEN [o EXCEPT ![sh_job[t].from] = 0] ELSE o),
             Film!Commit(t, q, reviews)
      PROVE  ShelvesInv'
  <2>1. o \in [Film!Shelves -> Nat] /\ \A s \in Film!Shelves : o[s] \in {0, on[s], Film!row}
    BY <1>1, <1>3, <1>4, OneRow
  <2>2. moves => sh_job[t].from \in Film!Shelves
    BY JobTyped
  <2>3. q \in [Film!Shelves -> Nat] /\ \A s \in Film!Shelves : q[s] \in {0, o[s]}
    <3> HIDE DEF o, moves
    <3> QED
      BY <1>6, <2>1, <2>2
  <2>4. Shape(t, q, reviews)
    <3> HIDE DEF o, moves
    <3> QED
      BY <2>1, <2>3 DEF Shape
  <2>5. on' = q /\ reviews' = reviews
    BY <1>6 DEF Film!Commit
  <2>6. ASSUME t \notin sh_stale, OneStatus, OneReview PROVE OneStatus' /\ OneReview'
    <3>1. sh_job[t].drop = Film!CurrentRow
      BY <1>2, <2>6, JobTyped DEF Knowing
    <3>2. \A s \in Film!Status : w[s] = 0
      BY <1>1, <2>6, <3>1, WithoutCurrent
    <3>3. \A s \in Film!Status : s # Film!Watchlist => q[s] = 0
      <4>1. \A s \in Film!Status : s \in Film!Shelves
        BY DEF Film!Shelves
      <4>2. \A s \in Film!Shelves : s # Film!Watchlist => o[s] = w[s]
        BY <1>4
      <4> HIDE DEF o, w
      <4> QED
        BY <2>3, <3>2, <4>1, <4>2
    <3>4. OneStatus'
      BY <1>3, <2>3, <2>5, <3>3, StatusKept
    <3> QED
      BY <2>5, <2>6, <3>4 DEF OneReview, Film!Live
  <2> QED
    BY <1>6, <2>4, <2>6, CommitKeeps
<1> QED
  BY <1>5, <1>6 DEF Film!Want

LEMMA ShelveKeeps ==
  ASSUME ShelvesInv, careless' = (careless \/ Film!Careless'), NEW t \in Threads, Film!Shelve(t)
  PROVE  ShelvesInv'
<1> DEFINE left == IF sh_job[t].from = Film!NoShelf THEN on ELSE [on EXCEPT ![sh_job[t].from] = 0]
           o == Film!Without(left, sh_job[t].drop)
<1>1. ShelvesTyped /\ on \in [Film!Shelves -> Nat]
  BY DEF ShelvesInv, ShelvesTyped
<1>2. sh_job[t].op = "shelve" /\ sh_job[t].shelf \in Film!Shelves
  BY JobTyped DEF Film!Shelve
<1>3. left \in [Film!Shelves -> Nat] /\ \A s \in Film!Shelves : left[s] \in {0, on[s]}
  BY <1>1, JobTyped
<1>4. o \in [Film!Shelves -> Nat] /\ \A s \in Film!Shelves : o[s] \in {0, on[s]}
  <2> HIDE DEF left
  <2> QED
    BY <1>1, <1>3, FewerRows
<1>5. CASE Film!RollBack(t)
  BY <1>5, RollBackKeeps
<1>6. ASSUME NEW q, q = [o EXCEPT ![sh_job[t].shelf] = Film!row], Film!Commit(t, q, reviews)
      PROVE  ShelvesInv'
  <2>1. q \in [Film!Shelves -> Nat] /\ \A s \in Film!Shelves : q[s] \in {0, on[s], Film!row}
    <3> HIDE DEF o
    <3> QED
      BY <1>1, <1>2, <1>4, <1>6, OneRow
  <2>2. Shape(t, q, reviews)
    BY <2>1 DEF Shape
  <2>3. on' = q /\ reviews' = reviews
    BY <1>6 DEF Film!Commit
  <2>4. \A s \in Film!Status : s \in Film!Shelves
    BY DEF Film!Shelves
  <2>5. \A s \in Film!Shelves : s # sh_job[t].shelf => q[s] = o[s]
    <3> HIDE DEF o
    <3> QED
      BY <1>2, <1>4, <1>6
  <2>6. ASSUME t \notin sh_stale, OneStatus, OneReview PROVE OneStatus'
    <3>1. CASE sh_job[t].shelf \notin Film!Status
      <4>1. \A s \in Film!Status : q[s] \in {0, on[s]}
        <5> HIDE DEF o
        <5> QED
          BY <1>4, <2>4, <2>5, <3>1
      <4> QED
        BY <1>2, <2>1, <2>3, <2>6, <4>1, StatusKept
    <3>2. CASE sh_job[t].shelf \in Film!Status
      <4>1. sh_job[t].drop = IF Film!Current = sh_job[t].from THEN 0 ELSE Film!CurrentRow
        BY <1>2, <2>6, <3>2, JobTyped DEF Knowing
      <4>2. \A s \in Film!Status : o[s] = 0
        <5>1. CASE Film!Current # sh_job[t].from
          <6> HIDE DEF left
          <6> QED
            BY <1>1, <1>3, <2>6, <4>1, <5>1, WithoutCurrent
        <5>2. CASE Film!Current = sh_job[t].from
          <6>1. \A s \in Film!Status : s # Film!Current => on[s] = 0
            <7>1. Film!Status = {Film!Watchlist, Film!Watched}
              BY DEF Film!Status
            <7> QED
              BY <1>1, <2>6, <7>1, CurrentIs DEF OneStatus
          <6>2. \A s \in Film!Status : left[s] = 0
            BY <1>1, <2>4, <5>2, <6>1, CurrentIs, ReviewBound
          <6>3. \A s \in Film!Shelves : left[s] = 0 => o[s] = 0
            BY DEF Film!Without
          <6> HIDE DEF o, left
          <6> QED
            BY <2>4, <6>2, <6>3
        <5> QED
          BY <5>1, <5>2
      <4>3. \A s \in Film!Status : s # sh_job[t].shelf => q[s] = 0
        <5> HIDE DEF o
        <5> QED
          BY <2>4, <2>5, <4>2
      <4> QED
        BY <1>2, <2>1, <2>3, <4>3, StatusKept
    <3> QED
      BY <3>1, <3>2
  <2>7. OneReview => OneReview'
    BY <2>3 DEF OneReview, Film!Live
  <2> QED
    BY <1>6, <2>2, <2>6, <2>7, CommitKeeps
<1> QED
  BY <1>5, <1>6 DEF Film!Shelve

LEMMA UnshelveKeeps ==
  ASSUME ShelvesInv, careless' = (careless \/ Film!Careless'), NEW t \in Threads, Film!Unshelve(t)
  PROVE  ShelvesInv'
<1>1. ShelvesTyped /\ on \in [Film!Shelves -> Nat] /\ Film!Watchlist \in Film!Shelves
  BY ReviewBound DEF ShelvesInv, ShelvesTyped
<1>2. PICK o : o = Film!Without(on, sh_job[t].drop) /\ Film!Commit(t, o, reviews)
  BY DEF Film!Unshelve
<1>3. o \in [Film!Shelves -> Nat] /\ \A s \in Film!Shelves : o[s] \in {0, on[s]}
  BY <1>1, <1>2, FewerRows
<1>4. Shape(t, o, reviews)
  BY <1>3 DEF Shape
<1>5. on' = o /\ reviews' = reviews
  BY <1>2 DEF Film!Commit
<1>6. OneStatus => OneStatus'
  BY <1>1, <1>3, <1>5, StatusKept DEF Film!Shelves
<1>7. OneReview => OneReview'
  BY <1>5 DEF OneReview, Film!Live
<1> QED
  BY <1>2, <1>4, <1>6, <1>7, CommitKeeps

\* The careless ways need nothing but to be of the right type.
LEMMA CarelessKeeps ==
  ASSUME ShelvesInv, careless' = (careless \/ Film!Careless'), NEW t \in Threads,
         Film!Put(t) \/ Film!Import(t) \/ (Film!Review(t) /\ sh_job[t].op = "rate")
  PROVE  ShelvesInv'
<1>1. ShelvesTyped /\ on \in [Film!Shelves -> Nat] /\ (\A s \in Film!Shelves : on[s] \in {0, on[s]})
  BY DEF ShelvesInv, ShelvesTyped
<1>2. sh_job[t].op \in {"put", "import", "rate"} /\ careless
  BY JobTyped DEF Film!Put, Film!Import
<1>3. CASE Film!RollBack(t)
  BY <1>3, RollBackKeeps
<1>4. ASSUME NEW o, NEW r, Film!Commit(t, o, r), Shape(t, o, r) PROVE ShelvesInv'
  BY <1>2, <1>4, CommitKeeps
<1>5. sh_job[t].op \in {"put", "import"} =>
        /\ sh_job[t].shelf \in Film!Shelves
            /\ [on EXCEPT ![sh_job[t].shelf] = Film!row] \in [Film!Shelves -> Nat]
        /\ \A x \in Film!Shelves :
             [on EXCEPT ![sh_job[t].shelf] = Film!row][x] \in {0, on[x], Film!row}
  BY <1>1, JobTyped, OneRow
<1>6. sh_job[t].op \in {"import", "rate"} =>
        t \in Posters /\ Film!Min(Film!Unused) \in 1 .. MaxReview
  <2>1. ASSUME sh_job[t].op \in {"import", "rate"} PROVE t \in Posters
    BY <2>1 DEF Posters, Posting
  <2> QED
    BY <1>1, <2>1, LeastUnused DEF Film!Unused
<1>7. CASE Film!Put(t)
  <2>1. CASE Film!Commit(t, [on EXCEPT ![sh_job[t].shelf] = Film!row], reviews)
    <3>1. Shape(t, [on EXCEPT ![sh_job[t].shelf] = Film!row], reviews)
      BY <1>5, <1>7 DEF Shape, Film!Put
    <3> QED
      BY <1>4, <2>1, <3>1
  <2> QED
    BY <1>3, <1>7, <2>1 DEF Film!Put
<1>8. CASE Film!Import(t)
  <2>1. CASE Film!Commit(t, [on EXCEPT ![sh_job[t].shelf] = Film!row], reviews)
    <3>1. Shape(t, [on EXCEPT ![sh_job[t].shelf] = Film!row], reviews)
      BY <1>5, <1>8 DEF Shape, Film!Import
    <3> QED
      BY <1>4, <2>1, <3>1
  <2>2. CASE Film!Commit(t, [on EXCEPT ![sh_job[t].shelf] = Film!row],
                         [reviews EXCEPT ![Film!Min(Film!Unused)] = "live"])
    <3>1. Shape(t, [on EXCEPT ![sh_job[t].shelf] = Film!row],
                [reviews EXCEPT ![Film!Min(Film!Unused)] = "live"])
      BY <1>5, <1>6, <1>8 DEF Shape, Film!Import
    <3> QED
      BY <1>4, <2>2, <3>1
  <2> QED
    BY <1>3, <1>8, <2>1, <2>2 DEF Film!Import
<1>9. CASE Film!Review(t) /\ sh_job[t].op = "rate"
  <2>1. Shape(t, on, [reviews EXCEPT ![Film!Min(Film!Unused)] = "live"])
    BY <1>1, <1>6, <1>9 DEF Shape
  <2> QED
    BY <1>4, <1>9, <2>1 DEF Film!Review
<1> QED
  BY <1>7, <1>8, <1>9

\* Of a review only, which is written or deleted.
LEMMA ReviewsKeep ==
  ASSUME ShelvesInv, careless' = (careless \/ Film!Careless'), NEW t \in Threads,
         Film!Review(t) \/ Film!Edit(t) \/ Film!Delete(t)
  PROVE  ShelvesInv'
<1>1. ShelvesTyped /\ on \in [Film!Shelves -> Nat]
  BY DEF ShelvesInv, ShelvesTyped
<1>2. ASSUME NEW p \in 1 .. MaxReview, NEW x \in {"live", "deleted"},
             Film!Commit(t, on, [reviews EXCEPT ![p] = x]), t \in Posters \/ p \notin Film!Unused,
             \/ x = "deleted"
             \/ t \notin sh_stale => Film!Live(reviews) = {} \/ p \in Film!Live(reviews)
      PROVE  ShelvesInv'
  <2>1. PICK r : r = [reviews EXCEPT ![p] = x] /\ Film!Commit(t, on, r)
    BY <1>2
  <2>2. Shape(t, on, r)
    BY <1>1, <1>2, <2>1 DEF Shape
  <2>3. on' = on /\ reviews' = r
    BY <2>1 DEF Film!Commit
  <2>4. t \notin sh_stale /\ OneReview => OneReview'
    BY <1>1, <1>2, <2>1, <2>3, ReviewKept
  <2>5. OneStatus => OneStatus'
    BY <2>3 DEF OneStatus
  <2> QED
    BY <2>1, <2>2, <2>4, <2>5, CommitKeeps
<1>3. CASE Film!Review(t) /\ sh_job[t].op = "rate"
  BY <1>3, CarelessKeeps
<1>4. CASE Film!Review(t) /\ sh_job[t].op = "review"
  <2>1. t \in Posters
    BY <1>4 DEF Posters, Posting
  <2>2. Film!Min(Film!Unused) \in 1 .. MaxReview
    BY <1>1, <2>1, LeastUnused DEF Film!Unused
  <2>3. t \notin sh_stale => Film!Live(reviews) = {}
    BY <1>4, JobTyped DEF Knowing
  <2> QED
    BY <1>2, <1>4, <2>1, <2>2, <2>3 DEF Film!Review
<1>5. ASSUME sh_job[t].op \in {"edit", "delete"}
      PROVE  /\ sh_job[t].review \in 1 .. MaxReview /\ sh_job[t].review \notin Film!Unused
             /\ t \notin sh_stale => sh_job[t].review \in Film!Live(reviews)
  BY <1>5, JobTyped DEF Knowing, Film!Live
<1>6. CASE Film!Edit(t)
  BY <1>2, <1>5, <1>6 DEF Film!Edit
<1>7. CASE Film!Delete(t)
  BY <1>2, <1>5, <1>7 DEF Film!Delete
<1> QED
  BY <1>3, <1>4, <1>6, <1>7 DEF Film!Review

LEMMA StepKeepsShelves ==
  ASSUME ShelvesInv, Film!Next
  PROVE  ShelvesInv'
<1>1. PICK t \in Threads : Film!Step(t)
  BY DEF Film!Next
<1>2. careless' = (careless \/ Film!Careless')
  BY DEF Film!Next
<1>3. CASE \E s \in Film!Status, f \in Custom \cup {Film!NoShelf} : Film!ReadingBegin(t, s, f)
  BY <1>2, <1>3, ReadingBegins
<1>4. CASE \E s \in Film!Shelves, f \in Film!Shelves \cup {Film!NoShelf} : Film!ShelveBegin(t, s, f)
  BY <1>2, <1>4, ShelveBegins
<1>5. CASE \/ \E s \in Film!Shelves : Film!UnshelveBegin(t, s) \/ Film!StartBegin(t, s)
           \/ \E i \in 1 .. MaxReview : Film!EditBegin(t, i) \/ Film!DeleteBegin(t, i)
           \/ \E rated \in BOOLEAN : Film!ImportBegin(t, rated)
           \/ Film!QuickBegin(t) \/ Film!ReviewBegin(t) \/ Film!RateBegin(t)
  BY <1>2, <1>5, OthersBegin
<1>6. CASE Film!Finish(t) \/ Film!Want(t) \/ Film!Shelve(t) \/ Film!Unshelve(t)
  BY <1>2, <1>6, FinishKeeps, WantKeeps, ShelveKeeps, UnshelveKeeps
<1>7. CASE Film!Put(t) \/ Film!Import(t)
  BY <1>2, <1>7, CarelessKeeps
<1>8. CASE Film!Review(t) \/ Film!Edit(t) \/ Film!Delete(t)
  BY <1>2, <1>8, ReviewsKeep
<1> QED
  BY <1>1, <1>3, <1>4, <1>5, <1>6, <1>7, <1>8 DEF Film!Step

LEMMA ShelvesInit == Film!Init => ShelvesInv
<1> SUFFICES ASSUME Film!Init PROVE ShelvesInv
  OBVIOUS
<1>1. /\ on = [s \in Film!Shelves |-> 0] /\ reviews = [i \in 1 .. MaxReview |-> "none"]
      /\ sh_job = [t \in Threads |-> Film!Idle] /\ sh_stale = {} /\ sh_torn = FALSE
          /\ careless = FALSE
  BY DEF Film!Init
<1>2. Film!Idle \in ShelfJobs /\ Film!Idle.drop = 0 /\ Film!Idle.review = 0 /\ Film!Idle.op = "idle"
  BY ReviewBound DEF Film!Idle, ShelfJobs, Requests
<1>3. ShelvesTyped
  <2>1. Posters = {}
    BY <1>1, <1>2 DEF Posters, Posting
  <2>2. Cardinality(Posters) <= Cardinality(Film!Unused)
    BY <2>1, PostersAreFew, FS_EmptySet
  <2>3. /\ \A s \in Film!Shelves : on[s] <= 0
        /\ \A t \in Threads : sh_job[t].drop <= 0
        /\ 0 \in Nat
    BY <1>1, <1>2
  <2>4. on \in [Film!Shelves -> Nat] /\ sh_job \in [Threads -> ShelfJobs]
    BY <1>1, <1>2
  <2>5. \A t \in Threads : sh_job[t].review = 0 /\ sh_job[t].op = "idle"
    BY <1>1, <1>2
  <2> QED
    BY <1>1, <2>2, <2>3, <2>4, <2>5 DEF ShelvesTyped
<1>4. \A t \in Threads : Knowing(t) /\ sh_job[t].op = "idle"
  BY <1>1, <1>2 DEF Knowing
<1>5. OneStatus /\ Film!Live(reviews) = {}
  BY <1>1, ReviewBound DEF OneStatus, Film!Live
<1> QED
  BY <1>1, <1>3, <1>4, <1>5 DEF ShelvesInv, Film!Careless, OneReview

LEMMA ShelvesStutter == ShelvesInv /\ UNCHANGED Film!vars => ShelvesInv'
<1> SUFFICES ASSUME ShelvesInv, UNCHANGED Film!vars PROVE ShelvesInv'
  OBVIOUS
<1>1. UNCHANGED <<on, reviews, sh_job, sh_stale, sh_torn, careless>>
  BY DEF Film!vars
<1>2. Posters' = Posters /\ Film!Unused' = Film!Unused /\ (Film!Careless' <=> Film!Careless)
  BY <1>1 DEF Posters, Film!Unused, Film!Careless
<1>3. ShelvesTyped'
  BY <1>1, <1>2 DEF ShelvesInv, ShelvesTyped
<1>4. ASSUME NEW t \in Threads \ sh_stale' PROVE Knowing(t)'
  <2>1. Knowing(t)
    BY <1>1, <1>4 DEF ShelvesInv
  <2> QED
    BY <1>1, <2>1, SameKnown DEF Knowing
<1>5. (OneStatus' <=> OneStatus) /\ (OneReview' <=> OneReview)
  BY <1>1 DEF OneStatus, OneReview, Film!Live
<1> QED
  BY <1>1, <1>2, <1>3, <1>4, <1>5 DEF ShelvesInv

LEMMA AtMostOne ==
  ASSUME NEW S, \A x, y \in S : x = y
  PROVE  Cardinality(S) <= 1
<1>1. CASE S = {}
  BY <1>1, FS_EmptySet
<1>2. CASE S # {}
  <2>1. PICK x : S = {x}
    BY <1>2
  <2> QED
    BY <2>1, FS_Singleton
<1> QED
  BY <1>1, <1>2

LEMMA NoDuplicates == ShelvesInv => Film!OnlyTornDuplicates
<1> SUFFICES ASSUME ShelvesInv, ~sh_torn, ~careless
             PROVE  /\ Cardinality(Film!OnShelves(on) \cap Film!Status) <= 1
                    /\ Cardinality(Film!Live(reviews)) <= 1
  BY SameCount DEF Film!OnlyTornDuplicates
<1>1. OneStatus /\ OneReview
  BY DEF ShelvesInv
<1>2. \A x, y \in Film!OnShelves(on) \cap Film!Status : x = y
  BY <1>1 DEF OneStatus, Film!OnShelves, Film!Status
<1>3. \A x, y \in Film!Live(reviews) : x = y
  BY <1>1 DEF OneReview
<1> QED
  BY <1>2, <1>3, AtMostOne

\* A commit that makes a deleted review live again.
LEMMA Revives ==
  ASSUME ShelvesInv, NEW t \in Threads, Film!Step(t), NEW i \in 1 .. MaxReview,
         reviews[i] = "deleted", reviews'[i] # "deleted"
  PROVE  t \in sh_stale /\ sh_job[t].review = i /\ sh_job'[t] = Film!Idle
<1>1. ShelvesTyped
  BY DEF ShelvesInv
<1>2. ASSUME NEW o, Film!Commit(t, o, reviews) PROVE FALSE
  BY <1>2 DEF Film!Commit
<1>3. ASSUME NEW o, NEW p \in 1 .. MaxReview, Film!Commit(t, o, [reviews EXCEPT ![p] = "live"])
      PROVE  i = p /\ sh_job'[t] = Film!Idle
  BY <1>1, <1>3 DEF Film!Commit, Film!Finished, ShelvesTyped
<1>4. ASSUME t \in Posters
      PROVE  Film!Min(Film!Unused) \in 1 .. MaxReview /\ reviews[Film!Min(Film!Unused)] = "none"
  BY <1>1, <1>4, LeastUnused DEF Film!Unused
<1>5. reviews' # reviews
  BY DEF ShelvesInv, ShelvesTyped
<1>6. CASE Film!Finish(t)
  <2>1. PICK o : Film!Commit(t, o, [reviews EXCEPT ![Film!Posted(t)] = "live"])
    BY <1>5, <1>6 DEF Film!Finish, Film!RollBack, Film!tables
  <2>2. sh_job[t].op = "finish" /\ t \in Posters
    BY <1>6 DEF Film!Finish, Posters, Posting
  <2>3. Film!Posted(t) \in 1 .. MaxReview
    BY <1>4, <2>2, JobTyped DEF Film!Posted
  <2>4. i = Film!Posted(t) /\ sh_job'[t] = Film!Idle
    BY <1>3, <2>1, <2>3
  <2>5. sh_job[t].review # 0 /\ i = sh_job[t].review
    BY <1>4, <2>2, <2>4 DEF Film!Posted
  <2>6. t \notin sh_stale => sh_job[t].review = Film!ExistingReview
    BY <2>2, JobTyped DEF Knowing
  <2>7. Film!ExistingReview # 0 => reviews[Film!ExistingReview] = "live"
    BY <1>1, FoundReview DEF Film!Live
  <2> QED
    BY <2>4, <2>5, <2>6, <2>7
<1>7. CASE Film!Edit(t)
  <2>1. sh_job[t].op = "edit" /\ Film!Commit(t, on, [reviews EXCEPT ![sh_job[t].review] = "live"])
    BY <1>7 DEF Film!Edit
  <2>2. sh_job[t].review \in 1 .. MaxReview
    BY <2>1, JobTyped
  <2>3. i = sh_job[t].review /\ sh_job'[t] = Film!Idle
    BY <1>3, <2>1, <2>2
  <2>4. t \notin sh_stale => reviews[sh_job[t].review] = "live"
    BY <2>1, JobTyped DEF Knowing
  <2> QED
    BY <2>3, <2>4
<1>8. CASE Film!Review(t)
  <2>1. t \in Posters /\ Film!Commit(t, on, [reviews EXCEPT ![Film!Min(Film!Unused)] = "live"])
    BY <1>8 DEF Film!Review, Posters, Posting
  <2>2. i = Film!Min(Film!Unused) /\ reviews[Film!Min(Film!Unused)] = "none"
    BY <1>3, <1>4, <2>1
  <2> QED
    BY <2>2
<1>9. CASE Film!Import(t)
  <2>1. t \in Posters
    BY <1>9 DEF Film!Import, Posters, Posting
  <2>2. PICK o : Film!Commit(t, o, [reviews EXCEPT ![Film!Min(Film!Unused)] = "live"])
    BY <1>2, <1>5, <1>9 DEF Film!Import, Film!RollBack, Film!tables
  <2>3. i = Film!Min(Film!Unused) /\ reviews[Film!Min(Film!Unused)] = "none"
    BY <1>3, <1>4, <2>1, <2>2
  <2> QED
    BY <2>3
<1>10. CASE Film!Delete(t)
  <2>1. Film!Commit(t, on, [reviews EXCEPT ![sh_job[t].review] = "deleted"])
    BY <1>10 DEF Film!Delete
  <2> QED
    BY <1>1, <2>1 DEF Film!Commit, ShelvesTyped
<1>11. CASE Film!Want(t) \/ Film!Shelve(t) \/ Film!Unshelve(t) \/ Film!Put(t)
  BY <1>2, <1>5, <1>11 DEF Film!Want, Film!Shelve, Film!Unshelve, Film!Put, Film!RollBack,
     Film!tables
<1>12. CASE \/ \E s \in Film!Status, f \in Custom \cup {Film!NoShelf} : Film!ReadingBegin(t, s, f)
            \/ \E s \in Film!Shelves, f \in Film!Shelves \cup {Film!NoShelf} :
                 Film!ShelveBegin(t, s, f)
            \/ \E s \in Film!Shelves : Film!UnshelveBegin(t, s) \/ Film!StartBegin(t, s)
            \/ \E n \in 1 .. MaxReview : Film!EditBegin(t, n) \/ Film!DeleteBegin(t, n)
            \/ \E rated \in BOOLEAN : Film!ImportBegin(t, rated)
            \/ Film!QuickBegin(t) \/ Film!ReviewBegin(t) \/ Film!RateBegin(t)
  BY <1>5, <1>12 DEF Film!ReadingBegin, Film!ShelveBegin, Film!UnshelveBegin, Film!StartBegin,
     Film!EditBegin, Film!DeleteBegin,
                     Film!ImportBegin, Film!QuickBegin, Film!ReviewBegin, Film!RateBegin,
                     Film!Begin, Film!tables
<1> QED
  BY <1>6, <1>7, <1>8, <1>9, <1>10, <1>11, <1>12 DEF Film!Step


\* A behaviour is of shelves, or leaves them as they are.
LEMMA FilmKept ==
  /\ MCInit => ShelvesInv
  /\ ShelvesInv /\ [MCNext]_clubVars => ShelvesInv'
<1>1. ASSUME ShelvesInv, [MCNext]_clubVars PROVE ShelvesInv'
  <2>1. CASE Film!Next
    BY <1>1, <2>1, StepKeepsShelves
  <2>2. CASE UNCHANGED shelfVars
    BY <1>1, <2>2, ShelvesStutter DEF shelfVars, Film!vars, Film!tables
  <2> QED
    BY <1>1, <2>1, <2>2 DEF MCNext, clubVars
<1>2. MCInit => ShelvesInv
  BY ShelvesInit DEF MCInit
<1> QED
  BY <1>1, <1>2

\* A film is on one status shelf and has one review, unless a request wrote on
\* the strength of what another had changed, or came by a way that does not look
\* for duplicates (views/reading.py:78, views/status.py:92).
THEOREM DuplicatesTorn == MCSpec => []OnlyTornDuplicates
<1>1. ShelvesInv => OnlyTornDuplicates
  BY NoDuplicates DEF OnlyTornDuplicates
<1> QED
  BY FilmKept, <1>1, PTL DEF MCSpec

Revived == \A i \in 1 .. MaxReview : reviews[i] = "deleted" /\ reviews'[i] # "deleted"
                 => \E t \in sh_stale : sh_job[t].review = i /\ sh_job'[t] = Film!Idle

\* A deleted review comes back only by what was read before its deletion
\* (views/status.py:111).
THEOREM RevivedStale == MCSpec => OnlyStaleRevives
<1>1. ShelvesInv /\ [MCNext]_clubVars => [Revived]_(Film!vars)
  <2>1. ASSUME ShelvesInv, Film!Next PROVE Revived
    BY <2>1, Revives DEF Film!Next, Revived
  <2>2. UNCHANGED clubVars => UNCHANGED Film!vars
    BY DEF clubVars, shelfVars, Film!vars, Film!tables
  <2>3. UNCHANGED shelfVars => UNCHANGED Film!vars
    BY DEF shelfVars, Film!vars, Film!tables
  <2> QED
    BY <2>1, <2>2, <2>3 DEF MCNext
<1>2. OnlyStaleRevives <=> [][Revived]_(Film!vars)
  BY DEF OnlyStaleRevives, Film!OnlyStaleRevives, Revived
<1> QED
  BY FilmKept, <1>1, <1>2, PTL DEF MCSpec
=============================================================================
