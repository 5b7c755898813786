--------------------------- MODULE DeliveryProofs ---------------------------
(***************************************************************************)
(* What holds of the deliveries of an object for any users, servers and    *)
(* bounds, whatever is lost, repeated or overtaken; and then of the feeds  *)
(* of any users, statuses, films and workers.                              *)
(***************************************************************************)
EXTENDS MCPosts, FiniteSetTheorems, WellFoundedInduction, TLAPS

\* The receiver reads in "to" and "cc" the privacy that the sender has written
\* there, whoever is mentioned.
THEOREM PrivacyComesThrough ==
  ASSUME NEW p \in Privacies, NEW W \in SUBSET Users
  PROVE  PrivacyOf(To(p, W), Cc(p, W)) = p
<1>1. Public \notin W /\ Followers \notin W /\ Public # Followers
  BY DeliveryAssumption DEF Public, Followers
<1>2. W # {Public} /\ W # {Followers}
  BY <1>1
<1> HIDE DEF Public, Followers
<1>3. CASE p = "public"
  <2>1. To(p, W) = {Public}
    BY <1>3 DEF To
  <2> QED
    BY <1>3, <2>1 DEF PrivacyOf
<1>4. CASE p = "unlisted"
  <2>1. To(p, W) = {Followers} /\ Cc(p, W) = {Public} \cup W
    BY <1>4 DEF To, Cc
  <2>2. To(p, W) # {Public} /\ Public \in Cc(p, W)
    BY <1>1, <2>1
  <2> QED
    BY <1>4, <2>2 DEF PrivacyOf
<1>5. CASE p = "followers"
  <2>1. To(p, W) = {Followers} /\ Cc(p, W) = W
    BY <1>5 DEF To, Cc
  <2>2. To(p, W) # {Public} /\ Public \notin Cc(p, W)
    BY <1>1, <2>1
  <2> QED
    BY <1>5, <2>1, <2>2 DEF PrivacyOf
<1>6. CASE p = "direct"
  <2>1. To(p, W) = W /\ Cc(p, W) = {}
    BY <1>6 DEF To, Cc
  <2>2. To(p, W) # {Public} /\ To(p, W) # {Followers} /\ Public \notin Cc(p, W)
    BY <1>2, <2>1
  <2> QED
    BY <1>6, <2>1, <2>2 DEF PrivacyOf
<1> QED
  BY <1>3, <1>4, <1>5, <1>6 DEF Privacies

-----------------------------------------------------------------------------
\* The activities and rows that server s may have when version n is the last one
\* and m says who might see which.
Good(s, n, m) == {a \in Activities : a.version <= n /\ (a.verb = "Delete" \/ s \in m[a.version])}
GoodRows(s, n, m) == {r \in Row : There(r) => r.version \in 1 .. n /\ s \in m[r.version]}

Fitting == \A s \in Servers : /\ net[s] \in Seq(Good(s, version, mayHave))
                              /\ copies[s].note \in GoodRows(s, version, mayHave)
                              /\ copies[s].own \in GoodRows(s, version, mayHave)
IInv == TypeOK /\ Fitting

LEMMA InitIInv == Init => IInv
<1> SUFFICES ASSUME Init PROVE IInv
  OBVIOUS
<1>1. \A S : <<>> \in Seq(S)
  OBVIOUS
<1>2. NoRow \in Row /\ ~There(NoRow)
  BY DeliveryAssumption DEF Init, NoRow, Row, There, Privacies
<1>3. TypeOK
  <2>1. net \in [Servers -> Seq(Activities)]
    BY <1>1 DEF Init
  <2>2. copies \in [Servers -> [note : Row, own : Row]]
    BY <1>2 DEF Init, Rows
  <2>3. \A u \in Users : <<u, Author>> \in follows => blocks \cap Pairs(u) = {}
    BY DEF Init
  <2>4. follows \subseteq Users \X {Author} /\ blocks \subseteq UNION {Pairs(u) : u \in Users}
    BY DEF Init
  <2>5. /\ inOrder \in Orders /\ thing \in Things /\ state = "none" /\ privacy \in Privacies
        /\ with \subseteq Users /\ version = 0 /\ events = 0
        /\ mayHave \in [Versions -> SUBSET Servers]
        /\ named \subseteq Servers /\ leftOut \subseteq Servers /\ recast \in BOOLEAN
    BY DEF Init, Privacies
  <2> QED
    BY <2>1, <2>2, <2>3, <2>4, <2>5, DeliveryAssumption DEF TypeOK
<1>4. Fitting
  BY <1>1, <1>2 DEF Init, Fitting, GoodRows, Rows
<1> QED
  BY <1>3, <1>4 DEF IInv

-----------------------------------------------------------------------------
(* What is sent *)

LEMMA ActivityTyped ==
  ASSUME NEW verb \in {"Create", "Update", "Delete"}, NEW form \in {"note", "own"},
         NEW p \in Privacies, NEW W \in SUBSET Users, NEW n \in Versions
  PROVE  /\ Activity(verb, form, p, W, n) \in Activities
         /\ Activity(verb, form, p, W, n).version = n
         /\ Activity(verb, form, p, W, n).verb = verb
<1>1. To(p, W) \in SUBSET (Users \cup {Public, Followers})
  BY DEF To
<1>2. Cc(p, W) \in SUBSET (Users \cup {Public, Followers})
  BY DEF Cc
<1> QED
  BY <1>1, <1>2 DEF Activity, Activities

LEMMA OwnFormTyped == OwnForm \in {"note", "own"}
BY DEF OwnForm

\* The recipients are servers of those who might see the new version.
LEMMA RecipientsMayHave ==
  ASSUME TypeOK, TypeOK', NEW s \in Recipients(privacy', with'), UNCHANGED <<follows, blocks>>
  PROVE  s \in MayHave' /\ s \in Servers
<1> USE DeliveryAssumption DEF TypeOK
<1>1. PICK u \in Users : /\ s = At[u]
                         /\ u \in with' \/ (privacy' # "direct" /\ u \in Hearing)
  BY DEF Recipients, Homes, Hearing
<1>2. CASE u \in with'
  BY <1>1, <1>2 DEF MayHave
<1>3. CASE privacy' # "direct" /\ u \in Hearing
  <2>1. <<u, Author>> \in follows' /\ <<Author, u>> \notin blocks'
    BY <1>3 DEF Hearing, Pairs
  <2>2. privacy' \in {"public", "unlisted", "followers"}
    BY <1>3 DEF Privacies
  <2>3. Opens(u, Object(privacy, with)', follows', blocks')
    BY <2>1, <2>2 DEF Opens, Object, Follows, BlockedBy
  <2> QED
    BY <1>1, <2>3 DEF MayHave
<1> QED
  BY <1>1, <1>2, <1>3

LEMMA SeqOfMore ==
  ASSUME NEW S, NEW T, NEW q \in Seq(S), S \subseteq T
  PROVE  q \in Seq(T)
OBVIOUS

LEMMA Removed ==
  ASSUME NEW S, NEW q \in Seq(S), NEW i \in DOMAIN q
  PROVE  RemoveAt(q, i) \in Seq(S) /\ q[i] \in S
<1>1. i \in 1 .. Len(q) /\ q[i] \in S
  OBVIOUS
<1>2. SubSeq(q, 1, i - 1) \in Seq(S) /\ SubSeq(q, i + 1, Len(q)) \in Seq(S)
  BY <1>1
<1> QED
  BY <1>1, <1>2 DEF RemoveAt

\* The last version is new: what was said of the earlier ones stands.
LEMMA StillGood ==
  ASSUME TypeOK, Fitting, NEW s \in Servers, NEW n \in Nat, version <= n, NEW m,
         \A k \in Versions : k <= version => m[k] = mayHave[k]
  PROVE  /\ Good(s, version, mayHave) \subseteq Good(s, n, m)
         /\ GoodRows(s, version, mayHave) \subseteq GoodRows(s, n, m)
<1> USE DeliveryAssumption
<1>1. version \in Nat /\ version <= MaxEvents[inOrder] /\ MaxEvents[inOrder] \in Nat
  BY DEF TypeOK
<1>2. ASSUME NEW a \in Good(s, version, mayHave) PROVE a \in Good(s, n, m)
  <2>1. a \in Activities /\ a.version \in Versions /\ a.version <= version
    BY DEF Good, Activities
  <2> QED
    BY <1>1, <2>1 DEF Good, Versions
<1>3. ASSUME NEW r \in GoodRows(s, version, mayHave) PROVE r \in GoodRows(s, n, m)
  <2>1. CASE There(r)
    <3>1. r \in Row /\ r.version \in 1 .. version /\ s \in mayHave[r.version]
      BY <2>1 DEF GoodRows
    <3>2. r.version \in Versions /\ r.version \in 1 .. n /\ m[r.version] = mayHave[r.version]
      BY <1>1, <3>1 DEF Versions
    <3> QED
      BY <3>1, <3>2 DEF GoodRows
  <2> QED
    BY <2>1 DEF GoodRows
<1> QED
  BY <1>2, <1>3
-----------------------------------------------------------------------------
(* What the author's events do *)

\* The sets that depend on the run are the same throughout it.
LEMMA SameSets ==
  ASSUME UNCHANGED <<inOrder, thing>>
  PROVE  /\ Versions' = Versions /\ Row' = Row /\ Activities' = Activities
         /\ \A s : /\ Good(s, version, mayHave)' = Good(s, version', mayHave')
                   /\ GoodRows(s, version, mayHave)' = GoodRows(s, version', mayHave')
<1>1. Versions' = Versions /\ Row' = Row /\ Activities' = Activities
  BY DEF Versions, Row, Activities
<1> QED
  BY <1>1 DEF Good, GoodRows

\* TypeOK, with the sets as they were, follows from its parts.
LEMMA TypesTogether ==
  ASSUME TypeOK, UNCHANGED <<inOrder, thing>>,
         state' \in {"none", "there", "gone"}, privacy' \in Privacies, with' \subseteq Users,
         events' \in 0 .. MaxEvents[inOrder], version' \in 0 .. events',
         (version' = 0) <=> (state' = "none"),
         follows' \subseteq Users \X {Author}, blocks' \subseteq UNION {Pairs(u) : u \in Users},
         \A u \in Users : <<u, Author>> \in follows' => blocks' \cap Pairs(u) = {},
         net' \in [Servers -> Seq(Activities)], copies' \in [Servers -> [note : Row, own : Row]],
         mayHave' \in [Versions -> SUBSET Servers],
         named' \subseteq Servers, leftOut' \subseteq Servers, recast' \in BOOLEAN
  PROVE  TypeOK'
<1>1. \A u \in Users : Pairs(u)' = Pairs(u)
  BY DEF Pairs
<1>2. inOrder' \in Orders /\ thing' \in Things
  BY DEF TypeOK
<1> QED
  BY <1>1, <1>2, SameSets DEF TypeOK

\* Create and Edit write version n and send it in activities x[s].
LEMMA WriteTyped ==
  ASSUME TypeOK, UNCHANGED <<inOrder, thing, follows, blocks, copies>>,
         NEW n \in Versions, version' = n, state' = "there", n = version + 1,
         NEW x \in [Servers -> Seq(Activities)], net' = [s \in Servers |-> net[s] \o x[s]],
         privacy' \in Privacies, with' \subseteq Users, Event, Leaves(privacy', with'),
         named' \subseteq Servers, recast' \in BOOLEAN,
         mayHave' = [mayHave EXCEPT ![n] = MayHave']
  PROVE  TypeOK'
<1> USE DeliveryAssumption
<1>1. /\ MaxEvents[inOrder] \in Nat /\ events \in 0 .. MaxEvents[inOrder]
      /\ version \in 0 .. events
  BY DEF TypeOK
<1>2. events' \in 0 .. MaxEvents[inOrder] /\ version' \in 0 .. events' /\ version' # 0
  BY <1>1 DEF Event
<1>3. net' \in [Servers -> Seq(Activities)]
  <2>1. \A s \in Servers : net[s] \in Seq(Activities) /\ x[s] \in Seq(Activities)
    BY DEF TypeOK
  <2> QED
    BY <2>1
<1>4. MayHave' \subseteq Servers
  BY DEF MayHave
<1>5. mayHave' \in [Versions -> SUBSET Servers]
  BY <1>4 DEF TypeOK
<1>6. leftOut' \subseteq Servers
  BY DEF TypeOK, Leaves
<1>7. /\ follows' \subseteq Users \X {Author} /\ blocks' \subseteq UNION {Pairs(u) : u \in Users}
      /\ \A u \in Users : <<u, Author>> \in follows' => blocks' \cap Pairs(u) = {}
      /\ copies' \in [Servers -> [note : Row, own : Row]]
  BY DEF TypeOK
<1> QED
  BY <1>2, <1>3, <1>5, <1>6, <1>7, TypesTogether

\* Activities that go to those who might see the version that they bring leave
\* everything fitting.
LEMMA WriteFits ==
  ASSUME TypeOK, Fitting, TypeOK', UNCHANGED <<inOrder, thing, follows, blocks, copies>>,
         NEW n \in Versions, version' = n, n = version + 1,
         NEW x, net' = [s \in Servers |-> net[s] \o x[s]],
         mayHave' = [mayHave EXCEPT ![n] = MayHave'],
         \A s \in Servers : x[s] \in Seq({a \in Activities : a.version = n /\ s \in MayHave'})
  PROVE  Fitting'
<1> USE DeliveryAssumption
<1>1. version \in Nat /\ n \in Nat /\ version < n
  BY DEF TypeOK, Versions
<1>2. \A k \in Versions : k <= version => mayHave'[k] = mayHave[k]
  BY <1>1 DEF TypeOK, Versions
<1>3. mayHave'[n] = MayHave'
  BY DEF TypeOK
<1>4. ASSUME NEW s \in Servers
      PROVE  /\ net'[s] \in Seq(Good(s, n, mayHave'))
             /\ copies'[s].note \in GoodRows(s, n, mayHave')
             /\ copies'[s].own \in GoodRows(s, n, mayHave')
  <2>1. /\ Good(s, version, mayHave) \subseteq Good(s, n, mayHave')
        /\ GoodRows(s, version, mayHave) \subseteq GoodRows(s, n, mayHave')
    <3>1. PICK m : m = mayHave'
      OBVIOUS
    <3>2. version <= n /\ n \in Nat /\ \A k \in Versions : k <= version => m[k] = mayHave[k]
      BY <1>1, <1>2, <3>1
    <3>3. /\ Good(s, version, mayHave) \subseteq Good(s, n, m)
          /\ GoodRows(s, version, mayHave) \subseteq GoodRows(s, n, m)
      BY <3>2, StillGood
    <3> QED
      BY <3>1, <3>3
  <2>2. {a \in Activities : a.version = n /\ s \in MayHave'} \subseteq Good(s, n, mayHave')
    BY <1>1, <1>3 DEF Good
  <2>3. x[s] \in Seq(Good(s, n, mayHave'))
    BY <2>2, SeqOfMore
  <2>4. net[s] \in Seq(Good(s, n, mayHave'))
    <3>1. net[s] \in Seq(Good(s, version, mayHave))
      BY DEF Fitting
    <3> QED
      BY <2>1, <3>1, SeqOfMore
  <2>5. net'[s] \in Seq(Good(s, n, mayHave'))
    BY <2>3, <2>4
  <2> QED
    BY <2>1, <2>5 DEF Fitting
<1> QED
  BY <1>4, SameSets DEF Fitting
LEMMA CreateFits ==
  ASSUME IInv, UNCHANGED <<inOrder, thing>>,
         NEW p \in Privacies, NEW W \in SUBSET Users, Create(p, W)
  PROVE  IInv'
<1> DEFINE x == [s \in Servers |-> FirstSent(s, p, W)]
<1>1. TypeOK /\ Fitting /\ MaxEvents[inOrder] \in Nat
  BY DeliveryAssumption DEF IInv, TypeOK
<1>2. 1 \in Versions /\ version = 0
  BY <1>1 DEF TypeOK, Create, Event, Versions
<1>3. /\ privacy' = p /\ with' = W /\ version' = 1 /\ state' = "there" /\ Event
      /\ named' = Homes(W) /\ Leaves(p, W) /\ mayHave' = [mayHave EXCEPT ![1] = MayHave']
      /\ net' = [s \in Servers |-> net[s] \o FirstSent(s, p, W)]
      /\ UNCHANGED <<follows, blocks, copies, recast>>
  BY DEF Create
<1>4. net' = [s \in Servers |-> net[s] \o x[s]]
  BY <1>3
<1>5. /\ Activity("Create", "note", p, W, 1) \in {a \in Activities : a.version = 1}
      /\ Activity("Create", OwnForm, p, W, 1) \in {a \in Activities : a.version = 1}
  BY <1>2, ActivityTyped, OwnFormTyped
<1>6. x \in [Servers -> Seq(Activities)]
  BY <1>5 DEF FirstSent
<1>7. named' \subseteq Servers /\ recast' \in BOOLEAN
  BY <1>1, <1>3, DeliveryAssumption DEF Homes, TypeOK
<1> HIDE DEF x
<1>8. TypeOK'
  <2>1. Leaves(privacy', with') /\ privacy' \in Privacies /\ with' \subseteq Users
    BY <1>3
  <2>2. 1 = version + 1 /\ UNCHANGED <<inOrder, thing, follows, blocks, copies>>
    BY <1>2, <1>3
  <2> QED
    BY <1>1, <1>2, <1>3, <1>4, <1>6, <1>7, <2>1, <2>2, WriteTyped
<1>9. ASSUME NEW s \in Servers
      PROVE  x[s] \in Seq({a \in Activities : a.version = 1 /\ s \in MayHave'})
  <2>1. CASE s \in Recipients(p, W)
    <3>1. s \in MayHave'
      BY <1>1, <1>3, <1>8, <2>1, RecipientsMayHave
    <3> DEFINE T == {a \in Activities : a.version = 1 /\ s \in MayHave'}
    <3>2. /\ Activity("Create", "note", p, W, 1) \in T
          /\ Activity("Create", OwnForm, p, W, 1) \in T
      BY <1>5, <3>1
    <3> HIDE DEF T
    <3>3. x[s] \in Seq(T)
      BY <3>2 DEF FirstSent, x
    <3> QED
      BY <3>3 DEF T
  <2>2. CASE s \notin Recipients(p, W)
    <3>1. FirstSent(s, p, W) = <<>>
      BY <2>2 DEF FirstSent, Recipients
    <3> QED
      BY <3>1 DEF x
  <2> QED
    BY <2>1, <2>2
<1>10. Fitting'
  <2>1. 1 = version + 1 /\ UNCHANGED <<inOrder, thing, follows, blocks, copies>>
    BY <1>2, <1>3
  <2> QED
    BY <1>1, <1>2, <1>3, <1>4, <1>8, <1>9, <2>1, WriteFits
<1> QED
  BY <1>8, <1>10 DEF IInv

LEMMA EditFits ==
  ASSUME IInv, UNCHANGED <<inOrder, thing>>,
         NEW p \in Privacies, NEW W \in SUBSET Users, Edit(p, W)
  PROVE  IInv'
<1> DEFINE n == version + 1
           x == [s \in Servers |-> Sent(s, "Update", p, W, n)]
<1>1. TypeOK /\ Fitting /\ MaxEvents[inOrder] \in Nat
  BY DeliveryAssumption DEF IInv, TypeOK
<1>2. n \in Versions
  BY <1>1 DEF TypeOK, Edit, Event, Versions
<1>3. /\ privacy' = p /\ with' = W /\ version' = n /\ state' = "there" /\ Event
      /\ Leaves(p, W) /\ mayHave' = [mayHave EXCEPT ![n] = MayHave']
      /\ net' = [s \in Servers |-> net[s] \o Sent(s, "Update", p, W, n)]
      /\ recast' \in BOOLEAN /\ UNCHANGED <<follows, blocks, copies, named>>
  BY <1>1 DEF Edit, TypeOK
<1>4. net' = [s \in Servers |-> net[s] \o x[s]]
  BY <1>3
<1> HIDE DEF n
<1>5. Activity("Update", OwnForm, p, W, n) \in {a \in Activities : a.version = n}
  BY <1>2, ActivityTyped, OwnFormTyped
<1>6. x \in [Servers -> Seq(Activities)]
  BY <1>5 DEF Sent
<1>7. named' \subseteq Servers /\ Leaves(privacy', with') /\ privacy' \in Privacies /\ with' \subseteq Users
  BY <1>1, <1>3 DEF TypeOK
<1>8. n = version + 1 /\ UNCHANGED <<inOrder, thing, follows, blocks, copies>>
  BY <1>3 DEF n
<1> HIDE DEF x
<1>9. TypeOK'
  BY <1>1, <1>2, <1>3, <1>4, <1>6, <1>7, <1>8, WriteTyped
<1>10. ASSUME NEW s \in Servers
       PROVE  x[s] \in Seq({a \in Activities : a.version = n /\ s \in MayHave'})
  <2>1. CASE s \in Recipients(p, W)
    <3>1. s \in MayHave'
      BY <1>1, <1>3, <1>9, <2>1, RecipientsMayHave
    <3> DEFINE T == {a \in Activities : a.version = n /\ s \in MayHave'}
    <3>2. Activity("Update", OwnForm, p, W, n) \in T
      BY <1>5, <3>1
    <3> HIDE DEF T
    <3>3. x[s] \in Seq(T)
      BY <3>2 DEF Sent, x
    <3> QED
      BY <3>3 DEF T
  <2>2. CASE s \notin Recipients(p, W)
    BY <2>2 DEF Sent, x
  <2> QED
    BY <2>1, <2>2
<1>11. Fitting'
  BY <1>1, <1>2, <1>3, <1>4, <1>8, <1>9, <1>10, WriteFits
<1> QED
  BY <1>9, <1>11 DEF IInv

LEMMA DeleteFits ==
  ASSUME IInv, UNCHANGED <<inOrder, thing>>, Delete
  PROVE  IInv'
<1> USE DeliveryAssumption
<1> DEFINE x(s) == Sent(s, "Delete", privacy, with, version)
<1>1. /\ TypeOK /\ Fitting /\ MaxEvents[inOrder] \in Nat /\ events \in 0 .. MaxEvents[inOrder]
      /\ version \in 1 .. events
  BY DEF IInv, TypeOK, Delete
<1>2. /\ state' = "gone" /\ Event /\ Leaves(privacy, with)
      /\ net' = [s \in Servers |-> net[s] \o x(s)]
      /\ UNCHANGED <<privacy, with, version, follows, blocks, copies, named, recast, mayHave>>
  BY DEF Delete
<1>3. version \in Versions
  BY <1>1 DEF Versions
<1>4. \A s \in Servers : x(s) \in Seq(Good(s, version, mayHave))
  <2> DEFINE a == Activity("Delete", OwnForm, privacy, with, version)
  <2>1. a \in Activities /\ a.version = version /\ a.verb = "Delete"
    BY <1>1, <1>3, ActivityTyped, OwnFormTyped DEF TypeOK
  <2>2. \A s : x(s) \in {<<>>, <<a>>}
    BY DEF Sent
  <2> HIDE DEF a, x
  <2>3. \A s : a \in Good(s, version, mayHave)
    BY <1>1, <2>1 DEF Good
  <2>4. \A T : a \in T => <<>> \in Seq(T) /\ <<a>> \in Seq(T)
    OBVIOUS
  <2> QED
    BY <2>2, <2>3, <2>4
<1> HIDE DEF x
<1>5. \A s \in Servers : net'[s] \in Seq(Good(s, version, mayHave))
  BY <1>1, <1>2, <1>4 DEF Fitting
<1>6. net' \in [Servers -> Seq(Activities)]
  <2>1. \A s \in Servers : net'[s] \in Seq(Activities)
    BY <1>5, SeqOfMore DEF Good
  <2> QED
    BY <1>2, <2>1
<1>7. TypeOK'
  <2>1. events' \in 0 .. MaxEvents[inOrder] /\ version' \in 0 .. events' /\ version' # 0
    BY <1>1, <1>2 DEF Event
  <2>2. leftOut' \subseteq Servers
    BY <1>1, <1>2 DEF TypeOK, Leaves
  <2>3. /\ privacy' \in Privacies /\ with' \subseteq Users
        /\ follows' \subseteq Users \X {Author} /\ blocks' \subseteq UNION {Pairs(u) : u \in Users}
        /\ \A u \in Users : <<u, Author>> \in follows' => blocks' \cap Pairs(u) = {}
        /\ copies' \in [Servers -> [note : Row, own : Row]]
        /\ mayHave' \in [Versions -> SUBSET Servers]
        /\ named' \subseteq Servers /\ recast' \in BOOLEAN
    BY <1>1, <1>2 DEF TypeOK
  <2> QED
    BY <1>1, <1>2, <1>6, <2>1, <2>2, <2>3, TypesTogether
<1>8. Fitting'
  BY <1>1, <1>2, <1>5, SameSets DEF Fitting
<1> QED
  BY <1>7, <1>8 DEF IInv

\* Follows and blocks change, and no block is beside a follow.
LEMMA RelateFits ==
  ASSUME IInv, UNCHANGED <<inOrder, thing>>, NEW u \in Users,
         Follow(u) \/ Unfollow(u) \/ Block(u) \/ Unblock(u)
  PROVE  IInv'
<1> USE DeliveryAssumption
<1>1. /\ TypeOK /\ Fitting /\ MaxEvents[inOrder] \in Nat /\ events \in 0 .. MaxEvents[inOrder]
      /\ version \in 0 .. events
  BY DEF IInv, TypeOK
<1>2. /\ Event
      /\ UNCHANGED <<state, privacy, with, version, net, copies, named, leftOut, recast, mayHave>>
  <2>1. \A F, B : Relate(F, B) =>
          /\ Event
          /\ UNCHANGED <<state, privacy, with, version, net, copies, named, leftOut, recast, mayHave>>
    BY DEF Relate, object, history
  <2> QED
    BY <2>1 DEF Follow, Unfollow, Block, Unblock
<1>3. /\ follows' \subseteq Users \X {Author} /\ blocks' \subseteq UNION {Pairs(v) : v \in Users}
      /\ \A v \in Users : <<v, Author>> \in follows' => blocks' \cap Pairs(v) = {}
  <2>1. CASE Follow(u)
    <3>1. blocks \cap Pairs(u) = {} /\ follows' = follows \cup {<<u, Author>>} /\ blocks' = blocks
      BY <2>1 DEF Follow, Relate
    <3> QED
      BY <1>1, <3>1 DEF TypeOK
  <2>2. CASE Unfollow(u)
    <3>1. follows' = follows \ Pairs(u) /\ blocks' = blocks
      BY <2>2 DEF Unfollow, Relate
    <3> QED
      BY <1>1, <3>1 DEF TypeOK
  <2>3. CASE Block(u)
    <3>1. PICK p \in Pairs(u) : follows' = follows \ Pairs(u) /\ blocks' = blocks \cup {p}
      BY <2>3 DEF Block, Relate
    <3>2. \A v \in Users : <<v, Author>> \in follows' => p \notin Pairs(v)
      BY <3>1 DEF Pairs
    <3> QED
      BY <1>1, <3>1, <3>2 DEF TypeOK
  <2>4. CASE Unblock(u)
    <3>1. PICK p \in Pairs(u) : follows' = follows /\ blocks' = blocks \ {p}
      BY <2>4 DEF Unblock, Relate
    <3> QED
      BY <1>1, <3>1 DEF TypeOK
  <2> QED
    BY <2>1, <2>2, <2>3, <2>4
<1>4. TypeOK'
  <2>1. events' \in 0 .. MaxEvents[inOrder] /\ version' \in 0 .. events'
    BY <1>1, <1>2 DEF Event
  <2>2. /\ state' \in {"none", "there", "gone"} /\ privacy' \in Privacies /\ with' \subseteq Users
        /\ (version' = 0) <=> (state' = "none")
        /\ net' \in [Servers -> Seq(Activities)] /\ copies' \in [Servers -> [note : Row, own : Row]]
        /\ mayHave' \in [Versions -> SUBSET Servers]
        /\ named' \subseteq Servers /\ leftOut' \subseteq Servers /\ recast' \in BOOLEAN
    BY <1>1, <1>2 DEF TypeOK
  <2> QED
    BY <1>1, <1>2, <1>3, <2>1, <2>2, TypesTogether
<1>5. Fitting'
  BY <1>1, <1>2, SameSets DEF Fitting
<1> QED
  BY <1>4, <1>5 DEF IInv
-----------------------------------------------------------------------------
(* What a server does with what it gets *)

\* Rows that are fit for server s stay so when it sets one from an activity that
\* is fit for it, or ends one.
LEMMA RowsFit ==
  ASSUME TypeOK, NEW s \in Servers, NEW r \in GoodRows(s, version, mayHave),
         NEW a \in Good(s, version, mayHave)
  PROVE  /\ NoRow \in GoodRows(s, version, mayHave)
         /\ Ended(r) \in GoodRows(s, version, mayHave)
         /\ a.verb # "Delete" => Set(a, r) \in GoodRows(s, version, mayHave)
<1> USE DeliveryAssumption
<1>1. MaxEvents[inOrder] \in Nat /\ r \in Row
  BY DEF TypeOK, GoodRows
<1>2. NoRow \in GoodRows(s, version, mayHave)
  BY <1>1 DEF NoRow, GoodRows, Row, There, Privacies
<1>3. Ended(r) \in GoodRows(s, version, mayHave)
  <2>1. CASE thing = "list" \/ ~There(r)
    BY <1>2, <2>1 DEF Ended
  <2>2. CASE ~(thing = "list" \/ ~There(r))
    <3>1. Ended(r) = [r EXCEPT !.state = "gone"]
      BY <2>2 DEF Ended
    <3>2. Ended(r) \in Row /\ Ended(r).version = r.version
      BY <1>1, <3>1 DEF Row
    <3> QED
      BY <2>2, <3>2 DEF GoodRows, There
  <2> QED
    BY <2>1, <2>2
<1>4. ASSUME a.verb # "Delete" PROVE Set(a, r) \in GoodRows(s, version, mayHave)
  <2>1. /\ a.version \in Versions /\ a.version <= version /\ s \in mayHave[a.version]
        /\ a.with \subseteq Users
    BY <1>4 DEF Good, Activities
  <2>2. Stored(a, r) \in Privacies
    BY <1>1 DEF Stored, PrivacyOf, Row, Privacies
  <2>3. Set(a, r) \in Row /\ Set(a, r).version = a.version
    BY <1>1, <2>1, <2>2 DEF Set, Written, Row, There, Versions
  <2>4. a.version \in 1 .. version
    BY <2>1 DEF Versions, TypeOK
  <2> QED
    BY <2>1, <2>3, <2>4 DEF GoodRows
<1> QED
  BY <1>2, <1>3, <1>4

LEMMA AfterFits ==
  ASSUME TypeOK, NEW s \in Servers, NEW a \in Good(s, version, mayHave),
         NEW c \in [note : GoodRows(s, version, mayHave), own : GoodRows(s, version, mayHave)],
         NEW d \in After(s, a, c)
  PROVE  d \in [note : GoodRows(s, version, mayHave), own : GoodRows(s, version, mayHave)]
<1> DEFINE G == GoodRows(s, version, mayHave)
<1>1. /\ NoRow \in G /\ Ended(c.note) \in G /\ Ended(c.own) \in G
      /\ a.verb # "Delete" => Set(a, c.note) \in G /\ Set(a, c.own) \in G
  BY RowsFit
<1>2. a.verb \in {"Create", "Update", "Delete"} /\ a.form \in {"note", "own"}
  BY DEF Good, Activities
<1>3. \A x, y \in G : Rows(x, y) \in [note : G, own : G]
  BY DEF Rows
<1>4. c \in [note : G, own : G] /\ c.note \in G /\ c.own \in G
  OBVIOUS
<1> HIDE DEF G
<1>5. CASE a.verb = "Create"
  <2>1. d \in Created(s, a, c)
    BY <1>5 DEF After
  <2>2. \/ d = c
        \/ d = Rows(c.note, Set(a, c.own))
        \/ d = Rows(Set(a, c.note), c.own)
    BY <1>2, <2>1 DEF Created
  <2> QED
    BY <1>1, <1>3, <1>4, <1>5, <2>2 DEF G
<1>6. CASE a.verb = "Update"
  <2>1. d = Updated(a, c)
    BY <1>6 DEF After
  <2>2. \/ d \in {Rows(c.note, Set(a, c.own)), Rows(c.note, NoRow)}
        \/ d \in {Rows(Set(a, c.note), c.own), Rows(NoRow, c.own)}
    BY <1>2, <2>1 DEF Updated
  <2> QED
    BY <1>1, <1>3, <1>4, <1>6, <2>2 DEF G
<1>7. CASE a.verb = "Delete"
  <2>1. d \in Deleted(c)
    BY <1>7 DEF After
  <2>2. d \in {Rows(Ended(c.note), c.own), Rows(c.note, Ended(c.own)),
               Rows(Ended(c.note), Ended(c.own))}
    BY <2>1 DEF Deleted
  <2> QED
    BY <1>1, <1>3, <1>4, <2>2 DEF G
<1> QED
  BY <1>2, <1>5, <1>6, <1>7

\* An activity is delivered or lost.
LEMMA ArriveFits ==
  ASSUME IInv, UNCHANGED <<inOrder, thing>>, NEW s \in Servers, NEW i \in DOMAIN net[s],
         (\E again \in BOOLEAN : Deliver(s, i, again)) \/ Lose(s, i)
  PROVE  IInv'
<1> DEFINE G(z) == GoodRows(z, version, mayHave)
<1>1. /\ TypeOK /\ Fitting
      /\ UNCHANGED <<state, privacy, with, version, follows, blocks, events, named, leftOut, recast, mayHave>>
      /\ net' = net \/ net' = [net EXCEPT ![s] = RemoveAt(@, i)]
      /\ copies' = copies
         \/ \E c \in After(s, net[s][i], copies[s]) : copies' = [copies EXCEPT ![s] = c]
  BY DEF IInv, Deliver, Lose, object, history
<1>2. \A z \in Servers : /\ net[z] \in Seq(Good(z, version, mayHave)) /\ net[z] \in Seq(Activities)
                          /\ copies[z] \in [note : Row, own : Row]
                          /\ copies[z].note \in G(z) /\ copies[z].own \in G(z)
  BY <1>1 DEF TypeOK, Fitting
<1>3. \A z \in Servers : copies[z] \in [note : G(z), own : G(z)]
  BY <1>2
<1>4. /\ RemoveAt(net[s], i) \in Seq(Good(s, version, mayHave)) /\ RemoveAt(net[s], i) \in Seq(Activities)
      /\ net[s][i] \in Good(s, version, mayHave)
  BY <1>2, Removed
<1>5. \A z \in Servers : net'[z] \in Seq(Good(z, version, mayHave))
  BY <1>1, <1>2, <1>4 DEF TypeOK
<1>6. net' \in [Servers -> Seq(Activities)]
  BY <1>1, <1>2, <1>4 DEF TypeOK
<1>7. \A z \in Servers : copies'[z] \in [note : G(z), own : G(z)]
  <2>1. ASSUME NEW c \in After(s, net[s][i], copies[s]), copies' = [copies EXCEPT ![s] = c]
        PROVE  \A z \in Servers : copies'[z] \in [note : G(z), own : G(z)]
    <3>1. c \in [note : G(s), own : G(s)]
      BY <1>1, <1>3, <1>4, <2>1, AfterFits
    <3> HIDE DEF G
    <3> QED
      BY <1>1, <1>3, <2>1, <3>1 DEF TypeOK
  <2> HIDE DEF G
  <2> QED
    BY <1>1, <1>3, <2>1
<1>8. copies' \in [Servers -> [note : Row, own : Row]]
  <2>1. \A z \in Servers : copies'[z] \in [note : Row, own : Row]
    BY <1>7 DEF GoodRows
  <2>2. copies' = [z \in Servers |-> copies'[z]]
    BY <1>1 DEF TypeOK
  <2> QED
    BY <2>1, <2>2
<1>9. TypeOK'
  BY <1>1, <1>6, <1>8, TypesTogether DEF TypeOK
<1>10. Fitting'
  BY <1>1, <1>5, <1>7, SameSets DEF Fitting
<1> QED
  BY <1>9, <1>10 DEF IInv

LEMMA NextIInv == IInv /\ [Next]_vars => IInv'
<1> SUFFICES ASSUME IInv, [Next]_vars PROVE IInv'
  OBVIOUS
<1>1. CASE Next
  <2>1. UNCHANGED <<inOrder, thing>>
    BY <1>1 DEF Next
  <2>2. ASSUME NEW p \in Privacies, NEW W \in SUBSET Users, Create(p, W) \/ Edit(p, W)
        PROVE  IInv'
    BY <2>1, <2>2, CreateFits, EditFits
  <2>3. CASE Delete
    BY <2>1, <2>3, DeleteFits
  <2>4. ASSUME NEW u \in Users, Follow(u) \/ Unfollow(u) \/ Block(u) \/ Unblock(u)
        PROVE  IInv'
    BY <2>1, <2>4, RelateFits
  <2>5. ASSUME NEW s \in Servers, NEW i \in DOMAIN net[s],
               (\E again \in BOOLEAN : Deliver(s, i, again)) \/ Lose(s, i)
        PROVE  IInv'
    BY <2>1, <2>5, ArriveFits
  <2> QED
    BY <1>1, <2>2, <2>3, <2>4, <2>5 DEF Next
<1>2. CASE UNCHANGED vars
  BY <1>2, SameSets DEF vars, object, history, IInv, TypeOK, Fitting, Pairs
<1> QED
  BY <1>1, <1>2

\* The variables of Delivery keep their types; in particular no block stays
\* beside a follow, on which the addressing of followers relies.
THEOREM TypeCorrect == Spec => []TypeOK
<1>1. IInv => TypeOK
  BY DEF IInv
<1> QED
  BY <1>1, InitIInv, NextIInv, PTL DEF Spec

\* No version of an object is on its way to a server, or is kept there, unless
\* somebody there could open it when it was written or is mentioned in it.
THEOREM HeardByThoseWhoMay == Spec => []NoServerHearsInVain
<1>1. IInv => NoServerHearsInVain
  <2> SUFFICES ASSUME IInv, NEW s \in Servers
               PROVE  /\ \A i \in DOMAIN net[s] : s \in mayHave[net[s][i].version]
                                                 \/ net[s][i].verb = "Delete"
                      /\ \A r \in {copies[s].note, copies[s].own} :
                           There(r) => s \in mayHave[r.version]
    BY DEF NoServerHearsInVain
  <2>1. \A i \in DOMAIN net[s] : net[s][i] \in Good(s, version, mayHave)
    BY DEF IInv, Fitting
  <2> QED
    BY <2>1 DEF IInv, Fitting, Good, GoodRows
<1> QED
  BY <1>1, InitIInv, NextIInv, PTL DEF Spec

-----------------------------------------------------------------------------
(* When activities arrive in order, copies are what they are to be          *)

\* The servers that CopiesAreExact is about, as long as it is about them, and
\* those of them that keep what they get.
OnTime(s) == inOrder /\ s \notin leftOut /\ ~recast /\ ~(thing = "comment" /\ s \in named)
Keeps(s)  == thing = "reply" => s \in ParentAt \cup named

\* The row that the object has on a server, and the one that it has not.
Mine(c)   == IF thing = "reply" THEN c.note ELSE c.own
Other(c)  == IF thing = "reply" THEN c.own ELSE c.note

AsItIs    == [state |-> "there", privacy |-> privacy, with |-> with, version |-> version]
Tells(a)  == /\ PrivacyOf(a.to, a.cc) = privacy /\ a.with = with /\ a.version = version

\* The activities of a queue came about in turn: the Create first, the Delete
\* last, if the object has gone.
InTurn(q) ==
  \A j \in DOMAIN q :
    /\ q[j].form = OwnForm
    /\ q[j].verb = "Create" => j = 1 /\ Homes(q[j].with) = named
    /\ q[j].verb = "Delete" <=> j = Len(q) /\ state = "gone"
    /\ thing = "list" /\ q[j].verb # "Delete" => PrivacyOf(q[j].to, q[j].cc) = privacy

\* With nothing under way the row c is as it is to be; otherwise the last activity
\* will make it so, and those before it do not keep it from that.
Following(c, q) ==
  /\ q = <<>> => /\ state = "none" => c = NoRow
                 /\ state = "there" => c = AsItIs
                 /\ c.state = "there" => state = "there"
  /\ q # <<>> => /\ c.state = "gone" => q[1].verb = "Delete"
                 /\ ~There(c) => q[1].verb \in {"Create", "Delete"}
  /\ thing = "list" /\ There(c) => c.privacy = privacy

\* With the activities q on their way to server s and the rows c there.
Exact(s, q, c) ==
  /\ InTurn(q)
  /\ state = "none" => q = <<>>
  /\ state = "there" /\ q # <<>> => Tells(q[Len(q)])
  /\ Other(c) = NoRow
  /\ IF Keeps(s) THEN Following(Mine(c), q) ELSE Mine(c) = NoRow

OInv ==
  /\ IInv
  /\ state = "none" => named = {}
  /\ \A s \in Servers : OnTime(s) => Exact(s, net[s], copies[s])

LEMMA InitOInv == Init => OInv
<1> SUFFICES ASSUME Init PROVE OInv
  OBVIOUS
<1>1. IInv
  BY InitIInv
<1>2. ASSUME NEW s \in Servers
      PROVE  Exact(s, net[s], copies[s])
  <2>1. net[s] = <<>> /\ copies[s] = Rows(NoRow, NoRow) /\ state = "none"
    BY DEF Init
  <2>2. DOMAIN net[s] = {} /\ InTurn(net[s])
    BY <2>1 DEF InTurn
  <2>3. Mine(copies[s]) = NoRow /\ Other(copies[s]) = NoRow
    BY <2>1 DEF Mine, Other, Rows
  <2>4. Following(NoRow, net[s])
    BY <2>1 DEF Following, NoRow, There
  <2> QED
    BY <2>1, <2>2, <2>3, <2>4 DEF Exact
<1> QED
  BY <1>1, <1>2 DEF OInv, Init

\* What Exact says depends on the object alone, and on the activities and rows.
LEMMA ExactElsewhere ==
  ASSUME UNCHANGED <<thing, state, privacy, with, version, named>>, NEW s, NEW q, NEW c,
         Exact(s, q, c)
  PROVE  Exact(s, q, c)'
<1>1. InTurn(q)' <=> InTurn(q)
  BY DEF InTurn, OwnForm
<1>2. Following(Mine(c), q)' <=> Following(Mine(c), q)
  BY DEF Following, Mine, AsItIs
<1>3. /\ Mine(c)' = Mine(c) /\ Other(c)' = Other(c) /\ (Keeps(s)' <=> Keeps(s))
      /\ \A a : Tells(a)' <=> Tells(a)
  BY DEF Mine, Other, Keeps, Tells
<1> QED
  BY <1>1, <1>2, <1>3 DEF Exact

LEMMA ExactNow ==
  ASSUME NEW s, NEW q, NEW c, q = net'[s], c = copies'[s], Exact(s, q, c)'
  PROVE  Exact(s, net[s], copies[s])'
BY DEF Exact, InTurn, Following, Mine, Other, Keeps, Tells, AsItIs

\* Once a server is out of time it stays so.
LEMMA OnTimeBefore ==
  ASSUME OInv, Next, NEW s \in Servers, OnTime(s)'
  PROVE  OnTime(s) /\ (leftOut' = leftOut \/ Leaves(privacy', with'))
<1>1. UNCHANGED <<inOrder, thing>> /\ inOrder
  BY DEF Next, OnTime
<1>2. ASSUME NEW p \in Privacies, NEW W \in SUBSET Users, Create(p, W)
      PROVE  OnTime(s) /\ Leaves(privacy', with')
  <2>1. named = {} /\ recast' = recast /\ Leaves(p, W) /\ privacy' = p /\ with' = W
    BY <1>2 DEF Create, OInv
  <2> QED
    BY <1>1, <2>1 DEF OnTime, Leaves
<1>3. ASSUME NEW p \in Privacies, NEW W \in SUBSET Users, Edit(p, W)
      PROVE  OnTime(s) /\ Leaves(privacy', with')
  <2>1. /\ named' = named /\ Leaves(p, W) /\ privacy' = p /\ with' = W
        /\ recast' = (recast \/ (thing = "list" /\ p # privacy))
    BY <1>3 DEF Edit
  <2> QED
    BY <1>1, <2>1 DEF OnTime, Leaves
<1>4. CASE Delete
  BY <1>1, <1>4 DEF Delete, OnTime, Leaves
<1>5. ASSUME NEW u \in Users, Follow(u) \/ Unfollow(u) \/ Block(u) \/ Unblock(u)
      PROVE  UNCHANGED history
  BY <1>5 DEF Follow, Unfollow, Block, Unblock, Relate
<1>6. ASSUME NEW z \in Servers, NEW i \in DOMAIN net[z],
             (\E again \in BOOLEAN : Deliver(z, i, again)) \/ Lose(z, i)
      PROVE  UNCHANGED history
  BY <1>6 DEF Deliver, Lose
<1>7. UNCHANGED history => OnTime(s) /\ leftOut' = leftOut
  BY <1>1 DEF history, OnTime
<1> QED
  BY <1>2, <1>3, <1>4, <1>5, <1>6, <1>7 DEF Next

-----------------------------------------------------------------------------
(* What is sent to those on time *)

\* One more activity, after which all still came about in turn.
LEMMA OneMore ==
  ASSUME NEW q \in Seq(Activities), NEW a \in Activities
  PROVE  /\ q \o <<a>> \in Seq(Activities) /\ q \o <<a>> # <<>> /\ Len(q \o <<a>>) = Len(q) + 1
         /\ (q \o <<a>>)[Len(q) + 1] = a /\ \A j \in 1 .. Len(q) : (q \o <<a>>)[j] = q[j]
         /\ DOMAIN (q \o <<a>>) = 1 .. Len(q) + 1
OBVIOUS

LEMMA CreateExact ==
  ASSUME OInv, UNCHANGED <<inOrder, thing>>, NEW p \in Privacies, NEW W \in SUBSET Users,
         Create(p, W), NEW s \in Servers, OnTime(s), OnTime(s)', s \in Recipients(p, W)
  PROVE  Exact(s, net[s], copies[s])'
<1>0. PICK a : a = Activity("Create", OwnForm, p, W, 1)
  OBVIOUS
<1>1. /\ state = "none" /\ state' = "there" /\ privacy' = p /\ with' = W /\ version' = 1
      /\ named' = Homes(W) /\ copies' = copies
      /\ net' = [z \in Servers |-> net[z] \o FirstSent(z, p, W)]
  BY DEF Create
<1>2. /\ net[s] = <<>> /\ Other(copies[s]) = NoRow /\ Mine(copies[s]) = NoRow
  BY <1>1 DEF OInv, Exact, Following
<1>3. FirstSent(s, p, W) = <<>> \o <<a>>
  BY <1>0, <1>1 DEF OnTime, FirstSent
<1>4. net'[s] = <<a>>
  <2>1. net'[s] = <<>> \o (<<>> \o <<a>>)
    BY <1>1, <1>2, <1>3
  <2>2. <<>> \o (<<>> \o <<a>>) = <<a>>
    OBVIOUS
  <2> QED
    BY <2>1, <2>2
<1>5. /\ a.verb = "Create" /\ a.form = OwnForm' /\ a.with = W /\ a.version = 1
      /\ PrivacyOf(a.to, a.cc) = p
  BY <1>0, PrivacyComesThrough DEF Activity, OwnForm
<1>6. PICK q : q = net'[s]
  OBVIOUS
<1>7. q # <<>> /\ Len(q) = 1 /\ q[1] = a /\ DOMAIN q = {1}
  BY <1>4, <1>6
<1>8. InTurn(q)'
  BY <1>1, <1>5, <1>7 DEF InTurn
<1>9. Tells(a)'
  BY <1>1, <1>5 DEF Tells
<1>10. PICK c : c = copies'[s]
  OBVIOUS
<1>11. Mine(c)' = NoRow /\ Other(c)' = NoRow
  BY <1>1, <1>2, <1>10 DEF Mine, Other
<1>12. Following(Mine(c), q)'
  BY <1>5, <1>7, <1>11 DEF Following, NoRow, There
<1>13. Exact(s, q, c)'
  BY <1>1, <1>7, <1>8, <1>9, <1>11, <1>12 DEF Exact
<1> QED
  BY <1>6, <1>10, <1>13, ExactNow

LEMMA EditExact ==
  ASSUME OInv, UNCHANGED <<inOrder, thing>>, NEW p \in Privacies, NEW W \in SUBSET Users,
         Edit(p, W), NEW s \in Servers, OnTime(s), OnTime(s)', s \in Recipients(p, W)
  PROVE  Exact(s, net[s], copies[s])'
<1>0. PICK a : a = Activity("Update", OwnForm, p, W, version + 1)
  OBVIOUS
<1>1. /\ state = "there" /\ state' = "there" /\ privacy' = p /\ with' = W
      /\ version' = version + 1 /\ named' = named /\ copies' = copies
      /\ net' = [z \in Servers |-> net[z] \o Sent(z, "Update", p, W, version + 1)]
      /\ recast' = (recast \/ (thing = "list" /\ p # privacy))
  BY DEF Edit
<1>2. /\ Exact(s, net[s], copies[s]) /\ net[s] \in Seq(Activities)
      /\ version + 1 \in Versions
  BY DeliveryAssumption DEF OInv, IInv, TypeOK, Edit, Event, Versions
<1>3. thing = "list" => p = privacy
  BY <1>1 DEF OnTime
<1>4. net'[s] = net[s] \o <<a>>
  BY <1>0, <1>1 DEF Sent
<1>5. /\ a.verb = "Update" /\ a.form = OwnForm' /\ a.with = W /\ a.version = version'
      /\ PrivacyOf(a.to, a.cc) = p
  BY <1>0, <1>1, PrivacyComesThrough DEF Activity, OwnForm
<1>6. a \in Activities
  BY <1>0, <1>2, ActivityTyped, OwnFormTyped
<1>7. PICK q : q = net'[s]
  OBVIOUS
<1>8. PICK n : n = Len(net[s])
  OBVIOUS
<1>9. /\ q # <<>> /\ Len(q) = n + 1 /\ q[n + 1] = a /\ \A j \in 1 .. n : q[j] = net[s][j]
      /\ DOMAIN q = 1 .. n + 1 /\ n \in Nat /\ DOMAIN net[s] = 1 .. n
      /\ net[s] = <<>> <=> n = 0
  BY <1>2, <1>4, <1>6, <1>7, <1>8, OneMore
<1>10. ASSUME NEW j \in 1 .. n
       PROVE  /\ q[j].form = OwnForm' /\ q[j].verb # "Delete"
              /\ q[j].verb = "Create" => j = 1 /\ Homes(q[j].with) = named
              /\ thing = "list" => PrivacyOf(q[j].to, q[j].cc) = privacy
  BY <1>1, <1>2, <1>8, <1>9 DEF Exact, InTurn, OwnForm
<1>11. InTurn(q)'
  <2>1. ASSUME NEW j \in 1 .. n + 1
        PROVE  /\ q[j].form = OwnForm' /\ q[j].verb # "Delete"
               /\ q[j].verb = "Create" => j = 1 /\ Homes(q[j].with) = named'
               /\ thing' = "list" => PrivacyOf(q[j].to, q[j].cc) = privacy'
    <3>1. j \in 1 .. n \/ j = n + 1
      BY <1>9
    <3> QED
      BY <1>1, <1>3, <1>5, <1>9, <1>10, <3>1
  <2> QED
    BY <1>1, <1>9, <2>1 DEF InTurn
<1>12. Tells(a)'
  BY <1>1, <1>5 DEF Tells
<1>13. PICK c : c = copies[s]
  OBVIOUS
<1>14. Mine(c)' = Mine(c) /\ Other(c)' = NoRow /\ (Keeps(s)' <=> Keeps(s))
  BY <1>1, <1>2, <1>13 DEF Mine, Other, Keeps, Exact
<1>15. ASSUME Following(Mine(c), net[s])
       PROVE  Following(Mine(c), q)'
  <2>1. thing = "list" /\ There(Mine(c)) => Mine(c).privacy = privacy'
    BY <1>1, <1>3, <1>15 DEF Following
  <2>2. CASE n = 0
    <3>1. Mine(c) = AsItIs
      BY <1>1, <1>9, <1>15, <2>2 DEF Following
    <3>2. Mine(c).state = "there"
      BY <3>1 DEF AsItIs
    <3> QED
      BY <1>9, <1>14, <2>1, <3>2 DEF Following, There
  <2>3. CASE n # 0
    <3>1. q[1] = net[s][1] /\ net[s] # <<>>
      BY <1>9, <2>3
    <3> QED
      BY <1>9, <1>14, <1>15, <2>1, <3>1 DEF Following
  <2> QED
    BY <1>9, <2>2, <2>3
<1>16. (IF Keeps(s) THEN Following(Mine(c), q) ELSE Mine(c) = NoRow)'
  BY <1>2, <1>13, <1>14, <1>15 DEF Exact
<1>17. Exact(s, q, c)'
  BY <1>1, <1>9, <1>11, <1>12, <1>14, <1>16 DEF Exact
<1> QED
  BY <1>1, <1>7, <1>13, <1>17, ExactNow

LEMMA DeleteExact ==
  ASSUME OInv, UNCHANGED <<inOrder, thing>>, Delete, NEW s \in Servers, OnTime(s),
         s \in Recipients(privacy, with)
  PROVE  Exact(s, net[s], copies[s])'
<1>0. PICK a : a = Activity("Delete", OwnForm, privacy, with, version)
  OBVIOUS
<1>1. /\ state = "there" /\ state' = "gone"
      /\ UNCHANGED <<privacy, with, version, named, copies>>
      /\ net' = [z \in Servers |-> net[z] \o Sent(z, "Delete", privacy, with, version)]
  BY DEF Delete
<1>2. /\ Exact(s, net[s], copies[s]) /\ net[s] \in Seq(Activities)
      /\ version \in Versions /\ privacy \in Privacies /\ with \in SUBSET Users
  BY <1>1, DeliveryAssumption DEF OInv, IInv, TypeOK, Versions
<1>3. net'[s] = net[s] \o <<a>>
  BY <1>0, <1>1 DEF Sent
<1>4. a.verb = "Delete" /\ a.form = OwnForm'
  BY <1>0 DEF Activity, OwnForm
<1>5. a \in Activities
  BY <1>0, <1>2, ActivityTyped, OwnFormTyped
<1>6. PICK q : q = net'[s]
  OBVIOUS
<1>7. PICK n : n = Len(net[s])
  OBVIOUS
<1>8. /\ q # <<>> /\ Len(q) = n + 1 /\ q[n + 1] = a /\ \A j \in 1 .. n : q[j] = net[s][j]
      /\ DOMAIN q = 1 .. n + 1 /\ n \in Nat /\ DOMAIN net[s] = 1 .. n
      /\ net[s] = <<>> <=> n = 0
  BY <1>2, <1>3, <1>5, <1>6, <1>7, OneMore
<1>9. ASSUME NEW j \in 1 .. n
      PROVE  /\ q[j].form = OwnForm' /\ q[j].verb # "Delete"
             /\ q[j].verb = "Create" => j = 1 /\ Homes(q[j].with) = named
             /\ thing = "list" => PrivacyOf(q[j].to, q[j].cc) = privacy
  <2>1. InTurn(net[s]) /\ OwnForm' = OwnForm
    BY <1>2 DEF Exact, OwnForm
  <2>2. j \in DOMAIN net[s] /\ q[j] = net[s][j]
    BY <1>8
  <2> QED
    BY <1>1, <2>1, <2>2 DEF InTurn
<1>10. InTurn(q)'
  <2>1. ASSUME NEW j \in 1 .. n + 1
        PROVE  /\ q[j].form = OwnForm' /\ (q[j].verb = "Delete" <=> j = n + 1)
               /\ q[j].verb = "Create" => j = 1 /\ Homes(q[j].with) = named'
               /\ thing' = "list" /\ q[j].verb # "Delete" => PrivacyOf(q[j].to, q[j].cc) = privacy'
    <3>1. (j \in 1 .. n /\ j # n + 1) \/ j = n + 1
      BY <1>8
    <3>2. CASE j \in 1 .. n /\ j # n + 1
      BY <1>1, <1>9, <3>2
    <3>3. CASE j = n + 1
      BY <1>4, <1>8, <3>3
    <3> QED
      BY <3>1, <3>2, <3>3
  <2> QED
    BY <1>1, <1>8, <2>1 DEF InTurn
<1>11. PICK c : c = copies[s]
  OBVIOUS
<1>12. Mine(c)' = Mine(c) /\ Other(c)' = NoRow /\ (Keeps(s)' <=> Keeps(s))
  BY <1>1, <1>2, <1>11 DEF Mine, Other, Keeps, Exact
<1>13. ASSUME Following(Mine(c), net[s])
       PROVE  Following(Mine(c), q)'
  <2>1. thing = "list" /\ There(Mine(c)) => Mine(c).privacy = privacy'
    BY <1>1, <1>13 DEF Following
  <2>2. CASE n = 0
    BY <1>4, <1>8, <1>12, <2>1, <2>2 DEF Following
  <2>3. CASE n # 0
    <3>1. q[1] = net[s][1] /\ net[s] # <<>>
      BY <1>8, <2>3
    <3> QED
      BY <1>8, <1>12, <1>13, <2>1, <3>1 DEF Following
  <2> QED
    BY <1>8, <2>2, <2>3
<1>14. (IF Keeps(s) THEN Following(Mine(c), q) ELSE Mine(c) = NoRow)'
  BY <1>2, <1>11, <1>12, <1>13 DEF Exact
<1>15. Exact(s, q, c)'
  BY <1>1, <1>8, <1>10, <1>12, <1>14 DEF Exact
<1> QED
  BY <1>1, <1>6, <1>11, <1>15, ExactNow

-----------------------------------------------------------------------------
(* What those on time receive *)

\* The first activity of a queue is taken off it.
LEMMA FirstTaken ==
  ASSUME NEW S, NEW q \in Seq(S), 1 \in DOMAIN q
  PROVE  /\ RemoveAt(q, 1) \in Seq(S) /\ Len(RemoveAt(q, 1)) = Len(q) - 1
         /\ \A i \in 1 .. Len(q) - 1 : RemoveAt(q, 1)[i] = q[i + 1]
<1>1. RemoveAt(q, 1) \in Seq(S)
  BY Removed
<1>2. Len(q) \in Nat /\ Len(q) >= 1
  OBVIOUS
<1>3. SubSeq(q, 1, 0) = <<>>
  OBVIOUS
<1>4. SubSeq(q, 2, Len(q)) \in Seq(S) /\ Len(SubSeq(q, 2, Len(q))) = Len(q) - 1
  <2>1. \A i \in 2 .. Len(q) : q[i] \in S
    OBVIOUS
  <2>2. SubSeq(q, 2, Len(q)) \in Seq(S)
    BY <1>2, <2>1
  <2>3. Len(SubSeq(q, 2, Len(q))) = Len(q) - 1
    BY <1>2
  <2> QED
    BY <2>2, <2>3
<1>6. \A i \in 1 .. Len(q) - 1 : SubSeq(q, 2, Len(q))[i] = q[i + 1]
  BY <1>2
<1>7. RemoveAt(q, 1) = SubSeq(q, 1, 0) \o SubSeq(q, 2, Len(q))
  BY DEF RemoveAt
<1>8. RemoveAt(q, 1) = SubSeq(q, 2, Len(q))
  BY <1>3, <1>4, <1>7
<1> QED
  BY <1>1, <1>4, <1>6, <1>8

\* A server that keeps what it gets makes of its row what the verb says.
LEMMA KeepersTakeIn ==
  ASSUME NEW s, NEW a \in Activities, NEW c \in [note : Row, own : Row], NEW d \in After(s, a, c),
         a.form = OwnForm, Other(c) = NoRow, Keeps(s), a.verb = "Create" => Homes(a.with) = named
  PROVE  /\ Other(d) = NoRow
         /\ a.verb = "Create" => Mine(d) = Set(a, Mine(c))
         /\ a.verb = "Update" => Mine(d) = IF There(Mine(c)) THEN Set(a, Mine(c)) ELSE NoRow
         /\ a.verb = "Delete" => Mine(d) = Ended(Mine(c))
<1>1. ~There(NoRow) /\ Ended(NoRow) = NoRow
  BY DEF There, NoRow, Ended
<1>2. \A x, y : Rows(x, y).note = x /\ Rows(x, y).own = y
  BY DEF Rows
<1>3. a.verb \in {"Create", "Update", "Delete"}
  BY DEF Activities
<1>4. CASE thing = "reply"
  <2>1. /\ \A z : Mine(z) = z.note /\ Other(z) = z.own
        /\ a.form = "note" /\ c.own = NoRow
    BY <1>4 DEF Mine, Other, OwnForm
  <2>2. CASE a.verb = "Create"
    <3>1. ~Ignores(s, a)
      BY <1>4, <2>2 DEF Ignores, Keeps
    <3>2. d = Rows(Set(a, c.note), c.own)
      BY <1>1, <2>1, <2>2, <3>1 DEF After, Created
    <3> QED
      BY <1>2, <2>1, <2>2, <3>2
  <2>3. CASE a.verb = "Update"
    <3>1. d = Rows(IF There(c.note) THEN Set(a, c.note) ELSE NoRow, c.own)
      BY <2>1, <2>3 DEF After, Updated
    <3> QED
      BY <1>2, <2>1, <2>3, <3>1
  <2>4. CASE a.verb = "Delete"
    <3>1. d = Rows(Ended(c.note), Ended(c.own))
      BY <1>1, <2>1, <2>4 DEF After, Deleted
    <3> QED
      BY <1>1, <1>2, <2>1, <2>4, <3>1
  <2> QED
    BY <1>3, <2>2, <2>3, <2>4
<1>5. CASE thing # "reply"
  <2>1. /\ \A z : Mine(z) = z.own /\ Other(z) = z.note
        /\ a.form = "own" /\ c.note = NoRow
    BY <1>5 DEF Mine, Other, OwnForm
  <2>2. CASE a.verb = "Create"
    <3>1. a.form = "own"
      BY <2>1
    <3>2. d \in Created(s, a, c)
      BY <2>2 DEF After
    <3>3. d = Rows(c.note, Set(a, c.own))
      BY <3>1, <3>2 DEF Created, Ignores
    <3> QED
      BY <1>2, <2>1, <2>2, <3>3
  <2>3. CASE a.verb = "Update"
    <3>1. d = Rows(c.note, IF There(c.own) THEN Set(a, c.own) ELSE NoRow)
      BY <2>1, <2>3 DEF After, Updated
    <3> QED
      BY <1>2, <2>1, <2>3, <3>1
  <2>4. CASE a.verb = "Delete"
    <3>1. d = Rows(Ended(c.note), Ended(c.own))
      BY <1>1, <2>1, <2>4 DEF After, Deleted
    <3> QED
      BY <1>1, <1>2, <2>1, <2>4, <3>1
  <2> QED
    BY <1>3, <2>2, <2>3, <2>4
<1> QED
  BY <1>4, <1>5

\* One that has no use for a reply stays without it.
LEMMA OthersStayWithout ==
  ASSUME NEW s, NEW a \in Activities, NEW c, NEW d \in After(s, a, c),
         a.form = OwnForm, Other(c) = NoRow, Mine(c) = NoRow, ~Keeps(s),
         a.verb = "Create" => Homes(a.with) = named
  PROVE  Other(d) = NoRow /\ Mine(d) = NoRow
<1>1. ~There(NoRow) /\ Ended(NoRow) = NoRow
  BY DEF There, NoRow, Ended
<1>2. \A x, y : Rows(x, y).note = x /\ Rows(x, y).own = y
  BY DEF Rows
<1>3. a.verb \in {"Create", "Update", "Delete"}
  BY DEF Activities
<1>4. thing = "reply" /\ s \notin ParentAt /\ s \notin named
  BY DEF Keeps
<1>5. /\ \A z : Mine(z) = z.note /\ Other(z) = z.own
      /\ a.form = "note" /\ c.own = NoRow /\ c.note = NoRow
  BY <1>4 DEF Mine, Other, OwnForm
<1>6. CASE a.verb = "Create"
  <2>1. Ignores(s, a)
    BY <1>4, <1>5, <1>6 DEF Ignores
  <2>2. d = c
    BY <1>5, <1>6, <2>1 DEF After, Created
  <2> QED
    BY <1>5, <2>2
<1>7. CASE a.verb = "Update"
  <2>1. d = Rows(NoRow, NoRow)
    BY <1>1, <1>5, <1>7 DEF After, Updated
  <2> QED
    BY <1>2, <1>5, <2>1
<1>8. CASE a.verb = "Delete"
  <2>1. d = Rows(NoRow, NoRow)
    BY <1>1, <1>5, <1>8 DEF After, Deleted
  <2> QED
    BY <1>2, <1>5, <2>1
<1> QED
  BY <1>3, <1>6, <1>7, <1>8

\* What an activity in turn makes of a row that follows a queue, whether the
\* activity is sent again or not.
LEMMA FollowsOn ==
  ASSUME NEW q \in Seq(Activities), 1 \in DOMAIN q, NEW r \in Row, NEW x \in Row,
         InTurn(q), Following(r, q), state = "there" => Tells(q[Len(q)]), state \in {"there", "gone"},
         q[1].verb = "Create" => x = Set(q[1], r),
         q[1].verb = "Update" => x = IF There(r) THEN Set(q[1], r) ELSE NoRow,
         q[1].verb = "Delete" => x = Ended(r)
  PROVE  Following(x, q) /\ Following(x, RemoveAt(q, 1))
<1>1. PICK a : a = q[1]
  OBVIOUS
<1>2. PICK t : t = RemoveAt(q, 1)
  OBVIOUS
<1>3. PICK n : n = Len(q)
  OBVIOUS
<1>4. /\ n \in Nat /\ n >= 1 /\ a \in Activities /\ q # <<>>
      /\ t \in Seq(Activities) /\ Len(t) = n - 1 /\ \A i \in 1 .. n - 1 : t[i] = q[i + 1]
  BY <1>1, <1>2, <1>3, FirstTaken
<1>5. /\ a.verb \in {"Create", "Update", "Delete"}
      /\ a.verb = "Delete" <=> n = 1 /\ state = "gone"
      /\ thing = "list" /\ a.verb # "Delete" => PrivacyOf(a.to, a.cc) = privacy
  BY <1>1, <1>3, <1>4 DEF InTurn, Activities
<1>6. /\ r.state = "gone" => a.verb = "Delete"
      /\ ~There(r) => a.verb \in {"Create", "Delete"}
      /\ thing = "list" /\ There(r) => r.privacy = privacy
  BY <1>1, <1>4 DEF Following
<1>7. t = <<>> <=> n = 1
  BY <1>4
<1>8. CASE a.verb = "Delete"
  <2>1. x = Ended(r) /\ n = 1 /\ state = "gone"
    BY <1>1, <1>5, <1>8
  <2>2. x.state # "there" /\ (thing = "list" => ~There(x))
    <3>1. CASE thing = "list" \/ ~There(r)
      BY <2>1, <3>1 DEF Ended, NoRow, There
    <3>2. CASE ~(thing = "list" \/ ~There(r))
      BY <2>1, <3>2 DEF Ended, Row
    <3> QED
      BY <3>1, <3>2
  <2>3. Following(x, q)
    BY <1>1, <1>4, <1>8, <2>2 DEF Following
  <2>4. Following(x, t)
    BY <1>7, <2>1, <2>2 DEF Following
  <2> QED
    BY <1>2, <2>3, <2>4
<1>9. CASE a.verb # "Delete"
  <2>1. x = Set(a, r) /\ r.state # "gone" /\ r.state \in {"none", "there", "gone"}
    BY <1>1, <1>5, <1>6, <1>9 DEF Row
  <2>2. /\ x.state = "there" /\ x.privacy = Stored(a, r) /\ x.with = a.with /\ x.version = a.version
        /\ x = [state |-> "there", privacy |-> Stored(a, r), with |-> a.with, version |-> a.version]
    BY <2>1 DEF Set, Written, There
  <2>3. thing = "list" => x.privacy = privacy
    BY <1>5, <1>6, <1>9, <2>2 DEF Stored
  <2>4. Following(x, q)
    BY <1>1, <1>4, <1>9, <2>2, <2>3 DEF Following, There
  <2>5. CASE n = 1
    <3>1. state # "gone"
      BY <1>5, <1>9, <2>5
    <3>2. state = "there" => x = AsItIs
      <4>1. state = "there" => Tells(a)
        BY <1>1, <1>3, <2>5
      <4>2. state = "there" => Stored(a, r) = privacy
        BY <2>2, <2>3, <4>1 DEF Stored, Tells
      <4> QED
        BY <2>2, <4>1, <4>2 DEF AsItIs, Tells
    <3>3. state = "there"
      BY <3>1
    <3>4. Following(x, t)
      BY <1>7, <2>3, <2>5, <3>2, <3>3 DEF Following
    <3> QED
      BY <1>2, <2>4, <3>4
  <2>6. CASE n # 1
    <3>1. Following(x, t)
      BY <1>7, <2>2, <2>3, <2>6 DEF Following, There
    <3> QED
      BY <1>2, <2>4, <3>1
  <2> QED
    BY <2>5, <2>6
<1> QED
  BY <1>8, <1>9

\* What is left of a queue in turn is in turn, and ends the same.
LEMMA StillInTurn ==
  ASSUME NEW q \in Seq(Activities), 1 \in DOMAIN q, InTurn(q)
  PROVE  /\ InTurn(RemoveAt(q, 1))
         /\ RemoveAt(q, 1) # <<>> => RemoveAt(q, 1)[Len(RemoveAt(q, 1))] = q[Len(q)]
<1>1. PICK t : t = RemoveAt(q, 1)
  OBVIOUS
<1>2. PICK n : n = Len(q)
  OBVIOUS
<1>3. /\ n \in Nat /\ n >= 1 /\ t \in Seq(Activities) /\ Len(t) = n - 1
      /\ \A i \in 1 .. n - 1 : t[i] = q[i + 1]
  BY <1>1, <1>2, FirstTaken
<1>4. ASSUME NEW i \in 1 .. n - 1
      PROVE  /\ t[i].form = OwnForm /\ t[i].verb # "Create"
             /\ t[i].verb = "Delete" <=> i = n - 1 /\ state = "gone"
             /\ thing = "list" /\ t[i].verb # "Delete" => PrivacyOf(t[i].to, t[i].cc) = privacy
  <2>1. i + 1 \in DOMAIN q /\ i + 1 # 1 /\ t[i] = q[i + 1] /\ (i = n - 1 <=> i + 1 = n)
    BY <1>2, <1>3
  <2> QED
    BY <1>2, <2>1 DEF InTurn
<1>5. DOMAIN t = 1 .. n - 1
  BY <1>3
<1>6. InTurn(t)
  BY <1>3, <1>4, <1>5 DEF InTurn
<1>7. t # <<>> => n - 1 \in 1 .. n - 1
  BY <1>3
<1>8. t # <<>> => t[Len(t)] = q[n]
  BY <1>3, <1>7
<1> QED
  BY <1>1, <1>2, <1>6, <1>8

LEMMA DeliverExact ==
  ASSUME OInv, UNCHANGED <<inOrder, thing>>, NEW z \in Servers, NEW i \in DOMAIN net[z],
         (\E again \in BOOLEAN : Deliver(z, i, again)) \/ Lose(z, i),
         NEW s \in Servers, OnTime(s)
  PROVE  Exact(s, net[s], copies[s])'
<1>1. inOrder /\ TypeOK /\ Exact(s, net[s], copies[s])
  BY DEF OnTime, OInv, IInv
<1>2. PICK again \in BOOLEAN : Deliver(z, i, again)
  BY <1>1 DEF Lose
<1>3. /\ i = 1 /\ net' = (IF again THEN net ELSE [net EXCEPT ![z] = RemoveAt(@, i)])
      /\ UNCHANGED <<state, privacy, with, version, named>>
  BY <1>1, <1>2 DEF Deliver, object, history
<1>4. PICK d \in After(z, net[z][i], copies[z]) : copies' = [copies EXCEPT ![z] = d]
  BY <1>2 DEF Deliver
<1>5. net[s] \in Seq(Activities) /\ copies[s] \in [note : Row, own : Row]
  BY <1>1 DEF TypeOK
<1>6. CASE s # z
  <2>1. net'[s] = net[s] /\ copies'[s] = copies[s]
    BY <1>1, <1>3, <1>4, <1>6 DEF TypeOK
  <2>2. PICK q : q = net[s]
    OBVIOUS
  <2>3. PICK c : c = copies[s]
    OBVIOUS
  <2>4. Exact(s, q, c)'
    BY <1>1, <1>3, <2>2, <2>3, ExactElsewhere
  <2> QED
    BY <2>1, <2>2, <2>3, <2>4, ExactNow
<1>7. CASE s = z
  <2>1. PICK q : q = net[s]
    OBVIOUS
  <2>2. PICK c : c = copies[s]
    OBVIOUS
  <2>3. PICK a : a = q[1]
    OBVIOUS
  <2>4. /\ q \in Seq(Activities) /\ 1 \in DOMAIN q /\ q # <<>> /\ a \in Activities
        /\ c \in [note : Row, own : Row] /\ d \in After(s, a, c) /\ Exact(s, q, c)
        /\ state \in {"there", "gone"}
    <3>1. q # <<>> /\ 1 \in DOMAIN q /\ q[1] \in Activities
      BY <1>3, <1>5, <1>7, <2>1
    <3>2. state # "none"
      BY <1>1, <2>1, <3>1 DEF Exact
    <3> QED
      BY <1>1, <1>3, <1>4, <1>5, <1>7, <2>1, <2>2, <2>3, <3>1, <3>2 DEF TypeOK
  <2>5. /\ InTurn(q) /\ Other(c) = NoRow /\ (state = "there" => Tells(q[Len(q)]))
        /\ IF Keeps(s) THEN Following(Mine(c), q) ELSE Mine(c) = NoRow
    BY <2>4 DEF Exact
  <2>6. a.form = OwnForm /\ (a.verb = "Create" => Homes(a.with) = named)
    BY <2>3, <2>4, <2>5 DEF InTurn
  <2>7. copies'[s] = d /\ net'[s] \in {q, RemoveAt(q, 1)}
    BY <1>1, <1>3, <1>4, <1>7, <2>1 DEF TypeOK
  <2>8. /\ Other(d) = NoRow
        /\ IF Keeps(s) THEN Following(Mine(d), q) /\ Following(Mine(d), RemoveAt(q, 1))
           ELSE Mine(d) = NoRow
    <3>1. CASE Keeps(s)
      <4>1. /\ Other(d) = NoRow
            /\ a.verb = "Create" => Mine(d) = Set(a, Mine(c))
            /\ a.verb = "Update" => Mine(d) = IF There(Mine(c)) THEN Set(a, Mine(c)) ELSE NoRow
            /\ a.verb = "Delete" => Mine(d) = Ended(Mine(c))
        BY <2>4, <2>5, <2>6, <3>1, KeepersTakeIn
      <4>2. Mine(c) \in Row /\ Following(Mine(c), q)
        BY <2>4, <2>5, <3>1 DEF Mine
      <4>3. Mine(d) \in Row
        <5>1. TypeOK' /\ Row' = Row
          BY ArriveFits, SameSets DEF OInv, IInv
        <5>2. d \in [note : Row, own : Row]
          BY <1>7, <2>7, <5>1 DEF TypeOK
        <5> QED
          BY <5>2 DEF Mine
      <4> QED
        BY <2>3, <2>4, <2>5, <3>1, <4>1, <4>2, <4>3, FollowsOn
    <3>2. CASE ~Keeps(s)
      BY <2>4, <2>5, <2>6, <3>2, OthersStayWithout
    <3> QED
      BY <3>1, <3>2
  <2>9. PICK p : p = net'[s]
    OBVIOUS
  <2>10. Exact(s, p, d)
    <3>1. CASE p = q
      BY <2>4, <2>5, <2>8, <3>1 DEF Exact
    <3>2. CASE p = RemoveAt(q, 1)
      <4>1. InTurn(p) /\ (p # <<>> => p[Len(p)] = q[Len(q)])
        BY <2>4, <2>5, <3>2, StillInTurn
      <4> QED
        BY <2>4, <2>5, <2>8, <3>2, <4>1 DEF Exact
    <3> QED
      BY <2>7, <2>9, <3>1, <3>2
  <2>11. Exact(s, p, d)'
    BY <1>3, <2>10, ExactElsewhere
  <2> QED
    BY <2>7, <2>9, <2>11, ExactNow
<1> QED
  BY <1>6, <1>7

LEMMA NextOInv == OInv /\ [Next]_vars => OInv'
<1> SUFFICES ASSUME OInv, [Next]_vars PROVE OInv'
  OBVIOUS
<1>1. IInv'
  BY NextIInv DEF OInv
<1>2. ASSUME UNCHANGED <<inOrder, thing, state, privacy, with, version, net, copies, named, leftOut, recast>>
      PROVE  OInv'
  <2>1. ASSUME NEW s \in Servers, OnTime(s)' PROVE Exact(s, net[s], copies[s])'
    <3>1. PICK q : q = net[s]
      OBVIOUS
    <3>2. PICK c : c = copies[s]
      OBVIOUS
    <3>3. Exact(s, q, c)
      BY <1>2, <2>1, <3>1, <3>2 DEF OInv, OnTime
    <3>4. Exact(s, q, c)'
      BY <1>2, <3>3, ExactElsewhere
    <3> QED
      BY <1>2, <3>1, <3>2, <3>4, ExactNow
  <2> QED
    BY <1>1, <1>2, <2>1 DEF OInv
<1>3. CASE Next
  <2>1. UNCHANGED <<inOrder, thing>>
    BY <1>3 DEF Next
  <2>2. ASSUME NEW s \in Servers, OnTime(s)'
        PROVE  OnTime(s) /\ (Leaves(privacy', with') => s \in Recipients(privacy', with'))
    <3>1. OnTime(s)
      BY <1>3, <2>2, OnTimeBefore
    <3> QED
      BY <2>2, <3>1 DEF OnTime, Leaves
  <2>3. ASSUME NEW p \in Privacies, NEW W \in SUBSET Users, Create(p, W)
        PROVE  OInv'
    <3>1. Leaves(privacy', with') /\ privacy' = p /\ with' = W /\ state' # "none"
      BY <2>3 DEF Create
    <3>2. ASSUME NEW s \in Servers, OnTime(s)' PROVE Exact(s, net[s], copies[s])'
      BY <2>1, <2>2, <2>3, <3>1, <3>2, CreateExact
    <3> QED
      BY <1>1, <3>1, <3>2 DEF OInv
  <2>4. ASSUME NEW p \in Privacies, NEW W \in SUBSET Users, Edit(p, W)
        PROVE  OInv'
    <3>1. Leaves(privacy', with') /\ privacy' = p /\ with' = W /\ state' # "none"
      BY <2>4 DEF Edit
    <3>2. ASSUME NEW s \in Servers, OnTime(s)' PROVE Exact(s, net[s], copies[s])'
      BY <2>1, <2>2, <2>4, <3>1, <3>2, EditExact
    <3> QED
      BY <1>1, <3>1, <3>2 DEF OInv
  <2>5. CASE Delete
    <3>1. Leaves(privacy', with') /\ privacy' = privacy /\ with' = with /\ state' # "none"
      BY <2>5 DEF Delete
    <3>2. ASSUME NEW s \in Servers, OnTime(s)' PROVE Exact(s, net[s], copies[s])'
      BY <2>1, <2>2, <2>5, <3>1, <3>2, DeleteExact
    <3> QED
      BY <1>1, <3>1, <3>2 DEF OInv
  <2>6. ASSUME NEW u \in Users, Follow(u) \/ Unfollow(u) \/ Block(u) \/ Unblock(u)
        PROVE  OInv'
    <3>1. UNCHANGED <<object, net, copies, history>>
      BY <2>6 DEF Follow, Unfollow, Block, Unblock, Relate
    <3> QED
      BY <1>2, <2>1, <3>1 DEF object, history
  <2>7. ASSUME NEW z \in Servers, NEW i \in DOMAIN net[z],
               (\E again \in BOOLEAN : Deliver(z, i, again)) \/ Lose(z, i)
        PROVE  OInv'
    <3>1. UNCHANGED <<state, named>>
      BY <2>7 DEF Deliver, Lose, object, history
    <3>2. ASSUME NEW s \in Servers, OnTime(s)' PROVE Exact(s, net[s], copies[s])'
      BY <2>1, <2>2, <2>7, <3>2, DeliverExact
    <3> QED
      BY <1>1, <3>1, <3>2 DEF OInv
  <2> QED
    BY <1>3, <2>3, <2>4, <2>5, <2>6, <2>7 DEF Next
<1>4. CASE UNCHANGED vars
  BY <1>2, <1>4 DEF vars, object, history
<1> QED
  BY <1>3, <1>4

\* When all that was sent to a server has arrived in order, once or more often,
\* its users are shown of the object what they would be shown at home, or nothing
\* of a reply that the server has no use for; so long as no event passed the
\* server over, the privacy of a list stays, and no comment came as a Note too.
THEOREM CopiesArrive == Spec => []CopiesAreExact
<1>1. OInv => CopiesAreExact
  <2> SUFFICES ASSUME OInv, NEW u \in Users, OnTime(At[u]), net[At[u]] = <<>>
               PROVE  ShownAt(u) = IF thing = "reply" /\ At[u] \notin ParentAt \cup named THEN {}
                                   ELSE Shown(u, state, privacy, with, version)
    BY DEF CopiesAreExact, OnTime
  <2>1. PICK s \in Servers : s = At[u]
    BY DeliveryAssumption
  <2>2. PICK c : c = copies[s]
    OBVIOUS
  <2>3. Exact(s, <<>>, c) /\ state \in {"none", "there", "gone"} /\ c \in [note : Row, own : Row]
    BY <2>1, <2>2 DEF OInv, IInv, TypeOK
  <2>4. PICK r : r = Mine(c)
    OBVIOUS
  <2>5. {c.note, c.own} = {r, NoRow} /\ ~There(NoRow)
    BY <2>3, <2>4 DEF Exact, Mine, Other, There, NoRow
  <2>6. ShownAt(u) = IF There(r) THEN Shown(u, r.state, r.privacy, r.with, r.version) ELSE {}
    BY <2>1, <2>2, <2>5 DEF ShownAt
  <2>7. CASE ~Keeps(s)
    <3>1. r = NoRow
      BY <2>3, <2>4, <2>7 DEF Exact
    <3> QED
      BY <2>1, <2>5, <2>6, <2>7, <3>1 DEF Keeps
  <2>8. CASE Keeps(s)
    <3>1. Following(r, <<>>)
      BY <2>3, <2>4, <2>8 DEF Exact
    <3>2. CASE state = "there"
      <4>1. r = AsItIs
        BY <3>1, <3>2 DEF Following
      <4>2. /\ r.state = "there" /\ r.privacy = privacy /\ r.with = with /\ r.version = version
            /\ There(r)
        BY <4>1 DEF AsItIs, There
      <4> QED
        BY <2>1, <2>6, <2>8, <3>2, <4>2 DEF Keeps
    <3>3. CASE state # "there"
      <4>1. r.state # "there"
        BY <3>1, <3>3 DEF Following
      <4> QED
        BY <2>1, <2>6, <2>8, <3>3, <4>1 DEF Keeps, Shown
    <3> QED
      BY <3>2, <3>3
  <2> QED
    BY <2>7, <2>8
<1> QED
  BY <1>1, InitOInv, NextOInv, PTL DEF Spec

-----------------------------------------------------------------------------
(* Feeds: what they hold, and how long they are                              *)

StatusTasks ==
  {t \in [do : {"add_status", "remove_status", "handle_boost"}, user : People,
          of : Feeds!Statuses] : t.user = Feeds!By[t.of]}
UserTasks   == [do : {"add_user_statuses", "remove_user_statuses"}, user : Readers, of : People]
FilmTasks   == [do : {"add_film_statuses", "remove_film_statuses"}, user : Readers, of : Films]
Chores ==
  {t \in StatusTasks : t.do = "handle_boost" => Feeds!Boosted[t.of] # 0}
    \cup UserTasks \cup FilmTasks

Writes == [add : SUBSET (Readers \X Feeds!Statuses), drop : SUBSET (Readers \X Feeds!Statuses)]

\* The variables have their types, and boosts have no tombstones.
FeedsTyped ==
  /\ scene \in Scenes
  /\ posted \subseteq Feeds!Statuses /\ deleted \subseteq posted
  /\ \A s \in deleted : Feeds!Boosted[s] = 0
  /\ st_privacy \in [Feeds!Statuses -> Feeds!Privacies]
  /\ st_follows \subseteq People \X People /\ st_blocks \subseteq People \X People
  /\ shelved \subseteq Readers \X Films /\ filmBlocks \subseteq Readers \X Films
  /\ feed \in [Readers -> SUBSET Feeds!Statuses]
  /\ \A v \in Readers : Cardinality(feed[v]) < Feeds!MaxLength
  /\ st_queue \in Seq(Chores)
  /\ st_work \in [Clerks -> Writes]
  /\ st_events \in 0 .. scene.maxEvents
  /\ everFollowed \subseteq People \X People

\* Counting is the same for feeds as for all else.
LEMMA SameCount == ASSUME NEW S PROVE Feeds!Cardinality(S) = Cardinality(S)
BY DEF Cardinality, Feeds!Cardinality

LEMMA SceneIs ==
  ASSUME scene \in Scenes
  PROVE  /\ scene.n \in Nat /\ Feeds!MaxLength \in Nat /\ Feeds!MaxLength # 0
         /\ scene.maxEvents \in Nat
         /\ Feeds!By \in [Feeds!Statuses -> People]
         /\ scene.privacy \in [Feeds!Statuses -> Feeds!Privacies]
         /\ Feeds!Parent \in [Feeds!Statuses -> 0 .. scene.n]
         /\ Feeds!Boosted \in [Feeds!Statuses -> 0 .. scene.n]
         /\ Feeds!Mentions \in [Feeds!Statuses -> SUBSET People] /\ scene.inOrder \in BOOLEAN
         /\ Feeds!Stream \in {"home", "local", "films"}
         /\ scene.inOrder => Feeds!Orderly(scene)
         /\ Readers \subseteq People
BY SceneAssumption DEF Feeds!IsScene, Feeds!MaxLength, Feeds!By, Feeds!Statuses, Feeds!Parent,
   Feeds!Boosted, Feeds!Mentions, Feeds!Stream

LEMMA StatusesFew ==
  ASSUME scene \in Scenes, NEW S \in SUBSET Feeds!Statuses
  PROVE  IsFiniteSet(S) /\ Cardinality(S) \in Nat /\ Cardinality(S) <= scene.n
<1>1. scene.n \in Nat
  BY SceneIs
<1>2. IsFiniteSet(1 .. scene.n) /\ Cardinality(1 .. scene.n) = scene.n
  BY <1>1, FS_Interval
<1> QED
  BY <1>2, FS_Subset, FS_CardinalityType DEF Feeds!Statuses

\* The k newest are k at most.
LEMMA NewestFew ==
  ASSUME scene \in Scenes, NEW S \in SUBSET Feeds!Statuses, NEW k \in Nat
  PROVE  Feeds!Newest(S, k) \subseteq S /\ Cardinality(Feeds!Newest(S, k)) <= k
<1> DEFINE N == Feeds!Newest(S, k)
           Newer(s) == {t \in S : t > s}
<1>1. N \subseteq S /\ S \subseteq Nat /\ \A s \in N : Cardinality(Newer(s)) < k
  BY SceneIs, SameCount DEF Feeds!Newest, Feeds!Statuses
<1> HIDE DEF N
<1>2. IsFiniteSet(N) /\ Cardinality(N) \in Nat /\ \A s :
        IsFiniteSet(Newer(s)) /\ Cardinality(Newer(s)) \in Nat
  <2>1. N \in SUBSET Feeds!Statuses /\ \A s : Newer(s) \in SUBSET Feeds!Statuses
    BY <1>1
  <2> QED
    BY <2>1, StatusesFew
<1>3. CASE N = {}
  BY <1>1, <1>3, FS_EmptySet DEF N
<1>4. CASE N # {}
  <2>1. PICK m \in N : \A c \in N : ~(<<c, m>> \in OpToRel(<, Nat))
    <3>1. N \subseteq Nat
      BY <1>1
    <3> QED
      BY <1>4, <3>1, NatLessThanWellFounded, WFMin
  <2>2. \A c \in N : c # m => c > m
    <3>1. ASSUME NEW c \in N, c # m PROVE c > m
      <4>1. c \in Nat /\ m \in Nat /\ ~(c < m)
        BY <1>1, <2>1 DEF OpToRel
      <4> QED
        BY <3>1, <4>1
    <3> QED
      BY <3>1
  <2>3. N \ {m} \subseteq Newer(m)
    BY <1>1, <2>2
  <2>4. Cardinality(N \ {m}) = Cardinality(N) - 1
    BY <1>2, FS_RemoveElement
  <2>5. Cardinality(N \ {m}) <= Cardinality(Newer(m))
    <3> HIDE DEF Newer
    <3> QED
      BY <1>2, <2>3, FS_Subset
  <2>6. PICK a, b \in Nat : a = Cardinality(N) /\ b = Cardinality(Newer(m)) /\ a - 1 <= b /\ b < k
    BY <1>1, <1>2, <2>4, <2>5
  <2>7. Cardinality(N) <= k
    BY <2>6
  <2> QED
    BY <1>1, <2>7 DEF N
<1> QED
  BY <1>3, <1>4

\* Nothing is cut if there is room for all statuses.
LEMMA NewestAll ==
  ASSUME scene \in Scenes, NEW S \in SUBSET Feeds!Statuses, NEW k \in Nat, scene.n <= k
  PROVE  Feeds!Newest(S, k) = S
<1>1. ASSUME NEW s \in S PROVE Cardinality({t \in S : t > s}) < k
  <2>1. {t \in S : t > s} \subseteq Feeds!Statuses \ {s} /\ s \in Feeds!Statuses
    <3>1. s \in Feeds!Statuses /\ s \in Nat
      BY SceneIs DEF Feeds!Statuses
    <3>2. \A t \in S : t > s => t # s
      BY <3>1
    <3> QED
      BY <3>1, <3>2
  <2>2. /\ IsFiniteSet(Feeds!Statuses) /\ Cardinality(Feeds!Statuses) \in Nat
        /\ Cardinality(Feeds!Statuses) <= scene.n
    BY StatusesFew
  <2>3. /\ Cardinality(Feeds!Statuses \ {s}) = Cardinality(Feeds!Statuses) - 1
        /\ IsFiniteSet(Feeds!Statuses \ {s})
    BY <2>1, <2>2, FS_RemoveElement
  <2>4. /\ Cardinality({t \in S : t > s}) <= Cardinality(Feeds!Statuses \ {s})
        /\ Cardinality({t \in S : t > s}) \in Nat
    BY <2>1, <2>3, FS_Subset, FS_CardinalityType
  <2>5. scene.n \in Nat
    BY SceneIs
  <2> QED
    BY <2>2, <2>3, <2>4, <2>5
<1> QED
  BY <1>1, SameCount DEF Feeds!Newest

\* What an audience and a selection are of.
LEMMA AudienceHere ==
  ASSUME scene \in Scenes, NEW s, NEW whole \in BOOLEAN
  PROVE  Feeds!Audience(s, whole) \subseteq Readers
BY SceneIs DEF Feeds!Audience

LEMMA ChosenPosted ==
  ASSUME NEW v, NEW levels, NEW f, NEW S
  PROVE /\  /\ Feeds!Visible(v, levels) \subseteq posted \ deleted
        /\ Feeds!Selected(v) \subseteq posted \ deleted
        /\ Feeds!AboutFilm(f, S) \subseteq S
        /\ Feeds!SeenOf(v, f) \subseteq posted \ deleted /\ Feeds!WrittenBy(v, f) \subseteq posted
BY DEF Feeds!Visible, Feeds!Selected, Feeds!AboutFilm, Feeds!SeenOf, Feeds!WrittenBy

\* What a worker reads.
LEMMA ReadsTyped ==
  ASSUME FeedsTyped, NEW t \in Chores
  PROVE  Feeds!Reads(t) \in Writes
<1>0. posted \subseteq Feeds!Statuses /\ scene \in Scenes
  BY DEF FeedsTyped
<1>1. ASSUME NEW V \in SUBSET Readers, NEW S \in SUBSET Feeds!Statuses
      PROVE  /\ Feeds!Adding(V, S) \in Writes /\ Feeds!Dropping(V, S) \in Writes
             /\ Feeds!Nothing \in Writes
  BY DEF Feeds!Adding, Feeds!Dropping, Feeds!Nothing, Writes
<1>2. CASE t.do \in {"add_status", "remove_status", "handle_boost"}
  <2>1. t \in StatusTasks /\ (t.do = "handle_boost" => Feeds!Boosted[t.of] # 0)
    BY <1>2 DEF Chores, UserTasks, FilmTasks
  <2>2. /\ {t.of} \in SUBSET Feeds!Statuses
        /\ (t.do = "handle_boost" => Feeds!Superseded(t.of) \in SUBSET Feeds!Statuses)
    <3>1. t.of \in Feeds!Statuses
      BY <2>1 DEF StatusTasks
    <3>2. Feeds!Boosted[t.of] \in 0 .. scene.n /\ scene.n \in Nat
      BY <1>0, <3>1, SceneIs
    <3>3. Feeds!Boosted[t.of] # 0 => Feeds!Boosted[t.of] \in Feeds!Statuses
      BY <3>2 DEF Feeds!Statuses
    <3> QED
      BY <1>0, <2>1, <3>1, <3>3 DEF Feeds!Superseded
  <2>3. /\ Feeds!Audience(t.of, TRUE) \in SUBSET Readers
        /\ Feeds!Audience(t.of, FALSE) \in SUBSET Readers
    BY <1>0, AudienceHere
  <2> QED
    BY <1>1, <1>2, <2>2, <2>3 DEF Feeds!Reads
<1>3. CASE t.do \in {"add_user_statuses", "remove_user_statuses"}
  <2>1. t.user \in Readers
    BY <1>3 DEF Chores, UserTasks, StatusTasks, FilmTasks
  <2>2. /\ Feeds!Newest(Feeds!SeenOf(t.user, t.of), Feeds!MaxLength) \in SUBSET Feeds!Statuses
        /\ Feeds!Newest(Feeds!WrittenBy(t.user, t.of), Feeds!MaxLength) \in SUBSET Feeds!Statuses
    BY <1>0, ChosenPosted DEF Feeds!Newest
  <2>3. {t.user} \in SUBSET Readers
    BY <2>1
  <2> QED
    BY <1>1, <1>3, <2>2, <2>3 DEF Feeds!Reads
<1>4. CASE t.do \in {"add_film_statuses", "remove_film_statuses"}
  <2>1. t.user \in Readers
    BY <1>4 DEF Chores, UserTasks, StatusTasks, FilmTasks
  <2>2. /\ Feeds!AboutFilm(t.of, Feeds!Selected(t.user)) \in SUBSET Feeds!Statuses
        /\ Feeds!AboutFilm(t.of, Feeds!Visible(t.user, {"public"})) \in SUBSET Feeds!Statuses
    BY <1>0, ChosenPosted
  <2>3. {t.user} \in SUBSET Readers
    BY <2>1
  <2> QED
    BY <1>1, <1>4, <2>2, <2>3 DEF Feeds!Reads
<1> QED
  BY <1>2, <1>3, <1>4 DEF Chores, UserTasks, StatusTasks, FilmTasks

-----------------------------------------------------------------------------
(* Queues of tasks                                                           *)

Has(tasks, t) == \E k \in 1 .. Len(tasks) : tasks[k] = t

LEMMA HasWhat ==
  /\ \A t : ~Has(<<>>, t)
  /\ \A s, t : Has(<<s>>, t) <=> t = s
  /\ \A C \in BOOLEAN : \A s, t : Has(Feeds!When(C, s), t) <=> C /\ t = s
<1>1. \A t : ~Has(<<>>, t)
  BY DEF Has
<1>2. ASSUME NEW s, NEW t PROVE Has(<<s>>, t) <=> t = s
  <2>1. Len(<<s>>) = 1 /\ <<s>>[1] = s
    OBVIOUS
  <2> QED
    BY <2>1 DEF Has
<1> QED
  BY <1>1, <1>2 DEF Feeds!When

LEMMA HasEither ==
  ASSUME NEW S, NEW x \in Seq(S), NEW y \in Seq(S), NEW t
  PROVE  Has(x \o y, t) <=> Has(x, t) \/ Has(y, t)
<1>1. PICK n, m \in Nat : n = Len(x) /\ m = Len(y)
  OBVIOUS
<1>2. /\ Len(x \o y) = n + m
      /\ \A i \in 1 .. n : i \in 1 .. n + m /\ (x \o y)[i] = x[i]
      /\ \A k \in 1 .. m : n + k \in 1 .. n + m /\ (x \o y)[n + k] = y[k]
      /\ \A j \in 1 .. n + m : (j \in 1 .. n) \/ (j - n \in 1 .. m /\ (x \o y)[j] = y[j - n])
  BY <1>1
<1>3. ASSUME Has(x \o y, t) PROVE Has(x, t) \/ Has(y, t)
  <2>1. PICK j \in 1 .. n + m : (x \o y)[j] = t
    BY <1>2, <1>3 DEF Has
  <2> QED
    BY <1>1, <1>2, <2>1 DEF Has
<1>4. ASSUME Has(x, t) \/ Has(y, t) PROVE Has(x \o y, t)
  <2>1. CASE Has(x, t)
    <3>1. PICK i \in 1 .. n : x[i] = t
      BY <1>1, <2>1 DEF Has
    <3> QED
      BY <1>2, <3>1 DEF Has
  <2>2. CASE Has(y, t)
    <3>1. PICK k \in 1 .. m : y[k] = t
      BY <1>1, <2>2 DEF Has
    <3>2. n + k \in 1 .. Len(x \o y) /\ (x \o y)[n + k] = t
      BY <1>2, <3>1
    <3> QED
      BY <3>2 DEF Has
  <2> QED
    BY <1>4, <2>1, <2>2
<1> QED
  BY <1>3, <1>4

\* The queue without one of its tasks.
LEMMA TakenOut ==
  ASSUME NEW S, NEW q \in Seq(S), NEW i \in 1 .. Len(q)
  PROVE  /\ q[i] \in S /\ Feeds!RemoveAt(q, i) \in Seq(S)
         /\ \A t : Has(Feeds!RemoveAt(q, i), t) => Has(q, t)
<1>1. PICK n \in Nat : n = Len(q)
  OBVIOUS
<1>2. i - 1 \in Nat /\ i - 1 <= n /\ i + 1 \in Nat
  BY <1>1
<1>3. SubSeq(q, 1, i - 1) \in Seq(S) /\ SubSeq(q, i + 1, Len(q)) \in Seq(S)
  BY <1>2
<1>4. ASSUME NEW t, Has(Feeds!RemoveAt(q, i), t) PROVE Has(q, t)
  <2>1. Has(SubSeq(q, 1, i - 1), t) \/ Has(SubSeq(q, i + 1, n), t)
    <3>1. PICK x \in Seq(S) : x = SubSeq(q, 1, i - 1)
      BY <1>3
    <3>2. PICK y \in Seq(S) : y = SubSeq(q, i + 1, n)
      BY <1>1, <1>3
    <3>3. Feeds!RemoveAt(q, i) = x \o y
      BY <1>1, <3>1, <3>2 DEF Feeds!RemoveAt
    <3>4. Has(x \o y, t)
      BY <1>4, <3>3
    <3>5. Has(x, t) \/ Has(y, t)
      BY <3>4, HasEither
    <3> QED
      BY <3>1, <3>2, <3>5
  <2>2. ASSUME Has(SubSeq(q, 1, i - 1), t) PROVE Has(q, t)
    <3>1. PICK k \in 1 .. Len(SubSeq(q, 1, i - 1)) : SubSeq(q, 1, i - 1)[k] = t
      BY <2>2 DEF Has
    <3>2. k \in 1 .. n /\ q[k] = t
      BY <1>1, <1>2, <3>1
    <3> QED
      BY <1>1, <3>2 DEF Has
  <2>3. ASSUME Has(SubSeq(q, i + 1, n), t) PROVE Has(q, t)
    <3>1. PICK k \in 1 .. Len(SubSeq(q, i + 1, n)) : SubSeq(q, i + 1, n)[k] = t
      BY <2>3 DEF Has
    <3>2. k + i \in 1 .. n /\ q[k + i] = t
      BY <1>1, <1>2, <3>1
    <3> QED
      BY <1>1, <3>2 DEF Has
  <2> QED
    BY <2>1, <2>2, <2>3
<1> QED
  BY <1>3, <1>4 DEF Feeds!RemoveAt

LEMMA ChoreFields ==
  /\ \A s : Feeds!AddStatus(s).do = "add_status" /\ Feeds!AddStatus(s).of = s
  /\ \A s : Feeds!RemoveStatus(s).do = "remove_status" /\ Feeds!RemoveStatus(s).of = s
  /\ \A s : Feeds!HandleBoost(s).do = "handle_boost" /\ Feeds!HandleBoost(s).of = s
  /\ \A v, a : /\ Feeds!AddUser(v, a).do = "add_user_statuses" /\ Feeds!AddUser(v, a).user = v
               /\ Feeds!AddUser(v, a).of = a
               /\ Feeds!RemoveUser(v, a).do = "remove_user_statuses"
               /\ Feeds!RemoveUser(v, a).user = v /\ Feeds!RemoveUser(v, a).of = a
               /\ Feeds!AddFilm(v, a).do = "add_film_statuses" /\ Feeds!AddFilm(v, a).user = v
               /\ Feeds!AddFilm(v, a).of = a
               /\ Feeds!RemoveFilm(v, a).do = "remove_film_statuses"
               /\ Feeds!RemoveFilm(v, a).user = v /\ Feeds!RemoveFilm(v, a).of = a
BY DEF Feeds!AddStatus, Feeds!RemoveStatus, Feeds!HandleBoost, Feeds!AddUser, Feeds!RemoveUser,
   Feeds!AddFilm, Feeds!RemoveFilm, Feeds!Task

LEMMA ChoresAre ==
  ASSUME scene \in Scenes
  PROVE  /\ \A s \in Feeds!Statuses : Feeds!AddStatus(s) \in Chores
              /\ Feeds!RemoveStatus(s) \in Chores
         /\ \A s \in Feeds!Statuses : Feeds!Boosted[s] # 0 => Feeds!HandleBoost(s) \in Chores
         /\ \A v \in Readers, a \in People :
              Feeds!AddUser(v, a) \in Chores /\ Feeds!RemoveUser(v, a) \in Chores
         /\ \A v \in Readers, f \in Films :
              Feeds!AddFilm(v, f) \in Chores /\ Feeds!RemoveFilm(v, f) \in Chores
         /\ <<>> \in Seq(Chores)
         /\ \A x, y \in Seq(Chores) : x \o y \in Seq(Chores)
         /\ \A t \in Chores : <<t>> \in Seq(Chores)
         /\ \A C, t : (C => t \in Chores) => Feeds!When(C, t) \in Seq(Chores)
<1>1. ASSUME NEW s \in Feeds!Statuses
      PROVE /\  /\ Feeds!AddStatus(s) \in StatusTasks /\ Feeds!RemoveStatus(s) \in StatusTasks
            /\ Feeds!HandleBoost(s) \in StatusTasks
  <2>1. Feeds!By[s] \in People
    BY SceneIs
  <2> QED
    BY <2>1 DEF StatusTasks, Feeds!AddStatus, Feeds!RemoveStatus, Feeds!HandleBoost, Feeds!Task
<1>2. \A s \in Feeds!Statuses : Feeds!AddStatus(s) \in Chores /\ Feeds!RemoveStatus(s) \in Chores
  BY <1>1, ChoreFields DEF Chores
<1>3. \A s \in Feeds!Statuses : Feeds!Boosted[s] # 0 => Feeds!HandleBoost(s) \in Chores
  BY <1>1, ChoreFields DEF Chores
<1>4. \A v \in Readers, a \in People : Feeds!AddUser(v, a) \in UserTasks
        /\ Feeds!RemoveUser(v, a) \in UserTasks
  BY DEF UserTasks, Feeds!AddUser, Feeds!RemoveUser, Feeds!Task
<1>5. \A v \in Readers, f \in Films : Feeds!AddFilm(v, f) \in FilmTasks
        /\ Feeds!RemoveFilm(v, f) \in FilmTasks
  BY DEF FilmTasks, Feeds!AddFilm, Feeds!RemoveFilm, Feeds!Task
<1>6. ASSUME NEW C, NEW t, C => t \in Chores PROVE Feeds!When(C, t) \in Seq(Chores)
  BY <1>6 DEF Feeds!When
<1>7. UserTasks \subseteq Chores /\ FilmTasks \subseteq Chores
  BY DEF Chores
<1>8. <<>> \in Seq(Chores) /\ \A x, y \in Seq(Chores) : x \o y \in Seq(Chores)
  OBVIOUS
<1>9. \A t \in Chores : <<t>> \in Seq(Chores)
  OBVIOUS
<1> QED
  BY <1>2, <1>3, <1>4, <1>5, <1>6, <1>7, <1>8, <1>9

LEMMA SameScene ==
  ASSUME scene' = scene
  PROVE /\  /\ Feeds!Statuses' = Feeds!Statuses /\ Feeds!By' = Feeds!By
        /\ Feeds!Parent' = Feeds!Parent /\ Feeds!Boosted' = Feeds!Boosted
        /\ Feeds!FilmOf' = Feeds!FilmOf /\ Feeds!Mentions' = Feeds!Mentions
        /\ Feeds!Tagged' = Feeds!Tagged
        /\ Feeds!MaxLength' = Feeds!MaxLength /\ Feeds!Stream' = Feeds!Stream
        /\ Chores' = Chores /\ Writes' = Writes
BY DEF Feeds!Statuses, Feeds!By, Feeds!Parent, Feeds!Boosted, Feeds!FilmOf, Feeds!Mentions,
   Feeds!Tagged, Feeds!MaxLength, Feeds!Stream, Chores, Writes,
       StatusTasks

-----------------------------------------------------------------------------
(* Types                                                                     *)

LEMMA EventTyped ==
  ASSUME FeedsTyped, scene' = scene, NEW kind, NEW tasks \in Seq(Chores), Feeds!Event(kind, tasks),
         posted' \subseteq Feeds!Statuses, deleted' \subseteq posted', \A s \in deleted' :
           Feeds!Boosted[s] = 0,
         st_privacy' \in [Feeds!Statuses -> Feeds!Privacies],
         st_follows' \subseteq People \X People, st_blocks' \subseteq People \X People,
         shelved' \subseteq Readers \X Films, filmBlocks' \subseteq Readers \X Films,
         everFollowed' \subseteq People \X People
  PROVE  FeedsTyped'
<1>1. st_queue' \in Seq(Chores) /\ UNCHANGED <<feed, st_work>>
  BY DEF Feeds!Event, FeedsTyped
<1>2. st_events' \in 0 .. scene.maxEvents
  BY SceneIs DEF Feeds!Event, FeedsTyped
<1> QED
  BY <1>1, <1>2, SameScene DEF FeedsTyped

LEMMA HappenTyped == FeedsTyped /\ scene' = scene /\ Feeds!Happen => FeedsTyped'
<1> SUFFICES ASSUME FeedsTyped, scene' = scene, Feeds!Happen PROVE FeedsTyped'
  OBVIOUS
<1>0. /\ scene \in Scenes
      /\ posted \subseteq Feeds!Statuses /\ deleted \subseteq posted
      /\ \A s \in deleted : Feeds!Boosted[s] = 0
      /\ st_privacy \in [Feeds!Statuses -> Feeds!Privacies]
      /\ st_follows \subseteq People \X People /\ st_blocks \subseteq People \X People
      /\ shelved \subseteq Readers \X Films /\ filmBlocks \subseteq Readers \X Films
      /\ everFollowed \subseteq People \X People
      /\ Readers \subseteq People
  BY SceneAssumption DEF FeedsTyped
<1>1. ASSUME NEW s \in Feeds!Statuses, Feeds!Post(s) PROVE FeedsTyped'
  <2>1. <<Feeds!AddStatus(s)>> \o Feeds!When(Feeds!Boosted[s] # 0, Feeds!HandleBoost(s))
          \in Seq(Chores)
    <3>1. /\ <<Feeds!AddStatus(s)>> \in Seq(Chores)
          /\ Feeds!When(Feeds!Boosted[s] # 0, Feeds!HandleBoost(s)) \in Seq(Chores)
      BY <1>0, ChoresAre
    <3> QED
      BY <3>1
  <2>2. st_privacy' \in [Feeds!Statuses -> Feeds!Privacies]
    <3>1. Feeds!Boosted[s] # 0 => Feeds!Boosted[s] \in posted
      BY <1>1 DEF Feeds!Post
    <3> QED
      BY <1>0, <1>1, <3>1 DEF Feeds!Post
  <2>3. posted' \subseteq Feeds!Statuses /\ deleted' \subseteq posted' /\ \A x \in deleted' :
          Feeds!Boosted[x] = 0
    BY <1>0, <1>1 DEF Feeds!Post
  <2> QED
    BY <1>0, <1>1, <2>1, <2>2, <2>3, EventTyped DEF Feeds!Post
<1>2. ASSUME NEW s \in Feeds!Statuses, Feeds!Delete(s) PROVE FeedsTyped'
  <2>1. <<Feeds!RemoveStatus(s)>> \o Feeds!When(Feeds!Parent[s] = 0, Feeds!RemoveStatus(s))
          \in Seq(Chores)
    <3>1. /\ <<Feeds!RemoveStatus(s)>> \in Seq(Chores)
          /\ Feeds!When(Feeds!Parent[s] = 0, Feeds!RemoveStatus(s)) \in Seq(Chores)
      BY <1>0, ChoresAre
    <3> QED
      BY <3>1
  <2>2. deleted' \subseteq posted' /\ \A x \in deleted' : Feeds!Boosted[x] = 0
    BY <1>0, <1>2 DEF Feeds!Delete
  <2> QED
    BY <1>0, <1>2, <2>1, <2>2, EventTyped DEF Feeds!Delete
<1>3. ASSUME NEW s \in Feeds!Statuses, Feeds!Unboost(s) PROVE FeedsTyped'
  <2>1. <<Feeds!RemoveStatus(s), Feeds!AddStatus(Feeds!Boosted[s])>> \in Seq(Chores)
    <3>1. Feeds!Boosted[s] \in Feeds!Statuses
      <4>1. Feeds!Boosted[s] \in 0 .. scene.n /\ Feeds!Boosted[s] # 0 /\ scene.n \in Nat
        BY <1>0, <1>3, SceneIs DEF Feeds!Unboost
      <4> QED
        BY <4>1 DEF Feeds!Statuses
    <3>2. Feeds!RemoveStatus(s) \in Chores /\ Feeds!AddStatus(Feeds!Boosted[s]) \in Chores
      BY <1>0, <3>1, ChoresAre
    <3> QED
      BY <3>2
  <2>2. posted' \subseteq Feeds!Statuses /\ deleted' \subseteq posted' /\ \A x \in deleted' :
          Feeds!Boosted[x] = 0
    BY <1>0, <1>3 DEF Feeds!Unboost
  <2> QED
    BY <1>0, <1>3, <2>1, <2>2, EventTyped DEF Feeds!Unboost
<1>4. ASSUME NEW s \in Feeds!Statuses, NEW p \in Feeds!Privacies, Feeds!Edit(s, p) PROVE FeedsTyped'
  BY <1>0, <1>4, ChoresAre, EventTyped DEF Feeds!Edit
<1>5. ASSUME NEW v \in People, NEW a \in People, Feeds!Follow(v, a) PROVE FeedsTyped'
  <2>1. Feeds!When(Feeds!OnHome /\ v \in Readers, Feeds!AddUser(v, a)) \in Seq(Chores)
    BY <1>0, ChoresAre
  <2>2. st_follows' \subseteq People \X People /\ everFollowed' \subseteq People \X People
    BY <1>0, <1>5 DEF Feeds!Follow
  <2> QED
    BY <1>0, <1>5, <2>1, <2>2, EventTyped DEF Feeds!Follow
<1>6. ASSUME NEW v \in People, NEW a \in People, Feeds!Unfollow(v, a) PROVE FeedsTyped'
  <2>1. Feeds!When(Feeds!OnHome /\ v \in Readers, Feeds!RemoveUser(v, a)) \in Seq(Chores)
    BY <1>0, ChoresAre
  <2>2. st_follows' \subseteq People \X People
    BY <1>0, <1>6 DEF Feeds!Unfollow
  <2> QED
    BY <1>0, <1>6, <2>1, <2>2, EventTyped DEF Feeds!Unfollow
<1>7. ASSUME NEW v \in People, NEW a \in People, Feeds!Block(v, a) PROVE FeedsTyped'
  <2> DEFINE gone == {<<v, a>>, <<a, v>>} \cap st_follows
             both == Feeds!When(v \in Readers, Feeds!RemoveUser(v, a))
                       \o Feeds!When(a \in Readers, Feeds!RemoveUser(a, v))
             home == Feeds!When(Feeds!OnHome /\ v \in Readers
                                 /\ <<v, a>> \in gone, Feeds!RemoveUser(v, a))
                       \o Feeds!When(Feeds!OnHome /\ a \in Readers
                                      /\ <<a, v>> \in gone, Feeds!RemoveUser(a, v))
  <2>1. both \in Seq(Chores) /\ home \in Seq(Chores)
    <3>1. /\ Feeds!When(v \in Readers, Feeds!RemoveUser(v, a)) \in Seq(Chores)
          /\ Feeds!When(a \in Readers, Feeds!RemoveUser(a, v)) \in Seq(Chores)
          /\ Feeds!When(Feeds!OnHome /\ v \in Readers
                         /\ <<v, a>> \in gone, Feeds!RemoveUser(v, a)) \in Seq(Chores)
          /\ Feeds!When(Feeds!OnHome /\ a \in Readers
                         /\ <<a, v>> \in gone, Feeds!RemoveUser(a, v)) \in Seq(Chores)
      BY <1>0, ChoresAre
    <3> QED
      BY <3>1, <1>0, ChoresAre
  <2>2. both \o home \o (IF v \in Readers THEN both ELSE <<>>) \in Seq(Chores)
    <3> HIDE DEF both, home
    <3> QED
      BY <1>0, <2>1, ChoresAre
  <2>3. st_follows' \subseteq People \X People /\ st_blocks' \subseteq People \X People
    BY <1>0, <1>7 DEF Feeds!Block
  <2>4. /\ Feeds!Event("block", both \o home \o (IF v \in Readers THEN both ELSE <<>>))
        /\ UNCHANGED <<posted, deleted, st_privacy, shelved, filmBlocks, everFollowed>>
    BY <1>7 DEF Feeds!Block
  <2> HIDE DEF both, home
  <2> QED
    BY <1>0, <2>2, <2>3, <2>4, EventTyped
<1>8. ASSUME NEW v \in People, NEW a \in People, Feeds!Unblock(v, a) PROVE FeedsTyped'
  <2>1. PICK free : free = (<<a, v>> \notin st_blocks /\ ~Feeds!OnHome)
    OBVIOUS
  <2>2. /\ Feeds!When(free /\ v \in Readers, Feeds!AddUser(v, a)) \in Seq(Chores)
        /\ Feeds!When(free /\ a \in Readers, Feeds!AddUser(a, v)) \in Seq(Chores)
    BY <1>0, ChoresAre
  <2>3. Feeds!When(free /\ v \in Readers, Feeds!AddUser(v, a))
          \o Feeds!When(free /\ a \in Readers, Feeds!AddUser(a, v)) \in Seq(Chores)
    BY <1>0, <2>2, ChoresAre
  <2>4. st_blocks' \subseteq People \X People
    BY <1>0, <1>8 DEF Feeds!Unblock
  <2>5. Feeds!Event("block", Feeds!When(free /\ v \in Readers, Feeds!AddUser(v, a))
                     \o Feeds!When(free /\ a \in Readers, Feeds!AddUser(a, v)))
        /\ UNCHANGED <<posted, deleted, st_privacy, st_follows, shelved, filmBlocks, everFollowed>>
    BY <1>8, <2>1 DEF Feeds!Unblock
  <2> QED
    BY <1>0, <2>3, <2>4, <2>5, EventTyped
<1>9. ASSUME NEW v \in Readers, NEW f \in Films, Feeds!Shelve(v, f) \/ Feeds!Unshelve(v, f)
      PROVE  FeedsTyped'
  <2>1. /\ Feeds!When(Feeds!OnFilms, Feeds!AddFilm(v, f)) \in Seq(Chores)
        /\ Feeds!When(Feeds!OnFilms, Feeds!RemoveFilm(v, f)) \in Seq(Chores)
    BY <1>0, ChoresAre
  <2>2. shelved' \subseteq Readers \X Films
    BY <1>0, <1>9 DEF Feeds!Shelve, Feeds!Unshelve
  <2>3. Feeds!Event("shelve", Feeds!When(Feeds!OnFilms, Feeds!AddFilm(v, f)))
          \/ Feeds!Event("shelve", Feeds!When(Feeds!OnFilms, Feeds!RemoveFilm(v, f)))
    BY <1>9 DEF Feeds!Shelve, Feeds!Unshelve
  <2>4. UNCHANGED <<posted, deleted, st_privacy, st_follows, st_blocks, filmBlocks, everFollowed>>
    BY <1>9 DEF Feeds!Shelve, Feeds!Unshelve
  <2> QED
    BY <1>0, <2>1, <2>2, <2>3, <2>4, EventTyped
<1>10. ASSUME NEW v \in Readers, NEW f \in Films, Feeds!BlockFilm(v, f) \/ Feeds!UnblockFilm(v, f)
       PROVE  FeedsTyped'
  <2>1. <<Feeds!AddFilm(v, f)>> \in Seq(Chores) /\ <<Feeds!RemoveFilm(v, f)>> \in Seq(Chores)
    BY <1>0, ChoresAre
  <2>2. filmBlocks' \subseteq Readers \X Films
    BY <1>0, <1>10 DEF Feeds!BlockFilm, Feeds!UnblockFilm
  <2>3. Feeds!Event("film", <<Feeds!RemoveFilm(v, f)>>)
          \/ Feeds!Event("film", <<Feeds!AddFilm(v, f)>>)
    BY <1>10 DEF Feeds!BlockFilm, Feeds!UnblockFilm
  <2>4. UNCHANGED <<posted, deleted, st_privacy, st_follows, st_blocks, shelved, everFollowed>>
    BY <1>10 DEF Feeds!BlockFilm, Feeds!UnblockFilm
  <2> QED
    BY <1>0, <2>1, <2>2, <2>3, <2>4, EventTyped
<1> QED
  BY <1>1, <1>2, <1>3, <1>4, <1>5, <1>6, <1>7, <1>8, <1>9, <1>10 DEF Feeds!Happen

\* What a pipeline leaves in a feed.
LEMMA WrittenTyped ==
  ASSUME FeedsTyped, NEW v \in Readers, NEW w \in Writes
  PROVE  /\ Feeds!Written(v, w) \subseteq Feeds!Statuses
         /\ Cardinality(Feeds!Written(v, w)) < Feeds!MaxLength
         /\ \A s \in Feeds!Written(v, w) :
              <<v, s>> \in w.add \/ (s \in feed[v] /\ <<v, s>> \notin w.drop)
         /\ scene.n < Feeds!MaxLength =>
              \A s \in Feeds!Statuses : s \in Feeds!Written(v, w) <=>
                <<v, s>> \in w.add \/ (s \in feed[v] /\ <<v, s>> \notin w.drop)
<1> DEFINE added   == {s \in Feeds!Statuses : <<v, s>> \in w.add}
           dropped == {s \in Feeds!Statuses : <<v, s>> \in w.drop}
           all     == (feed[v] \ dropped) \cup added
<1>1. /\ scene \in Scenes /\ feed[v] \in SUBSET Feeds!Statuses
      /\ Cardinality(feed[v]) < Feeds!MaxLength
  BY DEF FeedsTyped
<1>2. all \in SUBSET Feeds!Statuses
  BY <1>1
<1>3. \A s \in Feeds!Statuses : s \in all <=>
        <<v, s>> \in w.add \/ (s \in feed[v] /\ <<v, s>> \notin w.drop)
  OBVIOUS
<1>4. Feeds!Written(v, w) = IF added = {} THEN all ELSE Feeds!Newest(all, Feeds!MaxLength - 1)
  BY DEF Feeds!Written
<1>5. added = {} => all \subseteq feed[v]
  OBVIOUS
<1> HIDE DEF added, dropped, all
<1>6. Feeds!MaxLength - 1 \in Nat /\ Feeds!MaxLength \in Nat
  BY <1>1, SceneIs
<1>7. /\ Feeds!Newest(all, Feeds!MaxLength - 1) \subseteq all
      /\ Cardinality(Feeds!Newest(all, Feeds!MaxLength - 1)) <= Feeds!MaxLength - 1
  BY <1>1, <1>2, <1>6, NewestFew
<1>8. Feeds!Written(v, w) \subseteq all
  BY <1>4, <1>7
<1>9. Cardinality(Feeds!Written(v, w)) < Feeds!MaxLength
  <2>1. CASE added = {}
    <3>1. Feeds!Written(v, w) \subseteq feed[v]
      BY <1>4, <1>5, <2>1
    <3>2. IsFiniteSet(feed[v]) /\ Cardinality(feed[v]) \in Nat
      BY <1>1, StatusesFew
    <3>3. /\ Cardinality(Feeds!Written(v, w)) <= Cardinality(feed[v])
          /\ Cardinality(Feeds!Written(v, w)) \in Nat
      BY <3>1, <3>2, FS_Subset, FS_CardinalityType
    <3> QED
      BY <1>1, <1>6, <3>2, <3>3
  <2>2. CASE added # {}
    <3>1. Feeds!Newest(all, Feeds!MaxLength - 1) \in SUBSET Feeds!Statuses
      BY <1>2, <1>7
    <3>2. Cardinality(Feeds!Newest(all, Feeds!MaxLength - 1)) \in Nat
      BY <1>1, <3>1, StatusesFew
    <3> QED
      BY <1>4, <1>6, <1>7, <2>2, <3>2
  <2> QED
    BY <2>1, <2>2
<1>10. ASSUME scene.n < Feeds!MaxLength PROVE Feeds!Written(v, w) = all
  <2>1. scene.n <= Feeds!MaxLength - 1
    BY <1>1, <1>10, SceneIs
  <2>2. Feeds!Newest(all, Feeds!MaxLength - 1) = all
    BY <1>1, <1>2, <1>6, <2>1, NewestAll
  <2> QED
    BY <1>4, <2>2
<1> QED
  BY <1>2, <1>3, <1>8, <1>9, <1>10

LEMMA WorkFeedsTyped ==
  ASSUME FeedsTyped, scene' = scene, NEW w \in Clerks, Feeds!Start(w) \/ Feeds!Finish(w)
  PROVE  FeedsTyped'
<1>0. UNCHANGED <<posted, deleted, st_privacy, st_follows, st_blocks, shelved, filmBlocks,
                  st_events, everFollowed>>
  BY DEF Feeds!Start, Feeds!Finish, Feeds!rows
<1>1. CASE Feeds!Start(w)
  <2>1. PICK i \in 1 .. Len(st_queue) : /\ st_work'
                                             = [st_work EXCEPT ![w] = Feeds!Reads(st_queue[i])]
                                        /\ st_queue' = Feeds!RemoveAt(st_queue, i)
    BY <1>1 DEF Feeds!Start
  <2>2. st_queue[i] \in Chores /\ st_queue' \in Seq(Chores)
    BY <2>1, TakenOut DEF FeedsTyped
  <2>3. Feeds!Reads(st_queue[i]) \in Writes
    BY <2>2, ReadsTyped
  <2>4. st_work' \in [Clerks -> Writes]
    BY <2>1, <2>3 DEF FeedsTyped
  <2>5. feed' = feed
    BY <1>1 DEF Feeds!Start
  <2> QED
    BY <1>0, <2>2, <2>4, <2>5, SameScene DEF FeedsTyped
<1>2. CASE Feeds!Finish(w)
  <2>1. /\ feed' = [v \in Readers |-> Feeds!Written(v, st_work[w])]
        /\ st_work' = [st_work EXCEPT ![w] = Feeds!Nothing]
        /\ st_queue' = st_queue
    BY <1>2 DEF Feeds!Finish
  <2>2. st_work[w] \in Writes /\ Feeds!Nothing \in Writes
    BY DEF FeedsTyped, Feeds!Nothing, Writes
  <2>3. st_work' \in [Clerks -> Writes]
    BY <2>1, <2>2 DEF FeedsTyped
  <2>4. \A v \in Readers : feed'[v] \subseteq Feeds!Statuses
          /\ Cardinality(feed'[v]) < Feeds!MaxLength
    BY <2>1, <2>2, WrittenTyped
  <2>5. feed' \in [Readers -> SUBSET Feeds!Statuses]
    BY <2>1, <2>4
  <2> QED
    BY <1>0, <2>1, <2>3, <2>4, <2>5, SameScene DEF FeedsTyped
<1> QED
  BY <1>1, <1>2

LEMMA InitFeedsTyped == Feeds!Init => FeedsTyped
<1> SUFFICES ASSUME Feeds!Init PROVE FeedsTyped
  OBVIOUS
<1>1. scene \in Scenes
  BY DEF Feeds!Init
<1>2. Feeds!MaxLength \in Nat /\ Feeds!MaxLength # 0 /\ scene.maxEvents \in Nat
  BY <1>1, SceneIs
<1>3. st_privacy \in [Feeds!Statuses -> Feeds!Privacies]
  BY <1>1, SceneIs DEF Feeds!Init
<1>4. \A v \in Readers : feed[v] = {} /\ Cardinality(feed[v]) < Feeds!MaxLength
  BY <1>2, FS_EmptySet DEF Feeds!Init
<1>5. st_work \in [Clerks -> Writes] /\ st_queue \in Seq(Chores)
  BY DEF Feeds!Init, Feeds!Nothing, Writes
<1>6. feed \in [Readers -> SUBSET Feeds!Statuses] /\ st_events \in 0 .. scene.maxEvents
  BY <1>2 DEF Feeds!Init
<1> QED
  BY <1>1, <1>3, <1>4, <1>5, <1>6 DEF Feeds!Init, FeedsTyped

LEMMA NextFeedsTyped == FeedsTyped /\ [Feeds!Next]_(Feeds!vars) => FeedsTyped'
<1> SUFFICES ASSUME FeedsTyped, [Feeds!Next]_(Feeds!vars) PROVE FeedsTyped'
  OBVIOUS
<1>1. CASE Feeds!Next
  BY <1>1, HappenTyped, WorkFeedsTyped DEF Feeds!Next
<1>2. CASE UNCHANGED Feeds!vars
  BY <1>2, SameScene DEF Feeds!vars, Feeds!rows, FeedsTyped
<1> QED
  BY <1>1, <1>2

LEMMA TypedIsTypeOK == FeedsTyped => Feeds!TypeOK
<1> SUFFICES ASSUME FeedsTyped PROVE Feeds!TypeOK
  OBVIOUS
<1>1. Chores \subseteq Feeds!Tasks
  BY SceneAssumption DEF Chores, StatusTasks, UserTasks, FilmTasks, Feeds!Tasks
<1>2. st_queue \in Seq(Feeds!Tasks)
  BY <1>1 DEF FeedsTyped
<1> QED
  BY <1>2, SameCount DEF FeedsTyped, Feeds!TypeOK, Writes

-----------------------------------------------------------------------------
(* Whoever has a status was told of it                                       *)

Fit(v, s) == v = Feeds!By[s] \/ <<v, Feeds!By[s]>> \in everFollowed \/ v \in Feeds!Mentions[s]

\* On the home stream, nothing is for strangers: no feed, nothing that a worker is
\* about to add, and no task that adds what a user has written.
OnlyFits ==
  Feeds!OnHome =>
    /\ st_follows \subseteq everFollowed
    /\ \A v \in Readers : \A s \in feed[v] : Fit(v, s)
    /\ \A w \in Clerks, v \in Readers, s \in Feeds!Statuses : <<v, s>> \in st_work[w].add =>
         Fit(v, s)
    /\ \A v \in Readers, a \in People : Has(st_queue, Feeds!AddUser(v, a)) =>
         <<v, a>> \in everFollowed

LEMMA TaskKinds ==
  /\ \A s, u, v, a : Feeds!AddStatus(s) # Feeds!AddUser(v, a)
       /\ Feeds!AddStatus(s) # Feeds!RemoveUser(v, a)
  /\ \A s, v, a : Feeds!RemoveStatus(s) # Feeds!AddUser(v, a)
       /\ Feeds!RemoveStatus(s) # Feeds!RemoveUser(v, a)
  /\ \A s, v, a : Feeds!HandleBoost(s) # Feeds!AddUser(v, a)
       /\ Feeds!HandleBoost(s) # Feeds!RemoveUser(v, a)
  /\ \A s, u : Feeds!AddStatus(s) # Feeds!RemoveStatus(u)
       /\ Feeds!AddStatus(s) # Feeds!HandleBoost(u) /\ Feeds!RemoveStatus(s) # Feeds!HandleBoost(u)
  /\ \A v, a, u, b : Feeds!AddUser(v, a) # Feeds!RemoveUser(u, b)
       /\ Feeds!AddFilm(v, a) # Feeds!RemoveFilm(u, b)
  /\ \A v, a, u, b : /\ Feeds!AddFilm(v, a) # Feeds!AddUser(u, b)
                     /\ Feeds!AddFilm(v, a) # Feeds!RemoveUser(u, b)
                     /\ Feeds!RemoveFilm(v, a) # Feeds!AddUser(u, b)
                     /\ Feeds!RemoveFilm(v, a) # Feeds!RemoveUser(u, b)
  /\ \A s, v, f : /\ Feeds!AddStatus(s) # Feeds!AddFilm(v, f)
                  /\ Feeds!AddStatus(s) # Feeds!RemoveFilm(v, f)
                  /\ Feeds!RemoveStatus(s) # Feeds!AddFilm(v, f)
                  /\ Feeds!RemoveStatus(s) # Feeds!RemoveFilm(v, f)
                  /\ Feeds!HandleBoost(s) # Feeds!AddFilm(v, f)
                  /\ Feeds!HandleBoost(s) # Feeds!RemoveFilm(v, f)
  /\ \A s, u : /\ Feeds!AddStatus(s) = Feeds!AddStatus(u) => s = u
               /\ Feeds!RemoveStatus(s) = Feeds!RemoveStatus(u) => s = u
  /\ \A v, a, u, b : /\ Feeds!AddUser(v, a) = Feeds!AddUser(u, b) => v = u /\ a = b
                     /\ Feeds!RemoveUser(v, a) = Feeds!RemoveUser(u, b) => v = u /\ a = b
                     /\ Feeds!AddFilm(v, a) = Feeds!AddFilm(u, b) => v = u /\ a = b
                     /\ Feeds!RemoveFilm(v, a) = Feeds!RemoveFilm(u, b) => v = u /\ a = b
BY ChoreFields

\* A sequence of tasks asks for all of T.
Asks(tasks, T) == tasks \in Seq(Chores) /\ \A t : Has(tasks, t) <=> t \in T
Only(C, t) == IF C THEN {t} ELSE {}

\* An event queues the tasks of T after everything else, and workers go on.
Queues(T) == UNCHANGED <<feed, st_work>> /\ \E tasks :
  Asks(tasks, T) /\ st_queue' = st_queue \o tasks

LEMMA AsksWhat ==
  /\ \A t \in Chores : Asks(<<t>>, {t})
  /\ \A x, y, S, T : Asks(x, S) /\ Asks(y, T) => Asks(x \o y, S \cup T)
  /\ Asks(<<>>, {})
<1>1. ASSUME NEW t \in Chores PROVE Asks(<<t>>, {t})
  <2>1. <<t>> \in Seq(Chores)
    OBVIOUS
  <2> QED
    BY <2>1, HasWhat DEF Asks
<1>2. ASSUME NEW x, NEW y, NEW S, NEW T, Asks(x, S), Asks(y, T) PROVE Asks(x \o y, S \cup T)
  <2>1. x \in Seq(Chores) /\ y \in Seq(Chores)
    BY <1>2 DEF Asks
  <2>2. x \o y \in Seq(Chores)
    BY <2>1
  <2>3. \A t : Has(x \o y, t) <=> Has(x, t) \/ Has(y, t)
    BY <2>1, HasEither
  <2> QED
    BY <1>2, <2>2, <2>3 DEF Asks
<1>3. Asks(<<>>, {})
  BY HasWhat DEF Asks
<1> QED
  BY <1>1, <1>2, <1>3

LEMMA AsksWhen ==
  ASSUME NEW C, NEW t, C => t \in Chores
  PROVE  Asks(Feeds!When(C, t), Only(C, t))
<1>1. CASE C
  BY <1>1, AsksWhat DEF Feeds!When, Only
<1>2. CASE ~C
  BY <1>2, AsksWhat DEF Feeds!When, Only
<1> QED
  BY <1>1, <1>2

LEMMA EventQueues ==
  ASSUME NEW kind, NEW tasks, NEW T, Feeds!Event(kind, tasks), Asks(tasks, T)
  PROVE  Queues(T)
BY DEF Feeds!Event, Queues

\* The tasks of each event.
LEMMA PostQueues ==
  ASSUME scene \in Scenes, NEW s \in Feeds!Statuses, Feeds!Post(s)
  PROVE  Queues({Feeds!AddStatus(s)} \cup Only(Feeds!Boosted[s] # 0, Feeds!HandleBoost(s)))
<1>1. Feeds!Event("post", <<Feeds!AddStatus(s)>>
                   \o Feeds!When(Feeds!Boosted[s] # 0, Feeds!HandleBoost(s)))
  BY DEF Feeds!Post
<1>2. Feeds!AddStatus(s) \in Chores /\ (Feeds!Boosted[s] # 0 => Feeds!HandleBoost(s) \in Chores)
  BY ChoresAre
<1>3. Asks(<<Feeds!AddStatus(s)>>, {Feeds!AddStatus(s)})
  BY <1>2, AsksWhat
<1>4. Asks(Feeds!When(Feeds!Boosted[s] # 0, Feeds!HandleBoost(s)),
           Only(Feeds!Boosted[s] # 0, Feeds!HandleBoost(s)))
  BY <1>2, AsksWhen
<1>5. Asks(<<Feeds!AddStatus(s)>> \o Feeds!When(Feeds!Boosted[s] # 0, Feeds!HandleBoost(s)),
           {Feeds!AddStatus(s)} \cup Only(Feeds!Boosted[s] # 0, Feeds!HandleBoost(s)))
  BY <1>3, <1>4, AsksWhat
<1> QED
  BY <1>1, <1>5, EventQueues

LEMMA DeleteQueues ==
  ASSUME scene \in Scenes, NEW s \in Feeds!Statuses, Feeds!Delete(s)
  PROVE  Queues({Feeds!RemoveStatus(s)})
<1>1. Feeds!Event("delete", <<Feeds!RemoveStatus(s)>>
                   \o Feeds!When(Feeds!Parent[s] = 0, Feeds!RemoveStatus(s)))
  BY DEF Feeds!Delete
<1>2. Feeds!RemoveStatus(s) \in Chores
  BY ChoresAre
<1>3. Asks(<<Feeds!RemoveStatus(s)>>, {Feeds!RemoveStatus(s)})
  BY <1>2, AsksWhat
<1>4. Asks(Feeds!When(Feeds!Parent[s] = 0, Feeds!RemoveStatus(s)),
           Only(Feeds!Parent[s] = 0, Feeds!RemoveStatus(s)))
  BY <1>2, AsksWhen
<1>5. Asks(<<Feeds!RemoveStatus(s)>> \o Feeds!When(Feeds!Parent[s] = 0, Feeds!RemoveStatus(s)),
           {Feeds!RemoveStatus(s)} \cup Only(Feeds!Parent[s] = 0, Feeds!RemoveStatus(s)))
  BY <1>3, <1>4, AsksWhat
<1>6. {Feeds!RemoveStatus(s)} \cup Only(Feeds!Parent[s] = 0, Feeds!RemoveStatus(s))
        = {Feeds!RemoveStatus(s)}
  BY DEF Only
<1> QED
  BY <1>1, <1>5, <1>6, EventQueues

LEMMA UnboostQueues ==
  ASSUME scene \in Scenes, NEW s \in Feeds!Statuses, Feeds!Unboost(s)
  PROVE  Queues({Feeds!RemoveStatus(s), Feeds!AddStatus(Feeds!Boosted[s])})
<1>1. Feeds!Boosted[s] \in Feeds!Statuses
  <2>1. Feeds!Boosted[s] \in 0 .. scene.n /\ Feeds!Boosted[s] # 0 /\ scene.n \in Nat
    BY SceneIs DEF Feeds!Unboost
  <2> QED
    BY <2>1 DEF Feeds!Statuses
<1>2. /\ Asks(<<Feeds!RemoveStatus(s)>>, {Feeds!RemoveStatus(s)})
      /\ Asks(<<Feeds!AddStatus(Feeds!Boosted[s])>>, {Feeds!AddStatus(Feeds!Boosted[s])})
  BY <1>1, ChoresAre, AsksWhat
<1>3. Asks(<<Feeds!RemoveStatus(s)>> \o <<Feeds!AddStatus(Feeds!Boosted[s])>>,
           {Feeds!RemoveStatus(s)} \cup {Feeds!AddStatus(Feeds!Boosted[s])})
  BY <1>2, AsksWhat
<1>4. <<Feeds!RemoveStatus(s), Feeds!AddStatus(Feeds!Boosted[s])>>
        = <<Feeds!RemoveStatus(s)>> \o <<Feeds!AddStatus(Feeds!Boosted[s])>>
  OBVIOUS
<1>5. {Feeds!RemoveStatus(s), Feeds!AddStatus(Feeds!Boosted[s])}
        = {Feeds!RemoveStatus(s)} \cup {Feeds!AddStatus(Feeds!Boosted[s])}
  OBVIOUS
<1>6. Feeds!Event("unboost", <<Feeds!RemoveStatus(s), Feeds!AddStatus(Feeds!Boosted[s])>>)
  BY DEF Feeds!Unboost
<1> QED
  BY <1>3, <1>4, <1>5, <1>6, EventQueues

LEMMA EditQueues ==
  ASSUME NEW s, NEW p, Feeds!Edit(s, p)
  PROVE  Queues({})
BY AsksWhat, EventQueues DEF Feeds!Edit

LEMMA FollowQueues ==
  ASSUME scene \in Scenes, NEW v \in People, NEW a \in People
  PROVE  /\ Feeds!Follow(v, a) => Queues(Only(Feeds!OnHome /\ v \in Readers, Feeds!AddUser(v, a)))
         /\ Feeds!Unfollow(v, a) => Queues(Only(Feeds!OnHome
                                                 /\ v \in Readers, Feeds!RemoveUser(v, a)))
<1>1. v \in Readers => Feeds!AddUser(v, a) \in Chores /\ Feeds!RemoveUser(v, a) \in Chores
  BY ChoresAre
<1>2. Asks(Feeds!When(Feeds!OnHome /\ v \in Readers, Feeds!AddUser(v, a)),
           Only(Feeds!OnHome /\ v \in Readers, Feeds!AddUser(v, a)))
  BY <1>1, AsksWhen
<1>3. Asks(Feeds!When(Feeds!OnHome /\ v \in Readers, Feeds!RemoveUser(v, a)),
           Only(Feeds!OnHome /\ v \in Readers, Feeds!RemoveUser(v, a)))
  BY <1>1, AsksWhen
<1> QED
  BY <1>2, <1>3, EventQueues DEF Feeds!Follow, Feeds!Unfollow

\* A block removes in both directions.
LEMMA BlockQueues ==
  ASSUME scene \in Scenes, NEW v \in People, NEW a \in People, Feeds!Block(v, a)
  PROVE  Queues(Only(v \in Readers, Feeds!RemoveUser(v, a))
                 \cup Only(a \in Readers, Feeds!RemoveUser(a, v)))
<1> DEFINE gone == {<<v, a>>, <<a, v>>} \cap st_follows
           both == Feeds!When(v \in Readers, Feeds!RemoveUser(v, a))
                     \o Feeds!When(a \in Readers, Feeds!RemoveUser(a, v))
           C1 == Feeds!OnHome /\ v \in Readers /\ <<v, a>> \in gone
           C2 == Feeds!OnHome /\ a \in Readers /\ <<a, v>> \in gone
           home == Feeds!When(C1, Feeds!RemoveUser(v, a)) \o Feeds!When(C2, Feeds!RemoveUser(a, v))
           again == IF v \in Readers THEN both ELSE <<>>
           B == Only(v \in Readers, Feeds!RemoveUser(v, a))
                  \cup Only(a \in Readers, Feeds!RemoveUser(a, v))
           H == Only(C1, Feeds!RemoveUser(v, a)) \cup Only(C2, Feeds!RemoveUser(a, v))
<1>1. /\ (v \in Readers => Feeds!RemoveUser(v, a) \in Chores)
      /\ (a \in Readers => Feeds!RemoveUser(a, v) \in Chores)
  BY ChoresAre
<1>2. Feeds!Event("block", both \o home \o again)
  BY DEF Feeds!Block
<1>3. Asks(both, B)
  BY <1>1, AsksWhen, AsksWhat
<1>4. Asks(home, H) /\ H \subseteq B
  <2>1. H \subseteq B
    BY DEF Only
  <2>2. (C1 => v \in Readers) /\ (C2 => a \in Readers)
    OBVIOUS
  <2> HIDE DEF C1, C2
  <2>3. /\ Asks(Feeds!When(C1, Feeds!RemoveUser(v, a)), Only(C1, Feeds!RemoveUser(v, a)))
        /\ Asks(Feeds!When(C2, Feeds!RemoveUser(a, v)), Only(C2, Feeds!RemoveUser(a, v)))
    BY <1>1, <2>2, AsksWhen
  <2> QED
    BY <2>1, <2>3, AsksWhat
<1> HIDE DEF both, home, B, H
<1>5. Asks(again, B) \/ Asks(again, {})
  BY <1>3, AsksWhat
<1> HIDE DEF again
<1>6. Asks(both \o home, B \cup H)
  BY <1>3, <1>4, AsksWhat
<1>7. Asks(both \o home \o again, (B \cup H) \cup B)
        \/ Asks(both \o home \o again, (B \cup H) \cup {})
  BY <1>5, <1>6, AsksWhat
<1>8. (B \cup H) \cup B = B /\ (B \cup H) \cup {} = B
  BY <1>4
<1>9. Asks(both \o home \o again, B)
  BY <1>7, <1>8
<1> QED
  BY <1>2, <1>9, EventQueues DEF B

LEMMA UnblockQueues ==
  ASSUME scene \in Scenes, NEW v \in People, NEW a \in People, Feeds!Unblock(v, a)
  PROVE  LET free == <<a, v>> \notin st_blocks /\ ~Feeds!OnHome
         IN  Queues(Only(free /\ v \in Readers, Feeds!AddUser(v, a))
                     \cup Only(free /\ a \in Readers, Feeds!AddUser(a, v)))
<1> DEFINE free == <<a, v>> \notin st_blocks /\ ~Feeds!OnHome
<1>1. /\ (v \in Readers => Feeds!AddUser(v, a) \in Chores)
      /\ (a \in Readers => Feeds!AddUser(a, v) \in Chores)
  BY ChoresAre
<1>2. Asks(Feeds!When(free /\ v \in Readers, Feeds!AddUser(v, a)),
           Only(free /\ v \in Readers, Feeds!AddUser(v, a)))
      /\ Asks(Feeds!When(free /\ a \in Readers, Feeds!AddUser(a, v)),
              Only(free /\ a \in Readers, Feeds!AddUser(a, v)))
  BY <1>1, AsksWhen
<1>3. Feeds!Event("block", Feeds!When(free /\ v \in Readers, Feeds!AddUser(v, a))
                   \o Feeds!When(free /\ a \in Readers, Feeds!AddUser(a, v)))
  BY DEF Feeds!Unblock
<1> HIDE DEF free
<1>4. Queues(Only(free /\ v \in Readers, Feeds!AddUser(v, a))
              \cup Only(free /\ a \in Readers, Feeds!AddUser(a, v)))
  BY <1>2, <1>3, AsksWhat, EventQueues
<1> QED
  BY <1>4 DEF free

LEMMA FilmQueues ==
  ASSUME scene \in Scenes, NEW v \in Readers, NEW f \in Films
  PROVE  /\ Feeds!Shelve(v, f) => Queues(Only(Feeds!OnFilms, Feeds!AddFilm(v, f)))
         /\ Feeds!Unshelve(v, f) => Queues(Only(Feeds!OnFilms, Feeds!RemoveFilm(v, f)))
         /\ Feeds!BlockFilm(v, f) => Queues({Feeds!RemoveFilm(v, f)})
         /\ Feeds!UnblockFilm(v, f) => Queues({Feeds!AddFilm(v, f)})
<1>1. Feeds!AddFilm(v, f) \in Chores /\ Feeds!RemoveFilm(v, f) \in Chores
  BY ChoresAre
<1>2. /\ Asks(Feeds!When(Feeds!OnFilms, Feeds!AddFilm(v, f)),
              Only(Feeds!OnFilms, Feeds!AddFilm(v, f)))
      /\ Asks(Feeds!When(Feeds!OnFilms, Feeds!RemoveFilm(v, f)),
              Only(Feeds!OnFilms, Feeds!RemoveFilm(v, f)))
      /\ Asks(<<Feeds!RemoveFilm(v, f)>>, {Feeds!RemoveFilm(v, f)})
      /\ Asks(<<Feeds!AddFilm(v, f)>>, {Feeds!AddFilm(v, f)})
  BY <1>1, AsksWhen, AsksWhat
<1> QED
  BY <1>2, EventQueues DEF Feeds!Shelve, Feeds!Unshelve, Feeds!BlockFilm, Feeds!UnblockFilm

\* What a task lets a worker add.
LEMMA AddsWhat ==
  ASSUME FeedsTyped, NEW t \in Chores, NEW v \in Readers, NEW s \in Feeds!Statuses,
         <<v, s>> \in Feeds!Reads(t).add
  PROVE  \/ t.do = "add_status" /\ t.of = s /\ s \in posted /\ v \in Feeds!Audience(s, TRUE)
         \/ t = Feeds!AddUser(v, Feeds!By[s]) /\ s \in Feeds!SeenOf(v, Feeds!By[s])
         \/ \E f \in Films : t = Feeds!AddFilm(v, f) /\ s \in Feeds!AboutFilm(f, Feeds!Selected(v))
<1>1. \A V, S : Feeds!Adding(V, S).add = V \X S /\ Feeds!Dropping(V, S).add = {}
        /\ Feeds!Nothing.add = {}
  BY DEF Feeds!Adding, Feeds!Dropping, Feeds!Nothing
<1>2. CASE t.do \in {"add_status", "remove_status", "handle_boost"}
  <2>1. t.do = "add_status" /\ t.of \in posted /\ <<v, s>> \in Feeds!Audience(t.of, TRUE) \X {t.of}
    BY <1>1, <1>2 DEF Feeds!Reads
  <2> QED
    BY <2>1
<1>3. CASE t.do \in {"add_user_statuses", "remove_user_statuses"}
  <2>1. t \in UserTasks
    BY <1>3 DEF Chores, StatusTasks, FilmTasks
  <2>2. t.do = "add_user_statuses" /\ <<v, s>>
          \in {t.user} \X Feeds!Newest(Feeds!SeenOf(t.user, t.of), Feeds!MaxLength)
    BY <1>1, <1>3 DEF Feeds!Reads
  <2>3. v = t.user /\ s \in Feeds!SeenOf(v, t.of)
    BY <2>2 DEF Feeds!Newest
  <2>4. Feeds!By[s] = t.of
    BY <2>3 DEF Feeds!SeenOf
  <2>5. t = Feeds!AddUser(v, Feeds!By[s])
    BY <2>1, <2>2, <2>3, <2>4 DEF UserTasks, Feeds!AddUser, Feeds!Task
  <2> QED
    BY <2>3, <2>4, <2>5
<1>4. CASE t.do \in {"add_film_statuses", "remove_film_statuses"}
  <2>1. t \in FilmTasks
    BY <1>4 DEF Chores, StatusTasks, UserTasks
  <2>2. t.do = "add_film_statuses" /\ <<v, s>>
          \in {t.user} \X Feeds!AboutFilm(t.of, Feeds!Selected(t.user))
    BY <1>1, <1>4 DEF Feeds!Reads
  <2>3. v = t.user /\ s \in Feeds!AboutFilm(t.of, Feeds!Selected(v)) /\ t.of \in Films
    BY <2>1, <2>2 DEF FilmTasks
  <2>4. t = Feeds!AddFilm(v, t.of)
    BY <2>1, <2>2, <2>3 DEF FilmTasks, Feeds!AddFilm, Feeds!Task
  <2> QED
    BY <2>3, <2>4
<1> QED
  BY <1>2, <1>3, <1>4 DEF Chores, UserTasks, StatusTasks, FilmTasks


LEMMA InitFits == Feeds!Init => OnlyFits
BY HasWhat DEF Feeds!Init, OnlyFits, Feeds!Nothing

LEMMA HappenFits ==
  ASSUME FeedsTyped, OnlyFits, scene' = scene, Feeds!Happen
  PROVE  OnlyFits'
<1> SUFFICES ASSUME Feeds!OnHome PROVE OnlyFits'
  BY SameScene DEF OnlyFits, Feeds!OnHome
<1>0. /\ scene \in Scenes /\ st_follows \subseteq everFollowed
      /\ \A v \in Readers : \A s \in feed[v] : Fit(v, s)
      /\ \A w \in Clerks, v \in Readers, s \in Feeds!Statuses : <<v, s>> \in st_work[w].add =>
           Fit(v, s)
      /\ \A v \in Readers, a \in People : Has(st_queue, Feeds!AddUser(v, a)) =>
           <<v, a>> \in everFollowed
      /\ st_queue \in Seq(Chores)
  BY DEF OnlyFits, FeedsTyped
<1>1. ASSUME everFollowed \subseteq everFollowed', st_follows' \subseteq everFollowed',
             NEW T, Queues(T),
             \A v \in Readers, a \in People : Feeds!AddUser(v, a) \in T =>
               <<v, a>> \in everFollowed'
      PROVE  OnlyFits'
  <2>1. \A v, s : Fit(v, s) => Fit(v, s)'
    BY <1>1, SameScene DEF Fit
  <2>2. PICK z : Asks(z, T) /\ st_queue' = st_queue \o z
    BY <1>1 DEF Queues
  <2>3. UNCHANGED <<feed, st_work>>
    BY <1>1 DEF Queues
  <2>4. \A v \in Readers : \A s \in feed'[v] : Fit(v, s)'
    BY <1>0, <2>1, <2>3
  <2>5. \A w \in Clerks, v \in Readers, s \in Feeds!Statuses : <<v, s>> \in st_work'[w].add =>
          Fit(v, s)'
    BY <1>0, <2>1, <2>3
  <2>6. \A t : Has(st_queue', t) <=> Has(st_queue, t) \/ t \in T
    BY <1>0, <2>2, HasEither DEF Asks
  <2>7. \A v \in Readers, a \in People : Has(st_queue', Feeds!AddUser(v, a)) =>
          <<v, a>> \in everFollowed'
    BY <1>0, <1>1, <2>6
  <2> QED
    BY <1>1, <2>4, <2>5, <2>7, SameScene DEF OnlyFits
<1>2. ASSUME NEW s \in Feeds!Statuses, Feeds!Post(s) \/ Feeds!Delete(s) \/ Feeds!Unboost(s)
               \/ \E p \in Feeds!Privacies : Feeds!Edit(s, p)
      PROVE  OnlyFits'
  <2>1. UNCHANGED <<st_follows, everFollowed>>
    BY <1>2 DEF Feeds!Post, Feeds!Delete, Feeds!Unboost, Feeds!Edit
  <2>2. \/ Queues({Feeds!AddStatus(s)} \cup Only(Feeds!Boosted[s] # 0, Feeds!HandleBoost(s)))
        \/ Queues({Feeds!RemoveStatus(s)})
        \/ Queues({Feeds!RemoveStatus(s), Feeds!AddStatus(Feeds!Boosted[s])}) \/ Queues({})
    BY <1>0, <1>2, PostQueues, DeleteQueues, UnboostQueues, EditQueues
  <2>3. \A v, a : /\ Feeds!AddUser(v, a)
                       \notin {Feeds!AddStatus(s)}
                         \cup Only(Feeds!Boosted[s] # 0, Feeds!HandleBoost(s))
                  /\ Feeds!AddUser(v, a) \notin {Feeds!RemoveStatus(s)}
                  /\ Feeds!AddUser(v, a)
                       \notin {Feeds!RemoveStatus(s), Feeds!AddStatus(Feeds!Boosted[s])}
    BY TaskKinds DEF Only
  <2> QED
    BY <1>0, <1>1, <2>1, <2>2, <2>3
<1>3. ASSUME NEW v \in People, NEW a \in People, Feeds!Follow(v, a) PROVE OnlyFits'
  <2>1. st_follows' = st_follows \cup {<<v, a>>} /\ everFollowed' = everFollowed \cup {<<v, a>>}
    BY <1>3 DEF Feeds!Follow
  <2>2. Queues(Only(Feeds!OnHome /\ v \in Readers, Feeds!AddUser(v, a)))
    BY <1>0, <1>3, FollowQueues
  <2>3. \A u, b : Feeds!AddUser(u, b) \in Only(Feeds!OnHome
                                                /\ v \in Readers, Feeds!AddUser(v, a)) =>
                                                     u = v /\ b = a
    BY TaskKinds DEF Only
  <2> QED
    BY <1>0, <1>1, <2>1, <2>2, <2>3
<1>4. ASSUME NEW v \in People, NEW a \in People, Feeds!Unfollow(v, a) \/ Feeds!Block(v, a)
      PROVE  OnlyFits'
  <2>1. st_follows' \subseteq st_follows /\ everFollowed' = everFollowed
    BY <1>4 DEF Feeds!Unfollow, Feeds!Block
  <2>2. \/ Queues(Only(Feeds!OnHome /\ v \in Readers, Feeds!RemoveUser(v, a)))
        \/ Queues(Only(v \in Readers, Feeds!RemoveUser(v, a))
                   \cup Only(a \in Readers, Feeds!RemoveUser(a, v)))
    BY <1>0, <1>4, FollowQueues, BlockQueues
  <2>3. \A u, b : /\ Feeds!AddUser(u, b)
                       \notin Only(Feeds!OnHome /\ v \in Readers, Feeds!RemoveUser(v, a))
                  /\ Feeds!AddUser(u, b)
                       \notin Only(v \in Readers, Feeds!RemoveUser(v, a))
                         \cup Only(a \in Readers, Feeds!RemoveUser(a, v))
    BY TaskKinds DEF Only
  <2> QED
    BY <1>0, <1>1, <2>1, <2>2, <2>3
<1>5. ASSUME NEW v \in People, NEW a \in People, Feeds!Unblock(v, a) PROVE OnlyFits'
  <2>1. UNCHANGED <<st_follows, everFollowed>>
    BY <1>5 DEF Feeds!Unblock
  <2>2. PICK free : free = (<<a, v>> \notin st_blocks /\ ~Feeds!OnHome)
    OBVIOUS
  <2>3. Queues(Only(free /\ v \in Readers, Feeds!AddUser(v, a))
                \cup Only(free /\ a \in Readers, Feeds!AddUser(a, v)))
    BY <1>0, <1>5, <2>2, UnblockQueues
  <2>4. Only(free /\ v \in Readers, Feeds!AddUser(v, a))
          \cup Only(free /\ a \in Readers, Feeds!AddUser(a, v)) = {}
    BY <2>2 DEF Only
  <2> QED
    BY <1>0, <1>1, <2>1, <2>3, <2>4
<1>6. ASSUME NEW v \in Readers, NEW f \in Films,
             Feeds!Shelve(v, f) \/ Feeds!Unshelve(v, f) \/ Feeds!BlockFilm(v, f)
               \/ Feeds!UnblockFilm(v, f)
      PROVE  OnlyFits'
  <2>1. UNCHANGED <<st_follows, everFollowed>>
    BY <1>6 DEF Feeds!Shelve, Feeds!Unshelve, Feeds!BlockFilm, Feeds!UnblockFilm
  <2>2. \/ Queues(Only(Feeds!OnFilms, Feeds!AddFilm(v, f)))
        \/ Queues(Only(Feeds!OnFilms, Feeds!RemoveFilm(v, f)))
        \/ Queues({Feeds!RemoveFilm(v, f)}) \/ Queues({Feeds!AddFilm(v, f)})
    BY <1>0, <1>6, FilmQueues
  <2>3. \A u, b : /\ Feeds!AddUser(u, b) \notin Only(Feeds!OnFilms, Feeds!AddFilm(v, f))
                  /\ Feeds!AddUser(u, b) \notin Only(Feeds!OnFilms, Feeds!RemoveFilm(v, f))
                  /\ Feeds!AddUser(u, b) \notin {Feeds!RemoveFilm(v, f)}
                  /\ Feeds!AddUser(u, b) \notin {Feeds!AddFilm(v, f)}
    BY TaskKinds DEF Only
  <2> QED
    BY <1>0, <1>1, <2>1, <2>2, <2>3
<1> QED
  BY <1>2, <1>3, <1>4, <1>5, <1>6 DEF Feeds!Happen

LEMMA WorkFits ==
  ASSUME FeedsTyped, OnlyFits, scene' = scene, NEW w \in Clerks, Feeds!Start(w) \/ Feeds!Finish(w)
  PROVE  OnlyFits'
<1> SUFFICES ASSUME Feeds!OnHome PROVE OnlyFits'
  BY SameScene DEF OnlyFits, Feeds!OnHome
<1>0. /\ scene \in Scenes /\ st_follows \subseteq everFollowed
      /\ \A v \in Readers : \A s \in feed[v] : Fit(v, s)
      /\ \A x \in Clerks, v \in Readers, s \in Feeds!Statuses : <<v, s>> \in st_work[x].add =>
           Fit(v, s)
      /\ \A v \in Readers, a \in People : Has(st_queue, Feeds!AddUser(v, a)) =>
           <<v, a>> \in everFollowed
      /\ st_queue \in Seq(Chores) /\ st_work \in [Clerks -> Writes]
      /\ feed \in [Readers -> SUBSET Feeds!Statuses]
  BY DEF OnlyFits, FeedsTyped
<1>1. UNCHANGED <<st_follows, everFollowed>>
  BY DEF Feeds!Start, Feeds!Finish, Feeds!rows
<1>2. \A v, s : Fit(v, s) <=> Fit(v, s)'
  BY <1>1, SameScene DEF Fit
<1>3. CASE Feeds!Start(w)
  <2>1. PICK i \in 1 .. Len(st_queue) : st_work'
               = [st_work EXCEPT ![w] = Feeds!Reads(st_queue[i])]
                 /\ st_queue' = Feeds!RemoveAt(st_queue, i)
    BY <1>3 DEF Feeds!Start
  <2>2. st_queue[i] \in Chores /\ \A t : Has(st_queue', t) => Has(st_queue, t)
    BY <1>0, <2>1, TakenOut
  <2>3. Has(st_queue, st_queue[i]) /\ feed' = feed
    BY <1>3, <2>1 DEF Has, Feeds!Start
  <2>4. ASSUME NEW v \in Readers, NEW s \in Feeds!Statuses,
               <<v, s>> \in Feeds!Reads(st_queue[i]).add
        PROVE  Fit(v, s)
    <3>1. CASE v \in Feeds!Audience(s, TRUE)
      BY <1>0, <3>1 DEF Feeds!Audience, Feeds!OnHome, Fit
    <3>2. CASE st_queue[i] = Feeds!AddUser(v, Feeds!By[s])
      <4>1. Feeds!By[s] \in People
        BY <1>0, SceneIs
      <4> QED
        BY <1>0, <2>3, <3>2, <4>1 DEF Fit
    <3>3. ASSUME NEW f \in Films, s \in Feeds!AboutFilm(f, Feeds!Selected(v)) PROVE Fit(v, s)
      BY <1>0, <3>3, ChosenPosted DEF Feeds!AboutFilm, Feeds!Selected, Feeds!OnHome, Fit
    <3> QED
      BY <2>2, <2>4, <3>1, <3>2, <3>3, AddsWhat
  <2>5. \A x \in Clerks, v \in Readers, s \in Feeds!Statuses : <<v, s>> \in st_work'[x].add =>
          Fit(v, s)
    BY <1>0, <2>1, <2>4
  <2> QED
    BY <1>0, <1>1, <1>2, <2>2, <2>3, <2>5, SameScene DEF OnlyFits
<1>4. CASE Feeds!Finish(w)
  <2>1. /\ feed' = [v \in Readers |-> Feeds!Written(v, st_work[w])]
        /\ st_work' = [st_work EXCEPT ![w] = Feeds!Nothing] /\ st_queue' = st_queue
    BY <1>4 DEF Feeds!Finish
  <2>2. \A v \in Readers : \A s \in feed'[v] : Fit(v, s)
    <3>1. ASSUME NEW v \in Readers, NEW s \in feed'[v] PROVE Fit(v, s)
      <4>1. st_work[w] \in Writes /\ feed'[v] = Feeds!Written(v, st_work[w])
        BY <1>0, <2>1
      <4>2. s \in Feeds!Statuses /\ (<<v, s>> \in st_work[w].add \/ s \in feed[v])
        BY <4>1, WrittenTyped
      <4> QED
        BY <1>0, <4>2
    <3> QED
      BY <3>1
  <2>3. \A x \in Clerks, v \in Readers, s \in Feeds!Statuses : <<v, s>> \in st_work'[x].add =>
          Fit(v, s)
    BY <1>0, <2>1 DEF Feeds!Nothing
  <2> QED
    BY <1>0, <1>1, <1>2, <2>1, <2>2, <2>3, SameScene DEF OnlyFits
<1> QED
  BY <1>3, <1>4

LEMMA NextFits == FeedsTyped /\ OnlyFits /\ [Feeds!Next]_(Feeds!vars) => OnlyFits'
<1> SUFFICES ASSUME FeedsTyped, OnlyFits, [Feeds!Next]_(Feeds!vars) PROVE OnlyFits'
  OBVIOUS
<1>1. CASE Feeds!Next
  BY <1>1, HappenFits, WorkFits DEF Feeds!Next
<1>2. CASE UNCHANGED Feeds!vars
  <2>1. scene' = scene /\ UNCHANGED <<st_follows, everFollowed, feed, st_work, st_queue>>
    BY <1>2 DEF Feeds!vars, Feeds!rows
  <2> QED
    BY <2>1, SameScene DEF OnlyFits, Feeds!OnHome, Fit
<1> QED
  BY <1>1, <1>2

LEMMA FitsAreFollowed == OnlyFits => Feeds!OnlyEverFollowed
BY DEF OnlyFits, Feeds!OnlyEverFollowed, Fit

-----------------------------------------------------------------------------
(* Feeds!Tasks in their order                                                      *)

\* No t comes after the last u.
Before(tasks, t, u) ==
  \A i \in 1 .. Len(tasks) : tasks[i] = t => \E j \in 1 .. Len(tasks) : i < j /\ tasks[j] = u

\* Once the pipelines that wait are written, v has s.
Kept(v, s) ==
  \/ \E w \in Clerks : <<v, s>> \in st_work[w].add
  \/ s \in feed[v] /\ \A w \in Clerks : <<v, s>> \notin st_work[w].drop

\* In order, one worker works at a time.
Alone == scene.inOrder => \A w, x \in Clerks : w # x => Feeds!Idle(w) \/ Feeds!Idle(x)

\* A worker takes t from the queue, which changes what users will have.
Takes(t) ==
  /\ t \in Chores
  /\ \A x : Has(st_queue, x) <=> x = t \/ Has(st_queue', x)
  /\ \A x, y : Before(st_queue, x, y) => Before(st_queue', x, y) /\ (x = t => Has(st_queue', y))
  /\ \A v \in Readers, s \in Feeds!Statuses :
       Kept(v, s)' <=> <<v, s>> \in Feeds!Reads(t).add
         \/ (Kept(v, s) /\ <<v, s>> \notin Feeds!Reads(t).drop)

LEMMA BeforeLater ==
  ASSUME NEW S, NEW q \in Seq(S), NEW z \in Seq(S), NEW t, NEW u
  PROVE  /\ Before(q, t, u) /\ ~Has(z, t) => Before(q \o z, t, u)
         /\ Has(z, u) /\ ~Has(z, t) => Before(q \o z, t, u)
<1>1. PICK n, m \in Nat : n = Len(q) /\ m = Len(z)
  OBVIOUS
<1>2. /\ Len(q \o z) = n + m
      /\ \A i \in 1 .. n : i \in 1 .. n + m /\ (q \o z)[i] = q[i]
      /\ \A k \in 1 .. m : n + k \in 1 .. n + m /\ (q \o z)[n + k] = z[k]
      /\ \A j \in 1 .. n + m : (j \in 1 .. n) \/ (j - n \in 1 .. m /\ (q \o z)[j] = z[j - n])
  BY <1>1
<1>3. ASSUME ~Has(z, t), NEW i \in 1 .. Len(q \o z), (q \o z)[i] = t
      PROVE  i \in 1 .. n /\ q[i] = t
  BY <1>1, <1>2, <1>3 DEF Has
<1>4. ASSUME Before(q, t, u), ~Has(z, t) PROVE Before(q \o z, t, u)
  <2>1. ASSUME NEW i \in 1 .. Len(q \o z), (q \o z)[i] = t
        PROVE  \E j \in 1 .. Len(q \o z) : i < j /\ (q \o z)[j] = u
    <3>1. i \in 1 .. n /\ q[i] = t
      BY <1>3, <1>4, <2>1
    <3>2. PICK j \in 1 .. n : i < j /\ q[j] = u
      BY <1>1, <1>4, <3>1 DEF Before
    <3> QED
      BY <1>2, <3>2
  <2> QED
    BY <2>1 DEF Before
<1>5. ASSUME Has(z, u), ~Has(z, t) PROVE Before(q \o z, t, u)
  <2>1. PICK k \in 1 .. m : z[k] = u
    BY <1>1, <1>5 DEF Has
  <2>2. ASSUME NEW i \in 1 .. Len(q \o z), (q \o z)[i] = t
        PROVE  \E j \in 1 .. Len(q \o z) : i < j /\ (q \o z)[j] = u
    <3>1. i \in 1 .. n
      BY <1>3, <1>5, <2>2
    <3>2. i < n + k /\ n + k \in 1 .. Len(q \o z) /\ (q \o z)[n + k] = u
      BY <1>1, <1>2, <2>1, <3>1
    <3> QED
      BY <3>2
  <2> QED
    BY <2>2 DEF Before
<1> QED
  BY <1>4, <1>5

\* The queue without its head.
LEMMA HeadTaken ==
  ASSUME NEW S, NEW q \in Seq(S), q # <<>>
  PROVE  /\ q[1] \in S /\ Feeds!RemoveAt(q, 1) \in Seq(S)
         /\ \A t : Has(q, t) <=> t = q[1] \/ Has(Feeds!RemoveAt(q, 1), t)
         /\ \A t, u : Before(q, t, u) => /\ Before(Feeds!RemoveAt(q, 1), t, u)
                                         /\ t = q[1] => Has(Feeds!RemoveAt(q, 1), u)
<1>1. PICK n \in Nat : n = Len(q) /\ n >= 1
  OBVIOUS
<1>2. PICK r \in Seq(S) : r = SubSeq(q, 2, n)
  <2>1. 2 \in Nat /\ n \in Nat /\ n <= Len(q) /\ 1 <= 2
    BY <1>1
  <2>2. SubSeq(q, 2, n) \in Seq(S)
    BY <2>1
  <2> QED
    BY <2>2
<1>3. Feeds!RemoveAt(q, 1) = r
  <2>1. SubSeq(q, 1, 1 - 1) = <<>> /\ SubSeq(q, 1 + 1, Len(q)) = r
    BY <1>1, <1>2
  <2>2. <<>> \o r = r
    BY <1>2
  <2> QED
    BY <2>1, <2>2 DEF Feeds!RemoveAt
<1>4. Len(r) = n - 1 /\ \A k \in 1 .. n - 1 : r[k] = q[k + 1]
  BY <1>1, <1>2
<1>5. ASSUME NEW t PROVE Has(q, t) <=> t = q[1] \/ Has(r, t)
  <2>1. ASSUME Has(q, t) PROVE t = q[1] \/ Has(r, t)
    <3>1. PICK k \in 1 .. n : q[k] = t
      BY <1>1, <2>1 DEF Has
    <3>2. CASE k # 1
      <4>1. k - 1 \in 1 .. n - 1 /\ (k - 1) + 1 = k
        BY <1>1, <3>1, <3>2
      <4>2. r[k - 1] = t /\ k - 1 \in 1 .. Len(r)
        BY <1>4, <3>1, <4>1
      <4> QED
        BY <4>2 DEF Has
    <3> QED
      BY <3>1, <3>2
  <2>2. ASSUME Has(r, t) PROVE Has(q, t)
    <3>1. PICK k \in 1 .. n - 1 : r[k] = t
      BY <1>4, <2>2 DEF Has
    <3>2. k + 1 \in 1 .. Len(q) /\ q[k + 1] = t
      BY <1>1, <1>4, <3>1
    <3> QED
      BY <3>2 DEF Has
  <2>3. Has(q, q[1])
    BY <1>1 DEF Has
  <2> QED
    BY <2>1, <2>2, <2>3
<1>6. ASSUME NEW t, NEW u, Before(q, t, u) PROVE Before(r, t, u) /\ (t = q[1] => Has(r, u))
  <2>1. ASSUME NEW i \in 1 .. n, q[i] = t
        PROVE  \E j \in 1 .. n - 1 : i - 1 < j /\ r[j] = u
    <3>1. PICK j \in 1 .. n : i < j /\ q[j] = u
      BY <1>1, <1>6, <2>1 DEF Before
    <3>2. j - 1 \in 1 .. n - 1 /\ i - 1 < j - 1 /\ (j - 1) + 1 = j
      BY <1>1, <3>1
    <3> QED
      BY <1>4, <3>1, <3>2
  <2>2. ASSUME NEW i \in 1 .. Len(r), r[i] = t PROVE \E j \in 1 .. Len(r) : i < j /\ r[j] = u
    <3>1. i + 1 \in 1 .. n /\ q[i + 1] = t /\ (i + 1) - 1 = i
      BY <1>1, <1>4, <2>2
    <3> QED
      BY <1>4, <2>1, <3>1
  <2>3. ASSUME t = q[1] PROVE Has(r, u)
    <3>1. 1 \in 1 .. n
      BY <1>1
    <3> QED
      BY <1>4, <2>1, <2>3, <3>1 DEF Has
  <2> QED
    BY <2>2, <2>3 DEF Before
<1>7. q[1] \in S
  BY <1>1
<1> QED
  BY <1>2, <1>3, <1>5, <1>6, <1>7

\* An event keeps what users will have, and its tasks are the last.
LEMMA QueuesLater ==
  ASSUME FeedsTyped, NEW T, Queues(T)
  PROVE  /\ \A v, s : Kept(v, s)' <=> Kept(v, s)
         /\ \A t : Has(st_queue', t) <=> Has(st_queue, t) \/ t \in T
         /\ \A t, u : t \notin T /\ (Before(st_queue, t, u) \/ u \in T) => Before(st_queue', t, u)
<1>1. PICK z : Asks(z, T) /\ st_queue' = st_queue \o z
  BY DEF Queues
<1>2. z \in Seq(Chores) /\ st_queue \in Seq(Chores) /\ \A t : Has(z, t) <=> t \in T
  BY <1>1 DEF Asks, FeedsTyped
<1>3. \A t : Has(st_queue', t) <=> Has(st_queue, t) \/ t \in T
  BY <1>1, <1>2, HasEither
<1>4. \A t, u : t \notin T /\ (Before(st_queue, t, u) \/ u \in T) => Before(st_queue', t, u)
  BY <1>1, <1>2, BeforeLater
<1>5. \A v, s : Kept(v, s)' <=> Kept(v, s)
  BY DEF Queues, Kept
<1> QED
  BY <1>3, <1>4, <1>5

LEMMA StartTakes ==
  ASSUME FeedsTyped, scene.inOrder, scene' = scene, NEW w \in Clerks, Feeds!Start(w)
  PROVE  /\ \E t : Takes(t)
         /\ UNCHANGED Feeds!rows
         /\ \A x \in Clerks : x # w => Feeds!Idle(x)'
<1>0. st_queue \in Seq(Chores) /\ st_work \in [Clerks -> Writes]
  BY DEF FeedsTyped
<1>1. /\ st_queue # <<>> /\ \A x \in Clerks : Feeds!Idle(x)
      /\ st_work' = [st_work EXCEPT ![w] = Feeds!Reads(st_queue[1])]
      /\ st_queue' = Feeds!RemoveAt(st_queue, 1)
      /\ UNCHANGED <<Feeds!rows, feed>>
  <2>1. PICK i \in 1 .. Len(st_queue) :
          /\ scene.inOrder => i = 1 /\ \A x \in Clerks : Feeds!Idle(x)
          /\ st_work' = [st_work EXCEPT ![w] = Feeds!Reads(st_queue[i])]
          /\ st_queue' = Feeds!RemoveAt(st_queue, i)
    BY DEF Feeds!Start
  <2>2. i = 1 /\ \A x \in Clerks : Feeds!Idle(x)
    BY <2>1
  <2>3. st_queue # <<>>
    BY <1>0, <2>1
  <2> QED
    BY <2>1, <2>2, <2>3 DEF Feeds!Start
<1>2. PICK t : t = st_queue[1]
  OBVIOUS
<1>3. /\ t \in Chores
      /\ \A x : Has(st_queue, x) <=> x = t \/ Has(st_queue', x)
      /\ \A x, y : Before(st_queue, x, y) => Before(st_queue', x, y) /\ (x = t => Has(st_queue', y))
  BY <1>0, <1>1, <1>2, HeadTaken
<1>4. \A x \in Clerks : st_work'[x] = IF x = w THEN Feeds!Reads(t) ELSE Feeds!Nothing
  BY <1>0, <1>1, <1>2 DEF Feeds!Idle
<1>5. \A p : p \notin Feeds!Nothing.add /\ p \notin Feeds!Nothing.drop
  BY DEF Feeds!Nothing
<1>6. \A v, s : Kept(v, s) <=> s \in feed[v]
  BY <1>1, <1>5 DEF Kept, Feeds!Idle
<1>7. \A v, s : Kept(v, s)' <=> <<v, s>> \in Feeds!Reads(t).add
        \/ (s \in feed[v] /\ <<v, s>> \notin Feeds!Reads(t).drop)
  BY <1>1, <1>4, <1>5 DEF Kept
<1>8. \A x \in Clerks : x # w => Feeds!Idle(x)'
  BY <1>4 DEF Feeds!Idle
<1>9. Takes(t)
  BY <1>3, <1>6, <1>7 DEF Takes
<1> QED
  BY <1>1, <1>8, <1>9

LEMMA FinishKeeps ==
  ASSUME FeedsTyped, Alone, scene.inOrder, scene' = scene, NEW w \in Clerks, Feeds!Finish(w)
  PROVE  /\ \A v \in Readers, s \in Feeds!Statuses : Kept(v, s)' <=> Kept(v, s)
         /\ UNCHANGED <<Feeds!rows, st_queue>>
         /\ \A x \in Clerks : Feeds!Idle(x)'
<1>1. /\ scene \in Scenes /\ scene.n < Feeds!MaxLength
  BY SceneIs DEF FeedsTyped, Feeds!Orderly, Feeds!MaxLength
<1>2. /\ feed' = [v \in Readers |-> Feeds!Written(v, st_work[w])]
      /\ st_work' = [st_work EXCEPT ![w] = Feeds!Nothing]
      /\ UNCHANGED <<Feeds!rows, st_queue>> /\ ~Feeds!Idle(w)
  BY DEF Feeds!Finish
<1>3. \A x \in Clerks : x # w => st_work[x] = Feeds!Nothing
  BY <1>2 DEF Alone, Feeds!Idle
<1>4. st_work \in [Clerks -> Writes]
  BY DEF FeedsTyped
<1>5. \A x \in Clerks : st_work'[x] = Feeds!Nothing
  BY <1>2, <1>3, <1>4
<1>6. \A p : p \notin Feeds!Nothing.add /\ p \notin Feeds!Nothing.drop
  BY DEF Feeds!Nothing
<1>7. \A v, s : Kept(v, s)' <=> s \in feed'[v]
  BY <1>5, <1>6 DEF Kept
<1>8. \A v, s : Kept(v, s) <=> <<v, s>> \in st_work[w].add
        \/ (s \in feed[v] /\ <<v, s>> \notin st_work[w].drop)
  BY <1>3, <1>6 DEF Kept
<1>9. ASSUME NEW v \in Readers, NEW s \in Feeds!Statuses
      PROVE  s \in feed'[v] <=> <<v, s>> \in st_work[w].add
               \/ (s \in feed[v] /\ <<v, s>> \notin st_work[w].drop)
  <2>1. st_work[w] \in Writes /\ feed'[v] = Feeds!Written(v, st_work[w])
    BY <1>2, <1>4
  <2> QED
    BY <1>1, <2>1, WrittenTyped
<1> QED
  BY <1>2, <1>5, <1>7, <1>8, <1>9 DEF Feeds!Idle

LEMMA NextAlone == FeedsTyped /\ Alone /\ [Feeds!Next]_(Feeds!vars) => Alone'
<1> SUFFICES ASSUME FeedsTyped, Alone, [Feeds!Next]_(Feeds!vars), scene'.inOrder
             PROVE  \A w, x \in Clerks : w # x => Feeds!Idle(w)' \/ Feeds!Idle(x)'
  BY DEF Alone
<1>0. scene' = scene /\ scene.inOrder
  BY DEF Feeds!Next, Feeds!vars
<1>1. CASE UNCHANGED st_work
  BY <1>0, <1>1 DEF Alone, Feeds!Idle
<1>2. ASSUME NEW w \in Clerks, Feeds!Start(w) PROVE \A x \in Clerks : x # w => Feeds!Idle(x)'
  BY <1>0, <1>2, StartTakes
<1>3. ASSUME NEW w \in Clerks, Feeds!Finish(w) PROVE \A x \in Clerks : Feeds!Idle(x)'
  BY <1>0, <1>3, FinishKeeps
<1>4. Feeds!Happen \/ UNCHANGED Feeds!vars => UNCHANGED st_work
  BY DEF Feeds!vars, Feeds!Happen, Feeds!Event, Feeds!Post, Feeds!Delete, Feeds!Unboost,
     Feeds!Edit, Feeds!Follow, Feeds!Unfollow, Feeds!Block, Feeds!Unblock,
         Feeds!Shelve, Feeds!Unshelve, Feeds!BlockFilm, Feeds!UnblockFilm
<1> QED
  BY <1>1, <1>2, <1>3, <1>4 DEF Feeds!Next

\* What the tasks do, where nothing is cut.
LEMMA Effects ==
  ASSUME FeedsTyped, scene.inOrder
  PROVE  /\ \A s : Feeds!Reads(Feeds!AddStatus(s)) = IF s \in posted
              THEN Feeds!Adding(Feeds!Audience(s, TRUE), {s}) ELSE Feeds!Nothing
         /\ \A s : Feeds!Reads(Feeds!RemoveStatus(s)) = IF s \in posted
              THEN Feeds!Dropping(Feeds!Audience(s, FALSE), {s}) ELSE Feeds!Nothing
         /\ \A v, a : Feeds!Reads(Feeds!AddUser(v, a)) = Feeds!Adding({v}, Feeds!SeenOf(v, a))
         /\ \A v, a : Feeds!Reads(Feeds!RemoveUser(v, a))
              = Feeds!Dropping({v}, Feeds!WrittenBy(v, a))
         /\ \A v, f : Feeds!Reads(Feeds!AddFilm(v, f))
              = Feeds!Adding({v}, Feeds!AboutFilm(f, Feeds!Selected(v)))
         /\ \A v, f : Feeds!Reads(Feeds!RemoveFilm(v, f))
              = Feeds!Dropping({v}, Feeds!AboutFilm(f, Feeds!Visible(v, {"public"})))
<1>1. scene \in Scenes /\ scene.n < Feeds!MaxLength /\ posted \subseteq Feeds!Statuses
  BY SceneIs DEF FeedsTyped, Feeds!Orderly, Feeds!MaxLength
<1>2. Feeds!MaxLength \in Nat /\ scene.n \in Nat
  BY <1>1, SceneIs
<1>3. scene.n <= Feeds!MaxLength
  BY <1>1, <1>2
<1>4. ASSUME NEW v, NEW a
      PROVE  /\ Feeds!Newest(Feeds!SeenOf(v, a), Feeds!MaxLength) = Feeds!SeenOf(v, a)
             /\ Feeds!Newest(Feeds!WrittenBy(v, a), Feeds!MaxLength) = Feeds!WrittenBy(v, a)
  <2>1. /\ Feeds!SeenOf(v, a) \in SUBSET Feeds!Statuses
        /\ Feeds!WrittenBy(v, a) \in SUBSET Feeds!Statuses
    BY <1>1, ChosenPosted
  <2> QED
    BY <1>1, <1>2, <1>3, <2>1, NewestAll
<1>5. ASSUME NEW v, NEW a
      PROVE  /\ Feeds!Reads(Feeds!AddUser(v, a)) = Feeds!Adding({v}, Feeds!SeenOf(v, a))
             /\ Feeds!Reads(Feeds!RemoveUser(v, a)) = Feeds!Dropping({v}, Feeds!WrittenBy(v, a))
             /\ Feeds!Reads(Feeds!AddFilm(v, a))
                  = Feeds!Adding({v}, Feeds!AboutFilm(a, Feeds!Selected(v)))
             /\ Feeds!Reads(Feeds!RemoveFilm(v, a))
                  = Feeds!Dropping({v}, Feeds!AboutFilm(a, Feeds!Visible(v, {"public"})))
  <2>1. Feeds!Reads(Feeds!AddUser(v, a))
          = Feeds!Adding({v}, Feeds!Newest(Feeds!SeenOf(v, a), Feeds!MaxLength))
    BY DEF Feeds!Reads, Feeds!AddUser, Feeds!Task
  <2>2. Feeds!Reads(Feeds!RemoveUser(v, a))
          = Feeds!Dropping({v}, Feeds!Newest(Feeds!WrittenBy(v, a), Feeds!MaxLength))
    BY DEF Feeds!Reads, Feeds!RemoveUser, Feeds!Task
  <2>3. Feeds!Reads(Feeds!AddFilm(v, a)) = Feeds!Adding({v}, Feeds!AboutFilm(a, Feeds!Selected(v)))
    BY DEF Feeds!Reads, Feeds!AddFilm, Feeds!Task
  <2>4. Feeds!Reads(Feeds!RemoveFilm(v, a))
          = Feeds!Dropping({v}, Feeds!AboutFilm(a, Feeds!Visible(v, {"public"})))
    BY DEF Feeds!Reads, Feeds!RemoveFilm, Feeds!Task
  <2> QED
    BY <1>4, <2>1, <2>2, <2>3, <2>4
<1>6. ASSUME NEW s
      PROVE  /\ Feeds!Reads(Feeds!AddStatus(s)) = IF s \in posted
                  THEN Feeds!Adding(Feeds!Audience(s, TRUE), {s}) ELSE Feeds!Nothing
             /\ Feeds!Reads(Feeds!RemoveStatus(s)) = IF s \in posted
                  THEN Feeds!Dropping(Feeds!Audience(s, FALSE), {s}) ELSE Feeds!Nothing
  <2>1. Feeds!Reads(Feeds!AddStatus(s)) = IF s \in posted
          THEN Feeds!Adding(Feeds!Audience(s, TRUE), {s}) ELSE Feeds!Nothing
    BY DEF Feeds!Reads, Feeds!AddStatus, Feeds!Task
  <2>2. Feeds!Reads(Feeds!RemoveStatus(s)) = IF s \in posted
          THEN Feeds!Dropping(Feeds!Audience(s, FALSE), {s}) ELSE Feeds!Nothing
    BY DEF Feeds!Reads, Feeds!RemoveStatus, Feeds!Task
  <2> QED
    BY <2>1, <2>2
<1> QED
  BY <1>5, <1>6

LEMMA ChoreIs ==
  ASSUME NEW t \in Chores
  PROVE  \/ \E s \in Feeds!Statuses : t = Feeds!AddStatus(s)
         \/ \E s \in Feeds!Statuses : t = Feeds!RemoveStatus(s)
         \/ \E s \in Feeds!Statuses : t = Feeds!HandleBoost(s) /\ Feeds!Boosted[s] # 0
         \/ \E v \in Readers, a \in People : t = Feeds!AddUser(v, a)
         \/ \E v \in Readers, a \in People : t = Feeds!RemoveUser(v, a)
         \/ \E v \in Readers, f \in Films : t = Feeds!AddFilm(v, f)
         \/ \E v \in Readers, f \in Films : t = Feeds!RemoveFilm(v, f)
<1>1. CASE t \in StatusTasks /\ (t.do = "handle_boost" => Feeds!Boosted[t.of] # 0)
  BY <1>1 DEF StatusTasks, Feeds!AddStatus, Feeds!RemoveStatus, Feeds!HandleBoost, Feeds!Task
<1>2. CASE t \in UserTasks
  BY <1>2 DEF UserTasks, Feeds!AddUser, Feeds!RemoveUser, Feeds!Task
<1>3. CASE t \in FilmTasks
  BY <1>3 DEF FilmTasks, Feeds!AddFilm, Feeds!RemoveFilm, Feeds!Task
<1> QED
  BY <1>1, <1>2, <1>3 DEF Chores

LEMMA SameTasks ==
  ASSUME scene' = scene
  PROVE  \A s : Feeds!AddStatus(s)' = Feeds!AddStatus(s)
           /\ Feeds!RemoveStatus(s)' = Feeds!RemoveStatus(s)
BY DEF Feeds!AddStatus, Feeds!RemoveStatus, Feeds!Task, Feeds!By

LEMMA TakesWhat ==
  ASSUME FeedsTyped, scene.inOrder, NEW t, Takes(t)
  PROVE  /\ \A u : t = Feeds!AddStatus(u) => \A v \in Readers, s \in Feeds!Statuses :
              Kept(v, s)' <=> Kept(v, s) \/ (s = u /\ u \in posted /\ v \in Feeds!Audience(u, TRUE))
         /\ \A u : t = Feeds!RemoveStatus(u) => \A v \in Readers, s \in Feeds!Statuses :
              Kept(v, s)' <=> Kept(v, s)
                /\ ~(s = u /\ u \in posted /\ v \in Feeds!Audience(u, FALSE))
         /\ \A u, a : t = Feeds!AddUser(u, a) => \A v \in Readers, s \in Feeds!Statuses :
              Kept(v, s)' <=> Kept(v, s) \/ (v = u /\ s \in Feeds!SeenOf(u, a))
         /\ \A u, a : t = Feeds!RemoveUser(u, a) => \A v \in Readers, s \in Feeds!Statuses :
              Kept(v, s)' <=> Kept(v, s) /\ ~(v = u /\ s \in posted /\ Feeds!By[s] = a)
         /\ \A u, f : t = Feeds!AddFilm(u, f) => \A v \in Readers, s \in Feeds!Statuses :
              Kept(v, s)' <=> Kept(v, s) \/ (v = u /\ s \in Feeds!AboutFilm(f, Feeds!Selected(u)))
         /\ \A u, f : t = Feeds!RemoveFilm(u, f) => \A v \in Readers, s \in Feeds!Statuses :
              Kept(v, s)' <=> Kept(v, s)
                /\ ~(v = u /\ s \in Feeds!AboutFilm(f, Feeds!Visible(u, {"public"})))
<1>1. \A v \in Readers, s \in Feeds!Statuses :
        Kept(v, s)' <=> <<v, s>> \in Feeds!Reads(t).add
          \/ (Kept(v, s) /\ <<v, s>> \notin Feeds!Reads(t).drop)
  BY DEF Takes
<1>2. /\ \A V, S : Feeds!Adding(V, S).add = V \X S /\ Feeds!Adding(V, S).drop = {}
      /\ \A V, S : Feeds!Dropping(V, S).add = {} /\ Feeds!Dropping(V, S).drop = V \X S
      /\ Feeds!Nothing.add = {} /\ Feeds!Nothing.drop = {}
  BY DEF Feeds!Adding, Feeds!Dropping, Feeds!Nothing
<1>3. ASSUME NEW V, NEW S
      PROVE  /\ Feeds!Reads(t) = Feeds!Adding(V, S) => \A v \in Readers, s \in Feeds!Statuses :
                  Kept(v, s)' <=> Kept(v, s) \/ (v \in V /\ s \in S)
             /\ Feeds!Reads(t) = Feeds!Dropping(V, S) => \A v \in Readers, s \in Feeds!Statuses :
                  Kept(v, s)' <=> Kept(v, s) /\ ~(v \in V /\ s \in S)
             /\ Feeds!Reads(t) = Feeds!Nothing =>
                  \A v \in Readers, s \in Feeds!Statuses : Kept(v, s)' <=> Kept(v, s)
  <2>1. ASSUME Feeds!Reads(t) = Feeds!Adding(V, S), NEW v \in Readers, NEW s \in Feeds!Statuses
        PROVE  Kept(v, s)' <=> Kept(v, s) \/ (v \in V /\ s \in S)
    <3>1. /\ (<<v, s>> \in Feeds!Reads(t).add <=> v \in V /\ s \in S)
          /\ <<v, s>> \notin Feeds!Reads(t).drop
      BY <1>2, <2>1
    <3> QED
      BY <1>1, <3>1
  <2>2. ASSUME Feeds!Reads(t) = Feeds!Dropping(V, S), NEW v \in Readers, NEW s \in Feeds!Statuses
        PROVE  Kept(v, s)' <=> Kept(v, s) /\ ~(v \in V /\ s \in S)
    <3>1. /\ (<<v, s>> \in Feeds!Reads(t).drop <=> v \in V /\ s \in S)
          /\ <<v, s>> \notin Feeds!Reads(t).add
      BY <1>2, <2>2
    <3> QED
      BY <1>1, <3>1
  <2>3. ASSUME Feeds!Reads(t) = Feeds!Nothing, NEW v \in Readers, NEW s \in Feeds!Statuses
        PROVE  Kept(v, s)' <=> Kept(v, s)
    <3>1. <<v, s>> \notin Feeds!Reads(t).add /\ <<v, s>> \notin Feeds!Reads(t).drop
      BY <1>2, <2>3
    <3> QED
      BY <1>1, <3>1
  <2> QED
    BY <2>1, <2>2, <2>3
<1>4. ASSUME NEW u, t = Feeds!AddStatus(u), NEW v \in Readers, NEW s \in Feeds!Statuses
      PROVE  Kept(v, s)' <=> Kept(v, s) \/ (s = u /\ u \in posted /\ v \in Feeds!Audience(u, TRUE))
  <2>1. Feeds!Reads(t) = IF u \in posted THEN Feeds!Adding(Feeds!Audience(u, TRUE), {u})
          ELSE Feeds!Nothing
    BY <1>4, Effects
  <2>2. CASE u \in posted
    <3>1. Kept(v, s)' <=> Kept(v, s) \/ (v \in Feeds!Audience(u, TRUE) /\ s \in {u})
      BY <1>3, <2>1, <2>2
    <3> QED
      BY <2>2, <3>1
  <2>3. CASE u \notin posted
    BY <1>3, <2>1, <2>3
  <2> QED
    BY <2>2, <2>3
<1>5. ASSUME NEW u, t = Feeds!RemoveStatus(u), NEW v \in Readers, NEW s \in Feeds!Statuses
      PROVE  Kept(v, s)' <=> Kept(v, s) /\ ~(s = u /\ u \in posted
                                              /\ v \in Feeds!Audience(u, FALSE))
  <2>1. Feeds!Reads(t) = IF u \in posted THEN Feeds!Dropping(Feeds!Audience(u, FALSE), {u})
          ELSE Feeds!Nothing
    BY <1>5, Effects
  <2>2. CASE u \in posted
    <3>1. Kept(v, s)' <=> Kept(v, s) /\ ~(v \in Feeds!Audience(u, FALSE) /\ s \in {u})
      BY <1>3, <2>1, <2>2
    <3> QED
      BY <2>2, <3>1
  <2>3. CASE u \notin posted
    BY <1>3, <2>1, <2>3
  <2> QED
    BY <2>2, <2>3
<1>6. ASSUME NEW u, NEW a, t = Feeds!AddUser(u, a), NEW v \in Readers, NEW s \in Feeds!Statuses
      PROVE  Kept(v, s)' <=> Kept(v, s) \/ (v = u /\ s \in Feeds!SeenOf(u, a))
  <2>1. Feeds!Reads(t) = Feeds!Adding({u}, Feeds!SeenOf(u, a))
    BY <1>6, Effects
  <2>2. Kept(v, s)' <=> Kept(v, s) \/ (v \in {u} /\ s \in Feeds!SeenOf(u, a))
    BY <1>3, <2>1
  <2> QED
    BY <2>2
<1>7. ASSUME NEW u, NEW a, t = Feeds!RemoveUser(u, a), NEW v \in Readers, NEW s \in Feeds!Statuses
      PROVE  Kept(v, s)' <=> Kept(v, s) /\ ~(v = u /\ s \in posted /\ Feeds!By[s] = a)
  <2>1. Feeds!Reads(t) = Feeds!Dropping({u}, Feeds!WrittenBy(u, a))
    BY <1>7, Effects
  <2>2. s \in Feeds!WrittenBy(u, a) <=> s \in posted /\ Feeds!By[s] = a
    BY DEF Feeds!WrittenBy
  <2>3. Kept(v, s)' <=> Kept(v, s) /\ ~(v \in {u} /\ s \in Feeds!WrittenBy(u, a))
    BY <1>3, <2>1
  <2> QED
    BY <2>2, <2>3
<1>8. ASSUME NEW u, NEW f, t = Feeds!AddFilm(u, f), NEW v \in Readers, NEW s \in Feeds!Statuses
      PROVE  Kept(v, s)' <=> Kept(v, s) \/ (v = u /\ s \in Feeds!AboutFilm(f, Feeds!Selected(u)))
  <2>1. Feeds!Reads(t) = Feeds!Adding({u}, Feeds!AboutFilm(f, Feeds!Selected(u)))
    BY <1>8, Effects
  <2>2. Kept(v, s)' <=> Kept(v, s) \/ (v \in {u} /\ s \in Feeds!AboutFilm(f, Feeds!Selected(u)))
    BY <1>3, <2>1
  <2> QED
    BY <2>2
<1>9. ASSUME NEW u, NEW f, t = Feeds!RemoveFilm(u, f), NEW v \in Readers, NEW s \in Feeds!Statuses
      PROVE  Kept(v, s)' <=> Kept(v, s) /\ ~(v = u /\ s
                                              \in Feeds!AboutFilm(f, Feeds!Visible(u, {"public"})))
  <2>1. Feeds!Reads(t) = Feeds!Dropping({u}, Feeds!AboutFilm(f, Feeds!Visible(u, {"public"})))
    BY <1>9, Effects
  <2>2. Kept(v, s)' <=> Kept(v, s) /\ ~(v \in {u}
                                         /\ s \in Feeds!AboutFilm(f, Feeds!Visible(u, {"public"})))
    BY <1>3, <2>1
  <2> QED
    BY <2>2
<1> QED
  BY <1>4, <1>5, <1>6, <1>7, <1>8, <1>9

-----------------------------------------------------------------------------
(* Home streams                                                              *)

\* What may wait, and what may be kept.
HomeShape ==
  /\ filmBlocks = {} /\ st_privacy = scene.privacy
  /\ \A v, a \in People : <<v, a>> \in st_follows => v # a /\ ~Feeds!Apart(v, a)
  /\ \A t : Has(st_queue, t) => \/ \E s \in posted : t = Feeds!AddStatus(s)
                                \/ \E s \in deleted : t = Feeds!RemoveStatus(s)
                                \/ \E v \in Readers, a \in People :
                                     v # a /\ (t = Feeds!AddUser(v, a)
                                                \/ t = Feeds!RemoveUser(v, a))
  /\ \A v \in Readers, s \in Feeds!Statuses : Kept(v, s) => s \in posted

\* The last task about a follow, or a status, is the one that fits the rows.
HomeQueue ==
  /\ \A v \in Readers, a \in People :
       IF <<v, a>> \in st_follows THEN Before(st_queue, Feeds!RemoveUser(v, a), Feeds!AddUser(v, a))
                               ELSE Before(st_queue, Feeds!AddUser(v, a), Feeds!RemoveUser(v, a))
  /\ \A s \in deleted : Before(st_queue, Feeds!AddStatus(s), Feeds!RemoveStatus(s))

\* What is kept and should not, and what should and is not, a task is about to mend.
HomeKept ==
  \A v \in Readers, s \in Feeds!Statuses :
    /\ Kept(v, s) /\ v # Feeds!By[s] /\ <<v, Feeds!By[s]>> \notin st_follows =>
         Has(st_queue, Feeds!RemoveUser(v, Feeds!By[s]))
    /\ s \in posted \ deleted /\ (v = Feeds!By[s] \/ <<v, Feeds!By[s]>> \in st_follows) =>
         Kept(v, s) \/ Has(st_queue, Feeds!AddStatus(s))
           \/ Has(st_queue, Feeds!AddUser(v, Feeds!By[s]))
    /\ s \in deleted /\ Kept(v, s) => Has(st_queue, Feeds!RemoveStatus(s))
         \/ Has(st_queue, Feeds!RemoveUser(v, Feeds!By[s]))

HomeOrder == scene.inOrder /\ Feeds!OnHome => HomeShape /\ HomeQueue /\ HomeKept

LEMMA HomeScene ==
  ASSUME scene \in Scenes, scene.inOrder, Feeds!OnHome
  PROVE  /\ scene.events \subseteq {"post", "delete", "follow", "block", "shelve"}
         /\ ~Feeds!OnFilms
         /\ \A s \in Feeds!Statuses : /\ Feeds!Boosted[s] = 0 /\ scene.privacy[s] # "direct"
                                      /\ Feeds!Parent[s] # 0 =>
                                           scene.privacy[Feeds!Parent[s]] # "followers"
BY SceneIs DEF Feeds!Orderly, Feeds!OnHome, Feeds!OnFilms, Feeds!Stream, Feeds!Statuses,
   Feeds!Boosted, Feeds!Parent

\* Who is told of a status: its author and the followers.
LEMMA HomeAudience ==
  ASSUME FeedsTyped, scene.inOrder, Feeds!OnHome, HomeShape, NEW s \in Feeds!Statuses,
         NEW v \in Readers, NEW whole \in BOOLEAN
  PROVE  v \in Feeds!Audience(s, whole) <=> v = Feeds!By[s] \/ <<v, Feeds!By[s]>> \in st_follows
<1>1. scene \in Scenes /\ Feeds!By[s] \in People /\ v \in People
  BY SceneIs DEF FeedsTyped
<1>2. v \in Feeds!Audience(s, whole) <=>
        v = Feeds!By[s] \/ (Feeds!Audible(v, s, whole) /\ <<v, Feeds!By[s]>> \in st_follows)
  BY DEF Feeds!Audience, Feeds!OnHome
<1>3. ASSUME <<v, Feeds!By[s]>> \in st_follows PROVE Feeds!Audible(v, s, whole)
  <2>1. ~Feeds!Apart(v, Feeds!By[s]) /\ filmBlocks = {} /\ st_privacy = scene.privacy
    BY <1>1, <1>3 DEF HomeShape
  <2>2. st_privacy[s] # "direct" /\ (Feeds!Parent[s] # 0 =>
                                      st_privacy[Feeds!Parent[s]] # "followers")
    BY <1>1, <2>1, HomeScene
  <2> QED
    BY <1>3, <2>1, <2>2 DEF Feeds!Audible
<1> QED
  BY <1>2, <1>3

\* What of an author's a follower sees: all that is not deleted.
LEMMA HomeSeen ==
  ASSUME FeedsTyped, scene.inOrder, Feeds!OnHome, HomeShape, NEW v \in Readers,
         NEW s \in Feeds!Statuses
  PROVE  /\ s \in Feeds!SeenOf(v, Feeds!By[s]) => s \in posted \ deleted
         /\ <<v, Feeds!By[s]>> \in st_follows /\ s \in posted \ deleted =>
              s \in Feeds!SeenOf(v, Feeds!By[s])
<1>1. /\ scene \in Scenes /\ Feeds!By[s] \in People /\ v \in People
      /\ st_privacy \in [Feeds!Statuses -> Feeds!Privacies]
  BY SceneIs DEF FeedsTyped
<1>2. ASSUME <<v, Feeds!By[s]>> \in st_follows, s \in posted \ deleted
      PROVE  s \in Feeds!SeenOf(v, Feeds!By[s])
  <2>1. ~Feeds!Apart(v, Feeds!By[s]) /\ st_privacy = scene.privacy
    BY <1>1, <1>2 DEF HomeShape
  <2>2. st_privacy[s] # "direct" /\ st_privacy[s] \in Feeds!Privacies
    BY <1>1, <2>1, HomeScene
  <2> QED
    BY <1>2, <2>1, <2>2 DEF Feeds!SeenOf, Feeds!Visible
<1> QED
  BY <1>2, ChosenPosted

\* What an event must do with its tasks.
LEMMA HomeEvent ==
  ASSUME FeedsTyped, HomeShape, HomeQueue, HomeKept, scene' = scene, NEW T, Queues(T),
         filmBlocks' = {}, st_privacy' = st_privacy, posted \subseteq posted', deleted
           \subseteq deleted',
         \A v, a \in People : <<v, a>> \in st_follows' => v # a /\ ~Feeds!Apart(v, a)',
         \A t \in T : \/ \E s \in posted' : t = Feeds!AddStatus(s)
                      \/ \E s \in deleted' : t = Feeds!RemoveStatus(s)
                      \/ \E v \in Readers, a \in People :
                           v # a /\ (t = Feeds!AddUser(v, a) \/ t = Feeds!RemoveUser(v, a)),
         \A v \in Readers, a \in People : <<v, a>> \in st_follows' =>
           Feeds!RemoveUser(v, a) \notin T
             /\ (<<v, a>> \in st_follows \/ Feeds!AddUser(v, a) \in T),
         \A v \in Readers, a \in People : <<v, a>> \notin st_follows' =>
           Feeds!AddUser(v, a) \notin T /\ (<<v, a>> \notin st_follows
                                             \/ Feeds!RemoveUser(v, a) \in T),
         \A s \in deleted' : Feeds!AddStatus(s) \notin T
           /\ (s \in deleted \/ Feeds!RemoveStatus(s) \in T),
         \A s \in posted' \ posted : Feeds!AddStatus(s) \in T
  PROVE  HomeShape' /\ HomeQueue' /\ HomeKept'
<1>1. /\ \A v, s : Kept(v, s)' <=> Kept(v, s)
      /\ \A t : Has(st_queue', t) <=> Has(st_queue, t) \/ t \in T
      /\ \A t, u : t \notin T /\ (Before(st_queue, t, u) \/ u \in T) => Before(st_queue', t, u)
  BY QueuesLater
<1>2. HomeShape'
  <2>1. \A v \in Readers, s \in Feeds!Statuses : Kept(v, s)' => s \in posted'
    BY <1>1 DEF HomeShape
  <2>2. \A t : Has(st_queue', t) => \/ \E s \in posted' : t = Feeds!AddStatus(s)
                                    \/ \E s \in deleted' : t = Feeds!RemoveStatus(s)
                                    \/ \E v \in Readers, a \in People :
                                         v # a /\ (t = Feeds!AddUser(v, a)
                                                    \/ t = Feeds!RemoveUser(v, a))
    BY <1>1 DEF HomeShape
  <2>3. st_privacy' = scene'.privacy
    BY DEF HomeShape
  <2> QED
    BY <2>1, <2>2, <2>3, SameScene, SameTasks DEF HomeShape
<1>3. HomeQueue'
  <2>1. ASSUME NEW v \in Readers, NEW a \in People
        PROVE  IF <<v, a>> \in st_follows'
                 THEN Before(st_queue', Feeds!RemoveUser(v, a), Feeds!AddUser(v, a))
                                        ELSE Before(st_queue', Feeds!AddUser(v, a),
                                                    Feeds!RemoveUser(v, a))
    <3>1. CASE <<v, a>> \in st_follows'
      BY <1>1, <3>1 DEF HomeQueue
    <3>2. CASE <<v, a>> \notin st_follows'
      BY <1>1, <3>2 DEF HomeQueue
    <3> QED
      BY <3>1, <3>2
  <2>2. \A s \in deleted' : Before(st_queue', Feeds!AddStatus(s), Feeds!RemoveStatus(s))
    BY <1>1 DEF HomeQueue
  <2> QED
    BY <2>1, <2>2, SameTasks DEF HomeQueue
<1>4. HomeKept'
  <2>1. ASSUME NEW v \in Readers, NEW s \in Feeds!Statuses
        PROVE  /\ Kept(v, s)' /\ v # Feeds!By[s] /\ <<v, Feeds!By[s]>> \notin st_follows' =>
                    Has(st_queue', Feeds!RemoveUser(v, Feeds!By[s]))
               /\ s \in posted' \ deleted'
                    /\ (v = Feeds!By[s] \/ <<v, Feeds!By[s]>> \in st_follows') =>
                    Kept(v, s)' \/ Has(st_queue', Feeds!AddStatus(s))
                      \/ Has(st_queue', Feeds!AddUser(v, Feeds!By[s]))
               /\ s \in deleted' /\ Kept(v, s)' =>
                    Has(st_queue', Feeds!RemoveStatus(s))
                      \/ Has(st_queue', Feeds!RemoveUser(v, Feeds!By[s]))
    <3>1. Feeds!By[s] \in People
      BY SceneIs DEF FeedsTyped
    <3>2. Kept(v, s)' /\ v # Feeds!By[s] /\ <<v, Feeds!By[s]>> \notin st_follows' =>
            Has(st_queue', Feeds!RemoveUser(v, Feeds!By[s]))
      BY <1>1, <3>1 DEF HomeKept
    <3>3. s \in posted' \ deleted' /\ (v = Feeds!By[s] \/ <<v, Feeds!By[s]>> \in st_follows') =>
            Kept(v, s)' \/ Has(st_queue', Feeds!AddStatus(s))
              \/ Has(st_queue', Feeds!AddUser(v, Feeds!By[s]))
      BY <1>1, <3>1 DEF HomeKept
    <3>4. s \in deleted' /\ Kept(v, s)' =>
            Has(st_queue', Feeds!RemoveStatus(s))
              \/ Has(st_queue', Feeds!RemoveUser(v, Feeds!By[s]))
      BY <1>1, <3>1 DEF HomeKept
    <3> QED
      BY <3>2, <3>3, <3>4
  <2> QED
    BY <2>1, SameScene, SameTasks DEF HomeKept
<1> QED
  BY <1>2, <1>3, <1>4

LEMMA HomeHappen ==
  ASSUME FeedsTyped, HomeShape, HomeQueue, HomeKept, scene' = scene, scene.inOrder, Feeds!OnHome,
         Feeds!Happen
  PROVE  HomeShape' /\ HomeQueue' /\ HomeKept'
<1>0. /\ scene \in Scenes /\ deleted \subseteq posted /\ posted \subseteq Feeds!Statuses
      /\ filmBlocks = {}
      /\ \A v, a \in People : <<v, a>> \in st_follows => v # a /\ ~Feeds!Apart(v, a)
      /\ Readers \subseteq People
  BY SceneAssumption DEF FeedsTyped, HomeShape
<1>1. /\ scene.events \subseteq {"post", "delete", "follow", "block", "shelve"} /\ ~Feeds!OnFilms
      /\ \A s \in Feeds!Statuses : Feeds!Boosted[s] = 0
  BY <1>0, HomeScene
<1>2. ASSUME NEW s \in Feeds!Statuses, Feeds!Post(s) PROVE HomeShape' /\ HomeQueue' /\ HomeKept'
  <2>1. /\ posted' = posted \cup {s} /\ s \notin posted /\ st_privacy' = st_privacy
        /\ UNCHANGED <<deleted, st_follows, st_blocks, filmBlocks>>
    BY <1>1, <1>2 DEF Feeds!Post
  <2>2. Queues({Feeds!AddStatus(s)} \cup Only(Feeds!Boosted[s] # 0, Feeds!HandleBoost(s)))
    BY <1>0, <1>2, PostQueues
  <2>3. PICK T : T = {Feeds!AddStatus(s)}
    OBVIOUS
  <2>4. Queues(T)
    <3>1. {Feeds!AddStatus(s)} \cup Only(Feeds!Boosted[s] # 0, Feeds!HandleBoost(s)) = T
      BY <1>1, <2>3 DEF Only
    <3> QED
      BY <2>2, <3>1
  <2>5. \A t : t \in T <=> t = Feeds!AddStatus(s)
    BY <2>3
  <2>6. \A v, a : Feeds!Apart(v, a)' <=> Feeds!Apart(v, a)
    BY <2>1 DEF Feeds!Apart
  <2>7. \A v, a : Feeds!AddUser(v, a) \notin T /\ Feeds!RemoveUser(v, a) \notin T
    BY <2>5, TaskKinds
  <2>8. \A x \in deleted' : Feeds!AddStatus(x) \notin T
    BY <1>0, <2>1, <2>5, TaskKinds
  <2> QED
    BY <1>0, <2>1, <2>4, <2>5, <2>6, <2>7, <2>8, HomeEvent
<1>3. ASSUME NEW s \in Feeds!Statuses, Feeds!Delete(s) PROVE HomeShape' /\ HomeQueue' /\ HomeKept'
  <2>1. /\ deleted' = deleted \cup {s} /\ s \in posted
        /\ UNCHANGED <<posted, st_privacy, st_follows, st_blocks, filmBlocks>>
    BY <1>3 DEF Feeds!Delete
  <2>3. PICK T : T = {Feeds!RemoveStatus(s)}
    OBVIOUS
  <2>4. Queues(T)
    BY <1>0, <1>3, <2>3, DeleteQueues
  <2>5. \A t : t \in T <=> t = Feeds!RemoveStatus(s)
    BY <2>3
  <2>6. \A v, a : Feeds!Apart(v, a)' <=> Feeds!Apart(v, a)
    BY <2>1 DEF Feeds!Apart
  <2>7. \A v, a : Feeds!AddUser(v, a) \notin T /\ Feeds!RemoveUser(v, a) \notin T
    BY <2>5, TaskKinds
  <2>8. \A x : Feeds!AddStatus(x) \notin T
    BY <2>5, TaskKinds
  <2> QED
    BY <1>0, <2>1, <2>4, <2>5, <2>6, <2>7, <2>8, HomeEvent
<1>4. ASSUME NEW s \in Feeds!Statuses, Feeds!Unboost(s) \/ \E p \in Feeds!Privacies :
               Feeds!Edit(s, p)
      PROVE  FALSE
  BY <1>1, <1>4 DEF Feeds!Unboost, Feeds!Edit, Feeds!Event
<1>5. ASSUME NEW v \in People, NEW a \in People, Feeds!Follow(v, a)
      PROVE  HomeShape' /\ HomeQueue' /\ HomeKept'
  <2>1. /\ st_follows' = st_follows \cup {<<v, a>>} /\ v # a /\ ~Feeds!Apart(v, a)
        /\ UNCHANGED <<posted, deleted, st_privacy, st_blocks, filmBlocks>>
    BY <1>5 DEF Feeds!Follow
  <2>3. PICK T : T = Only(Feeds!OnHome /\ v \in Readers, Feeds!AddUser(v, a))
    OBVIOUS
  <2>4. Queues(T)
    BY <1>0, <1>5, <2>3, FollowQueues
  <2>5. \A t : t \in T <=> v \in Readers /\ t = Feeds!AddUser(v, a)
    BY <2>3 DEF Only
  <2>6. \A u, b : Feeds!Apart(u, b)' <=> Feeds!Apart(u, b)
    BY <2>1 DEF Feeds!Apart
  <2>7. \A u, b : /\ Feeds!RemoveUser(u, b) \notin T
                  /\ Feeds!AddUser(u, b) \in T <=> v \in Readers /\ u = v /\ b = a
    BY <2>5, TaskKinds
  <2>8. \A x : Feeds!AddStatus(x) \notin T
    BY <2>5, TaskKinds
  <2>9. \A u, b \in People : <<u, b>> \in st_follows' => u # b /\ ~Feeds!Apart(u, b)'
    BY <1>0, <2>1, <2>6
  <2>10. \A u \in Readers, b \in People :
           /\ <<u, b>> \in st_follows' => <<u, b>> \in st_follows \/ Feeds!AddUser(u, b) \in T
           /\ <<u, b>> \notin st_follows' =>
                Feeds!AddUser(u, b) \notin T /\ <<u, b>> \notin st_follows
    BY <2>1, <2>7
  <2>11. \A t \in T : \E u \in Readers, b \in People : u # b /\ t = Feeds!AddUser(u, b)
    BY <2>1, <2>5
  <2> QED
    BY <1>0, <2>1, <2>4, <2>7, <2>8, <2>9, <2>10, <2>11, HomeEvent
<1>6. ASSUME NEW v \in People, NEW a \in People, Feeds!Unfollow(v, a)
      PROVE  HomeShape' /\ HomeQueue' /\ HomeKept'
  <2>1. /\ st_follows' = st_follows \ {<<v, a>>} /\ <<v, a>> \in st_follows
        /\ UNCHANGED <<posted, deleted, st_privacy, st_blocks, filmBlocks>>
    BY <1>6 DEF Feeds!Unfollow
  <2>3. PICK T : T = Only(Feeds!OnHome /\ v \in Readers, Feeds!RemoveUser(v, a))
    OBVIOUS
  <2>4. Queues(T)
    BY <1>0, <1>6, <2>3, FollowQueues
  <2>5. \A t : t \in T <=> v \in Readers /\ t = Feeds!RemoveUser(v, a)
    BY <2>3 DEF Only
  <2>6. \A u, b : Feeds!Apart(u, b)' <=> Feeds!Apart(u, b)
    BY <2>1 DEF Feeds!Apart
  <2>7. \A u, b : /\ Feeds!AddUser(u, b) \notin T
                  /\ Feeds!RemoveUser(u, b) \in T <=> v \in Readers /\ u = v /\ b = a
    BY <2>5, TaskKinds
  <2>8. \A x : Feeds!AddStatus(x) \notin T
    BY <2>5, TaskKinds
  <2>9. \A u, b \in People : <<u, b>> \in st_follows' => u # b /\ ~Feeds!Apart(u, b)'
    BY <1>0, <2>1, <2>6
  <2>10. \A u \in Readers, b \in People :
           /\ <<u, b>> \in st_follows' => <<u, b>> \in st_follows /\ Feeds!RemoveUser(u, b) \notin T
           /\ <<u, b>> \notin st_follows' =>
                <<u, b>> \notin st_follows \/ Feeds!RemoveUser(u, b) \in T
    BY <2>1, <2>7
  <2>11. \A t \in T : \E u \in Readers, b \in People : u # b /\ t = Feeds!RemoveUser(u, b)
    BY <1>0, <2>1, <2>5
  <2> QED
    BY <1>0, <2>1, <2>4, <2>7, <2>8, <2>9, <2>10, <2>11, HomeEvent
<1>7. ASSUME NEW v \in People, NEW a \in People, Feeds!Block(v, a)
      PROVE  HomeShape' /\ HomeQueue' /\ HomeKept'
  <2>1. /\ st_follows' = st_follows \ ({<<v, a>>, <<a, v>>} \cap st_follows) /\ v # a
        /\ st_blocks' = st_blocks \cup {<<v, a>>}
        /\ UNCHANGED <<posted, deleted, st_privacy, filmBlocks>>
    BY <1>7 DEF Feeds!Block
  <2>3. PICK T : T = Only(v \in Readers, Feeds!RemoveUser(v, a))
               \cup Only(a \in Readers, Feeds!RemoveUser(a, v))
    OBVIOUS
  <2>4. Queues(T)
    BY <1>0, <1>7, <2>3, BlockQueues
  <2>5. \A t : t \in T <=> \/ v \in Readers /\ t = Feeds!RemoveUser(v, a)
                           \/ a \in Readers /\ t = Feeds!RemoveUser(a, v)
    BY <2>3 DEF Only
  <2>6. \A u, b : Feeds!Apart(u, b)' => Feeds!Apart(u, b) \/ (u = v /\ b = a) \/ (u = a /\ b = v)
    BY <2>1 DEF Feeds!Apart
  <2>7. \A u, b : /\ Feeds!AddUser(u, b) \notin T
                  /\ Feeds!RemoveUser(u, b) \in T <=> \/ v \in Readers /\ u = v /\ b = a
                                                      \/ a \in Readers /\ u = a /\ b = v
    BY <2>5, TaskKinds
  <2>8. \A x : Feeds!AddStatus(x) \notin T
    BY <2>5, TaskKinds
  <2>9. \A u, b \in People : <<u, b>> \in st_follows' => u # b /\ ~Feeds!Apart(u, b)'
    BY <1>0, <2>1, <2>6
  <2>10. \A u \in Readers, b \in People :
           /\ <<u, b>> \in st_follows' => <<u, b>> \in st_follows /\ Feeds!RemoveUser(u, b) \notin T
           /\ <<u, b>> \notin st_follows' =>
                <<u, b>> \notin st_follows \/ Feeds!RemoveUser(u, b) \in T
    BY <2>1, <2>7
  <2>11. \A t \in T : \E u \in Readers, b \in People : u # b /\ t = Feeds!RemoveUser(u, b)
    BY <1>0, <2>1, <2>5
  <2> QED
    BY <1>0, <2>1, <2>4, <2>7, <2>8, <2>9, <2>10, <2>11, HomeEvent
<1>8. ASSUME Queues({}), UNCHANGED <<posted, deleted, st_privacy, st_follows, filmBlocks>>,
             st_blocks' \subseteq st_blocks
      PROVE  HomeShape' /\ HomeQueue' /\ HomeKept'
  <2>1. \A u, b : Feeds!Apart(u, b)' => Feeds!Apart(u, b)
    BY <1>8 DEF Feeds!Apart
  <2>2. \A t : t \notin {}
    OBVIOUS
  <2> QED
    BY <1>0, <1>8, <2>1, <2>2, HomeEvent
<1>9. ASSUME NEW v \in People, NEW a \in People, Feeds!Unblock(v, a)
      PROVE  HomeShape' /\ HomeQueue' /\ HomeKept'
  <2>1. st_blocks' \subseteq st_blocks /\ UNCHANGED <<posted, deleted, st_privacy, st_follows,
                                                      filmBlocks>>
    BY <1>9 DEF Feeds!Unblock
  <2>2. PICK free : free = (<<a, v>> \notin st_blocks /\ ~Feeds!OnHome)
    OBVIOUS
  <2>3. Queues(Only(free /\ v \in Readers, Feeds!AddUser(v, a))
                \cup Only(free /\ a \in Readers, Feeds!AddUser(a, v)))
    BY <1>0, <1>9, <2>2, UnblockQueues
  <2>4. Only(free /\ v \in Readers, Feeds!AddUser(v, a))
          \cup Only(free /\ a \in Readers, Feeds!AddUser(a, v)) = {}
    BY <2>2 DEF Only
  <2> QED
    BY <1>8, <2>1, <2>3, <2>4
<1>10. ASSUME NEW v \in Readers, NEW f \in Films, Feeds!Shelve(v, f) \/ Feeds!Unshelve(v, f)
       PROVE  HomeShape' /\ HomeQueue' /\ HomeKept'
  <2>1. UNCHANGED <<posted, deleted, st_privacy, st_follows, st_blocks, filmBlocks>>
    BY <1>10 DEF Feeds!Shelve, Feeds!Unshelve
  <2>2. Queues(Only(Feeds!OnFilms, Feeds!AddFilm(v, f)))
          \/ Queues(Only(Feeds!OnFilms, Feeds!RemoveFilm(v, f)))
    BY <1>0, <1>10, FilmQueues
  <2>3. /\ Only(Feeds!OnFilms, Feeds!AddFilm(v, f)) = {}
        /\ Only(Feeds!OnFilms, Feeds!RemoveFilm(v, f)) = {}
    BY <1>1 DEF Only
  <2> QED
    BY <1>8, <2>1, <2>2, <2>3
<1>11. ASSUME NEW v \in Readers, NEW f \in Films, Feeds!BlockFilm(v, f) \/ Feeds!UnblockFilm(v, f)
       PROVE  FALSE
  BY <1>1, <1>11 DEF Feeds!BlockFilm, Feeds!UnblockFilm, Feeds!Event
<1> QED
  BY <1>2, <1>3, <1>4, <1>5, <1>6, <1>7, <1>9, <1>10, <1>11 DEF Feeds!Happen

LEMMA HomeTakes ==
  ASSUME FeedsTyped, HomeShape, HomeQueue, HomeKept, scene' = scene, scene.inOrder, Feeds!OnHome,
         NEW t, Takes(t), UNCHANGED Feeds!rows
  PROVE  HomeShape' /\ HomeQueue' /\ HomeKept'
<1>0. /\ scene \in Scenes /\ deleted \subseteq posted /\ posted \subseteq Feeds!Statuses
      /\ Readers \subseteq People
      /\ UNCHANGED <<posted, deleted, st_privacy, st_follows, st_blocks, filmBlocks>>
  BY SceneAssumption DEF FeedsTyped, Feeds!rows
<1>1. /\ \A x : Has(st_queue, x) <=> x = t \/ Has(st_queue', x)
      /\ \A x, y : Before(st_queue, x, y) => Before(st_queue', x, y) /\ (x = t => Has(st_queue', y))
  BY DEF Takes
<1>2. /\ \A u : t = Feeds!AddStatus(u) => \A v \in Readers, s \in Feeds!Statuses :
           Kept(v, s)' <=> Kept(v, s) \/ (s = u /\ u \in posted /\ v \in Feeds!Audience(u, TRUE))
      /\ \A u : t = Feeds!RemoveStatus(u) => \A v \in Readers, s \in Feeds!Statuses :
           Kept(v, s)' <=> Kept(v, s) /\ ~(s = u /\ u \in posted /\ v \in Feeds!Audience(u, FALSE))
      /\ \A u, a : t = Feeds!AddUser(u, a) => \A v \in Readers, s \in Feeds!Statuses :
           Kept(v, s)' <=> Kept(v, s) \/ (v = u /\ s \in Feeds!SeenOf(u, a))
      /\ \A u, a : t = Feeds!RemoveUser(u, a) => \A v \in Readers, s \in Feeds!Statuses :
           Kept(v, s)' <=> Kept(v, s) /\ ~(v = u /\ s \in posted /\ Feeds!By[s] = a)
  BY TakesWhat
<1>3. \/ \E s \in posted : t = Feeds!AddStatus(s)
      \/ \E s \in deleted : t = Feeds!RemoveStatus(s)
      \/ \E v \in Readers, a \in People :
           v # a /\ (t = Feeds!AddUser(v, a) \/ t = Feeds!RemoveUser(v, a))
  BY <1>1 DEF HomeShape
<1>4. HomeQueue'
  <2>1. \A v \in Readers, a \in People :
          IF <<v, a>> \in st_follows THEN Before(st_queue', Feeds!RemoveUser(v, a),
                                                 Feeds!AddUser(v, a))
                                  ELSE Before(st_queue', Feeds!AddUser(v, a),
                                              Feeds!RemoveUser(v, a))
    BY <1>1 DEF HomeQueue
  <2>2. \A s \in deleted : Before(st_queue', Feeds!AddStatus(s), Feeds!RemoveStatus(s))
    BY <1>1 DEF HomeQueue
  <2> QED
    BY <1>0, <2>1, <2>2, SameTasks DEF HomeQueue
\* It is enough to look at one user and one status.
<1>5. ASSUME \A v \in Readers, s \in Feeds!Statuses :
        /\ Kept(v, s)' => s \in posted
        /\ Kept(v, s)' /\ v # Feeds!By[s] /\ <<v, Feeds!By[s]>> \notin st_follows =>
             Has(st_queue', Feeds!RemoveUser(v, Feeds!By[s]))
        /\ s \in posted \ deleted /\ (v = Feeds!By[s] \/ <<v, Feeds!By[s]>> \in st_follows) =>
             Kept(v, s)' \/ Has(st_queue', Feeds!AddStatus(s))
               \/ Has(st_queue', Feeds!AddUser(v, Feeds!By[s]))
        /\ s \in deleted /\ Kept(v, s)' =>
             Has(st_queue', Feeds!RemoveStatus(s))
               \/ Has(st_queue', Feeds!RemoveUser(v, Feeds!By[s]))
      PROVE  HomeShape' /\ HomeKept'
  <2>1. \A x : Has(st_queue', x) => \/ \E s \in posted : x = Feeds!AddStatus(s)
                                    \/ \E s \in deleted : x = Feeds!RemoveStatus(s)
                                    \/ \E v \in Readers, a \in People :
                                         v # a /\ (x = Feeds!AddUser(v, a)
                                                    \/ x = Feeds!RemoveUser(v, a))
    BY <1>1 DEF HomeShape
  <2>2. \A v, a : Feeds!Apart(v, a)' <=> Feeds!Apart(v, a)
    BY <1>0 DEF Feeds!Apart
  <2>3. filmBlocks' = {} /\ st_privacy' = scene'.privacy
        /\ \A v, a \in People : <<v, a>> \in st_follows' => v # a /\ ~Feeds!Apart(v, a)'
    BY <1>0, <2>2 DEF HomeShape
  <2>4. HomeShape'
    BY <1>0, <1>5, <2>1, <2>3, SameScene, SameTasks DEF HomeShape
  <2>5. HomeKept'
    BY <1>0, <1>5, SameScene, SameTasks DEF HomeKept
  <2> QED
    BY <2>4, <2>5
<1>6. ASSUME NEW v \in Readers, NEW s \in Feeds!Statuses
      PROVE  /\ Kept(v, s)' => s \in posted
             /\ Kept(v, s)' /\ v # Feeds!By[s] /\ <<v, Feeds!By[s]>> \notin st_follows =>
                  Has(st_queue', Feeds!RemoveUser(v, Feeds!By[s]))
             /\ s \in posted \ deleted /\ (v = Feeds!By[s] \/ <<v, Feeds!By[s]>> \in st_follows) =>
                  Kept(v, s)' \/ Has(st_queue', Feeds!AddStatus(s))
                    \/ Has(st_queue', Feeds!AddUser(v, Feeds!By[s]))
             /\ s \in deleted /\ Kept(v, s)' =>
                  Has(st_queue', Feeds!RemoveStatus(s))
                    \/ Has(st_queue', Feeds!RemoveUser(v, Feeds!By[s]))
  <2> DEFINE a == Feeds!By[s]
             Stray == v # a /\ <<v, a>> \notin st_follows
             Due == s \in posted \ deleted /\ (v = a \/ <<v, a>> \in st_follows)
  <2>1. a \in People
    BY <1>0, SceneIs
  <2>2. /\ Kept(v, s) => s \in posted
        /\ Kept(v, s) /\ Stray => Has(st_queue, Feeds!RemoveUser(v, a))
        /\ Due => Kept(v, s) \/ Has(st_queue, Feeds!AddStatus(s))
             \/ Has(st_queue, Feeds!AddUser(v, a))
        /\ s \in deleted /\ Kept(v, s) =>
             Has(st_queue, Feeds!RemoveStatus(s)) \/ Has(st_queue, Feeds!RemoveUser(v, a))
    BY DEF HomeShape, HomeKept
  <2>3. /\ <<v, a>> \in st_follows => Before(st_queue, Feeds!RemoveUser(v, a), Feeds!AddUser(v, a))
        /\ <<v, a>> \notin st_follows =>
             Before(st_queue, Feeds!AddUser(v, a), Feeds!RemoveUser(v, a))
        /\ s \in deleted => Before(st_queue, Feeds!AddStatus(s), Feeds!RemoveStatus(s))
    BY <2>1 DEF HomeQueue
  <2>4. \A whole \in BOOLEAN : v \in Feeds!Audience(s, whole) <=> v = a \/ <<v, a>> \in st_follows
    BY HomeAudience
  <2>5. /\ s \in Feeds!SeenOf(v, a) => s \in posted \ deleted
        /\ <<v, a>> \in st_follows /\ s \in posted \ deleted => s \in Feeds!SeenOf(v, a)
        /\ \A b : s \in Feeds!SeenOf(v, b) => b = a
    BY HomeSeen DEF Feeds!SeenOf
  <2> SUFFICES /\ Kept(v, s)' => s \in posted
               /\ Kept(v, s)' /\ Stray => Has(st_queue', Feeds!RemoveUser(v, a))
               /\ Due => Kept(v, s)' \/ Has(st_queue', Feeds!AddStatus(s))
                    \/ Has(st_queue', Feeds!AddUser(v, a))
               /\ s \in deleted /\ Kept(v, s)' =>
                    Has(st_queue', Feeds!RemoveStatus(s)) \/ Has(st_queue', Feeds!RemoveUser(v, a))
    OBVIOUS
  <2> HIDE DEF a
  <2>6. ASSUME NEW u \in posted, t = Feeds!AddStatus(u)
        PROVE  /\ Kept(v, s)' => s \in posted
               /\ Kept(v, s)' /\ Stray => Has(st_queue', Feeds!RemoveUser(v, a))
               /\ Due => Kept(v, s)' \/ Has(st_queue', Feeds!AddStatus(s))
                    \/ Has(st_queue', Feeds!AddUser(v, a))
               /\ s \in deleted /\ Kept(v, s)' =>
                    Has(st_queue', Feeds!RemoveStatus(s)) \/ Has(st_queue', Feeds!RemoveUser(v, a))
    <3>1. Kept(v, s)' <=> Kept(v, s) \/ (s = u /\ (v = a \/ <<v, a>> \in st_follows))
      BY <1>2, <2>4, <2>6
    <3>2. \A b : t # Feeds!AddUser(v, b) /\ t # Feeds!RemoveUser(v, b)
      BY <2>6, TaskKinds
    <3>3. (t = Feeds!AddStatus(s) <=> s = u) /\ t # Feeds!RemoveStatus(s)
      BY <2>6, TaskKinds
    <3>4. s = u /\ s \in deleted => Has(st_queue', Feeds!RemoveStatus(s))
      BY <1>1, <2>3, <2>6
    <3> QED
      BY <1>1, <2>2, <3>1, <3>2, <3>3, <3>4
  <2>7. ASSUME NEW u \in deleted, t = Feeds!RemoveStatus(u)
        PROVE  /\ Kept(v, s)' => s \in posted
               /\ Kept(v, s)' /\ Stray => Has(st_queue', Feeds!RemoveUser(v, a))
               /\ Due => Kept(v, s)' \/ Has(st_queue', Feeds!AddStatus(s))
                    \/ Has(st_queue', Feeds!AddUser(v, a))
               /\ s \in deleted /\ Kept(v, s)' =>
                    Has(st_queue', Feeds!RemoveStatus(s)) \/ Has(st_queue', Feeds!RemoveUser(v, a))
    <3>1. Kept(v, s)' <=> Kept(v, s) /\ ~(s = u /\ (v = a \/ <<v, a>> \in st_follows))
      BY <1>0, <1>2, <2>4, <2>7
    <3>2. \A b : t # Feeds!AddUser(v, b) /\ t # Feeds!RemoveUser(v, b)
      BY <2>7, TaskKinds
    <3>3. (t = Feeds!RemoveStatus(s) <=> s = u) /\ t # Feeds!AddStatus(s)
      BY <2>7, TaskKinds
    <3> QED
      BY <1>1, <2>2, <3>1, <3>2, <3>3
  <2>8. ASSUME NEW u \in Readers, NEW b \in People, u # b, t = Feeds!AddUser(u, b)
        PROVE  /\ Kept(v, s)' => s \in posted
               /\ Kept(v, s)' /\ Stray => Has(st_queue', Feeds!RemoveUser(v, a))
               /\ Due => Kept(v, s)' \/ Has(st_queue', Feeds!AddStatus(s))
                    \/ Has(st_queue', Feeds!AddUser(v, a))
               /\ s \in deleted /\ Kept(v, s)' =>
                    Has(st_queue', Feeds!RemoveStatus(s)) \/ Has(st_queue', Feeds!RemoveUser(v, a))
    <3>1. Kept(v, s)' <=> Kept(v, s) \/ (v = u /\ s \in Feeds!SeenOf(u, b))
      BY <1>2, <2>8
    <3>2. t # Feeds!RemoveUser(v, a) /\ t # Feeds!AddStatus(s) /\ t # Feeds!RemoveStatus(s)
      BY <2>8, TaskKinds
    <3>3. t = Feeds!AddUser(v, a) <=> u = v /\ b = a
      BY <2>8, TaskKinds
    <3>4. u = v /\ b = a /\ <<v, a>> \notin st_follows => Has(st_queue', Feeds!RemoveUser(v, a))
      BY <1>1, <2>3, <3>3
    <3>5. u = v /\ b = a => v # a
      BY <2>8
    <3> QED
      BY <1>1, <2>2, <2>5, <3>1, <3>2, <3>3, <3>4, <3>5
  <2>9. ASSUME NEW u \in Readers, NEW b \in People, u # b, t = Feeds!RemoveUser(u, b)
        PROVE  /\ Kept(v, s)' => s \in posted
               /\ Kept(v, s)' /\ Stray => Has(st_queue', Feeds!RemoveUser(v, a))
               /\ Due => Kept(v, s)' \/ Has(st_queue', Feeds!AddStatus(s))
                    \/ Has(st_queue', Feeds!AddUser(v, a))
               /\ s \in deleted /\ Kept(v, s)' =>
                    Has(st_queue', Feeds!RemoveStatus(s)) \/ Has(st_queue', Feeds!RemoveUser(v, a))
    <3>1. Kept(v, s)' <=> Kept(v, s) /\ ~(v = u /\ s \in posted /\ a = b)
      BY <1>2, <2>9 DEF a
    <3>2. t # Feeds!AddUser(v, a) /\ t # Feeds!AddStatus(s) /\ t # Feeds!RemoveStatus(s)
      BY <2>9, TaskKinds
    <3>3. t = Feeds!RemoveUser(v, a) <=> u = v /\ b = a
      BY <2>9, TaskKinds
    <3>4. u = v /\ b = a /\ <<v, a>> \in st_follows => Has(st_queue', Feeds!AddUser(v, a))
      BY <1>1, <2>3, <3>3
    <3>5. u = v /\ b = a => v # a
      BY <2>9
    <3> QED
      BY <1>1, <2>2, <3>1, <3>2, <3>3, <3>4, <3>5
  <2> QED
    BY <1>3, <2>6, <2>7, <2>8, <2>9
<1> QED
  BY <1>4, <1>5, <1>6

LEMMA InitKept == Feeds!Init => (\A v \in Readers : \A s : ~Kept(v, s))
  /\ (\A t : ~Has(st_queue, t)) /\ Alone
<1> SUFFICES ASSUME Feeds!Init
             PROVE  (\A v \in Readers : \A s : ~Kept(v, s)) /\ (\A t : ~Has(st_queue, t)) /\ Alone
  OBVIOUS
<1>1. \A w \in Clerks : st_work[w] = Feeds!Nothing
  BY DEF Feeds!Init
<1>2. \A p : p \notin Feeds!Nothing.add
  BY DEF Feeds!Nothing
<1>3. ASSUME NEW v \in Readers, NEW s PROVE ~Kept(v, s)
  <2>1. s \notin feed[v]
    BY DEF Feeds!Init
  <2> QED
    BY <1>1, <1>2, <2>1 DEF Kept
<1>4. \A t : ~Has(st_queue, t)
  BY HasWhat DEF Feeds!Init
<1> QED
  BY <1>1, <1>3, <1>4 DEF Alone, Feeds!Idle

LEMMA NoTasksBefore == (\A t : ~Has(st_queue, t)) => \A t, u : Before(st_queue, t, u)
BY DEF Has, Before

LEMMA InitHome == Feeds!Init => HomeOrder
<1> SUFFICES ASSUME Feeds!Init PROVE HomeShape /\ HomeQueue /\ HomeKept
  BY DEF HomeOrder
<1>1. (\A v \in Readers : \A s : ~Kept(v, s)) /\ (\A t : ~Has(st_queue, t)) /\ \A t, u :
        Before(st_queue, t, u)
  BY InitKept, NoTasksBefore
<1>2. /\ filmBlocks = {} /\ st_privacy = scene.privacy /\ st_follows = {} /\ posted = {}
      /\ deleted = {}
  BY DEF Feeds!Init
<1>3. HomeShape /\ HomeQueue
  BY <1>1, <1>2 DEF HomeShape, HomeQueue
<1>4. HomeKept
  BY <1>1, <1>2 DEF HomeKept
<1> QED
  BY <1>3, <1>4

\* A pipeline changes nothing of this, nor does a step that stutters.
LEMMA KeptStays ==
  ASSUME FeedsTyped, Alone, scene.inOrder, scene' = scene,
         (\E w \in Clerks : Feeds!Finish(w)) \/ UNCHANGED Feeds!vars
  PROVE  /\ \A v \in Readers, s \in Feeds!Statuses : Kept(v, s)' <=> Kept(v, s)
         /\ UNCHANGED <<posted, deleted, st_privacy, st_follows, st_blocks, shelved, filmBlocks,
                        st_queue>>
<1>1. ASSUME NEW w \in Clerks, Feeds!Finish(w)
      PROVE  /\ \A v \in Readers, s \in Feeds!Statuses : Kept(v, s)' <=> Kept(v, s)
             /\ UNCHANGED <<posted, deleted, st_privacy, st_follows, st_blocks, shelved,
                            filmBlocks, st_queue>>
  BY <1>1, FinishKeeps DEF Feeds!rows
<1>2. CASE UNCHANGED Feeds!vars
  BY <1>2 DEF Feeds!vars, Feeds!rows, Kept
<1> QED
  BY <1>1, <1>2

LEMMA NextHome == FeedsTyped /\ Alone /\ HomeOrder /\ [Feeds!Next]_(Feeds!vars) => HomeOrder'
<1> SUFFICES ASSUME FeedsTyped, Alone, HomeOrder, [Feeds!Next]_(Feeds!vars), scene'.inOrder,
                    Feeds!OnHome'
             PROVE  HomeShape' /\ HomeQueue' /\ HomeKept'
  BY DEF HomeOrder
<1>0. scene' = scene /\ scene.inOrder /\ Feeds!OnHome /\ HomeShape /\ HomeQueue /\ HomeKept
  <2>1. scene' = scene
    BY DEF Feeds!Next, Feeds!vars
  <2> QED
    BY <2>1, SameScene DEF Feeds!OnHome, HomeOrder
<1>1. CASE Feeds!Happen
  BY <1>0, <1>1, HomeHappen
<1>2. ASSUME NEW w \in Clerks, Feeds!Start(w) PROVE HomeShape' /\ HomeQueue' /\ HomeKept'
  <2>1. PICK t : Takes(t)
    BY <1>0, <1>2, StartTakes
  <2>2. UNCHANGED Feeds!rows
    BY <1>0, <1>2, StartTakes
  <2> QED
    BY <1>0, <2>1, <2>2, HomeTakes
<1>3. CASE (\E w \in Clerks : Feeds!Finish(w)) \/ UNCHANGED Feeds!vars
  <2>1. /\ \A v \in Readers, s \in Feeds!Statuses : Kept(v, s)' <=> Kept(v, s)
        /\ UNCHANGED <<posted, deleted, st_privacy, st_follows, st_blocks, filmBlocks, st_queue>>
    BY <1>0, <1>3, KeptStays
  <2>2. \A v, a : Feeds!Apart(v, a)' <=> Feeds!Apart(v, a)
    BY <2>1 DEF Feeds!Apart
  <2>3. HomeShape'
    BY <1>0, <2>1, <2>2, SameScene, SameTasks DEF HomeShape
  <2>4. HomeQueue'
    BY <1>0, <2>1, SameTasks DEF HomeQueue
  <2>5. HomeKept'
    BY <1>0, <2>1, SameScene, SameTasks DEF HomeKept
  <2> QED
    BY <2>3, <2>4, <2>5
<1> QED
  BY <1>1, <1>2, <1>3 DEF Feeds!Next

\* When all is done, what is kept is what the feeds hold.
LEMMA SettledKept ==
  ASSUME Feeds!Settled
  PROVE  (\A v, s : Kept(v, s) <=> s \in feed[v]) /\ (\A t : ~Has(st_queue, t)) /\ scene.inOrder
<1>1. \A w \in Clerks : st_work[w] = Feeds!Nothing
  BY DEF Feeds!Settled, Feeds!Idle
<1>2. \A p : p \notin Feeds!Nothing.add /\ p \notin Feeds!Nothing.drop
  BY DEF Feeds!Nothing
<1> QED
  BY <1>1, <1>2, HasWhat DEF Feeds!Settled, Kept

LEMMA HomeIsExact ==
  ASSUME FeedsTyped, HomeOrder, Feeds!Settled, Feeds!OnHome
  PROVE  Feeds!NothingStray /\ Feeds!NothingMissing /\ Feeds!DeletedAreGone
<1>1. /\ \A v, s : Kept(v, s) <=> s \in feed[v]
      /\ \A t : ~Has(st_queue, t)
      /\ scene.inOrder /\ HomeShape /\ HomeKept
      /\ scene \in Scenes /\ feed \in [Readers -> SUBSET Feeds!Statuses]
      /\ posted \subseteq Feeds!Statuses
  BY SettledKept DEF HomeOrder, FeedsTyped
<1>2. Feeds!NothingStray
  <2>1. \A v \in Readers : \A s \in feed[v] : v # Feeds!By[s] => <<v, Feeds!By[s]>> \in st_follows
    BY <1>1 DEF HomeKept
  <2>2. \A v \in Readers : \A s \in feed[v] \ {t \in Feeds!Statuses : Feeds!By[t] = v} :
          <<v, Feeds!By[s]>> \in st_follows
    BY <1>1, <2>1
  <2> QED
    BY <2>2 DEF Feeds!NothingStray, Feeds!OnHome
<1>3. Feeds!NothingMissing
  <2>1. ASSUME NEW s \in posted \ deleted, NEW v \in Feeds!Audience(s, TRUE) PROVE s \in feed[v]
    <3>1. v \in Readers /\ s \in Feeds!Statuses
      BY <1>1, AudienceHere
    <3>2. v = Feeds!By[s] \/ <<v, Feeds!By[s]>> \in st_follows
      BY <1>1, <2>1, <3>1, HomeAudience
    <3> QED
      BY <1>1, <2>1, <3>1, <3>2 DEF HomeKept
  <2> QED
    BY <2>1 DEF Feeds!NothingMissing
<1>4. Feeds!DeletedAreGone
  BY <1>1 DEF Feeds!DeletedAreGone, HomeKept
<1> QED
  BY <1>2, <1>3, <1>4

-----------------------------------------------------------------------------
(* Local streams                                                             *)

\* What is kept of somebody whom a block stands between is about to go.
LocalOrder ==
  scene.inOrder /\ Feeds!Stream = "local" =>
    \A v \in Readers, s \in Feeds!Statuses :
      Kept(v, s) => /\ s \in posted
                    /\ v # Feeds!By[s] /\ Feeds!Apart(v, Feeds!By[s]) =>
                         Has(st_queue, Feeds!RemoveUser(v, Feeds!By[s]))

LEMMA InitLocal == Feeds!Init => LocalOrder
BY InitKept DEF LocalOrder

LEMMA LocalEvent ==
  ASSUME FeedsTyped, LocalOrder, scene' = scene, scene.inOrder, Feeds!Stream = "local",
         NEW T, Queues(T), posted \subseteq posted',
         \A v \in Readers, a \in People : Feeds!Apart(v, a)' =>
           Feeds!Apart(v, a) \/ Feeds!RemoveUser(v, a) \in T
  PROVE  LocalOrder'
<1>1. /\ \A v, s : Kept(v, s)' <=> Kept(v, s)
      /\ \A t : Has(st_queue', t) <=> Has(st_queue, t) \/ t \in T
  BY QueuesLater
<1>2. ASSUME NEW v \in Readers, NEW s \in Feeds!Statuses, Kept(v, s)', NEW a, a = Feeds!By[s]
      PROVE  s \in posted' /\ (v # a /\ Feeds!Apart(v, a)' =>
                                Has(st_queue', Feeds!RemoveUser(v, a)))
  <2>1. a \in People
    BY <1>2, SceneIs DEF FeedsTyped
  <2>2. s \in posted /\ (v # a /\ Feeds!Apart(v, a) => Has(st_queue, Feeds!RemoveUser(v, a)))
    BY <1>1, <1>2 DEF LocalOrder
  <2> QED
    BY <1>1, <2>1, <2>2
<1>3. \A v \in Readers, s \in Feeds!Statuses : Kept(v, s)' => \A a : a = Feeds!By[s] =>
        s \in posted' /\ (v # a /\ Feeds!Apart(v, a)' => Has(st_queue', Feeds!RemoveUser(v, a)))
  BY <1>2
<1> QED
  BY <1>3, SameScene DEF LocalOrder, Feeds!Apart

LEMMA LocalHappen ==
  ASSUME FeedsTyped, LocalOrder, scene' = scene, scene.inOrder, Feeds!Stream = "local", Feeds!Happen
  PROVE  LocalOrder'
<1>0. scene \in Scenes /\ "unboost" \notin scene.events /\ Readers \subseteq People
  BY SceneIs DEF FeedsTyped, Feeds!Orderly, Feeds!Stream
<1>1. ASSUME NEW s \in Feeds!Statuses, Feeds!Post(s) \/ Feeds!Delete(s) \/ Feeds!Unboost(s)
               \/ \E p \in Feeds!Privacies : Feeds!Edit(s, p)
      PROVE  LocalOrder'
  <2>1. posted \subseteq posted' /\ st_blocks' = st_blocks
    BY <1>0, <1>1 DEF Feeds!Post, Feeds!Delete, Feeds!Unboost, Feeds!Edit, Feeds!Event
  <2>2. \E T : Queues(T)
    BY <1>0, <1>1, PostQueues, DeleteQueues, UnboostQueues, EditQueues
  <2>3. \A v, a : Feeds!Apart(v, a)' <=> Feeds!Apart(v, a)
    BY <2>1 DEF Feeds!Apart
  <2> QED
    BY <2>1, <2>2, <2>3, LocalEvent
<1>2. ASSUME NEW v \in People, NEW a \in People, Feeds!Follow(v, a) \/ Feeds!Unfollow(v, a)
      PROVE  LocalOrder'
  <2>1. posted \subseteq posted' /\ st_blocks' = st_blocks
    BY <1>2 DEF Feeds!Follow, Feeds!Unfollow
  <2>2. \E T : Queues(T)
    BY <1>0, <1>2, FollowQueues
  <2>3. \A u, b : Feeds!Apart(u, b)' <=> Feeds!Apart(u, b)
    BY <2>1 DEF Feeds!Apart
  <2> QED
    BY <2>1, <2>2, <2>3, LocalEvent
<1>3. ASSUME NEW v \in People, NEW a \in People, Feeds!Block(v, a) PROVE LocalOrder'
  <2>1. posted \subseteq posted' /\ st_blocks' = st_blocks \cup {<<v, a>>}
    BY <1>3 DEF Feeds!Block
  <2>2. PICK T : T = Only(v \in Readers, Feeds!RemoveUser(v, a))
               \cup Only(a \in Readers, Feeds!RemoveUser(a, v))
    OBVIOUS
  <2>3. Queues(T)
    BY <1>0, <1>3, <2>2, BlockQueues
  <2>4. /\ (v \in Readers => Feeds!RemoveUser(v, a) \in T)
        /\ (a \in Readers => Feeds!RemoveUser(a, v) \in T)
    BY <2>2 DEF Only
  <2>5. \A u, b : Feeds!Apart(u, b)' => Feeds!Apart(u, b) \/ (u = v /\ b = a) \/ (u = a /\ b = v)
    BY <2>1 DEF Feeds!Apart
  <2>6. \A u \in Readers, b \in People : Feeds!Apart(u, b)' =>
          Feeds!Apart(u, b) \/ Feeds!RemoveUser(u, b) \in T
    BY <2>4, <2>5
  <2> QED
    BY <2>1, <2>3, <2>6, LocalEvent
<1>4. ASSUME NEW v \in People, NEW a \in People, Feeds!Unblock(v, a) PROVE LocalOrder'
  <2>1. posted \subseteq posted' /\ st_blocks' \subseteq st_blocks
    BY <1>4 DEF Feeds!Unblock
  <2>2. \E T : Queues(T)
    BY <1>0, <1>4, UnblockQueues
  <2>3. \A u, b : Feeds!Apart(u, b)' => Feeds!Apart(u, b)
    BY <2>1 DEF Feeds!Apart
  <2> QED
    BY <2>1, <2>2, <2>3, LocalEvent
<1>5. ASSUME NEW v \in Readers, NEW f \in Films,
             Feeds!Shelve(v, f) \/ Feeds!Unshelve(v, f) \/ Feeds!BlockFilm(v, f)
               \/ Feeds!UnblockFilm(v, f)
      PROVE  LocalOrder'
  <2>1. posted \subseteq posted' /\ st_blocks' = st_blocks
    BY <1>5 DEF Feeds!Shelve, Feeds!Unshelve, Feeds!BlockFilm, Feeds!UnblockFilm
  <2>2. \E T : Queues(T)
    BY <1>0, <1>5, FilmQueues
  <2>3. \A u, b : Feeds!Apart(u, b)' <=> Feeds!Apart(u, b)
    BY <2>1 DEF Feeds!Apart
  <2> QED
    BY <2>1, <2>2, <2>3, LocalEvent
<1> QED
  BY <1>1, <1>2, <1>3, <1>4, <1>5 DEF Feeds!Happen

LEMMA LocalTakes ==
  ASSUME FeedsTyped, LocalOrder, scene' = scene, scene.inOrder, Feeds!Stream = "local",
         NEW t, Takes(t), UNCHANGED Feeds!rows
  PROVE  LocalOrder'
<1>0. scene \in Scenes /\ posted' = posted /\ st_blocks' = st_blocks /\ t \in Chores
  BY DEF FeedsTyped, Feeds!rows, Takes
<1>1. /\ \A x : Has(st_queue, x) <=> x = t \/ Has(st_queue', x)
      /\ \A v \in Readers, s \in Feeds!Statuses :
           Kept(v, s)' <=> <<v, s>> \in Feeds!Reads(t).add
             \/ (Kept(v, s) /\ <<v, s>> \notin Feeds!Reads(t).drop)
  BY DEF Takes
<1>2. ASSUME NEW v \in Readers, NEW s \in Feeds!Statuses, Kept(v, s)'
      PROVE  s \in posted /\ (v # Feeds!By[s] /\ Feeds!Apart(v, Feeds!By[s]) =>
                               Has(st_queue', Feeds!RemoveUser(v, Feeds!By[s])))
  <2>1. CASE <<v, s>> \in Feeds!Reads(t).add
    <3>1. CASE s \in posted /\ v \in Feeds!Audience(s, TRUE)
      BY <3>1 DEF Feeds!Audience, Feeds!Audible
    <3>2. CASE s \in Feeds!SeenOf(v, Feeds!By[s])
      BY <3>2 DEF Feeds!SeenOf, Feeds!Visible
    <3>3. ASSUME NEW f, s \in Feeds!AboutFilm(f, Feeds!Selected(v))
          PROVE  s \in posted /\ ~Feeds!Apart(v, Feeds!By[s])
      BY <3>3 DEF Feeds!AboutFilm, Feeds!Selected, Feeds!Visible
    <3> QED
      BY <1>0, <2>1, <3>1, <3>2, <3>3, AddsWhat
  <2>2. CASE Kept(v, s) /\ <<v, s>> \notin Feeds!Reads(t).add
    <3>1. s \in posted /\ (v # Feeds!By[s] /\ Feeds!Apart(v, Feeds!By[s]) =>
                            Has(st_queue, Feeds!RemoveUser(v, Feeds!By[s])))
      BY <2>2 DEF LocalOrder
    <3>2. t # Feeds!RemoveUser(v, Feeds!By[s])
      BY <1>2, <3>1, TakesWhat
    <3> QED
      BY <1>1, <3>1, <3>2
  <2> QED
    BY <1>1, <1>2, <2>1, <2>2
<1> QED
  BY <1>0, <1>2, SameScene DEF LocalOrder, Feeds!Apart

LEMMA NextLocal == FeedsTyped /\ Alone /\ LocalOrder /\ [Feeds!Next]_(Feeds!vars) => LocalOrder'
<1> SUFFICES ASSUME FeedsTyped, Alone, LocalOrder, [Feeds!Next]_(Feeds!vars), scene'.inOrder,
                    Feeds!Stream' = "local"
             PROVE  LocalOrder'
  BY DEF LocalOrder
<1>0. scene' = scene /\ scene.inOrder /\ Feeds!Stream = "local"
  <2>1. scene' = scene
    BY DEF Feeds!Next, Feeds!vars
  <2> QED
    BY <2>1, SameScene
<1>1. CASE Feeds!Happen
  BY <1>0, <1>1, LocalHappen
<1>2. ASSUME NEW w \in Clerks, Feeds!Start(w) PROVE LocalOrder'
  BY <1>0, <1>2, StartTakes, LocalTakes
<1>3. CASE (\E w \in Clerks : Feeds!Finish(w)) \/ UNCHANGED Feeds!vars
  <2>1. /\ \A v \in Readers, s \in Feeds!Statuses : Kept(v, s)' <=> Kept(v, s)
        /\ UNCHANGED <<posted, st_blocks, st_queue>>
    BY <1>0, <1>3, KeptStays
  <2> QED
    BY <1>0, <2>1, SameScene DEF LocalOrder, Feeds!Apart
<1> QED
  BY <1>1, <1>2, <1>3 DEF Feeds!Next

LEMMA LocalIsExact ==
  ASSUME FeedsTyped, LocalOrder, Feeds!Settled, Feeds!Stream = "local"
  PROVE  Feeds!NothingStray /\ Feeds!NothingMissing /\ Feeds!DeletedAreGone
<1>1. /\ \A v, s : Kept(v, s) <=> s \in feed[v]
      /\ \A t : ~Has(st_queue, t)
      /\ scene.inOrder
      /\ feed \in [Readers -> SUBSET Feeds!Statuses]
  BY SettledKept DEF FeedsTyped
<1>2. \A v \in Readers : \A s \in feed[v] : v # Feeds!By[s] => ~Feeds!Apart(v, Feeds!By[s])
  BY <1>1 DEF LocalOrder
<1>3. \A v \in Readers : \A s \in feed[v] \ {t \in Feeds!Statuses : Feeds!By[t] = v} :
        ~Feeds!Apart(v, Feeds!By[s])
  BY <1>1, <1>2
<1>4. Feeds!NothingStray
  BY <1>3 DEF Feeds!NothingStray
<1> QED
  BY <1>4 DEF Feeds!NothingMissing, Feeds!DeletedAreGone, Feeds!OnHome

-----------------------------------------------------------------------------
(* Streams of films                                                          *)

\* Only boosts take their privacy from another status, and never "followers".
Lasting ==
  \A s \in Feeds!Statuses : /\ Feeds!FilmOf[s] \in Films => st_privacy[s] = scene.privacy[s]
                            /\ st_privacy[s] = "followers" => scene.privacy[s] = "followers"

FilmsTask(t) ==
  \/ \E s \in Feeds!Statuses : t = Feeds!AddStatus(s)
  \/ \E s \in Feeds!Statuses : t = Feeds!HandleBoost(s) /\ Feeds!Boosted[s] # 0
  \/ \E v \in Readers, f \in Films : t = Feeds!AddFilm(v, f) \/ t = Feeds!RemoveFilm(v, f)

\* The films that the thread of s is about in public.
PublicFilms(s) ==
  {f \in Films : \E u \in posted : st_privacy[u] = "public" /\ Feeds!Root(u) = Feeds!Root(s)
    /\ Feeds!FilmOf[u] = f}

FilmsShape ==
  /\ st_blocks = {} /\ deleted = {} /\ filmBlocks = {} /\ Lasting
  /\ \A t : Has(st_queue, t) => FilmsTask(t)

\* The last task about a film fits the shelves.
FilmsQueue ==
  \A v \in Readers, f \in Films :
    IF <<v, f>> \in shelved THEN Before(st_queue, Feeds!RemoveFilm(v, f), Feeds!AddFilm(v, f))
                            ELSE Before(st_queue, Feeds!AddFilm(v, f), Feeds!RemoveFilm(v, f))

FilmsKept ==
  \A v \in Readers, s \in Feeds!Statuses : v # Feeds!By[s] =>
    /\ Kept(v, s) => /\ s \in posted /\ st_privacy[s] = "public"
                     /\ \E f \in PublicFilms(s) :
                          <<v, f>> \in shelved \/ Has(st_queue, Feeds!RemoveFilm(v, f))
    /\ s \in posted /\ st_privacy[s] = "public" /\ <<v, Feeds!FilmOf[s]>> \in shelved =>
         Kept(v, s) \/ Has(st_queue, Feeds!AddStatus(s))
           \/ Has(st_queue, Feeds!AddFilm(v, Feeds!FilmOf[s]))

FilmsOrder == scene.inOrder /\ Feeds!OnFilms => FilmsShape /\ FilmsQueue /\ FilmsKept

LEMMA FilmsScene ==
  ASSUME scene \in Scenes, scene.inOrder, Feeds!OnFilms
  PROVE  /\ scene.events \subseteq {"post", "shelve", "follow"} /\ ~Feeds!OnHome /\ 0 \notin Films
         /\ \A s \in Feeds!Statuses : /\ Feeds!Boosted[s] # 0 => Feeds!FilmOf[s] \notin Films
                                      /\ Feeds!Parent[s] # 0 =>
                                           scene.privacy[Feeds!Parent[s]] # "followers"
         /\ \A s, t \in Feeds!Statuses :
              /\ Feeds!Root(s) = Feeds!Root(t)
              /\ Feeds!FilmOf[s] \in Films /\ scene.privacy[s] = "public"
              /\ Feeds!FilmOf[t] \in Films /\ scene.privacy[t] = "public"
              => Feeds!FilmOf[s] = Feeds!FilmOf[t]
<1>1. Feeds!Orderly(scene) /\ scene.stream = "films"
  BY SceneIs DEF Feeds!OnFilms, Feeds!Stream
<1>2. /\ scene.events \subseteq {"post", "shelve", "follow"} /\ ~Feeds!OnHome /\ 0 \notin Films
      /\ \A s \in Feeds!Statuses : /\ Feeds!Boosted[s] # 0 => Feeds!FilmOf[s] \notin Films
                                   /\ Feeds!Parent[s] # 0 =>
                                        scene.privacy[Feeds!Parent[s]] # "followers"
  BY <1>1, SceneAssumption DEF Feeds!Orderly, Feeds!OnHome, Feeds!Stream, Feeds!Statuses,
     Feeds!Boosted, Feeds!Parent, Feeds!FilmOf
<1>3. \A s, t \in Feeds!Statuses :
        /\ Feeds!Root(s) = Feeds!Root(t)
        /\ Feeds!FilmOf[s] \in Films /\ scene.privacy[s] = "public"
        /\ Feeds!FilmOf[t] \in Films /\ scene.privacy[t] = "public"
        => Feeds!FilmOf[s] = Feeds!FilmOf[t]
  BY <1>1 DEF Feeds!Orderly, Feeds!Statuses, Feeds!FilmOf, Feeds!Parent, Feeds!Root
<1> QED
  BY <1>2, <1>3

LEMMA InThread ==
  \A s : PublicFilms(s) \subseteq Feeds!ThreadFilms(s)
BY DEF PublicFilms, Feeds!ThreadFilms

LEMMA ThreadsGrow ==
  ASSUME scene' = scene, posted \subseteq posted', \A u \in posted : st_privacy'[u] = st_privacy[u]
  PROVE  \A s : PublicFilms(s) \subseteq PublicFilms(s)'
<1>1. Feeds!FilmOf' = Feeds!FilmOf /\ Feeds!Parent' = Feeds!Parent
  BY SameScene
<1>2. \A s : Feeds!Root(s)' = Feeds!Root(s)
  BY <1>1 DEF Feeds!Root
<1>3. ASSUME NEW s, NEW f \in PublicFilms(s) PROVE f \in PublicFilms(s)'
  <2>1. PICK u \in posted : st_privacy[u] = "public" /\ Feeds!Root(u) = Feeds!Root(s)
               /\ Feeds!FilmOf[u] = f /\ f \in Films
    BY <1>3 DEF PublicFilms
  <2>2. /\ u \in posted' /\ st_privacy'[u] = "public" /\ Feeds!Root(u)' = Feeds!Root(s)'
        /\ Feeds!FilmOf'[u] = f
    BY <1>1, <1>2, <2>1
  <2> QED
    BY <2>1, <2>2 DEF PublicFilms
<1> QED
  BY <1>3

\* Who is told of a status, and which statuses a task about a film is about.
LEMMA FilmsReads ==
  ASSUME FeedsTyped, scene.inOrder, Feeds!OnFilms, FilmsShape, NEW v \in Readers,
         NEW s \in Feeds!Statuses
  PROVE  /\ v \in Feeds!Audience(s, TRUE) <=>
              v # Feeds!By[s] /\ st_privacy[s] = "public" /\ <<v, Feeds!FilmOf[s]>> \in shelved
         /\ \A f \in Films :
              /\ s \in Feeds!AboutFilm(f, Feeds!Visible(v, {"public"})) <=>
                   s \in posted /\ st_privacy[s] = "public" /\ f \in PublicFilms(s)
              /\ s \in Feeds!AboutFilm(f, Feeds!Selected(v)) =>
                   s \in posted /\ st_privacy[s] = "public" /\ f \in PublicFilms(s)
              /\ s \in posted /\ st_privacy[s] = "public" /\ v # Feeds!By[s]
                   /\ f = Feeds!FilmOf[s] =>
                   s \in Feeds!AboutFilm(f, Feeds!Selected(v))
<1>0. /\ scene \in Scenes /\ posted \subseteq Feeds!Statuses /\ ~Feeds!OnHome
      /\ st_blocks = {} /\ deleted = {} /\ filmBlocks = {} /\ Lasting
      /\ Feeds!Parent \in [Feeds!Statuses -> 0 .. scene.n] /\ scene.n \in Nat
  BY FilmsScene, SceneIs DEF FeedsTyped, FilmsShape
<1>1. \A a : ~Feeds!Apart(v, a)
  BY <1>0 DEF Feeds!Apart
<1>2. st_privacy[s] = "public" => Feeds!Audible(v, s, TRUE)
  <2>1. Feeds!Parent[s] # 0 => Feeds!Parent[s] \in Feeds!Statuses
    BY <1>0 DEF Feeds!Statuses
  <2>2. Feeds!Parent[s] # 0 => st_privacy[Feeds!Parent[s]] # "followers"
    BY <1>0, <2>1, FilmsScene DEF Lasting
  <2> QED
    BY <1>0, <1>1, <2>2 DEF Feeds!Audible
<1>3. v \in Feeds!Audience(s, TRUE) <=> v # Feeds!By[s] /\ st_privacy[s] = "public"
        /\ <<v, Feeds!FilmOf[s]>> \in shelved
  BY <1>0, <1>2 DEF Feeds!Audience, Feeds!OnFilms, Feeds!FilmSeen
<1> DEFINE seen == {x \in posted : st_privacy[x] = "public"}
<1>4. Feeds!Visible(v, {"public"}) = seen
  BY <1>0, <1>1 DEF Feeds!Visible
<1>5. Feeds!Selected(v) = {x \in seen : v # Feeds!By[x]}
  BY <1>0, <1>4 DEF Feeds!Selected, Feeds!OnHome
<1>6. \A f, S : s \in Feeds!AboutFilm(f, S) <=>
        s \in S /\ \E u \in S : Feeds!FilmOf[u] = f /\ Feeds!Root(u) = Feeds!Root(s)
  BY DEF Feeds!AboutFilm
<1>7. ASSUME NEW f \in Films
      PROVE  /\ s \in Feeds!AboutFilm(f, Feeds!Visible(v, {"public"})) <=>
                  s \in posted /\ st_privacy[s] = "public" /\ f \in PublicFilms(s)
             /\ s \in Feeds!AboutFilm(f, Feeds!Selected(v)) =>
                  s \in posted /\ st_privacy[s] = "public" /\ f \in PublicFilms(s)
             /\ s \in posted /\ st_privacy[s] = "public" /\ v # Feeds!By[s]
                  /\ f = Feeds!FilmOf[s] =>
                  s \in Feeds!AboutFilm(f, Feeds!Selected(v))
  <2>1. s \in Feeds!AboutFilm(f, seen) <=> s \in seen /\ f \in PublicFilms(s)
    BY <1>6 DEF PublicFilms
  <2>2. s \in Feeds!AboutFilm(f, {x \in seen : v # Feeds!By[x]}) =>
          s \in seen /\ f \in PublicFilms(s)
    BY <1>6 DEF PublicFilms
  <2>3. s \in seen /\ v # Feeds!By[s] /\ f = Feeds!FilmOf[s] =>
          s \in Feeds!AboutFilm(f, {x \in seen : v # Feeds!By[x]})
    BY <1>6
  <2> QED
    BY <1>4, <1>5, <2>1, <2>2, <2>3
<1> QED
  BY <1>3, <1>7

\* Boosts are about no film: nobody is told of them.
LEMMA BoostsAreSilent ==
  ASSUME FeedsTyped, scene.inOrder, Feeds!OnFilms, NEW t, Takes(t),
         NEW b \in Feeds!Statuses, t = Feeds!HandleBoost(b), Feeds!Boosted[b] # 0
  PROVE  \A v \in Readers, s \in Feeds!Statuses : Kept(v, s)' <=> Kept(v, s)
<1>1. /\ Feeds!FilmSeen(b, FALSE) \notin Films /\ ~Feeds!OnHome /\ Feeds!Stream = "films"
      /\ shelved \subseteq Readers \X Films
  BY FilmsScene DEF FeedsTyped, Feeds!FilmSeen, Feeds!OnFilms
<1>2. Feeds!Audience(b, FALSE) = {}
  BY <1>1 DEF Feeds!Audience
<1>3. \A p : p \notin Feeds!Reads(t).add /\ p \notin Feeds!Reads(t).drop
  <2>1. t.do = "handle_boost" /\ t.of = b
    BY ChoreFields
  <2>2. Feeds!Reads(t) = Feeds!Dropping({}, Feeds!Superseded(b)) \/ Feeds!Reads(t) = Feeds!Nothing
    BY <1>2, <2>1 DEF Feeds!Reads
  <2> QED
    BY <2>2 DEF Feeds!Dropping, Feeds!Nothing
<1> QED
  BY <1>3 DEF Takes

LEMMA InitFilms == Feeds!Init => FilmsOrder
<1> SUFFICES ASSUME Feeds!Init PROVE FilmsShape /\ FilmsQueue /\ FilmsKept
  BY DEF FilmsOrder
<1>1. (\A v \in Readers : \A s : ~Kept(v, s)) /\ (\A t : ~Has(st_queue, t)) /\ \A t, u :
        Before(st_queue, t, u)
  BY InitKept, NoTasksBefore
<1>2. filmBlocks = {} /\ Lasting /\ st_blocks = {} /\ posted = {} /\ deleted = {}
  BY DEF Feeds!Init, Lasting
<1>3. FilmsShape /\ FilmsQueue
  BY <1>1, <1>2 DEF FilmsShape, FilmsQueue
<1>4. FilmsKept
  BY <1>1, <1>2 DEF FilmsKept
<1> QED
  BY <1>3, <1>4

LEMMA FilmsTasksStay == scene' = scene => \A t : FilmsTask(t)' <=> FilmsTask(t)
<1> SUFFICES ASSUME scene' = scene, NEW t PROVE FilmsTask(t)' <=> FilmsTask(t)
  OBVIOUS
<1>1. /\ Feeds!Statuses' = Feeds!Statuses /\ Feeds!Boosted' = Feeds!Boosted
      /\ \A s : Feeds!AddStatus(s)' = Feeds!AddStatus(s)
           /\ Feeds!HandleBoost(s)' = Feeds!HandleBoost(s)
  BY SameScene, SameTasks DEF Feeds!HandleBoost, Feeds!Task, Feeds!By
<1>2. \A v, f : Feeds!AddFilm(v, f)' = Feeds!AddFilm(v, f)
        /\ Feeds!RemoveFilm(v, f)' = Feeds!RemoveFilm(v, f)
  BY DEF Feeds!AddFilm, Feeds!RemoveFilm, Feeds!Task
<1> QED
  BY <1>1, <1>2 DEF FilmsTask

\* What an event must do with its tasks.
LEMMA FilmsEvent ==
  ASSUME FeedsTyped, FilmsShape, FilmsQueue, FilmsKept, scene' = scene, NEW T, Queues(T),
         UNCHANGED <<st_blocks, deleted, filmBlocks>>, posted \subseteq posted',
         \A s \in posted : st_privacy'[s] = st_privacy[s], Lasting',
         \A t \in T : FilmsTask(t),
         \A v \in Readers, f \in Films : <<v, f>> \in shelved' =>
           Feeds!RemoveFilm(v, f) \notin T /\ (<<v, f>> \in shelved \/ Feeds!AddFilm(v, f) \in T),
         \A v \in Readers, f \in Films : <<v, f>> \notin shelved' =>
           Feeds!AddFilm(v, f) \notin T /\ (<<v, f>> \notin shelved
                                             \/ Feeds!RemoveFilm(v, f) \in T),
         \A s \in posted' \ posted : Feeds!AddStatus(s) \in T,
         shelved' \subseteq Readers \X Films
  PROVE  FilmsShape' /\ FilmsQueue' /\ FilmsKept'
<1>1. /\ \A v, s : Kept(v, s)' <=> Kept(v, s)
      /\ \A t : Has(st_queue', t) <=> Has(st_queue, t) \/ t \in T
      /\ \A t, u : t \notin T /\ (Before(st_queue, t, u) \/ u \in T) => Before(st_queue', t, u)
  BY QueuesLater
<1>2. FilmsShape'
  <2>1. \A t : Has(st_queue', t) => FilmsTask(t)
    BY <1>1 DEF FilmsShape
  <2>2. st_blocks' = {} /\ deleted' = {} /\ filmBlocks' = {}
    BY DEF FilmsShape
  <2>3. \A t : FilmsTask(t)' <=> FilmsTask(t)
    BY FilmsTasksStay
  <2> QED
    BY <2>1, <2>2, <2>3 DEF FilmsShape
<1>3. FilmsQueue'
  <2>1. ASSUME NEW v \in Readers, NEW f \in Films
        PROVE  IF <<v, f>> \in shelved' THEN Before(st_queue', Feeds!RemoveFilm(v, f),
                                                    Feeds!AddFilm(v, f))
                                        ELSE Before(st_queue', Feeds!AddFilm(v, f),
                                                    Feeds!RemoveFilm(v, f))
    <3>1. CASE <<v, f>> \in shelved'
      BY <1>1, <3>1 DEF FilmsQueue
    <3>2. CASE <<v, f>> \notin shelved'
      BY <1>1, <3>2 DEF FilmsQueue
    <3> QED
      BY <3>1, <3>2
  <2> QED
    BY <2>1 DEF FilmsQueue
<1>4. FilmsKept'
  <2>1. \A s : PublicFilms(s) \subseteq PublicFilms(s)'
    BY ThreadsGrow
  <2>2. ASSUME NEW v \in Readers, NEW s \in Feeds!Statuses, v # Feeds!By[s], Kept(v, s)'
        PROVE  /\ s \in posted' /\ st_privacy'[s] = "public"
               /\ \E f \in PublicFilms(s)' :
                    <<v, f>> \in shelved' \/ Has(st_queue', Feeds!RemoveFilm(v, f))
    <3>0. s \in posted' /\ st_privacy'[s] = "public"
      BY <1>1, <2>2 DEF FilmsKept
    <3>1. PICK f \in PublicFilms(s) : <<v, f>> \in shelved \/ Has(st_queue, Feeds!RemoveFilm(v, f))
      BY <1>1, <2>2 DEF FilmsKept
    <3>2. f \in Films /\ f \in PublicFilms(s)'
      BY <2>1, <3>1 DEF PublicFilms
    <3>3. <<v, f>> \in shelved' \/ Has(st_queue', Feeds!RemoveFilm(v, f))
      BY <1>1, <3>1, <3>2
    <3> QED
      BY <3>0, <3>2, <3>3
  <2>3. ASSUME NEW v \in Readers, NEW s \in Feeds!Statuses, v # Feeds!By[s], s \in posted',
               st_privacy'[s] = "public",
               <<v, Feeds!FilmOf[s]>> \in shelved'
        PROVE  Kept(v, s)' \/ Has(st_queue', Feeds!AddStatus(s))
                 \/ Has(st_queue', Feeds!AddFilm(v, Feeds!FilmOf[s]))
    <3>1. Feeds!FilmOf[s] \in Films
      BY <2>3
    <3>2. (s \in posted /\ st_privacy[s] = "public" /\ <<v, Feeds!FilmOf[s]>> \in shelved)
            \/ Feeds!AddStatus(s) \in T \/ Feeds!AddFilm(v, Feeds!FilmOf[s]) \in T
      BY <2>3, <3>1
    <3> QED
      BY <1>1, <2>3, <3>2 DEF FilmsKept
  <2> QED
    BY <2>2, <2>3, SameScene, SameTasks DEF FilmsKept
<1> QED
  BY <1>2, <1>3, <1>4

LEMMA FilmsHappen ==
  ASSUME FeedsTyped, FilmsShape, FilmsQueue, FilmsKept, scene' = scene, scene.inOrder,
         Feeds!OnFilms, Feeds!Happen
  PROVE  FilmsShape' /\ FilmsQueue' /\ FilmsKept'
<1>0. /\ scene \in Scenes /\ posted \subseteq Feeds!Statuses /\ shelved \subseteq Readers \X Films
      /\ st_blocks = {} /\ ~Feeds!OnHome /\ Readers \subseteq People
      /\ scene.events \subseteq {"post", "shelve", "follow"}
      /\ \A s \in Feeds!Statuses : Feeds!Boosted[s] # 0 => Feeds!FilmOf[s] \notin Films
      /\ Lasting /\ st_privacy \in [Feeds!Statuses -> Feeds!Privacies]
  BY SceneAssumption, FilmsScene DEF FeedsTyped, FilmsShape
<1>1. ASSUME NEW s \in Feeds!Statuses, Feeds!Post(s) PROVE FilmsShape' /\ FilmsQueue' /\ FilmsKept'
  <2>1. /\ posted' = posted \cup {s} /\ s \notin posted
        /\ UNCHANGED <<st_blocks, deleted, filmBlocks, shelved>>
    BY <1>0, <1>1 DEF Feeds!Post
  <2>2. PICK T : T = {Feeds!AddStatus(s)} \cup Only(Feeds!Boosted[s] # 0, Feeds!HandleBoost(s))
    OBVIOUS
  <2>3. Queues(T)
    BY <1>0, <1>1, <2>2, PostQueues
  <2>4. \A t : t \in T <=> t = Feeds!AddStatus(s)
          \/ (Feeds!Boosted[s] # 0 /\ t = Feeds!HandleBoost(s))
    BY <2>2 DEF Only
  <2>5. \A v, f : Feeds!AddFilm(v, f) \notin T /\ Feeds!RemoveFilm(v, f) \notin T
    BY <2>4, TaskKinds
  <2>6. \A t \in T : FilmsTask(t)
    BY <2>4 DEF FilmsTask
  <2>7. /\ \A x \in Feeds!Statuses \ {s} : st_privacy'[x] = st_privacy[x]
        /\ st_privacy'[s] = st_privacy[s]
             \/ (Feeds!Boosted[s] # 0 /\ st_privacy'[s] \in {"public", "unlisted"})
    BY <1>0, <1>1 DEF Feeds!Post
  <2>8. Lasting'
    <3>1. \A x \in Feeds!Statuses : /\ Feeds!FilmOf[x] \in Films =>
                                         st_privacy'[x] = scene.privacy[x]
                                    /\ st_privacy'[x] = "followers" =>
                                         scene.privacy[x] = "followers"
      BY <1>0, <2>7 DEF Lasting
    <3> QED
      BY <3>1, SameScene DEF Lasting
  <2> QED
    BY <1>0, <2>1, <2>3, <2>4, <2>5, <2>6, <2>7, <2>8, FilmsEvent
<1>2. ASSUME NEW s \in Feeds!Statuses, Feeds!Delete(s) \/ Feeds!Unboost(s)
               \/ \E p \in Feeds!Privacies : Feeds!Edit(s, p)
      PROVE  FALSE
  BY <1>0, <1>2 DEF Feeds!Delete, Feeds!Unboost, Feeds!Edit, Feeds!Event
<1>3. ASSUME NEW v \in People, NEW a \in People, Feeds!Follow(v, a) \/ Feeds!Unfollow(v, a)
      PROVE  FilmsShape' /\ FilmsQueue' /\ FilmsKept'
  <2>1. UNCHANGED <<posted, st_blocks, deleted, filmBlocks, st_privacy, shelved>>
    BY <1>3 DEF Feeds!Follow, Feeds!Unfollow
  <2>2. /\ Only(Feeds!OnHome /\ v \in Readers, Feeds!AddUser(v, a)) = {}
        /\ Only(Feeds!OnHome /\ v \in Readers, Feeds!RemoveUser(v, a)) = {}
    BY <1>0 DEF Only
  <2>3. Queues({})
    BY <1>0, <1>3, <2>2, FollowQueues
  <2>4. Lasting'
    BY <1>0, <2>1, SameScene DEF Lasting
  <2> QED
    BY <1>0, <2>1, <2>3, <2>4, FilmsEvent
<1>4. ASSUME NEW v \in People, NEW a \in People, Feeds!Block(v, a) \/ Feeds!Unblock(v, a)
      PROVE  FALSE
  BY <1>0, <1>4 DEF Feeds!Block, Feeds!Unblock, Feeds!Event
<1>5. ASSUME NEW v \in Readers, NEW f \in Films, Feeds!Shelve(v, f)
      PROVE  FilmsShape' /\ FilmsQueue' /\ FilmsKept'
  <2>1. /\ UNCHANGED <<posted, st_blocks, deleted, filmBlocks, st_privacy>>
        /\ shelved' = shelved \cup {<<v, f>>}
    BY <1>5 DEF Feeds!Shelve
  <2>2. PICK T : T = {Feeds!AddFilm(v, f)}
    OBVIOUS
  <2>3. Queues(T)
    <3>1. Only(Feeds!OnFilms, Feeds!AddFilm(v, f)) = T
      BY <2>2 DEF Only
    <3> QED
      BY <1>0, <1>5, <3>1, FilmQueues
  <2>4. \A t : t \in T <=> t = Feeds!AddFilm(v, f)
    BY <2>2
  <2>5. \A u, g : Feeds!RemoveFilm(u, g) \notin T /\ (Feeds!AddFilm(u, g) \in T <=> u = v /\ g = f)
    BY <2>4, TaskKinds
  <2>6. \A u \in Readers, g \in Films :
          /\ <<u, g>> \in shelved' => <<u, g>> \in shelved \/ Feeds!AddFilm(u, g) \in T
          /\ <<u, g>> \notin shelved' => Feeds!AddFilm(u, g) \notin T /\ <<u, g>> \notin shelved
    BY <2>1, <2>5
  <2>7. shelved' \subseteq Readers \X Films
    BY <1>0, <2>1
  <2>8. Lasting' /\ \A t \in T : FilmsTask(t)
    BY <1>0, <2>1, <2>4, SameScene DEF Lasting, FilmsTask
  <2> QED
    BY <1>0, <2>1, <2>3, <2>4, <2>5, <2>6, <2>7, <2>8, FilmsEvent
<1>6. ASSUME NEW v \in Readers, NEW f \in Films, Feeds!Unshelve(v, f)
      PROVE  FilmsShape' /\ FilmsQueue' /\ FilmsKept'
  <2>1. /\ UNCHANGED <<posted, st_blocks, deleted, filmBlocks, st_privacy>>
        /\ shelved' = shelved \ {<<v, f>>}
    BY <1>6 DEF Feeds!Unshelve
  <2>2. PICK T : T = {Feeds!RemoveFilm(v, f)}
    OBVIOUS
  <2>3. Queues(T)
    <3>1. Only(Feeds!OnFilms, Feeds!RemoveFilm(v, f)) = T
      BY <2>2 DEF Only
    <3> QED
      BY <1>0, <1>6, <3>1, FilmQueues
  <2>4. \A t : t \in T <=> t = Feeds!RemoveFilm(v, f)
    BY <2>2
  <2>5. \A u, g : Feeds!AddFilm(u, g) \notin T /\ (Feeds!RemoveFilm(u, g) \in T <=> u = v /\ g = f)
    BY <2>4, TaskKinds
  <2>6. \A u \in Readers, g \in Films :
          /\ <<u, g>> \in shelved' => <<u, g>> \in shelved /\ Feeds!RemoveFilm(u, g) \notin T
          /\ <<u, g>> \notin shelved' => <<u, g>> \notin shelved \/ Feeds!RemoveFilm(u, g) \in T
    BY <2>1, <2>5
  <2>7. shelved' \subseteq Readers \X Films
    BY <1>0, <2>1
  <2>8. Lasting' /\ \A t \in T : FilmsTask(t)
    BY <1>0, <2>1, <2>4, SameScene DEF Lasting, FilmsTask
  <2> QED
    BY <1>0, <2>1, <2>3, <2>4, <2>5, <2>6, <2>7, <2>8, FilmsEvent
<1>7. ASSUME NEW v \in Readers, NEW f \in Films, Feeds!BlockFilm(v, f) \/ Feeds!UnblockFilm(v, f)
      PROVE  FALSE
  BY <1>0, <1>7 DEF Feeds!BlockFilm, Feeds!UnblockFilm, Feeds!Event
<1> QED
  BY <1>1, <1>2, <1>3, <1>4, <1>5, <1>6, <1>7 DEF Feeds!Happen

LEMMA FilmsTakes ==
  ASSUME FeedsTyped, FilmsShape, FilmsQueue, FilmsKept, scene' = scene, scene.inOrder,
         Feeds!OnFilms,
         NEW t, Takes(t), UNCHANGED Feeds!rows
  PROVE  FilmsShape' /\ FilmsQueue' /\ FilmsKept'
<1>0. /\ scene \in Scenes /\ posted \subseteq Feeds!Statuses /\ shelved \subseteq Readers \X Films
      /\ UNCHANGED <<posted, deleted, st_privacy, st_blocks, shelved, filmBlocks>>
  BY DEF FeedsTyped, Feeds!rows
<1>1. /\ \A x : Has(st_queue, x) <=> x = t \/ Has(st_queue', x)
      /\ \A x, y : Before(st_queue, x, y) => Before(st_queue', x, y) /\ (x = t => Has(st_queue', y))
  BY DEF Takes
<1>2. /\ \A u : t = Feeds!AddStatus(u) => \A v \in Readers, s \in Feeds!Statuses :
           Kept(v, s)' <=> Kept(v, s) \/ (s = u /\ u \in posted /\ v \in Feeds!Audience(u, TRUE))
      /\ \A u, f : t = Feeds!AddFilm(u, f) => \A v \in Readers, s \in Feeds!Statuses :
           Kept(v, s)' <=> Kept(v, s) \/ (v = u /\ s \in Feeds!AboutFilm(f, Feeds!Selected(u)))
      /\ \A u, f : t = Feeds!RemoveFilm(u, f) => \A v \in Readers, s \in Feeds!Statuses :
           Kept(v, s)' <=> Kept(v, s) /\ ~(v = u /\ s
                                            \in Feeds!AboutFilm(f, Feeds!Visible(u, {"public"})))
  BY TakesWhat
<1>3. FilmsTask(t)
  BY <1>1 DEF FilmsShape
<1>4. FilmsShape'
  <2>1. \A x : Has(st_queue', x) => FilmsTask(x)
    BY <1>1 DEF FilmsShape
  <2>2. st_blocks' = {} /\ deleted' = {} /\ filmBlocks' = {} /\ Lasting'
    BY <1>0, SameScene DEF FilmsShape, Lasting
  <2>3. \A x : FilmsTask(x)' <=> FilmsTask(x)
    BY FilmsTasksStay
  <2> QED
    BY <2>1, <2>2, <2>3 DEF FilmsShape
<1>5. FilmsQueue'
  <2>1. \A v \in Readers, f \in Films :
          IF <<v, f>> \in shelved THEN Before(st_queue', Feeds!RemoveFilm(v, f),
                                              Feeds!AddFilm(v, f))
                                  ELSE Before(st_queue', Feeds!AddFilm(v, f),
                                              Feeds!RemoveFilm(v, f))
    BY <1>1 DEF FilmsQueue
  <2> QED
    BY <1>0, <2>1 DEF FilmsQueue
<1>6. ASSUME NEW v \in Readers, NEW s \in Feeds!Statuses, v # Feeds!By[s]
      PROVE  /\ Kept(v, s)' => /\ s \in posted /\ st_privacy[s] = "public"
                               /\ \E f \in PublicFilms(s) :
                                    <<v, f>> \in shelved \/ Has(st_queue', Feeds!RemoveFilm(v, f))
             /\ s \in posted /\ st_privacy[s] = "public" /\ <<v, Feeds!FilmOf[s]>> \in shelved =>
                  Kept(v, s)' \/ Has(st_queue', Feeds!AddStatus(s))
                    \/ Has(st_queue', Feeds!AddFilm(v, Feeds!FilmOf[s]))
  <2> DEFINE mine == Feeds!FilmOf[s]
             shown == s \in posted /\ st_privacy[s] = "public"
             Founded == /\ shown
                        /\ \E f \in PublicFilms(s) :
                             <<v, f>> \in shelved \/ Has(st_queue', Feeds!RemoveFilm(v, f))
             Due == shown /\ <<v, mine>> \in shelved
  <2>1. /\ Kept(v, s) => shown
        /\ Kept(v, s) => \E f \in PublicFilms(s) :
             <<v, f>> \in shelved \/ Has(st_queue, Feeds!RemoveFilm(v, f))
        /\ Due => Kept(v, s) \/ Has(st_queue, Feeds!AddStatus(s))
             \/ Has(st_queue, Feeds!AddFilm(v, mine))
    BY <1>6 DEF FilmsKept
  <2>2. \A f \in Films : IF <<v, f>> \in shelved
          THEN Before(st_queue, Feeds!RemoveFilm(v, f), Feeds!AddFilm(v, f))
                                                 ELSE Before(st_queue, Feeds!AddFilm(v, f),
                                                             Feeds!RemoveFilm(v, f))
    BY DEF FilmsQueue
  <2>3. /\ v \in Feeds!Audience(s, TRUE) <=> st_privacy[s] = "public" /\ <<v, mine>> \in shelved
        /\ \A f \in Films : /\ s \in Feeds!AboutFilm(f, Feeds!Visible(v, {"public"})) <=>
                                 shown /\ f \in PublicFilms(s)
                            /\ s \in Feeds!AboutFilm(f, Feeds!Selected(v)) =>
                                 shown /\ f \in PublicFilms(s)
                            /\ shown /\ f = mine => s \in Feeds!AboutFilm(f, Feeds!Selected(v))
    BY <1>6, FilmsReads
  <2>4. \A f \in PublicFilms(s) : f \in Films
    BY DEF PublicFilms
  <2>5. Due => mine \in Films
    BY <1>0
  <2>6. shown /\ mine \in Films => mine \in PublicFilms(s)
    BY DEF PublicFilms
  <2>7. \A f \in PublicFilms(s) : shown /\ mine \in Films => f = mine
    <3>1. ASSUME NEW f \in PublicFilms(s), shown, mine \in Films PROVE f = mine
      <4>1. PICK u \in posted : st_privacy[u] = "public" /\ Feeds!Root(u) = Feeds!Root(s)
                   /\ Feeds!FilmOf[u] = f /\ f \in Films
        BY <3>1 DEF PublicFilms
      <4>2. /\ u \in Feeds!Statuses /\ scene.privacy[u] = "public"
            /\ scene.privacy[s] = "public"
        BY <1>0, <3>1, <4>1 DEF FilmsShape, Lasting
      <4> QED
        BY <1>0, <3>1, <4>1, <4>2, FilmsScene
    <3> QED
      BY <3>1
  <2> SUFFICES (Kept(v, s)' => Founded)
               /\ (Due => Kept(v, s)' \/ Has(st_queue', Feeds!AddStatus(s))
                    \/ Has(st_queue', Feeds!AddFilm(v, mine)))
    OBVIOUS
  <2> HIDE DEF mine, shown
  <2>8. ASSUME NEW u \in Feeds!Statuses, t = Feeds!AddStatus(u)
        PROVE  (Kept(v, s)' => Founded)
               /\ (Due => Kept(v, s)' \/ Has(st_queue', Feeds!AddStatus(s))
                    \/ Has(st_queue', Feeds!AddFilm(v, mine)))
    <3>1. Kept(v, s)' <=> Kept(v, s) \/ (s = u /\ shown /\ <<v, mine>> \in shelved)
      BY <1>2, <2>3, <2>8 DEF shown
    <3>2. \A f : t # Feeds!AddFilm(v, f) /\ t # Feeds!RemoveFilm(v, f)
      BY <2>8, TaskKinds
    <3>3. t = Feeds!AddStatus(s) <=> s = u
      BY <2>8, TaskKinds
    <3>4. Kept(v, s) => Founded
      BY <1>1, <2>1, <3>2
    <3>5. Due => Founded
      BY <2>5, <2>6
    <3>6. Kept(v, s)' => Founded
      BY <3>1, <3>4, <3>5
    <3>7. Due => Kept(v, s)' \/ Has(st_queue', Feeds!AddStatus(s))
            \/ Has(st_queue', Feeds!AddFilm(v, mine))
      BY <1>1, <2>1, <3>1, <3>2, <3>3
    <3> QED
      BY <3>6, <3>7
  <2>9. ASSUME NEW u \in Readers, NEW f \in Films, t = Feeds!AddFilm(u, f)
        PROVE  (Kept(v, s)' => Founded)
               /\ (Due => Kept(v, s)' \/ Has(st_queue', Feeds!AddStatus(s))
                    \/ Has(st_queue', Feeds!AddFilm(v, mine)))
    <3>1. Kept(v, s)' <=> Kept(v, s) \/ (v = u /\ s \in Feeds!AboutFilm(f, Feeds!Selected(v)))
      BY <1>2, <2>9
    <3>2. t # Feeds!AddStatus(s) /\ \A g :
            t # Feeds!RemoveFilm(v, g) /\ (t = Feeds!AddFilm(v, g) <=> u = v /\ f = g)
      BY <2>9, TaskKinds
    <3>3. Kept(v, s) => Founded
      BY <1>1, <2>1, <3>2
    <3>4. ASSUME v = u, s \in Feeds!AboutFilm(f, Feeds!Selected(v)) PROVE Founded
      <4>1. f \in PublicFilms(s) /\ shown
        BY <2>3, <3>4
      <4>2. <<v, f>> \in shelved \/ Has(st_queue', Feeds!RemoveFilm(v, f))
        BY <1>1, <2>2, <3>2, <3>4
      <4> QED
        BY <4>1, <4>2
    <3>5. Kept(v, s)' => Founded
      BY <3>1, <3>3, <3>4
    <3>6. Due => Kept(v, s)' \/ Has(st_queue', Feeds!AddStatus(s))
            \/ Has(st_queue', Feeds!AddFilm(v, mine))
      BY <1>1, <2>1, <2>3, <2>5, <3>1, <3>2
    <3> QED
      BY <3>5, <3>6
  <2>10. ASSUME NEW u \in Readers, NEW f \in Films, t = Feeds!RemoveFilm(u, f)
         PROVE  (Kept(v, s)' => Founded)
                /\ (Due => Kept(v, s)' \/ Has(st_queue', Feeds!AddStatus(s))
                     \/ Has(st_queue', Feeds!AddFilm(v, mine)))
    <3>1. Kept(v, s)' <=> Kept(v, s) /\ ~(v = u /\ shown /\ f \in PublicFilms(s))
      BY <1>2, <2>3, <2>10
    <3>2. t # Feeds!AddStatus(s) /\ \A g :
            t # Feeds!AddFilm(v, g) /\ (t = Feeds!RemoveFilm(v, g) <=> u = v /\ f = g)
      BY <2>10, TaskKinds
    <3>3. ASSUME Kept(v, s)' PROVE Founded
      <4>1. PICK g \in PublicFilms(s) : <<v, g>> \in shelved
                   \/ Has(st_queue, Feeds!RemoveFilm(v, g))
        BY <2>1, <3>1, <3>3
      <4>2. shown
        BY <2>1, <3>1, <3>3
      <4> QED
        BY <1>1, <3>1, <3>2, <3>3, <4>1, <4>2
    <3>4. ASSUME Due
          PROVE  Kept(v, s)' \/ Has(st_queue', Feeds!AddStatus(s))
                   \/ Has(st_queue', Feeds!AddFilm(v, mine))
      <4>1. CASE v = u /\ f \in PublicFilms(s)
        <5>1. f = mine /\ mine \in Films
          BY <2>5, <2>7, <3>4, <4>1
        <5>2. Has(st_queue', Feeds!AddFilm(v, mine))
          BY <1>1, <2>2, <2>10, <3>4, <4>1, <5>1
        <5> QED
          BY <5>2
      <4>2. CASE ~(v = u /\ f \in PublicFilms(s))
        BY <1>1, <2>1, <3>1, <3>2, <3>4, <4>2
      <4> QED
        BY <4>1, <4>2
    <3> QED
      BY <3>3, <3>4
  <2>11. ASSUME NEW b \in Feeds!Statuses, t = Feeds!HandleBoost(b), Feeds!Boosted[b] # 0
         PROVE  (Kept(v, s)' => Founded)
                /\ (Due => Kept(v, s)' \/ Has(st_queue', Feeds!AddStatus(s))
                     \/ Has(st_queue', Feeds!AddFilm(v, mine)))
    <3>1. Kept(v, s)' <=> Kept(v, s)
      BY <2>11, BoostsAreSilent
    <3>2. t # Feeds!AddStatus(s) /\ \A g : t # Feeds!AddFilm(v, g) /\ t # Feeds!RemoveFilm(v, g)
      BY <2>11, TaskKinds
    <3> QED
      BY <1>1, <2>1, <3>1, <3>2
  <2> QED
    BY <1>3, <2>8, <2>9, <2>10, <2>11 DEF FilmsTask
<1>7. FilmsKept'
  <2>1. \A s : PublicFilms(s) \subseteq PublicFilms(s)'
    BY <1>0, ThreadsGrow
  <2>2. \A v \in Readers, s \in Feeds!Statuses : v # Feeds!By[s] => (Kept(v, s)' =>
          s \in posted /\ st_privacy[s] = "public" /\ \E f \in PublicFilms(s)' :
            <<v, f>> \in shelved \/ Has(st_queue', Feeds!RemoveFilm(v, f)))
    BY <1>6, <2>1
  <2>3. \A v \in Readers, s \in Feeds!Statuses : v # Feeds!By[s] =>
          (s \in posted /\ st_privacy[s] = "public" /\ <<v, Feeds!FilmOf[s]>> \in shelved =>
          Kept(v, s)' \/ Has(st_queue', Feeds!AddStatus(s))
            \/ Has(st_queue', Feeds!AddFilm(v, Feeds!FilmOf[s])))
    BY <1>6
  <2> QED
    BY <1>0, <2>2, <2>3, SameScene, SameTasks DEF FilmsKept
<1> QED
  BY <1>4, <1>5, <1>7

LEMMA NextFilms == FeedsTyped /\ Alone /\ FilmsOrder /\ [Feeds!Next]_(Feeds!vars) => FilmsOrder'
<1> SUFFICES ASSUME FeedsTyped, Alone, FilmsOrder, [Feeds!Next]_(Feeds!vars), scene'.inOrder,
                    Feeds!OnFilms'
             PROVE  FilmsShape' /\ FilmsQueue' /\ FilmsKept'
  BY DEF FilmsOrder
<1>0. scene' = scene /\ scene.inOrder /\ Feeds!OnFilms /\ FilmsShape /\ FilmsQueue /\ FilmsKept
  <2>1. scene' = scene
    BY DEF Feeds!Next, Feeds!vars
  <2> QED
    BY <2>1, SameScene DEF Feeds!OnFilms, FilmsOrder
<1>1. CASE Feeds!Happen
  BY <1>0, <1>1, FilmsHappen
<1>2. ASSUME NEW w \in Clerks, Feeds!Start(w) PROVE FilmsShape' /\ FilmsQueue' /\ FilmsKept'
  <2>1. PICK t : Takes(t)
    BY <1>0, <1>2, StartTakes
  <2>2. UNCHANGED Feeds!rows
    BY <1>0, <1>2, StartTakes
  <2> QED
    BY <1>0, <2>1, <2>2, FilmsTakes
<1>3. CASE (\E w \in Clerks : Feeds!Finish(w)) \/ UNCHANGED Feeds!vars
  <2>1. /\ \A v \in Readers, s \in Feeds!Statuses : Kept(v, s)' <=> Kept(v, s)
        /\ UNCHANGED <<posted, deleted, st_privacy, st_blocks, shelved, filmBlocks, st_queue>>
    BY <1>0, <1>3, KeptStays
  <2>2. \A s : PublicFilms(s) \subseteq PublicFilms(s)'
    BY <1>0, <2>1, ThreadsGrow
  <2>3. FilmsShape'
    <3>1. /\ Lasting'
          /\ \A x : FilmsTask(x)' <=> FilmsTask(x)
      BY <1>0, <2>1, SameScene, FilmsTasksStay DEF FilmsShape, Lasting
    <3> QED
      BY <1>0, <2>1, <3>1 DEF FilmsShape
  <2>4. FilmsQueue'
    BY <1>0, <2>1, SameTasks DEF FilmsQueue
  <2>5. FilmsKept'
    <3>1. \A v \in Readers, s \in Feeds!Statuses : v # Feeds!By[s] => (Kept(v, s)' =>
            s \in posted /\ st_privacy[s] = "public" /\ \E f \in PublicFilms(s)' :
              <<v, f>> \in shelved \/ Has(st_queue, Feeds!RemoveFilm(v, f)))
      BY <1>0, <2>1, <2>2 DEF FilmsKept
    <3>2. \A v \in Readers, s \in Feeds!Statuses : v # Feeds!By[s] =>
            (s \in posted /\ st_privacy[s] = "public" /\ <<v, Feeds!FilmOf[s]>> \in shelved =>
            Kept(v, s)' \/ Has(st_queue, Feeds!AddStatus(s))
              \/ Has(st_queue, Feeds!AddFilm(v, Feeds!FilmOf[s])))
      BY <1>0, <2>1 DEF FilmsKept
    <3> QED
      BY <1>0, <2>1, <3>1, <3>2, SameScene, SameTasks DEF FilmsKept
  <2> QED
    BY <2>3, <2>4, <2>5
<1> QED
  BY <1>1, <1>2, <1>3 DEF Feeds!Next

LEMMA FilmsAreExact ==
  ASSUME FeedsTyped, FilmsOrder, Feeds!Settled, Feeds!OnFilms
  PROVE  Feeds!NothingStray /\ Feeds!NothingMissing /\ Feeds!DeletedAreGone
<1>1. /\ \A v, s : Kept(v, s) <=> s \in feed[v]
      /\ \A t : ~Has(st_queue, t)
      /\ scene.inOrder /\ FilmsShape /\ FilmsKept /\ Feeds!Stream = "films"
      /\ scene \in Scenes /\ feed \in [Readers -> SUBSET Feeds!Statuses]
      /\ posted \subseteq Feeds!Statuses
  BY SettledKept DEF FilmsOrder, FeedsTyped, Feeds!OnFilms
<1>2. \A v \in Readers : \A s \in feed[v] : v # Feeds!By[s] =>
        \E f \in Feeds!ThreadFilms(s) : <<v, f>> \in shelved
  BY <1>1, InThread DEF FilmsKept
<1>3. \A v \in Readers : \A s \in feed[v] \ {t \in Feeds!Statuses : Feeds!By[t] = v} :
        \E f \in Feeds!ThreadFilms(s) : <<v, f>> \in shelved
  BY <1>1, <1>2
<1>4. Feeds!NothingStray
  BY <1>1, <1>3 DEF Feeds!NothingStray
<1>5. Feeds!NothingMissing
  <2>1. ASSUME NEW s \in posted \ deleted, NEW v \in Feeds!Audience(s, TRUE) PROVE s \in feed[v]
    <3>1. v \in Readers /\ s \in Feeds!Statuses
      BY <1>1, AudienceHere
    <3>2. v # Feeds!By[s] /\ st_privacy[s] = "public" /\ <<v, Feeds!FilmOf[s]>> \in shelved
      BY <1>1, <2>1, <3>1, FilmsReads
    <3> QED
      BY <1>1, <2>1, <3>1, <3>2 DEF FilmsKept
  <2> QED
    BY <2>1 DEF Feeds!NothingMissing
<1> QED
  BY <1>1, <1>4, <1>5 DEF Feeds!DeletedAreGone, Feeds!OnHome

-----------------------------------------------------------------------------
StreamsInv == FeedsTyped /\ OnlyFits /\ Alone /\ HomeOrder /\ LocalOrder /\ FilmsOrder

LEMMA InitStreams == Feeds!Init => StreamsInv
BY InitFeedsTyped, InitFits, InitKept, InitHome, InitLocal, InitFilms DEF StreamsInv

LEMMA NextStreams == StreamsInv /\ [Feeds!Next]_(Feeds!vars) => StreamsInv'
<1> SUFFICES ASSUME StreamsInv, [Feeds!Next]_(Feeds!vars) PROVE StreamsInv'
  OBVIOUS
<1>1. FeedsTyped' /\ OnlyFits' /\ Alone'
  BY NextFeedsTyped, NextFits, NextAlone DEF StreamsInv
<1>2. HomeOrder' /\ LocalOrder' /\ FilmsOrder'
  BY NextHome, NextLocal, NextFilms DEF StreamsInv
<1> QED
  BY <1>1, <1>2 DEF StreamsInv

LEMMA StreamsExact == StreamsInv => Feeds!TypeOK /\ Feeds!OnlyEverFollowed /\ Feeds!FeedsAreExact
<1> SUFFICES ASSUME StreamsInv PROVE Feeds!TypeOK /\ Feeds!OnlyEverFollowed /\ Feeds!FeedsAreExact
  OBVIOUS
<1>1. Feeds!TypeOK /\ Feeds!OnlyEverFollowed
  BY TypedIsTypeOK, FitsAreFollowed DEF StreamsInv
<1>2. ASSUME Feeds!Settled PROVE Feeds!NothingStray /\ Feeds!NothingMissing /\ Feeds!DeletedAreGone
  <2>1. Feeds!OnHome \/ Feeds!OnFilms \/ Feeds!Stream = "local"
    BY SceneIs DEF StreamsInv, FeedsTyped, Feeds!OnHome, Feeds!OnFilms
  <2> QED
    BY <1>2, <2>1, HomeIsExact, FilmsAreExact, LocalIsExact DEF StreamsInv
<1> QED
  BY <1>1, <1>2 DEF Feeds!FeedsAreExact

\* A behaviour is one of feeds, or leaves them as they are.
PostsInv == feeding => StreamsInv

LEMMA FeedsWithin ==
  /\ MCInit => PostsInv
  /\ PostsInv /\ [MCNext]_postVars => PostsInv'
<1>1. MCInit => PostsInv
  BY InitStreams DEF MCInit, PostsInv
<1>2. ASSUME PostsInv, [MCNext]_postVars PROVE PostsInv'
  <2>1. feeding' = feeding
    BY <1>2 DEF MCNext, postVars
  <2>2. ASSUME feeding PROVE [Feeds!Next]_(Feeds!vars)
    <3>1. UNCHANGED postVars => UNCHANGED Feeds!vars
      BY DEF postVars, statusVars, Feeds!vars, Feeds!rows
    <3> QED
      BY <1>2, <2>2, <3>1 DEF MCNext
  <2> QED
    BY <1>2, <2>1, <2>2, NextStreams DEF PostsInv
<1> QED
  BY <1>1, <1>2

\* Statuses and feeds keep their types, and no stream is longer than
\* MAX_STREAM_LENGTH (settings.py:255), in whatever order tasks run.
THEOREM FeedTypesHold == MCSpec => []TypesOK
<1>1. PostsInv => TypesOK
  BY StreamsExact DEF PostsInv, TypesOK
<1> QED
  BY FeedsWithin, <1>1, PTL DEF MCSpec

\* In whatever order tasks run, no home feed has a status of an author whom its
\* user never followed; in order, and when all is done, feeds hold what they
\* should and nothing else, whatever was posted, deleted, followed, blocked or
\* shelved meanwhile (activitystreams.py:454, 63).
THEOREM FeedsExact == MCSpec => []FeedsAreExact
<1>1. PostsInv => FeedsAreExact
  BY StreamsExact DEF PostsInv, FeedsAreExact
<1> QED
  BY FeedsWithin, <1>1, PTL DEF MCSpec
=============================================================================
