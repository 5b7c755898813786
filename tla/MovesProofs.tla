----------------------------- MODULE MovesProofs -----------------------------
(***************************************************************************)
(* No server says of an account that it has moved to one that never agreed *)
(* to that: for any users, workers and requests, and any way of activities *)
(* to get lost, repeated or overtaken.                                     *)
(***************************************************************************)
EXTENDS Moves, FiniteSetTheorems, TLAPS

\* Lists of aliases in f, and moves in f, are of pairs in L.
Within(f, L)     == \A u \in Users : \A v \in f[u] : <<u, v>> \in L
AgreedIn(f, L)   == \A u \in Users : f[u] # Nowhere => <<f[u], u>> \in L
RowIn(m, L)      == <<m[3], m[2]>> \in L /\ <<m[2], m[3]>> \in L
JobIn(j, L) ==
  /\ j.op = "alias" => (j.copy # Nowhere => <<j.copy, j.user>> \in L)
  /\ j.op = "move" => (j.allowed => <<j.with, j.user>> \in L)

\* The activities about such pairs.
Good(L) ==
  {a \in Activities :
     /\ a.verb = "Update" => /\ \A v \in a.aka : <<a.user, v>> \in L
                             /\ a.movedTo # Nowhere => <<a.movedTo, a.user>> \in L
     /\ a.verb = "Move" => RowIn(a.row, L)}

Fitting(L) ==
  /\ Within(aka, L) /\ AgreedIn(movedTo, L)
  /\ \A w \in Workers : JobIn(job[w], L)
  /\ net \in Seq(Good(L))
  /\ Within(far.aka, L) /\ AgreedIn(far.movedTo, L)

\* What is known of a move, at home, on the way or far away, or is about to be
\* written, is of a pair in listed; and a list of aliases names such pairs too,
\* since it is what lets a move pass.
IInv == TypeOK /\ Fitting(listed)

LEMMA InitIInv == Init => IInv
<1> SUFFICES ASSUME Init PROVE IInv
  OBVIOUS
<1>1. \A S : <<>> \in Seq(S)
  OBVIOUS
<1>2. TypeOK
  BY <1>1, MovesAssumption DEF Init, TypeOK, Places, Jobs
<1>3. Fitting(listed)
  BY <1>1 DEF Init, Fitting, Within, AgreedIn, JobIn, Idle
<1> QED
  BY <1>2, <1>3 DEF IInv

-----------------------------------------------------------------------------
\* What was within a set is within a larger one.
LEMMA Larger ==
  ASSUME NEW L, NEW M, L \subseteq M, Fitting(L)
  PROVE  Fitting(M)
<1>1. Good(L) \subseteq Good(M)
  BY DEF Good, RowIn
<1>2. net \in Seq(Good(L)) /\ \A S, T : S \subseteq T => Seq(S) \subseteq Seq(T)
  BY DEF Fitting
<1>3. net \in Seq(Good(M))
  BY <1>1, <1>2
<1>4. Within(aka, M) /\ Within(far.aka, M)
  BY DEF Fitting, Within
<1>5. AgreedIn(movedTo, M) /\ AgreedIn(far.movedTo, M)
  BY DEF Fitting, AgreedIn
<1>6. \A w \in Workers : JobIn(job[w], M)
  BY DEF Fitting, JobIn
<1> QED
  BY <1>3, <1>4, <1>5, <1>6 DEF Fitting

LEMMA Removed ==
  ASSUME NEW S, NEW q \in Seq(S), NEW i \in DOMAIN q
  PROVE  RemoveAt(q, i) \in Seq(S) /\ q[i] \in S
<1>1. i \in 1 .. Len(q) /\ q[i] \in S
  OBVIOUS
<1>2. SubSeq(q, 1, i - 1) \in Seq(S) /\ SubSeq(q, i + 1, Len(q)) \in Seq(S)
  BY <1>1
<1> QED
  BY <1>1, <1>2 DEF RemoveAt

\* Activities that are put in a queue of good ones.
LEMMA Added ==
  ASSUME NEW S, NEW q \in Seq(S), NEW a \in S, NEW b \in S
  PROVE  Append(q, a) \in Seq(S) /\ q \o <<a, b>> \in Seq(S)
<1>1. <<a, b>> \in Seq(S)
  OBVIOUS
<1> QED
  BY <1>1

LEMMA GoodIsTyped ==
  ASSUME NEW L, UNCHANGED inOrder, NEW q \in Seq(Good(L))
  PROVE  q \in Seq(Activities')
<1>1. Good(L) \subseteq Activities'
  BY DEF Good, Activities, Rows
<1>2. \A S, T : S \subseteq T => Seq(S) \subseteq Seq(T)
  OBVIOUS
<1> QED
  BY <1>1, <1>2

\* The types of what a step sends of u.
LEMMA UpdateGood ==
  ASSUME NEW u \in Users, aka' \in [Users -> SUBSET Users], movedTo' \in [Users -> Places],
         NEW L, Within(aka', L), AgreedIn(movedTo', L)
  PROVE  Update(u) \in Good(L)
<1>1. Update(u) \in Activities
  BY DEF Update, Activities
<1>2. Update(u).verb = "Update" /\ Update(u).user = u /\ Update(u).aka = aka'[u]
      /\ Update(u).movedTo = movedTo'[u]
  BY DEF Update
<1>3. \A v \in aka'[u] : <<u, v>> \in L
  BY DEF Within
<1>4. movedTo'[u] # Nowhere => <<movedTo'[u], u>> \in L
  BY DEF AgreedIn
<1> QED
  BY <1>1, <1>2, <1>3, <1>4 DEF Good

-----------------------------------------------------------------------------
(* Steps *)

\* A request that begins writes down what it may do later.
LEMMA BeginsKeeps ==
  ASSUME IInv, UNCHANGED inOrder, NEW w \in Workers, NEW j \in Jobs', JobIn(j, listed),
         Begins(w, j)
  PROVE  IInv'
<1> USE MovesAssumption
<1>1. requests' \in 0 .. MaxRequests[inOrder]
  BY DEF IInv, TypeOK, Begins, Request
<1>2. job' \in [Workers -> Jobs']
  BY DEF IInv, TypeOK, Begins, Jobs
<1>3. TypeOK'
  BY <1>1, <1>2 DEF IInv, TypeOK, Begins, history, Rows, Activities
<1>4. \A x \in Workers : JobIn(job'[x], listed)
  BY DEF IInv, TypeOK, Fitting, Begins
<1>5. Fitting(listed)'
  BY <1>4 DEF IInv, Fitting, Begins, history, Good, Activities, Rows, Within, AgreedIn, JobIn, RowIn
<1> QED
  BY <1>3, <1>5 DEF IInv

LEMMA AliasBeginKeeps ==
  ASSUME IInv, UNCHANGED inOrder, NEW w \in Workers, NEW u \in Users, NEW v \in Users,
         AliasBegin(w, u, v)
  PROVE  IInv'
<1> DEFINE j == [op |-> "alias", user |-> u, with |-> v, copy |-> movedTo[u]]
<1>1. j \in Jobs'
  BY DEF IInv, TypeOK, Jobs
<1>2. JobIn(j, listed)
  BY DEF IInv, Fitting, AgreedIn, JobIn
<1> QED
  BY <1>1, <1>2, BeginsKeeps DEF AliasBegin

LEMMA MoveBeginKeeps ==
  ASSUME IInv, UNCHANGED inOrder, NEW w \in Workers, NEW u \in Users, NEW v \in Users,
         MoveBegin(w, u, v)
  PROVE  IInv'
<1> DEFINE t == Webfinger(v)
           j == [op |-> "move", id |-> requests', user |-> u, with |-> t, asked |-> v,
                 copy |-> movedTo[t], allowed |-> u \in aka[t]]
<1>1. t \in Users
  BY DEF IInv, TypeOK, Webfinger, Places
<1>2. requests' \in 1 .. MaxRequests[inOrder]
  BY MovesAssumption DEF IInv, TypeOK, MoveBegin, Begins, Request
<1>3. j \in Jobs'
  BY <1>1, <1>2 DEF IInv, TypeOK, Jobs
<1>4. JobIn(j, listed)
  BY <1>1 DEF IInv, Fitting, Within, JobIn
<1>5. Begins(w, j)
  BY DEF MoveBegin
<1> QED
  BY <1>3, <1>4, <1>5, BeginsKeeps

\* What a step of a home writes and sends, seen from all that it leaves alone.
LEMMA HomeKeeps ==
  ASSUME IInv, TypeOK', UNCHANGED <<inOrder, far>>, NEW L, L = listed', listed \subseteq L,
         Within(aka', L), AgreedIn(movedTo', L),
         \A w \in Workers : JobIn(job'[w], L),
         net' \in Seq(Good(L))
  PROVE  IInv'
<1>1. Good(L)' = Good(L)
  BY DEF Good, Activities, Rows
<1>2. Within(far.aka, L) /\ AgreedIn(far.movedTo, L)
  BY Larger DEF IInv, Fitting
<1>3. Fitting(listed)'
  BY <1>1, <1>2 DEF Fitting, Within, AgreedIn, Good, Activities, Rows, JobIn, RowIn
<1> QED
  BY <1>3 DEF IInv

\* A worker that has nothing more to do has nothing that could be wrong.
LEMMA EndsKeeps ==
  ASSUME IInv, NEW w \in Workers, Ends(w), UNCHANGED inOrder
  PROVE  /\ job' \in [Workers -> Jobs']
         /\ \A L : (\A x \in Workers : JobIn(job[x], L)) => \A x \in Workers : JobIn(job'[x], L)
BY DEF IInv, TypeOK, Ends, Jobs, Idle, JobIn

LEMMA AliasKeeps ==
  ASSUME IInv, UNCHANGED inOrder, NEW w \in Workers, Alias(w)
  PROVE  IInv'
<1> DEFINE u == job[w].user
           v == job[w].with
           L == listed \cup {<<u, v>>}
<1>1. u \in Users /\ v \in Users /\ job[w].copy \in Places /\ listed' = L
  BY DEF IInv, TypeOK, Alias, Jobs, Idle
<1>2. job[w].op = "alias" /\ Fitting(L)
  BY Larger DEF IInv, Alias
<1>3. aka' \in [Users -> SUBSET Users] /\ movedTo' \in [Users -> Places]
  BY <1>1 DEF IInv, TypeOK, Alias
<1>4. Within(aka', L)
  BY <1>1, <1>2 DEF IInv, TypeOK, Alias, Fitting, Within
<1>5. AgreedIn(movedTo', L)
  BY <1>1, <1>2 DEF IInv, TypeOK, Alias, Fitting, AgreedIn, JobIn
<1>6. \A x \in Workers : JobIn(job'[x], L)
  BY <1>2, EndsKeeps DEF Alias, Fitting
<1>7. net' \in Seq(Good(L))
  <2>1. Update(u) \in Good(L)
    BY <1>1, <1>3, <1>4, <1>5, UpdateGood
  <2> QED
    BY <1>2, <2>1, Added DEF Alias, Fitting
<1>8. TypeOK'
  <2>1. net' \in Seq(Activities')
    BY <1>7, GoodIsTyped
  <2>2. job' \in [Workers -> Jobs']
    BY EndsKeeps DEF Alias
  <2> QED
    BY <1>1, <1>3, <2>1, <2>2 DEF IInv, TypeOK, Alias, Rows
<1> QED
  BY <1>1, <1>4, <1>5, <1>6, <1>7, <1>8, HomeKeeps DEF Alias

LEMMA RemoveAliasKeeps ==
  ASSUME IInv, UNCHANGED inOrder, NEW u \in Users, NEW v \in Users, RemoveAlias(u, v)
  PROVE  IInv'
<1>1. aka' \in [Users -> SUBSET Users] /\ requests' \in 0 .. MaxRequests[inOrder]
  BY MovesAssumption DEF IInv, TypeOK, RemoveAlias, Request
<1>2. TypeOK'
  BY <1>1 DEF IInv, TypeOK, RemoveAlias, history, Rows, Jobs, Activities
<1>3. Within(aka', listed)
  BY DEF IInv, TypeOK, RemoveAlias, Fitting, Within
<1> QED
  BY <1>2, <1>3, HomeKeeps DEF IInv, Fitting, RemoveAlias, history

LEMMA MoveEndKeeps ==
  ASSUME IInv, UNCHANGED inOrder, NEW w \in Workers, MoveEnd(w)
  PROVE  IInv'
<1> DEFINE u == job[w].user
           t == job[w].with
           m == <<job[w].id, u, t>>
           L == listed \cup {<<u, t>>}
<1>1. /\ u \in Users /\ t \in Users /\ listed' = L
      /\ job[w].id \in 1 .. MaxRequests[inOrder] /\ job[w].allowed
  BY DEF IInv, TypeOK, MoveEnd, MayMove, Jobs, Idle
<1>2. job[w].op = "move" /\ Fitting(L)
  BY Larger DEF IInv, MoveEnd
<1>3. <<t, u>> \in L
  BY <1>1, <1>2 DEF Fitting, JobIn
<1>4. aka' \in [Users -> SUBSET Users] /\ movedTo' \in [Users -> Places]
  BY <1>1 DEF IInv, TypeOK, MoveEnd, Places
<1>5. Within(aka', L)
  BY <1>1, <1>2 DEF IInv, TypeOK, MoveEnd, Fitting, Within
<1>6. AgreedIn(movedTo', L)
  BY <1>1, <1>2, <1>3 DEF IInv, TypeOK, MoveEnd, Fitting, AgreedIn
<1>7. \A x \in Workers : JobIn(job'[x], L)
  BY <1>2, EndsKeeps DEF MoveEnd, Fitting
<1>8. net' \in Seq(Good(L))
  <2>1. Update(u) \in Good(L)
    BY <1>1, <1>4, <1>5, <1>6, UpdateGood
  <2>2. Move(m) \in Good(L)
    BY <1>1, <1>3 DEF Move, Good, Activities, Rows, RowIn
  <2> QED
    BY <1>2, <2>1, <2>2, Added DEF MoveEnd, Fitting
<1>9. TypeOK'
  <2>1. net' \in Seq(Activities')
    BY <1>8, GoodIsTyped
  <2>2. job' \in [Workers -> Jobs']
    BY EndsKeeps DEF MoveEnd
  <2>3. moves' \subseteq Rows'
    BY <1>1 DEF IInv, TypeOK, MoveEnd, Rows
  <2> QED
    BY <1>1, <1>4, <2>1, <2>2, <2>3 DEF IInv, TypeOK, MoveEnd, Rows
<1> QED
  BY <1>1, <1>5, <1>6, <1>7, <1>8, <1>9, HomeKeeps DEF MoveEnd

LEMMA DeniedKeeps ==
  ASSUME IInv, UNCHANGED inOrder, NEW w \in Workers, Denied(w)
  PROVE  IInv'
<1>1. TypeOK'
  BY EndsKeeps DEF IInv, TypeOK, Denied, history, Rows, Activities
<1>2. \A x \in Workers : JobIn(job'[x], listed)
  BY EndsKeeps DEF IInv, Fitting, Denied
<1> QED
  BY <1>1, <1>2, HomeKeeps DEF IInv, Fitting, Denied, history

LEMMA UnmoveKeeps ==
  ASSUME IInv, UNCHANGED inOrder, NEW u \in Users, NEW m \in moves, Unmove(u, m)
  PROVE  IInv'
<1>1. movedTo' \in [Users -> Places] /\ aka' \in [Users -> SUBSET Users] /\ m \in Rows
  BY DEF IInv, TypeOK, Unmove, Places
<1>2. Within(aka', listed)
  BY DEF IInv, Fitting, Unmove
<1>3. AgreedIn(movedTo', listed)
  BY DEF IInv, TypeOK, Fitting, Unmove, AgreedIn
<1>4. net' \in Seq(Good(listed))
  <2>1. Update(u) \in Good(listed)
    BY <1>1, <1>2, <1>3, UpdateGood
  <2>2. Undo(m) \in Good(listed)
    BY <1>1 DEF Undo, Good, Activities
  <2> QED
    BY <2>1, <2>2, Added DEF IInv, Fitting, Unmove, Farewell
<1>5. TypeOK'
  <2>1. net' \in Seq(Activities')
    BY <1>4, GoodIsTyped
  <2>2. requests' \in 0 .. MaxRequests[inOrder]
    BY MovesAssumption DEF IInv, TypeOK, Unmove, Request
  <2> QED
    BY <1>1, <2>1, <2>2 DEF IInv, TypeOK, Unmove, Rows, Jobs
<1> QED
  BY <1>2, <1>3, <1>4, <1>5, HomeKeeps DEF IInv, Fitting, Unmove

\* The followers' server: an Update brings what is right of its user, a Move what
\* is right of its row, and an Undo takes away.
LEMMA AfterKeeps ==
  ASSUME IInv, NEW a \in Good(listed)
  PROVE  /\ After(a, far) \in [aka : [Users -> SUBSET Users], movedTo : [Users -> Places],
                               moves : SUBSET Rows]
         /\ Within(After(a, far).aka, listed)
         /\ AgreedIn(After(a, far).movedTo, listed)
<1> DEFINE Fars == [aka : [Users -> SUBSET Users], movedTo : [Users -> Places],
                    moves : SUBSET Rows]
           f == far
<1>1. f \in Fars /\ Within(f.aka, listed) /\ AgreedIn(f.movedTo, listed)
  BY DEF IInv, TypeOK, Fitting
<1>2. a \in Activities
  BY DEF Good
<1> HIDE DEF f
<1>3. CASE a.verb = "Update"
  <2>1. /\ a.user \in Users /\ a.aka \in SUBSET Users /\ a.movedTo \in Places
        /\ \A v \in a.aka : <<a.user, v>> \in listed
        /\ a.movedTo # Nowhere => <<a.movedTo, a.user>> \in listed
    BY <1>2, <1>3 DEF Activities, Good
  <2> DEFINE A == [f.aka EXCEPT ![a.user] = a.aka]
             P == [f.movedTo EXCEPT ![a.user] = IF a.movedTo = Nowhere THEN @ ELSE a.movedTo]
  <2>2. /\ Updated(a, f).aka = A /\ Updated(a, f).movedTo = P
        /\ Updated(a, f) = [aka |-> A, movedTo |-> P, moves |-> f.moves]
    BY <1>1 DEF Updated
  <2>3. A \in [Users -> SUBSET Users] /\ P \in [Users -> Places]
    BY <1>1, <2>1
  <2>4. Within(A, listed)
    BY <1>1, <2>1 DEF Within
  <2>5. AgreedIn(P, listed)
    BY <1>1, <2>1 DEF AgreedIn
  <2>6. Updated(a, f) \in Fars
    BY <1>1, <2>2, <2>3
  <2>7. After(a, f) = Updated(a, f)
    BY <1>3 DEF After
  <2> QED
    BY <2>2, <2>4, <2>5, <2>6, <2>7 DEF f
<1>4. CASE a.verb = "Move"
  <2> DEFINE m == a.row
  <2>1. m \in Rows /\ RowIn(m, listed)
    BY <1>2, <1>4 DEF Activities, Good
  <2>2. m[2] \in Users /\ m[3] \in Users /\ m[3] \in Places
    BY <2>1 DEF Rows, Places
  <2> HIDE DEF m
  <2>3. Moved(m, f) \in Fars
    BY <1>1, <2>1, <2>2 DEF Moved
  <2>4. Within(Moved(m, f).aka, listed)
    BY <1>1, <2>1, <2>2 DEF Moved, Within, RowIn
  <2>5. AgreedIn(Moved(m, f).movedTo, listed)
    BY <1>1, <2>1, <2>2 DEF Moved, AgreedIn, RowIn
  <2> QED
    BY <1>4, <2>3, <2>4, <2>5 DEF After, f, m
<1>5. CASE a.verb = "Undo"
  <2>1. After(a, f) = [f EXCEPT !.moves = @ \ {a.row}]
    BY <1>5 DEF After
  <2> QED
    BY <1>1, <2>1 DEF f, Within, AgreedIn
<1> QED
  BY <1>2, <1>3, <1>4, <1>5 DEF Activities

LEMMA DeliverKeeps ==
  ASSUME IInv, UNCHANGED inOrder, NEW i \in DOMAIN net, NEW repeated \in BOOLEAN,
         Deliver(i, repeated)
  PROVE  IInv'
<1>1. net[i] \in Good(listed) /\ net' \in Seq(Good(listed))
  BY Removed DEF IInv, Fitting, Deliver
<1>2. /\ far' \in [aka : [Users -> SUBSET Users], movedTo : [Users -> Places], moves : SUBSET Rows]
      /\ Within(far'.aka, listed) /\ AgreedIn(far'.movedTo, listed)
  BY <1>1, AfterKeeps DEF Deliver
<1>3. TypeOK'
  BY <1>1, <1>2, GoodIsTyped DEF IInv, TypeOK, Deliver, history, Rows, Jobs
<1>4. Good(listed)' = Good(listed)
  BY DEF Deliver, history, Good, Activities, Rows
<1>5. Fitting(listed)'
  BY <1>1, <1>2, <1>4 DEF IInv, Fitting, Deliver, history, Within, AgreedIn, JobIn
<1> QED
  BY <1>3, <1>5 DEF IInv

LEMMA LoseKeeps ==
  ASSUME IInv, UNCHANGED inOrder, NEW i \in DOMAIN net, Lose(i)
  PROVE  IInv'
<1>1. net' \in Seq(Good(listed))
  BY Removed DEF IInv, Fitting, Lose
<1>2. TypeOK'
  BY <1>1, GoodIsTyped DEF IInv, TypeOK, Lose, history, Rows, Jobs
<1> QED
  BY <1>1, <1>2, HomeKeeps DEF IInv, Fitting, Lose, history

-----------------------------------------------------------------------------
LEMMA NextIInv == IInv /\ [Next]_vars => IInv'
<1> SUFFICES ASSUME IInv, [Next]_vars PROVE IInv'
  OBVIOUS
<1>1. CASE UNCHANGED vars
  BY <1>1 DEF IInv, TypeOK, Fitting, vars, history, Rows, Jobs, Activities, Good,
              Within, AgreedIn, JobIn, RowIn
<1>2. CASE Next
  <2>1. UNCHANGED inOrder
    BY <1>2 DEF Next
  <2>2. ASSUME NEW w \in Workers, Alias(w) PROVE IInv'
    BY <2>1, <2>2, AliasKeeps
  <2>3. ASSUME NEW w \in Workers, MoveEnd(w) PROVE IInv'
    BY <2>1, <2>3, MoveEndKeeps
  <2>4. ASSUME NEW w \in Workers, Denied(w) PROVE IInv'
    BY <2>1, <2>4, DeniedKeeps
  <2>5. ASSUME NEW w \in Workers, NEW u \in Users, NEW v \in Users, AliasBegin(w, u, v)
        PROVE IInv'
    BY <2>1, <2>5, AliasBeginKeeps
  <2>6. ASSUME NEW w \in Workers, NEW u \in Users, NEW v \in Users, MoveBegin(w, u, v)
        PROVE IInv'
    BY <2>1, <2>6, MoveBeginKeeps
  <2>7. ASSUME NEW u \in Users, NEW v \in Users, RemoveAlias(u, v) PROVE IInv'
    BY <2>1, <2>7, RemoveAliasKeeps
  <2>8. ASSUME NEW u \in Users, NEW m \in moves, Unmove(u, m) PROVE IInv'
    BY <2>1, <2>8, UnmoveKeeps
  <2>9. ASSUME NEW i \in DOMAIN net, NEW repeated \in BOOLEAN, Deliver(i, repeated)
        PROVE IInv'
    BY <2>1, <2>9, DeliverKeeps
  <2>10. ASSUME NEW i \in DOMAIN net, Lose(i) PROVE IInv'
    BY <2>1, <2>10, LoseKeeps
  <2> QED
    BY <1>2, <2>2, <2>3, <2>4, <2>5, <2>6, <2>7, <2>8, <2>9, <2>10 DEF Next
<1> QED
  BY <1>1, <1>2

LEMMA Invariance == Spec => []IInv
<1> QED
  BY InitIInv, NextIInv, PTL DEF Spec

\* The rows, requests and activities of a move are of accounts that there are.
THEOREM TypeCorrect == Spec => []TypeOK
<1>1. IInv => TypeOK
  BY DEF IInv
<1> QED
  BY <1>1, Invariance, PTL

\* A check that is made once, on what may have changed since, and that the
\* followers' server does not make of an Update, still keeps every server from
\* naming an account that never agreed: agreement is not taken back.
THEOREM MovesAreAgreed == Spec => []OnlyAgreedMoves
<1>1. IInv => OnlyAgreedMoves
  BY DEF IInv, Fitting, AgreedIn, OnlyAgreedMoves, Agreed
<1> QED
  BY <1>1, Invariance, PTL

-----------------------------------------------------------------------------
(* Who has moved can come back, is found and is where followers think       *)

\* A user has a row for where they have moved, and no other.
OneRow(u) ==
  /\ \A m, n \in RowsOf(u) : m = n
  /\ \A m \in RowsOf(u) : movedTo[u] = m[3]
  /\ movedTo[u] # Nowhere => RowsOf(u) # {}
RowsFit == \A u \in Users \ (again \cup stale) : OneRow(u)

\* Whoever moves to the account that they asked for has found that it has not
\* moved, so that nobody in a circle could have moved there last.
Odd       == bent \cup raced \cup stale # {} \/ \E u \in Users : <<u, u>> \in listed
Circle(S) == S # {} /\ \A u \in S : movedTo[u] \in S
FoundHome(j) == j.op = "move" /\ j.with = j.asked => j.copy = Nowhere
NoCircle ==
  /\ \A S \in SUBSET Users : ~Circle(S)
  /\ \A w \in Workers : FoundHome(job[w])

\* Where an activity will put u on the followers' server, if it says so at all.
Speaks(a, u) == \/ a.verb = "Update" /\ a.user = u /\ a.movedTo # Nowhere
                \/ a.verb = "Move" /\ a.row[2] = u
Says(a)      == IF a.verb = "Update" THEN a.movedTo ELSE a.row[3]

\* The followers' server knows where u is when the activities q have arrived: an
\* Update of it, or what is there already, is not spoken against by any later.
WillKnow(u, q, there, here) ==
  \/ there = here /\ \A j \in DOMAIN q : Speaks(q[j], u) => Says(q[j]) = here
  \/ \E i \in DOMAIN q :
       /\ q[i].verb = "Update" /\ Speaks(q[i], u)
       /\ \A j \in DOMAIN q : i <= j /\ Speaks(q[j], u) => Says(q[j]) = here

\* Who is told of a row that has gone will be told that it has.
WillForget(q, there, here) ==
  /\ \A m \in there : m \in here \/ \E i \in DOMAIN q : q[i] = Undo(m)
  /\ \A j \in DOMAIN q : q[j].verb = "Move" =>
       q[j].row \in here \/ \E i \in DOMAIN q : j < i /\ q[i] = Undo(q[j].row)

AllTold ==
  /\ WillForget(net, far.moves, moves)
  /\ \A u \in Users \ (back \cup stale) : WillKnow(u, net, far.movedTo[u], movedTo[u])

OInv == IInv /\ RowsFit /\ (~Odd => NoCircle) /\ (inOrder => AllTold)

\* The queue without its first activity, and with more at its end.
Extends(r, q) == Len(q) <= Len(r) /\ \A i \in DOMAIN q : r[i] = q[i]

LEMMA Popped ==
  ASSUME NEW S, NEW q \in Seq(S), 1 \in DOMAIN q
  PROVE  /\ RemoveAt(q, 1) \in Seq(S) /\ Len(RemoveAt(q, 1)) = Len(q) - 1
         /\ \A i \in 1 .. Len(q) - 1 : RemoveAt(q, 1)[i] = q[i + 1]
<1>1. RemoveAt(q, 1) \in Seq(S)
  BY Removed
<1>2. Len(q) \in Nat /\ Len(q) >= 1
  OBVIOUS
<1>3. SubSeq(q, 1, 0) = <<>>
  OBVIOUS
<1>4. SubSeq(q, 2, Len(q)) \in Seq(S) /\ Len(SubSeq(q, 2, Len(q))) = Len(q) - 1
  <2>1. \A i \in 2 .. Len(q) : q[i] \in S
    OBVIOUS
  <2>2. SubSeq(q, 2, Len(q)) \in Seq(S)
    BY <1>2, <2>1
  <2>3. Len(SubSeq(q, 2, Len(q))) = Len(q) - 1
    BY <1>2
  <2> QED
    BY <2>2, <2>3
<1>5. \A i \in 1 .. Len(q) - 1 : SubSeq(q, 2, Len(q))[i] = q[i + 1]
  BY <1>2
<1>6. RemoveAt(q, 1) = SubSeq(q, 1, 0) \o SubSeq(q, 2, Len(q))
  BY DEF RemoveAt
<1>7. RemoveAt(q, 1) = SubSeq(q, 2, Len(q))
  BY <1>3, <1>4, <1>6
<1> QED
  BY <1>1, <1>4, <1>5, <1>7

LEMMA LongerByOne ==
  ASSUME NEW S, NEW q \in Seq(S), NEW a \in S
  PROVE  /\ Extends(Append(q, a), q) /\ Len(Append(q, a)) = Len(q) + 1
         /\ Append(q, a)[Len(q) + 1] = a
BY DEF Extends

LEMMA LongerByTwo ==
  ASSUME NEW S, NEW q \in Seq(S), NEW a \in S, NEW b \in S
  PROVE  /\ Extends(q \o <<a, b>>, q) /\ Len(q \o <<a, b>>) = Len(q) + 2
         /\ (q \o <<a, b>>)[Len(q) + 1] = a /\ (q \o <<a, b>>)[Len(q) + 2] = b
<1>1. <<a, b>> \in Seq(S) /\ Len(<<a, b>>) = 2 /\ <<a, b>>[1] = a /\ <<a, b>>[2] = b
  OBVIOUS
<1>2. Len(q) \in Nat /\ DOMAIN q = 1 .. Len(q)
  OBVIOUS
<1>3. Len(q \o <<a, b>>) = Len(q) + 2
  BY <1>1, <1>2
<1>4. \A i \in 1 .. Len(q) : (q \o <<a, b>>)[i] = q[i]
  BY <1>1, <1>2
<1>5. (q \o <<a, b>>)[Len(q) + 1] = a /\ (q \o <<a, b>>)[Len(q) + 2] = b
  BY <1>1, <1>2
<1> QED
  BY <1>2, <1>3, <1>4, <1>5 DEF Extends

\* The first activity does what it says of u, a Move perhaps nothing.
LEMMA PopKnows ==
  ASSUME NEW S, NEW q \in Seq(S), 1 \in DOMAIN q, NEW u, NEW there, NEW here, NEW next,
         WillKnow(u, q, there, here),
         ~Speaks(q[1], u) => next = there,
         Speaks(q[1], u) => next = Says(q[1]) \/ (next = there /\ q[1].verb # "Update")
  PROVE  WillKnow(u, RemoveAt(q, 1), next, here)
<1> DEFINE r == RemoveAt(q, 1)
<1>1. /\ DOMAIN r = 1 .. Len(q) - 1 /\ DOMAIN q = 1 .. Len(q) /\ Len(q) \in Nat
      /\ \A i \in 1 .. Len(q) - 1 : r[i] = q[i + 1]
  BY Popped
<1> HIDE DEF r
<1>2. \A j \in DOMAIN r : j + 1 \in DOMAIN q /\ r[j] = q[j + 1]
  BY <1>1
<1>3. CASE there = here /\ \A j \in DOMAIN q : Speaks(q[j], u) => Says(q[j]) = here
  BY <1>2, <1>3 DEF WillKnow, r
<1>4. ASSUME NEW i \in DOMAIN q, q[i].verb = "Update" /\ Speaks(q[i], u),
             \A j \in DOMAIN q : i <= j /\ Speaks(q[j], u) => Says(q[j]) = here
      PROVE  WillKnow(u, r, next, here)
  <2>1. CASE i = 1
    <3>1. next = here
      BY <1>1, <1>4, <2>1
    <3>2. \A j \in DOMAIN r : Speaks(r[j], u) => Says(r[j]) = here
      BY <1>1, <1>2, <1>4, <2>1
    <3> QED
      BY <3>1, <3>2 DEF WillKnow
  <2>2. CASE i # 1
    <3>1. i - 1 \in DOMAIN r /\ r[i - 1] = q[i]
      BY <1>1, <2>2
    <3>2. \A j \in DOMAIN r : i - 1 <= j /\ Speaks(r[j], u) => Says(r[j]) = here
      BY <1>1, <1>2, <1>4
    <3> QED
      BY <1>4, <3>1, <3>2 DEF WillKnow
  <2> QED
    BY <2>1, <2>2
<1> QED
  BY <1>3, <1>4 DEF WillKnow, r

\* What is sent later says the same of u, or nothing.
LEMMA AddKnows ==
  ASSUME NEW S, NEW q \in Seq(S), NEW r \in Seq(S), Extends(r, q), NEW u, NEW there, NEW here,
         WillKnow(u, q, there, here),
         \A j \in DOMAIN r \ DOMAIN q : Speaks(r[j], u) => Says(r[j]) = here
  PROVE  WillKnow(u, r, there, here)
<1>1. /\ DOMAIN q = 1 .. Len(q) /\ DOMAIN r = 1 .. Len(r) /\ Len(q) \in Nat /\ Len(r) \in Nat
      /\ Len(q) <= Len(r) /\ \A i \in DOMAIN q : i \in DOMAIN r /\ r[i] = q[i]
  BY DEF Extends
<1>2. CASE there = here /\ \A j \in DOMAIN q : Speaks(q[j], u) => Says(q[j]) = here
  BY <1>1, <1>2 DEF WillKnow
<1>3. ASSUME NEW i \in DOMAIN q, q[i].verb = "Update" /\ Speaks(q[i], u),
             \A j \in DOMAIN q : i <= j /\ Speaks(q[j], u) => Says(q[j]) = here
      PROVE  WillKnow(u, r, there, here)
  <2>1. i \in DOMAIN r /\ r[i] = q[i]
    BY <1>1
  <2>2. \A j \in DOMAIN r : i <= j /\ Speaks(r[j], u) => Says(r[j]) = here
    BY <1>1, <1>3
  <2> QED
    BY <1>3, <2>1, <2>2 DEF WillKnow
<1> QED
  BY <1>2, <1>3 DEF WillKnow

\* An Update at the end, and a Move after it, say where u is.
LEMMA NewKnows ==
  ASSUME NEW S, NEW r \in Seq(S), NEW i \in DOMAIN r, NEW u, NEW there, NEW here,
         r[i].verb = "Update" /\ Speaks(r[i], u),
         \A j \in DOMAIN r : i <= j => Says(r[j]) = here
  PROVE  WillKnow(u, r, there, here)
BY DEF WillKnow

LEMMA PopForgets ==
  ASSUME NEW S, NEW q \in Seq(S), 1 \in DOMAIN q, NEW there, NEW here, NEW next,
         WillForget(q, there, here),
         q[1].verb \in {"Update", "Move", "Undo"},
         q[1].verb = "Update" => next = there,
         q[1].verb = "Move" => next \subseteq there \cup {q[1].row},
         q[1].verb = "Undo" => next = there \ {q[1].row}
  PROVE  WillForget(RemoveAt(q, 1), next, here)
<1> DEFINE r == RemoveAt(q, 1)
<1>1. /\ DOMAIN r = 1 .. Len(q) - 1 /\ DOMAIN q = 1 .. Len(q) /\ Len(q) \in Nat
      /\ \A i \in 1 .. Len(q) - 1 : r[i] = q[i + 1]
  BY Popped
<1> HIDE DEF r
<1>2. \A j \in DOMAIN r : j + 1 \in DOMAIN q /\ r[j] = q[j + 1]
  BY <1>1
<1>3. \A i \in DOMAIN q : i # 1 => i - 1 \in DOMAIN r /\ r[i - 1] = q[i]
  BY <1>1
<1>4. ASSUME NEW m \in next PROVE m \in here \/ \E i \in DOMAIN r : r[i] = Undo(m)
  <2>1. CASE m \in there
    <3>1. q[1] # Undo(m)
      BY <1>4, <2>1 DEF Undo
    <3> QED
      BY <1>3, <2>1, <3>1 DEF WillForget
  <2>2. CASE m \notin there
    <3>1. q[1].verb = "Move" /\ m = q[1].row
      BY <1>4, <2>2
    <3>2. m \in here \/ \E i \in DOMAIN q : 1 < i /\ q[i] = Undo(m)
      BY <3>1 DEF WillForget
    <3> QED
      BY <1>1, <1>3, <3>2
  <2> QED
    BY <2>1, <2>2
<1>5. ASSUME NEW j \in DOMAIN r, r[j].verb = "Move"
      PROVE  r[j].row \in here \/ \E i \in DOMAIN r : j < i /\ r[i] = Undo(r[j].row)
  <2>1. j + 1 \in DOMAIN q /\ q[j + 1] = r[j]
    BY <1>2
  <2>2. r[j].row \in here \/ \E i \in DOMAIN q : j + 1 < i /\ q[i] = Undo(r[j].row)
    BY <1>5, <2>1 DEF WillForget
  <2>3. ASSUME NEW i \in DOMAIN q, j + 1 < i PROVE i - 1 \in DOMAIN r /\ j < i - 1 /\ r[i - 1] = q[i]
    BY <1>1, <2>3
  <2> QED
    BY <2>2, <2>3
<1> QED
  BY <1>4, <1>5 DEF WillForget, r

\* What is sent later of a move that there is, or that has just gone with an Undo.
LEMMA AddForgets ==
  ASSUME NEW S, NEW q \in Seq(S), NEW r \in Seq(S), Extends(r, q), NEW there, NEW here, NEW next,
         WillForget(q, there, here),
         \A m \in here \ next : \E i \in DOMAIN r \ DOMAIN q : r[i] = Undo(m),
         \A j \in DOMAIN r \ DOMAIN q : r[j].verb = "Move" => r[j].row \in next
  PROVE  WillForget(r, there, next)
<1>1. /\ DOMAIN q = 1 .. Len(q) /\ DOMAIN r = 1 .. Len(r) /\ Len(q) \in Nat /\ Len(r) \in Nat
      /\ Len(q) <= Len(r) /\ \A i \in DOMAIN q : i \in DOMAIN r /\ r[i] = q[i]
  BY DEF Extends
<1>2. ASSUME NEW m \in there PROVE m \in next \/ \E i \in DOMAIN r : r[i] = Undo(m)
  BY <1>1 DEF WillForget
<1>3. ASSUME NEW j \in DOMAIN r, r[j].verb = "Move"
      PROVE  r[j].row \in next \/ \E i \in DOMAIN r : j < i /\ r[i] = Undo(r[j].row)
  <2>1. CASE j \in DOMAIN q
    <3>1. q[j].verb = "Move" /\ r[j].row = q[j].row
      BY <1>1, <1>3, <2>1
    <3>2. q[j].row \in here \/ \E i \in DOMAIN q : j < i /\ q[i] = Undo(q[j].row)
      BY <2>1, <3>1 DEF WillForget
    <3>3. \A i \in DOMAIN r \ DOMAIN q : j < i
      BY <1>1, <2>1
    <3> QED
      BY <1>1, <3>1, <3>2, <3>3
  <2> QED
    BY <1>3, <2>1
<1> QED
  BY <1>2, <1>3 DEF WillForget

-----------------------------------------------------------------------------
(* Steps, seen from the followers' server *)

\* Nothing is sent or received, and nobody moves.
LEMMA NothingTold ==
  ASSUME AllTold, UNCHANGED <<net, far, moves, movedTo, back, stale>>
  PROVE  AllTold'
BY DEF AllTold, WillKnow, WillForget, Speaks, Says, Undo

LEMMA AliasTold ==
  ASSUME IInv, IInv', UNCHANGED inOrder, AllTold, NEW w \in Workers, Alias(w)
  PROVE  AllTold'
<1> DEFINE u == job[w].user
<1>1. /\ u \in Users /\ net' = Append(net, Update(u)) /\ UNCHANGED <<far, moves, back>>
      /\ movedTo' = [movedTo EXCEPT ![u] = job[w].copy]
      /\ stale' = IF movedTo[u] = job[w].copy THEN stale ELSE stale \cup {u}
  BY DEF IInv, TypeOK, Alias, Jobs, Idle
<1>2. net \in Seq(Activities) /\ net' \in Seq(Activities) /\ Activities' = Activities
  BY DEF IInv, TypeOK, Activities, Rows
<1>3. Update(u) \in Activities
  BY <1>1 DEF IInv, TypeOK, Update, Activities
<1>4. Extends(net', net) /\ Len(net') = Len(net) + 1 /\ net'[Len(net) + 1] = Update(u)
  BY <1>1, <1>2, <1>3, LongerByOne
<1>5. DOMAIN net' \ DOMAIN net = {Len(net) + 1}
  BY <1>2, <1>4
<1>6. /\ Update(u).verb = "Update" /\ Update(u).user = u /\ Update(u).movedTo = movedTo'[u]
      /\ \A x : Speaks(Update(u), x) => x = u /\ Says(Update(u)) = movedTo'[u]
  BY DEF Update, Speaks, Says
<1>7. WillForget(net', far.moves, moves)
  BY <1>2, <1>4, <1>5, <1>6, AddForgets DEF AllTold
<1>8. ASSUME NEW x \in Users \ (back' \cup stale')
      PROVE  WillKnow(x, net', far.movedTo[x], movedTo'[x])
  <2>1. movedTo'[x] = movedTo[x] /\ x \notin back \cup stale
    BY <1>1, <1>8 DEF IInv, TypeOK
  <2>2. \A j \in DOMAIN net' \ DOMAIN net : Speaks(net'[j], x) => Says(net'[j]) = movedTo[x]
    BY <1>4, <1>5, <1>6, <2>1
  <2> QED
    BY <1>2, <1>4, <2>1, <2>2, AddKnows DEF AllTold
<1> QED
  BY <1>1, <1>7, <1>8 DEF AllTold, WillKnow, WillForget, Speaks, Says, Undo

LEMMA MoveEndTold ==
  ASSUME IInv, IInv', UNCHANGED inOrder, AllTold, NEW w \in Workers, MoveEnd(w)
  PROVE  AllTold'
<1> DEFINE u == job[w].user
           t == job[w].with
           m == <<job[w].id, u, t>>
<1>1. /\ u \in Users /\ t \in Users /\ net' = net \o <<Update(u), Move(m)>>
      /\ UNCHANGED <<far, back, stale>> /\ moves' = moves \cup {m} /\ m \in Rows
      /\ movedTo' = [movedTo EXCEPT ![u] = t]
  BY DEF IInv, TypeOK, MoveEnd, MayMove, Jobs, Idle, Rows
<1>2. net \in Seq(Activities) /\ net' \in Seq(Activities) /\ Activities' = Activities
  BY DEF IInv, TypeOK, Activities, Rows
<1>3. Update(u) \in Activities /\ Move(m) \in Activities
  BY <1>1 DEF IInv, TypeOK, Update, Move, Activities
<1>4. /\ Extends(net', net) /\ Len(net') = Len(net) + 2
      /\ net'[Len(net) + 1] = Update(u) /\ net'[Len(net) + 2] = Move(m)
  BY <1>1, <1>2, <1>3, LongerByTwo
<1>5. DOMAIN net' \ DOMAIN net = {Len(net) + 1, Len(net) + 2} /\ Len(net) \in Nat
  BY <1>2, <1>4
<1>6. /\ Update(u).verb = "Update" /\ Move(m).verb = "Move" /\ Move(m).row = m
      /\ \A x : Speaks(Update(u), x) \/ Speaks(Move(m), x) => x = u
      /\ Says(Update(u)) = movedTo'[u] /\ Says(Move(m)) = t
  BY <1>1 DEF Update, Move, Speaks, Says
<1>7. movedTo'[u] = t /\ Speaks(Update(u), u)
  BY <1>1, MovesAssumption DEF IInv, TypeOK, Speaks, Update
<1>8. WillForget(net', far.moves, moves')
  <2>1. moves \ moves' = {} /\ m \in moves'
    BY <1>1
  <2>2. \A j \in DOMAIN net' \ DOMAIN net : net'[j].verb = "Move" => net'[j].row \in moves'
    BY <1>4, <1>5, <1>6, <2>1
  <2> QED
    BY <1>2, <1>4, <2>1, <2>2, AddForgets DEF AllTold
<1>9. ASSUME NEW x \in Users \ (back \cup stale)
      PROVE  WillKnow(x, net', far.movedTo[x], movedTo'[x])
  <2>1. CASE x = u
    <3>1. Len(net) + 1 \in DOMAIN net' /\ \A j \in DOMAIN net' : Len(net) + 1 <= j => Says(net'[j]) = t
      BY <1>2, <1>4, <1>5, <1>6, <1>7
    <3> QED
      BY <1>2, <1>4, <1>6, <1>7, <2>1, <3>1, NewKnows
  <2>2. CASE x # u
    <3>1. movedTo'[x] = movedTo[x]
      BY <1>1, <1>9, <2>2 DEF IInv, TypeOK
    <3>2. \A j \in DOMAIN net' \ DOMAIN net : ~Speaks(net'[j], x)
      BY <1>4, <1>5, <1>6, <2>2
    <3> QED
      BY <1>2, <1>4, <3>1, <3>2, AddKnows DEF AllTold
  <2> QED
    BY <2>1, <2>2
<1> QED
  BY <1>1, <1>8, <1>9 DEF AllTold, WillKnow, WillForget, Speaks, Says, Undo

LEMMA UnmoveTold ==
  ASSUME IInv, IInv', UNCHANGED inOrder, AllTold, NEW u \in Users, NEW m \in moves, Unmove(u, m)
  PROVE  AllTold'
<1>1. /\ net' = net \o <<Undo(m), Update(u)>> /\ UNCHANGED <<far, stale>>
      /\ moves' = moves \ {m} /\ m \in Rows /\ back' = back \cup {u}
      /\ movedTo' = [movedTo EXCEPT ![u] = Nowhere]
  BY DEF IInv, TypeOK, Unmove, Farewell
<1>2. net \in Seq(Activities) /\ net' \in Seq(Activities) /\ Activities' = Activities
  BY DEF IInv, TypeOK, Activities, Rows
<1>3. Update(u) \in Activities /\ Undo(m) \in Activities
  BY <1>1 DEF IInv, TypeOK, Update, Undo, Activities
<1>4. /\ Extends(net', net) /\ Len(net') = Len(net) + 2
      /\ net'[Len(net) + 1] = Undo(m) /\ net'[Len(net) + 2] = Update(u)
  BY <1>1, <1>2, <1>3, LongerByTwo
<1>5. DOMAIN net' \ DOMAIN net = {Len(net) + 1, Len(net) + 2} /\ Len(net) \in Nat
  BY <1>2, <1>4
<1>6. /\ Update(u).verb = "Update" /\ Undo(m).verb = "Undo"
      /\ \A x : Speaks(Update(u), x) => x = u
      /\ \A x : ~Speaks(Undo(m), x)
  BY DEF Update, Undo, Speaks
<1>7. WillForget(net', far.moves, moves')
  <2>1. moves \ moves' = {m} /\ net'[Len(net) + 1] = Undo(m)
    BY <1>1, <1>4
  <2>2. \A j \in DOMAIN net' \ DOMAIN net : net'[j].verb # "Move"
    BY <1>4, <1>5, <1>6
  <2> QED
    BY <1>2, <1>4, <1>5, <2>1, <2>2, AddForgets DEF AllTold
<1>8. ASSUME NEW x \in Users \ (back' \cup stale)
      PROVE  WillKnow(x, net', far.movedTo[x], movedTo'[x])
  <2>1. x # u /\ movedTo'[x] = movedTo[x] /\ x \notin back
    BY <1>1, <1>8 DEF IInv, TypeOK
  <2>2. \A j \in DOMAIN net' \ DOMAIN net : ~Speaks(net'[j], x)
    BY <1>4, <1>5, <1>6, <2>1
  <2> QED
    BY <1>2, <1>4, <1>8, <2>1, <2>2, AddKnows DEF AllTold
<1> QED
  <2>1. far' = far /\ stale' = stale
    BY <1>1
  <2> QED
    BY <1>7, <1>8, <2>1 DEF AllTold, WillKnow, WillForget, Speaks, Says, Undo

\* Activities that arrive in order.
LEMMA DeliverTold ==
  ASSUME IInv, IInv', inOrder, UNCHANGED inOrder, AllTold, NEW i \in DOMAIN net,
         NEW repeated \in BOOLEAN, Deliver(i, repeated)
  PROVE  AllTold'
<1> DEFINE a == net[1]
<1>1. /\ 1 \in DOMAIN net /\ net' = RemoveAt(net, 1) /\ far' = After(a, far)
      /\ UNCHANGED <<moves, movedTo, back, stale>>
  BY DEF Deliver, history
<1>2. net \in Seq(Activities) /\ a \in Activities
  BY <1>1 DEF IInv, TypeOK
<1>3. /\ far \in [aka : [Users -> SUBSET Users], movedTo : [Users -> Places], moves : SUBSET Rows]
      /\ a.verb \in {"Update", "Move", "Undo"}
  BY <1>2 DEF IInv, TypeOK, Activities
<1> HIDE DEF a
<1>4. /\ a.verb = "Update" => far'.moves = far.moves
      /\ a.verb = "Move" => far'.moves \subseteq far.moves \cup {a.row}
      /\ a.verb = "Undo" => far'.moves = far.moves \ {a.row}
  BY <1>1, <1>3 DEF After, Updated, Moved
<1>5. WillForget(net', far'.moves, moves)
  BY <1>1, <1>2, <1>3, <1>4, PopForgets DEF AllTold, a
<1>6. ASSUME NEW x \in Users \ (back \cup stale)
      PROVE  WillKnow(x, net', far'.movedTo[x], movedTo[x])
  <2>1. CASE a.verb = "Update"
    <3>1. a.user \in Users
      BY <1>2, <2>1 DEF Activities
    <3>2. far'.movedTo = [far.movedTo EXCEPT ![a.user] = IF a.movedTo = Nowhere THEN @ ELSE a.movedTo]
      BY <1>1, <1>3, <2>1 DEF After, Updated
    <3>3. /\ ~Speaks(a, x) => far'.movedTo[x] = far.movedTo[x]
          /\ Speaks(a, x) => far'.movedTo[x] = Says(a)
      BY <1>3, <1>6, <2>1, <3>1, <3>2 DEF Speaks, Says
    <3> QED
      BY <1>1, <1>2, <1>6, <3>3, PopKnows DEF AllTold, a
  <2>2. CASE a.verb = "Move"
    <3>1. a.row[2] \in Users
      BY <1>2, <2>2 DEF Activities, Rows
    <3>2. far'.movedTo \in {far.movedTo, [far.movedTo EXCEPT ![a.row[2]] = a.row[3]]}
      BY <1>1, <1>3, <2>2 DEF After, Moved
    <3>3. /\ ~Speaks(a, x) => far'.movedTo[x] = far.movedTo[x]
          /\ Speaks(a, x) => far'.movedTo[x] \in {far.movedTo[x], Says(a)}
      BY <1>3, <1>6, <2>2, <3>1, <3>2 DEF Speaks, Says
    <3> QED
      BY <1>1, <1>2, <1>6, <2>2, <3>3, PopKnows DEF AllTold, a
  <2>3. CASE a.verb = "Undo"
    <3>1. far'.movedTo = far.movedTo /\ ~Speaks(a, x)
      BY <1>1, <1>3, <2>3 DEF After, Speaks
    <3> QED
      BY <1>1, <1>2, <1>6, <3>1, PopKnows DEF AllTold, a
  <2> QED
    BY <1>3, <2>1, <2>2, <2>3
<1> QED
  BY <1>1, <1>5, <1>6 DEF AllTold, WillKnow, WillForget, Speaks, Says, Undo

LEMMA NextTold ==
  ASSUME IInv, IInv', inOrder, AllTold, [Next]_vars
  PROVE  AllTold'
<1>1. CASE UNCHANGED vars
  BY <1>1, NothingTold DEF vars, history
<1>2. CASE Next
  <2>1. UNCHANGED inOrder
    BY <1>2 DEF Next
  <2>2. ASSUME NEW w \in Workers, Alias(w) PROVE AllTold'
    BY <2>1, <2>2, AliasTold
  <2>3. ASSUME NEW w \in Workers, MoveEnd(w) PROVE AllTold'
    BY <2>1, <2>3, MoveEndTold
  <2>4. ASSUME NEW w \in Workers,
               \/ Denied(w)
               \/ \E u, v \in Users : AliasBegin(w, u, v) \/ MoveBegin(w, u, v)
        PROVE  AllTold'
    BY <2>4, NothingTold DEF Denied, AliasBegin, MoveBegin, Begins, history
  <2>5. ASSUME NEW u \in Users, NEW v \in Users, RemoveAlias(u, v) PROVE AllTold'
    BY <2>5, NothingTold DEF RemoveAlias, history
  <2>6. ASSUME NEW u \in Users, NEW m \in moves, Unmove(u, m) PROVE AllTold'
    BY <2>1, <2>6, UnmoveTold
  <2>7. ASSUME NEW i \in DOMAIN net, NEW repeated \in BOOLEAN, Deliver(i, repeated)
        PROVE  AllTold'
    BY <2>1, <2>7, DeliverTold
  <2>8. ASSUME NEW i \in DOMAIN net, Lose(i) PROVE AllTold'
    BY <2>8 DEF Lose
  <2> QED
    BY <1>2, <2>2, <2>3, <2>4, <2>5, <2>6, <2>7, <2>8 DEF Next
<1> QED
  BY <1>1, <1>2

-----------------------------------------------------------------------------
(* Steps, seen from home *)

LEMMA NextRowsFit ==
  ASSUME IInv, RowsFit, [Next]_vars
  PROVE  RowsFit'
<1> USE DEF IInv, TypeOK
\* Who is at home and who has moved, and their rows, are as before.
<1>1. ASSUME UNCHANGED <<movedTo, moves>>, again \cup stale \subseteq again' \cup stale'
      PROVE  RowsFit'
  BY <1>1 DEF RowsFit, OneRow, RowsOf
<1>2. CASE UNCHANGED vars
  BY <1>1, <1>2 DEF vars, history
<1>3. ASSUME NEW w \in Workers, Alias(w) PROVE RowsFit'
  <2>1. movedTo' = [movedTo EXCEPT ![job[w].user] = job[w].copy] /\ job[w].user \in Users
    BY <1>3 DEF Alias, Jobs, Idle
  <2>2. \A u \in Users \ (again' \cup stale') :
          u \notin again \cup stale /\ movedTo'[u] = movedTo[u]
    BY <1>3, <2>1 DEF Alias
  <2> QED
    BY <1>3, <2>2 DEF Alias, RowsFit, OneRow, RowsOf
<1>4. ASSUME NEW w \in Workers, MoveEnd(w) PROVE RowsFit'
  <2> DEFINE u == job[w].user
             t == job[w].with
             m == <<job[w].id, u, t>>
  <2>1. /\ u \in Users /\ t \in Users /\ moves' = moves \cup {m}
        /\ movedTo' = [movedTo EXCEPT ![u] = t] /\ stale' = stale
        /\ again' = IF RowsOf(u) = {} THEN again ELSE again \cup {u}
    BY <1>4 DEF MoveEnd, MayMove, Jobs, Idle
  <2>2. m[2] = u /\ m[3] = t
    OBVIOUS
  <2> HIDE DEF m, u, t
  <2>3. ASSUME NEW x \in Users \ (again' \cup stale') PROVE OneRow(x)'
    <3>1. CASE x = u
      <4>1. RowsOf(u) = {}
        BY <2>1, <2>3, <3>1
      <4>2. RowsOf(x)' = {m}
        BY <2>1, <2>2, <3>1, <4>1 DEF RowsOf
      <4> QED
        BY <2>1, <2>2, <3>1, <4>2 DEF OneRow
    <3>2. CASE x # u
      <4>1. RowsOf(x)' = RowsOf(x) /\ movedTo'[x] = movedTo[x] /\ x \notin again \cup stale
        BY <2>1, <2>2, <2>3, <3>2 DEF RowsOf
      <4> QED
        BY <2>3, <4>1 DEF RowsFit, OneRow
    <3> QED
      BY <3>1, <3>2
  <2> QED
    BY <2>3 DEF RowsFit
<1>5. ASSUME NEW u \in Users, NEW m \in moves, Unmove(u, m) PROVE RowsFit'
  <2>1. /\ TheRow(u, m) /\ moves' = moves \ {m} /\ movedTo' = [movedTo EXCEPT ![u] = Nowhere]
        /\ UNCHANGED <<again, stale>>
    BY <1>5 DEF Unmove
  <2>2. m \in RowsOf(u) /\ m[2] = u
    BY <2>1 DEF TheRow, RowsOf
  <2>3. ASSUME NEW x \in Users \ (again \cup stale) PROVE OneRow(x)'
    <3>1. CASE x = u
      <4>1. RowsOf(u)' = {}
        BY <2>1, <2>2, <2>3, <3>1 DEF RowsFit, OneRow, RowsOf
      <4> QED
        BY <2>1, <3>1, <4>1 DEF OneRow
    <3>2. CASE x # u
      <4>1. RowsOf(x)' = RowsOf(x) /\ movedTo'[x] = movedTo[x]
        BY <2>1, <2>2, <2>3, <3>2 DEF RowsOf
      <4> QED
        BY <2>3, <4>1 DEF RowsFit, OneRow
    <3> QED
      BY <3>1, <3>2
  <2> QED
    BY <2>1, <2>3 DEF RowsFit
<1>6. ASSUME NEW w \in Workers,
             \/ Denied(w)
             \/ \E u, v \in Users : AliasBegin(w, u, v) \/ MoveBegin(w, u, v)
      PROVE  RowsFit'
  BY <1>1, <1>6 DEF Denied, AliasBegin, MoveBegin, Begins, history
<1>7. ASSUME NEW u \in Users, NEW v \in Users, RemoveAlias(u, v) PROVE RowsFit'
  BY <1>1, <1>7 DEF RemoveAlias, history
<1>8. ASSUME NEW i \in DOMAIN net, (\E r \in BOOLEAN : Deliver(i, r)) \/ Lose(i) PROVE RowsFit'
  BY <1>1, <1>8 DEF Deliver, Lose, history
<1> QED
  BY <1>2, <1>3, <1>4, <1>5, <1>6, <1>7, <1>8 DEF Next

\* Nobody is at a circle that was not there before, and jobs found what they found.
LEMMA SameWays ==
  ASSUME NoCircle, \A u \in Users : movedTo'[u] \in {movedTo[u], Nowhere},
         \A w \in Workers : FoundHome(job[w]) => FoundHome(job'[w])
  PROVE  NoCircle'
<1>1. ASSUME NEW S \in SUBSET Users, Circle(S)' PROVE Circle(S)
  BY <1>1, MovesAssumption DEF Circle
<1> QED
  BY <1>1 DEF NoCircle

LEMMA NextNoCircle ==
  ASSUME IInv, NoCircle, ~Odd', [Next]_vars
  PROVE  NoCircle'
<1> USE MovesAssumption DEF IInv, TypeOK
<1>0. stale' = {} /\ bent' = {} /\ raced' = {} /\ \A u \in Users : <<u, u>> \notin listed'
  BY DEF Odd
<1>1. \A w \in Workers : Ends(w) => \A x \in Workers : FoundHome(job[x]) => FoundHome(job'[x])
  BY DEF Ends, FoundHome, Idle
<1>2. CASE UNCHANGED vars
  BY <1>2, SameWays DEF vars, FoundHome
<1>3. ASSUME NEW w \in Workers, Alias(w) PROVE NoCircle'
  <2>0. job[w].user \in Users
    BY <1>3 DEF Alias, Jobs, Idle
  <2>1. movedTo[job[w].user] = job[w].copy
    BY <1>0, <1>3 DEF Alias
  <2>2. movedTo' = movedTo
    BY <1>3, <2>0, <2>1 DEF Alias
  <2> QED
    BY <1>1, <1>3, <2>2, SameWays DEF Alias
<1>4. ASSUME NEW w \in Workers, MoveEnd(w) PROVE NoCircle'
  <2> DEFINE u == job[w].user
             t == job[w].with
  <2>1. /\ u \in Users /\ t \in Users /\ movedTo' = [movedTo EXCEPT ![u] = t]
        /\ <<u, t>> \in listed' /\ job[w].op = "move"
    BY <1>4 DEF MoveEnd, MayMove, Jobs, Idle
  <2>2. t = job[w].asked /\ movedTo[t] = job[w].copy
    BY <1>0, <1>4 DEF MoveEnd
  <2>3. t # u /\ movedTo[t] = Nowhere
    BY <1>0, <2>1, <2>2 DEF NoCircle, FoundHome
  <2>4. ASSUME NEW S \in SUBSET Users, Circle(S)' PROVE Circle(S)
    <3>1. t \notin S
      BY <2>1, <2>3, <2>4 DEF Circle
    <3>2. u \notin S
      BY <2>1, <2>4, <3>1 DEF Circle
    <3> QED
      BY <2>1, <2>4, <3>2 DEF Circle
  <2>5. \A x \in Workers : FoundHome(job[x]) => FoundHome(job'[x])
    BY <1>1, <1>4 DEF MoveEnd
  <2> QED
    BY <2>4, <2>5 DEF NoCircle
<1>5. ASSUME NEW w \in Workers, NEW u \in Users, NEW v \in Users, MoveBegin(w, u, v)
      PROVE  NoCircle'
  <2> DEFINE t == Webfinger(v)
             j == [op |-> "move", id |-> requests', user |-> u, with |-> t, asked |-> v,
                   copy |-> movedTo[t], allowed |-> u \in aka[t]]
  <2>1. job' = [job EXCEPT ![w] = j] /\ UNCHANGED movedTo
    BY <1>5 DEF MoveBegin, Begins
  \* Webfinger answers with what was asked for only if that has not moved, or has
  \* moved to itself, which is a circle of one.
  <2>2. ASSUME t = v PROVE movedTo[t] = Nowhere
    <3>1. {v} \in SUBSET Users /\ ~Circle({v})
      BY DEF NoCircle
    <3> QED
      BY <2>2, <3>1 DEF Webfinger, Circle
  <2>3. FoundHome(j)
    BY <2>2 DEF FoundHome
  <2> HIDE DEF j
  <2> QED
    BY <2>1, <2>3, SameWays
<1>6. ASSUME NEW w \in Workers, NEW u \in Users, NEW v \in Users, AliasBegin(w, u, v)
      PROVE  NoCircle'
  <2>1. UNCHANGED movedTo /\ \A x \in Workers : FoundHome(job[x]) => FoundHome(job'[x])
    BY <1>6 DEF AliasBegin, Begins, FoundHome
  <2> QED
    BY <2>1, SameWays
<1>7. ASSUME NEW w \in Workers, Denied(w) PROVE NoCircle'
  BY <1>1, <1>7, SameWays DEF Denied
<1>8. ASSUME NEW u \in Users, NEW m \in moves, Unmove(u, m) PROVE NoCircle'
  <2>1. (\A x \in Users : movedTo'[x] \in {movedTo[x], Nowhere}) /\ UNCHANGED job
    BY <1>8 DEF Unmove
  <2> QED
    BY <2>1, SameWays DEF FoundHome
<1>9. ASSUME NEW u \in Users, NEW v \in Users, RemoveAlias(u, v) PROVE NoCircle'
  BY <1>9, SameWays DEF RemoveAlias, FoundHome
<1>10. ASSUME NEW i \in DOMAIN net, (\E r \in BOOLEAN : Deliver(i, r)) \/ Lose(i) PROVE NoCircle'
  BY <1>10, SameWays DEF Deliver, Lose, FoundHome
<1> QED
  BY <1>2, <1>3, <1>4, <1>5, <1>6, <1>7, <1>8, <1>9, <1>10 DEF Next

\* What was odd once is so for ever.
LEMMA OddStays ==
  ASSUME IInv, [Next]_vars, Odd
  PROVE  Odd'
<1>1. bent \subseteq bent' /\ raced \subseteq raced' /\ stale \subseteq stale' /\ listed \subseteq listed'
  BY DEF Next, vars, history, Alias, MoveEnd, Denied, AliasBegin, MoveBegin, Begins, RemoveAlias,
         Unmove, Deliver, Lose
<1> QED
  BY <1>1 DEF Odd

-----------------------------------------------------------------------------
LEMMA InitOInv == Init => OInv
<1> SUFFICES ASSUME Init PROVE OInv
  OBVIOUS
<1>1. RowsFit
  BY DEF Init, RowsFit, OneRow, RowsOf
<1>2. NoCircle
  BY MovesAssumption DEF Init, NoCircle, Circle, FoundHome, Idle
<1>3. AllTold
  BY DEF Init, AllTold, WillForget, WillKnow
<1> QED
  BY <1>1, <1>2, <1>3, InitIInv DEF OInv

LEMMA NextOInv == OInv /\ [Next]_vars => OInv'
<1> SUFFICES ASSUME OInv, [Next]_vars PROVE OInv'
  OBVIOUS
<1>1. IInv /\ IInv'
  BY NextIInv DEF OInv
<1>2. inOrder' => inOrder
  BY DEF Next, vars
<1> QED
  BY <1>1, <1>2, NextRowsFit, NextNoCircle, OddStays, NextTold DEF OInv

\* Whoever moves once and comes back has one row and none; accounts that have
\* moved do not lead in a circle; and the followers' server, when all has
\* arrived in order, knows where they are: but for those of whom the parts of
\* OnlyOddMovesMislead say what they did (views/preferences/move_user.py:105,
\* views/wellknown.py:26, models/fields.py:91).
THEOREM OddMovesAlone == Spec => []OnlyOddMovesMislead
<1>1. OInv => OnlyRepeatedMovesBind
  <2> SUFFICES ASSUME OInv, NEW u \in Users \ (again \cup stale)
               PROVE  /\ {m[3] : m \in RowsOf(u)} = {movedTo[u]} \ {Nowhere}
                      /\ Cardinality(RowsOf(u)) <= 1
    BY DEF OnlyRepeatedMovesBind
  <2>1. OneRow(u) /\ \A m \in RowsOf(u) : m[3] \in Users
    BY DEF OInv, IInv, TypeOK, RowsFit, RowsOf, Rows
  <2>2. CASE RowsOf(u) = {}
    BY <2>1, <2>2, FS_EmptySet DEF OneRow
  <2>3. ASSUME NEW m \in RowsOf(u) PROVE /\ {x[3] : x \in RowsOf(u)} = {movedTo[u]} \ {Nowhere}
                                         /\ Cardinality(RowsOf(u)) <= 1
    <3>1. RowsOf(u) = {m} /\ movedTo[u] = m[3] /\ m[3] # Nowhere
      BY <2>1, <2>3, MovesAssumption DEF OneRow
    <3>2. Cardinality({m}) = 1
      BY FS_Singleton
    <3> QED
      BY <3>1, <3>2
  <2> QED
    BY <2>2, <2>3
<1>2. OInv => OnlyBentMovesLoop
  BY DEF OInv, NoCircle, Circle, Odd, OnlyBentMovesLoop
<1>3. OInv => FollowersKnow
  <2> SUFFICES ASSUME AllTold, net = <<>>
               PROVE  /\ far.moves \subseteq moves
                      /\ \A u \in Users \ (back \cup stale) : far.movedTo[u] = movedTo[u]
    BY DEF OInv, FollowersKnow
  <2>1. DOMAIN net = {}
    OBVIOUS
  <2> QED
    BY <2>1 DEF AllTold, WillForget, WillKnow
<1>4. OInv => OnlyOddMovesMislead
  BY <1>1, <1>2, <1>3 DEF OnlyOddMovesMislead
<1> QED
  BY <1>4, InitOInv, NextOInv, PTL DEF Spec
=============================================================================
