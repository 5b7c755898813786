------------------------------ MODULE ServerProofs ------------------------------
(***************************************************************************)
(* What holds of the parts of a server, whatever the numbers of workers,   *)
(* users, invitations and films, their interleaving and the points at      *)
(* which they die: first of the relationships of two users, then of films, *)
(* invitations, accounts, and likes and boosts, and last of all together.  *)
(***************************************************************************)
EXTENDS MCServer, Sequences, WellFoundedInduction, FiniteSetTheorems, TLAPS

LEMMA InitTypeOK == Init => TypeOK
<1> SUFFICES ASSUME Init PROVE TypeOK
  OBVIOUS
<1>1. /\ {follow, request, fresh} \subseteq Nat
      /\ block \in [Sides -> Nat]
      /\ held \in [Threads -> Nat]
  BY DEF Init
<1>2. /\ cache \in Names \cup {"nothing"} /\ seen \in [Threads -> Names]
      /\ {manual, torn, consented, overtaken, raced} \subseteq BOOLEAN
  BY DEF Init, Names
<1> QED
  BY <1>1, <1>2 DEF Init, TypeOK, Labels

LEMMA NextTypeOK == TypeOK /\ [Next]_vars => TypeOK'
<1> SUFFICES ASSUME TypeOK, [Next]_vars PROVE TypeOK'
  OBVIOUS
<1>0. {manual, overtaken, raced}' \subseteq BOOLEAN
  <2>1. CASE Next
    BY <2>1 DEF Next, TypeOK
  <2>2. CASE UNCHANGED vars
    BY <2>2 DEF vars, TypeOK
  <2> QED
    BY <2>1, <2>2
<1> USE <1>0 DEF TypeOK, At, Goto, Hold, Begin, ClearCache, Blocked, WithoutRow,
            PastCheck, Severing, Labels, Names, Sides, tables, history
<1>1. ASSUME NEW t \in Threads, FollowBegin(t) \/ AcceptBegin(t) \/ RejectBegin(t)
      PROVE TypeOK'
  BY <1>1 DEF FollowBegin, AcceptBegin, RejectBegin
<1>2. ASSUME NEW t \in Threads, UnfollowBegin(t) \/ RenderBegin(t) PROVE TypeOK'
  BY <1>2 DEF UnfollowBegin, RenderBegin, RelationshipName
<1>3. ASSUME NEW t \in Threads, NEW d \in Sides, BlockBegin(t, d) \/ UnblockBegin(t, d)
      PROVE TypeOK'
  <2>1. CASE UnblockBegin(t, d)
    BY <2>1 DEF UnblockBegin
  <2>2. CASE BlockBegin(t, d)
    <3>1. torn' \in BOOLEAN
      BY <2>2 DEF BlockBegin
    <3>2. block' \in [Sides -> Nat] /\ fresh' \in Nat
      BY <2>2 DEF BlockBegin
    <3>3. pc' \in [Threads -> Labels]
      BY <2>2 DEF BlockBegin
    <3> QED
      BY <2>2, <3>1, <3>2, <3>3 DEF BlockBegin
  <2> QED
    BY <1>3, <2>1, <2>2
<1>4. ASSUME NEW t \in Threads, FollowGet(t) PROVE TypeOK'
  BY <1>4 DEF FollowGet
<1>5. ASSUME NEW t \in Threads, CreateCommit(t) PROVE TypeOK'
  <2>1. CASE request # 0
    BY <1>5, <2>1 DEF CreateCommit
  <2>2. CASE request = 0 /\ manual
    BY <1>5, <2>2 DEF CreateCommit
  <2>3. CASE request = 0 /\ ~manual
    BY <1>5, <2>3 DEF CreateCommit
  <2> QED
    BY <2>1, <2>2, <2>3
<1>6. ASSUME NEW t \in Threads, ResaveWrite(t) PROVE TypeOK'
  BY <1>6 DEF ResaveWrite
<1>7. ASSUME NEW t \in Threads,
             \/ CheckFollow(t, "create_check_follow", "create_check_block")
             \/ CheckFollow(t, "resave_check_follow", "resave_check_block")
             \/ CreateCheckBlock(t) \/ ResaveCheckBlock(t) \/ AcceptCheck(t)
      PROVE TypeOK'
  BY <1>7 DEF CheckFollow, CreateCheckBlock, ResaveCheckBlock, AcceptCheck
<1>8. ASSUME NEW t \in Threads, AcceptCommit(t) PROVE TypeOK'
  BY <1>8 DEF AcceptCommit
<1>9. ASSUME NEW t \in Threads, DropFollow(t) \/ UnfollowRequest(t) \/ DropRequest(t)
      PROVE TypeOK'
  BY <1>9 DEF DropFollow, UnfollowRequest, DropRequest
<1>10. ASSUME NEW t \in Threads,
              SeverFollow(t) \/ SeverRequest(t) \/ DropBlock(t) \/ FillCache(t)
       PROVE TypeOK'
  BY <1>10 DEF SeverFollow, SeverRequest, DropBlock, FillCache
<1>11. ASSUME NEW t \in Threads, Crash(t) PROVE TypeOK'
  BY <1>11 DEF Crash
<1>12. CASE UNCHANGED vars
  BY <1>12 DEF vars
<1> QED
  BY <1>1, <1>2, <1>3, <1>4, <1>5, <1>6, <1>7, <1>8, <1>9, <1>10, <1>11, <1>12
     DEF Next, BeginSome, Continue

\* Rows, counters and program counters keep their types.
THEOREM TypeCorrect == Spec => []TypeOK
BY InitTypeOK, NextTypeOK, PTL DEF Spec

-----------------------------------------------------------------------------
(* While a block is not torn, nobody writes on the strength of an older      *)
(* check, and what is left of the relationship has somebody to remove it.    *)
NobodyPastCheck == Blocked /\ ~torn => \A t \in Threads : pc[t] \notin PastCheck
FollowIsDoomed  == Blocked /\ ~torn /\ follow # 0 =>
                     \E t \in Threads : pc[t] = "sever_follow"
RequestIsDoomed == Blocked /\ ~torn /\ request # 0 =>
                     \E t \in Threads : pc[t] \in Severing

(* An acceptance under way is one that the object has called.                *)
AcceptsByConsent ==
  manual => \A t \in Threads :
              pc[t] \in {"accept_check", "accept_drop", "accept_commit"} => consented

IInv == /\ TypeOK
        /\ NobodyPastCheck /\ FollowIsDoomed /\ RequestIsDoomed
        /\ AcceptsByConsent /\ ConsentFirst

LEMMA InitIInv == Init => IInv
BY InitTypeOK DEF Init, IInv, NobodyPastCheck, FollowIsDoomed, RequestIsDoomed,
                  AcceptsByConsent, ConsentFirst, PastCheck

LEMMA NextIInv == IInv /\ [Next]_vars => IInv'
<1> SUFFICES ASSUME IInv, [Next]_vars PROVE IInv'
  OBVIOUS
<1>0. TypeOK /\ TypeOK'
  BY NextTypeOK DEF IInv
<1> DEFINE Conjuncts == NobodyPastCheck /\ FollowIsDoomed /\ RequestIsDoomed
                        /\ AcceptsByConsent /\ ConsentFirst
<1>b. manual' = manual
  BY DEF Next, vars
<1>a. Conjuncts /\ pc \in [Threads -> Labels]
  BY <1>0 DEF IInv, TypeOK
<1> SUFFICES Conjuncts'
  BY <1>0 DEF IInv
<1> USE DEF NobodyPastCheck, FollowIsDoomed, RequestIsDoomed, AcceptsByConsent,
            ConsentFirst, Blocked, At, Goto, Hold, Begin, PastCheck,
            Severing, tables, history
<1>1. ASSUME NEW t \in Threads, FollowBegin(t) \/ AcceptBegin(t) \/ RejectBegin(t)
      PROVE Conjuncts'
  BY <1>1, <1>a, <1>b DEF FollowBegin, AcceptBegin, RejectBegin
<1>2. ASSUME NEW t \in Threads, UnfollowBegin(t) \/ RenderBegin(t) PROVE Conjuncts'
  BY <1>2, <1>a, <1>b DEF UnfollowBegin, RenderBegin
<1>3. ASSUME NEW t \in Threads, NEW d \in Sides, BlockBegin(t, d) PROVE Conjuncts'
  BY <1>3, <1>a, <1>b DEF BlockBegin
<1>4. ASSUME NEW t \in Threads, NEW d \in Sides, UnblockBegin(t, d) PROVE Conjuncts'
  BY <1>4, <1>a, <1>b DEF UnblockBegin
<1>5. ASSUME NEW t \in Threads, FollowGet(t) PROVE Conjuncts'
  BY <1>5, <1>a, <1>b DEF FollowGet
<1>6. ASSUME NEW t \in Threads, CreateCommit(t) PROVE Conjuncts'
  <2>1. CASE request # 0
    BY <1>6, <1>a, <1>b, <2>1 DEF CreateCommit
  <2>2. CASE request = 0
    BY <1>6, <1>a, <1>b, <2>2 DEF CreateCommit
  <2> QED
    BY <2>1, <2>2
<1>7. ASSUME NEW t \in Threads, ResaveWrite(t) PROVE Conjuncts'
  BY <1>7, <1>a, <1>b DEF ResaveWrite
<1>8. ASSUME NEW t \in Threads,
             \/ CheckFollow(t, "create_check_follow", "create_check_block")
             \/ CheckFollow(t, "resave_check_follow", "resave_check_block")
      PROVE Conjuncts'
  BY <1>8, <1>a, <1>b DEF CheckFollow
<1>9. ASSUME NEW t \in Threads, CreateCheckBlock(t) \/ ResaveCheckBlock(t) PROVE Conjuncts'
  BY <1>9, <1>a, <1>b DEF CreateCheckBlock, ResaveCheckBlock
<1>10. ASSUME NEW t \in Threads, AcceptCheck(t) PROVE Conjuncts'
  BY <1>10, <1>a, <1>b DEF AcceptCheck
<1>11. ASSUME NEW t \in Threads, AcceptCommit(t) PROVE Conjuncts'
  BY <1>11, <1>a, <1>b DEF AcceptCommit, WithoutRow
<1>12. ASSUME NEW t \in Threads, DropFollow(t) \/ UnfollowRequest(t) \/ DropRequest(t)
       PROVE Conjuncts'
  BY <1>12, <1>a, <1>b DEF DropFollow, UnfollowRequest, DropRequest, WithoutRow
<1>13. ASSUME NEW t \in Threads, SeverFollow(t) \/ SeverRequest(t) PROVE Conjuncts'
  BY <1>13, <1>a, <1>b DEF SeverFollow, SeverRequest
<1>14. ASSUME NEW t \in Threads, DropBlock(t) PROVE Conjuncts'
  <2>1. Blocked' => Blocked
    BY <1>14 DEF DropBlock, WithoutRow
  <2> QED
    BY <1>14, <1>a, <1>b, <2>1 DEF DropBlock
<1>15. ASSUME NEW t \in Threads, FillCache(t) PROVE Conjuncts'
  BY <1>15, <1>a, <1>b DEF FillCache
<1>16. ASSUME NEW t \in Threads, Crash(t) PROVE Conjuncts'
  BY <1>16, <1>a, <1>b DEF Crash
<1>17. CASE UNCHANGED vars
  BY <1>17, <1>a, <1>b DEF vars
<1> QED
  BY <1>1, <1>2, <1>3, <1>4, <1>5, <1>6, <1>7, <1>8, <1>9, <1>10, <1>11, <1>12,
     <1>13, <1>14, <1>15, <1>16, <1>17 DEF Next, BeginSome, Continue

\* Whatever interleaves and whatever dies, only a torn block leaves a follow or
\* a request standing.
THEOREM TornBlocks == Spec => []OnlyTornBlocksLeak
<1>1. IInv => OnlyTornBlocksLeak
  BY DEF IInv, OnlyTornBlocksLeak, FollowIsDoomed, RequestIsDoomed, Severing
<1> QED
  BY InitIInv, NextIInv, <1>1, PTL DEF Spec

\* Nobody follows an object that approves by hand and has not approved.
THEOREM ConsentIsNeeded == Spec => []ConsentFirst
<1>1. IInv => ConsentFirst
  BY DEF IInv
<1> QED
  BY InitIInv, NextIInv, <1>1, PTL DEF Spec

-----------------------------------------------------------------------------
(* The history that Next records is never forgotten.                         *)
OInv == TypeOK /\ (Overtaking => overtaken) /\ OnlyOvertakenAskTwice

LEMMA InitOInv == Init => OInv
BY InitTypeOK DEF Init, OInv, Overtaking, OnlyOvertakenAskTwice, FollowChecked, At

LEMMA NextOInv == OInv /\ [Next]_vars => OInv'
<1> SUFFICES ASSUME OInv, [Next]_vars PROVE OInv'
  OBVIOUS
<1>0. TypeOK /\ TypeOK'
  BY NextTypeOK DEF OInv
<1>1. CASE UNCHANGED vars
  BY <1>0, <1>1 DEF OInv, vars, tables, history, Overtaking,
                    OnlyOvertakenAskTwice, At
<1>2. CASE Next
  <2>1. overtaken' = (overtaken \/ Overtaking')
    BY <1>2 DEF Next
  <2> SUFFICES ASSUME follow' # 0, request' # 0, ~overtaken PROVE Overtaking'
    BY <1>0, <2>1 DEF OInv, OnlyOvertakenAskTwice, TypeOK
  <2>2. /\ follow = 0 \/ request = 0
        /\ follow = 0 \/ \A t \in Threads : pc[t] \notin FollowChecked
        /\ \A t \in Threads : pc[t] = "accept_commit" => request = held[t]
    BY DEF OInv, OnlyOvertakenAskTwice, Overtaking, At
  <2>3. PICK t \in Threads : BeginSome(t) \/ Continue(t) \/ Crash(t)
    BY <1>2 DEF Next
  <2> USE <2>2 DEF At, Goto, Hold, Begin, tables, history
  <2>4. BeginSome(t) \/ Crash(t) => FALSE
    BY DEF BeginSome, FollowBegin, AcceptBegin, RejectBegin, UnfollowBegin,
           RenderBegin, BlockBegin, UnblockBegin, Crash
  <2>5. CreateCommit(t) => FALSE
    BY DEF CreateCommit, FollowChecked
  <2>6. ResaveWrite(t) => FALSE
    BY DEF ResaveWrite, FollowChecked
  <2>7. AcceptCommit(t) => FALSE
    BY DEF AcceptCommit, WithoutRow
  <2>8. ~(DropFollow(t) \/ UnfollowRequest(t) \/ DropRequest(t) \/ DropBlock(t))
    BY DEF DropFollow, UnfollowRequest, DropRequest, DropBlock, WithoutRow
  <2>9. ~(\/ SeverFollow(t) \/ SeverRequest(t) \/ FillCache(t) \/ FollowGet(t)
          \/ CreateCheckBlock(t) \/ ResaveCheckBlock(t) \/ AcceptCheck(t)
          \/ CheckFollow(t, "create_check_follow", "create_check_block")
          \/ CheckFollow(t, "resave_check_follow", "resave_check_block"))
    BY DEF SeverFollow, SeverRequest, FillCache, FollowGet, CreateCheckBlock,
           ResaveCheckBlock, AcceptCheck, CheckFollow
  <2> QED
    BY <2>3, <2>4, <2>5, <2>6, <2>7, <2>8, <2>9 DEF Continue
<1> QED
  BY <1>1, <1>2

\* For any number of handlers that interleave and die anywhere, a request
\* stands beside a follow only where one handler overtook another.
THEOREM AskedTwiceWhenOvertaken == Spec => []OnlyOvertakenAskTwice
<1>1. OInv => OnlyOvertakenAskTwice
  BY DEF OInv
<1> QED
  BY InitOInv, NextOInv, <1>1, PTL DEF Spec

-----------------------------------------------------------------------------
(* Pages.  The statements of a handler that follow one that has cleared the  *)
(* cache: what is not cached then is not cached until the handler is done,   *)
(* or a page was rendered meanwhile.                                         *)
Cleared == {"follow_get", "create_check_follow", "create_check_block", "create_commit",
            "resave_check_follow", "resave_check_block", "resave_write",
            "accept_drop", "accept_commit", "sever_follow", "sever_request"}

\* Whoever writes to the tables has cleared the cache, or does it in that step;
\* and nobody writes while a page that has read them is not yet cached.
CacheIsTrue ==
  /\ ~Racing
  /\ \A t \in Threads : pc[t] \in Cleared => cache = "nothing"
  /\ \A t \in Threads : At(t, "fill_cache") => seen[t] = RelationshipName
  /\ cache \in {"nothing", RelationshipName}

PInv == TypeOK /\ (raced \/ CacheIsTrue)

LEMMA InitPInv == Init => PInv
BY InitTypeOK DEF Init, PInv, CacheIsTrue, Racing, Cleared, At

\* What a step does that changes no table: pages are not wrong after it.
LEMMA TablesKept ==
  ASSUME TypeOK, CacheIsTrue, ~Racing', UNCHANGED tables, NEW t \in Threads, NEW l,
         pc' = [pc EXCEPT ![t] = l], seen' = seen,
         cache' \in {"nothing", cache}, l # "fill_cache",
         l \in Cleared => pc[t] \in Cleared \/ cache' = "nothing"
  PROVE  CacheIsTrue'
<1>1. RelationshipName' = RelationshipName
  BY DEF tables, RelationshipName
<1>2. \A u \in Threads : u # t => pc'[u] = pc[u]
  BY DEF TypeOK
<1>3. pc'[t] = l
  BY DEF TypeOK
<1> QED
  BY <1>1, <1>2, <1>3 DEF CacheIsTrue, At

\* What a step does that writes: it has cleared the cache, nobody fills it.
LEMMA TablesWritten ==
  ASSUME TypeOK, CacheIsTrue, ~Racing', NEW t \in Threads, NEW l,
         pc' = [pc EXCEPT ![t] = l], l # "fill_cache", pc[t] # "fill_cache",
         cache' = "nothing", pc[t] \in {"idle", "done"} => l \notin {"idle", "done"}
  PROVE  CacheIsTrue'
<1>1. \A u \in Threads : u # t => pc'[u] = pc[u]
  BY DEF TypeOK
<1>2. pc'[t] = l
  BY DEF TypeOK
\* t is at work, before the step or after it, so nobody fills the cache.
<1>3. \A u \in Threads : pc'[u] # "fill_cache"
  BY <1>1, <1>2 DEF CacheIsTrue, Racing, At, Live
<1> QED
  BY <1>3 DEF CacheIsTrue, At

LEMMA NextPInv == PInv /\ [Next]_vars => PInv'
<1> SUFFICES ASSUME PInv, [Next]_vars PROVE PInv'
  OBVIOUS
<1>0. TypeOK /\ TypeOK'
  BY NextTypeOK DEF PInv
<1>1. CASE UNCHANGED vars
  BY <1>0, <1>1 DEF PInv, CacheIsTrue, vars, tables, history, Racing, Live, At, RelationshipName
<1>2. CASE Next
  <2>1. raced' = (raced \/ Racing')
    BY <1>2 DEF Next
  <2> SUFFICES ASSUME ~raced, ~Racing' PROVE CacheIsTrue'
    BY <1>0, <2>1 DEF PInv, TypeOK
  <2>2. CacheIsTrue
    BY DEF PInv
  <2>3. PICK t \in Threads : BeginSome(t) \/ Continue(t) \/ Crash(t)
    BY <1>2 DEF Next
  <2> USE DEF At, Goto, Hold, Begin, ClearCache
  <2>4. CASE FollowBegin(t) \/ AcceptBegin(t) \/ RejectBegin(t) \/ UnfollowBegin(t)
    BY <1>0, <2>2, <2>4, TablesKept
       DEF FollowBegin, AcceptBegin, RejectBegin, UnfollowBegin, Cleared
  <2>5. CASE RenderBegin(t)
    <3>1. RelationshipName' = RelationshipName
      BY <2>5 DEF RenderBegin, tables, RelationshipName
    <3>2. /\ pc' = [pc EXCEPT ![t] = "fill_cache"] /\ cache' = "nothing"
          /\ seen' = [seen EXCEPT ![t] = RelationshipName]
      BY <2>5 DEF RenderBegin
    <3> QED
      BY <1>0, <2>2, <3>1, <3>2 DEF CacheIsTrue, TypeOK
  <2>6. CASE \E d \in Sides : BlockBegin(t, d)
    BY <1>0, <2>2, <2>6, TablesWritten DEF BlockBegin, Cleared
  <2>7. CASE \E d \in Sides : UnblockBegin(t, d)
    BY <1>0, <2>2, <2>7, TablesKept DEF UnblockBegin, Cleared
  <2>8. CASE \/ FollowGet(t) \/ CreateCheckBlock(t) \/ ResaveCheckBlock(t) \/ AcceptCheck(t)
             \/ CheckFollow(t, "create_check_follow", "create_check_block")
             \/ CheckFollow(t, "resave_check_follow", "resave_check_block")
             \/ UnfollowRequest(t)
    BY <1>0, <2>2, <2>8, TablesKept
       DEF FollowGet, CreateCheckBlock, ResaveCheckBlock, AcceptCheck, CheckFollow,
           UnfollowRequest, Cleared
  <2>9. CASE CreateCommit(t)
    <3>1. cache' = "nothing" /\ pc[t] = "create_commit"
      BY <2>2, <2>9 DEF CreateCommit, CacheIsTrue, Cleared
    <3>2. \E l \in {"resave_check_follow", "done"} : pc' = [pc EXCEPT ![t] = l]
      BY <2>9 DEF CreateCommit
    <3> QED
      BY <1>0, <2>2, <3>1, <3>2, TablesWritten
  <2>10. CASE ResaveWrite(t)
    <3>1. pc[t] = "resave_write" /\ cache' = "nothing"
      BY <2>2, <2>10 DEF ResaveWrite, CacheIsTrue, Cleared
    <3>2. \E l \in {"accept_check", "done"} : pc' = [pc EXCEPT ![t] = l]
      BY <2>10 DEF ResaveWrite
    <3> QED
      BY <1>0, <2>2, <3>1, <3>2, TablesWritten
  <2>11. CASE AcceptCommit(t) \/ SeverFollow(t) \/ SeverRequest(t)
    <3>1. cache' = "nothing" /\ pc[t] \in Cleared /\ pc[t] \notin {"idle", "done", "fill_cache"}
      BY <2>2, <2>11 DEF AcceptCommit, SeverFollow, SeverRequest, CacheIsTrue, Cleared
    <3>2. \E l \in {"sever_request", "done"} : pc' = [pc EXCEPT ![t] = l]
      BY <2>11 DEF AcceptCommit, SeverFollow, SeverRequest
    <3> QED
      BY <1>0, <2>2, <3>1, <3>2, TablesWritten
  <2>12. CASE DropFollow(t) \/ DropRequest(t) \/ DropBlock(t)
    <3>1. cache' = "nothing" /\ pc[t] \notin {"idle", "done", "fill_cache"}
      BY <2>12 DEF DropFollow, DropRequest, DropBlock
    <3>2. \E l \in {"unfollow_request", "done"} : pc' = [pc EXCEPT ![t] = l]
      BY <2>12 DEF DropFollow, DropRequest, DropBlock
    <3> QED
      BY <1>0, <2>2, <3>1, <3>2, TablesWritten
  \* Whoever is at work now is filling the cache, too.
  <2>13. CASE FillCache(t)
    <3>1. RelationshipName' = RelationshipName
      BY <2>13 DEF FillCache, tables, RelationshipName
    <3>2. /\ pc' = [pc EXCEPT ![t] = "done"] /\ seen' = seen
          /\ cache' = RelationshipName
      BY <2>2, <2>13 DEF FillCache, CacheIsTrue
    <3>3. \A u \in Threads : pc[u] \in {"idle", "done", "fill_cache"}
      BY <2>2, <2>13 DEF FillCache, CacheIsTrue, Racing, Live
    <3> QED
      BY <1>0, <2>2, <3>1, <3>2, <3>3 DEF CacheIsTrue, TypeOK, Cleared
  <2>14. CASE Crash(t)
    BY <1>0, <2>2, <2>14, TablesKept DEF Crash, Cleared
  <2> QED
    BY <2>3, <2>4, <2>5, <2>6, <2>7, <2>8, <2>9, <2>10, <2>11, <2>12, <2>13, <2>14
       DEF BeginSome, Continue
<1> QED
  BY <1>1, <1>2

\* A page shows what the tables say once nobody is at work, unless one was
\* rendered while somebody was: every handler clears the cache early enough,
\* wherever it dies (models/relationship.py:41).
THEOREM PagesTellTheTruth == Spec => []OnlyRacedPagesLie
<1>1. PInv => OnlyRacedPagesLie
  BY DEF PInv, CacheIsTrue, OnlyRacedPagesLie
<1> QED
  BY InitPInv, NextPInv, <1>1, PTL DEF Spec

-----------------------------------------------------------------------------
(* Films: what TMDB says of them, and which rows bear its identifier.        *)

\* Counting is the same in every part.
LEMMA Counting ==
  ASSUME NEW S
  PROVE  /\ Likes!Cardinality(S) = Cardinality(S)
         /\ Invited!Cardinality(S) = Cardinality(S)
         /\ Catalogue!Cardinality(S) = Cardinality(S)
BY DEF Cardinality, Likes!Cardinality, Invited!Cardinality, Catalogue!Cardinality

LEMMA FilmsBounds == MaxFilms \in Nat /\ MaxRequests \in Nat
BY ServerAssumption

\* The rows that bear TMDB's identifier in a table F.
OfTmdb(F) == {f \in DOMAIN F : "tmdb" \in F[f].ids}
OneOfTmdb(F) == \A f, g \in OfTmdb(F) : f = g

\* Operations with a film in their hands.
Holding == {"backfill", "poster", "edit", "describe", "upload", "absorb", "matched"}

\* What a thread has of the table F is as it was read.
Reads(j, F) ==
  /\ j.op \in Holding => j.film \in DOMAIN F /\ j.copy = F[j.film]
  /\ j.op \in {"edit", "describe", "upload"} => "tmdb" \notin j.copy.ids
  /\ j.op = "import" /\ j.film # 0 =>
       LET old == F[j.film]
       IN  /\ j.film \in DOMAIN F /\ old.ids \subseteq j.copy.ids
           /\ old.text = j.copy.text /\ old.poster = j.copy.poster

\* What it is about to give TMDB's identifier to is the only row that may have it.
Sole(j, F) ==
  /\ j.op \in {"match", "create"} => OfTmdb(F) = {}
  /\ j.op = "backfill" => OfTmdb(F) \subseteq {j.film}
  /\ j.op = "import" /\ "tmdb" \in j.copy.ids => OfTmdb(F) \subseteq {j.film}

FilmsTyped ==
  /\ ca_films \in Seq(Catalogue!Rows) /\ Len(ca_films) <= MaxFilms
  /\ ca_job \in [Clerks -> [op : Catalogue!Ops, film : 0..MaxFilms, copy : Catalogue!Rows]]
  /\ ca_requests \in 0..MaxRequests
  /\ ca_stale \subseteq Clerks /\ ca_raced \in BOOLEAN /\ ca_mixed \in BOOLEAN

FilmsInv ==
  /\ FilmsTyped
  /\ \A t \in Clerks \ ca_stale : Reads(ca_job[t], ca_films)
  /\ ~ca_raced /\ ~ca_mixed =>
       OneOfTmdb(ca_films) /\ \A t \in Clerks \ ca_stale : Sole(ca_job[t], ca_films)

\* TMDB's films keep what they have.
Respected(old, new) ==
  "tmdb" \in old.ids => /\ old.ids \subseteq new.ids
                        /\ old.text \in {Catalogue!Nothing, new.text}
                        /\ old.poster => new.poster
AllRespected == \A f \in DOMAIN ca_films : Respected(ca_films[f], ca_films'[f])

\* Identifiers that a table has gained.
NewIds(F, G) == \E f \in DOMAIN G : ~(G[f].ids \subseteq IF f \in DOMAIN F THEN F[f].ids ELSE {})

LEMMA FirstIs ==
  ASSUME NEW S \in SUBSET Nat, S # {}
  PROVE  Catalogue!First(S) \in S /\ \A g \in S : Catalogue!First(S) <= g
<1> DEFINE Less == OpToRel(<, Nat)
<1>2. \E n \in S : \A m \in S : ~(<<m, n>> \in Less)
  <2> HIDE DEF Less
  <2>1. IsWellFoundedOn(Less, Nat)
    BY NatLessThanWellFounded DEF Less
  <2> QED
    BY <2>1, WFMin
<1>3. \A m, n \in S : ~(<<m, n>> \in Less) => n <= m
  BY DEF OpToRel
<1>1. \E n \in S : \A m \in S : n <= m
  <2> HIDE DEF Less
  <2> QED
    BY <1>2, <1>3
<1> QED
  BY <1>1 DEF Catalogue!First

LEMMA NoNewIds ==
  ASSUME NEW F \in Seq(Catalogue!Rows), NEW G \in Seq(Catalogue!Rows), ~NewIds(F, G)
  PROVE  OfTmdb(G) \subseteq OfTmdb(F)
<1> SUFFICES ASSUME NEW f \in DOMAIN G, "tmdb" \in G[f].ids PROVE f \in DOMAIN F /\ "tmdb" \in F[f].ids
  BY DEF OfTmdb
<1> QED
  BY DEF NewIds

\* What is inserted or saved, and whether the row bears TMDB's identifier.
LEMMA Appended ==
  ASSUME NEW F \in Seq(Catalogue!Rows), NEW row \in Catalogue!Rows
  PROVE  LET G == Append(F, row)
         IN  /\ G \in Seq(Catalogue!Rows) /\ Len(G) = Len(F) + 1
             /\ \A f \in DOMAIN F : f \in DOMAIN G /\ G[f] = F[f]
             /\ G[Len(F) + 1] = row /\ Len(F) + 1 \in DOMAIN G /\ Len(F) + 1 \notin DOMAIN F
             /\ OfTmdb(G) = OfTmdb(F) \cup (IF "tmdb" \in row.ids THEN {Len(F) + 1} ELSE {})
<1> DEFINE G == Append(F, row)
<1>1. G \in Seq(Catalogue!Rows) /\ Len(G) = Len(F) + 1 /\ Len(F) \in Nat
  OBVIOUS
<1>2. DOMAIN F = 1..Len(F) /\ DOMAIN G = 1..(Len(F) + 1)
  BY <1>1
<1>3. \A f \in DOMAIN F : f \in DOMAIN G /\ G[f] = F[f]
  BY <1>1, <1>2
<1>4. G[Len(F) + 1] = row
  BY <1>1
<1>5. Len(F) + 1 \in DOMAIN G /\ Len(F) + 1 \notin DOMAIN F
  BY <1>1, <1>2
<1>6. \A f \in DOMAIN G : f \in DOMAIN F \/ f = Len(F) + 1
  BY <1>1, <1>2
<1> HIDE DEF G
<1>7. OfTmdb(G) = OfTmdb(F) \cup (IF "tmdb" \in row.ids THEN {Len(F) + 1} ELSE {})
  BY <1>3, <1>4, <1>5, <1>6 DEF OfTmdb
<1> QED
  BY <1>1, <1>3, <1>4, <1>5, <1>7 DEF G

LEMMA Saved ==
  ASSUME NEW F \in Seq(Catalogue!Rows), NEW row \in Catalogue!Rows, NEW i \in DOMAIN F
  PROVE  LET G == [F EXCEPT ![i] = row]
         IN  /\ G \in Seq(Catalogue!Rows) /\ Len(G) = Len(F) /\ DOMAIN G = DOMAIN F
             /\ G[i] = row /\ \A f \in DOMAIN F \ {i} : G[f] = F[f]
             /\ OfTmdb(G) = (OfTmdb(F) \ {i}) \cup (IF "tmdb" \in row.ids THEN {i} ELSE {})
<1> DEFINE G == [F EXCEPT ![i] = row]
<1>1. G \in Seq(Catalogue!Rows) /\ Len(G) = Len(F) /\ DOMAIN G = DOMAIN F
  OBVIOUS
<1>2. G[i] = row /\ \A f \in DOMAIN F \ {i} : G[f] = F[f]
  OBVIOUS
<1> HIDE DEF G
<1>3. OfTmdb(G) = (OfTmdb(F) \ {i}) \cup (IF "tmdb" \in row.ids THEN {i} ELSE {})
  BY <1>1, <1>2 DEF OfTmdb
<1> QED
  BY <1>1, <1>2, <1>3 DEF G

JobRecs == [op : Catalogue!Ops, film : 0..MaxFilms, copy : Catalogue!Rows]

\* What a thread goes on with.
After(op, f, copy) == IF op = "idle" THEN Catalogue!Idle ELSE [op |-> op, film |-> f, copy |-> copy]

\* A step either keeps what TMDB's films have or is that of a stale thread.
Keeps(t) == AllRespected \/ (t \in ca_stale /\ ca_job'[t] # ca_job[t])

LEMMA IdleKnowsNothing == \A F : Reads(Catalogue!Idle, F) /\ Sole(Catalogue!Idle, F) /\ Catalogue!Idle \in JobRecs
BY FilmsBounds DEF Catalogue!Idle, Reads, Sole, Holding, JobRecs, Catalogue!Ops,
   Catalogue!Blank, Catalogue!Rows, Catalogue!Texts

LEMMA SameIsRespected == ca_films' = ca_films => AllRespected
BY DEF AllRespected, Respected

\* A request or task begins.
LEMMA FilmsStarted ==
  ASSUME FilmsInv, NEW t \in Clerks, NEW j \in JobRecs,
         ca_job' = [ca_job EXCEPT ![t] = j], Catalogue!Begins(t), UNCHANGED <<ca_films, ca_stale, ca_raced>>,
         ca_mixed' \in BOOLEAN, ca_mixed => ca_mixed', Reads(j, ca_films),
         ~ca_raced /\ ~ca_mixed' => Sole(j, ca_films)
  PROVE  FilmsInv' /\ Keeps(t)
<1>1. FilmsTyped'
  <2>1. ca_requests' \in 0..MaxRequests
    BY FilmsBounds DEF FilmsInv, FilmsTyped, Catalogue!Begins
  <2>2. ca_job' \in [Clerks -> JobRecs]
    BY DEF FilmsInv, FilmsTyped, JobRecs
  <2> QED
    BY <2>1, <2>2 DEF FilmsInv, FilmsTyped, JobRecs
<1>2. ca_job'[t] = j /\ \A x \in Clerks \ {t} : ca_job'[x] = ca_job[x]
  BY DEF FilmsInv, FilmsTyped
<1>3. \A x \in Clerks \ ca_stale : Reads(ca_job'[x], ca_films)
  BY <1>2 DEF FilmsInv
<1>4. ~ca_raced /\ ~ca_mixed' => OneOfTmdb(ca_films) /\ \A x \in Clerks \ ca_stale : Sole(ca_job'[x], ca_films)
  BY <1>2 DEF FilmsInv
<1> QED
  BY <1>1, <1>3, <1>4, SameIsRespected DEF FilmsInv, Keeps

\* A thread goes on, and the table may have changed.
LEMMA FilmsWent ==
  ASSUME FilmsInv, NEW t \in Clerks, NEW op, NEW f, NEW copy,
         After(op, f, copy) \in JobRecs,
         Catalogue!Goes(t, op, f, copy), UNCHANGED ca_mixed, ca_job[t] # Catalogue!Idle, After(op, f, copy) # ca_job[t],
         ca_films' \in Seq(Catalogue!Rows), Len(ca_films') <= MaxFilms,
         t \notin ca_stale => AllRespected /\ Reads(After(op, f, copy), ca_films'),
         t \notin ca_stale /\ ~ca_raced /\ ~ca_mixed => OneOfTmdb(ca_films') /\ Sole(After(op, f, copy), ca_films')
  PROVE  FilmsInv' /\ Keeps(t)
<1> DEFINE j == After(op, f, copy)
<1>1. ca_job' = [ca_job EXCEPT ![t] = j] /\ ca_requests' = ca_requests
  BY DEF Catalogue!Goes, After
<1>2. ca_job'[t] = j /\ \A x \in Clerks \ {t} : ca_job'[x] = ca_job[x]
  BY <1>1 DEF FilmsInv, FilmsTyped
<1>3. FilmsTyped'
  <2>1. ca_raced' \in BOOLEAN
    BY DEF Catalogue!Goes, Catalogue!Notes, FilmsInv, FilmsTyped
  <2>2. ca_stale' \subseteq Clerks
    BY DEF Catalogue!Goes, FilmsInv, FilmsTyped
  <2>3. ca_job' \in [Clerks -> JobRecs]
    BY <1>1 DEF FilmsInv, FilmsTyped, JobRecs
  <2> QED
    BY <1>1, <2>1, <2>2, <2>3 DEF FilmsInv, FilmsTyped, JobRecs
\* the others know only what has not changed
<1>4. ASSUME NEW x \in Clerks \ {t}, x \notin ca_stale'
      PROVE  ca_job'[x] = Catalogue!Idle \/ (x \notin ca_stale /\ ca_films' = ca_films)
  <2>1. CASE ca_films' = ca_films
    BY <2>1, <1>4 DEF Catalogue!Goes
  <2>2. CASE ca_films' # ca_films
    BY <2>2, <1>2, <1>4 DEF Catalogue!Goes
  <2> QED
    BY <2>1, <2>2
<1>5. t \notin ca_stale' => t \notin ca_stale \/ j = Catalogue!Idle
  <2>1. CASE op = "idle"
    BY <2>1 DEF After
  <2>2. CASE op # "idle" /\ t \in ca_stale
    BY <2>2 DEF Catalogue!Goes
  <2> QED
    BY <2>1, <2>2
<1>6. \A x \in Clerks \ ca_stale' : Reads(ca_job'[x], ca_films')
  BY <1>2, <1>4, <1>5, IdleKnowsNothing DEF FilmsInv
<1>7. ASSUME ~ca_raced', ~ca_mixed
      PROVE  OneOfTmdb(ca_films') /\ \A x \in Clerks \ ca_stale' : Sole(ca_job'[x], ca_films')
  <2>1. ~ca_raced
    BY <1>7 DEF Catalogue!Goes, Catalogue!Notes, FilmsInv, FilmsTyped
  <2>2. OneOfTmdb(ca_films')
    <3>1. CASE t \in ca_stale
      <4>1. ~NewIds(ca_films, ca_films')
        BY <1>7, <3>1 DEF Catalogue!Goes, Catalogue!Notes, NewIds
      <4>2. OfTmdb(ca_films') \subseteq OfTmdb(ca_films)
        BY <4>1, NoNewIds DEF FilmsInv, FilmsTyped
      <4> QED
        BY <2>1, <1>7, <4>2 DEF FilmsInv, OneOfTmdb
    <3>2. CASE t \notin ca_stale
      BY <3>2, <2>1, <1>7
    <3> QED
      BY <3>1, <3>2
  <2> QED
    BY <2>1, <2>2, <1>2, <1>4, <1>5, <1>7, IdleKnowsNothing DEF FilmsInv
<1>8. Keeps(t)
  BY <1>2 DEF Keeps
<1> QED
  BY <1>3, <1>6, <1>7, <1>8 DEF FilmsInv

LEMMA Overwritten ==
  ASSUME FilmsTyped, NEW i \in 0..MaxFilms, NEW row \in Catalogue!Rows,
         ca_films' = [ca_films EXCEPT ![i] = row]
  PROVE  /\ ca_films' \in Seq(Catalogue!Rows) /\ Len(ca_films') <= MaxFilms
         /\ i \in DOMAIN ca_films =>
              /\ DOMAIN ca_films' = DOMAIN ca_films /\ ca_films'[i] = row
              /\ OfTmdb(ca_films') = (OfTmdb(ca_films) \ {i}) \cup (IF "tmdb" \in row.ids THEN {i} ELSE {})
              /\ Respected(ca_films[i], row) => AllRespected
<1>1. CASE i \in DOMAIN ca_films
  <2>1. /\ ca_films' \in Seq(Catalogue!Rows) /\ Len(ca_films') = Len(ca_films) /\ DOMAIN ca_films' = DOMAIN ca_films
        /\ ca_films'[i] = row /\ \A f \in DOMAIN ca_films \ {i} : ca_films'[f] = ca_films[f]
        /\ OfTmdb(ca_films') = (OfTmdb(ca_films) \ {i}) \cup (IF "tmdb" \in row.ids THEN {i} ELSE {})
    BY <1>1, Saved DEF FilmsTyped
  <2>2. ASSUME Respected(ca_films[i], row) PROVE AllRespected
    <3> SUFFICES ASSUME NEW f \in DOMAIN ca_films PROVE Respected(ca_films[f], ca_films'[f])
      BY DEF AllRespected
    <3>1. CASE f = i
      BY <3>1, <2>1, <2>2
    <3>2. CASE f # i
      BY <3>2, <2>1 DEF Respected
    <3> QED
      BY <3>1, <3>2
  <2> QED
    BY <2>1, <2>2 DEF FilmsTyped
<1>2. CASE i \notin DOMAIN ca_films
  <2>1. ca_films' = ca_films
    BY <1>2 DEF FilmsTyped
  <2> QED
    BY <1>2, <2>1 DEF FilmsTyped
<1> QED
  BY <1>1, <1>2

LEMMA Lengthened ==
  ASSUME FilmsTyped, NEW row \in Catalogue!Rows, Catalogue!Inserts(row)
  PROVE  /\ ca_films' \in Seq(Catalogue!Rows) /\ Len(ca_films') <= MaxFilms
         /\ Len(ca_films') \in DOMAIN ca_films' /\ ca_films'[Len(ca_films')] = row
         /\ Len(ca_films') \in 1..MaxFilms
         /\ OfTmdb(ca_films') = OfTmdb(ca_films) \cup (IF "tmdb" \in row.ids THEN {Len(ca_films')} ELSE {})
         /\ AllRespected
<1>1. /\ ca_films' \in Seq(Catalogue!Rows) /\ Len(ca_films') = Len(ca_films) + 1
      /\ \A f \in DOMAIN ca_films : f \in DOMAIN ca_films' /\ ca_films'[f] = ca_films[f]
      /\ ca_films'[Len(ca_films) + 1] = row /\ Len(ca_films) + 1 \in DOMAIN ca_films'
      /\ OfTmdb(ca_films') = OfTmdb(ca_films) \cup (IF "tmdb" \in row.ids THEN {Len(ca_films) + 1} ELSE {})
  BY Appended DEF FilmsTyped, Catalogue!Inserts
<1>2. Len(ca_films) \in Nat /\ Len(ca_films) < MaxFilms
  BY DEF FilmsTyped, Catalogue!Inserts
<1>3. AllRespected
  BY <1>1 DEF AllRespected, Respected
<1> QED
  BY <1>1, <1>2, <1>3, FilmsBounds

\* What is found is there.
LEMMA Choosing ==
  ASSUME FilmsTyped
  PROVE  /\ DOMAIN ca_films = 1..Len(ca_films) /\ DOMAIN ca_films \subseteq 1..MaxFilms
         /\ \A f \in DOMAIN ca_films : ca_films[f] \in Catalogue!Rows
         /\ Catalogue!Having({"tmdb"}) = OfTmdb(ca_films)
         /\ \A S \in SUBSET DOMAIN ca_films : S # {} => Catalogue!First(S) \in S
<1>1. DOMAIN ca_films = 1..Len(ca_films) /\ Len(ca_films) \in Nat /\ Len(ca_films) <= MaxFilms
  BY DEF FilmsTyped
<1>2. DOMAIN ca_films \subseteq 1..MaxFilms
  BY <1>1, FilmsBounds
<1>3. \A f \in DOMAIN ca_films : ca_films[f] \in Catalogue!Rows
  BY DEF FilmsTyped
<1>4. Catalogue!Having({"tmdb"}) = OfTmdb(ca_films)
  BY DEF Catalogue!Having, OfTmdb
<1>5. ASSUME NEW S \in SUBSET DOMAIN ca_films, S # {} PROVE Catalogue!First(S) \in S
  <2>1. S \in SUBSET Nat
    BY <1>1, <1>5
  <2> QED
    BY <2>1, <1>5, FirstIs
<1> QED
  BY <1>1, <1>2, <1>3, <1>4, <1>5

LEMMA JobIs ==
  ASSUME FilmsTyped, NEW t \in Clerks
  PROVE  ca_job[t] \in JobRecs /\ ca_job[t].film \in 0..MaxFilms /\ ca_job[t].copy \in Catalogue!Rows
BY DEF FilmsTyped, JobRecs

\* A request that ends, having written or not.
LEMMA FilmsEnded ==
  ASSUME FilmsInv, NEW t \in Clerks, NEW f, NEW copy, ca_job[t] # Catalogue!Idle,
         Catalogue!Goes(t, "idle", f, copy), UNCHANGED ca_mixed,
         ca_films' \in Seq(Catalogue!Rows), Len(ca_films') <= MaxFilms,
         t \notin ca_stale => AllRespected,
         t \notin ca_stale /\ ~ca_raced /\ ~ca_mixed => OneOfTmdb(ca_films')
  PROVE  FilmsInv' /\ Keeps(t)
<1>1. After("idle", f, copy) = Catalogue!Idle
  BY DEF After
<1> QED
  BY <1>1, IdleKnowsNothing, FilmsWent

LEMMA GiveUpKeeps ==
  ASSUME FilmsInv, NEW t \in Clerks, Catalogue!GiveUp(t)
  PROVE  FilmsInv' /\ Keeps(t)
BY FilmsEnded, SameIsRespected DEF Catalogue!GiveUp, FilmsInv, FilmsTyped

LEMMA SearchKeeps ==
  ASSUME FilmsInv, NEW t \in Clerks, Catalogue!Search(t)
  PROVE  FilmsInv' /\ Keeps(t)
<1>0. FilmsTyped
  BY DEF FilmsInv
<1>1. CASE Catalogue!Having({"tmdb"}) = {}
  <2> DEFINE j == [op |-> "match", film |-> 0, copy |-> Catalogue!Blank]
  <2>1. j \in JobRecs
    BY FilmsBounds DEF JobRecs, Catalogue!Ops, Catalogue!Blank, Catalogue!Rows, Catalogue!Texts
  <2>2. Reads(j, ca_films) /\ Sole(j, ca_films)
    BY <1>0, <1>1, Choosing DEF Reads, Sole, Holding
  <2>3. /\ Catalogue!Begins(t) /\ ca_job' = [ca_job EXCEPT ![t] = j] /\ UNCHANGED <<ca_films, ca_stale, ca_raced, ca_mixed>>
    BY <1>1 DEF Catalogue!Search, Catalogue!Starts
  <2> HIDE DEF j
  <2> QED
    BY <2>1, <2>2, <2>3, FilmsStarted DEF FilmsInv, FilmsTyped
<1>2. CASE Catalogue!Having({"tmdb"}) # {}
  <2> DEFINE f == Catalogue!First(Catalogue!Having({"tmdb"}))
             j == [op |-> "poster", film |-> f, copy |-> ca_films[f]]
  <2>0. f \in DOMAIN ca_films
    BY <1>0, <1>2, Choosing DEF Catalogue!Having
  <2>1. j \in JobRecs
    <3>1. f \in 0..MaxFilms /\ ca_films[f] \in Catalogue!Rows
      BY <1>0, <2>0, Choosing
    <3> QED
      BY <3>1 DEF JobRecs, Catalogue!Ops
  <2>2. Reads(j, ca_films) /\ Sole(j, ca_films)
    BY <2>0 DEF Reads, Sole, Holding
  <2>3. /\ Catalogue!Begins(t) /\ ca_job' = [ca_job EXCEPT ![t] = j] /\ UNCHANGED <<ca_films, ca_stale, ca_raced, ca_mixed>>
    BY <1>2 DEF Catalogue!Search, Catalogue!Starts
  <2> HIDE DEF j, f
  <2> QED
    BY <2>1, <2>2, <2>3, FilmsStarted DEF FilmsInv, FilmsTyped
<1> QED
  BY <1>1, <1>2

LEMMA MatchKeeps ==
  ASSUME FilmsInv, NEW t \in Clerks, Catalogue!Match(t)
  PROVE  FilmsInv' /\ Keeps(t)
<1>0. FilmsTyped /\ ca_job[t].op = "match" /\ ca_job[t] # Catalogue!Idle /\ ca_films' = ca_films
  BY DEF FilmsInv, Catalogue!Match, Catalogue!On, Catalogue!Idle
<1>1. ca_films' \in Seq(Catalogue!Rows) /\ Len(ca_films') <= MaxFilms /\ AllRespected
  BY <1>0, SameIsRespected DEF FilmsTyped
<1>2. t \notin ca_stale /\ ~ca_raced /\ ~ca_mixed => OneOfTmdb(ca_films') /\ OfTmdb(ca_films') = {}
  BY <1>0 DEF FilmsInv, Sole
<1>3. CASE Catalogue!OfTheYear # {}
  <2> DEFINE f == Catalogue!First(Catalogue!OfTheYear)
             j == After("backfill", f, ca_films[f])
  <2>0. f \in DOMAIN ca_films
    BY <1>0, <1>3, Choosing DEF Catalogue!OfTheYear
  <2>1. j \in JobRecs
    <3>1. f \in 0..MaxFilms /\ ca_films[f] \in Catalogue!Rows
      BY <1>0, <2>0, Choosing
    <3> QED
      BY <3>1 DEF JobRecs, Catalogue!Ops, After
  <2>2. Reads(j, ca_films) /\ (OfTmdb(ca_films) = {} => Sole(j, ca_films))
    BY <2>0 DEF Reads, Sole, Holding, After
  <2>3. Catalogue!Goes(t, "backfill", f, ca_films[f]) /\ UNCHANGED ca_mixed
    BY <1>3 DEF Catalogue!Match
  <2> HIDE DEF f
  <2> QED
    BY <1>0, <1>1, <1>2, <2>1, <2>2, <2>3, FilmsWent DEF After
<1>4. CASE Catalogue!OfTheYear = {}
  <2> DEFINE j == After("create", 0, Catalogue!Blank)
  <2>1. j \in JobRecs
    BY FilmsBounds DEF JobRecs, Catalogue!Ops, After, Catalogue!Blank, Catalogue!Rows,
       Catalogue!Texts
  <2>2. Reads(j, ca_films) /\ (OfTmdb(ca_films) = {} => Sole(j, ca_films))
    BY DEF Reads, Sole, Holding, After
  <2>3. Catalogue!Goes(t, "create", 0, Catalogue!Blank) /\ UNCHANGED ca_mixed
    BY <1>4 DEF Catalogue!Match
  <2> QED
    BY <1>0, <1>1, <1>2, <2>1, <2>2, <2>3, FilmsWent DEF After
<1> QED
  BY <1>3, <1>4

\* A download follows on a film that is as the thread has it.
LEMMA PosterNext ==
  ASSUME NEW f \in 0..MaxFilms, NEW row \in Catalogue!Rows, NEW F
  PROVE  LET op == IF row.poster THEN "idle" ELSE "poster"
         IN  /\ After(op, f, row) \in JobRecs /\ After(op, f, row).op = op /\ op \in {"idle", "poster"}
             /\ f \in DOMAIN F /\ F[f] = row => Reads(After(op, f, row), F)
             /\ Sole(After(op, f, row), F)
<1>1. CASE row.poster
  BY <1>1, IdleKnowsNothing DEF After, Catalogue!Idle
<1>2. CASE ~row.poster
  BY <1>2 DEF After, JobRecs, Catalogue!Ops, Reads, Sole, Holding
<1> QED
  BY <1>1, <1>2

LEMMA CreateKeeps ==
  ASSUME FilmsInv, NEW t \in Clerks, Catalogue!Create(t)
  PROVE  FilmsInv' /\ Keeps(t)
<1>0. FilmsTyped /\ ca_job[t].op = "create" /\ ca_job[t] # Catalogue!Idle
  BY DEF FilmsInv, Catalogue!Create, Catalogue!On, Catalogue!Idle
<1>1. Catalogue!FromTmdb \in Catalogue!Rows /\ "tmdb" \in Catalogue!FromTmdb.ids
  BY DEF Catalogue!FromTmdb, Catalogue!Rows, Catalogue!Ids, Catalogue!Texts
<1> DEFINE f == Len(ca_films')
           op == IF Catalogue!FromTmdb.poster THEN "idle" ELSE "poster"
<1>2. /\ ca_films' \in Seq(Catalogue!Rows) /\ Len(ca_films') <= MaxFilms /\ AllRespected
      /\ f \in 0..MaxFilms /\ f \in DOMAIN ca_films' /\ ca_films'[f] = Catalogue!FromTmdb
      /\ OfTmdb(ca_films') = OfTmdb(ca_films) \cup {f}
  BY <1>0, <1>1, Lengthened DEF Catalogue!Create
<1>3. Catalogue!Goes(t, op, f, Catalogue!FromTmdb) /\ UNCHANGED ca_mixed
  BY DEF Catalogue!Create, Catalogue!ThenPoster
<1>4. t \notin ca_stale /\ ~ca_raced /\ ~ca_mixed => OneOfTmdb(ca_films')
  <2>1. t \notin ca_stale /\ ~ca_raced /\ ~ca_mixed => OfTmdb(ca_films) = {}
    BY <1>0 DEF FilmsInv, Sole
  <2> HIDE DEF f
  <2> QED
    BY <2>1, <1>2 DEF OneOfTmdb
<1>5. /\ After(op, f, Catalogue!FromTmdb) \in JobRecs /\ After(op, f, Catalogue!FromTmdb).op = op /\ op \in {"idle", "poster"}
      /\ Reads(After(op, f, Catalogue!FromTmdb), ca_films') /\ Sole(After(op, f, Catalogue!FromTmdb), ca_films')
  BY <1>1, <1>2, PosterNext
<1> HIDE DEF op, f
<1>6. After(op, f, Catalogue!FromTmdb) # ca_job[t]
  BY <1>0, <1>5
<1> QED
  BY <1>0, <1>2, <1>3, <1>4, <1>5, <1>6, FilmsWent

LEMMA BackfillKeeps ==
  ASSUME FilmsInv, NEW t \in Clerks, Catalogue!Backfill(t)
  PROVE  FilmsInv' /\ Keeps(t)
<1> DEFINE f == ca_job[t].film
           old == ca_job[t].copy
           new == Catalogue!Backfilled(old)
           op == IF new.poster THEN "idle" ELSE "poster"
<1>0. FilmsTyped /\ ca_job[t].op = "backfill" /\ ca_job[t] # Catalogue!Idle
  BY DEF FilmsInv, Catalogue!Backfill, Catalogue!On, Catalogue!Idle
<1>1. f \in 0..MaxFilms /\ old \in Catalogue!Rows /\ new \in Catalogue!Rows /\ "tmdb" \in new.ids
  <2>1. f \in 0..MaxFilms /\ old \in Catalogue!Rows
    BY <1>0, JobIs
  <2> QED
    BY <2>1 DEF Catalogue!Backfilled, Catalogue!Rows, Catalogue!Ids, Catalogue!Texts
<1>2. Respected(old, new)
  BY <1>1 DEF Respected, Catalogue!Backfilled, Catalogue!Rows, Catalogue!Nothing
<1>3. Catalogue!Goes(t, op, f, new) /\ UNCHANGED ca_mixed
  BY DEF Catalogue!Backfill, Catalogue!ThenPoster
<1>4. \/ new = old /\ ca_films' = ca_films
      \/ ca_films' = [ca_films EXCEPT ![f] = new]
  BY DEF Catalogue!Backfill, Catalogue!Saves
<1> HIDE DEF f, old, new
<1>5. ca_films' \in Seq(Catalogue!Rows) /\ Len(ca_films') <= MaxFilms
  BY <1>0, <1>1, <1>4, Overwritten DEF FilmsTyped
<1>6. t \notin ca_stale => f \in DOMAIN ca_films /\ old = ca_films[f]
  BY <1>0 DEF FilmsInv, Reads, Holding, f, old
<1>7. t \notin ca_stale => AllRespected /\ f \in DOMAIN ca_films' /\ ca_films'[f] = new
  <2>1. CASE new = old /\ ca_films' = ca_films
    BY <2>1, <1>6, SameIsRespected
  <2>2. CASE ca_films' = [ca_films EXCEPT ![f] = new]
    BY <2>2, <1>0, <1>1, <1>2, <1>6, Overwritten
  <2> QED
    BY <2>1, <2>2, <1>4
<1>8. t \notin ca_stale /\ ~ca_raced /\ ~ca_mixed => OneOfTmdb(ca_films')
  <2>1. t \notin ca_stale /\ ~ca_raced /\ ~ca_mixed => OfTmdb(ca_films) \subseteq {f}
    BY <1>0 DEF FilmsInv, Sole, f
  <2>2. t \notin ca_stale => OfTmdb(ca_films') \subseteq OfTmdb(ca_films) \cup {f}
    <3>1. CASE ca_films' = ca_films
      BY <3>1
    <3>2. CASE ca_films' = [ca_films EXCEPT ![f] = new]
      BY <3>2, <1>0, <1>1, <1>6, Overwritten
    <3> QED
      BY <3>1, <3>2, <1>4
  <2> QED
    BY <2>1, <2>2 DEF OneOfTmdb
<1>9. /\ After(op, f, new) \in JobRecs /\ After(op, f, new).op = op /\ op \in {"idle", "poster"}
      /\ t \notin ca_stale => Reads(After(op, f, new), ca_films')
      /\ Sole(After(op, f, new), ca_films')
  BY <1>1, <1>7, PosterNext
<1> HIDE DEF op
<1>10. After(op, f, new) # ca_job[t]
  BY <1>0, <1>9
<1> QED
  BY <1>0, <1>3, <1>5, <1>7, <1>8, <1>9, <1>10, FilmsWent

\* A film is saved whole, as it was read but for what its saving is for.
LEMMA SavingKeeps ==
  ASSUME FilmsInv, NEW t \in Clerks, ca_job[t].op \in Holding, NEW row \in Catalogue!Rows,
         ca_films' = [ca_films EXCEPT ![ca_job[t].film] = row],
         t \notin ca_stale => row.ids = ca_job[t].copy.ids /\ Respected(ca_job[t].copy, row),
         Catalogue!Goes(t, "idle", 0, Catalogue!Blank), UNCHANGED ca_mixed
  PROVE  FilmsInv' /\ Keeps(t)
<1> DEFINE f == ca_job[t].film
<1>0. FilmsTyped /\ ca_job[t] # Catalogue!Idle /\ f \in 0..MaxFilms
  <2>1. FilmsTyped /\ ca_job[t] # Catalogue!Idle
    BY DEF FilmsInv, Catalogue!Idle, Holding
  <2> QED
    BY <2>1, JobIs
<1>1. ca_films' = [ca_films EXCEPT ![f] = row]
  OBVIOUS
<1>2. t \notin ca_stale => f \in DOMAIN ca_films /\ ca_job[t].copy = ca_films[f]
  BY DEF FilmsInv, Reads
<1> HIDE DEF f
<1>3. ca_films' \in Seq(Catalogue!Rows) /\ Len(ca_films') <= MaxFilms
  BY <1>0, <1>1, Overwritten
<1>4. t \notin ca_stale => AllRespected
  BY <1>0, <1>1, <1>2, Overwritten
<1>5. t \notin ca_stale => OfTmdb(ca_films') \subseteq OfTmdb(ca_films)
  <2> SUFFICES ASSUME t \notin ca_stale PROVE OfTmdb(ca_films') \subseteq OfTmdb(ca_films)
    OBVIOUS
  <2>1. OfTmdb(ca_films') = (OfTmdb(ca_films) \ {f}) \cup (IF "tmdb" \in row.ids THEN {f} ELSE {})
    BY <1>0, <1>1, <1>2, Overwritten
  <2>2. "tmdb" \in row.ids => f \in OfTmdb(ca_films)
    BY <1>2 DEF OfTmdb
  <2> QED
    BY <2>1, <2>2
<1>6. t \notin ca_stale /\ ~ca_raced /\ ~ca_mixed => OneOfTmdb(ca_films')
  BY <1>5 DEF FilmsInv, OneOfTmdb
<1> QED
  BY <1>0, <1>3, <1>4, <1>6, FilmsEnded

LEMMA PosterKeeps ==
  ASSUME FilmsInv, NEW t \in Clerks, Catalogue!Poster(t) \/ Catalogue!Upload(t)
  PROVE  FilmsInv' /\ Keeps(t)
<1> DEFINE row == [ca_job[t].copy EXCEPT !.poster = TRUE]
<1>1. ca_job[t].op \in Holding
  BY DEF Catalogue!Poster, Catalogue!Upload, Catalogue!On, Holding
<1>2. ca_job[t].copy \in Catalogue!Rows
  BY JobIs DEF FilmsInv
<1>3. row \in Catalogue!Rows /\ row.ids = ca_job[t].copy.ids /\ Respected(ca_job[t].copy, row)
  BY <1>2 DEF Catalogue!Rows, Respected
<1>4. /\ ca_films' = [ca_films EXCEPT ![ca_job[t].film] = row]
      /\ Catalogue!Goes(t, "idle", 0, Catalogue!Blank) /\ UNCHANGED ca_mixed
  BY DEF Catalogue!Poster, Catalogue!Upload, Catalogue!Saves
<1> HIDE DEF row
<1> QED
  BY <1>1, <1>3, <1>4, SavingKeeps

LEMMA EditKeeps ==
  ASSUME FilmsInv, NEW t \in Clerks, NEW form \in Catalogue!Forms, Catalogue!Edit(t, form)
  PROVE  FilmsInv' /\ Keeps(t)
<1> DEFINE row == [form EXCEPT !.ids = ca_job[t].copy.ids, !.poster = @ \/ ca_job[t].copy.poster]
<1>1. ca_job[t].op \in Holding /\ ca_job[t].op = "edit"
  BY DEF Catalogue!Edit, Catalogue!On, Holding
<1>2. ca_job[t].copy \in Catalogue!Rows /\ form \in [ids : {{}}, year : BOOLEAN, text : {Catalogue!Nothing, "hand"}, poster : BOOLEAN]
  BY JobIs DEF FilmsInv, Catalogue!Forms
<1>3. row \in Catalogue!Rows /\ row.ids = ca_job[t].copy.ids
  <2>1. form \in Catalogue!Rows /\ ca_job[t].copy.ids \subseteq Catalogue!Ids
    BY <1>2 DEF Catalogue!Rows, Catalogue!Texts
  <2>2. PICK p \in BOOLEAN : p = (form.poster \/ ca_job[t].copy.poster)
    OBVIOUS
  <2>3. row = [form EXCEPT !.ids = ca_job[t].copy.ids, !.poster = p]
    BY <2>2
  <2> HIDE DEF row
  <2> QED
    BY <2>1, <2>3 DEF Catalogue!Rows
<1>4. t \notin ca_stale => Respected(ca_job[t].copy, row)
  BY <1>1 DEF FilmsInv, Reads, Respected
<1>5. /\ ca_films' = [ca_films EXCEPT ![ca_job[t].film] = row]
      /\ Catalogue!Goes(t, "idle", 0, Catalogue!Blank) /\ UNCHANGED ca_mixed
  BY DEF Catalogue!Edit, Catalogue!Saves
<1> HIDE DEF row
<1> QED
  BY <1>1, <1>3, <1>4, <1>5, SavingKeeps

LEMMA AbsorbKeeps ==
  ASSUME FilmsInv, NEW t \in Clerks, NEW form \in Catalogue!Forms, Catalogue!Absorb(t, form)
  PROVE  FilmsInv' /\ Keeps(t)
<1> DEFINE c == ca_job[t].copy
           row == [c EXCEPT !.year = @ \/ form.year, !.poster = @ \/ form.poster,
                            !.text = IF @ = Catalogue!Nothing THEN form.text ELSE @]
<1>1. ca_job[t].op \in Holding
  BY DEF Catalogue!Absorb, Catalogue!On, Holding
<1>2. c \in Catalogue!Rows /\ form \in [ids : {{}}, year : BOOLEAN, text : {Catalogue!Nothing, "hand"}, poster : BOOLEAN]
  BY JobIs DEF FilmsInv, Catalogue!Forms
<1>3. /\ ca_films' = [ca_films EXCEPT ![ca_job[t].film] = row]
      /\ Catalogue!Goes(t, "idle", 0, Catalogue!Blank) /\ UNCHANGED ca_mixed
  BY DEF Catalogue!Absorb, Catalogue!Saves
<1> HIDE DEF c
<1>4. row \in Catalogue!Rows /\ row.ids = c.ids /\ Respected(c, row)
  <2>1. PICK y \in BOOLEAN : y = (c.year \/ form.year)
    OBVIOUS
  <2>2. PICK p \in BOOLEAN : p = (c.poster \/ form.poster)
    OBVIOUS
  <2>3. PICK x \in Catalogue!Texts : x = IF c.text = Catalogue!Nothing THEN form.text ELSE c.text
    BY <1>2 DEF Catalogue!Rows, Catalogue!Texts
  <2>4. row = [c EXCEPT !.year = y, !.poster = p, !.text = x]
    BY <2>1, <2>2, <2>3
  <2> HIDE DEF row
  <2>5. row \in Catalogue!Rows /\ row.ids = c.ids /\ row.poster = p /\ row.text = x
    BY <1>2, <2>4 DEF Catalogue!Rows
  <2>6. c.poster => p
    BY <2>2
  <2> QED
    BY <2>3, <2>5, <2>6 DEF Respected
<1> HIDE DEF row
<1> QED
  BY <1>1, <1>3, <1>4, SavingKeeps DEF c

LEMMA DescribeKeeps ==
  ASSUME FilmsInv, NEW t \in Clerks, NEW text \in {Catalogue!Nothing, "hand"}, Catalogue!Describe(t, text)
  PROVE  FilmsInv' /\ Keeps(t)
<1> DEFINE f == ca_job[t].film
           row == [ca_films[f] EXCEPT !.text = text]
<1>0. FilmsTyped /\ ca_job[t].op = "describe" /\ ca_job[t] # Catalogue!Idle
  BY DEF FilmsInv, Catalogue!Describe, Catalogue!On, Catalogue!Idle
<1>1. ca_films' = [ca_films EXCEPT ![f].text = text] /\ Catalogue!Goes(t, "idle", 0, Catalogue!Blank) /\ UNCHANGED ca_mixed
  BY DEF Catalogue!Describe
<1>2. CASE f \in DOMAIN ca_films
  <2>1. ca_films[f] \in Catalogue!Rows /\ f \in 0..MaxFilms
    BY <1>0, <1>2, Choosing
  <2>2. row \in Catalogue!Rows /\ row.ids = ca_films[f].ids
    BY <2>1 DEF Catalogue!Rows, Catalogue!Texts
  <2>3. t \notin ca_stale => ca_films[f] = ca_job[t].copy /\ "tmdb" \notin ca_films[f].ids
    BY <1>0 DEF FilmsInv, Reads, Holding
  <2>4. ca_films' = [ca_films EXCEPT ![f] = row]
    BY <1>1
  <2> HIDE DEF row
  <2>5. t \notin ca_stale => row.ids = ca_job[t].copy.ids /\ Respected(ca_job[t].copy, row)
    BY <2>2, <2>3 DEF Respected
  <2>6. ca_job[t].op \in Holding
    BY <1>0 DEF Holding
  <2> QED
    BY <1>1, <2>2, <2>4, <2>5, <2>6, SavingKeeps
<1>3. CASE f \notin DOMAIN ca_films
  <2>1. ca_films' = ca_films
    BY <1>0, <1>1, <1>3 DEF FilmsTyped
  <2> QED
    BY <1>0, <1>1, <2>1, SameIsRespected, FilmsEnded DEF FilmsInv, FilmsTyped
<1> QED
  BY <1>2, <1>3

LEMMA ImportLookKeeps ==
  ASSUME FilmsInv, NEW t \in Clerks, NEW ids \in SUBSET Catalogue!Ids, NEW year \in BOOLEAN,
         Catalogue!ImportLook(t, ids, year)
  PROVE  FilmsInv' /\ Keeps(t)
<1> DEFINE f    == Catalogue!Found(ids, year)
           line == [Catalogue!Blank EXCEPT !.ids = ids, !.year = year]
           row  == IF f = 0 THEN line ELSE [ca_films[f] EXCEPT !.ids = @ \cup ids, !.year = @ \/ year]
           j    == [op |-> IF f # 0 /\ row = ca_films[f] THEN "matched" ELSE "import",
                    film |-> f, copy |-> row]
           mix  == f \in Catalogue!Having(ids) /\ \E g \in DOMAIN ca_films \ {f} :
                      ca_films[g].ids \cap (row.ids \ ca_films[f].ids) # {}
<1>1. /\ Catalogue!Begins(t) /\ ca_job' = [ca_job EXCEPT ![t] = j] /\ UNCHANGED <<ca_films, ca_stale, ca_raced>>
      /\ ca_mixed' = (ca_mixed \/ mix)
  BY DEF Catalogue!ImportLook
<1>0. FilmsTyped
  BY DEF FilmsInv
\* it finds a film, or none
<1>2. \/ f \in Catalogue!Having(ids)
      \/ Catalogue!Having(ids) = {} /\ f \in DOMAIN ca_films
      \/ Catalogue!Having(ids) = {} /\ f = 0
  <2>1. Catalogue!Having(ids) # {} => Catalogue!First(Catalogue!Having(ids)) \in Catalogue!Having(ids)
    BY <1>0, Choosing DEF Catalogue!Having
  <2>2. Catalogue!OfTheYear # {} => Catalogue!First(Catalogue!OfTheYear) \in DOMAIN ca_films
    BY <1>0, Choosing DEF Catalogue!OfTheYear
  <2> QED
    BY <2>1, <2>2 DEF Catalogue!Found
<1>3. f \in 0..MaxFilms /\ (f # 0 => f \in DOMAIN ca_films /\ ca_films[f] \in Catalogue!Rows)
  <2>1. f = 0 \/ f \in DOMAIN ca_films
    BY <1>2 DEF Catalogue!Having
  <2>2. 0 \in 0..MaxFilms /\ 1..MaxFilms \subseteq 0..MaxFilms
    BY FilmsBounds
  <2> QED
    BY <1>0, <2>1, <2>2, Choosing
<1>4. /\ row \in Catalogue!Rows
      /\ f = 0 => row.ids = ids
      /\ f # 0 => /\ row.ids = ca_films[f].ids \cup ids
                  /\ row.text = ca_films[f].text /\ row.poster = ca_films[f].poster
  <2>1. CASE f = 0
    BY <2>1 DEF Catalogue!Blank, Catalogue!Rows, Catalogue!Texts
  <2>2. CASE f # 0
    <3>1. PICK y \in BOOLEAN : y = (ca_films[f].year \/ year)
      OBVIOUS
    <3>2. row = [ca_films[f] EXCEPT !.ids = @ \cup ids, !.year = y]
      BY <2>2, <3>1
    <3>3. ca_films[f] \in Catalogue!Rows
      BY <1>3, <2>2
    <3> HIDE DEF row, f
    <3> QED
      BY <2>2, <3>2, <3>3 DEF Catalogue!Rows
  <2> QED
    BY <2>1, <2>2
<1> HIDE DEF row, f
<1>5. j \in JobRecs
  BY <1>3, <1>4 DEF JobRecs, Catalogue!Ops
<1>6. Reads(j, ca_films)
  BY <1>3, <1>4 DEF Reads, Holding
\* nobody else has the identifier that it will give
<1>7. ASSUME ~ca_raced, ~ca_mixed', "tmdb" \in row.ids
      PROVE  OfTmdb(ca_films) \subseteq {f}
  <2>1. OneOfTmdb(ca_films) /\ ~mix
    BY <1>1, <1>7 DEF FilmsInv, FilmsTyped
  <2>2. f # 0 /\ "tmdb" \in ca_films[f].ids => f \in OfTmdb(ca_films)
    BY <1>3 DEF OfTmdb
  <2>3. f # 0 /\ "tmdb" \in ca_films[f].ids => OfTmdb(ca_films) \subseteq {f}
    BY <2>1, <2>2 DEF OneOfTmdb
  <2>4. "tmdb" \in ids => OfTmdb(ca_films) \subseteq Catalogue!Having(ids)
    BY DEF OfTmdb, Catalogue!Having
  <2>5. CASE f \in Catalogue!Having(ids)
    <3>1. f # 0
      BY <2>5, <1>0, Choosing DEF Catalogue!Having
    <3>2. "tmdb" \in ca_films[f].ids \/ \A g \in DOMAIN ca_films \ {f} : "tmdb" \notin ca_films[g].ids
      BY <2>1, <2>5, <1>7
    <3> QED
      BY <3>1, <3>2, <2>3 DEF OfTmdb
  <2>6. CASE Catalogue!Having(ids) = {}
    BY <2>3, <2>4, <2>6, <1>4, <1>7
  <2> QED
    BY <1>2, <2>5, <2>6
<1>8. ~ca_raced /\ ~ca_mixed' => Sole(j, ca_films)
  BY <1>7 DEF Sole
<1>9. ca_mixed' \in BOOLEAN /\ (ca_mixed => ca_mixed')
  BY <1>0, <1>1 DEF FilmsTyped
<1> HIDE DEF j, mix
<1> QED
  BY <1>1, <1>5, <1>6, <1>8, <1>9, FilmsStarted

LEMMA ImportKeeps ==
  ASSUME FilmsInv, NEW t \in Clerks, Catalogue!Import(t)
  PROVE  FilmsInv' /\ Keeps(t)
<1> DEFINE f == ca_job[t].film
           row == ca_job[t].copy
<1>0. /\ FilmsTyped /\ ca_job[t].op \in {"import", "matched"} /\ ca_job[t] # Catalogue!Idle
      /\ Catalogue!Goes(t, "idle", 0, Catalogue!Blank) /\ UNCHANGED ca_mixed
  BY DEF FilmsInv, Catalogue!Import, Catalogue!On, Catalogue!Idle
<1>1. f \in 0..MaxFilms /\ row \in Catalogue!Rows
  BY <1>0, JobIs
<1>2. CASE ca_films' = ca_films
  BY <1>0, <1>2, SameIsRespected, FilmsEnded DEF FilmsInv, FilmsTyped
<1>3. CASE ca_job[t].op = "import" /\ f # 0 /\ ca_films' = [ca_films EXCEPT ![f] = row]
  <2>1. t \notin ca_stale => f \in DOMAIN ca_films /\ Respected(ca_films[f], row)
    BY <1>3 DEF FilmsInv, Reads, Respected
  <2>2. t \notin ca_stale /\ ~ca_raced /\ ~ca_mixed =>
          OneOfTmdb(ca_films) /\ ("tmdb" \in row.ids => OfTmdb(ca_films) \subseteq {f})
    BY <1>3 DEF FilmsInv, Sole
  <2> HIDE DEF f, row
  <2>3. ca_films' \in Seq(Catalogue!Rows) /\ Len(ca_films') <= MaxFilms /\ (t \notin ca_stale => AllRespected)
    BY <1>0, <1>1, <1>3, <2>1, Overwritten
  <2>4. t \notin ca_stale => OfTmdb(ca_films') = (OfTmdb(ca_films) \ {f}) \cup (IF "tmdb" \in row.ids THEN {f} ELSE {})
    BY <1>0, <1>1, <1>3, <2>1, Overwritten
  <2>5. t \notin ca_stale /\ ~ca_raced /\ ~ca_mixed => OneOfTmdb(ca_films')
    BY <2>2, <2>4 DEF OneOfTmdb
  <2> QED
    BY <1>0, <2>3, <2>5, FilmsEnded
<1>4. CASE ca_job[t].op = "import" /\ f = 0 /\ Catalogue!Inserts(row)
  <2>2. t \notin ca_stale /\ ~ca_raced /\ ~ca_mixed =>
          OneOfTmdb(ca_films) /\ ("tmdb" \in row.ids => OfTmdb(ca_films) \subseteq {0})
    BY <1>4 DEF FilmsInv, Sole
  <2>3. 0 \notin OfTmdb(ca_films)
    BY <1>0, Choosing DEF OfTmdb
  <2> HIDE DEF f, row
  <2>4. /\ ca_films' \in Seq(Catalogue!Rows) /\ Len(ca_films') <= MaxFilms /\ AllRespected
        /\ OfTmdb(ca_films') = OfTmdb(ca_films) \cup (IF "tmdb" \in row.ids THEN {Len(ca_films')} ELSE {})
    BY <1>0, <1>1, <1>4, Lengthened
  <2>5. t \notin ca_stale /\ ~ca_raced /\ ~ca_mixed => OneOfTmdb(ca_films')
    BY <2>2, <2>3, <2>4 DEF OneOfTmdb
  <2> QED
    BY <1>0, <2>4, <2>5, FilmsEnded
<1> QED
  BY <1>2, <1>3, <1>4 DEF Catalogue!Import, Catalogue!On, Catalogue!Saves

\* A film that is there is read, and worked on later.
LEMMA ReadingKeeps ==
  ASSUME FilmsInv, NEW t \in Clerks, NEW f \in DOMAIN ca_films,
         NEW op \in Holding, Catalogue!Starts(t, op, f, ca_films[f]),
         op \in {"edit", "describe", "upload"} => "tmdb" \notin ca_films[f].ids,
         op = "backfill" => "tmdb" \in ca_films[f].ids
  PROVE  FilmsInv' /\ Keeps(t)
<1> DEFINE j == [op |-> op, film |-> f, copy |-> ca_films[f]]
<1>0. FilmsTyped
  BY DEF FilmsInv
<1>1. f \in 0..MaxFilms /\ ca_films[f] \in Catalogue!Rows
  BY <1>0, Choosing
<1>2. j \in JobRecs
  BY <1>1 DEF JobRecs, Catalogue!Ops, Holding
<1>3. Reads(j, ca_films)
  BY DEF Reads, Holding
<1>4. ~ca_raced /\ ~ca_mixed => Sole(j, ca_films)
  <2>1. "tmdb" \in ca_films[f].ids => f \in OfTmdb(ca_films)
    BY DEF OfTmdb
  <2> QED
    BY <2>1 DEF FilmsInv, OneOfTmdb, Sole, Holding
<1>5. Catalogue!Begins(t) /\ ca_job' = [ca_job EXCEPT ![t] = j] /\ UNCHANGED <<ca_films, ca_stale, ca_raced, ca_mixed>>
  BY DEF Catalogue!Starts
<1> HIDE DEF j
<1> QED
  BY <1>0, <1>2, <1>3, <1>4, <1>5, FilmsStarted DEF FilmsTyped

LEMMA OnAFilmKeeps ==
  ASSUME FilmsInv, NEW t \in Clerks, NEW f \in DOMAIN ca_films, Catalogue!Task(t, f) \/ Catalogue!Open(t, f) \/ Catalogue!Confirm(t, f)
  PROVE  FilmsInv' /\ Keeps(t)
<1>1. CASE Catalogue!Task(t, f)
  BY <1>1, ReadingKeeps DEF Catalogue!Task, Holding
<1>2. CASE Catalogue!Open(t, f)
  BY <1>2, ReadingKeeps DEF Catalogue!Open, Catalogue!OursToEdit, Holding
<1>3. CASE Catalogue!Confirm(t, f)
  BY <1>3, ReadingKeeps DEF Catalogue!Confirm, Holding
<1> QED
  BY <1>1, <1>2, <1>3

LEMMA CreateByHandKeeps ==
  ASSUME FilmsInv, NEW t \in Clerks, NEW form \in Catalogue!Forms, Catalogue!CreateByHand(t, form)
  PROVE  FilmsInv' /\ Keeps(t)
<1>0. FilmsTyped /\ form \in Catalogue!Rows /\ "tmdb" \notin form.ids
  BY DEF FilmsInv, Catalogue!Forms, Catalogue!Rows, Catalogue!Texts
<1>1. /\ ca_films' \in Seq(Catalogue!Rows) /\ Len(ca_films') <= MaxFilms /\ AllRespected
      /\ OfTmdb(ca_films') = OfTmdb(ca_films)
  BY <1>0, Lengthened DEF Catalogue!CreateByHand
<1>2. FilmsTyped'
  <2>1. ca_requests' \in 0..MaxRequests
    BY <1>0, FilmsBounds DEF Catalogue!CreateByHand, Catalogue!Begins, FilmsTyped
  <2>2. ca_stale' \subseteq Clerks /\ ca_raced' \in BOOLEAN
    BY <1>0 DEF Catalogue!CreateByHand, Catalogue!Notes, FilmsTyped
  <2> QED
    BY <1>0, <1>1, <2>1, <2>2 DEF Catalogue!CreateByHand, FilmsTyped
\* whoever is at something may now be mistaken
<1>3. ca_job' = ca_job /\ \A x \in Clerks \ ca_stale' : ca_job[x] = Catalogue!Idle
  BY DEF Catalogue!CreateByHand
<1>4. ~ca_raced' /\ ~ca_mixed' => OneOfTmdb(ca_films')
  BY <1>0, <1>1 DEF Catalogue!CreateByHand, Catalogue!Notes, FilmsInv, FilmsTyped, OneOfTmdb
<1> QED
  BY <1>1, <1>2, <1>3, <1>4, IdleKnowsNothing DEF FilmsInv, Keeps

LEMMA FilmsStep ==
  ASSUME FilmsInv, NEW t \in Clerks, Catalogue!Step(t)
  PROVE  FilmsInv' /\ Keeps(t)
BY SearchKeeps, MatchKeeps, CreateKeeps, BackfillKeeps, PosterKeeps, GiveUpKeeps, ImportKeeps,
   ImportLookKeeps, OnAFilmKeeps, CreateByHandKeeps, EditKeeps, AbsorbKeeps, DescribeKeeps
   DEF Catalogue!Step

LEMMA FilmsInit == Catalogue!Init => FilmsInv
<1> SUFFICES ASSUME Catalogue!Init PROVE FilmsInv
  OBVIOUS
<1>1. ca_films = <<>> /\ ca_films \in Seq(Catalogue!Rows) /\ Len(ca_films) = 0 /\ OfTmdb(ca_films) = {}
  BY DEF Catalogue!Init, OfTmdb
<1>2. \A t \in Clerks : ca_job[t] = Catalogue!Idle
  BY DEF Catalogue!Init
<1>3. ca_job \in [Clerks -> JobRecs]
  BY IdleKnowsNothing DEF Catalogue!Init
<1>4. FilmsTyped
  <2>1. ca_requests = 0 /\ ca_requests \in 0..MaxRequests /\ 0 <= MaxFilms
    BY FilmsBounds DEF Catalogue!Init
  <2>2. ca_stale \subseteq Clerks /\ ca_raced \in BOOLEAN /\ ca_mixed \in BOOLEAN
    BY DEF Catalogue!Init
  <2> QED
    BY <1>1, <1>3, <2>1, <2>2 DEF FilmsTyped, JobRecs
<1> QED
  BY <1>1, <1>2, <1>4, IdleKnowsNothing DEF FilmsInv, OneOfTmdb

LEMMA FilmsRest == FilmsInv /\ UNCHANGED Catalogue!vars => FilmsInv'
BY DEF FilmsInv, FilmsTyped, Catalogue!vars, Reads, Sole

LEMMA FilmsMean == FilmsInv => Catalogue!TypeOK /\ Catalogue!OnlyRacedOrMixedDouble
<1> SUFFICES ASSUME FilmsInv PROVE Catalogue!TypeOK /\ Catalogue!OnlyRacedOrMixedDouble
  OBVIOUS
<1>1. Catalogue!TypeOK
  BY DEF FilmsInv, FilmsTyped, Catalogue!TypeOK
<1>2. ASSUME ~ca_raced, ~ca_mixed PROVE ~(Cardinality(Catalogue!Having({"tmdb"})) > 1)
  <2>1. Catalogue!Having({"tmdb"}) = OfTmdb(ca_films) /\ OneOfTmdb(ca_films)
    BY <1>2, Choosing DEF FilmsInv
  <2>2. OfTmdb(ca_films) = {} \/ \E f : OfTmdb(ca_films) = {f}
    BY <2>1 DEF OneOfTmdb
  <2>3. Cardinality(OfTmdb(ca_films)) = 0 \/ Cardinality(OfTmdb(ca_films)) = 1
    BY <2>2, FS_EmptySet, FS_Singleton
  <2> QED
    BY <2>1, <2>3
<1> QED
  BY Counting, <1>1, <1>2 DEF Catalogue!OnlyRacedOrMixedDouble

\* What the films of TMDB keep, whoever is not stale.
LEMMA OnlyStaleOverrule ==
  ASSUME FilmsInv, Catalogue!Next, NEW f \in DOMAIN ca_films, Catalogue!Overruled(f)
  PROVE  \E t \in ca_stale : ca_job'[t] # ca_job[t]
BY FilmsStep DEF Catalogue!Next, Keeps, AllRespected, Respected, Catalogue!Overruled

-----------------------------------------------------------------------------
(* Invitations: the accounts made with one, and the one request for one.     *)

LEMMA InvitesBounds == MaxInvites \in Nat /\ MaxGuests \in Nat \ {0} /\ Limits \subseteq 1 .. MaxGuests
BY ServerAssumption


InUse == {"register", "count", "save"}
Uses(t, i) == iv_job[t].op \in InUse /\ iv_job[t].inv = i
OnRequest(t) == iv_job[t].op \in {"grant", "attach", "withdraw", "toggle"}

InvitesTyped ==
  /\ iv_invite \in [Invited!Invites -> Invited!Rows] /\ iv_made \in 0..MaxInvites
  /\ iv_joined \in [Invited!Invites -> 0..MaxGuests]
  /\ iv_request \in {Invited!None} \cup Invited!Invites
  /\ iv_job \in [Clerks -> [op : {"idle", "register", "count", "save", "grant",
                                "attach", "withdraw", "toggle"},
                          inv : {Invited!None} \cup Invited!Invites, copy : Invited!Rows]]
  /\ iv_granted \subseteq Invited!Invites /\ iv_met \subseteq Invited!Invites /\ iv_torn \subseteq Invited!Invites
  /\ iv_crossed \in BOOLEAN

\* Invitations come one after the other, and are used once they have come.
Numbered ==
  /\ \A i \in Invited!Invites : i > iv_made =>
       iv_joined[i] = 0 /\ ~iv_invite[i].there /\ i \notin iv_granted
  /\ \A t \in Clerks : iv_job[t].op \in InUse \cup {"attach"} => iv_job[t].inv \in 1..iv_made
  /\ \A t \in Clerks : iv_job[t].op \in {"register", "count"} => iv_job[t].copy.used < iv_job[t].copy.limit

\* An invitation with which nobody is under way has counted them all; whoever is
\* alone with it has the count in their hands.
Counted(i) ==
  /\ (\A t \in Clerks : ~Uses(t, i)) =>
       iv_joined[i] = iv_invite[i].used /\ iv_invite[i].used <= iv_invite[i].limit
  /\ \A t, x \in Clerks : Uses(t, i) /\ Uses(x, i) => t = x
  /\ \A t \in Clerks : Uses(t, i) =>
       LET c == iv_job[t].copy
       IN  /\ c.limit = iv_invite[i].limit /\ c.used <= c.limit
           /\ iv_joined[i] = IF iv_job[t].op = "count" THEN c.used + 1 ELSE c.used
           /\ iv_job[t].op = "register" => c.used = iv_invite[i].used

\* What the request has been granted is for one, and is used up when it is used.
ForOne ==
  \A i \in iv_granted :
    /\ iv_invite[i].limit = 1
    /\ \A t \in Clerks : Uses(t, i) =>
         iv_job[t].copy.limit = 1 /\ (iv_job[t].op = "save" => iv_job[t].copy.used # 0)

\* What is granted and can be used is what the request shows, or is being
\* written there.
Granted == {i \in iv_granted : Invited!Usable(i)}
OneGranted ==
  /\ \A t, x \in Clerks : OnRequest(t) /\ OnRequest(x) => t = x
  /\ \A t \in Clerks : iv_job[t].op \in {"grant", "attach"} => iv_request = Invited!None
  /\ \A t \in Clerks : iv_job[t].op = "attach" => Granted \subseteq {iv_job[t].inv}
  /\ \A t \in Clerks : iv_job[t].op = "toggle" => iv_request \in {Invited!None, iv_job[t].inv}
  /\ (\A t \in Clerks : iv_job[t].op # "attach") => Granted \subseteq {iv_request}

InvitesInv ==
  /\ InvitesTyped /\ Numbered /\ ForOne
  /\ \A i \in Invited!Invites \ (iv_met \cup iv_torn) : Counted(i)
  /\ ~iv_crossed => OneGranted

InviteOps == {"idle", "register", "count", "save", "grant", "attach", "withdraw", "toggle"}
InviteJobs == [op : InviteOps, inv : {Invited!None} \cup Invited!Invites, copy : Invited!Rows]

LEMMA InviteFacts ==
  /\ Invited!Unmade \in Invited!Rows /\ Invited!Idle \in InviteJobs /\ Invited!None \notin Invited!Invites
  /\ InvitesTyped => /\ iv_job \in [Clerks -> InviteJobs]
                     /\ \A t \in Clerks : /\ iv_job[t] \in InviteJobs /\ iv_job[t].copy \in Invited!Rows
                                          /\ iv_job[t].inv \in {Invited!None} \cup Invited!Invites
  /\ \A r \in Invited!Rows : /\ r.used \in 0..MaxGuests /\ r.used \in Nat /\ r.limit \in 0..MaxGuests /\ r.limit \in Nat
                             /\ r.there \in BOOLEAN
  /\ \A r \in Invited!Rows : r.used < r.limit => [r EXCEPT !.used = @ + 1] \in Invited!Rows
  /\ \A n \in {1} \cup Limits : [there |-> TRUE, used |-> 0, limit |-> n] \in Invited!Rows
<1>1. Invited!Unmade \in Invited!Rows
  BY InvitesBounds DEF Invited!Unmade, Invited!Rows
<1>2. Invited!Idle \in InviteJobs /\ Invited!None \notin Invited!Invites
  BY <1>1 DEF Invited!Idle, InviteJobs, InviteOps, Invited!None, Invited!Invites
<1>3. InvitesTyped => /\ iv_job \in [Clerks -> InviteJobs]
                      /\ \A t \in Clerks : /\ iv_job[t] \in InviteJobs /\ iv_job[t].copy \in Invited!Rows
                                           /\ iv_job[t].inv \in {Invited!None} \cup Invited!Invites
  BY DEF InvitesTyped, InviteJobs, InviteOps
<1>4. ASSUME NEW r \in Invited!Rows
      PROVE  /\ r.used \in 0..MaxGuests /\ r.used \in Nat /\ r.limit \in 0..MaxGuests /\ r.limit \in Nat
             /\ r.there \in BOOLEAN
  <2>1. r.limit \in {0, 1} \/ r.limit \in 1..MaxGuests
    BY InvitesBounds DEF Invited!Rows
  <2>2. r.limit \in 0..MaxGuests
    BY <2>1, InvitesBounds
  <2>3. r.used \in 0..MaxGuests /\ r.there \in BOOLEAN
    BY DEF Invited!Rows
  <2> QED
    BY <2>2, <2>3
<1>5. ASSUME NEW r \in Invited!Rows, r.used < r.limit PROVE [r EXCEPT !.used = @ + 1] \in Invited!Rows
  <2>1. r.used + 1 \in 0..MaxGuests
    BY <1>4, <1>5, InvitesBounds
  <2> QED
    BY <2>1 DEF Invited!Rows
<1>6. ASSUME NEW n \in {1} \cup Limits PROVE [there |-> TRUE, used |-> 0, limit |-> n] \in Invited!Rows
  BY InvitesBounds DEF Invited!Rows
<1> QED
  BY <1>1, <1>2, <1>3, <1>4, <1>5, <1>6

LEMMA InvitesInit == Invited!Init => InvitesInv
<1> SUFFICES ASSUME Invited!Init PROVE InvitesInv
  OBVIOUS
<1>1. InvitesTyped
  <2>1. iv_invite \in [Invited!Invites -> Invited!Rows] /\ iv_job \in [Clerks -> InviteJobs]
    BY InviteFacts DEF Invited!Init
  <2>2. iv_made \in 0..MaxInvites /\ iv_joined \in [Invited!Invites -> 0..MaxGuests]
    BY InvitesBounds DEF Invited!Init
  <2> QED
    BY <2>1, <2>2 DEF Invited!Init, InvitesTyped, InviteJobs, InviteOps
<1>2. \A t \in Clerks : iv_job[t].op = "idle"
  BY DEF Invited!Init, Invited!Idle
<1>3. Numbered
  BY <1>2 DEF Invited!Init, Numbered, InUse, Invited!Unmade
<1>4. \A i \in Invited!Invites : Counted(i)
  BY <1>2 DEF Invited!Init, Counted, Uses, InUse, Invited!Unmade
<1>5. OneGranted
  BY <1>2 DEF Invited!Init, OneGranted, OnRequest, Granted
<1> QED
  BY <1>1, <1>3, <1>4, <1>5 DEF InvitesInv, ForOne, Invited!Init

\* A step only changes what the thread that takes it does next.
LEMMA InviteStepIsOwn ==
  ASSUME InvitesTyped, NEW t \in Clerks, Invited!Step(t)
  PROVE  \A x \in Clerks \ {t} : iv_job'[x] = iv_job[x]
BY DEF Invited!Step, Invited!Enter, Invited!Register, Invited!Count, Invited!Save, Invited!Die,
   Invited!GrantBegin, Invited!Grant, Invited!Attach, Invited!WithdrawBegin, Invited!Withdraw,
       Invited!ToggleBegin, Invited!Toggle, Invited!Goes, Invited!Ends, InvitesTyped

LEMMA InvitesStayTyped ==
  ASSUME InvitesInv, Invited!Next
  PROVE  InvitesTyped'
<1>0. InvitesTyped /\ Numbered
  BY DEF InvitesInv
<1> USE InviteFacts
<1>a. ASSUME NEW t \in Clerks, NEW r \in InviteJobs, iv_job' = [iv_job EXCEPT ![t] = r]
      PROVE  iv_job' \in [Clerks -> InviteJobs]
  BY <1>0, <1>a
<1>b. ASSUME NEW n \in {1} \cup Limits, Invited!Make(n)
      PROVE  iv_invite' \in [Invited!Invites -> Invited!Rows] /\ iv_made' \in 0..MaxInvites /\ iv_made' \in Invited!Invites
  <2>1. iv_made' \in 0..MaxInvites /\ iv_made' \in Invited!Invites
    BY <1>0, <1>b, InvitesBounds DEF Invited!Make, InvitesTyped, Invited!Invites
  <2> QED
    BY <2>1, <1>0, <1>b DEF Invited!Make, InvitesTyped
<1>c. ASSUME NEW i \in Invited!Invites, Invited!DeleteRow(i)
      PROVE  iv_invite' \in [Invited!Invites -> Invited!Rows] /\ iv_request' \in {Invited!None} \cup Invited!Invites
  <2>0. iv_invite[i] \in Invited!Rows
    BY <1>0 DEF InvitesTyped
  <2>1. [iv_invite[i] EXCEPT !.there = FALSE] \in Invited!Rows
    BY <2>0 DEF Invited!Rows
  <2> QED
    BY <1>0, <1>c, <2>1 DEF Invited!DeleteRow, InvitesTyped
<1>d. 1..iv_made \subseteq Invited!Invites
  BY <1>0, InvitesBounds DEF InvitesTyped, Invited!Invites
<1>1. ASSUME NEW t \in Clerks, NEW i \in Invited!Invites, Invited!Enter(t, i) PROVE InvitesTyped'
  <2>1. [op |-> "register", inv |-> i, copy |-> iv_invite[i]] \in InviteJobs
    BY <1>0 DEF InvitesTyped, InviteJobs, InviteOps
  <2> QED
    BY <1>0, <1>1, <1>a, <2>1 DEF Invited!Enter, Invited!Goes, InvitesTyped, InviteJobs, InviteOps
<1>2. ASSUME NEW t \in Clerks, Invited!Register(t) PROVE InvitesTyped'
  <2>1. [op |-> "count", inv |-> iv_job[t].inv, copy |-> iv_job[t].copy] \in InviteJobs
    BY <1>0 DEF InviteJobs, InviteOps
  <2>2. iv_joined' \in [Invited!Invites -> 0..MaxGuests]
    <3> DEFINE i == iv_job[t].inv
    <3>1. i \in Invited!Invites => iv_joined[i] + 1 \in 0..MaxGuests
      BY <1>0, <1>2, InvitesBounds DEF Invited!Register, InvitesTyped
    <3>2. iv_joined' = [iv_joined EXCEPT ![i] = iv_joined[i] + 1]
      BY <1>2 DEF Invited!Register
    <3> HIDE DEF i
    <3> QED
      BY <1>0, <3>1, <3>2 DEF InvitesTyped
  <2> QED
    BY <1>0, <1>2, <1>a, <2>1, <2>2 DEF Invited!Register, Invited!Goes, InvitesTyped,
       InviteJobs, InviteOps
<1>3. ASSUME NEW t \in Clerks, Invited!Count(t) PROVE InvitesTyped'
  <2>1. iv_job[t].copy.used < iv_job[t].copy.limit /\ iv_job[t].inv \in Invited!Invites
    BY <1>0, <1>3, <1>d DEF Invited!Count, Invited!On, Numbered, InUse
  <2>2. [op |-> "save", inv |-> iv_job[t].inv, copy |-> [iv_job[t].copy EXCEPT !.used = @ + 1]] \in InviteJobs
    BY <1>0, <2>1 DEF InviteJobs, InviteOps
  <2>3. iv_job' \in [Clerks -> InviteJobs]
    BY <1>3, <1>a, <2>2 DEF Invited!Count, Invited!Goes, Invited!Ends
  <2>4. iv_torn' \subseteq Invited!Invites
    BY <1>0, <1>3, <2>1 DEF Invited!Count, InvitesTyped
  <2> QED
    BY <1>0, <1>3, <2>3, <2>4 DEF Invited!Count, InvitesTyped, InviteJobs, InviteOps
<1>4. ASSUME NEW t \in Clerks, Invited!Save(t) PROVE InvitesTyped'
  <2>1. iv_invite' \in [Invited!Invites -> Invited!Rows]
    BY <1>0, <1>4 DEF Invited!Save, InvitesTyped
  <2> QED
    BY <1>0, <1>4, <1>a, <2>1 DEF Invited!Save, Invited!Ends, InvitesTyped, InviteJobs, InviteOps
<1>5. ASSUME NEW t \in Clerks, Invited!Die(t) PROVE InvitesTyped'
  <2>1. iv_torn' \subseteq Invited!Invites
    <3>1. iv_job[t].op \in {"count", "save"} => iv_job[t].inv \in Invited!Invites
      BY <1>0, <1>d DEF Numbered, InUse
    <3> QED
      BY <1>0, <1>5, <3>1 DEF Invited!Die, InvitesTyped
  <2> QED
    BY <1>0, <1>5, <1>a, <2>1 DEF Invited!Die, Invited!Ends, InvitesTyped, InviteJobs, InviteOps
<1>6. ASSUME NEW t \in Clerks, Invited!GrantBegin(t) \/ Invited!WithdrawBegin(t) \/ Invited!ToggleBegin(t) PROVE InvitesTyped'
  <2>1. \A op \in {"grant", "withdraw", "toggle"}, i \in {Invited!None} \cup Invited!Invites :
          [op |-> op, inv |-> i, copy |-> Invited!Unmade] \in InviteJobs
    BY DEF InviteJobs, InviteOps
  <2>2. iv_job' \in [Clerks -> InviteJobs]
    BY <1>0, <1>6, <1>a, <2>1 DEF Invited!GrantBegin, Invited!WithdrawBegin,
       Invited!ToggleBegin, Invited!Goes, InvitesTyped
  <2> QED
    BY <1>0, <1>6, <2>2 DEF Invited!GrantBegin, Invited!WithdrawBegin, Invited!ToggleBegin,
       Invited!Crosses, InvitesTyped, InviteJobs, InviteOps
<1>7. ASSUME NEW t \in Clerks, Invited!Grant(t) PROVE InvitesTyped'
  <2>1. iv_invite' \in [Invited!Invites -> Invited!Rows] /\ iv_made' \in 0..MaxInvites /\ iv_made' \in Invited!Invites
    BY <1>7, <1>b DEF Invited!Grant
  <2>2. [op |-> "attach", inv |-> iv_made', copy |-> Invited!Unmade] \in InviteJobs
    BY <2>1 DEF InviteJobs, InviteOps
  <2>3. iv_job' \in [Clerks -> InviteJobs]
    BY <1>7, <1>a, <2>2 DEF Invited!Grant, Invited!Goes
  <2> QED
    BY <1>0, <1>7, <2>1, <2>3 DEF Invited!Grant, InvitesTyped, InviteJobs, InviteOps
<1>8. ASSUME NEW t \in Clerks, Invited!Attach(t) \/ Invited!Toggle(t) PROVE InvitesTyped'
  <2>1. iv_request' \in {Invited!None} \cup Invited!Invites
    BY <1>0, <1>8 DEF Invited!Attach, Invited!Toggle, InvitesTyped
  <2> QED
    BY <1>0, <1>8, <1>a, <2>1 DEF Invited!Attach, Invited!Toggle, Invited!Ends, InvitesTyped,
       InviteJobs, InviteOps
<1>9. ASSUME NEW t \in Clerks, Invited!Withdraw(t) PROVE InvitesTyped'
  <2>1. iv_invite' \in [Invited!Invites -> Invited!Rows] /\ iv_request' \in {Invited!None} \cup Invited!Invites
    <3>1. CASE iv_job[t].inv \in Invited!Invites
      BY <1>9, <1>c, <3>1 DEF Invited!Withdraw
    <3>2. CASE iv_job[t].inv \notin Invited!Invites
      BY <1>0, <1>9, <3>2 DEF Invited!Withdraw, Invited!DeleteRow, InvitesTyped
    <3> QED
      BY <3>1, <3>2
  <2> QED
    BY <1>0, <1>9, <1>a, <2>1 DEF Invited!Withdraw, Invited!Ends, InvitesTyped, InviteJobs,
       InviteOps
<1>10. ASSUME NEW n \in Limits, Invited!Create(n) PROVE InvitesTyped'
  BY <1>0, <1>10, <1>b DEF Invited!Create, InvitesTyped
<1>11. ASSUME NEW i \in Invited!Invites, Invited!Delete(i) PROVE InvitesTyped'
  BY <1>0, <1>11, <1>c DEF Invited!Delete, InvitesTyped
<1> QED
  BY <1>1, <1>2, <1>3, <1>4, <1>5, <1>6, <1>7, <1>8, <1>9, <1>10, <1>11 DEF Invited!Next,
     Invited!Step

\* What a step by t does to t: what t was at, and what it is at now.
RegistrationDoes(t) ==
  \/ \E i \in Invited!Invites : /\ Invited!Enter(t, i) /\ iv_job[t] = Invited!Idle
                                /\ iv_job'[t] = [op |-> "register", inv |-> i, copy |-> iv_invite[i]]
  \/ /\ Invited!Register(t) /\ iv_job[t].op = "register"
     /\ iv_job'[t] = [op |-> "count", inv |-> iv_job[t].inv, copy |-> iv_job[t].copy]
  \/ /\ Invited!Count(t) /\ iv_job[t].op = "count" /\ iv_invite[iv_job[t].inv].there /\ UNCHANGED iv_torn
     /\ iv_job'[t] = [op |-> "save", inv |-> iv_job[t].inv,
                   copy |-> [iv_job[t].copy EXCEPT !.used = @ + 1]]
  \/ /\ Invited!Count(t) /\ iv_job[t].op = "count" /\ iv_job'[t] = Invited!Idle
     /\ iv_torn' = iv_torn \cup {iv_job[t].inv}
  \/ Invited!Save(t) /\ iv_job[t].op = "save" /\ iv_job'[t] = Invited!Idle
  \/ Invited!Die(t) /\ iv_job'[t] = Invited!Idle
RequestDoes(t) ==
  \/ /\ Invited!GrantBegin(t) /\ iv_job[t] = Invited!Idle
     /\ iv_job'[t] = [op |-> "grant", inv |-> Invited!None, copy |-> Invited!Unmade]
  \/ /\ Invited!Grant(t) /\ iv_job[t].op = "grant"
     /\ iv_job'[t] = [op |-> "attach", inv |-> iv_made', copy |-> Invited!Unmade]
  \/ Invited!Attach(t) /\ iv_job[t].op = "attach" /\ iv_job'[t] = Invited!Idle
  \/ /\ Invited!WithdrawBegin(t) /\ iv_job[t] = Invited!Idle
     /\ iv_job'[t] = [op |-> "withdraw", inv |-> iv_request, copy |-> Invited!Unmade]
  \/ Invited!Withdraw(t) /\ iv_job[t].op = "withdraw" /\ iv_job'[t] = Invited!Idle
  \/ /\ Invited!ToggleBegin(t) /\ iv_job[t] = Invited!Idle
     /\ iv_job'[t] = [op |-> "toggle", inv |-> iv_request, copy |-> Invited!Unmade]
  \/ Invited!Toggle(t) /\ iv_job[t].op = "toggle" /\ iv_job'[t] = Invited!Idle

LEMMA InviteStepDoes ==
  ASSUME InvitesTyped, NEW t \in Clerks, Invited!Step(t)
  PROVE  RegistrationDoes(t) \/ RequestDoes(t)
<1>1. \A r : iv_job' = [iv_job EXCEPT ![t] = r] => iv_job'[t] = r
  BY DEF InvitesTyped
<1>2. ASSUME NEW i \in Invited!Invites, Invited!Enter(t, i)
      PROVE  iv_job[t] = Invited!Idle /\ iv_job'[t] = [op |-> "register", inv |-> i, copy |-> iv_invite[i]]
  BY <1>1, <1>2 DEF Invited!Enter, Invited!Goes
<1>3. ASSUME Invited!Register(t)
      PROVE  iv_job[t].op = "register" /\ iv_job'[t] = [op |-> "count", inv |-> iv_job[t].inv, copy |-> iv_job[t].copy]
  BY <1>1, <1>3 DEF Invited!Register, Invited!Goes, Invited!On
<1>4. ASSUME Invited!Count(t)
      PROVE  /\ iv_job[t].op = "count"
             /\ \/ /\ iv_invite[iv_job[t].inv].there /\ UNCHANGED iv_torn
                   /\ iv_job'[t] = [op |-> "save", inv |-> iv_job[t].inv,
                                 copy |-> [iv_job[t].copy EXCEPT !.used = @ + 1]]
                \/ iv_job'[t] = Invited!Idle /\ iv_torn' = iv_torn \cup {iv_job[t].inv}
  BY <1>1, <1>4 DEF Invited!Count, Invited!Goes, Invited!Ends, Invited!On
<1>5. ASSUME Invited!Save(t) PROVE iv_job[t].op = "save" /\ iv_job'[t] = Invited!Idle
  BY <1>1, <1>5 DEF Invited!Save, Invited!Ends, Invited!On
<1>6. ASSUME Invited!Die(t) PROVE iv_job'[t] = Invited!Idle
  BY <1>1, <1>6 DEF Invited!Die, Invited!Ends
<1>7. ASSUME Invited!GrantBegin(t)
      PROVE  iv_job[t] = Invited!Idle /\ iv_job'[t] = [op |-> "grant", inv |-> Invited!None, copy |-> Invited!Unmade]
  BY <1>1, <1>7 DEF Invited!GrantBegin, Invited!Goes
<1>8. ASSUME Invited!Grant(t)
      PROVE  iv_job[t].op = "grant" /\ iv_job'[t] = [op |-> "attach", inv |-> iv_made', copy |-> Invited!Unmade]
  BY <1>1, <1>8 DEF Invited!Grant, Invited!Goes, Invited!On
<1>9. ASSUME Invited!Attach(t) PROVE iv_job[t].op = "attach" /\ iv_job'[t] = Invited!Idle
  BY <1>1, <1>9 DEF Invited!Attach, Invited!Ends, Invited!On
<1>10. ASSUME Invited!WithdrawBegin(t)
       PROVE  iv_job[t] = Invited!Idle /\ iv_job'[t] = [op |-> "withdraw", inv |-> iv_request, copy |-> Invited!Unmade]
  BY <1>1, <1>10 DEF Invited!WithdrawBegin, Invited!Goes
<1>11. ASSUME Invited!Withdraw(t) PROVE iv_job[t].op = "withdraw" /\ iv_job'[t] = Invited!Idle
  BY <1>1, <1>11 DEF Invited!Withdraw, Invited!Ends, Invited!On
<1>12. ASSUME Invited!ToggleBegin(t)
       PROVE  iv_job[t] = Invited!Idle /\ iv_job'[t] = [op |-> "toggle", inv |-> iv_request, copy |-> Invited!Unmade]
  BY <1>1, <1>12 DEF Invited!ToggleBegin, Invited!Goes
<1>13. ASSUME Invited!Toggle(t) PROVE iv_job[t].op = "toggle" /\ iv_job'[t] = Invited!Idle
  BY <1>1, <1>13 DEF Invited!Toggle, Invited!Ends, Invited!On
<1> QED
  BY <1>2, <1>3, <1>4, <1>5, <1>6, <1>7, <1>8, <1>9, <1>10, <1>11, <1>12, <1>13
     DEF Invited!Step, RegistrationDoes, RequestDoes

\* The rows of invitations: a new one, one less, or one written as t has it.
LEMMA RowsAre ==
  ASSUME InvitesTyped
  PROVE  /\ \A n : Invited!Make(n) => /\ iv_made + 1 \in Invited!Invites /\ iv_made' = iv_made + 1
                                      /\ iv_invite'[iv_made + 1] = [there |-> TRUE, used |-> 0, limit |-> n]
                                      /\ \A i \in Invited!Invites \ {iv_made + 1} : iv_invite'[i] = iv_invite[i]
         /\ \A i : Invited!DeleteRow(i) =>
              \A k \in Invited!Invites : /\ iv_invite'[k].used = iv_invite[k].used /\ iv_invite'[k].limit = iv_invite[k].limit
                                         /\ iv_invite'[k].there => iv_invite[k].there
                                         /\ k = i => ~iv_invite'[k].there
         /\ \A t : Invited!Save(t) =>
              \A k \in Invited!Invites : iv_invite'[k] = IF k = iv_job[t].inv THEN iv_job[t].copy ELSE iv_invite[k]
<1>1. ASSUME NEW n, Invited!Make(n)
      PROVE  /\ iv_made + 1 \in Invited!Invites /\ iv_made' = iv_made + 1
             /\ iv_invite'[iv_made + 1] = [there |-> TRUE, used |-> 0, limit |-> n]
             /\ \A i \in Invited!Invites \ {iv_made + 1} : iv_invite'[i] = iv_invite[i]
  <2>1. iv_made + 1 \in Invited!Invites /\ iv_made' = iv_made + 1
    BY <1>1, InvitesBounds DEF Invited!Make, InvitesTyped, Invited!Invites
  <2> QED
    BY <1>1, <2>1 DEF Invited!Make, InvitesTyped
<1>2. ASSUME NEW i, Invited!DeleteRow(i), NEW k \in Invited!Invites
      PROVE  /\ iv_invite'[k].used = iv_invite[k].used /\ iv_invite'[k].limit = iv_invite[k].limit
             /\ iv_invite'[k].there => iv_invite[k].there
             /\ k = i => ~iv_invite'[k].there
  <2>1. iv_invite[k] \in Invited!Rows
    BY DEF InvitesTyped
  <2>2. iv_invite'[k] = IF k = i THEN [iv_invite[k] EXCEPT !.there = FALSE] ELSE iv_invite[k]
    BY <1>2 DEF Invited!DeleteRow, InvitesTyped
  <2> QED
    BY <2>1, <2>2 DEF Invited!Rows
<1>3. ASSUME NEW t, Invited!Save(t), NEW k \in Invited!Invites
      PROVE  iv_invite'[k] = IF k = iv_job[t].inv THEN iv_job[t].copy ELSE iv_invite[k]
  BY <1>3 DEF Invited!Save, InvitesTyped
<1> QED
  BY <1>1, <1>2, <1>3

LEMMA InvitesStayNumbered ==
  ASSUME InvitesInv, Invited!Next
  PROVE  Numbered'
<1>0. InvitesTyped /\ Numbered /\ InvitesTyped' /\ iv_made \in Nat
  BY InvitesStayTyped, InvitesBounds DEF InvitesInv, InvitesTyped
<1>1. iv_made' \in Nat /\ iv_made <= iv_made'
  <2>1. iv_made' = iv_made \/ iv_made' = iv_made + 1
    BY <1>0, RowsAre DEF Invited!Next, Invited!Step, Invited!Enter, Invited!Register,
       Invited!Count, Invited!Save, Invited!Die, Invited!GrantBegin, Invited!Grant,
       Invited!Attach,
       Invited!WithdrawBegin, Invited!Withdraw, Invited!ToggleBegin, Invited!Toggle,
       Invited!Create, Invited!Delete
  <2> QED
    BY <2>1, <1>0
<1>2. \A t \in Clerks : /\ iv_job'[t].op \in InUse \cup {"attach"} => iv_job'[t].inv \in 1..iv_made'
                        /\ iv_job'[t].op \in {"register", "count"} => iv_job'[t].copy.used < iv_job'[t].copy.limit
  <2>1. ASSUME NEW t \in Clerks, Invited!Step(t)
        PROVE  /\ iv_job'[t].op \in InUse \cup {"attach"} => iv_job'[t].inv \in 1..iv_made'
               /\ iv_job'[t].op \in {"register", "count"} => iv_job'[t].copy.used < iv_job'[t].copy.limit
    <3>1. ASSUME NEW i \in Invited!Invites, Invited!Enter(t, i), iv_job'[t] = [op |-> "register", inv |-> i, copy |-> iv_invite[i]]
          PROVE  i \in 1..iv_made' /\ iv_invite[i].used < iv_invite[i].limit
      BY <1>0, <3>1 DEF Invited!Enter, Invited!Valid, Numbered, Invited!Invites
    <3>2. Invited!Grant(t) => iv_made' \in 1..iv_made'
      <4>1. Invited!Grant(t) => iv_made' = iv_made + 1
        BY <1>0, RowsAre DEF Invited!Grant
      <4> QED
        BY <4>1, <1>0, <1>1
    <3>3. iv_job[t].op \in InUse => iv_job[t].inv \in 1..iv_made'
      BY <1>0, <1>1 DEF Numbered
    <3>4. iv_job[t].op \in {"register", "count"} => iv_job[t].copy.used < iv_job[t].copy.limit
      BY <1>0 DEF Numbered
    <3>6. CASE iv_job'[t] = Invited!Idle
      BY <3>6 DEF Invited!Idle, InUse
    <3>7. CASE \E i \in Invited!Invites : Invited!Enter(t, i) /\ iv_job'[t] = [op |-> "register", inv |-> i, copy |-> iv_invite[i]]
      BY <3>1, <3>7
    <3>8. CASE iv_job[t].op = "register" /\ iv_job'[t] = [op |-> "count", inv |-> iv_job[t].inv, copy |-> iv_job[t].copy]
      BY <3>3, <3>4, <3>8 DEF InUse
    <3>9. CASE iv_job[t].op = "count" /\ iv_job'[t] = [op |-> "save", inv |-> iv_job[t].inv,
                                                   copy |-> [iv_job[t].copy EXCEPT !.used = @ + 1]]
      BY <3>3, <3>9 DEF InUse
    <3>10. CASE iv_job'[t] = [op |-> "attach", inv |-> iv_made', copy |-> Invited!Unmade] /\ Invited!Grant(t)
      BY <3>2, <3>10
    <3>11. CASE iv_job'[t].op \in {"grant", "withdraw", "toggle"}
      BY <3>11 DEF InUse
    <3> QED
      BY <2>1, <1>0, <3>6, <3>7, <3>8, <3>9, <3>10, <3>11, InviteStepDoes
         DEF RegistrationDoes, RequestDoes
  <2>2. \A t \in Clerks : iv_job'[t] = iv_job[t] =>
          /\ iv_job'[t].op \in InUse \cup {"attach"} => iv_job'[t].inv \in 1..iv_made'
          /\ iv_job'[t].op \in {"register", "count"} => iv_job'[t].copy.used < iv_job'[t].copy.limit
    BY <1>0, <1>1 DEF Numbered
  <2> QED
    BY <2>1, <2>2, <1>0, InviteStepIsOwn DEF Invited!Next, Invited!Create, Invited!Delete
<1>3. ASSUME NEW i \in Invited!Invites, i > iv_made'
      PROVE  iv_joined'[i] = 0 /\ ~iv_invite'[i].there /\ i \notin iv_granted'
  <2>1. iv_joined[i] = 0 /\ ~iv_invite[i].there /\ i \notin iv_granted /\ i # iv_made'
    BY <1>0, <1>1, <1>3 DEF Numbered, Invited!Invites
  <2>2. iv_joined'[i] = 0
    <3>1. ASSUME NEW t \in Clerks, Invited!Register(t) PROVE iv_joined'[i] = iv_joined[i]
      <4>1. iv_job[t].inv # i
        BY <1>0, <1>1, <1>3, <3>1 DEF Invited!Register, Invited!On, Numbered, InUse, Invited!Invites
      <4> QED
        BY <1>0, <3>1, <4>1 DEF Invited!Register, InvitesTyped
    <3> QED
      BY <2>1, <3>1 DEF Invited!Next, Invited!Step, Invited!Enter, Invited!Count, Invited!Save,
         Invited!Die, Invited!GrantBegin, Invited!Grant, Invited!Attach, Invited!WithdrawBegin,
         Invited!Withdraw, Invited!ToggleBegin, Invited!Toggle, Invited!Create, Invited!Delete
  <2>3. i \notin iv_granted'
    BY <2>1 DEF Invited!Next, Invited!Step, Invited!Enter, Invited!Register, Invited!Count,
       Invited!Save, Invited!Die, Invited!GrantBegin, Invited!Grant, Invited!Attach,
       Invited!WithdrawBegin,
       Invited!Withdraw, Invited!ToggleBegin, Invited!Toggle, Invited!Create, Invited!Delete
  <2>4. ~iv_invite'[i].there
    <3>1. ASSUME NEW t \in Clerks, Invited!Save(t) PROVE iv_invite'[i] = iv_invite[i]
      <4>1. iv_job[t].inv # i
        BY <1>0, <1>1, <1>3, <3>1 DEF Invited!Save, Invited!On, Numbered, InUse, Invited!Invites
      <4> QED
        BY <1>0, <3>1, <4>1 DEF Invited!Save, InvitesTyped
    <3>2. ASSUME NEW n, Invited!Make(n) PROVE iv_invite'[i] = iv_invite[i]
      BY <1>0, <2>1, <3>2, RowsAre
    <3>3. ASSUME NEW k, Invited!DeleteRow(k) PROVE ~iv_invite'[i].there
      BY <1>0, <2>1, <3>3, RowsAre
    <3> QED
      BY <2>1, <3>1, <3>2, <3>3 DEF Invited!Next, Invited!Step, Invited!Enter, Invited!Register,
         Invited!Count, Invited!Die, Invited!GrantBegin, Invited!Grant, Invited!Attach,
         Invited!WithdrawBegin, Invited!Withdraw, Invited!ToggleBegin, Invited!Toggle,
         Invited!Create, Invited!Delete
  <2> QED
    BY <2>2, <2>3, <2>4
<1> QED
  BY <1>2, <1>3 DEF Numbered

LEMMA ForOneStays ==
  ASSUME InvitesInv, Invited!Next
  PROVE  ForOne'
<1>0. InvitesTyped /\ Numbered /\ ForOne /\ InvitesTyped' /\ Numbered' /\ iv_made \in Nat
  BY InvitesStayTyped, InvitesStayNumbered, InvitesBounds DEF InvitesInv, InvitesTyped
<1> SUFFICES ASSUME NEW i \in iv_granted'
             PROVE  /\ iv_invite'[i].limit = 1
                    /\ \A t \in Clerks : Uses(t, i)' =>
                         iv_job'[t].copy.limit = 1 /\ (iv_job'[t].op = "save" => iv_job'[t].copy.used # 0)
  BY DEF ForOne
<1>1. i \in Invited!Invites
  BY <1>0 DEF InvitesTyped
<1>2. CASE i \in iv_granted
  <2>0. iv_invite[i].limit = 1 /\ i <= iv_made /\ i # iv_made + 1
    BY <1>0, <1>1, <1>2 DEF ForOne, Numbered, Invited!Invites
  <2>1. iv_invite'[i].limit = 1
    <3>1. ASSUME NEW t \in Clerks, Invited!Save(t) PROVE iv_invite'[i].limit = 1
      <4>1. iv_job[t].inv = i => iv_job[t].copy.limit = 1
        BY <1>0, <1>2, <3>1 DEF ForOne, Uses, InUse, Invited!Save, Invited!On
      <4> QED
        BY <4>1, <3>1, <1>0, <1>1, <2>0, RowsAre
    <3>2. ASSUME NEW n, Invited!Make(n) PROVE iv_invite'[i].limit = 1
      BY <3>2, <1>0, <1>1, <2>0, RowsAre
    <3>3. ASSUME NEW k, Invited!DeleteRow(k) PROVE iv_invite'[i].limit = 1
      BY <3>3, <1>0, <1>1, <2>0, RowsAre
    <3> QED
      BY <2>0, <3>1, <3>2, <3>3 DEF Invited!Next, Invited!Step, Invited!Enter, Invited!Register,
         Invited!Count, Invited!Die, Invited!GrantBegin, Invited!Grant, Invited!Attach,
         Invited!WithdrawBegin, Invited!Withdraw, Invited!ToggleBegin, Invited!Toggle,
         Invited!Create, Invited!Delete
  <2>2. ASSUME NEW t \in Clerks, Uses(t, i)'
        PROVE  iv_job'[t].copy.limit = 1 /\ (iv_job'[t].op = "save" => iv_job'[t].copy.used # 0)
    <3>1. CASE iv_job'[t] = iv_job[t]
      BY <3>1, <2>2, <1>0, <1>2 DEF ForOne, Uses
    <3>2. CASE Invited!Step(t)
      <4>1. CASE \E k \in Invited!Invites : iv_job'[t] = [op |-> "register", inv |-> k, copy |-> iv_invite[k]]
        BY <4>1, <2>0, <2>2 DEF Uses
      <4>2. CASE iv_job[t].op = "register" /\ iv_job'[t] = [op |-> "count", inv |-> iv_job[t].inv, copy |-> iv_job[t].copy]
        BY <4>2, <2>2, <1>0, <1>2 DEF ForOne, Uses, InUse
      <4>3. CASE iv_job[t].op = "count" /\ iv_job'[t] = [op |-> "save", inv |-> iv_job[t].inv,
                                                    copy |-> [iv_job[t].copy EXCEPT !.used = @ + 1]]
        <5>1. iv_job[t].copy \in Invited!Rows
          BY <1>0, InviteFacts
        <5>2. iv_job[t].copy.limit = 1
          BY <4>3, <2>2, <1>0, <1>2 DEF ForOne, Uses, InUse
        <5>3. iv_job'[t].copy.limit = iv_job[t].copy.limit /\ iv_job'[t].copy.used = iv_job[t].copy.used + 1
          BY <4>3, <5>1 DEF Invited!Rows
        <5>4. iv_job[t].copy.used \in Nat
          BY <5>1, InviteFacts
        <5> QED
          BY <5>2, <5>3, <5>4
      <4>4. CASE iv_job'[t] = Invited!Idle \/ iv_job'[t].op \in {"grant", "attach", "withdraw", "toggle"}
        BY <4>4, <2>2 DEF Uses, InUse, Invited!Idle
      <4> QED
        BY <3>2, <1>0, <4>1, <4>2, <4>3, <4>4, InviteStepDoes
           DEF RegistrationDoes, RequestDoes
    <3> QED
      BY <3>1, <3>2, <1>0, InviteStepIsOwn DEF Invited!Next, Invited!Create, Invited!Delete
  <2> QED
    BY <2>1, <2>2
<1>3. CASE i \notin iv_granted
  <2>1. PICK t \in Clerks : Invited!Grant(t) /\ i = iv_made'
    BY <1>3 DEF Invited!Next, Invited!Step, Invited!Enter, Invited!Register, Invited!Count,
       Invited!Save, Invited!Die, Invited!GrantBegin, Invited!Grant, Invited!Attach,
       Invited!WithdrawBegin,
       Invited!Withdraw, Invited!ToggleBegin, Invited!Toggle, Invited!Create, Invited!Delete
  <2>2. i = iv_made + 1 /\ iv_invite'[i].limit = 1
    <3>1. Invited!Make(1) /\ i = iv_made'
      BY <2>1 DEF Invited!Grant
    <3>2. i = iv_made + 1 /\ iv_invite'[i] = [there |-> TRUE, used |-> 0, limit |-> 1]
      BY <3>1, <1>0, RowsAre
    <3> QED
      BY <3>2
  <2>3. Invited!Step(t)
    BY <2>1 DEF Invited!Step
  <2>4. \A x \in Clerks : ~Uses(x, i)'
    <3>1. ~Uses(t, i)'
      BY <2>1, <1>0 DEF Invited!Grant, Invited!Goes, Uses, InUse, InvitesTyped
    <3>2. ASSUME NEW x \in Clerks \ {t}, Uses(x, i)' PROVE FALSE
      <4>1. iv_job'[x] = iv_job[x]
        BY <2>3, <1>0, InviteStepIsOwn
      <4>2. iv_job[x].inv \in 1..iv_made
        BY <4>1, <3>2, <1>0 DEF Uses, Numbered
      <4> QED
        BY <4>1, <4>2, <3>2, <2>2, <1>0 DEF Uses
    <3> QED
      BY <3>1, <3>2
  <2> QED
    BY <2>2, <2>4
<1> QED
  BY <1>2, <1>3

\* When neither the row of i nor the accounts made with it change, and nobody
\* begins or ends with it, i is counted as before.
LEMMA CountedFrame ==
  ASSUME NEW i \in Invited!Invites, Counted(i), iv_joined'[i] = iv_joined[i],
         iv_invite'[i].used = iv_invite[i].used, iv_invite'[i].limit = iv_invite[i].limit,
         \A t \in Clerks : iv_job'[t] = iv_job[t] \/ (~Uses(t, i) /\ ~Uses(t, i)')
  PROVE  Counted(i)'
BY DEF Counted, Uses

LEMMA CountedStays ==
  ASSUME InvitesInv, Invited!Next, NEW i \in Invited!Invites, i \notin iv_met', i \notin iv_torn'
  PROVE  Counted(i)'
<1>0. /\ InvitesTyped /\ Numbered /\ InvitesTyped' /\ Numbered'
      /\ iv_invite[i] \in Invited!Rows /\ iv_joined[i] \in Nat
  BY InvitesStayTyped, InvitesStayNumbered, InvitesBounds DEF InvitesInv, InvitesTyped
<1>1. Counted(i)
  <2>1. i \notin iv_met /\ i \notin iv_torn
    BY DEF Invited!Next, Invited!Step, Invited!Enter, Invited!Register, Invited!Count,
       Invited!Save, Invited!Die, Invited!GrantBegin, Invited!Grant, Invited!Attach,
       Invited!WithdrawBegin,
       Invited!Withdraw, Invited!ToggleBegin, Invited!Toggle, Invited!Create, Invited!Delete
  <2> QED
    BY <2>1 DEF InvitesInv
\* a new invitation
<1>2. ASSUME NEW n, Invited!Make(n), iv_joined' = iv_joined,
             \A t \in Clerks : iv_job'[t] = iv_job[t] \/ (~Uses(t, i) /\ ~Uses(t, i)')
      PROVE  Counted(i)'
  <2>1. CASE i = iv_made + 1
    <3>1. iv_joined[i] = 0 /\ \A t \in Clerks : ~Uses(t, i)
      <4>1. i > iv_made /\ i \notin 1..iv_made
        BY <2>1, InvitesBounds, <1>0 DEF InvitesTyped
      <4> QED
        BY <4>1, <1>0 DEF Numbered, Uses
    <3>2. \A t \in Clerks : ~Uses(t, i)'
      BY <1>2, <3>1 DEF Uses
    <3>3. iv_invite'[i].used = 0 /\ iv_invite'[i] \in Invited!Rows
      <4>1. iv_invite'[i] = [there |-> TRUE, used |-> 0, limit |-> n]
        BY <1>0, <1>2, <2>1, RowsAre
      <4>2. iv_invite'[i] \in Invited!Rows
        BY <1>0 DEF InvitesTyped
      <4> QED
        BY <4>1, <4>2
    <3>4. 0 <= iv_invite'[i].limit
      BY <3>3, InviteFacts
    <3> QED
      BY <1>2, <3>1, <3>2, <3>3, <3>4 DEF Counted
  <2>2. CASE i # iv_made + 1
    <3>1. iv_invite'[i] = iv_invite[i]
      BY <1>0, <1>2, <2>2, RowsAre
    <3> QED
      BY <1>1, <1>2, <3>1, CountedFrame
  <2> QED
    BY <2>1, <2>2
\* one less
<1>3. ASSUME NEW k, Invited!DeleteRow(k), iv_joined' = iv_joined,
             \A t \in Clerks : iv_job'[t] = iv_job[t] \/ (~Uses(t, i) /\ ~Uses(t, i)')
      PROVE  Counted(i)'
  <2>1. iv_invite'[i].used = iv_invite[i].used /\ iv_invite'[i].limit = iv_invite[i].limit
    BY <1>0, <1>3, RowsAre
  <2> QED
    BY <1>1, <1>3, <2>1, CountedFrame
<1>4. ASSUME NEW t \in Clerks, Invited!Step(t) PROVE Counted(i)'
  <2>0. \A x \in Clerks \ {t} : iv_job'[x] = iv_job[x]
    BY <1>0, <1>4, InviteStepIsOwn
  <2>1. ASSUME iv_job[t] = Invited!Idle \/ OnRequest(t), iv_job'[t] = Invited!Idle \/ OnRequest(t)'
        PROVE  \A x \in Clerks : iv_job'[x] = iv_job[x] \/ (~Uses(x, i) /\ ~Uses(x, i)')
    BY <2>0, <2>1 DEF OnRequest, Uses, InUse, Invited!Idle
  \* alone with i, or not with it at all
  <2>2. ASSUME Uses(t, i)
        PROVE  /\ \A x \in Clerks \ {t} : ~Uses(x, i) /\ ~Uses(x, i)'
               /\ iv_job[t].copy.limit = iv_invite[i].limit /\ iv_job[t].copy.used <= iv_job[t].copy.limit
               /\ iv_joined[i] = IF iv_job[t].op = "count" THEN iv_job[t].copy.used + 1 ELSE iv_job[t].copy.used
               /\ iv_job[t].op = "register" => iv_job[t].copy.used = iv_invite[i].used
               /\ iv_job[t].copy \in Invited!Rows
    <3>1. \A x \in Clerks \ {t} : ~Uses(x, i)
      BY <1>1, <2>2 DEF Counted
    <3>2. \A x \in Clerks \ {t} : ~Uses(x, i)'
      BY <2>0, <3>1 DEF Uses
    <3>3. iv_job[t].copy \in Invited!Rows
      BY <1>0, InviteFacts
    <3> QED
      BY <1>1, <2>2, <3>1, <3>2, <3>3 DEF Counted
  <2>3. ASSUME NEW k \in Invited!Invites, Invited!Enter(t, k), iv_job[t] = Invited!Idle,
               iv_job'[t] = [op |-> "register", inv |-> k, copy |-> iv_invite[k]]
        PROVE  Counted(i)'
    <3>1. CASE k # i
      <4>1. ~Uses(t, i) /\ ~Uses(t, i)'
        BY <2>3, <3>1 DEF Uses, InUse, Invited!Idle
      <4> QED
        BY <4>1, <1>1, <2>0, <2>3, CountedFrame DEF Invited!Enter
    <3>2. CASE k = i
      <4>1. \A x \in Clerks : ~Uses(x, i)
        <5>1. Invited!Using(i) = {}
          BY <2>3, <3>2 DEF Invited!Enter
        <5> QED
          BY <5>1 DEF Invited!Using, Uses, InUse
      <4>2. \A x \in Clerks \ {t} : ~Uses(x, i)'
        BY <4>1, <2>0 DEF Uses
      <4>3. iv_joined' = iv_joined /\ iv_invite' = iv_invite
        BY <2>3 DEF Invited!Enter
      <4>4. iv_joined[i] = iv_invite[i].used /\ iv_invite[i].used <= iv_invite[i].limit
        BY <4>1, <1>1 DEF Counted
      <4> QED
        BY <2>3, <3>2, <4>2, <4>3, <4>4 DEF Counted, Uses, InUse
    <3> QED
      BY <3>1, <3>2
  <2>4. ASSUME Invited!Register(t), iv_job[t].op = "register",
               iv_job'[t] = [op |-> "count", inv |-> iv_job[t].inv, copy |-> iv_job[t].copy]
        PROVE  Counted(i)'
    <3>1. CASE iv_job[t].inv # i
      <4>1. ~Uses(t, i) /\ ~Uses(t, i)' /\ iv_joined'[i] = iv_joined[i]
        BY <1>0, <2>4, <3>1 DEF Uses, Invited!Register, InvitesTyped
      <4> QED
        BY <4>1, <1>1, <2>0, <2>4, CountedFrame DEF Invited!Register
    <3>2. CASE iv_job[t].inv = i
      <4>1. Uses(t, i)
        BY <2>4, <3>2 DEF Uses, InUse
      <4>2. iv_joined'[i] = iv_joined[i] + 1 /\ iv_invite' = iv_invite
        BY <1>0, <2>4, <3>2 DEF Invited!Register, InvitesTyped
      <4>3. Uses(t, i)' /\ iv_job'[t].op = "count" /\ iv_job'[t].copy = iv_job[t].copy
        BY <2>4, <3>2 DEF Uses, InUse
      <4>4. iv_joined'[i] = iv_job'[t].copy.used + 1
        BY <2>2, <2>4, <4>1, <4>2, <4>3
      <4> QED
        BY <2>2, <4>1, <4>2, <4>3, <4>4 DEF Counted
    <3> QED
      BY <3>1, <3>2
  <2>5. ASSUME Invited!Count(t), iv_job[t].op = "count", UNCHANGED iv_torn,
               iv_job'[t] = [op |-> "save", inv |-> iv_job[t].inv, copy |-> [iv_job[t].copy EXCEPT !.used = @ + 1]]
        PROVE  Counted(i)'
    <3>1. CASE iv_job[t].inv # i
      <4>1. ~Uses(t, i) /\ ~Uses(t, i)'
        BY <2>5, <3>1 DEF Uses
      <4> QED
        BY <4>1, <1>1, <2>0, <2>5, CountedFrame DEF Invited!Count
    <3>2. CASE iv_job[t].inv = i
      <4>1. Uses(t, i) /\ Uses(t, i)' /\ iv_job'[t].op = "save"
        BY <2>5, <3>2 DEF Uses, InUse
      <4>2. iv_joined' = iv_joined /\ iv_invite' = iv_invite
        BY <2>5 DEF Invited!Count
      <4>3. iv_job[t].copy \in Invited!Rows
        BY <2>2, <4>1
      <4>4. iv_job'[t].copy.used = iv_job[t].copy.used + 1 /\ iv_job'[t].copy.limit = iv_job[t].copy.limit
        BY <2>5, <4>3 DEF Invited!Rows
      <4>5. iv_job[t].copy.used \in Nat /\ iv_job[t].copy.limit \in Nat /\ iv_job[t].copy.used < iv_job[t].copy.limit
        BY <1>0, <2>5, <4>3, InviteFacts DEF Numbered
      <4>6. iv_job'[t].copy.used <= iv_job'[t].copy.limit
        BY <4>4, <4>5
      <4>7. iv_joined[i] = iv_job'[t].copy.used
        BY <2>2, <2>5, <4>1, <4>4
      <4> QED
        BY <2>2, <4>1, <4>2, <4>4, <4>6, <4>7 DEF Counted
    <3> QED
      BY <3>1, <3>2
  <2>6. ASSUME Invited!Count(t), iv_job[t].op = "count", iv_torn' = iv_torn \cup {iv_job[t].inv}, iv_job'[t] = Invited!Idle
        PROVE  Counted(i)'
    <3>1. ~Uses(t, i) /\ ~Uses(t, i)'
      BY <2>6 DEF Uses, InUse, Invited!Idle
    <3> QED
      BY <3>1, <1>1, <2>0, <2>6, CountedFrame DEF Invited!Count
  <2>7. ASSUME Invited!Save(t), iv_job[t].op = "save", iv_job'[t] = Invited!Idle
        PROVE  Counted(i)'
    <3>0. iv_joined' = iv_joined /\ iv_invite'[i] = IF i = iv_job[t].inv THEN iv_job[t].copy ELSE iv_invite[i]
      <4>1. iv_joined' = iv_joined
        BY <2>7 DEF Invited!Save
      <4> QED
        BY <4>1, <1>0, <2>7, RowsAre
    <3>1. CASE iv_job[t].inv # i
      <4>1. ~Uses(t, i) /\ ~Uses(t, i)'
        BY <2>7, <3>1 DEF Uses, InUse, Invited!Idle
      <4> QED
        BY <4>1, <1>1, <2>0, <3>0, <3>1, CountedFrame
    <3>2. CASE iv_job[t].inv = i
      <4>1. Uses(t, i)
        BY <2>7, <3>2 DEF Uses, InUse
      <4>2. \A x \in Clerks : ~Uses(x, i)'
        BY <2>2, <2>7, <4>1 DEF Uses, InUse, Invited!Idle
      <4> QED
        BY <2>2, <2>7, <3>0, <3>2, <4>1, <4>2 DEF Counted
    <3> QED
      BY <3>1, <3>2
  <2>8. ASSUME Invited!Die(t), iv_job'[t] = Invited!Idle
        PROVE  Counted(i)'
    <3>0. UNCHANGED <<iv_invite, iv_joined>>
      BY <2>8 DEF Invited!Die
    <3>1. CASE Uses(t, i)
      <4>1. iv_job[t].op = "register"
        BY <2>8, <3>1 DEF Invited!Die, Uses, InUse
      <4>2. \A x \in Clerks : ~Uses(x, i)'
        BY <2>2, <2>8, <3>1 DEF Uses, InUse, Invited!Idle
      <4> QED
        BY <2>2, <3>0, <3>1, <4>1, <4>2 DEF Counted
    <3>2. CASE ~Uses(t, i)
      <4>1. ~Uses(t, i)'
        BY <2>8 DEF Uses, InUse, Invited!Idle
      <4> QED
        BY <4>1, <3>2, <1>1, <2>0, <3>0, CountedFrame
    <3> QED
      BY <3>1, <3>2
  <2>9. ASSUME Invited!Grant(t), iv_job[t].op = "grant", iv_job'[t] = [op |-> "attach", inv |-> iv_made', copy |-> Invited!Unmade]
        PROVE  Counted(i)'
    <3>1. iv_job'[t].op = "attach"
      BY <2>9
    <3> QED
      BY <1>2, <2>1, <2>9, <3>1 DEF Invited!Grant, OnRequest
  <2>10. ASSUME Invited!Withdraw(t), iv_job[t].op = "withdraw", iv_job'[t] = Invited!Idle
        PROVE  Counted(i)'
    BY <1>3, <2>1, <2>10 DEF Invited!Withdraw, OnRequest
  <2>11. ASSUME UNCHANGED <<iv_invite, iv_joined>>, iv_job[t] = Invited!Idle \/ OnRequest(t), iv_job'[t] = Invited!Idle \/ OnRequest(t)'
         PROVE  Counted(i)'
    BY <1>1, <2>1, <2>11, CountedFrame
  <2>12. ASSUME iv_job[t] = Invited!Idle,
                \/ Invited!GrantBegin(t) /\ iv_job'[t] = [op |-> "grant", inv |-> Invited!None, copy |-> Invited!Unmade]
                \/ Invited!WithdrawBegin(t) /\ iv_job'[t] = [op |-> "withdraw", inv |-> iv_request, copy |-> Invited!Unmade]
                \/ Invited!ToggleBegin(t) /\ iv_job'[t] = [op |-> "toggle", inv |-> iv_request, copy |-> Invited!Unmade]
         PROVE  Counted(i)'
    <3>1. UNCHANGED <<iv_invite, iv_joined>>
      BY <2>12 DEF Invited!GrantBegin, Invited!WithdrawBegin, Invited!ToggleBegin
    <3>2. iv_job'[t].op \in {"grant", "withdraw", "toggle"}
      BY <2>12
    <3> QED
      BY <3>1, <3>2, <2>11, <2>12 DEF OnRequest
  <2>13. ASSUME (Invited!Attach(t) /\ iv_job[t].op = "attach") \/ (Invited!Toggle(t) /\ iv_job[t].op = "toggle"), iv_job'[t] = Invited!Idle
         PROVE  Counted(i)'
    <3>1. UNCHANGED <<iv_invite, iv_joined>>
      BY <2>13 DEF Invited!Attach, Invited!Toggle
    <3> QED
      BY <3>1, <2>11, <2>13 DEF OnRequest
  <2>14. CASE RegistrationDoes(t)
    BY <2>3, <2>4, <2>5, <2>6, <2>7, <2>8, <2>14 DEF RegistrationDoes
  <2>15. CASE RequestDoes(t)
    BY <2>9, <2>10, <2>12, <2>13, <2>15 DEF RequestDoes
  <2> QED
    BY <1>0, <1>4, <2>14, <2>15, InviteStepDoes
<1>5. ASSUME NEW n \in Limits, Invited!Create(n) PROVE Counted(i)'
  BY <1>2, <1>5 DEF Invited!Create
<1>6. ASSUME NEW k \in Invited!Invites, Invited!Delete(k) PROVE Counted(i)'
  BY <1>3, <1>6 DEF Invited!Delete
<1> QED
  BY <1>4, <1>5, <1>6 DEF Invited!Next

LEMMA OneGrantedStays ==
  ASSUME InvitesInv, Invited!Next, ~iv_crossed'
  PROVE  OneGranted'
<1>0. /\ InvitesTyped /\ Numbered /\ ForOne /\ InvitesTyped' /\ Numbered' /\ ForOne'
      /\ iv_made \in Nat
  BY InvitesStayTyped, InvitesStayNumbered, ForOneStays, InvitesBounds DEF InvitesInv, InvitesTyped
<1>1. ~iv_crossed /\ OneGranted
  <2>1. iv_crossed => iv_crossed'
    BY DEF Invited!Next, Invited!Step, Invited!Enter, Invited!Register, Invited!Count,
       Invited!Save, Invited!Die, Invited!GrantBegin, Invited!Grant, Invited!Attach,
       Invited!WithdrawBegin,
       Invited!Withdraw, Invited!ToggleBegin, Invited!Toggle, Invited!Create, Invited!Delete,
       Invited!Crosses
  <2> QED
    BY <2>1 DEF InvitesInv
\* what is granted and can be used only grows by Grant
<1>2. Invited!None \notin Granted /\ Granted \subseteq Invited!Invites
  BY <1>0, InviteFacts DEF Granted, InvitesTyped
<1>3. ASSUME NEW t \in Clerks, Invited!Save(t) PROVE Granted' \subseteq Granted
  <2> SUFFICES ASSUME NEW i \in iv_granted, Invited!Usable(i)' PROVE Invited!Usable(i)
    BY <1>3 DEF Invited!Save, Granted
  <2>1. i \in Invited!Invites
    BY <1>0 DEF InvitesTyped
  <2>2. CASE iv_job[t].inv = i
    <3>1. iv_invite'[i] = iv_job[t].copy /\ iv_job[t].copy \in Invited!Rows
      BY <1>0, <1>3, <2>1, <2>2, RowsAre, InviteFacts
    <3>2. iv_job[t].copy.limit = 1 /\ iv_job[t].copy.used # 0
      BY <1>0, <1>3, <2>2 DEF ForOne, Uses, InUse, Invited!Save, Invited!On
    <3>3. iv_job[t].copy.used \in Nat
      BY <3>1, InviteFacts
    <3> QED
      BY <3>1, <3>2, <3>3 DEF Invited!Usable
  <2>3. CASE iv_job[t].inv # i
    <3>1. iv_invite'[i] = iv_invite[i]
      BY <1>0, <1>3, <2>1, <2>3, RowsAre
    <3> QED
      BY <3>1 DEF Invited!Usable
  <2> QED
    BY <2>2, <2>3
<1>4. ASSUME NEW k, Invited!DeleteRow(k), iv_granted' = iv_granted
      PROVE  /\ Granted' \subseteq Granted \ {k}
             /\ iv_request' = IF iv_request = k THEN Invited!None ELSE iv_request
  <2>1. ASSUME NEW i \in iv_granted, Invited!Usable(i)' PROVE Invited!Usable(i) /\ i # k
    <3>1. i \in Invited!Invites
      BY <1>0 DEF InvitesTyped
    <3> QED
      BY <3>1, <2>1, <1>0, <1>4, RowsAre DEF Invited!Usable
  <2> QED
    BY <2>1, <1>4 DEF Granted, Invited!DeleteRow
<1>5. ASSUME NEW n, Invited!Make(n), iv_granted' \subseteq iv_granted \cup {iv_made'}
      PROVE  Granted' \subseteq Granted \cup (iv_granted' \cap {iv_made'})
  <2> SUFFICES ASSUME NEW i \in iv_granted, Invited!Usable(i)' PROVE Invited!Usable(i)
    BY <1>5 DEF Granted
  <2>1. i \in Invited!Invites /\ i # iv_made + 1
    BY <1>0 DEF InvitesTyped, Numbered, Invited!Invites
  <2>2. iv_invite'[i] = iv_invite[i]
    BY <1>0, <1>5, <2>1, RowsAre
  <2> QED
    BY <2>2 DEF Invited!Usable
<1>6. ASSUME iv_granted' = iv_granted, iv_invite' = iv_invite PROVE Granted' = Granted
  BY <1>6 DEF Granted, Invited!Usable
\* nobody is at the request who was not, and it only lets go
<1>7. ASSUME \A x \in Clerks : iv_job'[x] = iv_job[x] \/ (~OnRequest(x)' /\ ~OnRequest(x)),
             Granted' \subseteq Granted, iv_request' = iv_request
      PROVE  OneGranted'
  BY <1>1, <1>7 DEF OneGranted, OnRequest
<1>8. ASSUME NEW k, Invited!DeleteRow(k), iv_granted' = iv_granted,
             \A x \in Clerks : iv_job'[x] = iv_job[x] \/ ~OnRequest(x)'
      PROVE  OneGranted' \/ \E x \in Clerks : iv_job[x].op = "attach" /\ iv_job'[x] # iv_job[x]
  <2>1. Granted' \subseteq Granted \ {k} /\ iv_request' = IF iv_request = k THEN Invited!None ELSE iv_request
    BY <1>4, <1>8
  <2> QED
    BY <1>1, <1>2, <1>8, <2>1 DEF OneGranted, OnRequest
<1>9. ASSUME NEW t \in Clerks, Invited!Step(t) PROVE OneGranted'
  <2>0. \A x \in Clerks \ {t} : iv_job'[x] = iv_job[x]
    BY <1>0, <1>9, InviteStepIsOwn
  <2>1. ASSUME ~OnRequest(t), ~OnRequest(t)', Granted' \subseteq Granted, iv_request' = iv_request
        PROVE  OneGranted'
    BY <1>7, <2>0, <2>1
  <2>2. ASSUME Invited!Crosses, iv_job[t] = Invited!Idle, OnRequest(t)', Granted' = Granted, iv_request' = iv_request,
               iv_job'[t].op = "grant" => iv_request = Invited!None,
               iv_job'[t].op = "toggle" => iv_job'[t].inv = iv_request,
               iv_job'[t].op # "attach"
        PROVE  OneGranted'
    <3>1. \A x \in Clerks : ~OnRequest(x)
      <4>1. Invited!Granting = {}
        BY <1>1, <2>2 DEF Invited!Crosses
      <4> QED
        BY <4>1 DEF Invited!Granting, OnRequest
    <3>2. \A x \in Clerks \ {t} : ~OnRequest(x)'
      BY <2>0, <3>1 DEF OnRequest
    <3>3. Granted \subseteq {iv_request}
      BY <1>1, <3>1 DEF OneGranted, OnRequest
    <3> QED
      BY <2>2, <3>2, <3>3 DEF OneGranted, OnRequest
  \* it is the only one who is at the request
  <2>3. ASSUME OnRequest(t) PROVE \A x \in Clerks \ {t} : ~OnRequest(x) /\ ~OnRequest(x)'
    BY <1>1, <2>0, <2>3 DEF OneGranted, OnRequest
  <2>4. ASSUME NEW i \in Invited!Invites, Invited!Enter(t, i), iv_job[t] = Invited!Idle,
               iv_job'[t] = [op |-> "register", inv |-> i, copy |-> iv_invite[i]]
        PROVE  OneGranted'
    BY <1>6, <2>1, <2>4 DEF Invited!Enter, OnRequest, Invited!Idle
  <2>5. ASSUME Invited!Register(t), iv_job[t].op = "register",
               iv_job'[t] = [op |-> "count", inv |-> iv_job[t].inv, copy |-> iv_job[t].copy]
        PROVE  OneGranted'
    BY <1>6, <2>1, <2>5 DEF Invited!Register, OnRequest
  <2>6. ASSUME Invited!Count(t), iv_job[t].op = "count",
               \/ iv_job'[t] = [op |-> "save", inv |-> iv_job[t].inv,
                             copy |-> [iv_job[t].copy EXCEPT !.used = @ + 1]]
               \/ iv_job'[t] = Invited!Idle
        PROVE  OneGranted'
    <3>1. iv_job'[t].op \in {"save", "idle"}
      BY <2>6 DEF Invited!Idle
    <3> QED
      BY <1>6, <2>1, <2>6, <3>1 DEF Invited!Count, OnRequest
  <2>7. ASSUME Invited!Save(t), iv_job[t].op = "save", iv_job'[t] = Invited!Idle
        PROVE  OneGranted'
    <3>1. Granted' \subseteq Granted
      BY <1>3, <2>7
    <3>2. ~OnRequest(t) /\ ~OnRequest(t)' /\ iv_request' = iv_request
      BY <2>7 DEF Invited!Save, OnRequest, Invited!Idle
    <3> QED
      BY <2>1, <3>1, <3>2
  <2>8. ASSUME Invited!Die(t), iv_job'[t] = Invited!Idle
        PROVE  OneGranted'
    <3>1. Granted' = Granted /\ iv_request' = iv_request
      BY <1>6, <2>8 DEF Invited!Die
    <3>2. iv_job[t].op # "attach"
      BY <1>1, <2>8 DEF Invited!Die, Invited!On
    <3>3. CASE ~OnRequest(t)
      BY <2>1, <2>8, <3>1, <3>3 DEF OnRequest, Invited!Idle
    <3>4. CASE OnRequest(t)
      BY <1>1, <2>3, <2>8, <3>1, <3>2, <3>4 DEF OneGranted, OnRequest, Invited!Idle
    <3> QED
      BY <3>3, <3>4
  <2>9. ASSUME iv_job[t] = Invited!Idle,
               \/ Invited!GrantBegin(t) /\ iv_job'[t] = [op |-> "grant", inv |-> Invited!None, copy |-> Invited!Unmade]
               \/ Invited!WithdrawBegin(t) /\ iv_job'[t] = [op |-> "withdraw", inv |-> iv_request, copy |-> Invited!Unmade]
               \/ Invited!ToggleBegin(t) /\ iv_job'[t] = [op |-> "toggle", inv |-> iv_request, copy |-> Invited!Unmade]
        PROVE  OneGranted'
    <3>1. Granted' = Granted /\ iv_request' = iv_request /\ Invited!Crosses
      BY <1>6, <2>9 DEF Invited!GrantBegin, Invited!WithdrawBegin, Invited!ToggleBegin
    <3>2. /\ OnRequest(t)' /\ iv_job'[t].op # "attach"
          /\ iv_job'[t].op = "grant" => iv_request = Invited!None
          /\ iv_job'[t].op = "toggle" => iv_job'[t].inv = iv_request
      BY <2>9 DEF OnRequest, Invited!GrantBegin
    <3> QED
      BY <2>2, <2>9, <3>1, <3>2
  <2>10. ASSUME Invited!Grant(t), iv_job[t].op = "grant", iv_job'[t] = [op |-> "attach", inv |-> iv_made', copy |-> Invited!Unmade]
         PROVE  OneGranted'
    <3>1. iv_request' = iv_request /\ iv_request = Invited!None
      BY <1>1, <2>10 DEF Invited!Grant, OneGranted
    <3>2. \A x \in Clerks \ {t} : ~OnRequest(x) /\ ~OnRequest(x)'
      BY <2>3, <2>10 DEF OnRequest
    <3>3. Granted = {}
      BY <1>1, <1>2, <2>10, <3>1, <3>2 DEF OneGranted, OnRequest
    <3>4. Granted' \subseteq {iv_made'}
      BY <1>5, <2>10, <3>3 DEF Invited!Grant
    <3>5. iv_job'[t].op = "attach" /\ iv_job'[t].inv = iv_made'
      BY <2>10
    <3> QED
      BY <3>1, <3>2, <3>4, <3>5 DEF OneGranted, OnRequest
  <2>11. ASSUME Invited!Attach(t), iv_job[t].op = "attach", iv_job'[t] = Invited!Idle
         PROVE  OneGranted'
    <3>1. Granted' = Granted
      BY <1>6, <2>11 DEF Invited!Attach
    <3>2. Granted \subseteq {iv_job[t].inv} /\ iv_request = Invited!None
      BY <1>1, <2>11 DEF OneGranted
    <3>3. Granted \subseteq {iv_request'}
      BY <3>2, <2>11 DEF Invited!Attach, Granted, Invited!Usable
    <3>4. \A x \in Clerks : ~OnRequest(x)'
      BY <2>3, <2>11 DEF OnRequest, Invited!Idle
    <3> QED
      BY <3>1, <3>3, <3>4 DEF OneGranted, OnRequest
  <2>12. ASSUME Invited!Withdraw(t), iv_job[t].op = "withdraw", iv_job'[t] = Invited!Idle
         PROVE  OneGranted'
    <3>1. \A x \in Clerks : ~OnRequest(x)'
      BY <2>3, <2>12 DEF OnRequest, Invited!Idle
    <3>2. \A x \in Clerks : iv_job[x].op # "attach"
      BY <2>3, <2>12 DEF OnRequest
    <3>3. Granted' \subseteq Granted \ {iv_job[t].inv} /\ iv_request' = IF iv_request = iv_job[t].inv THEN Invited!None ELSE iv_request
      BY <1>4, <2>12 DEF Invited!Withdraw
    <3>4. Granted \subseteq {iv_request}
      BY <1>1, <3>2 DEF OneGranted
    <3> QED
      BY <3>1, <3>3, <3>4 DEF OneGranted, OnRequest
  <2>13. ASSUME Invited!Toggle(t), iv_job[t].op = "toggle", iv_job'[t] = Invited!Idle
         PROVE  OneGranted'
    <3>1. Granted' = Granted
      BY <1>6, <2>13 DEF Invited!Toggle
    <3>2. \A x \in Clerks : ~OnRequest(x)'
      BY <2>3, <2>13 DEF OnRequest, Invited!Idle
    <3>3. \A x \in Clerks : iv_job[x].op # "attach"
      BY <2>3, <2>13 DEF OnRequest
    <3>4. Granted \subseteq {iv_request} /\ iv_request \in {Invited!None, iv_job[t].inv}
      BY <1>1, <2>13, <3>3 DEF OneGranted
    <3>5. Granted \subseteq {iv_request'}
      BY <1>2, <3>4, <2>13 DEF Invited!Toggle
    <3> QED
      BY <3>1, <3>2, <3>5 DEF OneGranted, OnRequest
  <2>14. CASE RegistrationDoes(t)
    BY <2>4, <2>5, <2>6, <2>7, <2>8, <2>14 DEF RegistrationDoes
  <2>15. CASE RequestDoes(t)
    BY <2>9, <2>10, <2>11, <2>12, <2>13, <2>15 DEF RequestDoes
  <2> QED
    BY <1>0, <1>9, <2>14, <2>15, InviteStepDoes
<1>10. ASSUME NEW n \in Limits, Invited!Create(n) PROVE OneGranted'
  <2>1. Granted' \subseteq Granted
    <3>1. iv_made + 1 \notin iv_granted
      <4>1. iv_made + 1 \in Invited!Invites /\ iv_made + 1 > iv_made
        <5>1. Invited!Make(n)
          BY <1>10 DEF Invited!Create
        <5>2. iv_made + 1 \in Invited!Invites
          BY <5>1, <1>0, RowsAre
        <5> QED
          BY <5>2, <1>0
      <4> QED
        BY <4>1, <1>0 DEF Numbered
    <3>2. iv_granted' = iv_granted /\ iv_made' = iv_made + 1
      BY <1>10, <1>0, RowsAre DEF Invited!Create
    <3> QED
      BY <1>5, <1>10, <3>1, <3>2 DEF Invited!Create
  <2> QED
    BY <1>7, <1>10, <2>1 DEF Invited!Create
<1>11. ASSUME NEW k \in Invited!Invites, Invited!Delete(k) PROVE OneGranted'
  BY <1>8, <1>11 DEF Invited!Delete
<1> QED
  BY <1>9, <1>10, <1>11 DEF Invited!Next

LEMMA InvitesStep == InvitesInv /\ Invited!Next => InvitesInv'
BY InvitesStayTyped, InvitesStayNumbered, ForOneStays, CountedStays, OneGrantedStays DEF InvitesInv

LEMMA InvitesRest == InvitesInv /\ UNCHANGED Invited!vars => InvitesInv'
BY DEF InvitesInv, InvitesTyped, Numbered, ForOne, Counted, Uses, OneGranted, OnRequest,
   Granted, Invited!Usable, Invited!vars

LEMMA InvitesMean == InvitesInv => Invited!TypeOK /\ Invited!OnlyMetOrTornOveruse /\ Invited!OnlyCrossedInviteTwice
<1> SUFFICES ASSUME InvitesInv PROVE Invited!TypeOK /\ Invited!OnlyMetOrTornOveruse /\ Invited!OnlyCrossedInviteTwice
  OBVIOUS
<1>0. InvitesTyped
  BY DEF InvitesInv
<1>1. Invited!TypeOK
  BY <1>0 DEF InvitesTyped, Invited!TypeOK
<1>2. ASSUME NEW i \in Invited!Invites \ (iv_met \cup iv_torn) PROVE ~(iv_invite[i].limit < iv_joined[i])
  <2>1. Counted(i)
    BY DEF InvitesInv
  <2>2. iv_invite[i] \in Invited!Rows /\ iv_joined[i] \in Nat
    BY <1>0, InvitesBounds DEF InvitesTyped
  <2>3. iv_invite[i].used \in Nat /\ iv_invite[i].limit \in Nat
    BY <2>2, InviteFacts
  <2>4. CASE \A t \in Clerks : ~Uses(t, i)
    BY <2>1, <2>2, <2>3, <2>4 DEF Counted
  <2>5. ASSUME NEW t \in Clerks, Uses(t, i) PROVE ~(iv_invite[i].limit < iv_joined[i])
    <3> DEFINE c == iv_job[t].copy
    <3>1. /\ c.limit = iv_invite[i].limit /\ c.used <= c.limit
          /\ iv_joined[i] = IF iv_job[t].op = "count" THEN c.used + 1 ELSE c.used
      BY <2>1, <2>5 DEF Counted
    <3>2. c.used \in Nat /\ c.limit \in Nat
      BY <1>0, InviteFacts
    <3>3. iv_job[t].op = "count" => c.used < c.limit
      BY DEF InvitesInv, Numbered
    <3> HIDE DEF c
    <3> QED
      BY <2>3, <3>1, <3>2, <3>3
  <2> QED
    BY <2>4, <2>5
<1>3. ASSUME ~iv_crossed PROVE ~(Cardinality({i \in iv_granted : Invited!Usable(i)}) > 1)
  <2>1. Granted \subseteq {iv_request} \/ \E k : Granted \subseteq {k}
    BY <1>3 DEF InvitesInv, OneGranted
  <2>2. Granted = {} \/ \E k : Granted = {k}
    BY <2>1
  <2>3. Cardinality(Granted) = 0 \/ Cardinality(Granted) = 1
    BY <2>2, FS_EmptySet, FS_Singleton
  <2> QED
    BY <2>3 DEF Granted
<1> QED
  BY Counting, <1>1, <1>2, <1>3 DEF Invited!OnlyMetOrTornOveruse, Invited!OnlyCrossedInviteTwice

-----------------------------------------------------------------------------
(* Accounts: what a save writes back, and what was read before it.            *)

LEMMA AccountsDistinct == Here \cap There = {} /\ People!None \notin People!Users
BY ServerAssumption DEF People!None, People!Users

AccountOps == {"idle", "register", "register_pending", "reactivate", "deactivate", "edit", "post",
               "page", "suspend", "unsuspend", "delete", "save_deleted", "discover"} \cup People!Sweeping
Newcomers  == {"register", "register_pending", "discover"}
Ours       == {"register", "register_pending", "reactivate", "deactivate", "edit"}
Deletions  == {"self_deletion", "moderator_deletion"}

\* What every row of u is like, and every copy of one.
RowOf(u, r) ==
  /\ r \in People!Rows
  /\ r.known \/ r = People!Unknown
  /\ r.active => r.reason = People!None
  /\ r.reason = "domain_block" => r.linked
  /\ People!Gone(r) => ~r.allow
  /\ u \in Here => ~r.linked
  /\ u \in There => ~r.allow /\ r.reason # "pending"

JobOf(j) ==
  /\ j \in [op : AccountOps, user : People!Users \cup {People!None}, copy : People!Rows, reason : People!Reasons]
  /\ j.op = "idle" => j = People!Idle
  /\ j.op \in People!Sweeping => j.user = People!None
  /\ j.op \notin People!Sweeping \cup {"idle"} => j.user \in People!Users /\ RowOf(j.user, j.copy)
  /\ j.op \in Ours => j.user \in Here
  /\ j.op = "discover" => j.user \in There
  /\ j.op \in Newcomers => ~j.copy.known
  /\ j.op \notin People!Sweeping \cup {"idle"} \cup Newcomers => j.copy.known
  /\ j.op \in {"deactivate", "edit"} => j.copy.active
  /\ j.op \in {"delete", "save_deleted"} =>
       j.reason \in Deletions \cup {People!None} /\ (j.user \in Here => j.reason \in Deletions)

AccountsTyped ==
  /\ pe_cast \in {Here, There}
  /\ pe_row \in [People!Users -> People!Rows] /\ \A u \in People!Users : RowOf(u, pe_row[u])
  /\ pe_job \in [Clerks -> [op : AccountOps, user : People!Users \cup {People!None}, copy : People!Rows, reason : People!Reasons]]
  /\ \A t \in Clerks : JobOf(pe_job[t])
  /\ pe_posts \subseteq {u \in People!Users : pe_row[u].known}
  /\ pe_blocked \in BOOLEAN /\ pe_confirm \in BOOLEAN /\ pe_torn \in BOOLEAN
  /\ pe_inbox \subseteq {"link", "create", "delete"} \X {u \in There : pe_row[u].known}
  /\ pe_held \subseteq There
  /\ pe_stale \subseteq {t \in Clerks : pe_job[t] # People!Idle}

\* What a thread has that is not stale, and a newcomer is nobody else's.
InHand(t) ==
  pe_job[t].user \in People!Users =>
    /\ pe_job[t].op \in Newcomers \/ pe_row[pe_job[t].user].known
    /\ t \notin pe_stale => /\ pe_job[t].copy = pe_row[pe_job[t].user]
                            /\ pe_job[t].op \in {"suspend", "unsuspend"} => ~People!Gone(pe_job[t].copy)
Discovered ==
  /\ \A t \in Clerks : pe_job[t].op = "discover" => ~pe_row[pe_job[t].user].known
  /\ \A t, x \in Clerks : pe_job[t].op = "discover" /\ pe_job[x].op = "discover" /\ pe_job[t].user = pe_job[x].user => t = x

\* A suspension lasts, or the account is deleted.
Suspended == \A u \in pe_held : pe_row[u].known /\ (pe_row[u].deleted \/ pe_row[u].reason = "moderator_suspension")

\* What is so while nothing has been torn.
WhenWhole ==
  /\ \A u \in Here : pe_row[u].deleted => People!Gone(pe_row[u])
  /\ ~pe_confirm /\ (\A t \in Clerks : pe_job[t].op # "activate_pending") =>
       /\ \A t \in Clerks : pe_job[t].op # "register_pending"
       /\ \A u \in People!Users : pe_row[u].reason # "pending"
  /\ ~pe_blocked =>
       \/ \E t \in Clerks : pe_job[t].op = "let_in"
       \/ /\ \A t \in Clerks : pe_job[t].op # "shut_out"
          /\ \A u \in People!Users : pe_row[u].reason # "domain_block"

AccountsInv ==
  /\ AccountsTyped
  /\ \A t \in Clerks : InHand(t)
  /\ Discovered /\ Suspended
  /\ ~pe_torn => WhenWhole

Written == pe_cast' = pe_cast /\ pe_torn' \in BOOLEAN /\ (pe_torn => pe_torn') /\ \A t \in Clerks : People!Tearing(t) => pe_torn'

\* A deleted account comes back by what its thread has read before.
Revives(t) ==
  \A u \in People!Users : People!Gone(pe_row[u]) /\ ~People!Gone(pe_row'[u]) => t \in pe_stale /\ pe_job[t].user = u /\ pe_job'[t] = People!Idle

LEMMA AccountFacts ==
  /\ Here \cap There = {} /\ People!None \notin People!Users /\ People!Users = Here \cup There
  /\ People!Unknown \in People!Rows /\ People!Fresh \in People!Rows /\ People!Fresh.known /\ People!Fresh.active /\ ~People!Fresh.deleted
  /\ People!Fresh.reason = People!None /\ ~People!Fresh.allow /\ ~People!Fresh.linked
  /\ People!Idle.op = "idle" /\ People!Idle.user = People!None /\ People!Idle.copy = People!Unknown /\ People!Idle.reason = People!None
  /\ JobOf(People!Idle) /\ \A u \in People!Users : RowOf(u, People!Unknown)
<1>1. People!Unknown \in People!Rows
  BY DEF People!Unknown, People!Rows, People!Reasons, People!None
<1>2. People!Fresh \in People!Rows /\ People!Fresh.known /\ People!Fresh.active /\ ~People!Fresh.deleted /\ People!Fresh.reason = People!None /\ ~People!Fresh.allow /\ ~People!Fresh.linked
  BY DEF People!Fresh, People!Unknown, People!Rows, People!Reasons, People!None
<1>3. JobOf(People!Idle)
  BY <1>1 DEF People!Idle, JobOf, AccountOps, People!Reasons, People!Sweeping, Ours, Newcomers
<1>4. \A u \in People!Users : RowOf(u, People!Unknown)
  BY <1>1 DEF RowOf, People!Unknown, People!Gone, People!None
<1> QED
  BY <1>1, <1>2, <1>3, <1>4, AccountsDistinct DEF People!Idle, People!Users

\* What a step has to see to.
LEMMA AccountsKept ==
  ASSUME AccountsInv, Written, NEW t \in Clerks, NEW j,
         pe_job' = [pe_job EXCEPT ![t] = j], JobOf(j),
         pe_row' \in [People!Users -> People!Rows],
         \A u \in People!Users : RowOf(u, pe_row'[u]) /\ (pe_row[u].known => pe_row'[u].known),
         pe_stale' \subseteq {x \in Clerks : pe_job[x] # People!Idle} \cup {t}, t \in pe_stale' => j # People!Idle,
         \A x \in Clerks \ {t} : x \notin pe_stale' =>
            x \notin pe_stale /\ (pe_job[x].user \in People!Users => pe_row'[pe_job[x].user] = pe_row[pe_job[x].user]),
         pe_posts' \subseteq {u \in People!Users : pe_row'[u].known}, pe_held' \subseteq There,
         pe_inbox' \subseteq {"link", "create", "delete"} \X {u \in There : pe_row'[u].known},
         pe_blocked' \in BOOLEAN, pe_confirm' \in BOOLEAN,
         j.user \in People!Users =>
           /\ j.op \in Newcomers \/ pe_row'[j.user].known
           /\ t \notin pe_stale' => /\ j.copy = pe_row'[j.user]
                                    /\ j.op \in {"suspend", "unsuspend"} => ~People!Gone(j.copy),
         j.op = "discover" => ~pe_row'[j.user].known /\ \A x \in Clerks \ {t} : pe_job[x].user # j.user,
         \A x \in Clerks \ {t} : pe_job[x].op = "discover" => ~pe_row'[pe_job[x].user].known
  PROVE  AccountsTyped' /\ (\A x \in Clerks : InHand(x)') /\ Discovered'
<1>0. AccountsTyped /\ (\A x \in Clerks : InHand(x)) /\ Discovered
  BY DEF AccountsInv
<1>1. pe_job'[t] = j /\ \A x \in Clerks \ {t} : pe_job'[x] = pe_job[x]
  BY <1>0 DEF AccountsTyped
<1>2. pe_job' \in [Clerks -> [op : AccountOps, user : People!Users \cup {People!None}, copy : People!Rows, reason : People!Reasons]]
  BY <1>0 DEF AccountsTyped, JobOf
<1>3. \A x \in Clerks : JobOf(pe_job'[x])
  BY <1>0, <1>1 DEF AccountsTyped
<1>4. pe_stale' \subseteq {x \in Clerks : pe_job'[x] # People!Idle}
  BY <1>1
<1>5. pe_cast' \in {Here, There} /\ pe_torn' \in BOOLEAN
  BY <1>0 DEF AccountsTyped, Written
<1>6. AccountsTyped'
  BY <1>2, <1>3, <1>4, <1>5 DEF AccountsTyped
<1>7. InHand(t)'
  BY <1>1 DEF InHand
<1>8. ASSUME NEW x \in Clerks \ {t} PROVE InHand(x)'
  <2>1. InHand(x) /\ pe_job'[x] = pe_job[x]
    BY <1>0, <1>1
  <2>2. x \notin pe_stale' => x \notin pe_stale /\ (pe_job[x].user \in People!Users => pe_row'[pe_job[x].user] = pe_row[pe_job[x].user])
    OBVIOUS
  <2>3. pe_job[x].user \in People!Users /\ pe_row[pe_job[x].user].known => pe_row'[pe_job[x].user].known
    OBVIOUS
  <2> QED
    BY <2>1, <2>2, <2>3 DEF InHand
<1>9. Discovered'
  <2>1. \A x \in Clerks : pe_job'[x].op = "discover" => ~pe_row'[pe_job'[x].user].known
    BY <1>1
  <2>2. ASSUME NEW x \in Clerks, NEW y \in Clerks, pe_job'[x].op = "discover", pe_job'[y].op = "discover",
               pe_job'[x].user = pe_job'[y].user
        PROVE  x = y
    BY <1>0, <1>1, <2>2 DEF Discovered
  <2> QED
    BY <2>1, <2>2 DEF Discovered
<1> QED
  BY <1>6, <1>7, <1>8, <1>9

\* An account is saved by a thread that has done with it.
LEMMA AccountsSaved ==
  ASSUME AccountsInv, Written, NEW t \in Clerks, NEW r,
         pe_job[t].user \in People!Users, pe_job[t].op \notin People!Sweeping, People!SaveAll(t, r), People!Ends(t),
         RowOf(pe_job[t].user, r), r.known,
         pe_posts' = pe_posts, pe_blocked' = pe_blocked, pe_confirm' = pe_confirm,
         pe_inbox' \subseteq pe_inbox \cup ({"link"} \X ({pe_job[t].user} \cap There)),
         pe_held' \subseteq pe_held \cup ({pe_job[t].user} \cap There),
         pe_job[t].user \in pe_held' => r.deleted \/ r.reason = "moderator_suspension",
         t \notin pe_stale =>
           LET old == pe_row[pe_job[t].user]
           IN  /\ (pe_job[t].user \in Here /\ old.deleted => People!Gone(old)) =>
                    (pe_job[t].user \in Here /\ r.deleted => People!Gone(r))
               /\ pe_job[t].op # "register_pending" /\ r.reason \in {"pending", "domain_block"} => r.reason = old.reason
               /\ People!Gone(old) => People!Gone(r)
  PROVE  AccountsInv' /\ Revives(t)
<1> DEFINE u == pe_job[t].user
           old == pe_row[u]
<1>0. AccountsTyped /\ Discovered /\ Suspended /\ u \in People!Users
  BY DEF AccountsInv
<1>1. /\ pe_row' = [pe_row EXCEPT ![u] = r] /\ pe_job' = [pe_job EXCEPT ![t] = People!Idle]
      /\ pe_stale' = (pe_stale \cup UNION {People!Busy(v) : v \in {w \in People!Users : pe_row'[w] # pe_row[w]}}) \ {t}
  BY DEF People!SaveAll, People!Commit, People!Ends
<1>2. pe_row'[u] = r /\ \A v \in People!Users \ {u} : pe_row'[v] = pe_row[v]
  BY <1>0, <1>1 DEF AccountsTyped
<1>3. r \in People!Rows /\ r.known /\ RowOf(u, r)
  BY DEF RowOf
<1>4. pe_row' \in [People!Users -> People!Rows] /\ \A v \in People!Users : RowOf(v, pe_row'[v]) /\ (pe_row[v].known => pe_row'[v].known)
  BY <1>0, <1>1, <1>2, <1>3 DEF AccountsTyped
<1>5. pe_job'[t] = People!Idle /\ \A x \in Clerks \ {t} : pe_job'[x] = pe_job[x]
  BY <1>0, <1>1 DEF AccountsTyped
<1>6. \A x \in Clerks \ {t} : x \notin pe_stale' =>
        x \notin pe_stale /\ (pe_job[x].user \in People!Users => pe_row'[pe_job[x].user] = pe_row[pe_job[x].user])
  BY <1>1 DEF People!Busy
<1>7. pe_stale' \subseteq {x \in Clerks : pe_job[x] # People!Idle} /\ t \notin pe_stale'
  <2>1. \A x \in Clerks, v \in People!Users : pe_job[x].user = v => pe_job[x] # People!Idle
    BY AccountFacts
  <2> QED
    BY <1>0, <1>1, <2>1 DEF AccountsTyped, People!Busy
<1>8. pe_posts' \subseteq {v \in People!Users : pe_row'[v].known} /\ pe_held' \subseteq There
  BY <1>0, <1>4 DEF AccountsTyped
<1>9. pe_inbox' \subseteq {"link", "create", "delete"} \X {v \in There : pe_row'[v].known}
  <2>1. {v \in There : pe_row[v].known} \subseteq {v \in There : pe_row'[v].known}
    BY <1>4, AccountFacts
  <2>2. {u} \cap There \subseteq {v \in There : pe_row'[v].known}
    BY <1>2, <1>3
  <2>3. pe_inbox \subseteq {"link", "create", "delete"} \X {v \in There : pe_row[v].known}
    BY <1>0 DEF AccountsTyped
  <2> QED
    BY <2>1, <2>2, <2>3
\* a newcomer is nobody else's
<1>10. \A x \in Clerks \ {t} : pe_job[x].op = "discover" => ~pe_row'[pe_job[x].user].known
  <2> SUFFICES ASSUME NEW x \in Clerks \ {t}, pe_job[x].op = "discover" PROVE ~pe_row'[pe_job[x].user].known
    OBVIOUS
  <2>1. ~pe_row[pe_job[x].user].known /\ pe_job[x].user \in People!Users
    BY <1>0, AccountFacts DEF Discovered, AccountsTyped, JobOf
  <2>2. pe_job[x].user # u
    <3>1. InHand(t)
      BY DEF AccountsInv
    <3>2. pe_job[t].op \in Newcomers => pe_job[t].op = "discover" \/ u \in Here
      BY <1>0 DEF AccountsTyped, JobOf, Ours, Newcomers
    <3>3. pe_job[x].user \in There
      BY <1>0 DEF AccountsTyped, JobOf
    <3> QED
      BY <1>0, <2>1, <3>1, <3>2, <3>3, AccountFacts DEF Discovered, InHand
  <2> QED
    BY <1>2, <2>1, <2>2
<1>11. AccountsTyped' /\ (\A x \in Clerks : InHand(x)') /\ Discovered'
  <2>1. JobOf(People!Idle) /\ People!Idle.user \notin People!Users /\ People!Idle.op # "discover"
    BY AccountFacts
  <2>2. pe_blocked' \in BOOLEAN /\ pe_confirm' \in BOOLEAN
    BY <1>0 DEF AccountsTyped
  <2> HIDE DEF u, old
  <2> QED
    BY <1>1, <1>4, <1>6, <1>7, <1>8, <1>9, <1>10, <2>1, <2>2, AccountsKept
<1>12. Suspended'
  BY <1>0, <1>2, <1>3 DEF Suspended, AccountsTyped, People!Users
<1>13. ASSUME ~pe_torn' PROVE WhenWhole'
  <2>0. WhenWhole
    BY <1>13 DEF AccountsInv, Written, AccountsTyped
  <2>1. t \notin pe_stale \/ pe_row' = pe_row
    BY <1>5, <1>13, AccountFacts DEF Written, People!Tearing
  <2>2. \A v \in Here : pe_row'[v].deleted => People!Gone(pe_row'[v])
    <3>1. CASE pe_row' = pe_row
      BY <2>0, <3>1 DEF WhenWhole
    <3>2. CASE t \notin pe_stale
      BY <1>2, <2>0, <3>2, AccountFacts DEF WhenWhole
    <3> QED
      BY <2>1, <3>1, <3>2
  <2>3. ASSUME ~pe_confirm, \A x \in Clerks : pe_job'[x].op # "activate_pending"
        PROVE  /\ \A x \in Clerks : pe_job'[x].op # "register_pending"
               /\ \A v \in People!Users : pe_row'[v].reason # "pending"
    <3>1. \A x \in Clerks : pe_job[x].op # "activate_pending"
      BY <1>5, <2>3 DEF People!Sweeping
    <3>2. /\ \A x \in Clerks : pe_job[x].op # "register_pending"
          /\ \A v \in People!Users : pe_row[v].reason # "pending"
      BY <2>0, <2>3, <3>1 DEF WhenWhole
    <3>3. \A v \in People!Users : pe_row'[v].reason # "pending"
      BY <1>2, <2>1, <3>2
    <3> QED
      BY <1>5, <3>2, <3>3, AccountFacts
  <2>4. ASSUME ~pe_blocked, \A x \in Clerks : pe_job'[x].op # "let_in"
        PROVE  /\ \A x \in Clerks : pe_job'[x].op # "shut_out"
               /\ \A v \in People!Users : pe_row'[v].reason # "domain_block"
    <3>1. /\ \A x \in Clerks : pe_job[x].op # "shut_out"
          /\ \A v \in People!Users : pe_row[v].reason # "domain_block"
      BY <1>5, <2>0, <2>4 DEF WhenWhole, People!Sweeping
    <3>2. pe_job[t].op = "register_pending" => u \in Here
      BY <1>0 DEF AccountsTyped, JobOf, Ours
    <3>3. r.reason # "domain_block" \/ u \notin Here
      BY <1>3 DEF RowOf
    <3>4. \A v \in People!Users : pe_row'[v].reason # "domain_block"
      BY <1>2, <2>1, <3>1, <3>2, <3>3
    <3> QED
      BY <1>5, <3>1, <3>4, AccountFacts
  <2> QED
    BY <2>2, <2>3, <2>4 DEF WhenWhole
<1>14. Revives(t)
  BY <1>2, <1>5 DEF Revives
<1> QED
  BY <1>11, <1>12, <1>13, <1>14 DEF AccountsInv

\* A step that writes no account.
LEMMA AccountsUntouched ==
  ASSUME AccountsInv, Written, NEW t \in Clerks, NEW j,
         pe_job' = [pe_job EXCEPT ![t] = j], JobOf(j), pe_row' = pe_row, pe_held' = pe_held,
         pe_job[t].op \notin People!Sweeping,
         \A x \in Clerks \ {t} : x \in pe_stale <=> x \in pe_stale',
         pe_stale' \subseteq pe_stale, t \in pe_stale' => j # People!Idle,
         pe_posts' \subseteq {u \in People!Users : pe_row[u].known},
         pe_inbox' \subseteq {"link", "create", "delete"} \X {u \in There : pe_row[u].known},
         pe_blocked' \in BOOLEAN, pe_confirm' \in BOOLEAN,
         ~pe_confirm' => ~pe_confirm \/ j.op = "activate_pending",
         ~pe_blocked' => j.op = "let_in" \/ (~pe_blocked /\ j.op # "shut_out"),
         j.op = "register_pending" => pe_confirm',
         j.user \in People!Users =>
           /\ j.op \in Newcomers \/ pe_row[j.user].known
           /\ t \notin pe_stale' => /\ j.copy = pe_row[j.user]
                                    /\ j.op \in {"suspend", "unsuspend"} => ~People!Gone(j.copy),
         j.op = "discover" => ~pe_row[j.user].known /\ \A x \in Clerks \ {t} : pe_job[x].user # j.user
  PROVE  AccountsInv' /\ Revives(t)
<1>0. AccountsTyped /\ Discovered /\ Suspended
  BY DEF AccountsInv
<1>1. pe_job'[t] = j /\ \A x \in Clerks \ {t} : pe_job'[x] = pe_job[x]
  BY <1>0 DEF AccountsTyped
<1>2. AccountsTyped' /\ (\A x \in Clerks : InHand(x)') /\ Discovered'
  <2>1. pe_row' \in [People!Users -> People!Rows] /\ \A u \in People!Users : RowOf(u, pe_row'[u])
    BY <1>0 DEF AccountsTyped
  <2>2. pe_stale' \subseteq {x \in Clerks : pe_job[x] # People!Idle} \cup {t}
    BY <1>0 DEF AccountsTyped
  <2>3. pe_held' \subseteq There
    BY <1>0 DEF AccountsTyped
  <2>4. \A x \in Clerks \ {t} : pe_job[x].op = "discover" => ~pe_row'[pe_job[x].user].known
    BY <1>0 DEF Discovered
  <2> QED
    BY <2>1, <2>2, <2>3, <2>4, AccountsKept
<1>3. Suspended'
  BY <1>0 DEF Suspended
<1>4. ASSUME ~pe_torn' PROVE WhenWhole'
  <2>0. WhenWhole
    BY <1>4 DEF AccountsInv, Written, AccountsTyped
  <2>1. \A v \in Here : pe_row'[v].deleted => People!Gone(pe_row'[v])
    BY <2>0 DEF WhenWhole
  <2>2. ASSUME ~pe_confirm', \A x \in Clerks : pe_job'[x].op # "activate_pending"
        PROVE  /\ \A x \in Clerks : pe_job'[x].op # "register_pending"
               /\ \A v \in People!Users : pe_row'[v].reason # "pending"
    <3>1. ~pe_confirm /\ \A x \in Clerks : pe_job[x].op # "activate_pending"
      BY <1>1, <2>2 DEF People!Sweeping
    <3>2. /\ \A x \in Clerks : pe_job[x].op # "register_pending"
          /\ \A v \in People!Users : pe_row[v].reason # "pending"
      BY <2>0, <3>1 DEF WhenWhole
    <3> QED
      BY <1>1, <2>2, <3>2
  <2>3. ASSUME ~pe_blocked', \A x \in Clerks : pe_job'[x].op # "let_in"
        PROVE  /\ \A x \in Clerks : pe_job'[x].op # "shut_out"
               /\ \A v \in People!Users : pe_row'[v].reason # "domain_block"
    <3>1. ~pe_blocked /\ j.op # "shut_out" /\ \A x \in Clerks : pe_job[x].op # "let_in"
      BY <1>1, <2>3 DEF People!Sweeping
    <3>2. /\ \A x \in Clerks : pe_job[x].op # "shut_out"
          /\ \A v \in People!Users : pe_row[v].reason # "domain_block"
      BY <2>0, <3>1 DEF WhenWhole
    <3> QED
      BY <1>1, <3>1, <3>2
  <2> QED
    BY <2>1, <2>2, <2>3 DEF WhenWhole
<1>5. Revives(t)
  BY DEF Revives
<1> QED
  BY <1>2, <1>3, <1>4, <1>5 DEF AccountsInv

\* Many accounts are saved by one statement.
LEMMA AccountsSwept ==
  ASSUME AccountsInv, Written, NEW t \in Clerks, NEW rows,
         pe_job[t].op \in People!Sweeping, People!Commit(t, rows), People!Ends(t),
         rows \in [People!Users -> People!Rows],
         \A u \in People!Users :
           /\ RowOf(u, rows[u]) /\ rows[u].known = pe_row[u].known /\ rows[u].deleted = pe_row[u].deleted
           /\ pe_row[u].reason \in Deletions \cup {"moderator_suspension"} => rows[u] = pe_row[u]
           /\ rows[u].reason = "pending" => pe_row[u].reason = "pending" /\ pe_job[t].op # "activate_pending"
           /\ rows[u].reason = "domain_block" =>
                (pe_row[u].reason = "domain_block" /\ pe_job[t].op # "let_in") \/ pe_job[t].op = "shut_out",
         pe_posts' = pe_posts, pe_inbox' = pe_inbox, pe_blocked' = pe_blocked, pe_confirm' = pe_confirm, pe_held' = pe_held
  PROVE  AccountsInv' /\ Revives(t)
<1>0. AccountsTyped /\ Discovered /\ Suspended
  BY DEF AccountsInv
<1>1. /\ pe_row' = rows /\ pe_job' = [pe_job EXCEPT ![t] = People!Idle]
      /\ pe_stale' = (pe_stale \cup UNION {People!Busy(v) : v \in {w \in People!Users : pe_row'[w] # pe_row[w]}}) \ {t}
  BY DEF People!Commit, People!Ends
<1>2. pe_job'[t] = People!Idle /\ \A x \in Clerks \ {t} : pe_job'[x] = pe_job[x]
  BY <1>0, <1>1 DEF AccountsTyped
<1>3. AccountsTyped' /\ (\A x \in Clerks : InHand(x)') /\ Discovered'
  <2>1. pe_row' \in [People!Users -> People!Rows] /\ \A u \in People!Users : RowOf(u, pe_row'[u]) /\ (pe_row[u].known => pe_row'[u].known)
    BY <1>1
  <2>2. \A x \in Clerks \ {t} : x \notin pe_stale' =>
          x \notin pe_stale /\ (pe_job[x].user \in People!Users => pe_row'[pe_job[x].user] = pe_row[pe_job[x].user])
    BY <1>1 DEF People!Busy
  <2>3. pe_stale' \subseteq {x \in Clerks : pe_job[x] # People!Idle} \cup {t} /\ t \notin pe_stale'
    <3>1. \A x \in Clerks, v \in People!Users : pe_job[x].user = v => pe_job[x] # People!Idle
      BY AccountFacts
    <3> QED
      BY <1>0, <1>1, <3>1 DEF AccountsTyped, People!Busy
  <2>4. \A u \in People!Users : pe_row'[u].known = pe_row[u].known
    BY <1>1
  <2>5. /\ pe_posts' \subseteq {v \in People!Users : pe_row'[v].known} /\ pe_held' \subseteq There
        /\ pe_inbox' \subseteq {"link", "create", "delete"} \X {u \in There : pe_row'[u].known}
        /\ pe_blocked' \in BOOLEAN /\ pe_confirm' \in BOOLEAN
    <3>1. {u \in There : pe_row'[u].known} = {u \in There : pe_row[u].known}
      BY <2>4, AccountFacts
    <3> QED
      BY <1>0, <2>4, <3>1 DEF AccountsTyped
  <2>6. \A x \in Clerks \ {t} : pe_job[x].op = "discover" => ~pe_row'[pe_job[x].user].known
    BY <1>0, <2>4, AccountFacts DEF Discovered, AccountsTyped, JobOf
  <2>7. JobOf(People!Idle) /\ People!Idle.user \notin People!Users /\ People!Idle.op # "discover"
    BY AccountFacts
  <2> QED
    BY <1>1, <2>1, <2>2, <2>3, <2>5, <2>6, <2>7, AccountsKept
<1>4. Suspended'
  BY <1>0, <1>1 DEF Suspended, AccountsTyped, People!Users
<1>5. ASSUME ~pe_torn' PROVE WhenWhole'
  <2>0. WhenWhole
    BY <1>5 DEF AccountsInv, Written, AccountsTyped
  <2>1. \A x \in Clerks : pe_job'[x] = People!Idle
    <3>1. pe_job[t] # People!Idle
      BY AccountFacts DEF People!Sweeping
    <3> QED
      BY <1>2, <1>5, <3>1 DEF Written, People!Tearing
  <2>2. \A x \in Clerks \ {t} : pe_job[x].op = "idle"
    BY <1>2, <2>1, AccountFacts
  <2>3. \A v \in Here : pe_row'[v].deleted => People!Gone(pe_row'[v])
    <3> SUFFICES ASSUME NEW v \in Here, pe_row'[v].deleted PROVE People!Gone(pe_row'[v])
      OBVIOUS
    <3>1. v \in People!Users
      BY DEF People!Users
    <3>2. People!Gone(pe_row[v])
      BY <1>1, <2>0, <3>1 DEF WhenWhole
    <3> QED
      BY <1>1, <3>1, <3>2 DEF People!Gone, Deletions
  <2>4. ASSUME ~pe_confirm PROVE \A v \in People!Users : pe_row'[v].reason # "pending"
    <3>1. CASE pe_job[t].op = "activate_pending"
      BY <1>1, <3>1
    <3>2. CASE pe_job[t].op # "activate_pending"
      BY <1>1, <2>0, <2>2, <2>4, <3>2 DEF WhenWhole
    <3> QED
      BY <3>1, <3>2
  <2>5. ASSUME ~pe_blocked PROVE \A v \in People!Users : pe_row'[v].reason # "domain_block"
    <3>1. CASE pe_job[t].op = "let_in"
      BY <1>1, <3>1
    <3>2. CASE pe_job[t].op # "let_in"
      <4>1. \A x \in Clerks : pe_job[x].op # "let_in"
        BY <2>2, <3>2
      <4> QED
        BY <1>1, <2>0, <2>5, <3>2, <4>1 DEF WhenWhole
    <3> QED
      BY <3>1, <3>2
  <2> QED
    BY <2>1, <2>3, <2>4, <2>5, AccountFacts DEF WhenWhole
<1>6. Revives(t)
  BY <1>1 DEF Revives, People!Gone, Deletions
<1> QED
  BY <1>3, <1>4, <1>5, <1>6 DEF AccountsInv

\* What a thread at work on an account has.
LEMMA AccountInHand ==
  ASSUME AccountsInv, NEW t \in Clerks, pe_job[t].op \notin People!Sweeping \cup {"idle"}
  PROVE  /\ JobOf(pe_job[t]) /\ InHand(t) /\ pe_job[t].user \in People!Users /\ pe_job[t] # People!Idle
         /\ RowOf(pe_job[t].user, pe_job[t].copy) /\ pe_job[t].copy \in People!Rows
         /\ RowOf(pe_job[t].user, pe_row[pe_job[t].user]) /\ pe_row[pe_job[t].user] \in People!Rows
<1>1. JobOf(pe_job[t]) /\ InHand(t) /\ pe_job[t].user \in People!Users /\ RowOf(pe_job[t].user, pe_job[t].copy)
  BY DEF AccountsInv, AccountsTyped, JobOf
<1>2. RowOf(pe_job[t].user, pe_row[pe_job[t].user]) /\ pe_row[pe_job[t].user] \in People!Rows
  BY <1>1 DEF AccountsInv, AccountsTyped
<1> QED
  BY <1>1, <1>2, AccountFacts DEF JobOf, RowOf

LEMMA BeginsWell ==
  ASSUME AccountsInv, Written, NEW t \in Clerks, NEW u \in People!Users,
         People!RegisterBegin(t, u) \/ People!ReactivateBegin(t, u) \/ People!SessionBegin(t, u) \/ People!OpenPage(t, u)
           \/ People!DiscoverBegin(t, u) \/ People!WorkBegin(t, u)
  PROVE  AccountsInv' /\ Revives(t)
<1>0. AccountsTyped /\ u # People!None /\ pe_row[u] \in People!Rows /\ RowOf(u, pe_row[u])
  BY AccountFacts DEF AccountsInv, AccountsTyped
<1>a. pe_job[t] = People!Idle /\ pe_row' = pe_row /\ pe_held' = pe_held /\ pe_posts' = pe_posts /\ pe_blocked' = pe_blocked /\ pe_confirm' = pe_confirm /\ pe_stale' = pe_stale /\ pe_inbox' \subseteq pe_inbox
  BY DEF People!RegisterBegin, People!ReactivateBegin, People!SessionBegin, People!OpenPage,
     People!DiscoverBegin, People!WorkBegin, People!Begin
<1>b. \A op, why : People!Begin(t, op, u, why) =>
        pe_job' = [pe_job EXCEPT ![t] = [op |-> op, user |-> u, reason |-> why, copy |-> pe_row[u]]]
  BY <1>0 DEF People!Begin
<1>c. ASSUME NEW op \in AccountOps \ ({"idle"} \cup People!Sweeping), NEW why \in People!Reasons, People!Begin(t, op, u, why),
             JobOf([op |-> op, user |-> u, reason |-> why, copy |-> pe_row[u]]),
             op \notin {"suspend", "unsuspend"}, op = "register_pending" => pe_confirm,
             op \in Newcomers \/ pe_row[u].known,
             op = "discover" => ~pe_row[u].known /\ \A x \in Clerks : pe_job[x].user # u
      PROVE  AccountsInv' /\ Revives(t)
  <2> DEFINE j == [op |-> op, user |-> u, reason |-> why, copy |-> pe_row[u]]
  <2>1. pe_job' = [pe_job EXCEPT ![t] = j] /\ JobOf(j)
    BY <1>b, <1>c
  <2>2. j.op = op /\ j.user = u /\ j.copy = pe_row[u] /\ j # People!Idle
    BY <1>0, AccountFacts
  <2>3. pe_job[t].op \notin People!Sweeping /\ t \notin pe_stale
    BY <1>0, <1>a, AccountFacts DEF People!Sweeping, AccountsTyped
  <2>4. /\ pe_posts' \subseteq {v \in People!Users : pe_row[v].known}
        /\ pe_inbox' \subseteq {"link", "create", "delete"} \X {v \in There : pe_row[v].known}
        /\ pe_blocked' \in BOOLEAN /\ pe_confirm' \in BOOLEAN
    BY <1>0, <1>a DEF AccountsTyped
  <2>5. j.op \notin People!Sweeping
    BY <2>2
  <2> HIDE DEF j
  <2> QED
    BY <1>a, <1>c, <2>1, <2>2, <2>3, <2>4, <2>5, AccountsUntouched DEF People!Sweeping
<1>1. CASE People!RegisterBegin(t, u)
  <2> DEFINE op == IF pe_confirm THEN "register_pending" ELSE "register"
  <2>1. People!Begin(t, op, u, People!None) /\ u \in Here /\ ~pe_row[u].known
    BY <1>1 DEF People!RegisterBegin
  <2>2. op \in AccountOps \ ({"idle"} \cup People!Sweeping) /\ People!None \in People!Reasons /\ op \in {"register", "register_pending"}
    BY DEF AccountOps, People!Sweeping, People!Reasons
  <2>3. JobOf([op |-> op, user |-> u, reason |-> People!None, copy |-> pe_row[u]])
    BY <1>0, <2>1, <2>2 DEF JobOf, Ours, Newcomers, People!Sweeping
  <2> QED
    BY <1>c, <2>1, <2>2, <2>3 DEF Newcomers
<1>2. CASE People!ReactivateBegin(t, u)
  <2>1. People!Begin(t, "reactivate", u, People!None) /\ u \in Here /\ pe_row[u].known
    BY <1>0, <1>2 DEF People!ReactivateBegin, RowOf, People!Unknown, People!None
  <2>2. "reactivate" \in AccountOps \ ({"idle"} \cup People!Sweeping) /\ People!None \in People!Reasons
    BY DEF AccountOps, People!Sweeping, People!Reasons
  <2>3. JobOf([op |-> "reactivate", user |-> u, reason |-> People!None, copy |-> pe_row[u]])
    BY <1>0, <2>1, <2>2 DEF JobOf, Ours, Newcomers, People!Sweeping
  <2> QED
    BY <1>c, <2>1, <2>2, <2>3 DEF Newcomers
<1>3. CASE People!SessionBegin(t, u)
  <2>1. u \in Here /\ pe_row[u].active /\ pe_row[u].known
    BY <1>0, <1>3 DEF People!SessionBegin, RowOf, People!Unknown
  <2>2. PICK op \in {"deactivate", "edit", "post", "delete"} :
          \E why \in People!Reasons : People!Begin(t, op, u, why) /\ (op = "delete" => why = "self_deletion")
    BY <1>3 DEF People!SessionBegin, People!Reasons
  <2>3. PICK why \in People!Reasons : People!Begin(t, op, u, why) /\ (op = "delete" => why = "self_deletion")
    BY <2>2
  <2>4. op \in AccountOps \ ({"idle"} \cup People!Sweeping)
    BY DEF AccountOps, People!Sweeping
  <2>5. JobOf([op |-> op, user |-> u, reason |-> why, copy |-> pe_row[u]])
    BY <1>0, <2>1, <2>3, <2>4 DEF JobOf, Ours, Newcomers, People!Sweeping, Deletions
  <2> QED
    BY <1>c, <2>1, <2>3, <2>4, <2>5
<1>4. CASE People!OpenPage(t, u)
  <2>1. People!Begin(t, "page", u, People!None) /\ pe_row[u].known
    BY <1>4 DEF People!OpenPage, People!Offered
  <2>2. "page" \in AccountOps \ ({"idle"} \cup People!Sweeping) /\ People!None \in People!Reasons
    BY DEF AccountOps, People!Sweeping, People!Reasons
  <2>3. JobOf([op |-> "page", user |-> u, reason |-> People!None, copy |-> pe_row[u]])
    BY <1>0, <2>1, <2>2 DEF JobOf, Ours, Newcomers, People!Sweeping
  <2> QED
    BY <1>c, <2>1, <2>2, <2>3
<1>5. CASE People!DiscoverBegin(t, u)
  <2>1. People!Begin(t, "discover", u, People!None) /\ u \in There /\ ~pe_row[u].known /\ \A x \in Clerks : pe_job[x].user # u
    BY <1>5 DEF People!DiscoverBegin
  <2>2. "discover" \in AccountOps \ ({"idle"} \cup People!Sweeping) /\ People!None \in People!Reasons
    BY DEF AccountOps, People!Sweeping, People!Reasons
  <2>3. JobOf([op |-> "discover", user |-> u, reason |-> People!None, copy |-> pe_row[u]])
    BY <1>0, <2>1, <2>2 DEF JobOf, Ours, Newcomers, People!Sweeping
  <2> QED
    BY <1>c, <2>1, <2>2, <2>3 DEF Newcomers
<1>6. CASE People!WorkBegin(t, u)
  <2>1. PICK op \in {"post", "delete"} : People!Begin(t, op, u, People!None) /\ \E kind \in {"create", "delete"} : <<kind, u>> \in pe_inbox
    BY <1>6 DEF People!WorkBegin
  <2>2. u \in There /\ pe_row[u].known /\ u \notin Here
    BY <1>0, <2>1, AccountFacts DEF AccountsTyped
  <2>3. op \in AccountOps \ ({"idle"} \cup People!Sweeping) /\ People!None \in People!Reasons
    BY DEF AccountOps, People!Sweeping, People!Reasons
  <2>4. JobOf([op |-> op, user |-> u, reason |-> People!None, copy |-> pe_row[u]])
    BY <1>0, <2>2, <2>3 DEF JobOf, Ours, Newcomers, People!Sweeping
  <2> QED
    BY <1>c, <2>1, <2>2, <2>3, <2>4
<1> QED
  BY <1>1, <1>2, <1>3, <1>4, <1>5, <1>6

\* What is begun about all accounts, or about the site.
LEMMA SiteBeginsWell ==
  ASSUME AccountsInv, Written, NEW t \in Clerks, People!RequireConfirm(t) \/ People!DropConfirm(t) \/ People!ServerBegin(t)
  PROVE  AccountsInv' /\ Revives(t)
<1>0. AccountsTyped
  BY DEF AccountsInv
<1>1. pe_job[t] = People!Idle /\ t \notin pe_stale /\ pe_job[t].op \notin People!Sweeping /\ pe_job \in [Clerks -> [op : AccountOps, user : People!Users \cup {People!None}, copy : People!Rows, reason : People!Reasons]]
  BY <1>0, AccountFacts DEF People!RequireConfirm, People!DropConfirm, People!ServerBegin,
     People!Begin, AccountsTyped, People!Sweeping
<1>2. /\ pe_row' = pe_row /\ pe_held' = pe_held /\ pe_posts' = pe_posts /\ pe_inbox' = pe_inbox /\ pe_stale' = pe_stale
      /\ pe_blocked' \in BOOLEAN /\ pe_confirm' \in BOOLEAN
  BY <1>0 DEF People!RequireConfirm, People!DropConfirm, People!ServerBegin, AccountsTyped
<1>3. /\ pe_posts' \subseteq {v \in People!Users : pe_row[v].known}
      /\ pe_inbox' \subseteq {"link", "create", "delete"} \X {v \in There : pe_row[v].known}
  BY <1>0, <1>2 DEF AccountsTyped
<1>4. CASE People!RequireConfirm(t)
  <2>1. pe_job' = [pe_job EXCEPT ![t] = People!Idle] /\ pe_confirm' /\ pe_blocked' = pe_blocked
    BY <1>1, <1>4 DEF People!RequireConfirm
  <2> QED
    BY <1>1, <1>2, <1>3, <2>1, AccountFacts, AccountsUntouched
<1>5. ASSUME NEW op \in People!Sweeping, People!Begin(t, op, People!None, People!None),
             ~pe_confirm' => ~pe_confirm \/ op = "activate_pending",
             ~pe_blocked' => op = "let_in" \/ (~pe_blocked /\ op # "shut_out")
      PROVE  AccountsInv' /\ Revives(t)
  <2> DEFINE j == [op |-> op, user |-> People!None, reason |-> People!None, copy |-> People!Unknown]
  <2>1. pe_job' = [pe_job EXCEPT ![t] = j]
    BY <1>5 DEF People!Begin
  <2>2. j.op = op /\ j.user \notin People!Users
    BY AccountFacts
  <2>3. JobOf(j)
    BY AccountFacts DEF JobOf, AccountOps, People!Sweeping, People!Reasons, Ours, Newcomers
  <2>4. j.op # "discover" /\ j.op # "register_pending"
    BY DEF People!Sweeping
  <2> HIDE DEF j
  <2> QED
    BY <1>1, <1>2, <1>3, <1>5, <2>1, <2>2, <2>3, <2>4, AccountsUntouched
<1>6. CASE People!DropConfirm(t)
  BY <1>5, <1>6 DEF People!DropConfirm, People!Sweeping
<1>7. CASE People!ServerBegin(t)
  <2>1. CASE pe_blocked
    BY <1>5, <1>7, <2>1 DEF People!ServerBegin, People!Sweeping
  <2>2. CASE ~pe_blocked
    BY <1>5, <1>7, <2>2 DEF People!ServerBegin, People!Sweeping
  <2> QED
    BY <2>1, <2>2
<1> QED
  BY <1>4, <1>6, <1>7

\* Steps of a thread at work that write no account.
LEMMA WorksOnWell ==
  ASSUME AccountsInv, Written, NEW t \in Clerks,
         People!Press(t) \/ People!ClosePage(t) \/ People!Erase(t) \/ People!Post(t)
           \/ (People!Reactivate(t) /\ ~People!MayReactivate(pe_job[t].copy))
  PROVE  AccountsInv' /\ Revives(t)
<1> DEFINE u == pe_job[t].user
<1>0. AccountsTyped /\ Discovered
  BY DEF AccountsInv
<1>1. pe_job[t].op \in {"page", "delete", "post", "reactivate"}
  BY DEF People!Press, People!ClosePage, People!Erase, People!Post, People!Reactivate, People!On
<1>2. pe_job[t].op \notin People!Sweeping \cup {"idle"} \cup Newcomers
  BY <1>1 DEF People!Sweeping, Newcomers
<1>3. /\ JobOf(pe_job[t]) /\ InHand(t) /\ u \in People!Users /\ pe_job[t] # People!Idle
      /\ RowOf(u, pe_job[t].copy) /\ pe_job[t].copy \in People!Rows
      /\ RowOf(u, pe_row[u]) /\ pe_row[u] \in People!Rows /\ pe_row[u].known
  BY <1>2, AccountInHand DEF InHand
<1>4. /\ pe_row' = pe_row /\ pe_held' = pe_held /\ pe_blocked' = pe_blocked /\ pe_confirm' = pe_confirm
      /\ pe_inbox' = pe_inbox
  BY DEF People!Press, People!ClosePage, People!Erase, People!Post, People!Reactivate, People!Quits
<1>5. pe_posts' \subseteq {v \in People!Users : pe_row[v].known}
  BY <1>0, <1>3 DEF AccountsTyped, People!Press, People!ClosePage, People!Erase, People!Post,
     People!Reactivate, People!Quits
<1>6. /\ pe_inbox' \subseteq {"link", "create", "delete"} \X {v \in There : pe_row[v].known}
      /\ pe_blocked' \in BOOLEAN /\ pe_confirm' \in BOOLEAN
  BY <1>0, <1>4 DEF AccountsTyped
<1>7. CASE People!Press(t)
  <2>1. PICK op \in People!Offered(u, pe_job[t].copy) :
          pe_job' = [pe_job EXCEPT ![t] = [op |-> op, user |-> u, copy |-> pe_row[u],
                                     reason |-> IF op = "delete" THEN "moderator_deletion" ELSE People!None]]
    BY <1>7 DEF People!Press
  <2> DEFINE j == [op |-> op, user |-> u, copy |-> pe_row[u],
                   reason |-> IF op = "delete" THEN "moderator_deletion" ELSE People!None]
  <2>2. op \in {"reactivate", "suspend", "unsuspend", "delete"} /\ ~People!Gone(pe_job[t].copy)
    BY DEF People!Offered, People!Gone
  <2>3. op = "reactivate" => u \in Here
    BY <1>3, AccountFacts DEF People!Offered, RowOf
  <2>4. op \in AccountOps /\ op \notin People!Sweeping \cup {"idle"} \cup Newcomers
    BY <2>2 DEF AccountOps, People!Sweeping, Newcomers
  <2>5. j.reason \in People!Reasons /\ (op = "delete" => j.reason \in Deletions)
    BY DEF People!Reasons, Deletions
  <2>6. JobOf(j)
    BY <1>3, <2>2, <2>3, <2>4, <2>5 DEF JobOf, Ours
  <2>7. j.op = op /\ j.user = u /\ j.copy = pe_row[u] /\ j # People!Idle
    BY <2>4, AccountFacts
  <2>8. pe_stale' = pe_stale /\ pe_job' = [pe_job EXCEPT ![t] = j]
    BY <1>7, <2>1 DEF People!Press
  <2>9. t \notin pe_stale => ~People!Gone(pe_row[u])
    BY <1>3, <2>2 DEF InHand
  <2> HIDE DEF j, u
  <2> QED
    BY <1>2, <1>3, <1>4, <1>5, <1>6, <2>2, <2>4, <2>6, <2>7, <2>8, <2>9, AccountsUntouched
       DEF People!Sweeping, Newcomers
<1>8. CASE People!Erase(t)
  <2> DEFINE j == [pe_job[t] EXCEPT !.op = "save_deleted"]
  <2>1. pe_job[t] \in [op : AccountOps, user : People!Users \cup {People!None}, copy : People!Rows, reason : People!Reasons]
    BY <1>3 DEF JobOf
  <2>2. j.op = "save_deleted" /\ j.user = u /\ j.copy = pe_job[t].copy /\ j.reason = pe_job[t].reason
    BY <2>1
  <2>3. pe_job' = [pe_job EXCEPT ![t] = j] /\ pe_stale' = pe_stale /\ pe_job[t].op = "delete"
    BY <1>8 DEF People!Erase, People!Goes, People!On
  <2>4. j \in [op : AccountOps, user : People!Users \cup {People!None}, copy : People!Rows, reason : People!Reasons]
    BY <2>1 DEF AccountOps
  <2>5. JobOf(j)
    BY <1>3, <2>2, <2>3, <2>4 DEF JobOf, Ours, Newcomers, People!Sweeping
  <2>6. t \notin pe_stale' => j.copy = pe_row[u]
    BY <1>3, <2>2, <2>3 DEF InHand
  <2>7. j # People!Idle
    BY <2>2, AccountFacts
  <2> HIDE DEF j, u
  <2> QED
    BY <1>2, <1>3, <1>4, <1>5, <1>6, <2>2, <2>3, <2>5, <2>6, <2>7, AccountsUntouched
       DEF People!Sweeping, Newcomers
<1>9. CASE People!ClosePage(t) \/ People!Post(t) \/ (People!Reactivate(t) /\ ~People!MayReactivate(pe_job[t].copy))
  <2>1. pe_job' = [pe_job EXCEPT ![t] = People!Idle] /\ pe_stale' = pe_stale \ {t}
    BY <1>9 DEF People!ClosePage, People!Post, People!Reactivate, People!Quits, People!Ends
  <2>2. People!Idle.user \notin People!Users /\ People!Idle.op = "idle" /\ JobOf(People!Idle)
    BY AccountFacts
  <2> HIDE DEF u
  <2> QED
    BY <1>2, <1>4, <1>5, <1>6, <2>1, <2>2, AccountsUntouched
<1> QED
  BY <1>7, <1>8, <1>9

LEMMA SweepsWell ==
  ASSUME AccountsInv, Written, NEW t \in Clerks, People!ActivatePending(t) \/ People!ShutOut(t) \/ People!LetIn(t)
  PROVE  AccountsInv' /\ Revives(t)
<1>0. pe_row \in [People!Users -> People!Rows] /\ \A u \in People!Users : RowOf(u, pe_row[u]) /\ pe_row[u] \in People!Rows
  BY DEF AccountsInv, AccountsTyped
<1>1. /\ pe_posts' = pe_posts /\ pe_inbox' = pe_inbox /\ pe_blocked' = pe_blocked /\ pe_confirm' = pe_confirm /\ pe_held' = pe_held
      /\ People!Ends(t) /\ pe_job[t].op \in People!Sweeping
  BY DEF People!ActivatePending, People!ShutOut, People!LetIn, People!On, People!Sweeping
<1>2. CASE People!ActivatePending(t)
  <2> DEFINE rows == [u \in People!Users |->
                        IF ~pe_row[u].active /\ pe_row[u].reason = "pending"
                          THEN [pe_row[u] EXCEPT !.active = TRUE, !.reason = People!None] ELSE pe_row[u]]
  <2>1. People!Commit(t, rows) /\ pe_job[t].op = "activate_pending"
    BY <1>2 DEF People!ActivatePending, People!On
  <2>2. ASSUME NEW u \in People!Users
        PROVE  /\ RowOf(u, rows[u]) /\ rows[u].known = pe_row[u].known /\ rows[u].deleted = pe_row[u].deleted
               /\ pe_row[u].reason \in Deletions \cup {"moderator_suspension"} => rows[u] = pe_row[u]
               /\ rows[u].reason # "pending"
               /\ rows[u].reason = "domain_block" => pe_row[u].reason = "domain_block"
    <3>1. rows[u] = IF ~pe_row[u].active /\ pe_row[u].reason = "pending"
                      THEN [pe_row[u] EXCEPT !.active = TRUE, !.reason = People!None] ELSE pe_row[u]
      OBVIOUS
    <3>2. RowOf(u, pe_row[u]) /\ pe_row[u] \in People!Rows
      BY <1>0
    <3>3. People!None # "pending" /\ People!None # "domain_block" /\ People!None \in People!Reasons
      BY DEF People!None, People!Reasons
    <3> HIDE DEF rows
    <3>4. CASE ~pe_row[u].active /\ pe_row[u].reason = "pending"
      <4>1. rows[u] = [pe_row[u] EXCEPT !.active = TRUE, !.reason = People!None] /\ rows[u] \in People!Rows
        BY <3>1, <3>2, <3>3, <3>4 DEF People!Rows
      <4>2. /\ rows[u].active /\ rows[u].reason = People!None /\ rows[u].known = pe_row[u].known
            /\ rows[u].deleted = pe_row[u].deleted /\ rows[u].allow = pe_row[u].allow /\ rows[u].linked = pe_row[u].linked
        BY <3>2, <4>1 DEF People!Rows
      <4>3. pe_row[u].known
        BY <3>2, <3>4 DEF RowOf, People!Unknown, People!None
      <4> QED
        BY <3>2, <3>3, <3>4, <4>1, <4>2, <4>3 DEF RowOf, People!Gone, Deletions
    <3>5. CASE ~(~pe_row[u].active /\ pe_row[u].reason = "pending")
      BY <3>1, <3>2, <3>3, <3>5 DEF RowOf
    <3> QED
      BY <3>4, <3>5
  <2>3. rows \in [People!Users -> People!Rows]
    <3>1. \A u \in People!Users : rows[u] \in People!Rows
      BY <2>2 DEF RowOf
    <3> QED
      BY <3>1
  <2> HIDE DEF rows
  <2> QED
    BY <1>1, <2>1, <2>2, <2>3, AccountsSwept
<1>3. CASE People!ShutOut(t)
  <2> DEFINE rows == [u \in People!Users |->
                        IF People!Outed(pe_row[u])
                          THEN [pe_row[u] EXCEPT !.active = FALSE, !.reason = "domain_block"] ELSE pe_row[u]]
  <2>1. People!Commit(t, rows) /\ pe_job[t].op = "shut_out"
    BY <1>3 DEF People!ShutOut, People!On
  <2>2. ASSUME NEW u \in People!Users
        PROVE  /\ RowOf(u, rows[u]) /\ rows[u].known = pe_row[u].known /\ rows[u].deleted = pe_row[u].deleted
               /\ pe_row[u].reason \in Deletions \cup {"moderator_suspension"} => rows[u] = pe_row[u]
               /\ rows[u].reason = "pending" => pe_row[u].reason = "pending"
    <3>1. rows[u] = IF People!Outed(pe_row[u])
                      THEN [pe_row[u] EXCEPT !.active = FALSE, !.reason = "domain_block"] ELSE pe_row[u]
      OBVIOUS
    <3>2. RowOf(u, pe_row[u]) /\ pe_row[u] \in People!Rows
      BY <1>0
    <3> HIDE DEF rows
    <3>4. CASE People!Outed(pe_row[u])
      <4>1. rows[u] = [pe_row[u] EXCEPT !.active = FALSE, !.reason = "domain_block"] /\ rows[u] \in People!Rows
        BY <3>1, <3>2, <3>4 DEF People!Rows, People!Reasons
      <4>2. /\ ~rows[u].active /\ rows[u].reason = "domain_block" /\ rows[u].known = pe_row[u].known
            /\ rows[u].deleted = pe_row[u].deleted /\ rows[u].allow = pe_row[u].allow /\ rows[u].linked = pe_row[u].linked
        BY <3>2, <4>1 DEF People!Rows
      <4>3. pe_row[u].known /\ pe_row[u].reason = People!None /\ pe_row[u].linked
        BY <3>2, <3>4 DEF RowOf, People!Unknown, People!Outed
      <4> QED
        BY <3>2, <4>1, <4>2, <4>3 DEF RowOf, People!Gone, Deletions, People!None
    <3>5. CASE ~People!Outed(pe_row[u])
      BY <3>1, <3>2, <3>5
    <3> QED
      BY <3>4, <3>5
  <2>3. rows \in [People!Users -> People!Rows]
    <3>1. \A u \in People!Users : rows[u] \in People!Rows
      BY <2>2 DEF RowOf
    <3> QED
      BY <3>1
  <2> HIDE DEF rows
  <2> QED
    BY <1>1, <2>1, <2>2, <2>3, AccountsSwept
<1>4. CASE People!LetIn(t)
  <2> DEFINE rows == [u \in People!Users |->
                        IF pe_row[u].linked /\ pe_row[u].reason = "domain_block"
                          THEN [pe_row[u] EXCEPT !.active = TRUE, !.reason = People!None] ELSE pe_row[u]]
  <2>1. People!Commit(t, rows) /\ pe_job[t].op = "let_in"
    BY <1>4 DEF People!LetIn, People!On
  <2>2. ASSUME NEW u \in People!Users
        PROVE  /\ RowOf(u, rows[u]) /\ rows[u].known = pe_row[u].known /\ rows[u].deleted = pe_row[u].deleted
               /\ pe_row[u].reason \in Deletions \cup {"moderator_suspension"} => rows[u] = pe_row[u]
               /\ rows[u].reason = "pending" => pe_row[u].reason = "pending"
               /\ rows[u].reason # "domain_block"
    <3>1. rows[u] = IF pe_row[u].linked /\ pe_row[u].reason = "domain_block"
                      THEN [pe_row[u] EXCEPT !.active = TRUE, !.reason = People!None] ELSE pe_row[u]
      OBVIOUS
    <3>2. RowOf(u, pe_row[u]) /\ pe_row[u] \in People!Rows
      BY <1>0
    <3>3. People!None # "pending" /\ People!None # "domain_block" /\ People!None \in People!Reasons
      BY DEF People!None, People!Reasons
    <3> HIDE DEF rows
    <3>4. CASE pe_row[u].linked /\ pe_row[u].reason = "domain_block"
      <4>1. rows[u] = [pe_row[u] EXCEPT !.active = TRUE, !.reason = People!None] /\ rows[u] \in People!Rows
        BY <3>1, <3>2, <3>3, <3>4 DEF People!Rows
      <4>2. /\ rows[u].active /\ rows[u].reason = People!None /\ rows[u].known = pe_row[u].known
            /\ rows[u].deleted = pe_row[u].deleted /\ rows[u].allow = pe_row[u].allow /\ rows[u].linked = pe_row[u].linked
        BY <3>2, <4>1 DEF People!Rows
      <4>3. pe_row[u].known
        BY <3>2, <3>4 DEF RowOf, People!Unknown, People!None
      <4> QED
        BY <3>2, <3>3, <3>4, <4>1, <4>2, <4>3 DEF RowOf, People!Gone, Deletions
    <3>5. CASE ~(pe_row[u].linked /\ pe_row[u].reason = "domain_block")
      BY <3>1, <3>2, <3>3, <3>5 DEF RowOf
    <3> QED
      BY <3>4, <3>5
  <2>3. rows \in [People!Users -> People!Rows]
    <3>1. \A u \in People!Users : rows[u] \in People!Rows
      BY <2>2 DEF RowOf
    <3> QED
      BY <3>1
  <2> HIDE DEF rows
  <2> QED
    BY <1>1, <2>1, <2>2, <2>3, AccountsSwept
<1> QED
  BY <1>2, <1>3, <1>4

LEMMA SavesWell ==
  ASSUME AccountsInv, Written, NEW t \in Clerks,
         People!Register(t) \/ (People!Reactivate(t) /\ People!MayReactivate(pe_job[t].copy)) \/ People!Deactivate(t) \/ People!Edit(t)
           \/ People!Suspend(t) \/ People!Unsuspend(t) \/ People!Delete(t) \/ People!Discover(t)
  PROVE  AccountsInv' /\ Revives(t)
<1> DEFINE u == pe_job[t].user
           c == pe_job[t].copy
           old == pe_row[u]
<1>0. AccountsTyped /\ Discovered /\ Suspended
  BY DEF AccountsInv
<1>1. pe_job[t].op \notin People!Sweeping \cup {"idle"}
  BY DEF People!Register, People!Reactivate, People!Deactivate, People!Edit, People!Suspend,
     People!Unsuspend, People!Delete, People!Discover, People!On, People!Sweeping
<1>2. /\ JobOf(pe_job[t]) /\ InHand(t) /\ u \in People!Users
      /\ RowOf(u, c) /\ c \in People!Rows /\ RowOf(u, old) /\ old \in People!Rows
  BY <1>1, AccountInHand
<1>3. t \notin pe_stale => c = old
  BY <1>2 DEF InHand
<1>4. pe_held \subseteq There /\ (u \in Here => u \notin pe_held)
  BY <1>0, AccountFacts DEF AccountsTyped
<1>5. /\ People!Ends(t) /\ pe_posts' = pe_posts /\ pe_blocked' = pe_blocked /\ pe_confirm' = pe_confirm
      /\ (pe_inbox' = pe_inbox \/ (People!Discover(t) /\ pe_inbox' = pe_inbox \cup {<<"link", u>>}))
  BY DEF People!Register, People!Reactivate, People!Deactivate, People!Edit, People!Suspend,
     People!Unsuspend, People!Delete, People!Discover, People!Quits, People!Ends
<1>6. People!None \in People!Reasons /\ People!None \notin Deletions \cup {"pending", "domain_block", "moderator_suspension"}
  BY DEF People!None, People!Reasons, Deletions
<1>7. ASSUME NEW r, People!SaveAll(t, r), RowOf(u, r), r.known,
             pe_inbox' \subseteq pe_inbox \cup ({"link"} \X ({u} \cap There)),
             pe_held' \subseteq pe_held \cup ({u} \cap There),
             u \in pe_held' => r.deleted \/ r.reason = "moderator_suspension",
             t \notin pe_stale =>
               /\ (u \in Here /\ old.deleted => People!Gone(old)) => (u \in Here /\ r.deleted => People!Gone(r))
               /\ pe_job[t].op # "register_pending" /\ r.reason \in {"pending", "domain_block"} => r.reason = old.reason
               /\ People!Gone(old) => People!Gone(r)
      PROVE  AccountsInv' /\ Revives(t)
  BY <1>1, <1>2, <1>5, <1>7, AccountsSaved
<1>10. CASE People!Register(t)
  <2> DEFINE r == IF People!On(t, "register") THEN People!Fresh
                  ELSE [People!Fresh EXCEPT !.active = FALSE, !.reason = "pending", !.allow = TRUE]
  <2>1. /\ People!SaveAll(t, r) /\ pe_held' = pe_held /\ pe_inbox' = pe_inbox
        /\ pe_job[t].op = "register" \/ pe_job[t].op = "register_pending"
    BY <1>10 DEF People!Register, People!On
  <2>2. u \in Here /\ ~c.known /\ u \notin There
    BY <1>2, <2>1, AccountFacts DEF JobOf, Ours, Newcomers
  <2>3. t \notin pe_stale => ~old.deleted /\ ~People!Gone(old)
    BY <1>2, <1>3, <2>2 DEF RowOf, People!Unknown, People!Gone
  <2>4. CASE pe_job[t].op = "register"
    <3>1. r = People!Fresh
      BY <2>4 DEF People!On
    <3> HIDE DEF r
    <3>2. RowOf(u, People!Fresh) /\ People!Fresh.known /\ ~People!Fresh.deleted /\ People!Fresh.reason = People!None
      BY <1>6, <2>2, AccountFacts DEF RowOf, People!Gone
    <3>3. RowOf(u, r) /\ r.known /\ ~r.deleted /\ r.reason = People!None
      BY <3>1, <3>2
    <3> QED
      BY <1>4, <1>6, <1>7, <2>1, <2>2, <2>3, <3>3
  <2>5. CASE pe_job[t].op = "register_pending"
    <3>1. r = [People!Fresh EXCEPT !.active = FALSE, !.reason = "pending", !.allow = TRUE]
      BY <2>5 DEF People!On
    <3>2. r \in People!Rows /\ r.known /\ ~r.deleted /\ r.reason = "pending" /\ ~r.active /\ ~r.linked
      BY <3>1, AccountFacts DEF People!Rows, People!Reasons
    <3>3. RowOf(u, r)
      BY <2>2, <3>2 DEF RowOf, People!Gone, Deletions
    <3> HIDE DEF r
    <3> QED
      BY <1>4, <1>6, <1>7, <2>1, <2>2, <2>3, <2>5, <3>2, <3>3
  <2> QED
    BY <2>1, <2>4, <2>5
<1>11. CASE People!Reactivate(t) /\ People!MayReactivate(c)
  <2> DEFINE r == [old EXCEPT !.active = TRUE, !.reason = People!None, !.allow = FALSE]
  <2>1. People!SaveSome(t, u, r) /\ pe_held' = pe_held /\ pe_inbox' = pe_inbox /\ pe_job[t].op = "reactivate"
    BY <1>11 DEF People!Reactivate, People!On
  <2>2. People!SaveAll(t, r)
    BY <2>1 DEF People!SaveSome, People!SaveAll
  <2>3. u \in Here /\ u \notin There /\ c.known /\ c.allow
    BY <1>2, <1>11, <2>1, AccountFacts DEF JobOf, Ours, Newcomers, People!Sweeping,
       People!MayReactivate
  <2>4. old.known
    BY <1>2, <2>1 DEF InHand, Newcomers
  <2>5. /\ r \in People!Rows /\ r.known /\ r.active /\ r.reason = People!None /\ ~r.allow
        /\ r.deleted = old.deleted /\ r.linked = old.linked
    BY <1>2, <1>6, <2>4 DEF People!Rows
  <2>6. RowOf(u, r)
    BY <1>2, <1>6, <2>3, <2>5 DEF RowOf
  <2>7. t \notin pe_stale => ~People!Gone(old)
    BY <1>2, <1>3, <2>3 DEF RowOf
  <2> HIDE DEF r
  <2> QED
    BY <1>4, <1>6, <1>7, <2>1, <2>2, <2>3, <2>5, <2>6, <2>7
<1>12. CASE People!Deactivate(t)
  <2> DEFINE r == [c EXCEPT !.active = FALSE, !.allow = TRUE, !.reason = "self_deactivation"]
  <2>1. People!SaveAll(t, r) /\ pe_held' = pe_held /\ pe_inbox' = pe_inbox /\ pe_job[t].op = "deactivate"
    BY <1>12 DEF People!Deactivate, People!On
  <2>2. u \in Here /\ u \notin There /\ c.known /\ c.active
    BY <1>2, <2>1, AccountFacts DEF JobOf, Ours, Newcomers, People!Sweeping
  <2>3. /\ r \in People!Rows /\ r.known /\ ~r.active /\ r.reason = "self_deactivation"
        /\ r.deleted = c.deleted /\ r.linked = c.linked
    BY <1>2, <2>2 DEF People!Rows, People!Reasons
  <2>4. RowOf(u, r) /\ r.reason \notin {"pending", "domain_block"}
    BY <1>2, <2>2, <2>3 DEF RowOf, People!Gone
  <2>5. t \notin pe_stale => ~People!Gone(old)
    BY <1>3, <2>2 DEF People!Gone
  <2> HIDE DEF r
  <2> QED
    BY <1>3, <1>4, <1>7, <2>1, <2>2, <2>3, <2>4, <2>5
<1>13. CASE People!Edit(t)
  <2>1. People!SaveAll(t, c) /\ pe_held' = pe_held /\ pe_inbox' = pe_inbox /\ pe_job[t].op = "edit"
    BY <1>13 DEF People!Edit, People!On
  <2>2. u \in Here /\ u \notin There /\ c.known
    BY <1>2, <2>1, AccountFacts DEF JobOf, Ours, Newcomers, People!Sweeping
  <2> HIDE DEF old, c, u
  <2> QED
    BY <1>2, <1>3, <1>4, <1>7, <2>1, <2>2
<1>14. CASE People!Suspend(t)
  <2> DEFINE r == [c EXCEPT !.active = FALSE, !.reason = "moderator_suspension"]
  <2>1. People!SaveAll(t, r) /\ pe_held' = pe_held \cup ({u} \cap There) /\ pe_inbox' = pe_inbox /\ pe_job[t].op = "suspend"
    BY <1>5, <1>14 DEF People!Suspend, People!On
  <2>2. c.known
    BY <1>2, <2>1 DEF JobOf, Newcomers, People!Sweeping
  <2>3. /\ r \in People!Rows /\ r.known /\ ~r.active /\ r.reason = "moderator_suspension"
        /\ r.deleted = c.deleted /\ r.linked = c.linked /\ r.allow = c.allow
    BY <1>2, <2>2 DEF People!Rows, People!Reasons
  <2>4. RowOf(u, r) /\ r.reason \notin {"pending", "domain_block"}
    BY <1>2, <2>2, <2>3 DEF RowOf, People!Gone
  <2>5. t \notin pe_stale => ~People!Gone(old)
    BY <1>2, <1>3, <2>1 DEF InHand
  <2> HIDE DEF r
  <2> QED
    BY <1>3, <1>4, <1>7, <2>1, <2>2, <2>3, <2>4, <2>5
<1>15. CASE People!Unsuspend(t)
  <2> DEFINE r == [c EXCEPT !.active = TRUE, !.reason = People!None]
  <2>1. People!SaveAll(t, r) /\ pe_held' = pe_held \ {u} /\ pe_inbox' = pe_inbox /\ pe_job[t].op = "unsuspend"
    BY <1>5, <1>15 DEF People!Unsuspend, People!On
  <2>2. c.known
    BY <1>2, <2>1 DEF JobOf, Newcomers, People!Sweeping
  <2>3. /\ r \in People!Rows /\ r.known /\ r.active /\ r.reason = People!None
        /\ r.deleted = c.deleted /\ r.linked = c.linked /\ r.allow = c.allow
    BY <1>2, <1>6, <2>2 DEF People!Rows
  <2>4. RowOf(u, r)
    BY <1>2, <1>6, <2>2, <2>3 DEF RowOf, People!Gone
  <2>5. t \notin pe_stale => ~People!Gone(old)
    BY <1>2, <1>3, <2>1 DEF InHand
  <2> HIDE DEF r
  <2> QED
    BY <1>3, <1>4, <1>6, <1>7, <2>1, <2>2, <2>3, <2>4, <2>5
<1>16. CASE People!Delete(t)
  <2> DEFINE why == pe_job[t].reason
             r == People!Deleted(c, why)
  <2>1. People!SaveAll(t, r) /\ pe_held' = pe_held /\ pe_inbox' = pe_inbox /\ pe_job[t].op = "save_deleted"
    BY <1>16 DEF People!Delete, People!On
  <2>2. c.known /\ why \in Deletions \cup {People!None} /\ (u \in Here => why \in Deletions)
    BY <1>2, <2>1 DEF JobOf, Newcomers, People!Sweeping
  <2>3. \E x \in People!Reasons : x = (IF why = People!None THEN c.reason ELSE why)
    BY <1>2, <2>2 DEF People!Rows, People!Reasons, Deletions
  <2>4. PICK x \in People!Reasons : x = (IF why = People!None THEN c.reason ELSE why)
    BY <2>3
  <2>5. r = [c EXCEPT !.active = FALSE, !.allow = FALSE, !.deleted = TRUE, !.reason = x]
    BY <2>4 DEF People!Deleted
  <2>6. /\ r \in People!Rows /\ r.known /\ ~r.active /\ ~r.allow /\ r.deleted /\ r.reason = x /\ r.linked = c.linked
    BY <1>2, <2>2, <2>5 DEF People!Rows
  <2>7. x \in Deletions \/ (x = c.reason /\ why = People!None)
    BY <1>6, <2>2, <2>4
  <2>8. RowOf(u, r)
    BY <1>2, <2>6, <2>7 DEF RowOf, People!Gone, Deletions
  <2>9. u \in Here => People!Gone(r)
    BY <1>6, <2>2, <2>4, <2>6 DEF People!Gone, Deletions
  <2>10. t \notin pe_stale /\ People!Gone(old) => People!Gone(r)
    BY <1>3, <2>6, <2>7 DEF People!Gone, Deletions
  <2>11. t \notin pe_stale /\ r.reason \in {"pending", "domain_block"} => r.reason = old.reason
    BY <1>3, <2>6, <2>7 DEF Deletions
  <2> HIDE DEF r
  <2> QED
    BY <1>7, <2>1, <2>6, <2>8, <2>9, <2>10, <2>11
<1>17. CASE People!Discover(t)
  <2>1. People!SaveAll(t, People!Fresh) /\ pe_held' = pe_held /\ pe_inbox' = pe_inbox \cup {<<"link", u>>} /\ pe_job[t].op = "discover"
    BY <1>17 DEF People!Discover, People!On
  <2>2. u \in There /\ ~c.known /\ ~old.known
    BY <1>0, <1>2, <2>1 DEF JobOf, Newcomers, People!Sweeping, Discovered
  <2>3. RowOf(u, People!Fresh) /\ People!Fresh.reason \notin {"pending", "domain_block"}
    BY <1>6, <2>2, AccountFacts DEF RowOf, People!Gone
  <2>4. u \notin pe_held'
    BY <1>0, <2>1, <2>2 DEF Suspended
  <2>5. ~People!Gone(old)
    BY <1>2, <2>2 DEF RowOf, People!Unknown, People!Gone
  <2>6. pe_inbox' \subseteq pe_inbox \cup ({"link"} \X ({u} \cap There))
    BY <2>1, <2>2
  <2> QED
    BY <1>7, <2>1, <2>3, <2>4, <2>5, <2>6, AccountFacts
<1> QED
  BY <1>10, <1>11, <1>12, <1>13, <1>14, <1>15, <1>16, <1>17

LEMMA LinksWell ==
  ASSUME AccountsInv, Written, NEW t \in Clerks, NEW u \in People!Users, People!Link(t, u)
  PROVE  AccountsInv' /\ Revives(t)
<1> DEFINE r == [pe_row[u] EXCEPT !.linked = TRUE]
<1>0. AccountsTyped /\ Discovered /\ Suspended
  BY DEF AccountsInv
<1>1. /\ pe_job[t] = People!Idle /\ <<"link", u>> \in pe_inbox /\ pe_inbox' = pe_inbox \ {<<"link", u>>}
      /\ pe_row' = [pe_row EXCEPT ![u] = r]
      /\ pe_stale' = (pe_stale \cup UNION {People!Busy(v) : v \in {w \in People!Users : pe_row'[w] # pe_row[w]}}) \ {t}
      /\ pe_posts' = pe_posts /\ pe_blocked' = pe_blocked /\ pe_confirm' = pe_confirm /\ pe_job' = pe_job /\ pe_held' = pe_held
  BY DEF People!Link, People!SaveSome, People!Commit
<1>2. u \in There /\ pe_row[u].known /\ pe_row[u] \in People!Rows /\ RowOf(u, pe_row[u]) /\ u \notin Here
  BY <1>0, <1>1, AccountFacts DEF AccountsTyped
<1>3. /\ r \in People!Rows /\ r.known /\ r.active = pe_row[u].active /\ r.deleted = pe_row[u].deleted
      /\ r.reason = pe_row[u].reason /\ r.allow = pe_row[u].allow /\ r.linked
  BY <1>2 DEF People!Rows
<1>4. RowOf(u, r) /\ (People!Gone(pe_row[u]) => People!Gone(r))
  BY <1>2, <1>3 DEF RowOf, People!Gone
<1>5. pe_row'[u] = r /\ \A v \in People!Users \ {u} : pe_row'[v] = pe_row[v]
  BY <1>0, <1>1 DEF AccountsTyped
<1> HIDE DEF r
<1>6. pe_row' \in [People!Users -> People!Rows] /\ \A v \in People!Users : RowOf(v, pe_row'[v]) /\ pe_row'[v].known = pe_row[v].known
  BY <1>0, <1>1, <1>2, <1>3, <1>4, <1>5 DEF AccountsTyped
<1>7. AccountsTyped' /\ (\A x \in Clerks : InHand(x)') /\ Discovered'
  <2>1. pe_job' = [pe_job EXCEPT ![t] = People!Idle]
    BY <1>0, <1>1 DEF AccountsTyped
  <2>2. \A x \in Clerks \ {t} : x \notin pe_stale' =>
          x \notin pe_stale /\ (pe_job[x].user \in People!Users => pe_row'[pe_job[x].user] = pe_row[pe_job[x].user])
    BY <1>1 DEF People!Busy
  <2>3. pe_stale' \subseteq {x \in Clerks : pe_job[x] # People!Idle} \cup {t} /\ t \notin pe_stale'
    <3>1. \A x \in Clerks, v \in People!Users : pe_job[x].user = v => pe_job[x] # People!Idle
      BY AccountFacts
    <3> QED
      BY <1>0, <1>1, <3>1 DEF AccountsTyped, People!Busy
  <2>4. /\ pe_posts' \subseteq {v \in People!Users : pe_row'[v].known} /\ pe_held' \subseteq There
        /\ pe_inbox' \subseteq {"link", "create", "delete"} \X {v \in There : pe_row'[v].known}
        /\ pe_blocked' \in BOOLEAN /\ pe_confirm' \in BOOLEAN
    <3>1. {v \in There : pe_row'[v].known} = {v \in There : pe_row[v].known}
      BY <1>6, AccountFacts
    <3>2. pe_inbox' \subseteq {"link", "create", "delete"} \X {v \in There : pe_row[v].known}
      BY <1>0, <1>1 DEF AccountsTyped
    <3>3. pe_inbox' \subseteq {"link", "create", "delete"} \X {v \in There : pe_row'[v].known}
      BY <3>1, <3>2
    <3> QED
      BY <1>0, <1>1, <1>6, <3>3 DEF AccountsTyped
  <2>5. \A x \in Clerks \ {t} : pe_job[x].op = "discover" => ~pe_row'[pe_job[x].user].known
    BY <1>0, <1>6, AccountFacts DEF Discovered, AccountsTyped, JobOf
  <2>6. JobOf(People!Idle) /\ People!Idle.user \notin People!Users /\ People!Idle.op # "discover"
    BY AccountFacts
  <2> QED
    BY <1>1, <1>6, <2>1, <2>2, <2>3, <2>4, <2>5, <2>6, AccountsKept
<1>8. Suspended'
  BY <1>0, <1>1, <1>3, <1>5 DEF Suspended, AccountsTyped, People!Users
<1>9. ASSUME ~pe_torn' PROVE WhenWhole'
  <2>0. WhenWhole
    BY <1>9 DEF AccountsInv, Written, AccountsTyped
  <2>1. \A v \in Here : pe_row'[v] = pe_row[v]
    BY <1>2, <1>5 DEF People!Users
  <2>2. \A v \in People!Users : pe_row'[v].reason = pe_row[v].reason
    BY <1>3, <1>5
  <2> QED
    BY <1>1, <2>0, <2>1, <2>2 DEF WhenWhole, People!Gone
<1>10. Revives(t)
  BY <1>4, <1>5 DEF Revives
<1> QED
  BY <1>7, <1>8, <1>9, <1>10 DEF AccountsInv

LEMMA ReceivesWell ==
  ASSUME AccountsInv, Written, NEW u \in People!Users, People!Receive(u)
  PROVE  AccountsInv' /\ pe_row' = pe_row
<1>0. AccountsTyped /\ Discovered /\ Suspended
  BY DEF AccountsInv
<1>1. /\ u \in There /\ pe_row[u].active /\ pe_row' = pe_row /\ pe_posts' = pe_posts /\ pe_blocked' = pe_blocked
      /\ pe_confirm' = pe_confirm /\ pe_job' = pe_job /\ pe_stale' = pe_stale /\ pe_held' = pe_held
      /\ \E kind \in {"create", "delete"} : pe_inbox' = pe_inbox \cup {<<kind, u>>}
  BY DEF People!Receive
<1>2. pe_row[u].known
  BY <1>0, <1>1 DEF AccountsTyped, RowOf, People!Unknown
<1>3. AccountsTyped'
  BY <1>0, <1>1, <1>2 DEF AccountsTyped, Written
<1>4. \A x \in Clerks : InHand(x)'
  BY <1>1 DEF AccountsInv, InHand
<1>5. Discovered' /\ Suspended'
  BY <1>0, <1>1 DEF Discovered, Suspended
<1>6. ~pe_torn' => WhenWhole'
  BY <1>0, <1>1 DEF AccountsInv, WhenWhole, Written, AccountsTyped
<1> QED
  BY <1>1, <1>3, <1>4, <1>5, <1>6 DEF AccountsInv

LEMMA AccountsInit == People!Init => AccountsInv
<1> SUFFICES ASSUME People!Init PROVE AccountsInv
  OBVIOUS
<1>1. AccountsTyped
  BY AccountFacts DEF People!Init, AccountsTyped, JobOf, AccountOps, People!Reasons, People!Sweeping
<1>2. \A t \in Clerks : pe_job[t] = People!Idle
  BY DEF People!Init
<1>3. (\A t \in Clerks : InHand(t)) /\ Discovered /\ Suspended
  BY <1>2, AccountFacts DEF People!Init, InHand, Discovered, Suspended
<1>4. WhenWhole
  BY <1>2, AccountFacts DEF People!Init, WhenWhole, People!Unknown, People!Users, People!None,
     People!Sweeping
<1> QED
  BY <1>1, <1>3, <1>4 DEF AccountsInv

LEMMA AccountsStep ==
  ASSUME AccountsInv, People!Next
  PROVE  AccountsInv' /\ (pe_row' = pe_row \/ \E t \in Clerks : Revives(t))
<1>1. Written
  BY DEF People!Next, Written, AccountsInv, AccountsTyped
<1>2. ASSUME NEW t \in Clerks, People!Step(t) PROVE AccountsInv' /\ Revives(t)
  <2>1. CASE \E u \in People!Users :
               \/ People!RegisterBegin(t, u) \/ People!ReactivateBegin(t, u) \/ People!SessionBegin(t, u)
               \/ People!OpenPage(t, u) \/ People!DiscoverBegin(t, u) \/ People!WorkBegin(t, u)
    BY <1>1, <2>1, BeginsWell
  <2>2. CASE \E u \in People!Users : People!Link(t, u)
    BY <1>1, <2>2, LinksWell
  <2>3. CASE People!RequireConfirm(t) \/ People!DropConfirm(t) \/ People!ServerBegin(t)
    BY <1>1, <2>3, SiteBeginsWell
  <2>4. CASE People!Press(t) \/ People!ClosePage(t) \/ People!Erase(t) \/ People!Post(t) \/ (People!Reactivate(t) /\ ~People!MayReactivate(pe_job[t].copy))
    BY <1>1, <2>4, WorksOnWell
  <2>5. CASE People!ActivatePending(t) \/ People!ShutOut(t) \/ People!LetIn(t)
    BY <1>1, <2>5, SweepsWell
  <2>6. CASE \/ People!Register(t) \/ (People!Reactivate(t) /\ People!MayReactivate(pe_job[t].copy)) \/ People!Deactivate(t) \/ People!Edit(t)
             \/ People!Suspend(t) \/ People!Unsuspend(t) \/ People!Delete(t) \/ People!Discover(t)
    BY <1>1, <2>6, SavesWell
  <2> QED
    BY <1>2, <2>1, <2>2, <2>3, <2>4, <2>5, <2>6 DEF People!Step
<1>3. ASSUME NEW u \in There, People!Receive(u) PROVE AccountsInv' /\ pe_row' = pe_row
  BY <1>1, <1>3, ReceivesWell DEF People!Users
<1> QED
  BY <1>2, <1>3 DEF People!Next

LEMMA AccountsRest == AccountsInv /\ UNCHANGED People!vars => AccountsInv'
<1> SUFFICES ASSUME AccountsInv, UNCHANGED People!vars PROVE AccountsInv'
  OBVIOUS
<1>1. AccountsTyped'
  BY DEF People!vars, AccountsInv, AccountsTyped
<1>2. \A t \in Clerks : InHand(t)'
  BY DEF People!vars, AccountsInv, InHand
<1>3. Discovered' /\ Suspended'
  BY DEF People!vars, AccountsInv, Discovered, Suspended
<1>4. ~pe_torn' => WhenWhole'
  BY DEF People!vars, AccountsInv, WhenWhole
<1> QED
  BY <1>1, <1>2, <1>3, <1>4 DEF AccountsInv

LEMMA AccountsMean == AccountsInv => People!TypeOK /\ People!HeldStayOut /\ People!OnlyTornContradict
<1> SUFFICES ASSUME AccountsInv PROVE People!TypeOK /\ People!HeldStayOut /\ People!OnlyTornContradict
  OBVIOUS
<1>1. AccountsTyped /\ Suspended
  BY DEF AccountsInv
<1>2. People!TypeOK
  BY <1>1 DEF AccountsTyped, People!TypeOK
<1>3. People!HeldStayOut
  BY <1>1, AccountFacts DEF AccountsTyped, Suspended, People!HeldStayOut, RowOf, People!None
<1>4. ASSUME ~pe_torn PROVE People!NotBoth /\ People!NobodyIsPending /\ People!BlockLeavesNoTrace
  <2>1. WhenWhole
    BY <1>4 DEF AccountsInv
  <2>2. People!NotBoth
    BY <2>1 DEF WhenWhole, People!NotBoth, People!Gone
  <2>3. People!NobodyIsPending
    BY <2>1 DEF WhenWhole, People!NobodyIsPending, People!Settled, People!Sweeping
  <2>4. People!BlockLeavesNoTrace
    BY <2>1 DEF WhenWhole, People!BlockLeavesNoTrace, People!Settled, People!Sweeping
  <2> QED
    BY <2>2, <2>3, <2>4
<1> QED
  BY <1>2, <1>3, <1>4 DEF People!OnlyTornContradict

\* In every step, whoever brings back a deleted account has read it before.
LEMMA AccountsRevived ==
  ASSUME AccountsInv, People!Next, NEW u \in People!Users, People!Gone(pe_row[u]), ~People!Gone(pe_row'[u])
  PROVE  \E t \in pe_stale : pe_job[t].user = u /\ pe_job'[t] = People!Idle
BY AccountsStep DEF Revives

-----------------------------------------------------------------------------
(* Likes and boosts: who has one, what pages say, what the author is told.   *)

LEMMA LikesBounds == IsFiniteSet(Clerks) /\ MaxRow \in Nat /\ MaxNote \in Nat
BY ServerAssumption

LikeSteps == {"idle", "check", "insert", "notify", "tell", "undo", "delete", "page"}

Jobs == [at : LikeSteps, user : Fans \cup {Likes!None}, note : Likes!Notes \cup {Likes!None}, last : BOOLEAN, value : BOOLEAN]

LikesTyped ==
  /\ lk_kind \in Likes!Kinds
  /\ lk_rows \in [Fans -> 0 .. MaxRow] /\ (lk_kind = "fav" => \A u \in Fans : lk_rows[u] <= 1)
  /\ lk_read \subseteq lk_there /\ lk_there \subseteq Likes!Notes
  /\ lk_about \in [Likes!Notes -> SUBSET Fans] /\ \A n \in Likes!Notes \ lk_there : lk_about[n] = {}
  /\ lk_cached \in [Fans -> {"unknown", "done", "not done"}]
  /\ lk_job \in [Clerks -> Jobs]
  /\ \A w \in Clerks : (lk_job[w].at = "idle" => lk_job[w] = Likes!Idle) /\ (lk_job[w].at # "idle" => lk_job[w].user \in Fans)
  /\ lk_cleared \in BOOLEAN /\ lk_met \in BOOLEAN /\ lk_doubled \subseteq Fans

\* w is at a request, or a page, of u.
IsAt(w, u)   == lk_job[w].at # "idle" /\ lk_job[w].user = u
AtRequest(w) == lk_job[w].at \notin {"idle", "page"}

\* A user for whom nobody has worked at the same time as somebody else.
AloneIsTrue(u) ==
  u \notin lk_doubled =>
    /\ lk_rows[u] <= 1
    /\ \A w, x \in Clerks : IsAt(w, u) /\ IsAt(x, u) => w = x
    /\ \A w \in Clerks : IsAt(w, u) =>
         /\ lk_job[w].at = "page" => lk_job[w].value = Likes!Does(u)
         /\ lk_job[w].at # "page" => lk_cached[u] = "unknown"
         /\ lk_job[w].at = "insert" => lk_kind = "fav" \/ lk_rows[u] = 0
    /\ Likes!CacheIsTrue(u)

\* What a worker at a request has found, if it is the only one.
Finds(w) ==
  LET u == lk_job[w].user
  IN  /\ lk_job[w].at = "insert" => lk_kind = "fav" \/ lk_rows[u] = 0
      /\ lk_job[w].at \in {"notify", "tell", "undo", "delete"} => Likes!Does(u)
      /\ lk_job[w].at \in {"tell", "delete"} => lk_there \subseteq {lk_job[w].note}
      /\ lk_job[w].at \in {"tell", "delete"} => lk_cleared \/ lk_there = {lk_job[w].note} \ {Likes!None}
      /\ lk_job[w].at = "delete" /\ lk_there # {} => (lk_job[w].last <=> lk_about[lk_job[w].note] \subseteq {u})

Told(u) ==
  \/ \E n \in lk_there : u \in lk_about[n]
  \/ \E w \in Clerks : lk_job[w].at \in {"notify", "tell"} /\ lk_job[w].user = u

AuthorIsTold ==
  /\ \A u \in Fans : lk_rows[u] <= 1
  /\ \A w, x \in Clerks : AtRequest(w) /\ AtRequest(x) => w = x
  /\ \A m, n \in lk_there : m = n
  /\ Likes!NotesAreTrue
  /\ \A w \in Clerks : Finds(w)
  /\ lk_cleared \/ \A u \in Fans : Likes!Does(u) => Told(u)

LikesInv ==
  /\ LikesTyped
  /\ \A u \in Fans : AloneIsTrue(u)
  /\ ~lk_met => AuthorIsTold

LEMMA LeastIs ==
  /\ Likes!None \notin Likes!Notes /\ Likes!Notes \subseteq Nat /\ Likes!First({}) = Likes!None
  /\ \A S \in SUBSET Likes!Notes : S # {} => Likes!First(S) \in S
<1>0. Likes!None \notin Likes!Notes /\ Likes!Notes \subseteq Nat /\ Likes!First({}) = Likes!None
  BY LikesBounds DEF Likes!None, Likes!Notes, Likes!First
<1>1. ASSUME NEW S \in SUBSET Likes!Notes, S # {} PROVE Likes!First(S) \in S
  <2> DEFINE Less == OpToRel(<, Nat)
  <2>1. \E n \in S : \A m \in S : ~(<<m, n>> \in Less)
    <3> HIDE DEF Less
    <3>1. IsWellFoundedOn(Less, Nat)
      BY NatLessThanWellFounded DEF Less
    <3>2. S \in SUBSET Nat
      BY <1>0
    <3> QED
      BY <3>1, <3>2, <1>1, WFMin
  <2>2. \A m, n \in S : ~(<<m, n>> \in Less) => n <= m
    BY <1>0 DEF OpToRel
  <2>3. \E n \in S : \A m \in S : n <= m
    <3> HIDE DEF Less
    <3> QED
      BY <2>1, <2>2
  <2> QED
    BY <1>1, <2>3 DEF Likes!First
<1> QED
  BY <1>0, <1>1

LEMMA FirstNote ==
  ASSUME NEW S \in SUBSET Likes!Notes
  PROVE  /\ Likes!First(S) \in Likes!Notes \cup {Likes!None} /\ (S # {} => Likes!First(S) # Likes!None)
         /\ (\A m, n \in S : m = n) => S \subseteq {Likes!First(S)} /\ S = {Likes!First(S)} \ {Likes!None}
<1>1. CASE S = {}
  BY <1>1, LeastIs
<1>2. CASE S # {}
  <2>1. Likes!First(S) \in S /\ Likes!None \notin S
    BY <1>2, LeastIs
  <2> HIDE DEF Likes!First
  <2> QED
    BY <2>1
<1> QED
  BY <1>1, <1>2

LEMMA AtMostOne ==
  ASSUME NEW S \in SUBSET Clerks, ~(Cardinality(S) > 1), NEW w \in S, NEW x \in S
  PROVE  w = x
<1> SUFFICES ASSUME w # x PROVE FALSE
  OBVIOUS
<1>1. IsFiniteSet(S)
  BY LikesBounds, FS_Subset
<1>2. IsFiniteSet({w}) /\ Cardinality({w}) = 1
  BY FS_Singleton
<1>3. IsFiniteSet({w} \cup {x}) /\ Cardinality({w} \cup {x}) = 2
  <2>1. x \notin {w}
    OBVIOUS
  <2> QED
    BY <1>2, <2>1, FS_AddElement
<1>4. Cardinality({w} \cup {x}) <= Cardinality(S)
  BY <1>1, FS_Subset
<1>5. Cardinality(S) \in Nat
  BY <1>1, FS_CardinalityType
<1> QED
  BY <1>3, <1>4, <1>5

LEMMA AtMostOneNote ==
  ASSUME NEW S \in SUBSET Likes!Notes, ~(Cardinality(S) > 1)
  PROVE  \A m, n \in S : m = n
<1> SUFFICES ASSUME NEW m \in S, NEW n \in S, m # n PROVE FALSE
  OBVIOUS
<1>1. IsFiniteSet(S)
  <2>1. IsFiniteSet(Likes!Notes)
    BY LikesBounds, FS_Interval DEF Likes!Notes
  <2> QED
    BY <2>1, FS_Subset
<1>2. IsFiniteSet({m}) /\ Cardinality({m}) = 1
  BY FS_Singleton
<1>3. IsFiniteSet({m} \cup {n}) /\ Cardinality({m} \cup {n}) = 2
  <2>1. n \notin {m}
    OBVIOUS
  <2> QED
    BY <1>2, <2>1, FS_AddElement
<1>4. Cardinality({m} \cup {n}) <= Cardinality(S)
  BY <1>1, FS_Subset
<1>5. Cardinality(S) \in Nat
  BY <1>1, FS_CardinalityType
<1> QED
  BY <1>3, <1>4, <1>5

\* Two notifications make a set of more than one, and one makes a set of one.
LEMMA OneNoteIsOne ==
  ASSUME NEW S \in SUBSET Likes!Notes, \A m, n \in S : m = n
  PROVE  Cardinality(S) <= 1
<1>1. CASE S = {}
  BY <1>1, FS_EmptySet
<1>2. CASE S # {}
  <2>1. PICK n \in S : TRUE
    BY <1>2
  <2>2. S = {n}
    BY <2>1
  <2> QED
    BY <2>2, FS_Singleton
<1> QED
  BY <1>1, <1>2

\* What a worker has next.
GoesOn(w, j) ==
  /\ lk_job' = [lk_job EXCEPT ![w] = j]
  /\ j \in Jobs
  /\ j.at = "idle" => j = Likes!Idle
  /\ j.at # "idle" => j.user \in Fans
  /\ lk_job[w].at # "idle" => j.at = "idle" \/ j.user = lk_job[w].user

LEMMA LikesFacts ==
  /\ Likes!Idle \in Jobs /\ Likes!Idle.at = "idle"
  /\ Likes!None \notin Likes!Notes
BY LeastIs DEF Likes!Idle, Jobs, LikeSteps

\* What the steps of a worker at a request or page do to its job.
LEMMA EndsJob ==
  ASSUME LikesTyped, NEW w \in Clerks, Likes!Goes(w)
  PROVE  GoesOn(w, Likes!Idle)
BY LikesFacts DEF Likes!Goes, GoesOn

LEMMA BeginsJob ==
  ASSUME LikesTyped, NEW w \in Clerks, NEW u \in Fans, NEW step \in LikeSteps \ {"idle"}
  PROVE  LET j == [Likes!Idle EXCEPT !.at = step, !.user = u]
         IN  (lk_job' = [lk_job EXCEPT ![w] = j] /\ lk_job[w] = Likes!Idle => GoesOn(w, j)) /\ j.at = step /\ j.user = u
BY LikesFacts DEF GoesOn, Likes!Idle, Jobs

LEMMA BeginsPage ==
  ASSUME LikesTyped, NEW w \in Clerks, NEW u \in Fans, NEW v \in BOOLEAN
  PROVE  LET j == [Likes!Idle EXCEPT !.at = "page", !.user = u, !.value = v]
         IN  (lk_job' = [lk_job EXCEPT ![w] = j] /\ lk_job[w] = Likes!Idle => GoesOn(w, j)) /\ j.at = "page" /\ j.user = u /\ j.value = v
BY LikesFacts DEF GoesOn, Likes!Idle, Jobs, LikeSteps

LEMMA TellsJob ==
  ASSUME LikesTyped, NEW w \in Clerks, lk_job[w].at # "idle", NEW n \in Likes!Notes \cup {Likes!None}
  PROVE  LET j == [lk_job[w] EXCEPT !.at = "tell", !.note = n]
         IN  (lk_job' = [lk_job EXCEPT ![w] = j] => GoesOn(w, j)) /\ j.at = "tell" /\ j.user = lk_job[w].user /\ j.note = n
<1>1. lk_job[w] \in Jobs /\ lk_job[w].user \in Fans
  BY DEF LikesTyped
<1> QED
  BY <1>1 DEF GoesOn, Jobs, LikeSteps

LEMMA StepsJob ==
  ASSUME LikesTyped, NEW w \in Clerks, NEW step \in LikeSteps \ {"idle"}, lk_job[w].at # "idle"
  PROVE  LET j == [lk_job[w] EXCEPT !.at = step]
         IN  (lk_job' = [lk_job EXCEPT ![w] = j] => GoesOn(w, j)) /\ j.at = step /\ j.user = lk_job[w].user
<1>1. lk_job[w] \in Jobs /\ lk_job[w].user \in Fans
  BY DEF LikesTyped
<1> QED
  BY <1>1 DEF GoesOn, Jobs

LEMMA LikesCount ==
  ASSUME LikesTyped, NEW u \in Fans
  PROVE  lk_rows[u] \in Nat /\ (Likes!Does(u) <=> lk_rows[u] # 0) /\ (lk_kind = "fav" => lk_rows[u] <= 1)
<1>1. lk_rows \in [Fans -> 0 .. MaxRow] /\ (lk_kind = "fav" => lk_rows[u] <= 1)
  BY DEF LikesTyped
<1>2. lk_rows[u] \in 0 .. MaxRow
  BY <1>1
<1>3. lk_rows[u] \in Nat
  BY <1>2, LikesBounds
<1> QED
  BY <1>1, <1>3 DEF Likes!Does

LEMMA JobsAfter ==
  ASSUME LikesTyped, NEW w \in Clerks, NEW j, GoesOn(w, j)
  PROVE  /\ lk_job'[w] = j /\ \A x \in Clerks \ {w} : lk_job'[x] = lk_job[x]
         /\ lk_job' \in [Clerks -> Jobs]
         /\ \A x \in Clerks : (lk_job'[x].at = "idle" => lk_job'[x] = Likes!Idle) /\ (lk_job'[x].at # "idle" => lk_job'[x].user \in Fans)
<1>1. lk_job \in [Clerks -> Jobs] /\ lk_job' = [lk_job EXCEPT ![w] = j] /\ j \in Jobs
  BY DEF LikesTyped, GoesOn
<1>2. lk_job'[w] = j /\ \A x \in Clerks \ {w} : lk_job'[x] = lk_job[x]
  BY <1>1
<1>3. lk_job' \in [Clerks -> Jobs]
  BY <1>1
<1>4. \A x \in Clerks : (lk_job'[x].at = "idle" => lk_job'[x] = Likes!Idle) /\ (lk_job'[x].at # "idle" => lk_job'[x].user \in Fans)
  BY <1>2 DEF LikesTyped, GoesOn
<1> QED
  BY <1>2, <1>3, <1>4

LEMMA RecordedTypes ==
  ASSUME LikesTyped, Likes!Recorded, lk_there' \subseteq Likes!Notes
  PROVE  lk_cleared' \in BOOLEAN /\ lk_met' \in BOOLEAN /\ lk_doubled' \subseteq Fans
         /\ (lk_cleared => lk_cleared') /\ (lk_met => lk_met') /\ lk_doubled \subseteq lk_doubled'
         /\ (lk_there \subseteq lk_there' => lk_cleared' = lk_cleared)
<1>1. lk_cleared' = (lk_cleared \/ lk_read \ lk_there' # {}) /\ lk_met' = (lk_met \/ Cardinality(Likes!Busy') > 1)
      /\ lk_doubled' = lk_doubled \cup {u \in Fans : Cardinality(Likes!At(u)') > 1}
  BY Counting DEF Likes!Recorded
<1>2. lk_cleared \in BOOLEAN /\ lk_met \in BOOLEAN /\ lk_doubled \subseteq Fans /\ lk_read \subseteq lk_there
  BY DEF LikesTyped
<1>3. lk_there \subseteq lk_there' => lk_cleared' = lk_cleared
  BY <1>1, <1>2
<1> QED
  BY <1>1, <1>2, <1>3

\* Of a user who is not doubled there is one request or page at most.
LEMMA OneIsAt ==
  ASSUME Likes!Recorded, NEW u \in Fans, u \notin lk_doubled',
         \A x \in Clerks : lk_job'[x].at = "idle" => lk_job'[x] = Likes!Idle
  PROVE  \A w, x \in Clerks : IsAt(w, u)' /\ IsAt(x, u)' => w = x
<1> SUFFICES ASSUME NEW w \in Clerks, NEW x \in Clerks, IsAt(w, u)', IsAt(x, u)' PROVE w = x
  OBVIOUS
<1>1. ~(Cardinality(Likes!At(u)') > 1)
  BY Counting DEF Likes!Recorded
<1>2. w \in Likes!At(u)' /\ x \in Likes!At(u)' /\ Likes!At(u)' \in SUBSET Clerks
  BY LikesFacts DEF IsAt, Likes!At
<1> QED
  BY <1>1, <1>2, AtMostOne

\* As long as no two requests have met there is one request at most.
LEMMA OneAtRequest ==
  ASSUME Likes!Recorded, ~lk_met'
  PROVE  \A w, x \in Clerks : AtRequest(w)' /\ AtRequest(x)' => w = x
<1> SUFFICES ASSUME NEW w \in Clerks, NEW x \in Clerks, AtRequest(w)', AtRequest(x)' PROVE w = x
  OBVIOUS
<1>1. ~(Cardinality(Likes!Busy') > 1)
  BY Counting DEF Likes!Recorded
<1>2. w \in Likes!Busy' /\ x \in Likes!Busy' /\ Likes!Busy' \in SUBSET Clerks
  BY DEF AtRequest, Likes!Busy
<1> QED
  BY <1>1, <1>2, AtMostOne

\* What a step for v has to see to.
LEMMA AloneKept ==
  ASSUME LikesInv, LikesTyped', Likes!Recorded, lk_kind' = lk_kind, NEW w \in Clerks, NEW j, GoesOn(w, j),
         NEW v \in Fans, lk_job[w].at # "idle" => lk_job[w].user = v, j.at # "idle" => j.user = v,
         lk_job[w].at = "idle" => j.at # "idle",
         \A u \in Fans \ {v} : lk_rows'[u] = lk_rows[u] /\ lk_cached'[u] = lk_cached[u],
         v \notin lk_doubled' =>
           /\ lk_rows'[v] <= 1
           /\ j.at = "idle" => lk_cached'[v] \in {"unknown", IF Likes!Does(v)' THEN "done" ELSE "not done"}
           /\ j.at = "page" => j.value = Likes!Does(v)'
           /\ j.at \notin {"idle", "page"} => lk_cached'[v] = "unknown"
           /\ j.at = "insert" => lk_kind = "fav" \/ lk_rows'[v] = 0
  PROVE  \A u \in Fans : AloneIsTrue(u)'
<1>0. LikesTyped
  BY DEF LikesInv
<1>1. lk_job'[w] = j /\ \A x \in Clerks \ {w} : lk_job'[x] = lk_job[x]
  BY <1>0, JobsAfter
<1>2. \A x \in Clerks : (lk_job'[x].at = "idle" => lk_job'[x] = Likes!Idle) /\ (lk_job[x].at = "idle" => lk_job[x] = Likes!Idle)
  BY DEF LikesInv, LikesTyped
<1>3. lk_doubled \subseteq lk_doubled'
  BY <1>0, RecordedTypes DEF LikesTyped
<1> SUFFICES ASSUME NEW u \in Fans, u \notin lk_doubled' PROVE AloneIsTrue(u)'
  BY DEF AloneIsTrue
<1>4. u \notin lk_doubled /\ AloneIsTrue(u)
  BY <1>3 DEF LikesInv
<1>5. \A x, y \in Clerks : IsAt(x, u)' /\ IsAt(y, u)' => x = y
  BY <1>2, OneIsAt
<1>6. CASE u = v
  <2>1. CASE j.at = "idle"
    <3>1. \A x \in Clerks \ {w} : IsAt(x, v)' => IsAt(x, v) /\ x # w
      BY <1>1 DEF IsAt
    <3>2. ASSUME NEW x \in Clerks, IsAt(x, v)'
          PROVE  /\ lk_job'[x].at = "page" => lk_job'[x].value = Likes!Does(v)'
                 /\ lk_job'[x].at # "page" => lk_cached'[v] = "unknown"
                 /\ lk_job'[x].at = "insert" => lk_kind = "fav" \/ lk_rows'[v] = 0
      <4>1. x # w /\ IsAt(x, v) /\ lk_job'[x] = lk_job[x]
        BY <1>1, <2>1, <3>1, <3>2 DEF IsAt
      <4>2. lk_job[w].at = "idle"
        BY <1>4, <1>6, <4>1 DEF AloneIsTrue, IsAt
      <4> QED
        BY <2>1, <4>2
    <3>3. Likes!CacheIsTrue(v)'
      BY <1>6, <2>1 DEF Likes!CacheIsTrue
    <3> QED
      BY <1>5, <1>6, <2>1, <3>2, <3>3 DEF AloneIsTrue
  <2>2. CASE j.at # "idle"
    <3>1. IsAt(w, v)'
      BY <1>1, <2>2 DEF IsAt
    <3>2. \A x \in Clerks : IsAt(x, v)' => x = w
      BY <1>5, <1>6, <3>1
    <3>3. w \in Likes!At(v)'
      BY <1>1, <2>2, LikesFacts DEF Likes!At
    <3>4. Likes!CacheIsTrue(v)'
      BY <3>3 DEF Likes!CacheIsTrue
    <3> QED
      BY <1>1, <1>5, <1>6, <2>2, <3>2, <3>4 DEF AloneIsTrue
  <2> QED
    BY <2>1, <2>2
<1>7. CASE u # v
  <2>1. lk_rows'[u] = lk_rows[u] /\ lk_cached'[u] = lk_cached[u] /\ Likes!Does(u)' = Likes!Does(u)
    BY <1>7 DEF Likes!Does
  <2>2. \A x \in Clerks : IsAt(x, u)' => IsAt(x, u) /\ lk_job'[x] = lk_job[x]
    BY <1>1, <1>7 DEF IsAt
  <2>3. Likes!At(u)' = {} => Likes!At(u) = {}
    <3>1. \A x \in Clerks : x \in Likes!At(u) => x \in Likes!At(u)'
      BY <1>1, <1>2, <1>7 DEF Likes!At
    <3> QED
      BY <3>1 DEF Likes!At
  <2>4. Likes!CacheIsTrue(u)'
    BY <1>4, <2>1, <2>3 DEF AloneIsTrue, Likes!CacheIsTrue
  <2> QED
    BY <1>4, <1>5, <2>1, <2>2, <2>4 DEF AloneIsTrue
<1> QED
  BY <1>6, <1>7

\* A request that has met no other.
LEMMA RequestAlone ==
  ASSUME LikesInv, LikesTyped', Likes!Recorded, ~lk_met', NEW w \in Clerks, NEW j, GoesOn(w, j),
         AtRequest(w) \/ j.at \notin {"idle", "page"}
  PROVE  /\ ~lk_met /\ AuthorIsTold /\ lk_job'[w] = j
         /\ \A x \in Clerks \ {w} : lk_job'[x] = lk_job[x] /\ ~AtRequest(x) /\ ~AtRequest(x)'
         /\ \A x, y \in Clerks : AtRequest(x)' /\ AtRequest(y)' => x = y
<1>0. LikesTyped
  BY DEF LikesInv
<1>1. ~lk_met /\ AuthorIsTold
  BY <1>0, RecordedTypes DEF LikesInv, LikesTyped
<1>2. lk_job'[w] = j /\ \A x \in Clerks \ {w} : lk_job'[x] = lk_job[x]
  BY <1>0, JobsAfter
<1>3. \A x, y \in Clerks : AtRequest(x)' /\ AtRequest(y)' => x = y
  BY OneAtRequest
<1>4. \A x \in Clerks \ {w} : ~AtRequest(x) /\ ~AtRequest(x)'
  BY <1>1, <1>2, <1>3 DEF AuthorIsTold, AtRequest
<1> QED
  BY <1>1, <1>2, <1>3, <1>4

\* Pages do no harm.
LEMMA AuthorStillTold ==
  ASSUME LikesInv, LikesTyped', Likes!Recorded, ~lk_met', lk_kind' = lk_kind,
         lk_rows' = lk_rows, lk_there' = lk_there, lk_about' = lk_about,
         \A x \in Clerks : lk_job'[x] = lk_job[x] \/ (~AtRequest(x) /\ ~AtRequest(x)')
  PROVE  AuthorIsTold'
<1>0. LikesTyped
  BY DEF LikesInv
<1>1. ~lk_met /\ AuthorIsTold /\ lk_cleared' = lk_cleared
  BY <1>0, RecordedTypes DEF LikesInv, LikesTyped
<1>2. \A x, y \in Clerks : AtRequest(x)' /\ AtRequest(y)' => x = y
  BY OneAtRequest
<1>3. \A u \in Fans : Likes!Does(u)' = Likes!Does(u)
  BY DEF Likes!Does
<1>4. Likes!NotesAreTrue'
  BY <1>1, <1>3, <1>0 DEF AuthorIsTold, Likes!NotesAreTrue, LikesTyped
<1>5. \A x \in Clerks : Finds(x)'
  <2> SUFFICES ASSUME NEW x \in Clerks PROVE Finds(x)'
    OBVIOUS
  <2>1. CASE lk_job'[x] = lk_job[x]
    <3>1. Finds(x) /\ lk_job'[x].user = lk_job[x].user
      BY <1>1, <2>1 DEF AuthorIsTold
    <3> QED
      BY <1>1, <2>1, <3>1 DEF Finds, Likes!Does
  <2>2. CASE ~AtRequest(x)'
    BY <2>2 DEF Finds, AtRequest
  <2> QED
    BY <2>1, <2>2
<1>6. \A u \in Fans : Told(u) => Told(u)'
  BY DEF Told, AtRequest
<1> QED
  BY <1>1, <1>2, <1>3, <1>4, <1>5, <1>6 DEF AuthorIsTold

LikesGoOn == LikesTyped' /\ (\A u \in Fans : AloneIsTrue(u)') /\ (~lk_met' => AuthorIsTold')

LEMMA DoWell ==
  ASSUME LikesInv, Likes!Recorded, lk_kind' = lk_kind, NEW w \in Clerks, NEW u \in Fans, Likes!Do(w, u) \/ Likes!Undo(w, u)
  PROVE  LikesGoOn
<1>0. LikesTyped
  BY DEF LikesInv
<1>1. /\ lk_job[w] = Likes!Idle /\ lk_cached' = [lk_cached EXCEPT ![u] = "unknown"]
      /\ lk_rows' = lk_rows /\ lk_there' = lk_there /\ lk_about' = lk_about /\ lk_read' = lk_read
  BY DEF Likes!Do, Likes!Undo, Likes!Begins, Likes!notes
<1>2. PICK step \in {"insert", "check", "undo"} :
        /\ lk_job' = [lk_job EXCEPT ![w] = [Likes!Idle EXCEPT !.at = step, !.user = u]]
        /\ (step = "insert" => lk_kind = "fav") /\ (step = "undo" => Likes!Does(u))
  BY <1>0 DEF Likes!Do, Likes!Undo, Likes!Begins, LikesTyped, Likes!Kinds
<1> DEFINE j == [Likes!Idle EXCEPT !.at = step, !.user = u]
<1>3. step \in LikeSteps \ {"idle"}
  BY DEF LikeSteps
<1>4. GoesOn(w, j) /\ j.at = step /\ j.user = u
  BY <1>0, <1>1, <1>2, <1>3, BeginsJob
<1> HIDE DEF j
<1>5. LikesTyped'
  BY <1>0, <1>1, <1>4, JobsAfter, RecordedTypes DEF LikesTyped
<1>6. \A v \in Fans : AloneIsTrue(v)'
  <2>1. lk_cached'[u] = "unknown" /\ \A v \in Fans \ {u} : lk_rows'[v] = lk_rows[v] /\ lk_cached'[v] = lk_cached[v]
    BY <1>0, <1>1 DEF LikesTyped
  <2>2. u \notin lk_doubled' => lk_rows'[u] <= 1
    <3>1. lk_doubled \subseteq lk_doubled'
      BY <1>0, <1>1, RecordedTypes DEF LikesTyped
    <3> QED
      BY <1>1, <3>1 DEF LikesInv, AloneIsTrue
  <2>3. lk_job[w].at = "idle"
    BY <1>1, LikesFacts
  <2> QED
    BY <1>2, <1>4, <1>5, <2>1, <2>2, <2>3, AloneKept
<1>7. ASSUME ~lk_met' PROVE AuthorIsTold'
  <2>1. /\ ~lk_met /\ AuthorIsTold /\ lk_job'[w] = j
        /\ \A x \in Clerks \ {w} : lk_job'[x] = lk_job[x] /\ ~AtRequest(x) /\ ~AtRequest(x)'
        /\ \A x, y \in Clerks : AtRequest(x)' /\ AtRequest(y)' => x = y
    BY <1>2, <1>4, <1>5, <1>7, RequestAlone
  <2>2. lk_cleared' = lk_cleared
    BY <1>0, <1>1, RecordedTypes DEF LikesTyped
  <2>3. Likes!NotesAreTrue'
    BY <1>0, <1>1, <2>1 DEF AuthorIsTold, Likes!NotesAreTrue, Likes!Does, LikesTyped
  <2>4. \A x \in Clerks \ {w} : Finds(x)'
    BY <2>1 DEF Finds, AtRequest
  <2>5. Finds(w)'
    BY <1>1, <1>2, <1>4, <2>1 DEF Finds, Likes!Does
  <2>6. \A v \in Fans : Told(v) => Told(v)'
    <3>1. lk_job[w].at = "idle"
      BY <1>1, LikesFacts
    <3> QED
      BY <1>1, <2>1, <3>1 DEF Told, AtRequest
  <2>7. \A v \in Fans : Likes!Does(v)' => Likes!Does(v)
    BY <1>1 DEF Likes!Does
  <2> QED
    BY <1>1, <2>1, <2>2, <2>3, <2>4, <2>5, <2>6, <2>7 DEF AuthorIsTold
<1> QED
  BY <1>5, <1>6, <1>7 DEF LikesGoOn

LEMMA PageWell ==
  ASSUME LikesInv, Likes!Recorded, lk_kind' = lk_kind, NEW w \in Clerks, Likes!PageEnd(w) \/ \E u \in Fans : Likes!PageBegin(w, u)
  PROVE  LikesGoOn
<1>0. LikesTyped
  BY DEF LikesInv
<1>1. lk_rows' = lk_rows /\ lk_there' = lk_there /\ lk_about' = lk_about /\ lk_read' = lk_read
  BY DEF Likes!PageEnd, Likes!PageBegin, Likes!notes
<1>2. ASSUME ~lk_met', LikesTyped', \A x \in Clerks : lk_job'[x] = lk_job[x] \/ (~AtRequest(x) /\ ~AtRequest(x)')
      PROVE  AuthorIsTold'
  BY <1>1, <1>2, AuthorStillTold
<1>3. CASE Likes!PageEnd(w)
  <2>1. /\ lk_job[w].at = "page" /\ Likes!Goes(w)
        /\ lk_cached' = [lk_cached EXCEPT ![lk_job[w].user] = IF lk_job[w].value THEN "done" ELSE "not done"]
    BY <1>3 DEF Likes!PageEnd
  <2>0. PICK u \in Fans : u = lk_job[w].user
    BY <1>0, <2>1 DEF LikesTyped
  <2>2. GoesOn(w, Likes!Idle)
    BY <1>0, <2>1, EndsJob DEF LikesTyped
  <2>3. lk_job'[w] = Likes!Idle /\ \A x \in Clerks \ {w} : lk_job'[x] = lk_job[x]
    BY <1>0, <2>2, JobsAfter
  <2>4. LikesTyped'
    <3>1. lk_cached' \in [Fans -> {"unknown", "done", "not done"}]
      BY <1>0, <2>1 DEF LikesTyped
    <3> QED
      BY <1>0, <1>1, <2>2, <3>1, JobsAfter, RecordedTypes DEF LikesTyped
  <2>5. \A v \in Fans : AloneIsTrue(v)'
    <3>1. \A v \in Fans \ {u} : lk_rows'[v] = lk_rows[v] /\ lk_cached'[v] = lk_cached[v]
      BY <1>0, <1>1, <2>0, <2>1 DEF LikesTyped
    <3>2. ASSUME u \notin lk_doubled'
          PROVE  lk_rows'[u] <= 1 /\ lk_cached'[u] \in {"unknown", IF Likes!Does(u)' THEN "done" ELSE "not done"}
      <4>1. u \notin lk_doubled
        BY <1>0, <1>1, <3>2, RecordedTypes DEF LikesTyped
      <4>2. AloneIsTrue(u) /\ IsAt(w, u)
        BY <2>0, <2>1 DEF LikesInv, IsAt
      <4>3. lk_rows[u] <= 1 /\ lk_job[w].value = (lk_rows[u] > 0)
        BY <2>1, <4>1, <4>2 DEF AloneIsTrue, Likes!Does
      <4>4. lk_cached'[u] = IF lk_rows[u] > 0 THEN "done" ELSE "not done"
        BY <1>0, <2>0, <2>1, <4>3 DEF LikesTyped
      <4> QED
        BY <1>1, <4>3, <4>4 DEF Likes!Does
    <3> QED
      BY <2>0, <2>1, <2>2, <2>4, <3>1, <3>2, LikesFacts, AloneKept
  <2>6. \A x \in Clerks : lk_job'[x] = lk_job[x] \/ (~AtRequest(x) /\ ~AtRequest(x)')
    BY <2>1, <2>3, LikesFacts DEF AtRequest
  <2> QED
    BY <1>2, <2>4, <2>5, <2>6 DEF LikesGoOn
<1>4. ASSUME NEW u \in Fans, Likes!PageBegin(w, u) PROVE LikesGoOn
  <2>0. lk_rows[u] \in Nat
    BY <1>0, LikesCount
  <2>a. (lk_rows[u] > 0) \in BOOLEAN
    BY <2>0
  <2>1. PICK v \in BOOLEAN : v = (lk_rows[u] > 0)
    BY <2>a, Zenon
  <2> DEFINE j == [Likes!Idle EXCEPT !.at = "page", !.user = u, !.value = v]
  <2>2. lk_job[w] = Likes!Idle /\ lk_job' = [lk_job EXCEPT ![w] = j] /\ lk_cached' = lk_cached
    BY <1>4, <2>1 DEF Likes!PageBegin, Likes!Does
  <2>3. GoesOn(w, j) /\ j.at = "page" /\ j.user = u /\ j.value = v
    BY <1>0, <2>2, BeginsPage
  <2> HIDE DEF j
  <2>4. lk_job'[w] = j /\ \A x \in Clerks \ {w} : lk_job'[x] = lk_job[x]
    BY <1>0, <2>3, JobsAfter
  <2>5. LikesTyped'
    BY <1>0, <1>1, <2>2, <2>3, JobsAfter, RecordedTypes DEF LikesTyped
  <2>6. \A x \in Fans : AloneIsTrue(x)'
    <3>1. u \notin lk_doubled' => lk_rows'[u] <= 1
      <4>1. lk_doubled \subseteq lk_doubled'
        BY <1>0, <1>1, RecordedTypes DEF LikesTyped
      <4> QED
        BY <1>1, <4>1 DEF LikesInv, AloneIsTrue
    <3>2. v = Likes!Does(u)'
      BY <1>1, <2>1 DEF Likes!Does
    <3>3. lk_job[w].at = "idle"
      BY <2>2, LikesFacts
    <3> QED
      BY <1>1, <2>2, <2>3, <2>5, <3>1, <3>2, <3>3, AloneKept
  <2>7. \A x \in Clerks : lk_job'[x] = lk_job[x] \/ (~AtRequest(x) /\ ~AtRequest(x)')
    BY <2>2, <2>3, <2>4, LikesFacts DEF AtRequest
  <2> QED
    BY <1>2, <2>5, <2>6, <2>7 DEF LikesGoOn
<1> QED
  BY <1>3, <1>4

LEMMA CheckWell ==
  ASSUME LikesInv, Likes!Recorded, lk_kind' = lk_kind, NEW w \in Clerks, Likes!Check(w)
  PROVE  LikesGoOn
<1>0. LikesTyped /\ lk_job[w].at = "check" /\ lk_rows' = lk_rows /\ lk_there' = lk_there /\ lk_about' = lk_about /\ lk_read' = lk_read /\ lk_cached' = lk_cached
  BY DEF LikesInv, Likes!Check, Likes!notes
<1>1. PICK u \in Fans : u = lk_job[w].user
  BY <1>0 DEF LikesTyped
<1> DEFINE j == [lk_job[w] EXCEPT !.at = "insert"]
<1>2. (lk_job' = [lk_job EXCEPT ![w] = j] => GoesOn(w, j)) /\ j.at = "insert" /\ j.user = u
  <2>1. "insert" \in LikeSteps \ {"idle"}
    BY DEF LikeSteps
  <2> QED
    BY <1>0, <1>1, <2>1, StepsJob
<1>3. (Likes!Does(u) /\ Likes!Goes(w)) \/ (~Likes!Does(u) /\ lk_job' = [lk_job EXCEPT ![w] = j])
  BY <1>1, <1>2 DEF Likes!Check
<1> HIDE DEF j
<1>4. PICK k : GoesOn(w, k) /\ ((Likes!Does(u) /\ k = Likes!Idle) \/ (~Likes!Does(u) /\ k.at = "insert" /\ k.user = u))
  BY <1>0, <1>2, <1>3, EndsJob
<1>5. LikesTyped'
  BY <1>0, <1>4, JobsAfter, RecordedTypes DEF LikesTyped
<1>6. \A v \in Fans : AloneIsTrue(v)'
  <2>1. ASSUME u \notin lk_doubled' PROVE lk_rows'[u] <= 1 /\ lk_cached'[u] = "unknown"
    <3>1. u \notin lk_doubled
      BY <1>0, <2>1, RecordedTypes DEF LikesTyped
    <3> QED
      BY <1>0, <1>1, <3>1 DEF LikesInv, AloneIsTrue, IsAt
  <2>2. ~Likes!Does(u) => lk_rows'[u] = 0
    BY <1>0, LikesCount
  <2> QED
    BY <1>0, <1>1, <1>4, <1>5, <2>1, <2>2, LikesFacts, AloneKept
<1>7. ASSUME ~lk_met' PROVE AuthorIsTold'
  <2>1. /\ ~lk_met /\ AuthorIsTold /\ lk_job'[w] = k
        /\ \A x \in Clerks \ {w} : lk_job'[x] = lk_job[x] /\ ~AtRequest(x) /\ ~AtRequest(x)'
        /\ \A x, y \in Clerks : AtRequest(x)' /\ AtRequest(y)' => x = y
    BY <1>0, <1>4, <1>5, <1>7, RequestAlone DEF AtRequest
  <2>2. lk_cleared' = lk_cleared
    BY <1>0, RecordedTypes DEF LikesTyped
  <2>3. Likes!NotesAreTrue'
    BY <1>0, <2>1 DEF AuthorIsTold, Likes!NotesAreTrue, Likes!Does, LikesTyped
  <2>4. \A x \in Clerks \ {w} : Finds(x)'
    BY <2>1 DEF Finds, AtRequest
  <2>5. Finds(w)'
    <3>1. ~Likes!Does(u) => lk_rows'[u] = 0
      BY <1>0, LikesCount
    <3> QED
      BY <1>4, <2>1, <3>1, LikesFacts DEF Finds
  <2>6. \A v \in Fans : Told(v) => Told(v)'
    BY <1>0, <2>1 DEF Told, AtRequest
  <2>7. \A v \in Fans : Likes!Does(v)' => Likes!Does(v)
    BY <1>0 DEF Likes!Does
  <2> QED
    BY <1>0, <2>1, <2>2, <2>3, <2>4, <2>5, <2>6, <2>7 DEF AuthorIsTold
<1> QED
  BY <1>5, <1>6, <1>7 DEF LikesGoOn

LEMMA InsertWell ==
  ASSUME LikesInv, Likes!Recorded, lk_kind' = lk_kind, NEW w \in Clerks, Likes!Insert(w)
  PROVE  LikesGoOn
<1>0. LikesTyped /\ lk_job[w].at = "insert" /\ lk_there' = lk_there /\ lk_about' = lk_about /\ lk_read' = lk_read /\ lk_cached' = lk_cached
  BY DEF LikesInv, Likes!Insert, Likes!notes
<1>1. PICK u \in Fans : u = lk_job[w].user
  BY <1>0 DEF LikesTyped
<1> DEFINE j == [lk_job[w] EXCEPT !.at = "notify"]
<1>2. (lk_job' = [lk_job EXCEPT ![w] = j] => GoesOn(w, j)) /\ j.at = "notify" /\ j.user = u
  <2>1. "notify" \in LikeSteps \ {"idle"}
    BY DEF LikeSteps
  <2> QED
    BY <1>0, <1>1, <2>1, StepsJob
<1>3. \/ lk_kind = "fav" /\ Likes!Does(u) /\ Likes!Goes(w) /\ lk_rows' = lk_rows
      \/ /\ ~(lk_kind = "fav" /\ Likes!Does(u)) /\ lk_rows[u] < MaxRow
         /\ lk_rows' = [lk_rows EXCEPT ![u] = @ + 1] /\ lk_job' = [lk_job EXCEPT ![w] = j]
  BY <1>1, <1>2 DEF Likes!Insert
<1> HIDE DEF j
<1>4. PICK k : /\ GoesOn(w, k)
               /\ \/ lk_kind = "fav" /\ Likes!Does(u) /\ k = Likes!Idle /\ lk_rows' = lk_rows
                  \/ /\ ~(lk_kind = "fav" /\ Likes!Does(u)) /\ lk_rows[u] < MaxRow
                     /\ lk_rows' = [lk_rows EXCEPT ![u] = @ + 1] /\ k.at = "notify" /\ k.user = u
  BY <1>0, <1>2, <1>3, EndsJob
<1>5. /\ \A v \in Fans \ {u} : lk_rows'[v] = lk_rows[v]
      /\ lk_rows[u] \in 0 .. MaxRow
      /\ \/ lk_kind = "fav" /\ Likes!Does(u) /\ k = Likes!Idle /\ lk_rows' = lk_rows
         \/ ~(lk_kind = "fav" /\ Likes!Does(u)) /\ lk_rows[u] < MaxRow /\ lk_rows'[u] = lk_rows[u] + 1 /\ k.at = "notify" /\ k.user = u
  BY <1>0, <1>4 DEF LikesTyped
<1>6. lk_rows' \in [Fans -> 0 .. MaxRow] /\ (lk_kind = "fav" => \A v \in Fans : lk_rows'[v] <= 1)
  <2>1. lk_rows' \in [Fans -> 0 .. MaxRow]
    <3>1. lk_rows[u] < MaxRow => lk_rows[u] + 1 \in 0 .. MaxRow
      BY <1>5, LikesBounds
    <3> QED
      BY <1>0, <1>4, <3>1 DEF LikesTyped
  <2>2. lk_kind = "fav" => lk_rows'[u] <= 1
    BY <1>0, <1>5, LikesCount
  <2> QED
    BY <1>0, <1>5, <2>1, <2>2 DEF LikesTyped
<1>7. LikesTyped'
  BY <1>0, <1>4, <1>6, JobsAfter, RecordedTypes DEF LikesTyped
<1>8. \A v \in Fans : AloneIsTrue(v)'
  <2>1. ASSUME u \notin lk_doubled' PROVE lk_rows'[u] <= 1 /\ lk_cached'[u] = "unknown"
    <3>1. u \notin lk_doubled
      BY <1>0, <2>1, RecordedTypes DEF LikesTyped
    <3>2. lk_rows[u] <= 1 /\ lk_cached[u] = "unknown" /\ (lk_kind = "fav" \/ lk_rows[u] = 0)
      BY <1>0, <1>1, <3>1 DEF LikesInv, AloneIsTrue, IsAt
    <3> QED
      BY <1>0, <1>5, <3>2, LikesBounds DEF Likes!Does
  <2> QED
    <3>1. k.at \in {"idle", "notify"} /\ (k.at # "idle" => k.user = u)
      BY <1>4, LikesFacts
    <3>2. \A v \in Fans \ {u} : lk_rows'[v] = lk_rows[v] /\ lk_cached'[v] = lk_cached[v]
      BY <1>0, <1>5
    <3>3. GoesOn(w, k) /\ lk_job[w].at # "idle" /\ lk_job[w].user = u
      BY <1>0, <1>1, <1>4
    <3>4. u \notin lk_doubled' => lk_cached'[u] \in {"unknown", IF Likes!Does(u)' THEN "done" ELSE "not done"}
      BY <2>1
    <3> QED
      BY <1>7, <2>1, <3>1, <3>2, <3>3, <3>4, AloneKept
<1>9. ASSUME ~lk_met' PROVE AuthorIsTold'
  <2>1. /\ ~lk_met /\ AuthorIsTold /\ lk_job'[w] = k
        /\ \A x \in Clerks \ {w} : lk_job'[x] = lk_job[x] /\ ~AtRequest(x) /\ ~AtRequest(x)'
        /\ \A x, y \in Clerks : AtRequest(x)' /\ AtRequest(y)' => x = y
    BY <1>0, <1>4, <1>7, <1>9, RequestAlone DEF AtRequest
  <2>2. lk_cleared' = lk_cleared
    BY <1>0, RecordedTypes DEF LikesTyped
  <2>3. /\ \A v \in Fans : Likes!Does(v) => Likes!Does(v)'
        /\ \A v \in Fans \ {u} : Likes!Does(v)' => Likes!Does(v)
        /\ lk_rows'[u] <= 1
        /\ k.at = "notify" => Likes!Does(u)'
    <3>1. lk_kind = "fav" \/ lk_rows[u] = 0
      BY <1>0, <1>1, <2>1 DEF AuthorIsTold, Finds
    <3>2. lk_rows[u] <= 1 
      BY <2>1 DEF AuthorIsTold
    <3>3. Likes!Idle.at # "notify"
      BY LikesFacts
    <3> QED
      BY <1>5, <3>1, <3>2, <3>3, LikesBounds DEF Likes!Does
  <2>4. Likes!NotesAreTrue'
    BY <1>0, <2>1, <2>3 DEF AuthorIsTold, Likes!NotesAreTrue, LikesTyped
  <2>5. \A x \in Clerks \ {w} : Finds(x)'
    BY <2>1 DEF Finds, AtRequest
  <2>6. Finds(w)'
    <3>1. k.at \notin {"insert", "tell", "undo", "delete"} /\ (k.at = "notify" => k.user = u /\ lk_rows'[u] > 0)
      BY <1>4, <2>3, LikesFacts DEF Likes!Does
    <3> QED
      BY <2>1, <3>1 DEF Finds, Likes!Does
  <2>7. \A v \in Fans \ {u} : Told(v) => Told(v)'
    BY <1>0, <2>1 DEF Told, AtRequest
  <2>9. Told(u) => Told(u)'
    BY <1>0, <2>1 DEF Told, AtRequest
  <2>10. \A v \in Fans : lk_rows'[v] <= 1
    BY <1>5, <2>1, <2>3 DEF AuthorIsTold
  <2>11. lk_cleared' \/ \A v \in Fans : Likes!Does(v)' => Told(v)'
    <3>1. CASE k = Likes!Idle
      <4>1. \A v \in Fans : Likes!Does(v)' => Likes!Does(v)
        BY <1>5, <3>1, LikesFacts DEF Likes!Does
      <4> QED
        BY <2>1, <2>2, <2>7, <2>9, <4>1 DEF AuthorIsTold
    <3>2. CASE k.at = "notify" /\ k.user = u
      <4>1. Told(u)'
        BY <2>1, <3>2 DEF Told
      <4> QED
        BY <2>1, <2>2, <2>3, <2>7, <4>1 DEF AuthorIsTold
    <3> QED
      BY <1>4, <3>1, <3>2
  <2> QED
    BY <1>0, <2>1, <2>4, <2>5, <2>6, <2>10, <2>11 DEF AuthorIsTold
<1> QED
  BY <1>7, <1>8, <1>9 DEF LikesGoOn

LEMMA NotifyWell ==
  ASSUME LikesInv, Likes!Recorded, lk_kind' = lk_kind, NEW w \in Clerks, Likes!Notify(w)
  PROVE  LikesGoOn
<1>0. LikesTyped /\ lk_job[w].at = "notify" /\ lk_rows' = lk_rows /\ lk_there' = lk_there /\ lk_about' = lk_about /\ lk_read' = lk_read /\ lk_cached' = lk_cached
  BY DEF LikesInv, Likes!Notify, Likes!notes
<1>1. PICK u \in Fans : u = lk_job[w].user
  BY <1>0 DEF LikesTyped
<1>2. /\ Likes!First(lk_there) \in Likes!Notes \cup {Likes!None}
      /\ (\A m, n \in lk_there : m = n) => lk_there \subseteq {Likes!First(lk_there)} /\ lk_there = {Likes!First(lk_there)} \ {Likes!None}
  BY <1>0, FirstNote DEF LikesTyped
<1>a. PICK n \in Likes!Notes \cup {Likes!None} : n = Likes!First(lk_there)
  BY <1>2
<1> DEFINE j == [lk_job[w] EXCEPT !.at = "tell", !.note = n]
<1>b. lk_job' = [lk_job EXCEPT ![w] = j]
  BY <1>a DEF Likes!Notify
<1>3. GoesOn(w, j) /\ j.at = "tell" /\ j.user = u /\ j.note = n
  BY <1>0, <1>1, <1>b, TellsJob
<1> HIDE DEF j
<1>4. PICK k : GoesOn(w, k) /\ k.at = "tell" /\ k.user = u /\ k.note = Likes!First(lk_there)
  BY <1>3, <1>a
<1>5. LikesTyped'
  BY <1>0, <1>4, JobsAfter, RecordedTypes DEF LikesTyped
<1>6. \A v \in Fans : AloneIsTrue(v)'
  <2>1. ASSUME u \notin lk_doubled' PROVE lk_rows'[u] <= 1 /\ lk_cached'[u] = "unknown"
    <3>1. u \notin lk_doubled
      BY <1>0, <2>1, RecordedTypes DEF LikesTyped
    <3> QED
      BY <1>0, <1>1, <3>1 DEF LikesInv, AloneIsTrue, IsAt
  <2> QED
    BY <1>0, <1>1, <1>4, <1>5, <2>1, AloneKept
<1>7. ASSUME ~lk_met' PROVE AuthorIsTold'
  <2>1. /\ ~lk_met /\ AuthorIsTold /\ lk_job'[w] = k
        /\ \A x \in Clerks \ {w} : lk_job'[x] = lk_job[x] /\ ~AtRequest(x) /\ ~AtRequest(x)'
        /\ \A x, y \in Clerks : AtRequest(x)' /\ AtRequest(y)' => x = y
    BY <1>0, <1>4, <1>5, <1>7, RequestAlone DEF AtRequest
  <2>2. lk_cleared' = lk_cleared
    BY <1>0, RecordedTypes DEF LikesTyped
  <2>3. Likes!NotesAreTrue'
    BY <1>0, <2>1 DEF AuthorIsTold, Likes!NotesAreTrue, Likes!Does, LikesTyped
  <2>4. \A x \in Clerks \ {w} : Finds(x)'
    BY <2>1 DEF Finds, AtRequest
  <2>5. Finds(w)'
    <3>1. Likes!Does(u)
      BY <1>0, <1>1, <2>1 DEF AuthorIsTold, Finds
    <3>2. lk_there \subseteq {Likes!First(lk_there)} /\ lk_there = {Likes!First(lk_there)} \ {Likes!None}
      BY <1>2, <2>1 DEF AuthorIsTold
    <3> QED
      BY <1>0, <1>4, <2>1, <3>1, <3>2 DEF Finds, Likes!Does
  <2>6. \A v \in Fans : Told(v) => Told(v)'
    BY <1>0, <1>1, <1>4, <2>1 DEF Told, AtRequest
  <2>7. \A v \in Fans : Likes!Does(v)' => Likes!Does(v)
    BY <1>0 DEF Likes!Does
  <2> QED
    BY <1>0, <2>1, <2>2, <2>3, <2>4, <2>5, <2>6, <2>7 DEF AuthorIsTold
<1> QED
  BY <1>5, <1>6, <1>7 DEF LikesGoOn

LEMMA TellWell ==
  ASSUME LikesInv, Likes!Recorded, lk_kind' = lk_kind, NEW w \in Clerks, Likes!Tell(w)
  PROVE  LikesGoOn
<1>0. LikesTyped /\ lk_job[w].at = "tell" /\ lk_rows' = lk_rows /\ lk_cached' = lk_cached /\ Likes!Goes(w)
  BY DEF LikesInv, Likes!Tell
<1>1. PICK u \in Fans : u = lk_job[w].user
  BY <1>0 DEF LikesTyped
<1>2. PICK n \in Likes!Notes :
        /\ lk_job[w].note # Likes!None => n = lk_job[w].note
        /\ lk_there' = lk_there \cup {n} /\ lk_read' = lk_read \ {n}
        /\ lk_about' = [lk_about EXCEPT ![n] = (IF n \in lk_there THEN @ ELSE {}) \cup {u}]
  BY <1>1 DEF Likes!Tell
<1>3. GoesOn(w, Likes!Idle)
  BY <1>0, EndsJob
<1>4. /\ lk_about' \in [Likes!Notes -> SUBSET Fans]
      /\ lk_about'[n] = (IF n \in lk_there THEN lk_about[n] ELSE {}) \cup {u}
      /\ \A m \in Likes!Notes \ {n} : lk_about'[m] = lk_about[m]
  BY <1>0, <1>2 DEF LikesTyped
<1>5. LikesTyped'
  <2>1. lk_there' \subseteq Likes!Notes /\ lk_read' \subseteq lk_there' /\ \A m \in Likes!Notes \ lk_there' : lk_about'[m] = {}
    BY <1>0, <1>2, <1>4 DEF LikesTyped
  <2> QED
    BY <1>0, <1>3, <1>4, <2>1, JobsAfter, RecordedTypes DEF LikesTyped
<1>6. \A v \in Fans : AloneIsTrue(v)'
  <2>1. ASSUME u \notin lk_doubled' PROVE lk_rows'[u] <= 1 /\ lk_cached'[u] = "unknown"
    <3>1. u \notin lk_doubled
      BY <1>0, <1>5, <2>1, RecordedTypes DEF LikesTyped
    <3> QED
      BY <1>0, <1>1, <3>1 DEF LikesInv, AloneIsTrue, IsAt
  <2> QED
    BY <1>0, <1>1, <1>3, <1>5, <2>1, LikesFacts, AloneKept
<1>7. ASSUME ~lk_met' PROVE AuthorIsTold'
  <2>1. /\ ~lk_met /\ AuthorIsTold /\ lk_job'[w] = Likes!Idle
        /\ \A x \in Clerks \ {w} : lk_job'[x] = lk_job[x] /\ ~AtRequest(x) /\ ~AtRequest(x)'
        /\ \A x, y \in Clerks : AtRequest(x)' /\ AtRequest(y)' => x = y
    BY <1>0, <1>3, <1>5, <1>7, RequestAlone DEF AtRequest
  <2>2. lk_cleared' = lk_cleared
    BY <1>0, <1>2, <1>5, RecordedTypes DEF LikesTyped
  <2>3. Likes!Does(u) /\ lk_there \subseteq {lk_job[w].note} /\ (lk_cleared \/ lk_there = {lk_job[w].note} \ {Likes!None})
    BY <1>0, <1>1, <2>1 DEF AuthorIsTold, Finds
  <2>4. lk_there \subseteq {n} /\ lk_there' = {n}
    <3>1. Likes!None \notin lk_there
      BY <1>0, LeastIs DEF LikesTyped
    <3> QED
      BY <1>2, <2>3, <3>1
  <2>5. Likes!NotesAreTrue'
    BY <1>0, <1>4, <2>1, <2>3, <2>4 DEF AuthorIsTold, Likes!NotesAreTrue, Likes!Does
  <2>6. \A x \in Clerks : Finds(x)'
    BY <2>1, LikesFacts DEF Finds, AtRequest
  <2>7. ASSUME ~lk_cleared, NEW v \in Fans, Likes!Does(v) PROVE Told(v)'
    <3>1. Told(v)
      BY <2>1, <2>7 DEF AuthorIsTold
    <3>2. v = u \/ (v \in lk_about[n] /\ n \in lk_there)
      <4>1. \A x \in Clerks : lk_job[x].at \in {"notify", "tell"} => x = w
        BY <2>1 DEF AtRequest
      <4> QED
        BY <1>1, <2>4, <3>1, <4>1 DEF Told
    <3> QED
      BY <1>4, <2>4, <3>2 DEF Told
  <2>8. \A v \in Fans : Likes!Does(v)' => Likes!Does(v)
    BY <1>0 DEF Likes!Does
  <2> QED
    BY <1>0, <2>1, <2>2, <2>4, <2>5, <2>6, <2>7, <2>8 DEF AuthorIsTold
<1> QED
  BY <1>5, <1>6, <1>7 DEF LikesGoOn

LEMMA UnnotifyWell ==
  ASSUME LikesInv, Likes!Recorded, lk_kind' = lk_kind, NEW w \in Clerks, Likes!Unnotify(w)
  PROVE  LikesGoOn
<1>0. LikesTyped /\ lk_job[w].at = "undo" /\ lk_rows' = lk_rows /\ lk_there' = lk_there /\ lk_about' = lk_about /\ lk_read' = lk_read /\ lk_cached' = lk_cached
  BY DEF LikesInv, Likes!Unnotify, Likes!notes
<1>1. PICK u \in Fans : u = lk_job[w].user
  BY <1>0 DEF LikesTyped
<1>2. /\ Likes!First(lk_there) \in Likes!Notes \cup {Likes!None} /\ (lk_there # {} => Likes!First(lk_there) # Likes!None)
      /\ (\A m, n \in lk_there : m = n) => lk_there \subseteq {Likes!First(lk_there)} /\ lk_there = {Likes!First(lk_there)} \ {Likes!None}
  BY <1>0, FirstNote DEF LikesTyped
<1>3. PICK l \in BOOLEAN : l = (Likes!First(lk_there) # Likes!None /\ lk_about[Likes!First(lk_there)] \subseteq {u})
  OBVIOUS
<1>a. l \in BOOLEAN
  BY <1>3
<1>4. \/ Likes!Goes(w)
      \/ lk_job' = [lk_job EXCEPT ![w] = [lk_job[w] EXCEPT !.at = "delete", !.note = Likes!First(lk_there), !.last = l]]
  BY <1>1, <1>3 DEF Likes!Unnotify
<1>5. PICK k : GoesOn(w, k) /\ (k = Likes!Idle \/ (k.at = "delete" /\ k.user = u /\ k.note = Likes!First(lk_there) /\ k.last = l))
  <2>1. CASE Likes!Goes(w)
    BY <1>0, <2>1, EndsJob
  <2>2. CASE lk_job' = [lk_job EXCEPT ![w] = [lk_job[w] EXCEPT !.at = "delete", !.note = Likes!First(lk_there), !.last = l]]
    <3>1. PICK n \in Likes!Notes \cup {Likes!None} : n = Likes!First(lk_there)
      BY <1>2
    <3> DEFINE j == [lk_job[w] EXCEPT !.at = "delete", !.note = n, !.last = l]
    <3>2. lk_job' = [lk_job EXCEPT ![w] = j]
      BY <2>2, <3>1
    <3>3. GoesOn(w, j) /\ j.at = "delete" /\ j.user = u /\ j.note = n /\ j.last = l
      <4>1. /\ lk_job' = [lk_job EXCEPT ![w] = j] => GoesOn(w, j)
            /\ j.at = "delete" /\ j.user = lk_job[w].user /\ j.note = n /\ j.last = l
        <5>1. lk_job[w] \in Jobs
          BY <1>0 DEF LikesTyped
        <5>2. n \in Likes!Notes \cup {Likes!None}
          BY <3>1
        <5> QED
          BY <1>0, <1>1, <1>a, <5>1, <5>2 DEF GoesOn, Jobs, LikeSteps
      <4> HIDE DEF j
      <4> QED
        BY <1>1, <3>2, <4>1
    <3> HIDE DEF j
    <3> QED
      BY <3>1, <3>3
  <2> QED
    BY <1>4, <2>1, <2>2
<1>6. LikesTyped'
  BY <1>0, <1>5, JobsAfter, RecordedTypes DEF LikesTyped
<1>7. \A v \in Fans : AloneIsTrue(v)'
  <2>1. ASSUME u \notin lk_doubled' PROVE lk_rows'[u] <= 1 /\ lk_cached'[u] = "unknown"
    <3>1. u \notin lk_doubled
      BY <1>0, <2>1, RecordedTypes DEF LikesTyped
    <3> QED
      BY <1>0, <1>1, <3>1 DEF LikesInv, AloneIsTrue, IsAt
  <2> QED
    BY <1>0, <1>1, <1>5, <1>6, <2>1, LikesFacts, AloneKept
<1>8. ASSUME ~lk_met' PROVE AuthorIsTold'
  <2>1. /\ ~lk_met /\ AuthorIsTold /\ lk_job'[w] = k
        /\ \A x \in Clerks \ {w} : lk_job'[x] = lk_job[x] /\ ~AtRequest(x) /\ ~AtRequest(x)'
        /\ \A x, y \in Clerks : AtRequest(x)' /\ AtRequest(y)' => x = y
    BY <1>0, <1>5, <1>6, <1>8, RequestAlone DEF AtRequest
  <2>2. lk_cleared' = lk_cleared
    BY <1>0, RecordedTypes DEF LikesTyped
  <2>3. Likes!NotesAreTrue'
    BY <1>0, <2>1 DEF AuthorIsTold, Likes!NotesAreTrue, Likes!Does, LikesTyped
  <2>4. \A x \in Clerks \ {w} : Finds(x)'
    BY <2>1 DEF Finds, AtRequest
  <2>5. Finds(w)'
    <3>1. CASE k = Likes!Idle
      BY <2>1, <3>1, LikesFacts DEF Finds
    <3>2. CASE k.at = "delete" /\ k.user = u /\ k.note = Likes!First(lk_there) /\ k.last = l
      <4>1. Likes!Does(u)
        BY <1>0, <1>1, <2>1 DEF AuthorIsTold, Finds
      <4>2. lk_there \subseteq {Likes!First(lk_there)} /\ lk_there = {Likes!First(lk_there)} \ {Likes!None}
        BY <1>2, <2>1 DEF AuthorIsTold
      <4>3. lk_there # {} => (l <=> lk_about[Likes!First(lk_there)] \subseteq {u})
        BY <1>2, <1>3
      <4> QED
        BY <1>0, <2>1, <3>2, <4>1, <4>2, <4>3 DEF Finds, Likes!Does
    <3> QED
      BY <1>5, <3>1, <3>2
  <2>6. \A v \in Fans : Told(v) => Told(v)'
    BY <1>0, <2>1 DEF Told, AtRequest
  <2>7. \A v \in Fans : Likes!Does(v)' => Likes!Does(v)
    BY <1>0 DEF Likes!Does
  <2> QED
    BY <1>0, <2>1, <2>2, <2>3, <2>4, <2>5, <2>6, <2>7 DEF AuthorIsTold
<1> QED
  BY <1>6, <1>7, <1>8 DEF LikesGoOn

LEMMA DeleteWell ==
  ASSUME LikesInv, Likes!Recorded, lk_kind' = lk_kind, NEW w \in Clerks, Likes!Delete(w)
  PROVE  LikesGoOn
<1>0. LikesTyped /\ lk_job[w].at = "delete" /\ lk_cached' = lk_cached /\ Likes!Goes(w)
  BY DEF LikesInv, Likes!Delete
<1>1. PICK u \in Fans : u = lk_job[w].user
  BY <1>0 DEF LikesTyped
<1>2. PICK note, gone : note = lk_job[w].note /\ gone = IF lk_job[w].last THEN {note} ELSE {}
  OBVIOUS
<1>3. /\ lk_rows' = [lk_rows EXCEPT ![u] = IF Likes!Does(u) THEN @ - 1 ELSE 0]
      /\ lk_there' = lk_there \ gone /\ lk_read' = lk_read \ gone
      /\ lk_about' = [n \in Likes!Notes |-> IF n \in gone THEN {} ELSE lk_about[n] \ (IF n = note THEN {u} ELSE {})]
  BY <1>1, <1>2 DEF Likes!Delete
<1>4. GoesOn(w, Likes!Idle)
  BY <1>0, EndsJob
<1>5. /\ \A v \in Fans \ {u} : lk_rows'[v] = lk_rows[v]
      /\ lk_rows[u] \in Nat /\ lk_rows'[u] = IF lk_rows[u] = 0 THEN 0 ELSE lk_rows[u] - 1
      /\ lk_rows' \in [Fans -> 0 .. MaxRow]
  <2>1. \A v \in Fans \ {u} : lk_rows'[v] = lk_rows[v]
    BY <1>0, <1>3 DEF LikesTyped
  <2>2. lk_rows[u] \in Nat /\ (Likes!Does(u) <=> lk_rows[u] # 0) /\ lk_rows[u] \in 0 .. MaxRow
    BY <1>0, LikesCount DEF LikesTyped
  <2>3. lk_rows'[u] = IF lk_rows[u] = 0 THEN 0 ELSE lk_rows[u] - 1
    BY <1>0, <1>3, <2>2 DEF LikesTyped
  <2>4. lk_rows[u] # 0 => lk_rows[u] - 1 \in 0 .. MaxRow
    BY <2>2, LikesBounds
  <2>5. 0 \in 0 .. MaxRow
    BY LikesBounds
  <2>6. (IF Likes!Does(u) THEN lk_rows[u] - 1 ELSE 0) \in 0 .. MaxRow
    BY <2>2, <2>4, <2>5
  <2>7. lk_rows' \in [Fans -> 0 .. MaxRow]
    BY <1>0, <1>3, <2>6 DEF LikesTyped
  <2> QED
    BY <2>1, <2>2, <2>3, <2>7
<1>6. \A n \in Likes!Notes : /\ n \in gone => lk_about'[n] = {}
                             /\ n \notin gone /\ n = note => lk_about'[n] = lk_about[n] \ {u}
                             /\ n \notin gone /\ n # note => lk_about'[n] = lk_about[n]
  BY <1>3
<1>7. LikesTyped'
  <2>1. lk_about' \in [Likes!Notes -> SUBSET Fans]
    BY <1>0, <1>3, <1>6 DEF LikesTyped
  <2>2. \A n \in Likes!Notes \ lk_there' : lk_about'[n] = {}
    BY <1>0, <1>3, <1>6 DEF LikesTyped
  <2>3. lk_kind = "fav" => \A v \in Fans : lk_rows'[v] <= 1
    <3>1. lk_kind = "fav" => lk_rows'[u] <= 1
      BY <1>0, <1>5, LikesCount
    <3> QED
      BY <1>0, <1>5, <3>1 DEF LikesTyped
  <2>4. lk_there' \subseteq Likes!Notes /\ lk_read' \subseteq lk_there'
    BY <1>0, <1>3 DEF LikesTyped
  <2> QED
    BY <1>0, <1>4, <1>5, <2>1, <2>2, <2>3, <2>4, JobsAfter, RecordedTypes DEF LikesTyped
<1>8. \A v \in Fans : AloneIsTrue(v)'
  <2>1. ASSUME u \notin lk_doubled' PROVE lk_rows'[u] <= 1 /\ lk_cached'[u] = "unknown"
    <3>1. u \notin lk_doubled
      BY <1>0, <1>7, <2>1, RecordedTypes DEF LikesTyped
    <3>2. lk_rows[u] <= 1 /\ lk_cached[u] = "unknown"
      BY <1>0, <1>1, <3>1 DEF LikesInv, AloneIsTrue, IsAt
    <3> QED
      BY <1>0, <1>5, <3>2
  <2> QED
    BY <1>0, <1>1, <1>4, <1>5, <1>7, <2>1, LikesFacts, AloneKept
<1>9. ASSUME ~lk_met' PROVE AuthorIsTold'
  <2>1. /\ ~lk_met /\ AuthorIsTold /\ lk_job'[w] = Likes!Idle
        /\ \A x \in Clerks \ {w} : lk_job'[x] = lk_job[x] /\ ~AtRequest(x) /\ ~AtRequest(x)'
        /\ \A x, y \in Clerks : AtRequest(x)' /\ AtRequest(y)' => x = y
    BY <1>0, <1>4, <1>7, <1>9, RequestAlone DEF AtRequest
  <2>2. lk_cleared => lk_cleared'
    BY <1>0, <1>7, RecordedTypes DEF LikesTyped
  <2>3. /\ Likes!Does(u) /\ lk_there \subseteq {note}
        /\ lk_there # {} => (lk_job[w].last <=> lk_about[note] \subseteq {u})
    BY <1>0, <1>1, <1>2, <2>1 DEF AuthorIsTold, Finds
  <2>4. lk_rows'[u] = 0 /\ ~Likes!Does(u)' /\ \A v \in Fans \ {u} : (Likes!Does(v) <=> Likes!Does(v)')
    <3>1. lk_rows[u] <= 1 /\ lk_rows[u] # 0
      BY <1>0, <2>1, <2>3, LikesCount DEF AuthorIsTold
    <3> QED
      BY <1>5, <3>1 DEF Likes!Does
  <2>5. \A n \in lk_there : /\ n = note /\ n \in Likes!Notes
                            /\ n \in lk_there' => ~(lk_about[n] \subseteq {u}) /\ lk_about'[n] = lk_about[n] \ {u}
                            /\ n \notin lk_there' => lk_about[n] \subseteq {u}
    <3>1. lk_there \subseteq Likes!Notes
      BY <1>0 DEF LikesTyped
    <3>2. ASSUME NEW n \in lk_there PROVE n = note /\ n \in Likes!Notes /\ (lk_job[w].last <=> lk_about[n] \subseteq {u})
      BY <2>3, <3>1
    <3> QED
      BY <1>2, <1>3, <1>6, <3>2
  <2>6. lk_there' \subseteq lk_there
    BY <1>3
  <2>7. Likes!NotesAreTrue'
    <3> SUFFICES ASSUME NEW n \in lk_there' PROVE lk_about'[n] # {} /\ \A v \in lk_about'[n] : Likes!Does(v)'
      BY DEF Likes!NotesAreTrue
    <3>1. ~(lk_about[n] \subseteq {u}) /\ lk_about'[n] = lk_about[n] \ {u} /\ n \in lk_there /\ lk_about[n] \subseteq Fans
      BY <1>0, <2>5, <2>6 DEF LikesTyped
    <3> QED
      BY <2>1, <2>4, <3>1 DEF AuthorIsTold, Likes!NotesAreTrue
  <2>8. \A x \in Clerks : Finds(x)'
    BY <2>1, LikesFacts DEF Finds, AtRequest
  <2>9. ASSUME ~lk_cleared, NEW v \in Fans \ {u}, Likes!Does(v) PROVE Told(v)'
    <3>1. Told(v)
      BY <2>1, <2>9 DEF AuthorIsTold
    <3>2. PICK n \in lk_there : v \in lk_about[n]
      <4>1. \A x \in Clerks : lk_job[x].at \notin {"notify", "tell"}
        BY <1>0, <2>1 DEF AtRequest
      <4> QED
        BY <3>1, <4>1 DEF Told
    <3>3. n \in lk_there' /\ v \in lk_about'[n]
      BY <2>5, <2>9, <3>2
    <3> QED
      BY <3>3 DEF Told
  <2>10. \A v \in Fans : lk_rows'[v] <= 1
    BY <1>5, <2>1, <2>4 DEF AuthorIsTold
  <2>11. \A m, n \in lk_there' : m = n
    BY <2>5, <2>6
  <2>12. lk_cleared' \/ \A v \in Fans : Likes!Does(v)' => Told(v)'
    BY <2>2, <2>4, <2>9
  <2> QED
    BY <2>1, <2>7, <2>8, <2>10, <2>11, <2>12 DEF AuthorIsTold
<1> QED
  BY <1>7, <1>8, <1>9 DEF LikesGoOn

\* The author's own steps.
LEMMA AuthorActsWell ==
  ASSUME LikesInv, Likes!Recorded, lk_kind' = lk_kind, Likes!ReadAll \/ Likes!ClearRead
  PROVE  LikesGoOn
<1>0. LikesTyped /\ lk_rows' = lk_rows /\ lk_cached' = lk_cached /\ lk_job' = lk_job
  BY DEF LikesInv, Likes!ReadAll, Likes!ClearRead
<1>1. /\ lk_there' \subseteq lk_there /\ lk_read' \subseteq lk_there'
      /\ lk_about' \in [Likes!Notes -> SUBSET Fans] /\ \A n \in Likes!Notes \ lk_there' : lk_about'[n] = {}
      /\ \A n \in lk_there' : lk_about'[n] = lk_about[n]
  BY <1>0 DEF LikesTyped, Likes!ReadAll, Likes!ClearRead
<1>2. LikesTyped'
  BY <1>0, <1>1, RecordedTypes DEF LikesTyped
<1>3. \A u \in Fans : AloneIsTrue(u)'
  <2> SUFFICES ASSUME NEW u \in Fans, u \notin lk_doubled' PROVE AloneIsTrue(u)'
    BY DEF AloneIsTrue
  <2>1. AloneIsTrue(u) /\ u \notin lk_doubled
    BY <1>0, <1>2, RecordedTypes DEF LikesInv, LikesTyped
  <2>2. Likes!At(u)' = Likes!At(u)
    BY <1>0 DEF Likes!At
  <2> QED
    BY <1>0, <2>1, <2>2 DEF AloneIsTrue, Likes!CacheIsTrue, Likes!Does, IsAt
<1>4. ASSUME ~lk_met' PROVE AuthorIsTold'
  <2>1. ~lk_met /\ AuthorIsTold /\ (lk_cleared => lk_cleared')
    BY <1>0, <1>2, <1>4, RecordedTypes DEF LikesInv, LikesTyped
  <2>2. ~lk_cleared' => lk_there' = lk_there
    <3>1. Likes!ReadAll => lk_there' = lk_there
      BY DEF Likes!ReadAll
    <3>2. Likes!ClearRead /\ ~lk_cleared' => lk_there' = lk_there
      BY <1>0 DEF Likes!ClearRead, Likes!Recorded, LikesTyped
    <3> QED
      BY <3>1, <3>2
  <2>3. \A u \in Fans : Likes!Does(u)' = Likes!Does(u)
    BY <1>0 DEF Likes!Does
  <2>4. Likes!NotesAreTrue'
    <3> SUFFICES ASSUME NEW n \in lk_there' PROVE lk_about'[n] # {} /\ \A v \in lk_about'[n] : Likes!Does(v)'
      BY DEF Likes!NotesAreTrue
    <3>1. n \in lk_there /\ lk_about'[n] = lk_about[n] /\ lk_about[n] \subseteq Fans
      BY <1>0, <1>1 DEF LikesTyped
    <3> QED
      BY <2>1, <2>3, <3>1 DEF AuthorIsTold, Likes!NotesAreTrue
  <2>5. \A x \in Clerks : Finds(x)'
    <3> SUFFICES ASSUME NEW x \in Clerks PROVE Finds(x)'
      OBVIOUS
    <3>1. Finds(x)
      BY <2>1 DEF AuthorIsTold
    <3>2. lk_job[x].at = "delete" /\ lk_there' # {} /\ lk_there \subseteq {lk_job[x].note} =>
            lk_there # {} /\ lk_about'[lk_job[x].note] = lk_about[lk_job[x].note]
      BY <1>1
    <3> QED
      BY <1>0, <1>1, <2>1, <2>2, <3>1, <3>2 DEF Finds, Likes!Does
  <2>6. ~lk_cleared' => \A u \in Fans : Told(u) => Told(u)'
    BY <1>0, <1>1, <2>2 DEF Told
  <2>7. \A x, y \in Clerks : AtRequest(x)' /\ AtRequest(y)' => x = y
    BY <1>0, <2>1 DEF AuthorIsTold, AtRequest
  <2> QED
    BY <1>0, <1>1, <2>1, <2>3, <2>4, <2>5, <2>6, <2>7 DEF AuthorIsTold
<1> QED
  BY <1>2, <1>3, <1>4 DEF LikesGoOn

LEMMA LikesInit == Likes!Init => LikesInv
<1> SUFFICES ASSUME Likes!Init PROVE LikesInv
  OBVIOUS
<1>1. LikesTyped
  <2>1. /\ lk_kind \in Likes!Kinds /\ lk_cleared \in BOOLEAN /\ lk_met \in BOOLEAN /\ lk_doubled \subseteq Fans
        /\ lk_read \subseteq lk_there /\ lk_there \subseteq Likes!Notes
        /\ lk_about \in [Likes!Notes -> SUBSET Fans] /\ \A n \in Likes!Notes \ lk_there : lk_about[n] = {}
        /\ lk_cached \in [Fans -> {"unknown", "done", "not done"}]
    BY DEF Likes!Init
  <2>2. lk_rows \in [Fans -> 0 .. MaxRow] /\ \A u \in Fans : lk_rows[u] <= 1
    <3>1. 0 \in 0 .. MaxRow
      BY LikesBounds
    <3> QED
      BY <3>1 DEF Likes!Init
  <2>3. lk_job \in [Clerks -> Jobs] /\ \A w \in Clerks : lk_job[w] = Likes!Idle
    BY LikesFacts DEF Likes!Init
  <2> QED
    BY <2>1, <2>2, <2>3, LikesFacts DEF LikesTyped
<1>2. \A w \in Clerks : lk_job[w] = Likes!Idle /\ lk_job[w].at = "idle"
  BY LikesFacts DEF Likes!Init
<1>3. \A u \in Fans : AloneIsTrue(u)
  BY <1>2 DEF Likes!Init, AloneIsTrue, Likes!CacheIsTrue, IsAt
<1>4. AuthorIsTold
  <2>1. \A u \in Fans : lk_rows[u] = 0 /\ ~Likes!Does(u)
    BY DEF Likes!Init, Likes!Does
  <2> QED
    BY <1>2, <2>1 DEF Likes!Init, AuthorIsTold, AtRequest, Likes!NotesAreTrue, Finds
<1> QED
  BY <1>1, <1>3, <1>4 DEF LikesInv

LEMMA LikesStep == LikesInv /\ Likes!Next => LikesInv'
<1> SUFFICES ASSUME LikesInv, Likes!Next PROVE LikesInv'
  OBVIOUS
<1>1. Likes!Recorded /\ lk_kind' = lk_kind
  BY DEF Likes!Next
<1>2. LikesGoOn
  BY <1>1, DoWell, PageWell, CheckWell, InsertWell, NotifyWell, TellWell, UnnotifyWell, DeleteWell,
     AuthorActsWell DEF Likes!Next, Likes!Step
<1> QED
  BY <1>2 DEF LikesGoOn, LikesInv

LEMMA LikesRest == LikesInv /\ UNCHANGED Likes!vars => LikesInv'
<1> SUFFICES ASSUME LikesInv, UNCHANGED Likes!vars PROVE LikesInv'
  OBVIOUS
<1> USE DEF Likes!vars, Likes!notes, Likes!history
<1>1. LikesTyped'
  BY DEF LikesInv, LikesTyped
<1>2. \A u \in Fans : AloneIsTrue(u)'
  <2> SUFFICES ASSUME NEW u \in Fans PROVE AloneIsTrue(u)'
    OBVIOUS
  <2>1. AloneIsTrue(u)
    BY DEF LikesInv
  <2>2. Likes!At(u)' = Likes!At(u)
    BY DEF Likes!At
  <2> QED
    BY <2>1, <2>2 DEF AloneIsTrue, Likes!CacheIsTrue, Likes!Does, IsAt
<1>3. ~lk_met' => AuthorIsTold'
  BY DEF LikesInv, AuthorIsTold, AtRequest, Likes!NotesAreTrue, Finds, Told, Likes!Does
<1> QED
  BY <1>1, <1>2, <1>3 DEF LikesInv

LEMMA LikesMean == LikesInv => Likes!TypeOK /\ Likes!OnlyDoubledMislead /\ Likes!OnlyMetMislead
<1> SUFFICES ASSUME LikesInv PROVE Likes!TypeOK /\ Likes!OnlyDoubledMislead /\ Likes!OnlyMetMislead
  OBVIOUS
<1>1. LikesTyped
  BY DEF LikesInv
<1>2. Likes!TypeOK
  BY <1>1 DEF LikesTyped, Likes!TypeOK
<1>3. Likes!OnlyDoubledMislead
  BY DEF LikesInv, AloneIsTrue, Likes!OnlyDoubledMislead, Likes!OneRow
<1>4. ASSUME ~lk_met PROVE Likes!OneNotification /\ (Likes!Busy = {} => Likes!NotesAreTrue /\ (lk_cleared \/ Likes!EverybodyIsTold))
  <2>1. AuthorIsTold
    BY <1>4 DEF LikesInv
  <2>2. Likes!OneNotification
    BY Counting, <1>1, <2>1, OneNoteIsOne DEF LikesTyped, AuthorIsTold, Likes!OneNotification
  <2>3. ASSUME Likes!Busy = {}, ~lk_cleared PROVE Likes!EverybodyIsTold
    <3>1. \A w \in Clerks : lk_job[w].at \notin {"notify", "tell"}
      BY <2>3 DEF Likes!Busy
    <3> QED
      BY <2>1, <2>3, <3>1 DEF AuthorIsTold, Told, Likes!EverybodyIsTold
  <2> QED
    BY <2>1, <2>2, <2>3 DEF AuthorIsTold
<1> QED
  BY <1>2, <1>3, <1>4 DEF Likes!OnlyMetMislead
-----------------------------------------------------------------------------
(* The server: every part steps by its own Next, or rests.                  *)

\* What a step of the server is to each of its parts.
LEMMA PartsStep ==
  ASSUME [MCNext]_mcVars
  PROVE  /\ [Next]_vars
         /\ Likes!Next \/ UNCHANGED Likes!vars
         /\ People!Next \/ UNCHANGED People!vars
         /\ Invited!Next \/ UNCHANGED Invited!vars
         /\ Catalogue!Next \/ UNCHANGED Catalogue!vars
         /\ about' = about
<1>1. CASE MCNext
  <2>1. \/ about = "races" /\ Next
        \/ about = "likes" /\ Likes!Next
        \/ about = "people" /\ People!Next
        \/ about = "invited" /\ Invited!Next
        \/ about = "catalogue" /\ Catalogue!Next
    BY <1>1 DEF MCNext
  <2>2. /\ about' = about
        /\ about # "races" => UNCHANGED vars
        /\ about # "likes" => UNCHANGED lk_vars
        /\ about # "people" => UNCHANGED pe_vars
        /\ about # "invited" => UNCHANGED iv_vars
        /\ about # "catalogue" => UNCHANGED ca_vars
    BY <1>1 DEF MCNext, Rest
  <2>3. /\ UNCHANGED lk_vars => UNCHANGED Likes!vars
        /\ UNCHANGED pe_vars => UNCHANGED People!vars
        /\ UNCHANGED iv_vars => UNCHANGED Invited!vars
        /\ UNCHANGED ca_vars => UNCHANGED Catalogue!vars
    BY DEF lk_vars, pe_vars, iv_vars, ca_vars, Likes!vars, Likes!notes, Likes!history,
           People!vars, Invited!vars, Catalogue!vars
  <2> QED
    BY <2>1, <2>2, <2>3
<1>2. CASE UNCHANGED mcVars
  BY <1>2 DEF mcVars, lk_vars, pe_vars, iv_vars, ca_vars, Likes!vars, Likes!notes, Likes!history,
              People!vars, Invited!vars, Catalogue!vars
<1> QED
  BY <1>1, <1>2

\* What holds of the relationships of two users holds of them in the server.
LEMMA RacesWithin == MCSpec => Spec
<1>1. MCInit => Init
  BY DEF MCInit
<1>2. [MCNext]_mcVars => [Next]_vars
  BY PartsStep
<1> QED
  BY <1>1, <1>2, PTL DEF MCSpec, Spec

\* What holds of the server is what holds of its parts, each by itself.
ServerInv == TypeOK /\ LikesInv /\ AccountsInv /\ InvitesInv /\ FilmsInv

LEMMA ServerInit == MCInit => ServerInv
BY InitTypeOK, LikesInit, AccountsInit, InvitesInit, FilmsInit DEF MCInit, ServerInv

LEMMA ServerStep == ServerInv /\ [MCNext]_mcVars => ServerInv'
<1> SUFFICES ASSUME ServerInv, [MCNext]_mcVars PROVE ServerInv'
  OBVIOUS
<1>1. TypeOK'
  BY PartsStep, NextTypeOK DEF ServerInv
<1>2. LikesInv'
  BY PartsStep, LikesStep, LikesRest DEF ServerInv
<1>3. AccountsInv'
  <2>1. CASE People!Next
    BY <2>1, AccountsStep DEF ServerInv
  <2>2. CASE UNCHANGED People!vars
    BY <2>2, AccountsRest DEF ServerInv
  <2> QED
    BY <2>1, <2>2, PartsStep
<1>4. InvitesInv'
  BY PartsStep, InvitesStep, InvitesRest DEF ServerInv
<1>5. FilmsInv'
  <2>1. CASE Catalogue!Next
    <3>1. PICK t \in Clerks : Catalogue!Step(t)
      BY <2>1 DEF Catalogue!Next
    <3> QED
      BY <3>1, FilmsStep DEF ServerInv
  <2>2. CASE UNCHANGED Catalogue!vars
    BY <2>2, FilmsRest DEF ServerInv
  <2> QED
    BY <2>1, <2>2, PartsStep
<1> QED
  BY <1>1, <1>2, <1>3, <1>4, <1>5 DEF ServerInv

LEMMA ServerAlways == MCSpec => []ServerInv
BY ServerInit, ServerStep, PTL DEF MCSpec

\* Rows, jobs and what is remembered of them keep their types in every part of
\* the server (models/user.py:463, models/status.py:462).
THEOREM PartsKeepTypes == MCSpec => []TypesOK
<1>1. ServerInv => TypesOK
  BY LikesMean, AccountsMean, InvitesMean, FilmsMean DEF ServerInv, TypesOK
<1> QED
  BY ServerAlways, <1>1, PTL

\* The users whose requests never overlapped have one like, and it is what the
\* pages say; as long as no two requests met there is one notification at most,
\* and it tells the author of everybody (models/notification.py:120).
THEOREM OverlapsMislead == MCSpec => []OnlyOverlapsMislead
<1>1. ServerInv => OnlyOverlapsMislead
  BY LikesMean DEF ServerInv, OnlyOverlapsMislead
<1> QED
  BY ServerAlways, <1>1, PTL

\* An account whose saves nobody tore agrees with the settings, with the block
\* of its server and with itself, and who is held stays out
\* (models/user.py:463, models/federated_server.py:31).
THEOREM TornContradict == MCSpec => []OnlyTornContradict
<1>1. ServerInv => OnlyTornContradict
  BY AccountsMean DEF ServerInv, OnlyTornContradict
<1> QED
  BY ServerAlways, <1>1, PTL

\* An invitation that no two guests took at once, and that no guest left half
\* way, counts them all; who asks once has one (views/landing/register.py:85).
THEOREM OverlapsMisinvite == MCSpec => []OnlyOverlapsMisinvite
<1>1. ServerInv => OnlyOverlapsMisinvite
  BY InvitesMean DEF ServerInv, OnlyOverlapsMisinvite
<1> QED
  BY ServerAlways, <1>1, PTL

\* A film of TMDB has two rows only by a race or by an import under its other
\* identifier (tmdb.py:180).
THEOREM RacedOrMixedDouble == MCSpec => []OnlyRacedOrMixedDouble
<1>1. ServerInv => OnlyRacedOrMixedDouble
  BY FilmsMean DEF ServerInv, OnlyRacedOrMixedDouble
<1> QED
  BY ServerAlways, <1>1, PTL

\* A deleted account comes back, and what TMDB says of a film is overruled,
\* only in the step of a worker that holds what it read before
\* (models/user.py:463, views/films/edit_film.py:36).
THEOREM StaleOverwrite == MCSpec => OnlyStaleOverwrites
<1> DEFINE Revive == \A u \in People!Users : People!Gone(pe_row[u]) /\ ~People!Gone(pe_row'[u]) =>
                       \E t \in pe_stale : pe_job[t].user = u /\ pe_job'[t] = People!Idle
           Overrule == \A f \in DOMAIN ca_films : Catalogue!Overruled(f) =>
                         \E t \in ca_stale : ca_job'[t] # ca_job[t]
<1>1. ServerInv /\ [MCNext]_mcVars => [Revive]_People!vars
  BY PartsStep, AccountsRevived DEF ServerInv
<1>2. ServerInv /\ [MCNext]_mcVars => [Overrule]_Catalogue!vars
  BY PartsStep, OnlyStaleOverrule DEF ServerInv
<1> QED
  BY ServerAlways, <1>1, <1>2, PTL
     DEF MCSpec, OnlyStaleOverwrites, People!OnlyStaleRevives, Catalogue!OnlyStaleOverrules

=============================================================================
