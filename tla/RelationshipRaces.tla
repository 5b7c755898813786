------------------------- MODULE RelationshipRaces -------------------------
(***************************************************************************)
(* The handlers of FollowProtocol looked at from inside: two local users,  *)
(* a subject who may follow an object, and concurrent web requests that    *)
(* run views/follow.py and views/preferences/block.py on one database.     *)
(* Outside of transaction.atomic every statement commits by itself; a      *)
(* transaction is invisible to the others until it commits (READ           *)
(* COMMITTED), so it is its reads followed by one committing step.  The    *)
(* relationship cache of the templates is shared and is not transactional. *)
(***************************************************************************)
EXTENDS Naturals, FiniteSets

CONSTANTS Threads    \* the web requests, each of which handles one call

Sides == {"subject", "object"}     \* who blocks whom: the side that blocks

VARIABLES
  manual,     \* does the object approve followers by hand?  Chosen at first.
  follow,     \* primary key of the UserFollows row of the pair, 0 if none
  request,    \* the same for UserFollowRequest
  block,      \* block[d]: the same for the UserBlocks row of side d
  cache,      \* what the subject's templates were told, "nothing" if not cached
  pc,         \* pc[t]: the statement that t executes next
  held,       \* held[t]: the primary key that t has read before
  seen,       \* seen[t]: the relationship that t has read for a page
  fresh,      \* primary keys not used yet start here
  torn,       \* history: was a block stored between a handler's check and its
              \* write, or did its own handler die before it severed?
  consented,  \* history: has the object called accept_follow_request?
  overtaken,  \* history: has a follow appeared behind a handler that had looked
              \* for one, or a request gone that a handler was accepting?
  raced       \* history: has a page been rendered while a handler was at work?

tables  == <<follow, request, block>>
history == <<torn, consented>>
vars    == <<tables, cache, pc, held, seen, fresh, history, manual, overtaken, raced>>

Blocked == \E d \in Sides : block[d] # 0

\* get_relationship_name, for the subject.  (Mutant: a name no template knows.)
RelationshipMisnamed == IF request # 0 THEN "requested" ELSE "none"
RelationshipName == CASE block["subject"] # 0 -> "blocked"
                      [] block["subject"] = 0 /\ follow # 0 -> "following"
                      [] block["subject"] = 0 /\ follow = 0 /\ request # 0 -> "pending"
                      [] OTHER -> "none"

Init ==
  /\ follow = 0 /\ request = 0
  /\ block = [d \in Sides |-> 0]
  /\ cache = "nothing"
  /\ pc = [t \in Threads |-> "idle"]
  /\ held = [t \in Threads |-> 0]
  /\ seen = [t \in Threads |-> "none"]
  /\ fresh = 1
  /\ manual \in BOOLEAN
  /\ torn = FALSE /\ consented = FALSE /\ overtaken = FALSE /\ raced = FALSE

-----------------------------------------------------------------------------
At(t, l)    == pc[t] = l
Goto(t, l)  == pc' = [pc EXCEPT ![t] = l]
Hold(t, v)  == held' = [held EXCEPT ![t] = v]
Live        == {t \in Threads : pc[t] \notin {"idle", "done"}}
Begin(t)    == At(t, "idle")

\* What runs after its block check and before its write.
PastCheck == {"create_commit", "resave_write", "accept_commit"}
FollowChecked == {"create_check_block", "create_commit", "resave_check_block", "resave_write"}
\* What a block still has to do when its row is stored.
Severing  == {"sever_follow", "sever_request"}

\* clear_cache  (Mutant: deleting a row does not clear it.)
NotClearing == UNCHANGED cache
ClearCache  == cache' = "nothing"

\* UserFollowRequest.save of the follow view.  get_or_create finds the
\* request, or creates it inside a transaction.
FollowBegin(t) ==
  /\ Begin(t)
  /\ ClearCache
  /\ Goto(t, "follow_get")
  /\ UNCHANGED <<tables, held, fresh, history, seen>>

FollowGet(t) ==
  /\ At(t, "follow_get")
  /\ Hold(t, request)
  /\ Goto(t, IF request # 0 THEN "resave_check_follow" ELSE "create_check_follow")
  /\ UNCHANGED <<tables, cache, fresh, history, seen>>

\* With a follow in place the request is acknowledged, which is silent here.
CheckFollow(t, here, next) ==
  /\ At(t, here)
  /\ Goto(t, IF follow # 0 THEN "done" ELSE next)
  /\ UNCHANGED <<tables, cache, held, fresh, history, seen>>

\* A block in either direction is an IntegrityError.  The rows that the
\* creating transaction writes clear the cache before it commits.
CreateCheckBlock(t) ==
  /\ At(t, "create_check_block")
  /\ IF Blocked THEN Goto(t, "done") /\ UNCHANGED cache
                 ELSE Goto(t, "create_commit") /\ ClearCache
  /\ UNCHANGED <<tables, held, fresh, history, seen>>

ResaveCheckBlock(t) ==
  /\ At(t, "resave_check_block")
  /\ Goto(t, IF Blocked THEN "done" ELSE "resave_write")
  /\ UNCHANGED <<tables, cache, held, fresh, history, seen>>

\* The transaction that creates the request, and that accepts it at once for an
\* object who approves nobody by hand.  If another has created the request,
\* get_or_create reads it and the view saves it again.
CreateCommit(t) ==
  /\ At(t, "create_commit")
  /\ IF request # 0
       THEN /\ Hold(t, request)
            /\ Goto(t, "resave_check_follow")
            /\ UNCHANGED <<tables, fresh>>
       ELSE /\ IF manual
                 THEN request' = fresh /\ UNCHANGED follow
                 ELSE follow' = (IF follow = 0 THEN fresh ELSE follow) /\ UNCHANGED request
            /\ fresh' = fresh + 1
            /\ Goto(t, "done")
            /\ UNCHANGED <<held, block>>
  /\ UNCHANGED <<cache, history, seen>>

\* Model.save of the request held: an UPDATE, or an INSERT under the same
\* primary key if the row has gone.  (Mutant: the request is accepted next,
\* whether or not the object approves by hand.)
ResaveAccepting(t) ==
  /\ At(t, "resave_write")
  /\ request' = IF request \in {0, held[t]} THEN held[t] ELSE request
  /\ ClearCache
  /\ Goto(t, "accept_check")
  /\ UNCHANGED <<follow, block, held, fresh, history, seen>>
ResaveWrite(t) ==
  /\ At(t, "resave_write")
  /\ request' = IF request \in {0, held[t]} THEN held[t] ELSE request
  /\ IF request \in {0, held[t]} THEN ClearCache ELSE UNCHANGED cache
  /\ Goto(t, IF manual \/ request \notin {0, held[t]} THEN "done" ELSE "accept_check")
  /\ UNCHANGED <<follow, block, held, fresh, history, seen>>

-----------------------------------------------------------------------------
\* accept_follow_request
AcceptBegin(t) ==
  /\ Begin(t) /\ request # 0
  /\ Hold(t, request)
  /\ consented' = TRUE
  /\ Goto(t, "accept_check")
  /\ UNCHANGED <<tables, cache, fresh, torn, seen>>

\* UserFollowRequest.accept, a transaction: from_request runs into a block,
\* which is swallowed, or creates the follow; the request goes in both cases.
\* (Mutant: the request is left.)
AcceptCheck(t) ==
  /\ At(t, "accept_check")
  /\ ClearCache
  /\ Goto(t, IF Blocked THEN "accept_drop" ELSE "accept_commit")
  /\ UNCHANGED <<tables, held, fresh, history, seen>>

WithoutRow(row, t) == IF row = held[t] THEN 0 ELSE row

AcceptKeepingRequest(t) ==
  /\ pc[t] \in {"accept_drop", "accept_commit"}
  /\ follow'  = IF At(t, "accept_commit") /\ follow = 0 THEN fresh ELSE follow
  /\ fresh'   = IF follow' = fresh THEN fresh + 1 ELSE fresh
  /\ Goto(t, "done")
  /\ UNCHANGED <<request, block, cache, held, history, seen>>
AcceptCommit(t) ==
  /\ pc[t] \in {"accept_drop", "accept_commit"}
  /\ request' = WithoutRow(request, t)
  /\ follow'  = IF At(t, "accept_commit") /\ follow = 0 THEN fresh ELSE follow
  /\ fresh'   = IF follow' = fresh THEN fresh + 1 ELSE fresh
  /\ Goto(t, "done")
  /\ UNCHANGED <<block, cache, held, history, seen>>

-----------------------------------------------------------------------------
\* delete_follow_request
RejectBegin(t) ==
  /\ Begin(t) /\ request # 0
  /\ Hold(t, request)
  /\ Goto(t, "drop_request")
  /\ UNCHANGED <<tables, cache, fresh, history, seen>>

\* unfollow, by the subject, and remove_follow, by the object, which differ in
\* what they tell remote servers only.
UnfollowBegin(t) ==
  /\ Begin(t)
  /\ Hold(t, follow)
  /\ Goto(t, IF follow # 0 THEN "drop_follow" ELSE "unfollow_request")
  /\ IF follow # 0 THEN UNCHANGED cache ELSE ClearCache
  /\ UNCHANGED <<tables, fresh, history, seen>>

DropFollow(t) ==
  /\ At(t, "drop_follow")
  /\ follow' = WithoutRow(follow, t)
  /\ ClearCache
  /\ Goto(t, "unfollow_request")
  /\ UNCHANGED <<request, block, held, fresh, history, seen>>

UnfollowRequest(t) ==
  /\ At(t, "unfollow_request")
  /\ Hold(t, request)
  /\ IF request # 0 THEN Goto(t, "drop_request") /\ UNCHANGED cache
                    ELSE Goto(t, "done") /\ ClearCache
  /\ UNCHANGED <<tables, fresh, history, seen>>

DropRequest(t) ==
  /\ At(t, "drop_request")
  /\ request' = WithoutRow(request, t)
  /\ ClearCache
  /\ Goto(t, "done")
  /\ UNCHANGED <<follow, block, held, fresh, history, seen>>

-----------------------------------------------------------------------------
\* Block.post, and UserBlocks.save after it: three statements of their own.
\* (Mutant: the requests stay.)
BlockBegin(t, d) ==
  /\ Begin(t) /\ block[d] = 0
  /\ block' = [block EXCEPT ![d] = fresh]
  /\ fresh' = fresh + 1
  /\ torn'  = (torn \/ \E u \in Threads : pc[u] \in PastCheck)
  /\ ClearCache
  /\ Goto(t, "sever_follow")
  /\ UNCHANGED <<follow, request, held, consented, seen>>

SeverFollow(t) ==
  /\ At(t, "sever_follow")
  /\ follow' = 0
  /\ Goto(t, "sever_request")
  /\ UNCHANGED <<request, block, cache, held, fresh, history, seen>>

SeverNoRequest(t) ==
  /\ At(t, "sever_request")
  /\ Goto(t, "done")
  /\ UNCHANGED <<tables, cache, held, fresh, history, seen>>
SeverRequest(t) ==
  /\ At(t, "sever_request")
  /\ request' = 0
  /\ Goto(t, "done")
  /\ UNCHANGED <<follow, block, cache, held, fresh, history, seen>>

\* unblock: the row is read and deleted.
UnblockBegin(t, d) ==
  /\ Begin(t) /\ block[d] # 0
  /\ Hold(t, block[d])
  /\ Goto(t, "drop_block")
  /\ UNCHANGED <<tables, cache, fresh, history, seen>>

DropBlock(t) ==
  /\ At(t, "drop_block")
  /\ block' = [d \in Sides |-> WithoutRow(block[d], t)]
  /\ ClearCache
  /\ Goto(t, "done")
  /\ UNCHANGED <<follow, request, held, fresh, history, seen>>

-----------------------------------------------------------------------------
\* A page that shows the follow button: get_or_set computes what it misses.
RenderBegin(t) ==
  /\ Begin(t) /\ cache = "nothing"
  /\ seen' = [seen EXCEPT ![t] = RelationshipName]
  /\ Goto(t, "fill_cache")
  /\ UNCHANGED <<tables, cache, held, fresh, history>>

FillCache(t) ==
  /\ At(t, "fill_cache")
  /\ cache' = seen[t]
  /\ Goto(t, "done")
  /\ UNCHANGED <<tables, held, seen, fresh, history>>

Crash(t) ==
  /\ t \in Live
  /\ torn' = (torn \/ pc[t] \in Severing)
  /\ Goto(t, "done")
  /\ UNCHANGED <<tables, cache, held, seen, fresh, consented>>

-----------------------------------------------------------------------------
BeginSome(t) ==
  \/ FollowBegin(t) \/ AcceptBegin(t) \/ RejectBegin(t) \/ UnfollowBegin(t)
  \/ RenderBegin(t)
  \/ \E d \in Sides : BlockBegin(t, d) \/ UnblockBegin(t, d)

Continue(t) ==
  \/ FollowGet(t) \/ CreateCommit(t) \/ ResaveWrite(t)
  \/ CheckFollow(t, "create_check_follow", "create_check_block")
  \/ CheckFollow(t, "resave_check_follow", "resave_check_block")
  \/ CreateCheckBlock(t) \/ ResaveCheckBlock(t)
  \/ AcceptCheck(t) \/ AcceptCommit(t)
  \/ DropFollow(t) \/ UnfollowRequest(t) \/ DropRequest(t)
  \/ SeverFollow(t) \/ SeverRequest(t) \/ DropBlock(t)
  \/ FillCache(t)

\* A follow is there although a handler that goes on has found none, or the
\* request that a handler is about to accept is not there any more.
Overtaking ==
  \/ follow # 0 /\ \E t \in Threads : pc[t] \in FollowChecked
  \/ \E t \in Threads : At(t, "accept_commit") /\ request # held[t]
\* A page has read the relationship, and some handler is not done.
Racing == \E t \in Threads : At(t, "fill_cache") /\ \E u \in Live : ~At(u, "fill_cache")

Next == /\ \E t \in Threads : BeginSome(t) \/ Continue(t) \/ Crash(t)
        /\ overtaken' = (overtaken \/ Overtaking')
        /\ raced' = (raced \/ Racing')
        /\ UNCHANGED manual

Spec == Init /\ [][Next]_vars
-----------------------------------------------------------------------------
Labels == PastCheck \cup Severing \cup
  {"idle", "done", "follow_get", "create_check_follow", "create_check_block",
   "resave_check_follow", "resave_check_block", "accept_check", "accept_drop",
   "drop_follow", "drop_request", "drop_block", "unfollow_request", "fill_cache"}
Names == {"blocked", "following", "pending", "none"}
TypeOK ==
  /\ {follow, request, fresh} \subseteq Nat
  /\ block \in [Sides -> Nat]
  /\ cache \in Names \cup {"nothing"}
  /\ held \in [Threads -> Nat]
  /\ seen \in [Threads -> Names]
  /\ pc \in [Threads -> Labels]
  /\ {manual, torn, consented, overtaken, raced} \subseteq BOOLEAN

\* However handlers interleave and wherever they die, a relationship survives
\* a block (relationship.py:89 "really really don't let a user follow someone
\* who blocked them") for two reasons only: the block was stored after the
\* relationship's handler had looked for blocks, or the block's handler died
\* half way.
OnlyTornBlocksLeak ==
  Blocked /\ ~torn /\ (\A t \in Threads : pc[t] \notin Severing)
    => follow = 0 /\ request = 0

\* However handlers interleave, requests saved again included, nobody follows
\* an object that approves by hand and has not approved.
ConsentFirst == manual /\ follow # 0 => consented

\* relationship.py:140 "make sure the follow or block relationship doesn't
\* already exist": a request stands beside a follow only if the two were made
\* by handlers of which one overtook the other.
OnlyOvertakenAskTwice == follow # 0 /\ request # 0 => overtaken

\* relationship.py:41 "clear the template cache": when no request is being
\* handled, a cached relationship is the one in the tables, unless a page was
\* rendered while a handler was at work.
OnlyRacedPagesLie == Live = {} => cache \in {"nothing", RelationshipName} \/ raced
=============================================================================
