--------------------------- MODULE FollowProtocol ---------------------------
(***************************************************************************)
(* Follows, follow requests and blocks between users of several servers,   *)
(* as models/relationship.py keeps them and views/follow.py,               *)
(* views/preferences/block.py and the verbs of activitypub/verbs.py change *)
(* them.  Every server has its own copy of the three tables; servers tell  *)
(* each other through ActivityPub messages that are sent once.  A delivery *)
(* may be lost (errors are logged, nothing is queued again), late, out of  *)
(* order, or repeated (the legacy-key retry of sign_and_send).             *)
(*                                                                         *)
(* A handler is one atomic step here; RelationshipRaces.tla looks inside   *)
(* the handlers of one server.                                             *)
(***************************************************************************)
EXTENDS Naturals, FiniteSets

CONSTANTS Users,    \* the accounts
          Servers,  \* the instances that federate
          Home,     \* Home[u]: the server on which u is local
          MaxReq,   \* MaxReq[p]: bound on the follow requests made by p
          MaxBlk,   \* MaxBlk[p]: bound on the blocks made by p
          MaxNet,   \* bound on the messages in flight
          Lossy     \* may a message be lost?

(* user_subject and user_object are unique together and never equal, so a   *)
(* table is a function from pairs to the one row a pair may have.           *)
Pairs == {p \in Users \X Users : p[1] # p[2]}
Rev(p) == <<p[2], p[1]>>
SubjectHome(p) == Home[p[1]]
ObjectHome(p)  == Home[p[2]]

ASSUME HomeAssumption  == Home \in [Users -> Servers]
ASSUME BoundAssumption == /\ MaxReq \in [Pairs -> Nat]
                          /\ MaxBlk \in [Pairs -> Nat]
                          /\ MaxNet \in Nat
                          /\ Lossy \in BOOLEAN

VARIABLES
  follows,   \* follows[s][p]: remote_id of the UserFollows row of p on s, 0 if none
  requests,  \* requests[s][p]: the same for UserFollowRequest
  blocks,    \* blocks[s][p]: the same for UserBlocks
  manual,    \* the users that approve their followers by hand
  nextReq,   \* nextReq[p]: the id that p's next UserFollowRequest row gets
  nextBlk,   \* nextBlk[p]: the id that p's next UserBlocks row gets
  net,       \* the activities in flight
  granted    \* history: pairs whose object has accepted the subject

tables == <<follows, requests, blocks>>
ids    == <<nextReq, nextBlk>>
vars   == <<follows, requests, blocks, manual, nextReq, nextBlk, net, granted>>

-----------------------------------------------------------------------------
Types   == {"Follow", "Accept", "Reject", "UndoFollow", "Block", "UndoBlock"}
Message == [type : Types, pair : Pairs, id : Nat \ {0}]
Msg(t, p, i) == [type |-> t, pair |-> p, id |-> i]

\* UserRelationship.recipients: only the participant who is remote is written to.
ToRemote(t, p, i) ==
  IF SubjectHome(p) = ObjectHome(p) THEN {} ELSE {Msg(t, p, i)}

Blocked(s, p) == blocks[s][p] # 0 \/ blocks[s][Rev(p)] # 0

\* UserFollowRequest.save: is there a follow already, so that the new request
\* is only acknowledged?  (Mutant: any request in progress counts.)
AlreadyFollowingOrAsking(s, p) == follows[s][p] # 0 \/ requests[s][p] # 0
AlreadyFollowing(s, p) == follows[s][p] # 0

\* Is this pair's request accepted as soon as it is saved on s?
\* (Mutant: manually_approves_followers is not looked at.)
AcceptsAtOnceUnasked(s, p) == s = ObjectHome(p)
AcceptsAtOnce(s, p) == s = ObjectHome(p) /\ p[2] \notin manual

Init ==
  /\ follows  = [s \in Servers |-> [p \in Pairs |-> 0]]
  /\ requests = [s \in Servers |-> [p \in Pairs |-> 0]]
  /\ blocks   = [s \in Servers |-> [p \in Pairs |-> 0]]
  /\ manual   \in SUBSET Users
  /\ nextReq  = [p \in Pairs |-> 1]
  /\ nextBlk  = [p \in Pairs |-> 1]
  /\ net      = {}
  /\ granted  = {}

-----------------------------------------------------------------------------
(* The model methods, on server s.  Each gives follows', requests' and      *)
(* granted' and is used by one view or one incoming activity.               *)

\* UserFollowRequest.save past its two checks: the row is stored and, for a
\* local object who approves nobody by hand, accepted at once.
SaveRequest(s, p, i) ==
  IF AcceptsAtOnce(s, p)
    THEN /\ follows'  = [follows  EXCEPT ![s][p] = i]
         /\ requests' = [requests EXCEPT ![s][p] = 0]
         /\ granted'  = granted \cup {p}
    ELSE /\ requests' = [requests EXCEPT ![s][p] = i]
         /\ UNCHANGED <<follows, granted>>

\* The end of UserFollowRequest.accept: the follow is created unless it is
\* there already or a block forbids it (both IntegrityErrors are swallowed),
\* and the request, if it was a stored one, is deleted.
\* (Mutants: the request stays; from_request does not look for blocks.)
AcceptRowKeepingIt(s, p, i) ==
  /\ follows' = IF follows[s][p] = 0 /\ ~Blocked(s, p)
                  THEN [follows EXCEPT ![s][p] = i] ELSE follows
  /\ UNCHANGED requests
AcceptRowUnchecked(s, p, i) ==
  /\ follows'  = IF follows[s][p] = 0
                   THEN [follows EXCEPT ![s][p] = i] ELSE follows
  /\ requests' = IF requests[s][p] = i
                   THEN [requests EXCEPT ![s][p] = 0] ELSE requests
AcceptRow(s, p, i) ==
  /\ follows'  = IF follows[s][p] = 0 /\ ~Blocked(s, p)
                   THEN [follows EXCEPT ![s][p] = i] ELSE follows
  /\ requests' = IF requests[s][p] = i
                   THEN [requests EXCEPT ![s][p] = 0] ELSE requests

\* UserBlocks.save after the row is stored: relationships of either direction go.
\* (Mutant: those of the blocker only.)
SeverOneWay(table, s, p) == [table EXCEPT ![s][p] = 0]
Sever(table, s, p) ==
  [table EXCEPT ![s] = [q \in Pairs |-> IF q \in {p, Rev(p)} THEN 0 ELSE @[q]]]

-----------------------------------------------------------------------------
(* Views: what the user named by the pair does on the home server.          *)

\* follow: the request is created, or saved again to repeat its broadcast.
\* With a follow or a block in the way nothing changes.
FollowView(p) ==
  LET s == SubjectHome(p)
      i == IF requests[s][p] # 0 THEN requests[s][p] ELSE nextReq[p]
  IN  /\ ~AlreadyFollowing(s, p) /\ ~Blocked(s, p)
      /\ i <= MaxReq[p]
      /\ SaveRequest(s, p, i)
      /\ nextReq' = [nextReq EXCEPT ![p] = IF i = @ THEN @ + 1 ELSE @]
      /\ net' = net \cup ToRemote("Follow", p, i)
      /\ UNCHANGED <<blocks, manual, nextBlk>>

\* unfollow: both rows go, but only the loss of a follow is announced.
UnfollowView(p) ==
  LET s == SubjectHome(p)
  IN  /\ follows[s][p] # 0 \/ requests[s][p] # 0
      /\ net' = IF follows[s][p] # 0
                  THEN net \cup ToRemote("UndoFollow", p, follows[s][p]) ELSE net
      /\ follows'  = [follows  EXCEPT ![s][p] = 0]
      /\ requests' = [requests EXCEPT ![s][p] = 0]
      /\ UNCHANGED <<blocks, manual, ids, granted>>

\* The rows of p that reject() is called for.
Rejected(s, p) == {follows[s][p], requests[s][p]} \ {0}

\* remove_follow: the object turns a follower, and a request, away.
RemoveFollowView(p) ==
  LET s == ObjectHome(p)
  IN  /\ follows[s][p] # 0 \/ requests[s][p] # 0
      /\ net' = net \cup UNION {ToRemote("Reject", p, i) : i \in Rejected(s, p)}
      /\ follows'  = [follows  EXCEPT ![s][p] = 0]
      /\ requests' = [requests EXCEPT ![s][p] = 0]
      /\ UNCHANGED <<blocks, manual, ids, granted>>

\* accept_follow_request
AcceptView(p) ==
  LET s == ObjectHome(p)
  IN  /\ requests[s][p] # 0
      /\ AcceptRow(s, p, requests[s][p])
      /\ granted' = granted \cup {p}
      /\ net' = net \cup ToRemote("Accept", p, requests[s][p])
      /\ UNCHANGED <<blocks, manual, ids>>

\* delete_follow_request
RejectView(p) ==
  LET s == ObjectHome(p)
  IN  /\ requests[s][p] # 0
      /\ requests' = [requests EXCEPT ![s][p] = 0]
      /\ net' = net \cup ToRemote("Reject", p, requests[s][p])
      /\ UNCHANGED <<follows, blocks, manual, ids, granted>>

\* Block.post: a second block of the same user is an IntegrityError.
BlockView(p) ==
  LET s == SubjectHome(p)
  IN  /\ blocks[s][p] = 0 /\ nextBlk[p] <= MaxBlk[p]
      /\ blocks'   = [blocks EXCEPT ![s][p] = nextBlk[p]]
      /\ nextBlk'  = [nextBlk EXCEPT ![p] = @ + 1]
      /\ follows'  = Sever(follows, s, p)
      /\ requests' = Sever(requests, s, p)
      /\ net' = net \cup ToRemote("Block", p, nextBlk[p])
      /\ UNCHANGED <<manual, nextReq, granted>>

\* unblock
UnblockView(p) ==
  LET s == SubjectHome(p)
  IN  /\ blocks[s][p] # 0
      /\ blocks' = [blocks EXCEPT ![s][p] = 0]
      /\ net' = net \cup ToRemote("UndoBlock", p, blocks[s][p])
      /\ UNCHANGED <<follows, requests, manual, ids, granted>>

\* EditUser: the manually_approves_followers box of the profile form.
EditApproval(u) ==
  /\ manual' = IF u \in manual THEN manual \ {u} ELSE manual \cup {u}
  /\ UNCHANGED <<tables, ids, net, granted>>

-----------------------------------------------------------------------------
(* Inbox: what a server does with an activity.  A handler that raises       *)
(* (blocked, or a second row for a pair) is retried by activity_task, which *)
(* is a later delivery, and then given up.                                  *)

\* The message is consumed, or stays in flight to be delivered again.
Consume(m, out) == net' \in {(net \ {m}) \cup out, net \cup out}

\* Follow.action: with the follow in place it is only acknowledged again,
\* under the id of this Follow; otherwise the request is saved.
ReceiveFollow(m) ==
  LET p == m.pair   s == ObjectHome(p)
  IN  /\ m.type = "Follow"
      /\ \/ /\ AlreadyFollowing(s, p)
            /\ Consume(m, {Msg("Accept", p, m.id)})
            /\ UNCHANGED <<tables, granted>>
         \/ /\ ~AlreadyFollowing(s, p) /\ ~Blocked(s, p)
            /\ requests[s][p] \in {0, m.id}
            /\ SaveRequest(s, p, m.id)
            /\ Consume(m, IF AcceptsAtOnce(s, p)
                            THEN {Msg("Accept", p, m.id)} ELSE {})
            /\ UNCHANGED blocks
         \/ /\ ~AlreadyFollowing(s, p)
            /\ Blocked(s, p) \/ requests[s][p] \notin {0, m.id}
            /\ Consume(m, {})
            /\ UNCHANGED <<tables, granted>>
      /\ UNCHANGED <<manual, ids>>

\* Accept.action: the request is rebuilt from the activity if it is not stored.
ReceiveAccept(m) ==
  /\ m.type = "Accept"
  /\ AcceptRow(SubjectHome(m.pair), m.pair, m.id)
  /\ Consume(m, {})
  /\ UNCHANGED <<blocks, manual, ids, granted>>

\* Reject.action: the request with this id, or else the follow with this id;
\* deleting a local user's follow broadcasts its Undo.
ReceiveReject(m) ==
  LET p == m.pair   s == SubjectHome(p)
      isRequest == requests[s][p] = m.id
      isFollow  == ~isRequest /\ follows[s][p] = m.id
  IN  /\ m.type = "Reject"
      /\ requests' = IF isRequest THEN [requests EXCEPT ![s][p] = 0] ELSE requests
      /\ follows'  = IF isFollow  THEN [follows  EXCEPT ![s][p] = 0] ELSE follows
      /\ Consume(m, IF isFollow THEN {Msg("UndoFollow", p, m.id)} ELSE {})
      /\ UNCHANGED <<blocks, manual, ids, granted>>

\* Undo.action of a Follow: the follow with this id, or else the request.
ReceiveUndoFollow(m) ==
  LET p == m.pair   s == ObjectHome(p)
      isFollow == follows[s][p] = m.id
  IN  /\ m.type = "UndoFollow"
      /\ follows'  = IF isFollow THEN [follows EXCEPT ![s][p] = 0] ELSE follows
      /\ requests' = IF ~isFollow /\ requests[s][p] = m.id
                       THEN [requests EXCEPT ![s][p] = 0] ELSE requests
      /\ Consume(m, {})
      /\ UNCHANGED <<blocks, manual, ids, granted>>

\* Block.action: stored unless the pair has a block of another id (unique).
ReceiveBlock(m) ==
  LET p == m.pair   s == ObjectHome(p)
  IN  /\ m.type = "Block"
      /\ IF blocks[s][p] \in {0, m.id}
           THEN /\ blocks'   = [blocks EXCEPT ![s][p] = m.id]
                /\ follows'  = Sever(follows, s, p)
                /\ requests' = Sever(requests, s, p)
           ELSE UNCHANGED tables
      /\ Consume(m, {})
      /\ UNCHANGED <<manual, ids, granted>>

\* Undo.action of a Block
ReceiveUndoBlock(m) ==
  LET p == m.pair   s == ObjectHome(p)
  IN  /\ m.type = "UndoBlock"
      /\ blocks' = IF blocks[s][p] = m.id
                     THEN [blocks EXCEPT ![s][p] = 0] ELSE blocks
      /\ Consume(m, {})
      /\ UNCHANGED <<follows, requests, manual, ids, granted>>

\* sign_and_send gives up on a message: timeout, connection error, bad status.
Lose(m) ==
  /\ Lossy
  /\ net' = net \ {m}
  /\ UNCHANGED <<tables, manual, ids, granted>>

-----------------------------------------------------------------------------
View(p) ==
  \/ FollowView(p) \/ UnfollowView(p) \/ RemoveFollowView(p)
  \/ AcceptView(p) \/ RejectView(p) \/ BlockView(p) \/ UnblockView(p)

Receive(m) ==
  \/ ReceiveFollow(m) \/ ReceiveAccept(m) \/ ReceiveReject(m)
  \/ ReceiveUndoFollow(m) \/ ReceiveBlock(m) \/ ReceiveUndoBlock(m)

Next ==
  /\ \/ \E p \in Pairs : View(p)
     \/ \E u \in Users : EditApproval(u)
     \/ \E m \in net : Receive(m) \/ Lose(m)
  /\ Cardinality(net') <= MaxNet

Spec == Init /\ [][Next]_vars
-----------------------------------------------------------------------------
(* Types, and the histories' meaning *)
TypeOK ==
  /\ follows  \in [Servers -> [Pairs -> Nat]]
  /\ requests \in [Servers -> [Pairs -> Nat]]
  /\ blocks   \in [Servers -> [Pairs -> Nat]]
  /\ manual   \in SUBSET Users
  /\ nextReq  \in [Pairs -> Nat \ {0}]
  /\ nextBlk  \in [Pairs -> Nat \ {0}]
  /\ net      \in SUBSET Message
  /\ granted  \in SUBSET Pairs

\* relationship.py:89 "really really don't let a user follow someone who
\* blocked them", kept by every order of messages and views: no server holds a
\* follow or a request between users it knows to be blocked, although an
\* Accept, a Follow and a Block may arrive in any order.
NoRelationAcrossBlock ==
  \A s \in Servers, p \in Pairs :
    Blocked(s, p) => follows[s][p] = 0 /\ requests[s][p] = 0

\* A follow exists, on either server, only if its object has accepted the
\* subject at some time: no reordering or repetition of messages makes one up.
FollowIsGranted ==
  \A s \in Servers, p \in Pairs : follows[s][p] # 0 => p \in granted

\* The object's own server never shows a follower as still asking to follow,
\* whatever mixture of repeated Follows and acceptances it handles.
NoPendingBesideFollow ==
  \A p \in Pairs :
    ~(follows[ObjectHome(p)][p] # 0 /\ requests[ObjectHome(p)][p] # 0)

-----------------------------------------------------------------------------
(* What the object's server promises: FollowLifecycle. *)
Status(p) ==
  LET s == ObjectHome(p)
  IN  IF Blocked(s, p) THEN "blocked"
      ELSE IF follows[s][p] # 0 THEN "following"
      ELSE IF requests[s][p] # 0 THEN "requested"
      ELSE "none"

Lifecycle == INSTANCE FollowLifecycle
               WITH status <- [p \in Pairs |-> Status(p)]
ImplementsLifecycle == Lifecycle!Spec

-----------------------------------------------------------------------------
(* Liveness, on a network that delivers (Lossy = FALSE).  Users owe nothing. *)
FairSpec ==
  Spec /\ \A p \in Pairs, t \in Types : \A i \in 1 .. MaxReq[p] + MaxBlk[p] :
            WF_vars(/\ Msg(t, p, i) \in net
                    /\ Receive(Msg(t, p, i))
                    /\ Cardinality(net') <= MaxNet)

\* A block that is not lifted is felt on the other server as well: follows and
\* requests between the two users disappear there.
BlockIsFelt ==
  \A p \in Pairs :
    blocks[SubjectHome(p)][p] # 0 ~>
      \/ blocks[SubjectHome(p)][p] = 0
      \/ \A q \in {p, Rev(p)} : /\ follows[ObjectHome(p)][q] = 0
                                /\ requests[ObjectHome(p)][q] = 0
=============================================================================
