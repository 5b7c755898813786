------------------------ MODULE FollowProtocolProofs ------------------------
(***************************************************************************)
(* The safety invariants of FollowProtocol, for any users, servers, bounds *)
(* and any reordering, repetition and loss of messages.                    *)
(***************************************************************************)
EXTENDS FollowProtocol, TLAPS

LEMMA RevPair ==
  ASSUME NEW p \in Pairs
  PROVE  Rev(p) \in Pairs /\ Rev(Rev(p)) = p /\ Rev(p) # p
BY DEF Pairs, Rev

LEMMA HomesAreServers ==
  ASSUME NEW p \in Pairs
  PROVE  SubjectHome(p) \in Servers /\ ObjectHome(p) \in Servers
BY HomeAssumption DEF Pairs, SubjectHome, ObjectHome

LEMMA InitTypeOK == Init => TypeOK
BY DEF Init, TypeOK

\* The model methods keep the shape of the tables.
LEMMA SaveRequestType ==
  ASSUME TypeOK, NEW s \in Servers, NEW p \in Pairs, NEW i \in Nat,
         SaveRequest(s, p, i)
  PROVE  /\ follows'  \in [Servers -> [Pairs -> Nat]]
         /\ requests' \in [Servers -> [Pairs -> Nat]]
         /\ granted'  \in SUBSET Pairs
<1>1. /\ follows \in [Servers -> [Pairs -> Nat]]
      /\ requests \in [Servers -> [Pairs -> Nat]]
      /\ granted \in SUBSET Pairs
  BY DEF TypeOK
<1>2. follows' \in {follows, [follows EXCEPT ![s][p] = i]}
  BY DEF SaveRequest, AcceptsAtOnce
<1>3. requests' \in {[requests EXCEPT ![s][p] = 0], [requests EXCEPT ![s][p] = i]}
  BY DEF SaveRequest, AcceptsAtOnce
<1>4. granted' \in {granted, granted \cup {p}}
  BY DEF SaveRequest, AcceptsAtOnce
<1>5. follows' \in [Servers -> [Pairs -> Nat]]
  <2>1. [follows EXCEPT ![s][p] = i] \in [Servers -> [Pairs -> Nat]]
    BY <1>1
  <2> QED
    BY <1>1, <1>2, <2>1
<1>6. requests' \in [Servers -> [Pairs -> Nat]]
  <2>1. /\ [requests EXCEPT ![s][p] = i] \in [Servers -> [Pairs -> Nat]]
        /\ [requests EXCEPT ![s][p] = 0] \in [Servers -> [Pairs -> Nat]]
    BY <1>1
  <2> QED
    BY <1>3, <2>1
<1> QED
  BY <1>1, <1>4, <1>5, <1>6

LEMMA AcceptRowType ==
  ASSUME TypeOK, NEW s \in Servers, NEW p \in Pairs, NEW i \in Nat,
         AcceptRow(s, p, i)
  PROVE  /\ follows'  \in [Servers -> [Pairs -> Nat]]
         /\ requests' \in [Servers -> [Pairs -> Nat]]
BY DEF AcceptRow, TypeOK

LEMMA SeverType ==
  ASSUME NEW table \in [Servers -> [Pairs -> Nat]],
         NEW s \in Servers, NEW p \in Pairs
  PROVE  Sever(table, s, p) \in [Servers -> [Pairs -> Nat]]
BY DEF Sever

LEMMA NextTypeOK == TypeOK /\ [Next]_vars => TypeOK'
<1> SUFFICES ASSUME TypeOK, [Next]_vars PROVE TypeOK'
  OBVIOUS
<1> USE RevPair, HomesAreServers DEF Msg, Message, Types
<1>1. ASSUME NEW p \in Pairs, FollowView(p) PROVE TypeOK'
  <2> DEFINE s == SubjectHome(p)
             i == IF requests[s][p] # 0 THEN requests[s][p] ELSE nextReq[p]
  <2>1. i \in Nat \ {0} /\ s \in Servers
    BY DEF TypeOK
  <2>2. SaveRequest(s, p, i)
    BY <1>1 DEF FollowView
  <2>3. /\ follows'  \in [Servers -> [Pairs -> Nat]]
        /\ requests' \in [Servers -> [Pairs -> Nat]]
        /\ granted'  \in SUBSET Pairs
    BY <2>1, <2>2, SaveRequestType
  <2>4. net' \in SUBSET Message /\ nextReq' \in [Pairs -> Nat \ {0}]
    BY <1>1, <2>1 DEF FollowView, ToRemote, TypeOK
  <2> QED
    BY <1>1, <2>3, <2>4 DEF FollowView, TypeOK
<1>2. ASSUME NEW p \in Pairs, UnfollowView(p) PROVE TypeOK'
  BY <1>2 DEF UnfollowView, ToRemote, TypeOK, ids
<1>3. ASSUME NEW p \in Pairs, RemoveFollowView(p) PROVE TypeOK'
  <2>1. net' \in SUBSET Message
    BY <1>3 DEF RemoveFollowView, Rejected, ToRemote, TypeOK
  <2> QED
    BY <1>3, <2>1 DEF RemoveFollowView, TypeOK, ids
<1>4. ASSUME NEW p \in Pairs, AcceptView(p) PROVE TypeOK'
  <2>1. AcceptRow(ObjectHome(p), p, requests[ObjectHome(p)][p])
    BY <1>4 DEF AcceptView
  <2>2. requests[ObjectHome(p)][p] \in Nat \ {0}
    BY <1>4 DEF AcceptView, TypeOK
  <2>3. /\ follows'  \in [Servers -> [Pairs -> Nat]]
        /\ requests' \in [Servers -> [Pairs -> Nat]]
    BY <2>1, <2>2, AcceptRowType
  <2> QED
    BY <1>4, <2>2, <2>3 DEF AcceptView, ToRemote, TypeOK, ids
<1>5. ASSUME NEW p \in Pairs, RejectView(p) PROVE TypeOK'
  BY <1>5 DEF RejectView, ToRemote, TypeOK, ids
<1>6. ASSUME NEW p \in Pairs, BlockView(p) PROVE TypeOK'
  <2>1. /\ follows'  \in [Servers -> [Pairs -> Nat]]
        /\ requests' \in [Servers -> [Pairs -> Nat]]
    BY <1>6, SeverType DEF BlockView, TypeOK
  <2>2. /\ blocks' \in [Servers -> [Pairs -> Nat]]
        /\ nextBlk' \in [Pairs -> Nat \ {0}]
        /\ net' \in SUBSET Message
    BY <1>6 DEF BlockView, ToRemote, TypeOK
  <2> QED
    BY <1>6, <2>1, <2>2 DEF BlockView, TypeOK
<1>7. ASSUME NEW p \in Pairs, UnblockView(p) PROVE TypeOK'
  BY <1>7 DEF UnblockView, ToRemote, TypeOK, ids
<1>8. ASSUME NEW u \in Users, EditApproval(u) PROVE TypeOK'
  BY <1>8 DEF EditApproval, TypeOK, ids, tables
<1>9. ASSUME NEW m \in net, ReceiveFollow(m) PROVE TypeOK'
  <2> DEFINE p == m.pair
             s == ObjectHome(p)
  <2>1. p \in Pairs /\ m.id \in Nat \ {0} /\ s \in Servers
    BY DEF TypeOK
  <2>2. net' \in SUBSET Message
    BY <1>9, <2>1 DEF ReceiveFollow, Consume, TypeOK
  <2>3. /\ follows'  \in [Servers -> [Pairs -> Nat]]
        /\ requests' \in [Servers -> [Pairs -> Nat]]
        /\ granted'  \in SUBSET Pairs
        /\ blocks'   \in [Servers -> [Pairs -> Nat]]
    <3>1. CASE SaveRequest(s, p, m.id) /\ UNCHANGED blocks
      BY <3>1, <2>1, SaveRequestType DEF TypeOK
    <3>2. CASE UNCHANGED <<tables, granted>>
      BY <3>2 DEF TypeOK, tables
    <3> QED
      BY <1>9, <3>1, <3>2 DEF ReceiveFollow
  <2> QED
    BY <1>9, <2>2, <2>3 DEF ReceiveFollow, TypeOK, ids
<1>10. ASSUME NEW m \in net, ReceiveAccept(m) PROVE TypeOK'
  <2>1. m.pair \in Pairs /\ m.id \in Nat /\ SubjectHome(m.pair) \in Servers
    BY DEF TypeOK
  <2>2. /\ follows'  \in [Servers -> [Pairs -> Nat]]
        /\ requests' \in [Servers -> [Pairs -> Nat]]
    BY <1>10, <2>1, AcceptRowType DEF ReceiveAccept
  <2> QED
    BY <1>10, <2>2 DEF ReceiveAccept, Consume, TypeOK, ids
<1>11. ASSUME NEW m \in net, ReceiveReject(m) PROVE TypeOK'
  BY <1>11 DEF ReceiveReject, Consume, TypeOK, ids
<1>12. ASSUME NEW m \in net, ReceiveUndoFollow(m) PROVE TypeOK'
  BY <1>12 DEF ReceiveUndoFollow, Consume, TypeOK, ids
<1>13. ASSUME NEW m \in net, ReceiveBlock(m) PROVE TypeOK'
  <2>1. m.pair \in Pairs /\ m.id \in Nat /\ ObjectHome(m.pair) \in Servers
    BY DEF TypeOK
  <2>2. /\ follows'  \in [Servers -> [Pairs -> Nat]]
        /\ requests' \in [Servers -> [Pairs -> Nat]]
        /\ blocks'   \in [Servers -> [Pairs -> Nat]]
    <3>1. CASE UNCHANGED tables
      BY <3>1 DEF TypeOK, tables
    <3>2. CASE /\ blocks'   = [blocks EXCEPT ![ObjectHome(m.pair)][m.pair] = m.id]
               /\ follows'  = Sever(follows, ObjectHome(m.pair), m.pair)
               /\ requests' = Sever(requests, ObjectHome(m.pair), m.pair)
      BY <2>1, <3>2, SeverType DEF TypeOK
    <3> QED
      BY <1>13, <3>1, <3>2 DEF ReceiveBlock
  <2> QED
    BY <1>13, <2>2 DEF ReceiveBlock, Consume, TypeOK, ids
<1>14. ASSUME NEW m \in net, ReceiveUndoBlock(m) PROVE TypeOK'
  BY <1>14 DEF ReceiveUndoBlock, Consume, TypeOK, ids
<1>15. ASSUME NEW m \in net, Lose(m) PROVE TypeOK'
  BY <1>15 DEF Lose, TypeOK, ids, tables
<1>16. CASE UNCHANGED vars
  BY <1>16 DEF vars, TypeOK
<1> QED
  BY <1>1, <1>2, <1>3, <1>4, <1>5, <1>6, <1>7, <1>8, <1>9, <1>10, <1>11,
     <1>12, <1>13, <1>14, <1>15, <1>16 DEF Next, View, Receive

\* Every table, counter and message keeps its type.
THEOREM TypeCorrect == Spec => []TypeOK
BY InitTypeOK, NextTypeOK, PTL DEF Spec

-----------------------------------------------------------------------------
(* The inductive invariant.  What an Accept in flight says must be true when *)
(* it is believed, and a message about neighbours would reach the object's   *)
(* own server: neither can be left out.                                      *)
AcceptIsGranted == \A m \in net : m.type = "Accept" => m.pair \in granted
NetIsRemote == \A m \in net : SubjectHome(m.pair) # ObjectHome(m.pair)

IInv == /\ TypeOK
        /\ NoRelationAcrossBlock
        /\ NoPendingBesideFollow
        /\ FollowIsGranted
        /\ AcceptIsGranted
        /\ NetIsRemote

(* Every step does one of four things to the tables. *)

\* rows disappear, or nothing happens
Drops ==
  /\ \A s \in Servers, q \in Pairs :
       /\ follows'[s][q]  \in {0, follows[s][q]}
       /\ requests'[s][q] \in {0, requests[s][q]}
       /\ blocks'[s][q]   \in {0, blocks[s][q]}
  /\ granted' = granted

\* a request is saved that no follow and no block stands against
Saves ==
  \E s \in Servers, p \in Pairs, i \in Nat :
    /\ follows[s][p] = 0 /\ ~Blocked(s, p)
    /\ SaveRequest(s, p, i)
    /\ UNCHANGED blocks

\* a request is accepted: a stored one, or one the object's server accepted
Accepts ==
  \E s \in Servers, p \in Pairs, i \in Nat :
    /\ requests[s][p] = i \/ s # ObjectHome(p)
    /\ i # 0
    /\ AcceptRow(s, p, i)
    /\ p \in granted' /\ granted \subseteq granted'
    /\ UNCHANGED blocks

\* a block is stored and severs what it forbids
Severs ==
  \E s \in Servers, p \in Pairs, i \in Nat :
    /\ blocks'   = [blocks EXCEPT ![s][p] = i]
    /\ follows'  = Sever(follows, s, p)
    /\ requests' = Sever(requests, s, p)
    /\ granted'  = granted

LEMMA StepShapes == IInv /\ [Next]_vars => Drops \/ Saves \/ Accepts \/ Severs
<1> SUFFICES ASSUME IInv, [Next]_vars PROVE Drops \/ Saves \/ Accepts \/ Severs
  OBVIOUS
<1> USE HomesAreServers
<1>0. TypeOK
  BY DEF IInv
<1>1. ASSUME NEW p \in Pairs, FollowView(p) PROVE Saves
  <2> DEFINE s == SubjectHome(p)
             i == IF requests[s][p] # 0 THEN requests[s][p] ELSE nextReq[p]
  <2>1. i \in Nat /\ s \in Servers
    BY <1>0 DEF TypeOK
  <2>2. follows[s][p] = 0 /\ ~Blocked(s, p) /\ SaveRequest(s, p, i) /\ UNCHANGED blocks
    BY <1>1 DEF FollowView, AlreadyFollowing
  <2> QED
    BY <2>1, <2>2 DEF Saves
<1>2. ASSUME NEW p \in Pairs, UnfollowView(p) PROVE Drops
  BY <1>0, <1>2 DEF UnfollowView, TypeOK, Drops
<1>3. ASSUME NEW p \in Pairs, RemoveFollowView(p) PROVE Drops
  BY <1>0, <1>3 DEF RemoveFollowView, TypeOK, Drops
<1>4. ASSUME NEW p \in Pairs, AcceptView(p) PROVE Accepts
  <2>1. requests[ObjectHome(p)][p] \in Nat /\ ObjectHome(p) \in Servers
    BY <1>0 DEF TypeOK
  <2>2. /\ requests[ObjectHome(p)][p] # 0
        /\ AcceptRow(ObjectHome(p), p, requests[ObjectHome(p)][p])
        /\ p \in granted' /\ granted \subseteq granted'
        /\ UNCHANGED blocks
    BY <1>4 DEF AcceptView
  <2> QED
    BY <2>1, <2>2 DEF Accepts
<1>5. ASSUME NEW p \in Pairs, RejectView(p) PROVE Drops
  BY <1>0, <1>5 DEF RejectView, TypeOK, Drops
<1>6. ASSUME NEW p \in Pairs, BlockView(p) PROVE Severs
  <2>1. nextBlk[p] \in Nat /\ SubjectHome(p) \in Servers
    BY <1>0 DEF TypeOK
  <2> QED
    BY <1>6, <2>1 DEF BlockView, Severs
<1>7. ASSUME NEW p \in Pairs, UnblockView(p) PROVE Drops
  BY <1>0, <1>7 DEF UnblockView, TypeOK, Drops
<1>8. ASSUME NEW u \in Users, EditApproval(u) PROVE Drops
  BY <1>8 DEF EditApproval, Drops, tables
<1>9. ASSUME NEW m \in net, ReceiveFollow(m) PROVE Drops \/ Saves
  <2> DEFINE p == m.pair
             s == ObjectHome(p)
  <2>1. p \in Pairs /\ m.id \in Nat /\ s \in Servers
    BY <1>0 DEF TypeOK, Message
  <2>2. CASE UNCHANGED <<tables, granted>>
    BY <2>2 DEF Drops, tables
  <2>3. CASE /\ follows[s][p] = 0 /\ ~Blocked(s, p)
             /\ SaveRequest(s, p, m.id)
             /\ UNCHANGED blocks
    BY <2>1, <2>3 DEF Saves
  <2> QED
    BY <1>9, <2>2, <2>3 DEF ReceiveFollow, AlreadyFollowing
<1>10. ASSUME NEW m \in net, ReceiveAccept(m) PROVE Accepts
  <2> DEFINE p == m.pair
             s == SubjectHome(p)
  <2>1. p \in Pairs /\ m.id \in Nat /\ m.id # 0 /\ s \in Servers
    BY <1>0 DEF TypeOK, Message
  <2>2. s # ObjectHome(p)
    BY DEF IInv, NetIsRemote
  <2>3. AcceptRow(s, p, m.id) /\ UNCHANGED <<blocks, granted>> /\ m.type = "Accept"
    BY <1>10 DEF ReceiveAccept
  <2>4. p \in granted
    BY <2>3 DEF IInv, AcceptIsGranted
  <2> QED
    BY <2>1, <2>2, <2>3, <2>4 DEF Accepts
<1>11. ASSUME NEW m \in net, ReceiveReject(m) PROVE Drops
  BY <1>0, <1>11 DEF ReceiveReject, TypeOK, Drops, Message
<1>12. ASSUME NEW m \in net, ReceiveUndoFollow(m) PROVE Drops
  BY <1>0, <1>12 DEF ReceiveUndoFollow, TypeOK, Drops, Message
<1>13. ASSUME NEW m \in net, ReceiveBlock(m) PROVE Drops \/ Severs
  <2> DEFINE p == m.pair
             s == ObjectHome(p)
  <2>1. p \in Pairs /\ m.id \in Nat /\ s \in Servers
    BY <1>0 DEF TypeOK, Message
  <2>2. CASE UNCHANGED <<tables, granted>>
    BY <2>2 DEF Drops, tables
  <2>3. CASE /\ blocks'   = [blocks EXCEPT ![s][p] = m.id]
             /\ follows'  = Sever(follows, s, p)
             /\ requests' = Sever(requests, s, p)
             /\ UNCHANGED granted
    BY <2>1, <2>3 DEF Severs
  <2> QED
    BY <1>13, <2>2, <2>3 DEF ReceiveBlock
<1>14. ASSUME NEW m \in net, ReceiveUndoBlock(m) PROVE Drops
  BY <1>0, <1>14 DEF ReceiveUndoBlock, TypeOK, Drops, Message
<1>15. ASSUME NEW m \in net, Lose(m) PROVE Drops
  BY <1>15 DEF Lose, Drops, tables
<1>16. CASE UNCHANGED vars
  BY <1>16 DEF vars, Drops
<1> QED
  BY <1>1, <1>2, <1>3, <1>4, <1>5, <1>6, <1>7, <1>8, <1>9, <1>10, <1>11,
     <1>12, <1>13, <1>14, <1>15, <1>16 DEF Next, View, Receive

\* What each kind of step does to the three relations between tables.
LEMMA DropsKeep ==
  ASSUME IInv, Drops
  PROVE  NoRelationAcrossBlock' /\ NoPendingBesideFollow' /\ FollowIsGranted'
<1>1. NoRelationAcrossBlock'
  BY RevPair DEF IInv, Drops, NoRelationAcrossBlock, Blocked
<1>2. NoPendingBesideFollow'
  BY HomesAreServers DEF IInv, Drops, NoPendingBesideFollow
<1>3. FollowIsGranted'
  BY DEF IInv, Drops, FollowIsGranted
<1> QED
  BY <1>1, <1>2, <1>3

LEMMA SavesKeep ==
  ASSUME IInv, Saves
  PROVE  NoRelationAcrossBlock' /\ NoPendingBesideFollow' /\ FollowIsGranted'
<1>1. PICK s \in Servers, p \in Pairs, i \in Nat :
        /\ follows[s][p] = 0 /\ ~Blocked(s, p)
        /\ SaveRequest(s, p, i)
        /\ UNCHANGED blocks
  BY DEF Saves
<1>2. \A t \in Servers, q \in Pairs :
        /\ t # s \/ q # p => /\ follows'[t][q] = follows[t][q]
                             /\ requests'[t][q] = requests[t][q]
        /\ Blocked(t, q)' <=> Blocked(t, q)
  BY <1>1 DEF SaveRequest, AcceptsAtOnce, IInv, TypeOK, Blocked
<1>3. \/ follows'[s][p] = i /\ requests'[s][p] = 0 /\ granted' = granted \cup {p}
      \/ follows'[s][p] = 0 /\ granted' = granted
  BY <1>1 DEF SaveRequest, AcceptsAtOnce, IInv, TypeOK
<1>4. NoRelationAcrossBlock'
  BY <1>1, <1>2 DEF IInv, NoRelationAcrossBlock
<1>5. NoPendingBesideFollow'
  BY <1>2, <1>3, HomesAreServers DEF IInv, NoPendingBesideFollow
<1>6. FollowIsGranted'
  BY <1>2, <1>3 DEF IInv, FollowIsGranted
<1> QED
  BY <1>4, <1>5, <1>6

LEMMA AcceptsKeep ==
  ASSUME IInv, Accepts
  PROVE  NoRelationAcrossBlock' /\ NoPendingBesideFollow' /\ FollowIsGranted'
<1>1. PICK s \in Servers, p \in Pairs, i \in Nat :
        /\ requests[s][p] = i \/ s # ObjectHome(p)
        /\ i # 0
        /\ AcceptRow(s, p, i)
        /\ p \in granted' /\ granted \subseteq granted'
        /\ UNCHANGED blocks
  BY DEF Accepts
<1>2. \A t \in Servers, q \in Pairs :
        /\ t # s \/ q # p => /\ follows'[t][q] = follows[t][q]
                             /\ requests'[t][q] = requests[t][q]
        /\ Blocked(t, q)' <=> Blocked(t, q)
  BY <1>1 DEF AcceptRow, IInv, TypeOK, Blocked
<1>3. /\ Blocked(s, p) => follows'[s][p] = follows[s][p]
      /\ requests'[s][p] \in {0, requests[s][p]}
      /\ requests[s][p] = i => requests'[s][p] = 0
  BY <1>1 DEF AcceptRow, IInv, TypeOK
<1>4. NoRelationAcrossBlock'
  BY <1>2, <1>3 DEF IInv, NoRelationAcrossBlock
<1>5. NoPendingBesideFollow'
  BY <1>1, <1>2, <1>3, HomesAreServers DEF IInv, NoPendingBesideFollow
<1>6. FollowIsGranted'
  BY <1>1, <1>2 DEF IInv, FollowIsGranted
<1> QED
  BY <1>4, <1>5, <1>6

LEMMA SeversKeep ==
  ASSUME IInv, Severs
  PROVE  NoRelationAcrossBlock' /\ NoPendingBesideFollow' /\ FollowIsGranted'
<1>1. PICK s \in Servers, p \in Pairs, i \in Nat :
        /\ blocks'   = [blocks EXCEPT ![s][p] = i]
        /\ follows'  = Sever(follows, s, p)
        /\ requests' = Sever(requests, s, p)
        /\ granted'  = granted
  BY DEF Severs
<1>2. \A t \in Servers, q \in Pairs :
        IF t = s /\ q \in {p, Rev(p)}
          THEN follows'[t][q] = 0 /\ requests'[t][q] = 0
          ELSE /\ follows'[t][q] = follows[t][q]
               /\ requests'[t][q] = requests[t][q]
               /\ blocks'[t][q] = blocks[t][q] \/ q = p
  BY <1>1 DEF Sever, IInv, TypeOK
<1>3. \A t \in Servers, q \in Pairs :
        t # s \/ q \notin {p, Rev(p)} => (Blocked(t, q)' <=> Blocked(t, q))
  BY <1>1, RevPair DEF Blocked, IInv, TypeOK
<1>4. NoRelationAcrossBlock'
  BY <1>2, <1>3 DEF IInv, NoRelationAcrossBlock
<1>5. NoPendingBesideFollow'
  BY <1>2, HomesAreServers DEF IInv, NoPendingBesideFollow
<1>6. FollowIsGranted'
  BY <1>1, <1>2 DEF IInv, FollowIsGranted
<1> QED
  BY <1>4, <1>5, <1>6

\* A message that a step adds is for a remote user, and an Accept among them is
\* about a pair that has just been, or was long, accepted.
NetGrows == \A m \in net' : m \in net \/ /\ SubjectHome(m.pair) # ObjectHome(m.pair)
                                         /\ m.type = "Accept" => m.pair \in granted'

LEMMA ToRemoteIsRemote ==
  ASSUME NEW p \in Pairs, NEW t, NEW i, NEW m \in ToRemote(t, p, i)
  PROVE  m.type = t /\ m.pair = p /\ SubjectHome(m.pair) # ObjectHome(m.pair)
BY DEF ToRemote, Msg

LEMMA NetSteps ==
  IInv /\ [Next]_vars => NetGrows /\ granted \subseteq granted'
<1> SUFFICES ASSUME IInv, [Next]_vars PROVE NetGrows /\ granted \subseteq granted'
  OBVIOUS
<1> USE HomesAreServers DEF NetGrows, ids, tables
<1>0. TypeOK
  BY DEF IInv
<1>1. ASSUME NEW p \in Pairs, FollowView(p) PROVE NetGrows /\ granted \subseteq granted'
  <2>1. granted \subseteq granted'
    BY <1>1 DEF FollowView, SaveRequest, AcceptsAtOnce
  <2> QED
    BY <1>1, <2>1, ToRemoteIsRemote DEF FollowView
<1>2. ASSUME NEW p \in Pairs, UnfollowView(p) PROVE NetGrows /\ granted' = granted
  BY <1>2, ToRemoteIsRemote DEF UnfollowView
<1>3. ASSUME NEW p \in Pairs, RemoveFollowView(p) PROVE NetGrows /\ granted' = granted
  BY <1>3, ToRemoteIsRemote DEF RemoveFollowView
<1>4. ASSUME NEW p \in Pairs, AcceptView(p) PROVE NetGrows /\ granted \subseteq granted'
  BY <1>4, ToRemoteIsRemote DEF AcceptView
<1>5. ASSUME NEW p \in Pairs, RejectView(p) PROVE NetGrows /\ granted' = granted
  BY <1>5, ToRemoteIsRemote DEF RejectView
<1>6. ASSUME NEW p \in Pairs, BlockView(p) PROVE NetGrows /\ granted' = granted
  BY <1>6, ToRemoteIsRemote DEF BlockView
<1>7. ASSUME NEW p \in Pairs, UnblockView(p) PROVE NetGrows /\ granted' = granted
  BY <1>7, ToRemoteIsRemote DEF UnblockView
<1>8. ASSUME NEW u \in Users, EditApproval(u) PROVE NetGrows /\ granted' = granted
  BY <1>8 DEF EditApproval
<1>9. ASSUME NEW m \in net, ReceiveFollow(m) PROVE NetGrows /\ granted \subseteq granted'
  <2> DEFINE p == m.pair
             s == ObjectHome(p)
  <2>1. p \in Pairs /\ s \in Servers /\ SubjectHome(p) # ObjectHome(p)
    BY <1>0 DEF TypeOK, Message, IInv, NetIsRemote
  <2>2. CASE /\ AlreadyFollowing(s, p)
             /\ Consume(m, {Msg("Accept", p, m.id)})
             /\ UNCHANGED granted
    BY <2>1, <2>2 DEF AlreadyFollowing, Consume, Msg, IInv, FollowIsGranted
  <2>3. CASE /\ SaveRequest(s, p, m.id)
             /\ Consume(m, IF AcceptsAtOnce(s, p)
                             THEN {Msg("Accept", p, m.id)} ELSE {})
    <3>1. CASE AcceptsAtOnce(s, p)
      BY <2>1, <2>3, <3>1 DEF SaveRequest, Consume, Msg
    <3>2. CASE ~AcceptsAtOnce(s, p)
      BY <2>3, <3>2 DEF SaveRequest, Consume
    <3> QED
      BY <3>1, <3>2
  <2>4. CASE Consume(m, {}) /\ UNCHANGED granted
    BY <2>4 DEF Consume
  <2> QED
    BY <1>9, <2>2, <2>3, <2>4 DEF ReceiveFollow
<1>10. ASSUME NEW m \in net, ReceiveAccept(m) PROVE NetGrows /\ granted' = granted
  BY <1>10 DEF ReceiveAccept, Consume
<1>11. ASSUME NEW m \in net, ReceiveReject(m) PROVE NetGrows /\ granted' = granted
  <2>1. SubjectHome(m.pair) # ObjectHome(m.pair)
    BY DEF IInv, NetIsRemote
  <2> QED
    BY <1>11, <2>1 DEF ReceiveReject, Consume, Msg
<1>12. ASSUME NEW m \in net, ReceiveUndoFollow(m) PROVE NetGrows /\ granted' = granted
  BY <1>12 DEF ReceiveUndoFollow, Consume
<1>13. ASSUME NEW m \in net, ReceiveBlock(m) PROVE NetGrows /\ granted' = granted
  BY <1>13 DEF ReceiveBlock, Consume
<1>14. ASSUME NEW m \in net, ReceiveUndoBlock(m) PROVE NetGrows /\ granted' = granted
  BY <1>14 DEF ReceiveUndoBlock, Consume
<1>15. ASSUME NEW m \in net, Lose(m) PROVE NetGrows /\ granted' = granted
  BY <1>15 DEF Lose
<1>16. CASE UNCHANGED vars
  BY <1>16 DEF vars
<1> QED
  BY <1>1, <1>2, <1>3, <1>4, <1>5, <1>6, <1>7, <1>8, <1>9, <1>10, <1>11,
     <1>12, <1>13, <1>14, <1>15, <1>16 DEF Next, View, Receive

LEMMA InitIInv == Init => IInv
<1> SUFFICES ASSUME Init PROVE IInv
  OBVIOUS
<1>1. \A s \in Servers, p \in Pairs : follows[s][p] = 0 /\ requests[s][p] = 0
  BY DEF Init
<1>2. NoRelationAcrossBlock /\ NoPendingBesideFollow /\ FollowIsGranted
  BY <1>1, HomesAreServers
     DEF NoRelationAcrossBlock, NoPendingBesideFollow, FollowIsGranted
<1>3. AcceptIsGranted /\ NetIsRemote
  BY DEF Init, AcceptIsGranted, NetIsRemote
<1> QED
  BY InitTypeOK, <1>2, <1>3 DEF IInv

LEMMA NextIInv == IInv /\ [Next]_vars => IInv'
<1> SUFFICES ASSUME IInv, [Next]_vars PROVE IInv'
  OBVIOUS
<1>1. TypeOK'
  BY NextTypeOK DEF IInv
<1>2. NoRelationAcrossBlock' /\ NoPendingBesideFollow' /\ FollowIsGranted'
  BY StepShapes, DropsKeep, SavesKeep, AcceptsKeep, SeversKeep
<1>3. AcceptIsGranted' /\ NetIsRemote'
  <2>1. NetGrows /\ granted \subseteq granted'
    BY NetSteps
  <2>2. \A m : /\ SubjectHome(m.pair)' = SubjectHome(m.pair)
               /\ ObjectHome(m.pair)' = ObjectHome(m.pair)
    BY DEF SubjectHome, ObjectHome
  <2> QED
    BY <2>1, <2>2 DEF NetGrows, IInv, AcceptIsGranted, NetIsRemote
<1> QED
  BY <1>1, <1>2, <1>3 DEF IInv

\* All of the safety invariants hold in every reachable state.
THEOREM Inductive == Spec => []IInv
BY InitIInv, NextIInv, PTL DEF Spec

\* No server keeps a follow or a request between users it knows to be blocked.
THEOREM BlocksSever == Spec => []NoRelationAcrossBlock
<1>1. IInv => NoRelationAcrossBlock
  BY DEF IInv
<1> QED
  BY Inductive, <1>1, PTL

\* A follow, wherever it is recorded, was accepted by its object.
THEOREM FollowsAreGranted == Spec => []FollowIsGranted
<1>1. IInv => FollowIsGranted
  BY DEF IInv
<1> QED
  BY Inductive, <1>1, PTL

\* The object's server never shows a follower as still asking.
THEOREM NoFollowerIsPending == Spec => []NoPendingBesideFollow
<1>1. IInv => NoPendingBesideFollow
  BY DEF IInv
<1> QED
  BY Inductive, <1>1, PTL
-----------------------------------------------------------------------------
(* FollowLifecycle is implemented: what a step of a handler does to the      *)
(* object's server is a step of the abstract specification, or none.         *)

\* Of server s, only rows of the two users of p change, and of others none.
OnlyRowsOf(s, p) ==
  \A t \in Servers, q \in Pairs :
    t # s \/ q \notin {p, Rev(p)} => /\ follows'[t][q] = follows[t][q]
                                     /\ requests'[t][q] = requests[t][q]
                                     /\ blocks'[t][q] = blocks[t][q]

\* Only the pairs in S get another status.
OnlyStatusOf(S) == \A q \in Pairs \ S : Status(q)' = Status(q)

LEMMA StatusElsewhere ==
  ASSUME NEW s \in Servers, NEW p \in Pairs, OnlyRowsOf(s, p),
         NEW q \in Pairs, ObjectHome(q) # s \/ q \notin {p, Rev(p)}
  PROVE  Status(q)' = Status(q)
<1>1. /\ ObjectHome(q) \in Servers /\ Rev(q) \in Pairs
      /\ ObjectHome(q) # s \/ Rev(q) \notin {p, Rev(p)}
  BY HomesAreServers, RevPair DEF Rev
<1> QED
  BY <1>1 DEF OnlyRowsOf, Status, Blocked, ObjectHome

(* What is a step of the abstract specification. *)
LEMMA Stutters ==
  ASSUME OnlyStatusOf({}), manual' = manual
  PROVE  [Lifecycle!Next]_Lifecycle!vars
<1>1. [p \in Pairs |-> Status(p)]' = [p \in Pairs |-> Status(p)]
  BY DEF OnlyStatusOf
<1> QED
  BY <1>1 DEF Lifecycle!vars

LEMMA SamePairs == Lifecycle!Pairs = Pairs
BY DEF Lifecycle!Pairs, Pairs

LEMMA OneChanges ==
  ASSUME NEW p \in Pairs, OnlyStatusOf({p}), NEW x, Status(p)' = x
  PROVE  [q \in Pairs |-> Status(q)]' = [[q \in Pairs |-> Status(q)] EXCEPT ![p] = x]
BY DEF OnlyStatusOf

LEMMA Asks ==
  ASSUME NEW p \in Pairs, OnlyStatusOf({p}), manual' = manual, p[2] \in manual,
         Status(p) = "none", Status(p)' = "requested"
  PROVE  [Lifecycle!Next]_Lifecycle!vars
<1>1. Lifecycle!Ask(p)
  BY OneChanges DEF Lifecycle!Ask
<1> QED
  BY <1>1, SamePairs DEF Lifecycle!Next

LEMMA Admits ==
  ASSUME NEW p \in Pairs, OnlyStatusOf({p}), manual' = manual, p[2] \notin manual,
         Status(p) \in {"none", "requested"}, Status(p)' = "following"
  PROVE  [Lifecycle!Next]_Lifecycle!vars
<1>1. Lifecycle!Admit(p)
  BY OneChanges DEF Lifecycle!Admit
<1> QED
  BY <1>1, SamePairs DEF Lifecycle!Next

LEMMA Approves ==
  ASSUME NEW p \in Pairs, OnlyStatusOf({p}), manual' = manual,
         Status(p) = "requested", Status(p)' = "following"
  PROVE  [Lifecycle!Next]_Lifecycle!vars
<1>1. Lifecycle!Approve(p)
  BY OneChanges DEF Lifecycle!Approve
<1> QED
  BY <1>1, SamePairs DEF Lifecycle!Next

LEMMA Ends ==
  ASSUME NEW p \in Pairs, NEW S \in {{p}, {p, Rev(p)}}, OnlyStatusOf(S), manual' = manual,
         \A q \in S : Status(q) # "none" /\ Status(q)' = "none"
  PROVE  [Lifecycle!Next]_Lifecycle!vars
<1>1. S \subseteq Pairs
  BY RevPair
<1>2. [q \in Pairs |-> Status(q)]' =
        [q \in Pairs |-> IF q \in S THEN "none" ELSE [r \in Pairs |-> Status(r)][q]]
  BY DEF OnlyStatusOf
<1>3. Lifecycle!End(S)
  BY <1>1, <1>2, SamePairs DEF Lifecycle!End
<1> QED
  BY <1>3, SamePairs DEF Lifecycle!Next, Rev

LEMMA Blocks ==
  ASSUME NEW p \in Pairs, NEW S \in {{p}, {p, Rev(p)}}, OnlyStatusOf(S), manual' = manual,
         \A q \in S : Status(q)' = "blocked"
  PROVE  [Lifecycle!Next]_Lifecycle!vars
<1>1. [q \in Pairs |-> Status(q)]' =
        [q \in Pairs |-> IF q \in S THEN "blocked" ELSE [r \in Pairs |-> Status(r)][q]]
  BY DEF OnlyStatusOf
<1>2. Lifecycle!Sever(S)
  BY <1>1, SamePairs DEF Lifecycle!Sever
<1> QED
  BY <1>2, SamePairs DEF Lifecycle!Next, Rev

-----------------------------------------------------------------------------
(* What the handlers do to statuses. *)

\* Of server s, only the follow and the request of p change.
OnlyRowOf(s, p) ==
  /\ \A t \in Servers, q \in Pairs :
       t # s \/ q # p => /\ follows'[t][q] = follows[t][q]
                         /\ requests'[t][q] = requests[t][q]
  /\ blocks' = blocks

LEMMA OnlyItsStatus ==
  ASSUME NEW s \in Servers, NEW p \in Pairs, OnlyRowOf(s, p)
  PROVE  OnlyStatusOf(IF s = ObjectHome(p) THEN {p} ELSE {})
BY HomesAreServers DEF OnlyRowOf, OnlyStatusOf, Status, Blocked, ObjectHome

\* What the rows of p say, where it counts.
LEMMA StatusOfRow ==
  ASSUME IInv, NEW s \in Servers, NEW p \in Pairs, OnlyRowOf(s, p), s = ObjectHome(p),
         ~Blocked(s, p)
  PROVE  /\ Status(p) = IF follows[s][p] # 0 THEN "following"
                        ELSE IF requests[s][p] # 0 THEN "requested" ELSE "none"
         /\ Status(p)' = IF follows'[s][p] # 0 THEN "following"
                         ELSE IF requests'[s][p] # 0 THEN "requested" ELSE "none"
BY DEF OnlyRowOf, Status, Blocked, ObjectHome

\* A request is saved: nothing to the object's server, or it is asked.
LEMMA SaveImplements ==
  ASSUME IInv, NEW s \in Servers, NEW p \in Pairs, NEW i \in Nat \ {0},
         follows[s][p] = 0, ~Blocked(s, p), SaveRequest(s, p, i),
         blocks' = blocks, manual' = manual
  PROVE  [Lifecycle!Next]_Lifecycle!vars
<1>0. TypeOK
  BY DEF IInv
<1>1. OnlyRowOf(s, p)
  BY <1>0 DEF SaveRequest, AcceptsAtOnce, OnlyRowOf, TypeOK
<1>2. CASE s # ObjectHome(p)
  BY <1>1, <1>2, OnlyItsStatus, Stutters
<1>3. CASE s = ObjectHome(p) /\ p[2] \notin manual
  <2>1. follows'[s][p] = i
    BY <1>0, <1>3 DEF SaveRequest, AcceptsAtOnce, TypeOK
  <2>2. Status(p) \in {"none", "requested"} /\ Status(p)' = "following"
    BY <1>1, <1>3, <2>1, StatusOfRow
  <2> QED
    BY <1>1, <1>3, <2>2, OnlyItsStatus, Admits
<1>4. CASE s = ObjectHome(p) /\ p[2] \in manual
  <2>1. follows'[s][p] = 0 /\ requests'[s][p] = i
    BY <1>0, <1>4 DEF SaveRequest, AcceptsAtOnce, TypeOK
  <2>2. Status(p) \in {"none", "requested"} /\ Status(p)' = "requested"
    BY <1>1, <1>4, <2>1, StatusOfRow
  <2>3. OnlyStatusOf({p})
    BY <1>1, <1>4, OnlyItsStatus
  <2>4. CASE Status(p) = "none"
    BY <1>4, <2>2, <2>3, <2>4, Asks
  <2>5. CASE Status(p) = "requested"
    BY <2>2, <2>3, <2>5, Stutters DEF OnlyStatusOf
  <2> QED
    BY <2>2, <2>4, <2>5
<1> QED
  BY <1>2, <1>3, <1>4

\* The follow and the request of p are cleared or kept; at the object's server
\* what is left is nothing, or what was there.
LEMMA ClearImplements ==
  ASSUME IInv, NEW s \in Servers, NEW p \in Pairs, OnlyRowOf(s, p), manual' = manual,
         s = ObjectHome(p) =>
           \/ follows'[s][p] = 0 /\ requests'[s][p] = 0
           \/ follows'[s][p] = follows[s][p] /\ requests'[s][p] = requests[s][p]
  PROVE  [Lifecycle!Next]_Lifecycle!vars
<1>1. CASE s # ObjectHome(p)
  BY <1>1, OnlyItsStatus, Stutters
<1>2. CASE s = ObjectHome(p)
  <2>1. OnlyStatusOf({p})
    BY <1>2, OnlyItsStatus
  <2>2. Blocked(s, p)' <=> Blocked(s, p)
    BY DEF OnlyRowOf, Blocked
  <2>3. Status(p)' \in {"none", Status(p)}
    BY <1>2, <2>2, StatusOfRow DEF Status, ObjectHome
  <2>4. CASE Status(p)' = Status(p)
    BY <2>1, <2>4, Stutters DEF OnlyStatusOf
  <2>5. CASE Status(p)' = "none" /\ Status(p) # "none"
    BY <2>1, <2>5, Ends
  <2> QED
    BY <2>3, <2>4, <2>5
<1> QED
  BY <1>1, <1>2

\* A block is stored on s and severs what it forbids.
LEMMA BlockImplements ==
  ASSUME IInv, NEW p \in Pairs, NEW s \in {SubjectHome(p), ObjectHome(p)}, NEW i \in Nat \ {0},
         blocks' = [blocks EXCEPT ![s][p] = i], follows' = Sever(follows, s, p),
         requests' = Sever(requests, s, p), manual' = manual
  PROVE  [Lifecycle!Next]_Lifecycle!vars
<1> DEFINE S == {q \in {p, Rev(p)} : ObjectHome(q) = s}
<1>1. TypeOK /\ s \in Servers /\ Rev(p) \in Pairs /\ Rev(Rev(p)) = p
  BY HomesAreServers, RevPair DEF IInv
<1>2. OnlyRowsOf(s, p)
  BY <1>1 DEF OnlyRowsOf, Sever, TypeOK
<1>3. OnlyStatusOf(S)
  BY <1>1, <1>2, StatusElsewhere DEF OnlyStatusOf
<1>4. \A q \in S : Status(q)' = "blocked"
  BY <1>1 DEF Status, Blocked, ObjectHome, TypeOK
<1>5. PICK r \in {p, Rev(p)} : S \in {{r}, {r, Rev(r)}}
  <2>1. ObjectHome(Rev(p)) = SubjectHome(p)
    BY DEF ObjectHome, SubjectHome, Rev
  <2> QED
    BY <1>1, <2>1
<1> QED
  BY <1>1, <1>3, <1>4, <1>5, Blocks

\* A block is lifted on s, which leaves the other direction's or nothing.
LEMMA UnblockImplements ==
  ASSUME IInv, NEW p \in Pairs, NEW s \in {SubjectHome(p), ObjectHome(p)},
         blocks' \in {blocks, [blocks EXCEPT ![s][p] = 0]},
         UNCHANGED <<follows, requests, manual>>
  PROVE  [Lifecycle!Next]_Lifecycle!vars
<1> DEFINE S == {q \in {p, Rev(p)} : ObjectHome(q) = s}
<1>1. TypeOK /\ s \in Servers /\ Rev(p) \in Pairs /\ Rev(Rev(p)) = p
  BY HomesAreServers, RevPair DEF IInv
<1>2. OnlyStatusOf(S)
  <2>1. OnlyRowsOf(s, p)
    BY <1>1 DEF OnlyRowsOf, TypeOK
  <2> QED
    BY <1>1, <2>1, StatusElsewhere DEF OnlyStatusOf
\* Both directions are of one mind, before and after.
<1>3. CASE Blocked(s, p) /\ ~Blocked(s, p)'
  <2>1. ASSUME NEW q \in S PROVE Status(q) = "blocked" /\ Status(q)' = "none"
    <3>1. Blocked(s, q) /\ ~Blocked(s, q)' /\ q \in Pairs /\ ObjectHome(q) = s
      BY <1>1, <1>3 DEF Blocked
    <3>2. follows'[s][q] = 0 /\ requests'[s][q] = 0
      BY <1>1, <3>1 DEF IInv, NoRelationAcrossBlock
    <3> QED
      BY <3>1, <3>2 DEF Status, ObjectHome
  <2>2. PICK r \in {p, Rev(p)} : S \in {{r}, {r, Rev(r)}}
    <3>1. ObjectHome(Rev(p)) = SubjectHome(p)
      BY DEF ObjectHome, SubjectHome, Rev
    <3> QED
      BY <1>1, <3>1
  <2> QED
    BY <1>1, <1>2, <2>1, <2>2, Ends
<1>4. CASE Blocked(s, p) <=> Blocked(s, p)'
  <2>1. ASSUME NEW q \in S PROVE Status(q)' = Status(q)
    BY <1>1, <1>4 DEF Status, Blocked, ObjectHome
  <2> QED
    BY <1>2, <2>1, Stutters DEF OnlyStatusOf
<1>5. Blocked(s, p)' => Blocked(s, p)
  BY <1>1 DEF Blocked, TypeOK
<1> QED
  BY <1>3, <1>4, <1>5

-----------------------------------------------------------------------------
LEMMA StepImplements == IInv /\ [Next]_vars => [Lifecycle!Next]_Lifecycle!vars
<1> SUFFICES ASSUME IInv, [Next]_vars PROVE [Lifecycle!Next]_Lifecycle!vars
  OBVIOUS
<1> DEFINE Goal == [Lifecycle!Next]_Lifecycle!vars
<1> HIDE DEF Goal
<1> USE HomesAreServers
<1>0. TypeOK
  BY DEF IInv
<1>1. ASSUME NEW p \in Pairs, FollowView(p) PROVE Goal
  <2> DEFINE s == SubjectHome(p)
             i == IF requests[s][p] # 0 THEN requests[s][p] ELSE nextReq[p]
  <2>1. i \in Nat \ {0} /\ s \in Servers
    BY <1>0 DEF TypeOK
  <2>2. /\ follows[s][p] = 0 /\ ~Blocked(s, p)
        /\ SaveRequest(s, p, i) /\ blocks' = blocks /\ manual' = manual
    BY <1>1 DEF FollowView, AlreadyFollowing
  <2> HIDE DEF i, s
  <2> QED
    BY <2>1, <2>2, SaveImplements DEF Goal
<1>2. ASSUME NEW p \in Pairs, UnfollowView(p) PROVE Goal
  <2>1. OnlyRowOf(SubjectHome(p), p) /\ manual' = manual
    BY <1>0, <1>2 DEF UnfollowView, OnlyRowOf, TypeOK
  <2>2. follows'[SubjectHome(p)][p] = 0 /\ requests'[SubjectHome(p)][p] = 0
    BY <1>0, <1>2 DEF UnfollowView, TypeOK
  <2> QED
    BY <2>1, <2>2, ClearImplements DEF Goal
<1>3. ASSUME NEW p \in Pairs, RemoveFollowView(p) PROVE Goal
  <2>1. OnlyRowOf(ObjectHome(p), p) /\ manual' = manual
    BY <1>0, <1>3 DEF RemoveFollowView, OnlyRowOf, TypeOK
  <2>2. follows'[ObjectHome(p)][p] = 0 /\ requests'[ObjectHome(p)][p] = 0
    BY <1>0, <1>3 DEF RemoveFollowView, TypeOK
  <2> QED
    BY <2>1, <2>2, ClearImplements DEF Goal
<1>4. ASSUME NEW p \in Pairs, AcceptView(p) PROVE Goal
  <2> DEFINE s == ObjectHome(p)
  <2>1. /\ requests[s][p] # 0 /\ AcceptRow(s, p, requests[s][p])
        /\ blocks' = blocks /\ manual' = manual /\ s \in Servers
    BY <1>4 DEF AcceptView
  \* There was a request, so there was no follow, and no block.
  <2>2. follows[s][p] = 0 /\ ~Blocked(s, p)
    BY <2>1 DEF IInv, NoRelationAcrossBlock, NoPendingBesideFollow
  <2>3. OnlyRowOf(s, p)
    BY <1>0, <2>1 DEF AcceptRow, OnlyRowOf, TypeOK
  <2>4. follows'[s][p] # 0
    BY <1>0, <2>1, <2>2 DEF AcceptRow, TypeOK
  <2>5. Status(p) = "requested" /\ Status(p)' = "following"
    BY <2>1, <2>2, <2>3, <2>4, StatusOfRow
  <2>6. OnlyStatusOf({p})
    BY <2>1, <2>3, OnlyItsStatus
  <2> QED
    BY <2>1, <2>5, <2>6, Approves DEF Goal
<1>5. ASSUME NEW p \in Pairs, RejectView(p) PROVE Goal
  <2>1. OnlyRowOf(ObjectHome(p), p) /\ manual' = manual
    BY <1>0, <1>5 DEF RejectView, OnlyRowOf, TypeOK
  <2>2. follows'[ObjectHome(p)][p] = 0 /\ requests'[ObjectHome(p)][p] = 0
    BY <1>0, <1>5 DEF RejectView, TypeOK, IInv, NoPendingBesideFollow
  <2> QED
    BY <2>1, <2>2, ClearImplements DEF Goal
<1>6. ASSUME NEW p \in Pairs, BlockView(p) PROVE Goal
  <2>1. nextBlk[p] \in Nat \ {0}
    BY <1>0 DEF TypeOK
  <2> QED
    BY <1>6, <2>1, BlockImplements DEF BlockView, Goal
<1>7. ASSUME NEW p \in Pairs, UnblockView(p) PROVE Goal
  BY <1>7, UnblockImplements DEF UnblockView, Goal
<1>8. ASSUME NEW u \in Users, EditApproval(u) PROVE Goal
  <2>1. [p \in Pairs |-> Status(p)]' = [p \in Pairs |-> Status(p)]
    BY <1>8 DEF EditApproval, tables, Status, Blocked, ObjectHome
  <2>2. Lifecycle!EditApproval(u)
    BY <1>8, <2>1 DEF EditApproval, Lifecycle!EditApproval
  <2> QED
    BY <2>2 DEF Lifecycle!Next, Goal
<1>9. ASSUME NEW m \in net, ReceiveFollow(m) PROVE Goal
  <2> DEFINE p == m.pair
             s == ObjectHome(p)
  <2>1. p \in Pairs /\ m.id \in Nat \ {0} /\ s \in Servers /\ manual' = manual
    BY <1>0, <1>9 DEF TypeOK, Message, ReceiveFollow
  <2>2. CASE UNCHANGED tables
    BY <2>1, <2>2, Stutters DEF tables, OnlyStatusOf, Status, Blocked, ObjectHome, Goal
  <2>3. CASE /\ follows[s][p] = 0 /\ ~Blocked(s, p)
             /\ SaveRequest(s, p, m.id) /\ UNCHANGED blocks
    BY <2>1, <2>3, SaveImplements DEF Goal
  <2> QED
    BY <1>9, <2>2, <2>3 DEF ReceiveFollow, AlreadyFollowing
\* An Accept and a Reject come to the subject's server.
<1>10. ASSUME NEW m \in net, ReceiveAccept(m) \/ ReceiveReject(m) PROVE Goal
  <2> DEFINE p == m.pair
             s == SubjectHome(p)
  <2>1. p \in Pairs /\ s \in Servers /\ s # ObjectHome(p) /\ manual' = manual
    BY <1>0, <1>10 DEF TypeOK, Message, IInv, NetIsRemote, ReceiveAccept, ReceiveReject
  <2>2. OnlyRowOf(s, p)
    BY <1>0, <1>10 DEF TypeOK, ReceiveAccept, ReceiveReject, AcceptRow, OnlyRowOf
  <2> QED
    BY <2>1, <2>2, ClearImplements DEF Goal
<1>11. ASSUME NEW m \in net, ReceiveUndoFollow(m) PROVE Goal
  <2> DEFINE p == m.pair
             s == ObjectHome(p)
  <2>1. p \in Pairs /\ m.id # 0 /\ s \in Servers /\ manual' = manual
    BY <1>0, <1>11 DEF TypeOK, Message, ReceiveUndoFollow
  <2>2. OnlyRowOf(s, p)
    BY <1>0, <1>11 DEF TypeOK, ReceiveUndoFollow, OnlyRowOf
  <2>3. \/ follows'[s][p] = 0 /\ requests'[s][p] = 0
        \/ follows'[s][p] = follows[s][p] /\ requests'[s][p] = requests[s][p]
    BY <1>0, <1>11, <2>1 DEF TypeOK, ReceiveUndoFollow, IInv, NoPendingBesideFollow
  <2> QED
    BY <2>1, <2>2, <2>3, ClearImplements DEF Goal
<1>12. ASSUME NEW m \in net, ReceiveBlock(m) PROVE Goal
  <2>1. m.pair \in Pairs /\ m.id \in Nat \ {0} /\ manual' = manual
    BY <1>0, <1>12 DEF TypeOK, Message, ReceiveBlock
  <2>2. CASE UNCHANGED tables
    BY <2>1, <2>2, Stutters DEF tables, OnlyStatusOf, Status, Blocked, ObjectHome, Goal
  <2> QED
    BY <1>12, <2>1, <2>2, BlockImplements DEF ReceiveBlock, Goal
<1>13. ASSUME NEW m \in net, ReceiveUndoBlock(m) PROVE Goal
  <2>1. m.pair \in Pairs
    BY <1>0 DEF TypeOK, Message
  <2> QED
    BY <1>13, <2>1, UnblockImplements DEF ReceiveUndoBlock, Goal
<1>14. CASE UNCHANGED <<tables, manual>>
  BY <1>14, Stutters DEF tables, OnlyStatusOf, Status, Blocked, ObjectHome, Goal
<1>15. ASSUME NEW m \in net, Lose(m) PROVE Goal
  BY <1>14, <1>15 DEF Lose, Goal
<1>16. CASE UNCHANGED vars
  BY <1>14, <1>16 DEF vars, tables
<1> QED
  BY <1>1, <1>2, <1>3, <1>4, <1>5, <1>6, <1>7, <1>8, <1>9, <1>10, <1>11,
     <1>12, <1>13, <1>15, <1>16 DEF Next, View, Receive, Goal

\* The object's server promises its user what FollowLifecycle says
\* (models/relationship.py:175, 198, 217).
THEOREM LifecycleImplemented == Spec => ImplementsLifecycle
<1>1. Init => Lifecycle!Init
  <2>1. Init => [p \in Pairs |-> Status(p)] = [p \in Pairs |-> "none"]
    BY HomesAreServers, RevPair DEF Init, Status, Blocked
  <2> QED
    BY <2>1, SamePairs DEF Init, Lifecycle!Init
<1>2. IInv /\ [Next]_vars => [Lifecycle!Next]_Lifecycle!vars
  BY StepImplements
<1> QED
  BY <1>1, <1>2, Inductive, PTL DEF Spec, ImplementsLifecycle, Lifecycle!Spec
=============================================================================
