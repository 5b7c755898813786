-------------------------- MODULE MCFollowProtocol --------------------------
(* A user, and a friend on another server.  The network is one that loses  *)
(* messages, or one that delivers; on the second, only the friend blocks.  *)
EXTENDS FollowProtocol, TLC

CONSTANTS ann, bob, east, west

Apart == ann :> east @@ bob :> west

\* One user asks twice; either may block, or only the one who is asked.
TwiceOneWay  == <<ann, bob>> :> 2 @@ <<bob, ann>> :> 0
OnceEach     == <<ann, bob>> :> 1 @@ <<bob, ann>> :> 1
AnsweredOnce == <<ann, bob>> :> 0 @@ <<bob, ann>> :> 1

Delivered == INSTANCE FollowProtocol WITH MaxBlk <- AnsweredOnce, Lossy <- FALSE

VARIABLE delivers    \* is the network the second one?

MCInit == Init /\ delivers \in BOOLEAN
MCNext ==
  /\ UNCHANGED delivers
  /\ \/ ~delivers /\ Next
     \/ delivers /\ Delivered!Next

\* What FairSpec says, of the second network.
MCSpec ==
  /\ MCInit /\ [][MCNext]_<<vars, delivers>>
  /\ \A p \in Pairs, t \in Types : \A i \in 1 .. MaxReq[p] + AnsweredOnce[p] :
       WF_vars(/\ delivers
               /\ Msg(t, p, i) \in net
               /\ Receive(Msg(t, p, i))
               /\ Cardinality(net') <= MaxNet
               /\ UNCHANGED delivers)

\* On a network that delivers, a block that is not lifted is felt on the other
\* server as well (activitypub/verbs.py:144).
DeliveredBlockIsFelt == delivers => BlockIsFelt
=============================================================================
