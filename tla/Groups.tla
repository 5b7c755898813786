------------------------------- MODULE Groups -------------------------------
(***************************************************************************)
(* Groups of users: invitations, memberships and the lists that a group    *)
(* curates, as models/group.py, views/group.py, the list form and the      *)
(* block view change them.                                                 *)
(*                                                                         *)
(* Requests look first and write later, some of them in several            *)
(* transactions.  The database keeps one membership and one invitation of  *)
(* a user in a group, and deletes both with the group.                     *)
(***************************************************************************)
EXTENDS Naturals, FiniteSets

CONSTANTS Users, Groups,
          Owner,     \* Owner[g]: the user of group g
          Threads    \* web workers

NoGroup == "no group"
Nobody  == "nobody"

ASSUME OwnerAssumption == /\ Owner \in [Groups -> Users]
                          /\ NoGroup \notin Groups /\ Nobody \notin Users

VARIABLES
  groups,   \* groups that exist
  members,  \* pairs <<g, u>>: u is a member of g
  invited,  \* pairs <<g, u>>: u has an invitation to g
  blocks,   \* pairs <<u, v>>: u blocks v
  list,     \* list[u]: the group that u's list is curated by
  job,      \* job[t]: the request that t is in the middle of
  stale,    \* threads since whose first look the tables have changed
  torn      \* history: has one of them changed the tables after that?

tables == <<groups, members, invited, blocks, list>>
vars   == <<groups, members, invited, blocks, list, job, stale, torn>>

Idle == [op |-> "idle", group |-> NoGroup, user |-> Nobody, by |-> Nobody,
         member |-> FALSE, invite |-> FALSE]
Busy == {t \in Threads : job[t] # Idle}
Free == Busy # Threads       \* somebody can take a request of one step

Owned(u) == {g \in Groups : Owner[g] = u}
Apart(u, v) == <<u, v>> \in blocks \/ <<v, u>> \in blocks

Init ==
  /\ groups = {} /\ members = {} /\ invited = {} /\ blocks = {}
  /\ list = [u \in Users |-> NoGroup]
  /\ job = [t \in Threads |-> Idle]
  /\ stale = {} /\ torn = FALSE

-----------------------------------------------------------------------------
\* The first look, on which the rest of the request relies.
Begin(t, op, g, u, by) ==
  /\ job[t] = Idle
  /\ job' = [job EXCEPT ![t] = [op |-> op, group |-> g, user |-> u, by |-> by,
                                member |-> <<g, u>> \in members,
                                invite |-> <<g, u>> \in invited]]
  /\ UNCHANGED <<tables, stale>>

On(t, op)   == job[t].op = op
Goes(t, op) == job' = [job EXCEPT ![t].op = op]
Ends(t)     == job' = [job EXCEPT ![t] = Idle]

\* After a step of t that may have changed the tables; t is done or goes on.
Others(t) == stale' = IF tables' = tables THEN stale ELSE stale \cup (Busy \ {t})
Done(t)   == /\ Ends(t)
             /\ stale' = (IF tables' = tables THEN stale ELSE stale \cup Busy) \ {t}

-----------------------------------------------------------------------------
CreateEmpty(g) ==    \* (Mutant: the owner is not made a member.)
  /\ Free
  /\ g \notin groups
  /\ \A t \in Threads : job[t].group # g
  /\ groups' = groups \cup {g}
  /\ stale' = stale \cup Busy
  /\ UNCHANGED <<members, invited, blocks, list, job>>

\* UserGroups.post: the group and its owner's membership, in one transaction.
Create(g) ==
  /\ Free
  /\ g \notin groups
  /\ \A t \in Threads : job[t].group # g
  /\ groups' = groups \cup {g}
  /\ members' = members \cup {<<g, Owner[g]>>}
  /\ stale' = stale \cup Busy
  /\ UNCHANGED <<invited, blocks, list, job>>

\* delete_group: the lists of the group become closed ones of their users.
DeleteGroup(g) ==
  /\ Free
  /\ g \in groups
  /\ groups' = groups \ {g}
  /\ members' = {m \in members : m[1] # g}
  /\ invited' = {i \in invited : i[1] # g}
  /\ list' = [u \in Users |-> IF list[u] = g THEN NoGroup ELSE list[u]]
  /\ stale' = stale \cup Busy
  /\ UNCHANGED <<blocks, job>>

InviteAnyone(t, g, u) ==    \* (Mutant: nobody looks whether u is a member.)
  /\ g \in groups
  /\ Begin(t, "invite", g, u, Owner[g])

\* GroupMemberInvitation.save: not for members, not across a block.  For a
\* member it tries to accept the invitation that it has not saved, and fails.
InviteBegin(t, g, u) ==
  /\ g \in groups
  /\ <<g, u>> \notin members
  /\ ~Apart(u, Owner[g])
  /\ Begin(t, "invite", g, u, Owner[g])

Invite(t) ==
  /\ On(t, "invite")
  /\ invited' = IF job[t].group \in groups
                  THEN invited \cup {<<job[t].group, job[t].user>>} ELSE invited
  /\ UNCHANGED <<groups, members, blocks, list>>
  /\ Done(t)

AcceptUnasked(t, g, u) ==    \* (Mutant: it does not look for an invitation.)
  /\ g \in groups
  /\ ~Apart(u, Owner[g])
  /\ Begin(t, "accept", g, u, u)

AcceptBlocked(t, g, u) ==    \* (Mutant: it does not look for a block.)
  /\ <<g, u>> \in invited
  /\ Begin(t, "accept", g, u, u)

\* accept_membership finds the invitation; accept() deletes it, however few
\* rows that are, and creates the membership unless there is a block or the
\* user is a member already, which rolls all of it back.
AcceptBegin(t, g, u) ==
  /\ <<g, u>> \in invited
  /\ ~Apart(u, Owner[g])
  /\ Begin(t, "accept", g, u, u)

Accept(t) ==
  LET m == <<job[t].group, job[t].user>>
  IN  /\ On(t, "accept")
      /\ IF m[1] \in groups /\ m \notin members
           THEN members' = members \cup {m} /\ invited' = invited \ {m}
           ELSE UNCHANGED <<members, invited>>
      /\ UNCHANGED <<groups, blocks, list>>
      /\ Done(t)

\* reject_membership
Reject(g, u) ==
  /\ Free
  /\ <<g, u>> \in invited
  /\ invited' = invited \ {<<g, u>>}
  /\ stale' = stale \cup Busy
  /\ UNCHANGED <<groups, members, blocks, list, job>>

-----------------------------------------------------------------------------
RemoveOwner(t, g, u) ==    \* (Mutant: the owner may leave.)
  /\ g \in groups
  /\ <<g, u>> \in members \cup invited
  /\ Begin(t, "remove", g, u, Owner[g])

\* remove_member, by the owner or by the user who leaves.  It looks for a
\* membership and an invitation, deletes the invitation, takes the lists out
\* and then the user.
RemoveBegin(t, g, u) ==
  /\ g \in groups
  /\ u # Owner[g]
  /\ <<g, u>> \in members \cup invited
  /\ Begin(t, "remove", g, u, Owner[g])

RemoveInvite(t) ==
  LET j == job[t]
  IN  /\ On(t, "remove")
      /\ invited' = IF j.invite THEN invited \ {<<j.group, j.user>>} ELSE invited
      /\ UNCHANGED <<groups, members, blocks, list>>
      /\ IF j.member THEN Goes(t, "unlist") /\ Others(t) ELSE Done(t)

UnlistNone(t) ==    \* (Mutant: the lists stay in the group.)
  /\ On(t, "unlist")
  /\ Goes(t, "expel")
  /\ UNCHANGED <<tables, stale>>

\* List.remove_from_group(owner, user)
Unlist(t) ==
  LET j == job[t]
  IN  /\ On(t, "unlist")
      /\ list' = [list EXCEPT ![j.user] = IF @ \in Owned(j.by) THEN NoGroup ELSE @]
      /\ UNCHANGED <<groups, members, invited, blocks>>
      /\ Goes(t, "expel") /\ Others(t)

\* GroupMember.remove(owner, user): from every group of the owner's.
Expel(t) ==
  LET j == job[t]
  IN  /\ On(t, "expel")
      /\ members' = {m \in members : m[2] # j.user \/ m[1] \notin Owned(j.by)}
      /\ UNCHANGED <<groups, invited, blocks, list>>
      /\ Done(t)

\* Block.post blocks first, and then removes as remove_member does.
Block(t, u, v) ==
  /\ u # v
  /\ <<u, v>> \notin blocks
  /\ job[t] = Idle
  /\ blocks' = blocks \cup {<<u, v>>}
  /\ job' = [job EXCEPT ![t] = [op |-> "unlist", group |-> NoGroup, user |-> v, by |-> u,
                                member |-> FALSE, invite |-> FALSE]]
  /\ stale' = stale \cup Busy
  /\ UNCHANGED <<groups, members, invited, list>>

Unblock(u, v) ==
  /\ Free
  /\ <<u, v>> \in blocks
  /\ blocks' = blocks \ {<<u, v>>}
  /\ stale' = stale \cup Busy
  /\ UNCHANGED <<groups, members, invited, list, job>>

-----------------------------------------------------------------------------
\* The list form offers the groups that the user is in.  The list is saved
\* with whatever group the form brings, unless that is gone.
ListBegin(t, g, u) ==
  /\ <<g, u>> \in members
  /\ list[u] # g
  /\ Begin(t, "list", g, u, u)

SaveList(t) ==
  /\ On(t, "list")
  /\ list' = IF job[t].group \in groups THEN [list EXCEPT ![job[t].user] = job[t].group]
             ELSE list
  /\ UNCHANGED <<groups, members, invited, blocks>>
  /\ Done(t)

\* A curation other than "group" takes the list out of its group.
CloseList(u) ==
  /\ Free
  /\ list[u] # NoGroup
  /\ list' = [list EXCEPT ![u] = NoGroup]
  /\ stale' = stale \cup Busy
  /\ UNCHANGED <<groups, members, invited, blocks, job>>

-----------------------------------------------------------------------------
Step ==
  \/ \E g \in Groups : Create(g) \/ DeleteGroup(g)
  \/ \E u \in Users : CloseList(u)
  \/ \E t \in Threads :
       \/ Invite(t) \/ Accept(t) \/ SaveList(t)
       \/ RemoveInvite(t) \/ Unlist(t) \/ Expel(t)
       \/ \E g \in Groups, u \in Users :
            \/ InviteBegin(t, g, u) \/ AcceptBegin(t, g, u)
            \/ RemoveBegin(t, g, u) \/ ListBegin(t, g, u)
       \/ \E u, v \in Users : Block(t, u, v)
  \/ \E g \in Groups, u \in Users : Reject(g, u)
  \/ \E u, v \in Users : Unblock(u, v)

Tearing == tables' # tables /\ \E t \in stale : job'[t] # job[t]
Next == Step /\ torn' = (torn \/ Tearing)

Spec == Init /\ [][Next]_vars

-----------------------------------------------------------------------------
\* Every row points at rows that exist.
TypeOK ==
  /\ groups \subseteq Groups
  /\ members \subseteq groups \X Users
  /\ invited \subseteq groups \X Users
  /\ blocks \subseteq Users \X Users
  /\ list \in [Users -> groups \cup {NoGroup}]
  /\ stale \subseteq Busy /\ torn \in BOOLEAN

\* "you can't be removed from your own group": a group has its owner in it,
\* however requests interleave.
OwnerIsMember == \A g \in groups : <<g, Owner[g]>> \in members

\* "converts a join request into a member relationship": one becomes a member
\* by creating the group or by an invitation that is still there, or else by
\* accepting what was withdrawn meanwhile.
OnlyStaleGetIn ==
  [][\A m \in members' \ members :
       \/ m \in invited
       \/ m[2] = Owner[m[1]]
       \/ \E t \in stale : On(t, "accept") /\ job[t].user = m[2] /\ job'[t] = Idle]_vars

\* "make sure the membership doesn't already exist": nobody who is in a group
\* has an invitation to it, which could never be accepted.
NotInvitedAndMember == members \cap invited = {}

\* "remove the blocked user from all blocker's owned groups": the blocked are
\* in no group of the blocker's, nor are their lists.
OwnersBlockHolds ==
  \A b \in blocks : \A g \in Owned(b[1]) : <<g, b[2]>> \notin members /\ list[b[2]] # g

\* A group curates the lists of its members.
ListsAreOfMembers == \A u \in Users : list[u] # NoGroup => <<list[u], u>> \in members

\* When no request is under way, the three fail only where one request has
\* written on the strength of what another had changed.
OnlyTornDisagree ==
  Busy = {} /\ ~torn => NotInvitedAndMember /\ OwnersBlockHolds /\ ListsAreOfMembers

\* "remove a user from a group", says GroupMember.remove: leaving one group,
\* or being removed from it, leaves the others alone.
RemovalIsOfOneGroup ==
  [][\A t \in Threads : On(t, "expel") /\ job[t].group # NoGroup /\ job'[t] = Idle =>
       members \ members' \subseteq {<<job[t].group, job[t].user>>}]_vars
=============================================================================
