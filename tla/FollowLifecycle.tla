-------------------------- MODULE FollowLifecycle --------------------------
(***************************************************************************)
(* What a server promises its own users about who follows them, whatever   *)
(* messages arrive: a follower who must be approved by hand passes through *)
(* a request, a follow never falls back to a request, and from a block the *)
(* only way leads to no relationship at all.                               *)
(***************************************************************************)
CONSTANT Users

VARIABLES status,  \* status[p]: what the object's server holds of the pair p
          manual   \* the users that approve their followers by hand

vars == <<status, manual>>

Pairs  == {p \in Users \X Users : p[1] # p[2]}

Init == /\ status = [p \in Pairs |-> "none"]
        /\ manual \in SUBSET Users

\* The subject asks, and the object wants to be asked.
Ask(p) ==
  /\ status[p] = "none" /\ p[2] \in manual
  /\ status' = [status EXCEPT ![p] = "requested"]
  /\ UNCHANGED manual

\* The subject asks an object that admits everybody, perhaps for the second time.
Admit(p) ==
  /\ status[p] \in {"none", "requested"} /\ p[2] \notin manual
  /\ status' = [status EXCEPT ![p] = "following"]
  /\ UNCHANGED manual

\* The object accepts a request.
Approve(p) ==
  /\ status[p] = "requested"
  /\ status' = [status EXCEPT ![p] = "following"]
  /\ UNCHANGED manual

\* Unfollowed, removed, rejected, withdrawn, or unblocked; a block has two
\* directions, so one step may free both.
End(S) ==
  /\ \A p \in S : status[p] # "none"
  /\ status' = [p \in Pairs |-> IF p \in S THEN "none" ELSE status[p]]
  /\ UNCHANGED manual

\* A block, of one user by the other.
Sever(S) ==
  /\ status' = [p \in Pairs |-> IF p \in S THEN "blocked" ELSE status[p]]
  /\ UNCHANGED manual

EditApproval(u) ==
  /\ manual' = IF u \in manual THEN manual \ {u} ELSE manual \cup {u}
  /\ UNCHANGED status

Next ==
  \/ \E p \in Pairs : \/ Ask(p) \/ Admit(p) \/ Approve(p)
                      \/ \E S \in {{p}, {p, <<p[2], p[1]>>}} : End(S) \/ Sever(S)
  \/ \E u \in Users : EditApproval(u)

Spec == Init /\ [][Next]_vars
=============================================================================
