---------------------------- MODULE Invitations -----------------------------
(***************************************************************************)
(* Invitations to a server whose registration is closed: made by an admin, *)
(* or granted to the one who asked for one; used by registrations; deleted *)
(* (models/site.py SiteInvite and InviteRequest, views/admin/invite.py,    *)
(* views/landing/register.py).                                             *)
(*                                                                         *)
(* A request is a sequence of statements, each a transaction of its own.   *)
(* save() writes the whole row as it was read, and inserts it anew if it   *)
(* is not there any more.                                                  *)
(***************************************************************************)
EXTENDS Naturals, FiniteSets

CONSTANTS Threads,     \* web workers
          MaxInvites,  \* a bound on the invitations
          Limits,      \* use limits an admin chooses
          MaxGuests    \* a bound on the accounts made with one invitation

Invites == 1..MaxInvites
None == 0

VARIABLES
  invite,    \* invite[i]: the row
  made,      \* how many invitations there have been
  joined,    \* joined[i]: accounts that were made with i
  request,   \* the invitation of the one InviteRequest, or None
  job,       \* job[t]: what t does next, and with which row in its hands
  granted,   \* history: invitations made for the request
  met,       \* history: invitations with two registrations at once
  torn,      \* history: invitations with an account that was made and not counted
  crossed    \* history: have two changes of the request been under way at once, or
             \* has one ended before it was written down?

vars == <<invite, made, joined, request, job, granted, met, torn, crossed>>

Rows == [there : BOOLEAN, used : 0..MaxGuests, limit : {0, 1} \cup Limits]
Unmade == [there |-> FALSE, used |-> 0, limit |-> 0]
Idle == [op |-> "idle", inv |-> None, copy |-> Unmade]

Init ==
  /\ invite = [i \in Invites |-> Unmade] /\ made = 0
  /\ joined = [i \in Invites |-> 0] /\ request = None
  /\ job = [t \in Threads |-> Idle]
  /\ granted = {} /\ met = {} /\ torn = {} /\ crossed = FALSE

Usable(i) == invite[i].there /\ invite[i].used < invite[i].limit

-----------------------------------------------------------------------------
On(t, op) == job[t].op = op
Goes(t, op, i, copy) ==
  job' = [job EXCEPT ![t] = [op |-> op, inv |-> i, copy |-> copy]]
Ends(t) == job' = [job EXCEPT ![t] = Idle]

\* Threads between the first and the last statement of a registration with i,
\* and of a change of the request.
Using(i) == {t \in Threads : job[t].op \in {"register", "count", "save"} /\ job[t].inv = i}
Granting == {t \in Threads : job[t].op \in {"grant", "attach", "withdraw", "toggle"}}
Crosses  == crossed' = (crossed \/ Granting # {})

Make(limit) ==
  /\ made < MaxInvites /\ made' = made + 1
  /\ invite' = [invite EXCEPT ![made + 1] =
                 [there |-> TRUE, used |-> 0, limit |-> limit]]

\* invite.delete(): the request lets go of it in the same transaction.
DeleteRow(i) ==
  /\ invite' = [invite EXCEPT ![i].there = FALSE]
  /\ request' = IF request = i THEN None ELSE request

-----------------------------------------------------------------------------
(* Register.post *)

ValidForOneMore(row) == row.used <= row.limit   \* (Mutant: one too many.)

\* SiteInvite.valid, of what was read
Valid(row) == row.used < row.limit

Enter(t, i) ==
  /\ job[t] = Idle /\ invite[i].there /\ Valid(invite[i])
  /\ joined[i] < MaxGuests
  /\ Goes(t, "register", i, invite[i])
  /\ met' = IF Using(i) # {} THEN met \cup {i} ELSE met
  /\ UNCHANGED <<invite, made, joined, request, granted, torn, crossed>>

\* create_user
Register(t) ==
  LET i == job[t].inv
  IN  /\ On(t, "register")
      /\ joined[i] < MaxGuests
      /\ joined' = [joined EXCEPT ![i] = @ + 1]
      /\ Goes(t, "count", i, job[t].copy)
      /\ UNCHANGED <<invite, made, request, granted, met, torn, crossed>>

\* invite.invitees.add(user) fails when the invitation is gone.
Count(t) ==
  LET i == job[t].inv
  IN  /\ On(t, "count")
      /\ \/ /\ invite[i].there
            /\ Goes(t, "save", i, [job[t].copy EXCEPT !.used = @ + 1])
            /\ UNCHANGED torn
         \/ ~invite[i].there /\ Ends(t) /\ torn' = torn \cup {i}
      /\ UNCHANGED <<invite, made, joined, request, granted, met, crossed>>

SaveUncounted(t) ==   \* (Mutant: the use is not written down.)
  /\ On(t, "save") /\ Ends(t)
  /\ UNCHANGED <<invite, made, joined, request, granted, met, torn, crossed>>

\* invite.save()
Save(t) ==
  /\ On(t, "save")
  /\ invite' = [invite EXCEPT ![job[t].inv] = job[t].copy]
  /\ Ends(t)
  /\ UNCHANGED <<made, joined, request, granted, met, torn, crossed>>

\* The worker dies, or the database refuses.
Die(t) ==
  /\ job[t] # Idle /\ Ends(t)
  /\ torn' = IF job[t].op \in {"count", "save"} THEN torn \cup {job[t].inv} ELSE torn
  /\ crossed' = (crossed \/ On(t, "attach"))
  /\ UNCHANGED <<invite, made, joined, request, granted, met>>

-----------------------------------------------------------------------------
(* The pages of admins *)

\* ManageInvites.post
Create(limit) ==
  /\ Make(limit)
  /\ UNCHANGED <<joined, request, job, granted, met, torn, crossed>>

\* ManageInvites.delete
Delete(i) ==
  /\ invite[i].there
  /\ DeleteRow(i)
  /\ UNCHANGED <<made, joined, job, granted, met, torn, crossed>>

\* ManageInviteRequests.post reads the request, ...
GrantBegin(t) ==
  /\ job[t] = Idle /\ request = None
  /\ Goes(t, "grant", None, Unmade)
  /\ Crosses
  /\ UNCHANGED <<invite, made, joined, request, granted, met, torn>>

\* ... makes an invitation for one, ...
Grant(t) ==
  /\ On(t, "grant")
  /\ Make(1)
  /\ granted' = granted \cup {made'}
  /\ Goes(t, "attach", made', Unmade)
  /\ UNCHANGED <<joined, request, met, torn, crossed>>

AttachLater(t) ==   \* (Mutant: the request is not saved.)
  /\ On(t, "attach") /\ Ends(t)
  /\ UNCHANGED <<invite, made, joined, request, granted, met, torn, crossed>>

\* ... and saves the request; an invitation that is gone is an IntegrityError.
Attach(t) ==
  /\ On(t, "attach")
  /\ request' = IF invite[job[t].inv].there THEN job[t].inv ELSE request
  /\ Ends(t)
  /\ UNCHANGED <<invite, made, joined, granted, met, torn, crossed>>

\* ManageInviteRequests.delete reads the request and its invitation, and
\* deletes that if it was unused then.
WithdrawBegin(t) ==
  /\ job[t] = Idle /\ request # None /\ invite[request].used = 0
  /\ Goes(t, "withdraw", request, Unmade)
  /\ Crosses
  /\ UNCHANGED <<invite, made, joined, request, granted, met, torn>>

Withdraw(t) ==
  /\ On(t, "withdraw")
  /\ DeleteRow(job[t].inv)
  /\ Ends(t)
  /\ UNCHANGED <<made, joined, granted, met, torn, crossed>>

\* ignore_invite_request saves the whole request.
ToggleBegin(t) ==
  /\ job[t] = Idle
  /\ Goes(t, "toggle", request, Unmade)
  /\ Crosses
  /\ UNCHANGED <<invite, made, joined, request, granted, met, torn>>

Toggle(t) ==
  LET i == job[t].inv
  IN  /\ On(t, "toggle")
      /\ request' = IF i = None \/ invite[i].there THEN i ELSE request
      /\ Ends(t)
      /\ UNCHANGED <<invite, made, joined, granted, met, torn, crossed>>

Step(t) ==
  \/ \E i \in Invites : Enter(t, i)
  \/ Register(t) \/ Count(t) \/ Save(t) \/ Die(t)
  \/ GrantBegin(t) \/ Grant(t) \/ Attach(t)
  \/ WithdrawBegin(t) \/ Withdraw(t) \/ ToggleBegin(t) \/ Toggle(t)

Next ==
  \/ \E t \in Threads : Step(t)
  \/ \E limit \in Limits : Create(limit)
  \/ \E i \in Invites : Delete(i)
Spec == Init /\ [][Next]_vars

-----------------------------------------------------------------------------
\* The types.
TypeOK ==
  /\ invite \in [Invites -> Rows] /\ made \in 0..MaxInvites
  /\ joined \in [Invites -> 0..MaxGuests]
  /\ request \in {None} \cup Invites
  /\ job \in [Threads -> [op : {"idle", "register", "count", "save", "grant",
                                "attach", "withdraw", "toggle"},
                          inv : {None} \cup Invites, copy : Rows]]
  /\ granted \cup met \cup torn \subseteq Invites /\ crossed \in BOOLEAN

\* No more accounts are made with an invitation than it allows, unless two
\* registrations with it were under way at once, or one of them ended between
\* the account and the count (views/landing/register.py:85).
OnlyMetOrTornOveruse ==
  \A i \in Invites : invite[i].limit < joined[i] => i \in met \cup torn

\* Whoever asked for an invitation has at most one that can be used, unless two
\* admins changed the request at once, or a grant ended between the invitation
\* and the request that is to show it (views/admin/invite.py:168).
OnlyCrossedInviteTwice ==
  Cardinality({i \in granted : Usable(i)}) > 1 => crossed
=============================================================================
