------------------------------ MODULE Accounts ------------------------------
(***************************************************************************)
(* The life of an account: registered, confirmed, suspended, deactivated,  *)
(* reactivated, deleted; of another server: discovered, linked to its      *)
(* server, shut out with it and let in again.  models/user.py and the      *)
(* views that change is_active, is_deleted, deactivation_reason and        *)
(* allow_reactivation, with the activities an inbox has accepted.          *)
(*                                                                         *)
(* A request or task reads an account in one step and writes it in a later *)
(* one.  save() without update_fields writes every field back as it was    *)
(* read, so that what others wrote in between is lost.                     *)
(***************************************************************************)
EXTENDS Naturals, FiniteSets

CONSTANTS Locals,     \* users of this server
          Remotes,    \* users of one other server
          Threads     \* web and task workers

Users == Locals \cup Remotes
None  == "none"

VARIABLES
  cast,     \* the accounts of the behaviour: those of one of the servers
  row,      \* row[u]: the account as the database has it
  posts,    \* users who have a status that is not deleted
  blocked,  \* is the other server's status "blocked"?
  confirm,  \* require_confirm_email of the site
  inbox,    \* accepted activities and queued tasks about remote users
  job,      \* job[t]: what t works on, with the account as t has read it
  stale,    \* threads whose account has been changed since they read it
  held,     \* history: remote users suspended, and not unsuspended since
  torn      \* history: has something been written on the strength of what was
            \* not true any more, or have two changes of many accounts overlapped?

vars == <<cast, row, posts, blocked, confirm, inbox, job, stale, held, torn>>

Reasons == {None, "pending", "self_deactivation", "moderator_suspension",
            "self_deletion", "moderator_deletion", "domain_block"}
Rows == [known : BOOLEAN, active : BOOLEAN, deleted : BOOLEAN,
         reason : Reasons, allow : BOOLEAN, linked : BOOLEAN]

Unknown == [known |-> FALSE, active |-> FALSE, deleted |-> FALSE,
            reason |-> None, allow |-> FALSE, linked |-> FALSE]
Fresh   == [Unknown EXCEPT !.known = TRUE, !.active = TRUE]

Idle    == [op |-> "idle", user |-> None, copy |-> Unknown, reason |-> None]
Busy(u) == {t \in Threads : job[t].user = u}

Init ==
  /\ cast \in {Locals, Remotes}
  /\ row = [u \in Users |-> Unknown]
  /\ posts = {} /\ blocked = FALSE /\ confirm \in BOOLEAN
  /\ inbox = {}
  /\ job = [t \in Threads |-> Idle]
  /\ stale = {} /\ held = {} /\ torn = FALSE

-----------------------------------------------------------------------------
Begin(t, op, u, why) ==
  /\ job[t] = Idle
  /\ job' = [job EXCEPT ![t] = [op |-> op, user |-> u, reason |-> why,
                                copy |-> IF u = None THEN Unknown ELSE row[u]]]

On(t, op) == job[t].op = op
Goes(t, op) == job' = [job EXCEPT ![t].op = op]
Ends(t) == job' = [job EXCEPT ![t] = Idle]

\* t commits these accounts; whoever has read one of them holds a stale copy.
Commit(t, rows) ==
  /\ row' = rows
  /\ stale' = (stale \cup UNION {Busy(u) : u \in {v \in Users : rows[v] # row[v]}}) \ {t}

\* save(update_fields = ...): the fields that f gives, the rest as it is now.
SaveSome(t, u, r) == Commit(t, [row EXCEPT ![u] = r])
\* save(): every field, the rest as t has read it.
SaveAll(t, r) == Commit(t, [row EXCEPT ![job[t].user] = r])

Quits(t) == stale' = stale \ {t} /\ Ends(t)

-----------------------------------------------------------------------------
(* Local users *)

\* Register.post reads the settings, and creates the account later.
RegisterBegin(t, u) ==
  /\ u \in Locals \cap cast /\ ~row[u].known
  /\ \A x \in Threads : job[x].user # u
  /\ Begin(t, IF confirm THEN "register_pending" ELSE "register", u, None)
  /\ UNCHANGED <<row, posts, blocked, confirm, inbox, stale, held>>

Register(t) ==
  /\ On(t, "register") \/ On(t, "register_pending")
  /\ SaveAll(t, IF On(t, "register") THEN Fresh
                ELSE [Fresh EXCEPT !.active = FALSE, !.reason = "pending", !.allow = TRUE])
  /\ Ends(t)
  /\ UNCHANGED <<posts, blocked, confirm, inbox, held>>

\* What leads to User.reactivate: the code that was mailed, a moderator's
\* button or the command confirm_email, and the password, which no deleted
\* account has any more.
ReactivateBegin(t, u) ==
  /\ \/ u \in Locals /\ confirm /\ row[u].reason = "pending"
     \/ u \in Locals /\ row[u].known /\ ~row[u].deleted
  /\ Begin(t, "reactivate", u, None)
  /\ UNCHANGED <<row, posts, blocked, confirm, inbox, stale, held>>

\* It looks at the flag as it was read, and writes three fields.
MayReactivate(r) == r.allow
Reactivate(t) ==
  LET u == job[t].user
  IN  /\ On(t, "reactivate")
      /\ IF MayReactivate(job[t].copy)
           THEN /\ SaveSome(t, u, [row[u] EXCEPT !.active = TRUE, !.reason = None,
                                                 !.allow = FALSE])
                /\ Ends(t)
           ELSE Quits(t) /\ UNCHANGED row
      /\ UNCHANGED <<posts, blocked, confirm, inbox, held>>

\* Requests that need a session, which an inactive account does not have.
SessionBegin(t, u) ==
  /\ u \in Locals /\ row[u].active
  /\ \/ Begin(t, "deactivate", u, None)
     \/ Begin(t, "edit", u, None)
     \/ Begin(t, "post", u, None)
     \/ Begin(t, "delete", u, "self_deletion")
  /\ UNCHANGED <<row, posts, blocked, confirm, inbox, stale, held>>

DeactivateOddly(t) ==   \* (Mutant: a reason that no code knows.)
  /\ On(t, "deactivate")
  /\ SaveAll(t, [job[t].copy EXCEPT !.active = FALSE, !.allow = TRUE,
                                    !.reason = "deactivation"])
  /\ Ends(t)
  /\ UNCHANGED <<posts, blocked, confirm, inbox, held>>

\* User.deactivate
Deactivate(t) ==
  /\ On(t, "deactivate")
  /\ SaveAll(t, [job[t].copy EXCEPT !.active = FALSE, !.allow = TRUE,
                                    !.reason = "self_deactivation"])
  /\ Ends(t)
  /\ UNCHANGED <<posts, blocked, confirm, inbox, held>>

\* The profile form, and joining the directory.
Edit(t) ==
  /\ On(t, "edit")
  /\ SaveAll(t, job[t].copy)
  /\ Ends(t)
  /\ UNCHANGED <<posts, blocked, confirm, inbox, held>>

\* A status, by its author's request or by a Create from another server.
Post(t) ==
  /\ On(t, "post")
  /\ posts' = posts \cup {job[t].user}
  /\ Quits(t)
  /\ UNCHANGED <<row, blocked, confirm, inbox, held>>

-----------------------------------------------------------------------------
(* Moderators *)

OfferedAlways(u, r) ==   \* (Mutant: the page forgets that the account is deleted.)
  IF ~r.known THEN {} ELSE {IF r.active THEN "suspend" ELSE "unsuspend", "delete"}

\* user_moderation_actions.html
Offered(u, r) ==
  IF ~r.known \/ (~r.active /\ r.reason = "self_deletion") \/ r.reason = "moderator_deletion"
    THEN {}
    ELSE (IF ~r.active /\ r.reason = "pending" THEN {"reactivate"} ELSE {})
         \cup (IF r.active \/ r.reason = "pending" THEN {"suspend"} ELSE {"unsuspend"})
         \cup (IF u \in Locals THEN {"delete"} ELSE {})

\* A moderator opens the page of an account, and later presses a button that
\* it offered: the request reads the account again.
OpenPage(t, u) ==
  /\ Offered(u, row[u]) # {}
  /\ Begin(t, "page", u, None)
  /\ UNCHANGED <<row, posts, blocked, confirm, inbox, stale, held>>

Press(t) ==
  LET u == job[t].user
  IN  /\ On(t, "page")
      /\ \E op \in Offered(u, job[t].copy) :
           job' = [job EXCEPT ![t] =
                     [op |-> op, user |-> u, copy |-> row[u],
                      reason |-> IF op = "delete" THEN "moderator_deletion" ELSE None]]
      /\ UNCHANGED <<row, posts, blocked, confirm, inbox, stale, held>>

ClosePage(t) ==
  /\ On(t, "page") /\ Quits(t)
  /\ UNCHANGED <<row, posts, blocked, confirm, inbox, held>>

Suspend(t) ==
  /\ On(t, "suspend")
  /\ SaveAll(t, [job[t].copy EXCEPT !.active = FALSE, !.reason = "moderator_suspension"])
  /\ held' = held \cup ({job[t].user} \cap Remotes)
  /\ Ends(t)
  /\ UNCHANGED <<posts, blocked, confirm, inbox>>

Unsuspend(t) ==
  /\ On(t, "unsuspend")
  /\ SaveAll(t, [job[t].copy EXCEPT !.active = TRUE, !.reason = None])
  /\ held' = held \ {job[t].user}
  /\ Ends(t)
  /\ UNCHANGED <<posts, blocked, confirm, inbox>>

\* User.delete erases the statuses one by one before it saves the account,
\* with the reason that the view has set.  A Delete sets none.
Erase(t) ==
  /\ On(t, "delete")
  /\ posts' = posts \ {job[t].user}
  /\ Goes(t, "save_deleted")
  /\ UNCHANGED <<row, blocked, confirm, inbox, stale, held>>

Deleted(r, why) == [r EXCEPT !.active = FALSE, !.allow = FALSE, !.deleted = TRUE,
                             !.reason = IF why = None THEN r.reason ELSE why]
Delete(t) ==
  /\ On(t, "save_deleted")
  /\ SaveAll(t, Deleted(job[t].copy, job[t].reason))
  /\ Ends(t)
  /\ UNCHANGED <<posts, blocked, confirm, inbox, held>>

\* The site form: SiteSettings.save lets in whoever is pending, after it has
\* saved the new setting.
RequireConfirm(t) ==
  /\ ~confirm
  /\ job[t] = Idle
  /\ confirm' = TRUE
  /\ UNCHANGED <<row, posts, blocked, inbox, job, stale, held>>

DropConfirm(t) ==
  /\ confirm
  /\ Begin(t, "activate_pending", None, None)
  /\ confirm' = FALSE
  /\ UNCHANGED <<row, posts, blocked, inbox, stale, held>>

ActivatePendingNone(t) ==      \* (Mutant: pending users are left to wait.)
  /\ On(t, "activate_pending")
  /\ Quits(t)
  /\ UNCHANGED <<row, posts, blocked, confirm, inbox, held>>

ActivatePending(t) ==
  /\ On(t, "activate_pending")
  /\ Commit(t, [u \in Users |->
                  IF ~row[u].active /\ row[u].reason = "pending"
                    THEN [row[u] EXCEPT !.active = TRUE, !.reason = None] ELSE row[u]])
  /\ Ends(t)
  /\ UNCHANGED <<posts, blocked, confirm, inbox, held>>

-----------------------------------------------------------------------------
(* Another server *)

\* An actor is looked up, which no blocked server answers, and saved; which
\* server it is of is found out afterwards.
DiscoverBegin(t, u) ==
  /\ u \in Remotes \cap cast /\ ~row[u].known /\ ~blocked
  /\ \A x \in Threads : job[x].user # u
  /\ Begin(t, "discover", u, None)
  /\ UNCHANGED <<row, posts, blocked, confirm, inbox, stale, held>>

Discover(t) ==
  /\ On(t, "discover")
  /\ SaveAll(t, Fresh)
  /\ inbox' = inbox \cup {<<"link", job[t].user>>}
  /\ Ends(t)
  /\ UNCHANGED <<posts, blocked, confirm, held>>

\* set_remote_server
Link(t, u) ==
  /\ job[t] = Idle
  /\ <<"link", u>> \in inbox
  /\ inbox' = inbox \ {<<"link", u>>}
  /\ SaveSome(t, u, [row[u] EXCEPT !.linked = TRUE])
  /\ UNCHANGED <<posts, blocked, confirm, job, held>>

\* Inbox.post refuses a blocked server and an actor who is not active; what
\* it accepts is worked off later.
Receive(u) ==
  /\ u \in Remotes /\ row[u].active /\ ~blocked
  /\ \E kind \in {"create", "delete"} : inbox' = inbox \cup {<<kind, u>>}
  /\ UNCHANGED <<row, posts, blocked, confirm, job, stale, held>>

WorkBegin(t, u) ==
  /\ \/ /\ <<"create", u>> \in inbox
        /\ inbox' = inbox \ {<<"create", u>>}
        /\ Begin(t, "post", u, None)
     \/ /\ <<"delete", u>> \in inbox
        /\ inbox' = inbox \ {<<"delete", u>>}
        /\ Begin(t, "delete", u, None)
  /\ UNCHANGED <<row, posts, blocked, confirm, stale, held>>

\* FederatedServer.block and unblock save the status first.
ServerBegin(t) ==
  /\ blocked' = ~blocked
  /\ Begin(t, IF blocked THEN "let_in" ELSE "shut_out", None, None)
  /\ UNCHANGED <<row, posts, confirm, inbox, stale, held>>

AllOuted(r) == r.linked              \* (Mutant: inactive ones as well.)
Outed(r) == r.linked /\ r.active
ShutOut(t) ==
  /\ On(t, "shut_out")
  /\ Commit(t, [u \in Users |->
                  IF Outed(row[u])
                    THEN [row[u] EXCEPT !.active = FALSE, !.reason = "domain_block"]
                    ELSE row[u]])
  /\ Ends(t)
  /\ UNCHANGED <<posts, blocked, confirm, inbox, held>>

LetInSome(t) ==       \* (Mutant: the reason is left behind.)
  /\ On(t, "let_in")
  /\ Commit(t, [u \in Users |->
                  IF row[u].linked /\ row[u].reason = "domain_block"
                    THEN [row[u] EXCEPT !.active = TRUE] ELSE row[u]])
  /\ Ends(t)
  /\ UNCHANGED <<posts, blocked, confirm, inbox, held>>

LetIn(t) ==
  /\ On(t, "let_in")
  /\ Commit(t, [u \in Users |->
                  IF row[u].linked /\ row[u].reason = "domain_block"
                    THEN [row[u] EXCEPT !.active = TRUE, !.reason = None] ELSE row[u]])
  /\ Ends(t)
  /\ UNCHANGED <<posts, blocked, confirm, inbox, held>>

-----------------------------------------------------------------------------
Step(t) ==
  \/ Register(t) \/ Reactivate(t) \/ Deactivate(t) \/ Edit(t) \/ Post(t)
  \/ Press(t) \/ ClosePage(t) \/ Suspend(t) \/ Unsuspend(t) \/ Erase(t) \/ Delete(t)
  \/ RequireConfirm(t) \/ DropConfirm(t) \/ ActivatePending(t)
  \/ Discover(t) \/ ServerBegin(t) \/ ShutOut(t) \/ LetIn(t)
  \/ \E u \in Users :
       \/ RegisterBegin(t, u) \/ ReactivateBegin(t, u) \/ SessionBegin(t, u)
       \/ OpenPage(t, u) \/ DiscoverBegin(t, u) \/ Link(t, u) \/ WorkBegin(t, u)

\* t writes after somebody else has written, or writes all accounts at once
\* while somebody else is in the middle of something.
Sweeping == {"activate_pending", "shut_out", "let_in"}
Tearing(t) ==
  /\ job[t] # Idle /\ job'[t] = Idle
  /\ \/ t \in stale /\ row' # row
     \/ job[t].op \in Sweeping /\ \E x \in Threads \ {t} : job[x] # Idle

Next ==
  /\ (\E t \in Threads : Step(t)) \/ (\E u \in Remotes : Receive(u))
  /\ torn' = (torn \/ \E t \in Threads : Tearing(t))
  /\ UNCHANGED cast

Spec == Init /\ [][Next]_vars

-----------------------------------------------------------------------------
\* No account gets a state that the code does not know; only known accounts
\* have statuses; what t holds is stale only while it works.
TypeOK ==
  /\ cast \in {Locals, Remotes}
  /\ row \in [Users -> Rows]
  /\ posts \subseteq {u \in Users : row[u].known}
  /\ held \subseteq Remotes /\ torn \in BOOLEAN
  /\ stale \subseteq {t \in Threads : job[t] # Idle}

\* What the deletion of a local account leaves.  "There's no going back from
\* this", says DeleteUser: whatever brings such an account back, in part or in
\* whole, has read it, or offered to, before it was deleted.
Gone(r) == /\ r.deleted /\ ~r.active
           /\ r.reason \in {"self_deletion", "moderator_deletion"}
OnlyStaleRevives ==
  [][\A u \in Users : Gone(row[u]) /\ ~Gone(row'[u]) =>
       \E t \in stale : job[t].user = u /\ job'[t] = Idle]_vars

\* A remote user whom a moderator has suspended stays suspended while their
\* server is blocked and let in again, until a moderator says otherwise.
HeldStayOut ==
  \A u \in held : row[u].active => row[u].deleted

Settled == \A t \in Threads : job[t].op \notin Sweeping

\* The command that erases deleted users refuses to run when an account is
\* both active and deleted ("Check for anything fishy").
NotBoth == \A u \in Locals : ~(row[u].active /\ row[u].deleted)

\* "if require_confirm_email is disabled, make sure no users are pending":
\* they have no way left to confirm their address.
NobodyIsPending ==
  ~confirm /\ Settled => \A u \in Users : ~row[u].active => row[u].reason # "pending"

\* Once a server is let in, none of its users is shut out on its account.
BlockLeavesNoTrace ==
  ~blocked /\ Settled => \A u \in Users : row[u].linked => row[u].reason # "domain_block"

\* All three fail only where requests tore each other.
OnlyTornContradict == ~torn => NotBoth /\ NobodyIsPending /\ BlockLeavesNoTrace
=============================================================================
