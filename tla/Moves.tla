-------------------------------- MODULE Moves --------------------------------
(***************************************************************************)
(* Accounts that move.  A user of one server lists an account of another   *)
(* as an alias (views/preferences/move_user.py); the user of that account  *)
(* moves to the one that lists it (models/move.py); and the server of      *)
(* somebody who follows them all hears of it (activitypub/verbs.py).  A    *)
(* request finds the other account by asking its server, where it may be   *)
(* told of a third (views/wellknown.py), and writes later.                 *)
(*                                                                         *)
(* Each user is on a server of their own, where nobody follows the others. *)
(* Notifications of a move, and activities that are sent twice when a row  *)
(* gets its remote id, are left out: a delivery may be repeated anyway.    *)
(***************************************************************************)
EXTENDS Naturals, SequencesExt, FiniteSets

CONSTANTS
  Users,
  Workers,      \* web workers
  MaxRequests,  \* MaxRequests[o]: how many requests, when activities arrive in order or not
  Orders        \* may activities be lost or overtaken?  A subset of BOOLEAN

Nowhere == "nowhere"

ASSUME MovesAssumption ==
  Nowhere \notin Users /\ Orders \subseteq BOOLEAN /\ MaxRequests \in [BOOLEAN -> Nat]

VARIABLES
  inOrder,   \* does every activity arrive, after those sent before it?
  aka,       \* aka[u]: also_known_as of u, at home
  movedTo,   \* movedTo[u]: where u has moved, or Nowhere
  moves,     \* the MoveUser rows, as <<id, user, target>>
  job,       \* job[w]: what w does, for whom, with whom, and what it has read
  net,       \* the activities on their way to the followers' server
  far,       \* what that server has for aka, movedTo and moves
  requests,
  listed,    \* history: <<t, u>>: t has listed u, or moved to u
  stale,     \* history: users whose movedTo was replaced by what had been read before
  again,     \* history: users who moved once more without coming back
  back,      \* history: users who came back
  bent,      \* history: users who moved to another account than they asked for
  raced      \* history: users who moved to an account that moved meanwhile

history == <<listed, stale, again, back, bent, raced>>
vars == <<inOrder, aka, movedTo, moves, job, net, far, requests, history>>

Places == Users \cup {Nowhere}
Idle   == [op |-> "idle"]
RowsOf(u) == {m \in moves : m[2] = u}

Init ==
  /\ inOrder \in Orders
  /\ aka = [u \in Users |-> {}] /\ movedTo = [u \in Users |-> Nowhere] /\ moves = {}
  /\ job = [w \in Workers |-> Idle]
  /\ net = <<>>
  /\ far = [aka |-> aka, movedTo |-> movedTo, moves |-> {}]
  /\ requests = 0
  /\ listed = {} /\ stale = {} /\ again = {} /\ back = {} /\ bent = {} /\ raced = {}

Request == requests < MaxRequests[inOrder] /\ requests' = requests + 1

-----------------------------------------------------------------------------
(* Activities *)

Update(u) == [verb |-> "Update", user |-> u, aka |-> aka'[u], movedTo |-> movedTo'[u]]
Move(m)   == [verb |-> "Move", row |-> m]
Undo(m)   == [verb |-> "Undo", row |-> m]

-----------------------------------------------------------------------------
(* Aliases *)

Begins(w, what) ==
  /\ job[w] = Idle
  /\ Request
  /\ job' = [job EXCEPT ![w] = what]
  /\ UNCHANGED <<aka, movedTo, moves, net, far, history>>
Ends(w) == job' = [job EXCEPT ![w] = Idle]

\* AliasUser.post reads the user, and finds the other account, which is known here.
AliasBegin(w, u, v) ==
  Begins(w, [op |-> "alias", user |-> u, with |-> v, copy |-> movedTo[u]])

\* The row is saved as it was read, and broadcast.
Alias(w) ==
  LET u == job[w].user
      v == job[w].with
  IN  /\ job[w].op = "alias"
      /\ aka' = [aka EXCEPT ![u] = @ \cup {v}]
      /\ movedTo' = [movedTo EXCEPT ![u] = job[w].copy]
      /\ net' = Append(net, Update(u))
      /\ Ends(w)
      /\ listed' = listed \cup {<<u, v>>}
      /\ stale' = IF movedTo[u] = job[w].copy THEN stale ELSE stale \cup {u}
      /\ UNCHANGED <<moves, far, requests, again, back, bent, raced>>

\* remove_alias tells nobody.
RemoveAlias(u, v) ==
  /\ v \in aka[u]
  /\ Request
  /\ aka' = [aka EXCEPT ![u] = @ \ {v}]
  /\ UNCHANGED <<movedTo, moves, job, net, far, history>>

-----------------------------------------------------------------------------
(* Moves *)

WebfingerPlain(v) == v    \* (Mutant: it answers with what was asked for.)
\* webfinger answers with the account that the one asked for has moved to.
Webfinger(v) == IF movedTo[v] = Nowhere THEN v ELSE movedTo[v]

\* MoveUser.post looks for the target, and fetches it anew.
MoveBegin(w, u, v) ==
  LET t == Webfinger(v)
  IN  Begins(w, [op |-> "move", id |-> requests', user |-> u, with |-> t, asked |-> v,
                    copy |-> movedTo[t], allowed |-> u \in aka[t]])

MayMoveAnyhow(w) == TRUE    \* (Mutant: the target is not asked.)
\* "Only allow if the source is listed in the target's alsoKnownAs."
MayMove(w) == job[w].allowed

\* models.MoveUser.save.  To save the user broadcasts an Update.
MoveEnd(w) ==
  LET u == job[w].user
      t == job[w].with
      m == <<job[w].id, u, t>>
  IN  /\ job[w].op = "move" /\ MayMove(w)
      /\ aka' = [aka EXCEPT ![u] = @ \cup {t}]
      /\ movedTo' = [movedTo EXCEPT ![u] = t]
      /\ moves' = moves \cup {m}
      /\ net' = net \o <<Update(u), Move(m)>>
      /\ Ends(w)
      /\ listed' = listed \cup {<<u, t>>}
      /\ again' = IF RowsOf(u) = {} THEN again ELSE again \cup {u}
      /\ bent' = IF t = job[w].asked THEN bent ELSE bent \cup {u}
      /\ raced' = IF movedTo[t] = job[w].copy THEN raced ELSE raced \cup {u}
      /\ UNCHANGED <<far, requests, stale, back>>

\* PermissionDenied
Denied(w) ==
  /\ job[w].op = "move" /\ ~MayMove(w)
  /\ Ends(w)
  /\ UNCHANGED <<aka, movedTo, moves, net, far, requests, history>>

FarewellInSilence(u, m) == <<Update(u)>>    \* (Mutant: the row goes in silence.)
Farewell(u, m) == <<Undo(m), Update(u)>>

\* unmove gets the one row for the target that the page names, which may be an
\* earlier one, and fails if there are two.
TheRow(u, m) == {x \in RowsOf(u) : x[3] = m[3]} = {m}

UnmoveOnly(u, m) ==    \* (Mutant: the row stays.)
  /\ TheRow(u, m)
  /\ Request
  /\ movedTo' = [movedTo EXCEPT ![u] = Nowhere] /\ aka' = aka
  /\ net' = net \o Farewell(u, m)
  /\ back' = back \cup {u}
  /\ UNCHANGED <<moves, job, far, listed, stale, again, bent, raced>>
Unmove(u, m) ==
  /\ TheRow(u, m)
  /\ Request
  /\ moves' = moves \ {m}
  /\ movedTo' = [movedTo EXCEPT ![u] = Nowhere] /\ aka' = aka
  /\ net' = net \o Farewell(u, m)
  /\ back' = back \cup {u}
  /\ UNCHANGED <<job, far, listed, stale, again, bent, raced>>

-----------------------------------------------------------------------------
(* The followers' server *)

\* set_field_from_activity passes over a movedTo that is not there.
Updated(a, f) ==
  [aka     |-> [f.aka EXCEPT ![a.user] = a.aka],
   movedTo |-> [f.movedTo EXCEPT ![a.user] = IF a.movedTo = Nowhere THEN @ ELSE a.movedTo],
   moves   |-> f.moves]

\* Move.action, which saves a MoveUser as the home of the user did.
Moved(m, f) ==
  IF m[2] \in f.aka[m[3]]
  THEN [aka     |-> [f.aka EXCEPT ![m[2]] = @ \cup {m[3]}],
        movedTo |-> [f.movedTo EXCEPT ![m[2]] = m[3]],
        moves   |-> f.moves \cup {m}]
  ELSE f

\* Undo.action deletes the row.
After(a, f) ==
  CASE a.verb = "Update" -> Updated(a, f)
    [] a.verb = "Move"   -> Moved(a.row, f)
    [] a.verb = "Undo"   -> [f EXCEPT !.moves = @ \ {a.row}]

Deliver(i, repeated) ==
  /\ inOrder => i = 1 /\ ~repeated
  /\ far' = After(net[i], far)
  /\ net' = IF repeated THEN net ELSE RemoveAt(net, i)
  /\ UNCHANGED <<aka, movedTo, moves, job, requests, history>>
Lose(i) ==
  /\ ~inOrder
  /\ net' = RemoveAt(net, i)
  /\ UNCHANGED <<aka, movedTo, moves, job, far, requests, history>>

Next ==
  /\ UNCHANGED inOrder
  /\ \/ \E w \in Workers : \/ Alias(w) \/ MoveEnd(w) \/ Denied(w)
                           \/ \E u, v \in Users : AliasBegin(w, u, v) \/ MoveBegin(w, u, v)
     \/ \E u, v \in Users : RemoveAlias(u, v)
     \/ \E u \in Users : \E m \in moves : Unmove(u, m)
     \/ \E i \in DOMAIN net : (\E repeated \in BOOLEAN : Deliver(i, repeated)) \/ Lose(i)

Spec == Init /\ [][Next]_vars
-----------------------------------------------------------------------------
Rows == (1 .. MaxRequests[inOrder]) \X Users \X Users
Jobs ==
  {Idle} \cup [op : {"alias"}, user : Users, with : Users, copy : Places]
  \cup [op : {"move"}, id : 1 .. MaxRequests[inOrder], user : Users, with : Users,
        asked : Users, copy : Places, allowed : BOOLEAN]
Activities ==
  [verb : {"Update"}, user : Users, aka : SUBSET Users, movedTo : Places]
  \cup [verb : {"Move", "Undo"}, row : Rows]

\* The types; and everything that is known of a move is of one that was made.
TypeOK ==
  /\ inOrder \in Orders
  /\ aka \in [Users -> SUBSET Users] /\ movedTo \in [Users -> Places]
  /\ moves \subseteq Rows
  /\ job \in [Workers -> Jobs]
  /\ net \in Seq(Activities)
  /\ far \in [aka : [Users -> SUBSET Users], movedTo : [Users -> Places], moves : SUBSET Rows]
  /\ requests \in 0 .. MaxRequests[inOrder]
  /\ listed \subseteq Users \X Users
  /\ stale \cup again \cup back \cup bent \cup raced \subseteq Users

\* "Only allow if the source is listed in the target's alsoKnownAs"
\* (models/move.py:51): whatever is lost, repeated or late, no server says of an
\* account that it has moved to one whose user has neither listed it nor moved
\* to it themselves.
Agreed(f) == \A u \in Users : f[u] # Nowhere => <<f[u], u>> \in listed
OnlyAgreedMoves == Agreed(movedTo) /\ Agreed(far.movedTo)

\* A user who has moved has one row for it, without which unmove does not let
\* them come back, and a user who has not has none; unless they moved again
\* without coming back, or an alias was saved with an old copy of them
\* (views/preferences/move_user.py:105, 82).
OnlyRepeatedMovesBind ==
  \A u \in Users \ (again \cup stale) :
    /\ {m[3] : m \in RowsOf(u)} = {movedTo[u]} \ {Nowhere}
    /\ Cardinality(RowsOf(u)) <= 1

\* Whoever follows accounts from one to the next comes to one that has not moved,
\* unless somebody has listed themselves, was sent on to another account than
\* they asked for, or moved to one that moved meanwhile, or a row was saved with
\* an old copy (views/wellknown.py:26).
OnlyBentMovesLoop ==
  (\E S \in (SUBSET Users) \ {{}} : \A u \in S : movedTo[u] \in S)
  => bent \cup raced \cup stale # {} \/ \E u \in Users : <<u, u>> \in listed

\* When all has arrived in order, the followers' server has no row of a move that
\* was undone, and says of everybody where they are, but of those who came back
\* or whose row was saved with an old copy (models/fields.py:91).
FollowersKnow ==
  inOrder /\ net = <<>> =>
    /\ far.moves \subseteq moves
    /\ \A u \in Users \ (back \cup stale) : far.movedTo[u] = movedTo[u]

\* Who has moved can come back, is found by those who look for them, and is where
\* their followers think they are, unless they did as the three parts of this say
\* (views/preferences/move_user.py:105, views/wellknown.py:26, models/fields.py:91).
OnlyOddMovesMislead == OnlyRepeatedMovesBind /\ OnlyBentMovesLoop /\ FollowersKnow
=============================================================================
