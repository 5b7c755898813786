------------------------------ MODULE Delivery ------------------------------
(***************************************************************************)
(* One object of a local user and its copies on other servers: whom the    *)
(* activities about it are sent to (activitypub_mixin.py), how they tell   *)
(* who may see it (fields.py), and what the receiving server, which runs   *)
(* this software too, makes of them (base_activity.py, verbs.py, note.py). *)
(*                                                                         *)
(* The object is a list, a comment, or a reply.  A comment has two forms:  *)
(* its own, and a Note for other software; a reply is a Note.  Activities  *)
(* may be delivered twice, lost, or overtaken by later ones.  Relations    *)
(* of users are known to both servers at once: FollowProtocol has them.    *)
(***************************************************************************)
EXTENDS Naturals, SequencesExt, Visibility

CONSTANTS
  Users,     \* of other servers
  Servers,
  At,        \* At[u]: the server of user u
  Author,    \* the local user whose object it is
  ParentAt,  \* the servers that have the status that a reply answers
  Things,    \* the things to try: "list", "comment" or "reply"
  MaxEvents, \* MaxEvents[o]: how many events, when activities arrive in order or not
  Orders     \* may activities be lost or overtaken?  A subset of BOOLEAN

Public    == "https://www.w3.org/ns/activitystreams#Public"
Followers == "the followers link of the author"

ASSUME DeliveryAssumption ==
  /\ At \in [Users -> Servers] /\ {Author, Public, Followers} \cap Users = {}
  /\ Things \subseteq {"list", "comment", "reply"} /\ MaxEvents \in [BOOLEAN -> Nat]
  /\ Orders \subseteq BOOLEAN

VARIABLES
  inOrder,  \* does every activity arrive, after those sent before it?
  thing,
  state, privacy, with, version, \* the object: none, there or gone; with is whom it mentions
  follows, blocks,               \* pairs <<subject, object>> of Author and Users
  net,      \* net[s]: the activities on their way to server s
  copies,   \* copies[s]: the rows of s for the object, by the form they came in
  events,
  named,    \* history: the servers of those whom the first version mentions
  leftOut,  \* history: the servers that some activity was not sent to
  recast,   \* history: has the privacy of a list changed?
  mayHave   \* history: mayHave[n]: servers with a user who might see version n

object == <<state, privacy, with, version>>
history == <<named, leftOut, recast, mayHave>>
vars == <<inOrder, thing, object, follows, blocks, net, copies, events, history>>

Versions == 1 .. MaxEvents[inOrder]

-----------------------------------------------------------------------------
(* Privacy on its way: PrivacyField *)

To(p, W) ==
  CASE p = "public" -> {Public}
    [] p \in {"unlisted", "followers"} -> {Followers}
    [] OTHER -> W
Cc(p, W) ==
  CASE p = "public" -> {Followers} \cup W
    [] p = "unlisted" -> {Public} \cup W
    [] p = "followers" -> W
    [] OTHER -> {}

PrivacyByTo(to, cc) ==    \* (Mutant: cc is not looked at.)
  IF to = {Public} THEN "public" ELSE IF to = {Followers} THEN "followers" ELSE "direct"
PrivacyOf(to, cc) ==
  IF to = {Public} THEN "public"
  ELSE IF Public \in cc THEN "unlisted"
  ELSE IF to # {Followers} /\ cc = {} THEN "direct"
  ELSE "followers"

-----------------------------------------------------------------------------
(* To whom: Status.recipients and get_recipients *)

Homes(U) == {At[u] : u \in U}
Hearing  == {u \in Users : <<u, Author>> \in follows /\ <<u, Author>> \notin blocks}

RecipientsOfAll(p, W) == Homes(W) \cup Homes(Hearing)    \* (Mutant: as if public.)
Recipients(p, W) == Homes(W) \cup (IF p = "direct" THEN {} ELSE Homes(Hearing))

Activity(verb, form, p, W, n) ==
  [verb |-> verb, form |-> form, to |-> To(p, W), cc |-> Cc(p, W), with |-> W, version |-> n]
OwnForm == IF thing = "reply" THEN "note" ELSE "own"

\* ObjectMixin.save: the Note goes to those whom it mentions, whatever they run,
\* and before the own form.
FirstSent(s, p, W) ==
  (IF thing = "comment" /\ s \in Homes(W) THEN <<Activity("Create", "note", p, W, 1)>> ELSE <<>>)
  \o (IF s \in Recipients(p, W) THEN <<Activity("Create", OwnForm, p, W, 1)>> ELSE <<>>)
Sent(s, verb, p, W, n) ==
  IF s \in Recipients(p, W) THEN <<Activity(verb, OwnForm, p, W, n)>> ELSE <<>>

-----------------------------------------------------------------------------
(* What becomes of it: to_model, as the rows of server s after activity a *)

NoRow == [state |-> "none", privacy |-> "public", with |-> {}, version |-> 0]
Written(a, st, p) == [state |-> st, privacy |-> p, with |-> a.with, version |-> a.version]
Rows(note, own) == [note |-> note, own |-> own]
There(r) == r.state # "none"

\* Status.ignore_activity: a Note that is of no concern here.
Ignores(s, a) ==
  /\ a.form = "note"
  /\ s \notin Homes(a.with)
  /\ ~(thing = "reply" /\ s \in ParentAt)

\* set_field_from_activity of a PrivacyField returns whether the value is the
\* same, and only fields that return TRUE are saved.  A status is saved again
\* with its tags, a list is not.
\* (Mutant: neither is.)
StoredOnce(a, r) == IF There(r) THEN r.privacy ELSE PrivacyOf(a.to, a.cc)
Stored(a, r) ==
  IF There(r) /\ thing = "list" THEN r.privacy ELSE PrivacyOf(a.to, a.cc)

Set(a, r) == Written(a, IF There(r) THEN r.state ELSE "there", Stored(a, r))

\* A Note finds a comment that came in its own form, and fails for want of a
\* film; the own form does not find what came as a Note.
Created(s, a, c) ==
  CASE a.form = "own" -> {Rows(c.note, Set(a, c.own))}
    [] Ignores(s, a)  -> {c}
    [] OTHER -> (IF There(c.own) THEN {c} ELSE {})
                \cup (IF There(c.own) /\ ~There(c.note) THEN {}
                      ELSE {Rows(Set(a, c.note), c.own)})
Updated(a, c) ==
  CASE a.form = "own"  -> Rows(c.note, IF There(c.own) THEN Set(a, c.own) ELSE NoRow)
    [] a.form = "note" -> Rows(IF There(c.note) THEN Set(a, c.note) ELSE NoRow, c.own)
\* Delete finds one row by the remote id: a status becomes a tombstone, a list
\* goes.
Ended(r) == IF thing = "list" \/ ~There(r) THEN NoRow ELSE [r EXCEPT !.state = "gone"]
Deleted(c) ==
  IF There(c.note) /\ There(c.own) THEN {Rows(Ended(c.note), c.own), Rows(c.note, Ended(c.own))}
  ELSE {Rows(Ended(c.note), Ended(c.own))}

After(s, a, c) ==
  CASE a.verb = "Create" -> Created(s, a, c)
    [] a.verb = "Update" -> {Updated(a, c)}
    [] a.verb = "Delete" -> Deleted(c)

-----------------------------------------------------------------------------
Object(p, W) == [kind |-> IF thing = "list" THEN "list" ELSE "status",
                 owner |-> Author, privacy |-> p, with |-> W]
\* The servers of those who may open the object as it is now, or are mentioned.
MayHave == {At[u] : u \in {v \in Users : \/ v \in with
                                         \/ Opens(v, Object(privacy, with), follows, blocks)}}

Init ==
  /\ inOrder \in Orders
  /\ thing \in Things
  /\ state = "none" /\ privacy = "public" /\ with = {} /\ version = 0
  /\ follows \in SUBSET (Users \X {Author}) /\ blocks = {}
  /\ net = [s \in Servers |-> <<>>]
  /\ copies = [s \in Servers |-> Rows(NoRow, NoRow)]
  /\ events = 0
  /\ named = {} /\ leftOut = {} /\ recast = FALSE
  /\ mayHave = [n \in Versions |-> {}]

Event == events < MaxEvents[inOrder] /\ events' = events + 1
Leaves(p, W) == leftOut' = leftOut \cup (Servers \ Recipients(p, W))

\* CreateStatus and the forms of lists.  find_mentions passes over those who
\* block the author.
Create(p, W) ==
  /\ state = "none"
  /\ Event
  /\ \A u \in W : <<u, Author>> \notin blocks
  /\ thing = "list" => W = {}
  /\ state' = "there" /\ privacy' = p /\ with' = W /\ version' = 1
  /\ net' = [s \in Servers |-> net[s] \o FirstSent(s, p, W)]
  /\ named' = Homes(W) /\ Leaves(p, W)
  /\ UNCHANGED <<follows, blocks, copies, recast>>
  /\ mayHave' = [mayHave EXCEPT ![1] = MayHave']

\* The same form for a status that exists: mentions are added and not taken away.
Edit(p, W) ==
  /\ state = "there"
  /\ Event
  /\ \A u \in W \ with : <<u, Author>> \notin blocks
  /\ thing = "list" => W = {}
  /\ with \subseteq W
  /\ privacy' = p /\ with' = W /\ version' = version + 1
  /\ net' = [s \in Servers |-> net[s] \o Sent(s, "Update", p, W, version')]
  /\ recast' = (recast \/ (thing = "list" /\ p # privacy))
  /\ Leaves(p, W)
  /\ UNCHANGED <<state, follows, blocks, copies, named>>
  /\ mayHave' = [mayHave EXCEPT ![version'] = MayHave']

\* DeleteStatus and delete_list.  (Mutant: nobody is told.)
DeleteQuietly ==
  /\ state = "there"
  /\ Event
  /\ state' = "gone"
  /\ Leaves(privacy, with)
  /\ UNCHANGED <<privacy, with, version, follows, blocks, net, copies, named, recast, mayHave>>
Delete ==
  /\ state = "there"
  /\ Event
  /\ state' = "gone"
  /\ net' = [s \in Servers |-> net[s] \o Sent(s, "Delete", privacy, with, version)]
  /\ Leaves(privacy, with)
  /\ UNCHANGED <<privacy, with, version, follows, blocks, copies, named, recast, mayHave>>

\* A follow that is granted, one that ends, and blocks, which end it.
Pairs(u) == {<<u, Author>>, <<Author, u>>}
Relate(F, B) ==
  /\ Event
  /\ follows' = F /\ blocks' = B
  /\ UNCHANGED <<object, net, copies, history>>
Follow(u)   == blocks \cap Pairs(u) = {} /\ Relate(follows \cup {<<u, Author>>}, blocks)
Unfollow(u) == <<u, Author>> \in follows /\ Relate(follows \ Pairs(u), blocks)
Block(u)    == \E p \in Pairs(u) \ blocks : Relate(follows \ Pairs(u), blocks \cup {p})
Unblock(u)  == \E p \in Pairs(u) \cap blocks : Relate(follows, blocks \ {p})

\* sign_and_send, to an inbox that answers, or whose answer is lost: it is sent
\* again.  One that times out is not, and tasks of two workers may change places.
Deliver(s, i, again) ==
  /\ inOrder => i = 1
  /\ \E c \in After(s, net[s][i], copies[s]) : copies' = [copies EXCEPT ![s] = c]
  /\ net' = IF again THEN net ELSE [net EXCEPT ![s] = RemoveAt(@, i)]
  /\ UNCHANGED <<object, follows, blocks, events, history>>
Lose(s, i) ==
  /\ ~inOrder
  /\ net' = [net EXCEPT ![s] = RemoveAt(@, i)]
  /\ UNCHANGED <<object, follows, blocks, copies, events, history>>

Next ==
  /\ UNCHANGED <<inOrder, thing>>
  /\ \/ \E p \in Privacies, W \in SUBSET Users : Create(p, W) \/ Edit(p, W)
     \/ Delete
     \/ \E u \in Users : Follow(u) \/ Unfollow(u) \/ Block(u) \/ Unblock(u)
     \/ \E s \in Servers : \E i \in DOMAIN net[s] :
          (\E again \in BOOLEAN : Deliver(s, i, again)) \/ Lose(s, i)

Spec == Init /\ [][Next]_vars
-----------------------------------------------------------------------------
Row == [state : {"none", "there", "gone"}, privacy : Privacies,
        with : SUBSET Users, version : 0 .. MaxEvents[inOrder]]
Activities == [verb : {"Create", "Update", "Delete"}, form : {"note", "own"},
               to : SUBSET (Users \cup {Public, Followers}),
               cc : SUBSET (Users \cup {Public, Followers}),
               with : SUBSET Users, version : Versions]

\* Types; a version for every event at most, and a follow beside no block.
TypeOK ==
  /\ inOrder \in Orders /\ thing \in Things
  /\ state \in {"none", "there", "gone"} /\ privacy \in Privacies /\ with \subseteq Users
  /\ version \in 0 .. events /\ events \in 0 .. MaxEvents[inOrder]
  /\ (version = 0) <=> (state = "none")
  /\ follows \subseteq Users \X {Author}
  /\ blocks \subseteq UNION {Pairs(u) : u \in Users}
  /\ \A u \in Users : <<u, Author>> \in follows => blocks \cap Pairs(u) = {}
  /\ net \in [Servers -> Seq(Activities)]
  /\ copies \in [Servers -> [note : Row, own : Row]]
  /\ mayHave \in [Versions -> SUBSET Servers]
  /\ named \subseteq Servers /\ leftOut \subseteq Servers
  /\ recast \in BOOLEAN

\* No version of the object is sent to a server, or is in a row there, without
\* somebody there who could open it when it was written, or whom it mentions.
NoServerHearsInVain ==
  \A s \in Servers :
    /\ \A i \in DOMAIN net[s] : s \in mayHave[net[s][i].version]
       \/ net[s][i].verb = "Delete"
    /\ \A r \in {copies[s].note, copies[s].own} : There(r) => s \in mayHave[r.version]

\* What user u is shown of a row that says this: the version, or nothing.
Shown(u, st, p, W, n) ==
  IF st = "there" /\ Selects(u, Object(p, W), Privacies, follows, blocks) THEN {n} ELSE {}
ShownAt(u) ==
  UNION {IF There(r) THEN Shown(u, r.state, r.privacy, r.with, r.version) ELSE {} :
           r \in {copies[At[u]].note, copies[At[u]].own}}

\* When everything has arrived at a server, in order and some of it twice, its
\* users are shown what they would be shown here, unless it was passed over
\* (nobody there followed or was mentioned), had no use for a reply, has a
\* comment in two forms, or a list whose privacy has changed.
CopiesAreExact ==
  \A u \in Users :
    LET s == At[u] IN
    (inOrder /\ net[s] = <<>> /\ s \notin leftOut /\ ~recast /\ ~(thing = "comment" /\ s \in named))
    => ShownAt(u) = IF thing = "reply" /\ s \notin ParentAt \cup named THEN {}
                    ELSE Shown(u, state, privacy, with, version)

\* find_existing compares data by what "can be used for deduplication.  This
\* always includes remote_id": a server has one row for the object.
OneRowEach == \A s \in Servers : ~(There(copies[s].note) /\ There(copies[s].own))

\* The fields that an activity changes are saved: when all has arrived in order,
\* a copy has the privacy of the object.
CopiesHaveThePrivacy ==
  \A s \in Servers :
    (inOrder /\ net[s] = <<>> /\ s \notin leftOut /\ There(copies[s].own))
    => copies[s].own.privacy = privacy
=============================================================================
