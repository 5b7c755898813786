----------------------------- MODULE Visibility -----------------------------
(***************************************************************************)
(* Who may see what.  The code decides it twice: raise_visible_to_user when *)
(* one object is opened, privacy_filter when objects are selected for a    *)
(* page, a search or a stream.  The kinds of object differ: a status has   *)
(* users it mentions, a group has members, and a list those of its group.  *)
(*                                                                         *)
(* An object is a record [kind, owner, privacy, with], where "with" are    *)
(* the users mentioned or the members.  Follows and blocks are sets of     *)
(* pairs <<subject, object>>.                                              *)
(***************************************************************************)
EXTENDS FiniteSets

Kinds     == {"status", "list", "group", "shelf"}
Privacies == {"public", "unlisted", "followers", "direct"}
Anonymous == "nobody who is logged in"

Objects(Users) == [kind : Kinds, owner : Users, privacy : Privacies, with : SUBSET Users]

Owns(v, o)            == v = o.owner
Follows(v, o, follows) == <<v, o.owner>> \in follows
Named(v, o)           == o.kind # "shelf" /\ v \in o.with
BlockedBy(v, o, blocks) == <<o.owner, v>> \in blocks
Blocking(v, o, blocks)  == <<v, o.owner>> \in blocks

-----------------------------------------------------------------------------
OpensToBlocked(v, o, follows, blocks) ==    \* (Mutant: blocks are not looked at.)
  \/ Owns(v, o)
  \/ o.privacy \in {"public", "unlisted"}
  \/ o.privacy = "followers" /\ Follows(v, o, follows)
  \/ Named(v, o)

\* raise_visible_to_user does not raise.  A mention opens private statuses
\* only; a membership is the last thing it looks at.
Opens(v, o, follows, blocks) ==
  /\ ~BlockedBy(v, o, blocks)
  /\ \/ Owns(v, o)
     \/ o.privacy \in {"public", "unlisted"}
     \/ o.privacy = "followers" /\ Follows(v, o, follows)
     \/ Named(v, o)

\* followers_filter keeps o: of the base model, and as Status, List and Group
\* override it.
FollowersFilter(v, o, follows) ==
  o.privacy = "followers" => Follows(v, o, follows) \/ Owns(v, o) \/ Named(v, o)

DirectFilterOfAll(v, o) == TRUE    \* (Mutant: the levels do without it.)

\* direct_filter keeps o.  That of groups does not mention the owner.
DirectFilter(v, o) ==
  o.privacy = "direct" => Named(v, o) \/ (o.kind # "group" /\ Owns(v, o))

\* privacy_filter keeps o.  A visitor who is not logged in has no blocks and
\* never gets to the two levels that depend on who asks.
Selects(v, o, levels, follows, blocks) ==
  LET seen == IF v = Anonymous THEN levels \ {"followers", "direct"} ELSE levels
  IN  /\ ~BlockedBy(v, o, blocks) /\ ~Blocking(v, o, blocks)
      /\ o.privacy \in seen
      /\ "followers" \in seen => FollowersFilter(v, o, follows)
      /\ "direct" \in seen => DirectFilter(v, o)

-----------------------------------------------------------------------------
\* What a page lists it can open, whatever the object and the levels; and what
\* it can open it lists, unless the viewer blocks its owner, or owns a private
\* group without being in it.
PagesAgree(v, o, follows, blocks) ==
  /\ \A levels \in SUBSET Privacies :
       Selects(v, o, levels, follows, blocks) => Opens(v, o, follows, blocks)
  /\ Opens(v, o, follows, blocks) =>
       \/ Selects(v, o, Privacies, follows, blocks)
       \/ Blocking(v, o, blocks)
       \/ o.kind = "group" /\ o.privacy = "direct" /\ Owns(v, o) /\ ~Named(v, o)
=============================================================================
