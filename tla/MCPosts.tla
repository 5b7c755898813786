------------------------------ MODULE MCPosts ------------------------------
(***************************************************************************)
(* What becomes of what users post: its copies on other servers, or its    *)
(* place in the feeds of this one.  A behaviour is one of either.          *)
(***************************************************************************)
EXTENDS MCDelivery
CONSTANTS
  bob, film,                  \* bob is of another server
  Scenes, People, Readers,    \* what behaviours are about, the users, those of this server
  Films, Clerks               \* the films, and the workers

-----------------------------------------------------------------------------
(* Statuses: a viewer, an author here and one elsewhere, two statuses. *)
VARIABLES
  feeding,    \* is the behaviour one of feeds?
  scene, posted, deleted, st_privacy, st_follows, st_blocks, shelved, filmBlocks,
  feed, st_queue, st_work, st_events, everFollowed

EventKinds == {"post", "delete", "edit", "unboost", "follow", "block", "shelve", "film"}

\* Public statuses that ann and bob write in turn.
Plain(key, n, ordered, kinds, max) ==
  [stream |-> key, n |-> n, inOrder |-> ordered,
   events |-> kinds, maxEvents |-> max, maxLength |-> 9,
   author |-> [s \in 1 .. n |-> IF s % 2 = 1 THEN ann ELSE bob],
   privacy |-> [s \in 1 .. n |-> "public"],
   parent |-> [s \in 1 .. n |-> 0], boosted |-> [s \in 1 .. n |-> 0],
   film |-> [s \in 1 .. n |-> 0], mentions |-> [s \in 1 .. n |-> {}], tagged |-> {}]

\* Tasks in any order and every kind of event: bob boosts a status of ann's
\* about a film, and his boost mentions vera.
Anything ==
  [Plain("home", 2, FALSE, EventKinds, 3) EXCEPT
     !.maxLength = 2, !.boosted[2] = 1, !.film[1] = film, !.mentions[2] = {vera}]

\* In order, a status for ann's followers and an unlisted one of bob's.
HomeFeed ==
  [Plain("home", 2, TRUE, {"post", "delete", "follow", "block"}, 5) EXCEPT
     !.privacy = <<"followers", "unlisted">>]

LocalFeed == Plain("local", 2, TRUE, {"post", "delete", "block"}, 4)

\* A status about a film and a reply to it.
OnAFilm ==
  [Plain("films", 2, TRUE, {"post", "shelve", "follow"}, 5) EXCEPT
     !.parent[2] = 1, !.film[1] = film]

TheScenes == {Anything, HomeFeed, LocalFeed, OnAFilm}

Feeds == INSTANCE ActivityStreams WITH
  Users <- People, Locals <- Readers, Workers <- Clerks, privacy <- st_privacy,
  follows <- st_follows, blocks <- st_blocks, queue <- st_queue, work <- st_work,
  events <- st_events
statusVars == <<scene, posted, deleted, st_privacy, st_follows, st_blocks, shelved,
                filmBlocks, feed, st_queue, st_work, st_events, everFollowed>>

\* Feeds are exact in scenes in order only if these are Orderly.  What is about no
\* film has 0 for it.
ASSUME SceneAssumption ==
  /\ Readers \subseteq People /\ 0 \notin Films
  /\ \A c \in Scenes : Feeds!IsScene(c) /\ c.maxLength # 0 /\ (c.inOrder => Feeds!Orderly(c))

-----------------------------------------------------------------------------
MCInit ==
  /\ feeding \in BOOLEAN
  /\ Init /\ Feeds!Init
  /\ IF feeding THEN follows = {} /\ inOrder /\ thing = "list"
     ELSE scene = CHOOSE c \in Scenes : TRUE

MCNext ==
  /\ UNCHANGED feeding
  /\ \/ ~feeding /\ Next /\ UNCHANGED statusVars
     \/ feeding /\ Feeds!Next /\ UNCHANGED vars

postVars == <<feeding, vars, statusVars>>
MCSpec == MCInit /\ [][MCNext]_postVars

-----------------------------------------------------------------------------
\* The types of statuses and feeds.
TypesOK == feeding => Feeds!TypeOK

\* Nobody's home feed holds a status of an author whom they have never followed;
\* and when tasks keep their order and are done, feeds hold what their readers
\* may see, as far as FeedsAreExact says (activitystreams.py:454, 63).
FeedsAreExact == feeding => Feeds!OnlyEverFollowed /\ Feeds!FeedsAreExact
=============================================================================
