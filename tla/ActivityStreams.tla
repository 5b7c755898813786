-------------------------- MODULE ActivityStreams --------------------------
(***************************************************************************)
(* The feeds that activitystreams.py keeps in Redis: for every local user  *)
(* a bounded set of statuses, ranked by date.  Signals of the database     *)
(* queue tasks; a worker reads the database, and later writes the feeds in *)
(* one pipeline.  Workers run at the same time and several queues feed     *)
(* them, so tasks start in any order unless a run says otherwise.          *)
(*                                                                         *)
(* The streams "home", "local" and "films" have keys of their own, and a   *)
(* task reads and writes each of them separately: a behaviour looks at one *)
(* stream.  Which, and at which statuses and events, its scene says.       *)
(***************************************************************************)
EXTENDS Naturals, FiniteSets, SequencesExt

CONSTANTS
  Scenes,    \* what behaviours may be about
  Users, Locals, Films,
  Workers

Privacies == {"public", "unlisted", "followers", "direct"}
Kinds == {"post", "delete", "edit", "unboost", "follow", "block", "shelve", "film"}

\* A scene has statuses 1 .. n, ranked by their date of publication, with the
\* author, first privacy, parent, boosted status, film and mentioned users of
\* each, and the statuses that mention their film and are not comments on it.
\* Streams are cut to maxLength (MAX_STREAM_LENGTH).  In a scene that is in
\* order, a task starts when those queued before it are done.
IsScene(c) ==
  /\ c.n \in Nat /\ c.stream \in {"home", "local", "films"} /\ c.inOrder \in BOOLEAN
  /\ c.events \subseteq Kinds /\ {c.maxEvents, c.maxLength} \subseteq Nat
  /\ c.author \in [1 .. c.n -> Users] /\ c.privacy \in [1 .. c.n -> Privacies]
  /\ c.parent \in [1 .. c.n -> 0 .. c.n] /\ c.boosted \in [1 .. c.n -> 0 .. c.n]
  /\ c.mentions \in [1 .. c.n -> SUBSET Users] /\ c.tagged \subseteq 1 .. c.n
  /\ DOMAIN c.film = 1 .. c.n
  /\ \A s \in 1 .. c.n : c.parent[s] < s /\ c.boosted[s] < s

VARIABLES
  scene,                \* the scene of the behaviour
  posted, deleted,      \* the Status rows, and those marked deleted
  privacy,              \* privacy[s]
  follows, blocks,      \* sets of pairs <<subject, object>>
  shelved, filmBlocks,  \* sets of pairs <<user, film>>
  feed,                 \* feed[v]: the statuses in the stream of v
  queue,                \* tasks that were queued
  work,                 \* work[w]: what worker w has read and will write
  events,               \* how many events there were
  everFollowed          \* history: all follows there have been

rows == <<posted, deleted, privacy, follows, blocks, shelved, filmBlocks>>
vars == <<scene, rows, feed, queue, work, events, everFollowed>>

Stream   == scene.stream
Statuses == 1 .. scene.n
By       == scene.author
Parent   == scene.parent
Boosted  == scene.boosted
FilmOf   == scene.film
Mentions == scene.mentions
Tagged   == scene.tagged
MaxLength == scene.maxLength

-----------------------------------------------------------------------------
(* Who should see what *)

Apart(u, v) == <<u, v>> \in blocks \/ <<v, u>> \in blocks
Root(s)     == IF Parent[s] = 0 THEN s ELSE Parent[s]
ThreadFilms(s) == {FilmOf[t] : t \in {u \in posted : Root(u) = Root(s)}} \cap Films

\* What the code sees of a status depends on how it was loaded: add_status_task
\* selects the subclass, remove_status_task the bare Status row, which is a
\* "Note" and has no film of its own.
FilmSeen(s, whole) == IF whole \/ s \in Tagged THEN FilmOf[s] ELSE 0
IsNote(s, whole)   == ~whole \/ FilmOf[s] \notin Films

\* The branches of _get_audience, for somebody other than the author.
Audible(v, s, whole) ==
  LET a == By[s]   parent == Parent[s]
  IN  /\ ~(privacy[s] = "direct" /\ IsNote(s, whole))
      /\ ~Apart(v, a)
      /\ \A f \in ThreadFilms(s) : <<v, f>> \notin filmBlocks
      /\ IF privacy[s] = "direct" THEN v \in Mentions[s]
         ELSE IF parent # 0 /\ privacy[parent] = "followers"
           THEN v = By[parent] \/ {<<v, a>>, <<v, By[parent]>>} \subseteq follows
         ELSE privacy[s] = "followers" => <<v, a>> \in follows

\* get_audience of the three streams.  (Mutant: HomeStream does not ask who follows.)
AudienceUnasked(s, whole) == {v \in Locals : v = By[s] \/ Audible(v, s, whole)}
Audience(s, whole) ==
  LET a == By[s]
  IN  CASE Stream = "home" ->
             {v \in Locals : v = a \/ (Audible(v, s, whole) /\ <<v, a>> \in follows)}
        [] Stream = "local" ->
             {v \in Locals \ {a} : Audible(v, s, whole) /\ privacy[s] = "public" /\ a \in Locals}
        [] Stream = "films" ->
             {v \in Locals \ {a} : /\ Audible(v, s, whole) /\ privacy[s] = "public"
                                   /\ <<v, FilmSeen(s, whole)>> \in shelved}

\* Status.privacy_filter: the statuses of one of the levels that v may see.
Visible(v, levels) ==
  {s \in posted \ deleted :
     LET own == v = By[s] \/ v \in Mentions[s]
     IN  /\ ~Apart(v, By[s])
         /\ privacy[s] \in levels
         /\ privacy[s] = "followers" => own \/ <<v, By[s]>> \in follows
         /\ privacy[s] = "direct" => own}

\* The selection of add_film_statuses, which HomeStream overrides.
Selected(v) ==
  IF Stream = "home"
    THEN {s \in Visible(v, {"public", "unlisted", "followers"}) :
            <<v, By[s]>> \in follows \/ v = By[s] \/ v \in Mentions[s]}
    ELSE {s \in Visible(v, {"public"}) : v # By[s]}

\* Those about the film, and those of the same threads.
AboutFilm(f, S) ==
  LET roots == {Root(s) : s \in {t \in S : FilmOf[t] = f}}
  IN  {s \in S : Root(s) \in roots}

\* The n of S that are published last.  (Mutant: one more.)
OneMore(S, n) == {s \in S : Cardinality({t \in S : t > s}) <= n}
Newest(S, n) == {s \in S : Cardinality({t \in S : t > s}) < n}

-----------------------------------------------------------------------------
(* Tasks, and what each will write after it has read the rows *)

Task(kind, u, x) == [do |-> kind, user |-> u, of |-> x]
AddStatus(s)     == Task("add_status", By[s], s)
RemoveStatus(s)  == Task("remove_status", By[s], s)
HandleBoost(s)   == Task("handle_boost", By[s], s)
AddUser(v, a)    == Task("add_user_statuses", v, a)
RemoveUser(v, a) == Task("remove_user_statuses", v, a)
AddFilm(v, f)    == Task("add_film_statuses", v, f)
RemoveFilm(v, f) == Task("remove_film_statuses", v, f)

Nothing == [add |-> {}, drop |-> {}]
Adding(V, S)   == [add |-> V \X S, drop |-> {}]
Dropping(V, S) == [add |-> {}, drop |-> V \X S]

\* Earlier boosts of what the boost b boosts, and the original.
Superseded(b) == {Boosted[b]} \cup {c \in posted : Boosted[c] = Boosted[b] /\ c < b}

\* What add_user_statuses and remove_user_statuses select.  (Mutants: the first
\* takes public statuses, the second what the viewer may still see.)
PublicOf(v, a)    == {s \in Visible(v, {"public"}) : By[s] = a}
SeenOf(v, a)      == {s \in Visible(v, Privacies) : By[s] = a}
StillSeenOf(v, a) == SeenOf(v, a)
WrittenBy(v, a)   == {s \in posted : By[s] = a}

Reads(t) ==
  CASE t.do = "add_status" ->
         IF t.of \in posted THEN Adding(Audience(t.of, TRUE), {t.of}) ELSE Nothing
    [] t.do = "remove_status" ->
         IF t.of \in posted THEN Dropping(Audience(t.of, FALSE), {t.of}) ELSE Nothing
    [] t.do = "handle_boost" ->
         IF t.of \in posted THEN Dropping(Audience(t.of, FALSE), Superseded(t.of)) ELSE Nothing
    [] t.do = "add_user_statuses" ->
         Adding({t.user}, Newest(SeenOf(t.user, t.of), MaxLength))
    [] t.do = "remove_user_statuses" ->
         Dropping({t.user}, Newest(WrittenBy(t.user, t.of), MaxLength))
    [] t.do = "add_film_statuses" ->
         Adding({t.user}, AboutFilm(t.of, Selected(t.user)))
    [] t.do = "remove_film_statuses" ->
         Dropping({t.user}, AboutFilm(t.of, Visible(t.user, {"public"})))

\* add_object_to_stores and the bulk operations of redis_store.py: what was
\* added to is trimmed, by zremrangebyrank(store, 0, -max_length).
Written(v, w) ==
  LET added   == {s \in Statuses : <<v, s>> \in w.add}
      dropped == {s \in Statuses : <<v, s>> \in w.drop}
      all     == (feed[v] \ dropped) \cup added
  IN  IF added = {} THEN all ELSE Newest(all, MaxLength - 1)

Init ==
  /\ scene \in Scenes
  /\ posted = {} /\ deleted = {}
  /\ privacy = scene.privacy
  /\ follows = {} /\ blocks = {} /\ shelved = {} /\ filmBlocks = {}
  /\ feed = [v \in Locals |-> {}]
  /\ queue = <<>>
  /\ work = [w \in Workers |-> Nothing]
  /\ events = 0
  /\ everFollowed = {}

-----------------------------------------------------------------------------
(* Events of the database, with the tasks their signals queue *)

Event(kind, tasks) ==
  /\ kind \in scene.events /\ events < scene.maxEvents
  /\ events' = events + 1
  /\ queue' = queue \o tasks
  /\ UNCHANGED <<feed, work>>

When(c, t) == IF c THEN <<t>> ELSE <<>>
OnHome  == Stream = "home"
OnFilms == Stream = "films"

\* A status is created, or somebody boosts one (once, and no direct message).
Post(s) ==
  LET b == Boosted[s]
  IN  /\ s \notin posted
      /\ Parent[s] \in posted \cup {0}
      /\ b # 0 => /\ b \in posted /\ privacy[b] \in {"public", "unlisted"}
                  /\ \A c \in posted : Boosted[c] = b => By[c] # By[s]
      /\ posted' = posted \cup {s}
      /\ privacy' = IF b = 0 THEN privacy ELSE [privacy EXCEPT ![s] = privacy[b]]
      /\ Event("post", <<AddStatus(s)>> \o When(b # 0, HandleBoost(s)))
      /\ UNCHANGED <<deleted, follows, blocks, shelved, filmBlocks, everFollowed>>

\* Status.delete marks the row, and saves it twice unless it is a reply.
\* (Mutant: the feeds are not told.)
DeleteSilently(s) ==
  /\ s \in posted \ deleted /\ Boosted[s] = 0
  /\ deleted' = deleted \cup {s}
  /\ Event("delete", <<>>)
  /\ UNCHANGED <<posted, privacy, follows, blocks, shelved, filmBlocks, everFollowed>>
Delete(s) ==
  /\ s \in posted \ deleted /\ Boosted[s] = 0
  /\ deleted' = deleted \cup {s}
  /\ Event("delete", <<RemoveStatus(s)>> \o When(Parent[s] = 0, RemoveStatus(s)))
  /\ UNCHANGED <<posted, privacy, follows, blocks, shelved, filmBlocks, everFollowed>>

\* The form that edits a status has its privacy; only a created status is queued.
Edit(s, p) ==
  /\ s \in posted \ deleted /\ Boosted[s] = 0 /\ p # privacy[s]
  /\ privacy' = [privacy EXCEPT ![s] = p]
  /\ Event("edit", <<>>)
  /\ UNCHANGED <<posted, deleted, follows, blocks, shelved, filmBlocks, everFollowed>>

\* The row of a boost is deleted, and then its id is queued.
Unboost(s) ==
  /\ s \in posted /\ Boosted[s] # 0
  /\ posted' = posted \ {s}
  /\ Event("unboost", <<RemoveStatus(s), AddStatus(Boosted[s])>>)
  /\ UNCHANGED <<deleted, privacy, follows, blocks, shelved, filmBlocks, everFollowed>>

\* A UserFollows row comes and goes.
Follow(v, a) ==
  /\ v # a /\ <<v, a>> \notin follows /\ ~Apart(v, a)
  /\ follows' = follows \cup {<<v, a>>}
  /\ everFollowed' = everFollowed \cup {<<v, a>>}
  /\ Event("follow", When(OnHome /\ v \in Locals, AddUser(v, a)))
  /\ UNCHANGED <<posted, deleted, privacy, blocks, shelved, filmBlocks>>

Unfollow(v, a) ==
  /\ <<v, a>> \in follows
  /\ follows' = follows \ {<<v, a>>}
  /\ Event("follow", When(OnHome /\ v \in Locals, RemoveUser(v, a)))
  /\ UNCHANGED <<posted, deleted, privacy, blocks, shelved, filmBlocks, everFollowed>>

\* UserBlocks.save: both directions are queued, then the follows go and queue
\* their own tasks.  set_remote_id saves the row of a local user within the
\* first save, so the outer one queues both directions again.
\* (Mutant: the statuses go from the feeds of the blocker only.)
BlockOneWay(v, a) ==
  /\ v # a /\ <<v, a>> \notin blocks
  /\ blocks' = blocks \cup {<<v, a>>}
  /\ follows' = follows \ {<<v, a>>, <<a, v>>}
  /\ Event("block", When(v \in Locals, RemoveUser(v, a)))
  /\ UNCHANGED <<posted, deleted, privacy, shelved, filmBlocks, everFollowed>>
Block(v, a) ==
  LET gone == {<<v, a>>, <<a, v>>} \cap follows
      both == When(v \in Locals, RemoveUser(v, a)) \o When(a \in Locals, RemoveUser(a, v))
      home == When(OnHome /\ v \in Locals /\ <<v, a>> \in gone, RemoveUser(v, a))
              \o When(OnHome /\ a \in Locals /\ <<a, v>> \in gone, RemoveUser(a, v))
  IN  /\ v # a /\ <<v, a>> \notin blocks
      /\ blocks' = blocks \cup {<<v, a>>}
      /\ follows' = follows \ gone
      /\ Event("block", both \o home \o (IF v \in Locals THEN both ELSE <<>>))
      /\ UNCHANGED <<posted, deleted, privacy, shelved, filmBlocks, everFollowed>>

\* The public streams get the statuses back unless the other blocks as well.
Unblock(v, a) ==
  LET free == <<a, v>> \notin blocks /\ ~OnHome
  IN  /\ <<v, a>> \in blocks
      /\ blocks' = blocks \ {<<v, a>>}
      /\ Event("block", When(free /\ v \in Locals, AddUser(v, a))
                        \o When(free /\ a \in Locals, AddUser(a, v)))
      /\ UNCHANGED <<posted, deleted, privacy, follows, shelved, filmBlocks, everFollowed>>

\* The first ShelfFilm row of a film comes, the last one goes.  (Mutants: the
\* stream is not told.)
ShelveSilently(v, f) ==
  /\ <<v, f>> \notin shelved
  /\ shelved' = shelved \cup {<<v, f>>}
  /\ Event("shelve", <<>>)
  /\ UNCHANGED <<posted, deleted, privacy, follows, blocks, filmBlocks, everFollowed>>
UnshelveSilently(v, f) ==
  /\ <<v, f>> \in shelved
  /\ shelved' = shelved \ {<<v, f>>}
  /\ Event("shelve", <<>>)
  /\ UNCHANGED <<posted, deleted, privacy, follows, blocks, filmBlocks, everFollowed>>

Shelve(v, f) ==
  /\ <<v, f>> \notin shelved
  /\ shelved' = shelved \cup {<<v, f>>}
  /\ Event("shelve", When(OnFilms, AddFilm(v, f)))
  /\ UNCHANGED <<posted, deleted, privacy, follows, blocks, filmBlocks, everFollowed>>

Unshelve(v, f) ==
  /\ <<v, f>> \in shelved
  /\ shelved' = shelved \ {<<v, f>>}
  /\ Event("shelve", When(OnFilms, RemoveFilm(v, f)))
  /\ UNCHANGED <<posted, deleted, privacy, follows, blocks, filmBlocks, everFollowed>>

\* BlockedFilms.post and unblock_film
BlockFilm(v, f) ==
  /\ filmBlocks' = filmBlocks \cup {<<v, f>>}
  /\ Event("film", <<RemoveFilm(v, f)>>)
  /\ UNCHANGED <<posted, deleted, privacy, follows, blocks, shelved, everFollowed>>

UnblockFilm(v, f) ==
  /\ filmBlocks' = filmBlocks \ {<<v, f>>}
  /\ Event("film", <<AddFilm(v, f)>>)
  /\ UNCHANGED <<posted, deleted, privacy, follows, blocks, shelved, everFollowed>>

-----------------------------------------------------------------------------
Idle(w) == work[w] = Nothing

\* A worker takes a task and reads the database.
Start(w) ==
  /\ Idle(w)
  /\ \E i \in 1 .. Len(queue) :
       /\ scene.inOrder => i = 1 /\ \A x \in Workers : Idle(x)
       /\ work' = [work EXCEPT ![w] = Reads(queue[i])]
       /\ queue' = RemoveAt(queue, i)
  /\ UNCHANGED <<rows, feed, events, everFollowed>>

\* It executes its pipeline.
Finish(w) ==
  /\ ~Idle(w)
  /\ feed' = [v \in Locals |-> Written(v, work[w])]
  /\ work' = [work EXCEPT ![w] = Nothing]
  /\ UNCHANGED <<rows, queue, events, everFollowed>>

Happen ==
  \/ \E s \in Statuses : \/ Post(s) \/ Delete(s) \/ Unboost(s)
                         \/ \E p \in Privacies : Edit(s, p)
  \/ \E v, a \in Users : Follow(v, a) \/ Unfollow(v, a) \/ Block(v, a) \/ Unblock(v, a)
  \/ \E v \in Locals, f \in Films :
       Shelve(v, f) \/ Unshelve(v, f) \/ BlockFilm(v, f) \/ UnblockFilm(v, f)

Next ==
  /\ Happen \/ \E w \in Workers : Start(w) \/ Finish(w)
  /\ UNCHANGED scene

Spec == Init /\ [][Next]_vars
-----------------------------------------------------------------------------
Tasks == [do : {"add_status", "remove_status", "handle_boost", "add_user_statuses",
                "remove_user_statuses", "add_film_statuses", "remove_film_statuses"},
          user : Users, of : Statuses \cup Users \cup Films]

\* The variables have their types, and MAX_STREAM_LENGTH (settings.py:255) bounds
\* every stream, whatever runs.
TypeOK ==
  /\ scene \in Scenes
  /\ posted \subseteq Statuses /\ deleted \subseteq posted
  /\ privacy \in [Statuses -> Privacies]
  /\ follows \subseteq Users \X Users /\ blocks \subseteq Users \X Users
  /\ shelved \subseteq Locals \X Films /\ filmBlocks \subseteq Locals \X Films
  /\ feed \in [Locals -> SUBSET Statuses]
  /\ \A v \in Locals : Cardinality(feed[v]) < MaxLength
  /\ queue \in Seq(Tasks)
  /\ work \in [Workers -> [add  : SUBSET (Locals \X Statuses),
                           drop : SUBSET (Locals \X Statuses)]]
  /\ events \in 0 .. scene.maxEvents
  /\ everFollowed \subseteq Users \X Users

\* In whatever order tasks run, the home stream has nothing by an author that
\* its user never followed, unless the user is mentioned.
OnlyEverFollowed ==
  OnHome => \A v \in Locals : \A s \in feed[v] :
    v = By[s] \/ <<v, By[s]>> \in everFollowed \/ v \in Mentions[s]

\* Everything that was queued has run, one task after the other.
Settled == scene.inOrder /\ queue = <<>> /\ \A w \in Workers : Idle(w)

\* Nobody has a status that is not for them: in the local stream none by a user
\* whom they block or who blocks them; in the home stream only those of authors
\* they follow, whatever follows, unfollows and blocks came in between; in the
\* films stream ("films on your shelves", activitystreams.py:343) only those of
\* threads about a film they shelved.
NothingStray ==
  \A v \in Locals : \A s \in feed[v] \ {t \in Statuses : By[t] = v} :
    CASE Stream = "home"  -> <<v, By[s]>> \in follows
      [] Stream = "local" -> ~Apart(v, By[s])
      [] Stream = "films" -> \E f \in ThreadFilms(s) : <<v, f>> \in shelved

\* Everybody has what they should see in the home and films streams, however it
\* came to be theirs: by a post, a follow or a shelf, or several of them.
NothingMissing ==
  Stream # "local" =>
    \A s \in posted \ deleted : \A v \in Audience(s, TRUE) : s \in feed[v]

\* activitystreams.py:608 "remove a status from any stream it might be in": no
\* home stream has a deleted status.
DeletedAreGone == OnHome => \A v \in Locals : feed[v] \cap deleted = {}

\* What scenes in order may be about for feeds to be exact at their end; beyond
\* this those of the code go wrong.  Streams are long enough, and in home and films
\* streams nobody replies to what is for followers.  A home stream has no boosts,
\* edits, blocks of films or direct messages; in the local one no row is deleted; in
\* that of films statuses stay as they are, nobody blocks, boosts are about no film,
\* and a thread is, in public, about one.
Orderly(c) ==
  /\ c.n < c.maxLength
  /\ c.stream # "local" => \A s \in 1 .. c.n :
       c.parent[s] # 0 => c.privacy[c.parent[s]] # "followers"
  /\ c.stream = "home" =>
       /\ c.events \subseteq {"post", "delete", "follow", "block", "shelve"}
       /\ \A s \in 1 .. c.n : c.boosted[s] = 0 /\ c.privacy[s] # "direct"
  /\ c.stream = "local" => "unboost" \notin c.events
  /\ c.stream = "films" =>
       LET root(s)  == IF c.parent[s] = 0 THEN s ELSE c.parent[s]
           about(s) == c.film[s] \in Films /\ c.privacy[s] = "public"
       IN  /\ c.events \subseteq {"post", "shelve", "follow"}
           /\ \A s \in 1 .. c.n : c.boosted[s] # 0 => c.film[s] \notin Films
           /\ \A s, t \in 1 .. c.n :
                root(s) = root(t) /\ about(s) /\ about(t) => c.film[s] = c.film[t]

\* When the tasks have run in the order in which they were queued, feeds hold
\* what they should and nothing else, whatever happened meanwhile.
FeedsAreExact == Settled => NothingStray /\ NothingMissing /\ DeletedAreGone
=============================================================================
