# A verification project for ReelTalk

ReelTalk is a social network for people who watch films: a Django application
(`src/reeltalk`), Celery workers (`src/celerytalk`), PostgreSQL, Redis, and
ActivityPub between servers. It descends from BookWyrm. This directory holds
TLA+ models of the parts of it that decide something, the TLC configurations
that check them, and proofs of the most important results that TLAPS checks.

`PROJECT.json` is the index: components and their sources, runs, the source lines
that every definition stands for, mutants, hazards and theorems.

Contents: [1 the system](#1-the-system) · [2 modules](#2-modules) ·
[3 how the code is turned into steps](#3-how-the-code-is-turned-into-steps) ·
[4 what is checked](#4-what-is-checked) · [5 what is proved](#5-what-is-proved) ·
[6 what the code does not keep](#6-what-the-code-does-not-keep) ·
[7 what is not modelled](#7-what-is-not-modelled) · [8 the plan](#8-the-plan)

## 1 The system

Three kinds of process work on one database and one Redis. **Web workers** run a
view per request. **Task workers** are Celery's, `--pool=threads`, twenty at a
time, many queues, early acknowledgement: tasks start in any order, run at the
same time, and a task whose worker dies is lost. **Other servers** post
activities to the inbox and get activities posted to theirs; a delivery is tried
once. There is no transaction around a request, PostgreSQL is at READ COMMITTED,
and `save()` without `update_fields` writes back every column as it was read.
So most handlers look first and write later, and what they looked at may have
changed: this, and the order of tasks and messages, is what is hard here.

| component | state | operations | interacts with | what makes it correct |
|---|---|---|---|---|
| Relationships (`models/relationship.py`, `views/follow.py`, `views/preferences/block.py`, `activitypub/verbs.py`) | tables of follows, requests, blocks on every server; relationship cache | follow, accept, reject, remove, unfollow, block, unblock, by view or by message | other servers (messages), streams (signals), pages (cache) | no relation across a block, none without consent, both servers agree |
| Activity streams (`activitystreams.py`, `redis_store.py`) | bounded sorted sets in Redis, one per user and stream | signal handlers that queue tasks; tasks that read rows and write sets | reads the rows of all others | nobody is shown what is not for them; all they should see is there |
| Film lists (`models/list.py`, `views/list/`) | orders of items, unique per list; approval; curation | add, remove, move, edit, approve, reject | groups | orders stay sequential, a move disturbs nobody else |
| Shelves and reviews (`views/reading.py`, `views/shelf/`, `views/status.py`) | rows that put a film on a shelf; reviews | reading status, shelve, unshelve, five ways to a review, edit, delete | streams | one status shelf, one review, deletion stays |
| Accounts and servers (`models/user.py`, `models/federated_server.py`, `views/admin/`) | activity, deletion, reason, permission to come back; the server's status | register, confirm, suspend, deactivate, delete, block a server, undo each | inbox, everything that asks for active users | each lifting undoes what it should and nothing else |
| Groups (`models/group.py`, `views/group.py`) | members, invitations, the lists a group curates | create, invite, accept, decline, remove, leave, delete, block | lists, relationships | the owner is a member; no one gets in uninvited |
| Ingestion (`activitypub/base_activity.py`, `verbs.py`, `views/inbox.py`) | inbox, rows of remote objects, a lock in Redis | receive, defer, look up, lock, write, release | all that federates | one row, as its author left it; the lock excludes and lets go |
| Exports and housekeeping (`models/job.py`, `reeltalk_export_job.py`, `housekeeping.py`) | job rows, files, counters | request, two tasks in a chain, cleanup with a task per file, cancel | storage | every job ends; files go only when expired |
| Likes, boosts, notifications (`models/favorite.py`, `notification.py`, `views/interaction.py`) | rows, grouped notifications, cached buttons | like, boost, take back, read, clear | streams, pages | the author is told what is so, once |
| Lists streams (`lists_stream.py`) | a set of lists per user in Redis | signal handlers that queue tasks; tasks that take a list off pages and put it back | film lists, groups, relationships, accounts | a page has the lists its reader may open, and no list they never could |
| Suggested users (`suggested_users.py`) | a set of users per user in Redis | the same | relationships, accounts, the block of a server | who is suggested wants to be found and is a stranger |
| Visibility (`models/base_model.py`) | none: a decision and a query | `raise_visible_to_user`, `privacy_filter` and what each kind overrides | everything that is shown or sent | the two say the same |
| Delivery (`models/activitypub_mixin.py`, `models/fields.py`, `activitypub/`) | copies of an object on other servers, activities in flight | create, edit, delete, send in one form or two, store, update | relationships, visibility | no server hears of what nobody there may see; copies are right |
| Moves and aliases (`models/move.py`, `views/preferences/move_user.py`, `views/wellknown.py`) | aliases, `moved_to`, rows for moves; what followers' servers have of them | alias, drop it, move, come back; look somebody up | delivery | nobody is moved to an account that did not agree; who moved is found and can come back |
| Invitations (`models/site.py`, `views/admin/invite.py`, `views/landing/register.py`) | codes with a use limit, requests for one | make, ask, grant, ignore, use, withdraw, delete | accounts | no more accounts than allowed, one invitation per request |
| Films (`models/film.py`, `tmdb.py`, `views/films/`, `views/preferences/import_films.py`) | rows with two identifiers of other databases | look up, create, import, complete, edit | TMDB, shelves | one row per film; what TMDB said stays |
| Passwords and sessions, signatures, reports and block lists, pages, forms, administration, deployment | see `PROJECT.json` | | | section 7 |

## 2 Modules

| module | models | composed with |
|---|---|---|
| `FollowProtocol` | relationships on several servers that exchange messages; a handler is a step | implements `FollowLifecycle` (`INSTANCE ... WITH`, the refinement mapping is `Status`) |
| `FollowLifecycle` | the abstract promise of an object's server to its user | |
| `RelationshipRaces` | the same handlers on one server, statement by statement, with cache and crashes | looks inside the steps of `FollowProtocol` |
| `ActivityStreams` | signal handlers, task queue, workers and feeds | |
| `FilmLists` | one list, its requests in transactions, crashes between them | |
| `Shelving` | one film and one user: shelves and reviews | |
| `Accounts` | accounts of this server and another, the server's block, moderators | |
| `Groups` | groups, invitations, blocks, the lists they curate | |
| `Ingest` | one remote status, from its author through inbox and lock to the row | |
| `ExportJobs` | exports of one user and cleanups of files | |
| `Interactions` | likes or boosts of one status, notifications, cached buttons | |
| `Visibility` | the decision and the query of who may see an object, for the kinds that override them | extended by `ListsStreams` and `Delivery` |
| `ListsStreams` | lists, groups, accounts and relationships with the handlers, tasks and workers that fill the lists pages | |
| `SuggestedUsers` | the same for the users who are suggested | |
| `Delivery` | one object, its recipients, its forms and privacy on the way, and its copies | |
| `Moves` | accounts that list, leave and rejoin one another, and the server of their followers | |
| `Invitations` | codes and requests for them | |
| `Films` | the rows of one film of TMDB | |
| `ServerProofs`, `JobsProofs` | theorems about the parts of `MCServer` and of `MCJobs` | extend these |
| `...Proofs` | theorems about `FollowProtocol`, `Groups` and `Shelving`, `FilmLists`, `ListsStreams` and `SuggestedUsers`, `Delivery` and `ActivityStreams`, `Moves` | extend these, `MCClub`, `MCPages`, or `MCPosts` |
| `MC...` | constants for TLC, and parts that are checked in one run | extend one module and instantiate others |

The parts that `MCServer` (`RelationshipRaces`, `Interactions`, `Accounts`,
`Invitations`, `Films`), `MCClub` (`Groups`, `Shelving`), `MCJobs` (`ExportJobs`,
`Ingest`), `MCPages` (`ListsStreams`, `SuggestedUsers`) and `MCPosts` (`Delivery`,
`ActivityStreams`) put together share no state. A behaviour is about one of them, chosen
at first, and the others stay as they begin: such a run has the behaviours of each, one
beside the other, and not their product. `MCFollowProtocol` does the same with two
networks. Where an instantiated module assumes something of its constants, the module
that instantiates it states the assumption again of the values it gives.

What components know of each other is in the model of each: `ListsStreams`,
`SuggestedUsers` and `ActivityStreams` have follows, blocks and accounts that change
under their tasks; `Delivery` decides by the relations of the moment and by
`Visibility`; `FollowProtocol` and `RelationshipRaces` are two resolutions of the
same handlers.

Variables keep the names of the code where they can; every action names in its
comment, and in `PROJECT.json` with its lines, the function it stands for.

## 3 How the code is turned into steps

*Steps.* A statement outside of a transaction commits by itself; a transaction
shows nothing until its commit. So a handler is a step that reads (`...Begin`,
with what it has read in `job[t]`, `held[t]`, `copy`, ...) and later a step that
writes, one for each transaction, with what was read and not with what is so. In
`FilmLists` a transaction's writes are one step because it locks the row of the
list first. In `FollowProtocol` a whole handler is one step, and
`RelationshipRaces` says what that hides.

*Death.* A worker that dies is a job that takes no further step; no safety
property needs it to go on. Where death does something (a lock left behind, half
of a request that another can see) there is an action for it: `Crash`, `Die`.

*Histories.* Much of what one would like to hold holds only while requests do
not get into each other's way. Rather than leave the interference out, the models
keep it and record it: `torn`, `overtaken`, `raced`, `careless`, `skipped`,
`disorder`, `overlapped`, `met`, `doubled`, `crossed`, `mixed`, `unheard`, `leftOut`,
`recast`, `stale`, `again`, `back`, `bent` become true at precisely described
events, no action looks at them, and the property is "only after such an event".
It says both that the good thing is kept otherwise and what can break it. Drop
the premise, and TLC prints the trace in which the code breaks it (section 6).

*Scenes.* `ActivityStreams` chooses at first which of the streams a behaviour is
about, and which statuses and events. Streams have keys of their own and tasks
treat each in turn, so nothing passes from one to another. `Accounts` chooses a
`cast` (the local account or the remote one), `Interactions` a `kind` (likes or
boosts) and `Delivery` a `thing` (a list, a comment or a reply) in the same way and
for the same reason.

*Order.* `ActivityStreams`, `ListsStreams`, `SuggestedUsers`, `Delivery` and `Moves`
have an `inOrder`, chosen at first. If it is true, tasks start (or activities
arrive) in the order in which they were queued; if not, in any order, and activities
are lost and repeated. Celery's pool and the network promise neither order, so that
what never must happen is checked for both. What the handlers are meant to end in
can only be asked of the first, where it separates mistakes of the handlers
from those of the queue.

*Bounds* are constants in guards: `MaxReq`, `MaxBlk`, `MaxNet` (messages in
flight), `maxEvents`, `MaxEvents`, `maxLength`, `MaxOrder`, `MaxRow`, `MaxReview`,
`Resends`, `Deaths`, `MaxVersion`, `MaxExport`, `MaxClean`, `MaxAsking`, `MaxNote`,
`MaxFilms`, `MaxRequests`, `MaxInvites`, `MaxGuests`. A step that would pass a bound
is not taken; that is also why most runs do not check for deadlock. `FilmLists`,
`Shelving` and `Groups` can always go on, and `lists` and `club` check it.

*Abstraction.* Content is a version number, a film, a user or a reason is a model
value, permission checks are guards, wording and layout are gone. A deletion of
rows by cascade is part of the action that causes it.

## 4 What is checked

| run | instance | shows |
|---|---|---|
| `follow` | two users on two servers; one asks twice, either blocks once; at most 2 messages in flight, lost, repeated and reordered; or a network that delivers, where only the one who is asked blocks | `NoRelationAcrossBlock`, `FollowIsGranted`, `NoPendingBesideFollow` on every server; `ImplementsLifecycle`: a follower that must be approved passes through a request, a follow never falls back to one, and out of a block leads only the way to nothing; `DeliveredBlockIsFelt`: a block that is not lifted ends follows and requests on the other server |
| `server` | four requests on one pair of users, by hand or automatic approval; two users and two workers on likes or boosts; a local or a remote account, two workers, a moderator's open page; two invitations and three guests; two rows for a film and four requests | `OnlyTornBlocksLeak`, `ConsentFirst`, `OnlyOvertakenAskTwice`, `OnlyRacedPagesLie`; `OnlyOverlapsMislead`; `OnlyTornContradict`; `OnlyOverlapsMisinvite`; `OnlyRacedOrMixedDouble`; `OnlyStaleOverwrites`, for accounts and films |
| `pages` | lists: three users, one of them the owner of a group, a list, two workers, 4 events in order or 2 in any; suggestions: two users here and one elsewhere, 4 events | `OnlyEverSeen`, `ListsAgree`, `PagesAreExact`; `SuggestionsAreExact`: a page never has what its reader was never to see, and when all is done in order it has exactly what it should |
| `lists` | three films, two workers, orders up to 4, closed and curated | `CarefulWithOrder`: no unique-constraint error on fresh data; `GapsAreExplained`; `OthersKeepTheirOrder` |
| `club` | two users, three groups, two workers; or a film, two status shelves and one of the user's own, three reviews | `OwnerIsMember`, `OnlyTornDisagree`, `OnlyStaleGetIn`; `OnlyTornDuplicates`, `OnlyStaleRevives` |
| `groups_expel` | one worker, two groups of one owner | a violation: `RemovalIsOfOneGroup`, section 6 |
| `jobs` | two exports, two requests at once, a cleanup of two files; or two workers, two versions of a status and a deletion, one repetition, one death | `OnlyExpiredFilesGo`, `OnlyOverlapsErr`, `JobsEnd`; `OneAtATime`, `OnlyDisorderMisleads`, `NothingHangs` |
| `posts` | three users on two other servers, one of which has the status that is replied to; a list, a comment or a reply; 3 events in order or 2 in any. Or a viewer, a local and a remote author, two statuses, two workers, four scenes | `NoServerHearsInVain`, `CopiesAreExact`; `FeedsAreExact` |
| `delivery_privacy`, `delivery_once` | as the first part of `posts` | violations: `CopiesHaveThePrivacy`, `OneRowEach`, section 6 |
| `moves` | three users, two requests at once, 5 in order or 4 in any | `OnlyAgreedMoves`, `OnlyOddMovesMislead` |
| `films_match` | one worker, two rows | a violation: `OneMatch`, section 6 |

`server`, `posts` and `jobs` also check the `TypeOK` of their modules, which states,
next to the types, what the shape of the tables implies (a job that is over has
recorded how it ended, a feed is not longer than allowed); those of the modules in
section 5 are proved.

*Why the bounds are enough.* The disagreements the models are about need two
actors and one row. Two workers are every pair of handlers in every interleaving;
the four on relationships let a block, its severing, an acceptance and a page overlap.
Two requests of one user to another let an answer to the first meet the second;
two messages in flight let any message overtake any other. Three films are one
that moves and one on each side of it, and `MaxOrder` 4 leaves room for a gap and
for a film behind it. `maxLength` 2 in the first scene makes the cut of a feed
happen with two statuses. Two exports make a cleanup count one file
while the other is still to be queued; that two cleanups may choose the same file is
covered by the proof. `MaxRow` in `Ingest` is one more than the rows that two
workers can make of one status. Three guests are one more than a limit of two
allows. A third row of a film would be another like the second. Three events about
an object are a creation, a change of who may see it (by an edit, a follow or a
block) and what comes after; four about a list are a privacy, a membership or a
block, their opposite and one more. Five requests are the two aliases and two moves
of a chain of three accounts, and the return of its end to the beginning. What
bounds cut off is repetition, not a kind of event. Symmetry is used in runs without
liveness, over workers and users, films or groups that `Init` and the scenes treat
alike.

*Fairness.* `follow`: on the network that delivers, a message that can be handled is
handled (weak fairness of every `Receive`); users owe nothing, and the network that
loses messages owes nothing either. `jobs`, of statuses: workers go on with what
they have begun and take from the inbox, deadlines pass and keys in Redis expire,
which the clock and Redis do by themselves; authors owe nothing, nobody has to die.
Of exports: workers do not die and take queued tasks up (Celery's queues), nobody
owes a request or a cancellation. In modules with a history variable fairness is
stated of the step together with `Recorded`, which is what such a step is.

*Mutants.* Definitions marked `(Mutant: ...)` are the code with a plausible mistake:
a guard dropped, a bound off by one, a cache not cleared. No specification uses
them; with one in the place of the real definition, TLC finds the property named
in `PROJECT.json` violated.

## 5 What is proved

TLAPS proves these for all values of the constants: any number of users, servers,
workers, groups, films, exports, and any bounds. They assume what the modules assume
of their constants, each a named `ASSUME` that TLC evaluates in the runs. The
constants of `MCServer`, `MCClub`, `MCJobs` and `MCPages` are parameters too
(`ServerAssumption`, `ClubAssumption`, `InboxAssumption`, `NamesAssumption`,
`PagesAssumption`), so that what is proved of the parts they put together is not about
the values of a run. Where something is counted, workers are finitely many.

The properties are of three kinds, and so are the arguments. *What is never so*
(no relation across a block) needs an invariant that says of what is under way, a
message or what a worker holds in hand, that it will not make it so either. *Only
after such an event* (section 3) needs to say what every worker knows as long as the
event has not happened, which is what its statements rely on without looking again.
*Right when all is done* needs to say, of every state on the way, which task, activity
or worker will put right what is not yet so.

**`FollowProtocolProofs`.** `BlocksSever`, `FollowsAreGranted` and
`NoFollowerIsPending` (the three invariants of `follow`), by `Inductive`:
`IInv` is inductive. The three relations between tables are not inductive by
themselves: an Accept that is under way will make a follow on the subject's
server whatever its tables say then. `IInv` therefore adds that an Accept in
flight is of a pair that was granted (`AcceptIsGranted`), and that messages are
only between users of different servers (`NetIsRemote`), so that what a server
receives is never about a pair that it serves alone. `LifecycleImplemented` is the
refinement: every handler, by view or by message, is for the status of each pair on
its object's server a step of `FollowLifecycle` or none. A handler touches rows of one
server and of one pair and its reverse (`OnlyRowsOf`), so that no other status
changes (`StatusElsewhere`); for those two there is a lemma per abstract action.

**`ServerProofs`**, of the relationships. `TornBlocks`, `ConsentIsNeeded` and
`AskedTwiceWhenOvertaken`, for any number of concurrent handlers, any of which may
die. That a relation beside a block is *about to go* is part of the invariant:
while a block severs, `FollowIsDoomed` and `RequestIsDoomed` name the handler that
will take it away, and `NobodyPastCheck` says that without `torn` nobody is
between their look for blocks and their write. `AskedTwiceWhenOvertaken` adds what
a handler knows that has found no follow, or that holds a request.
`PagesTellTheTruth`: a handler that has cleared the cache and goes on writing finds it
empty still (`CacheIsTrue`), since only a page fills it, and a page that read while
somebody was at work is what `raced` records.

**`ServerProofs`**, of the other parts of a server.
`RacedOrMixedDouble` and half of `StaleOverwrite` rest on `FilmsInv`: what a worker has
in hand who is not stale is what the table has (`Reads`), and while nobody raced and
nothing was mixed there is one row of TMDB at most, and whoever is about to
give a row TMDB's identifier has found that no other may have it (`Sole`).
`OverlapsMisinvite` rests on `InvitesInv`: an invitation with which nobody is under way
has counted its accounts, and whoever is alone with it has the count in hand
(`Counted`, of invitations that are neither `met` nor `torn`); what a request was
granted and can still be used is what the request shows, or is being written there
(`OneGranted`). `TornContradict` and the other half of `StaleOverwrite` rest on
`AccountsInv`: what rows and jobs can look like, what a worker holds (`InHand`), that
a suspension stays in a row as its reason (`Suspended`), and, while nothing is torn,
that a setting or a block that is lifted is either being carried out or has no account
left that it is to change (`WhenWhole`). `OverlapsMislead` rests on `LikesInv`: for a
user who was never doubled, one row and a cache that says so or is unknown while
somebody is at work (`AloneIsTrue`); while no requests have met, one notification at
most, and everybody who likes is named in it or about to be (`Told`), by a worker who
has found what there is (`Finds`). Since a part steps by its own `Next` or rests
(`PartsStep`), the conjunction of these invariants is one of `MCSpec` (`ServerInv`), which
also gives `PartsKeepTypes`; what is proved of `RelationshipRaces` carries over by
`RacesWithin`.

**`GroupsProofs`.** `OwnersStay`: a group has its owner in it, by an invariant over
requests in progress: a removal in any of its transactions is never of the user on
whose behalf it is made, which is what its first look made sure of and nothing
changes later. `StaleGetIn` adds what a request that is not stale knows (`Knows`): its
invitation is there, nobody has blocked. `TornDisagree` adds that as long as nothing was
torn members have no invitations, lists belong to members, and whoever is in a group
of somebody who has blocked them is about to be taken out (`BlockedAreLeaving`).

**`JobsProofs`**, of exports. `ExpiredFilesGo`: a task deletes a file on the strength of
what was read when the cleanup began, and does not look again. It is still right,
because whatever a cleanup has still to delete is of an export that has ended and
expired (`ToDeleteIsExpired`), and no task is left that would write the row of an
export that has ended (`WritersAreEarly`). `OverlapsAlone`: the counters of a cleanup are
the numbers of tasks that were queued and that were counted (`Numbered`); while
nothing overlaps, one task or the scheduler holds a cleanup's row, and the last task
does so when all others have been counted (`HeldByOne`), a request that may make an
export has found none (`AsksAlone`), and an archive that is open has its data
(`ArchiversHaveData`).

**`JobsProofs`**, of ingestion. `LockExcludes`: two workers are inside only if one is
late. That the key is free does not show that nobody is inside; the invariant therefore
says that whoever is inside and punctual *has* the key (`Holds`). So nobody else gets it,
and a release, which deletes the key without a look at whose it is, only deletes the
releaser's own or comes from one who is late and leaves it alone. It assumes
that threads are not named like the two states of a key without owner
(`NamesAssumption`). `DisorderAlone`: in the absence of disorder one worker is at the
status at most, the inbox has what its author did and has not yet arrived, each once
and in turn (`Rest`), and the row is as of the last activity that was worked off, or
is about to be made so by the worker in between (`AsOf`, `Makes`, `Deletes`); a
deferred activity is the same inbox again (`Again`).

**`FilmListsProofs`.** `CareSuffices`: that orders are distinct is inductive only with
what a request knows that is not stale (`Fresh`): its film is where it has read it, and
the place it has chosen is free or just after a film. Each of the commits, with
`Incremented`, `Decremented` and `Normalized` inside, is summed up by what it does to
every film's order, which keeps them distinct. `GapsHaveReasons` adds that the orders
are 1 to their number, or have one hole that a request in progress keeps for its film
(`GapAt`). `OrderIsKept` is about each step by itself: a commit that the unique
constraint accepts shifts the films between two places by one and sets the one it is
about, however stale the request. (That the orders of the approved have a maximum is
proved from the well-foundedness of the naturals, since no induction theorem can be
used.)

**`ListsStreamsProofs`.** `NothingUnseen`: in whatever order tasks run, a page has only
lists that there was a moment for its user to see. A task adds what it found when it
read, so the invariant is that every pair that a worker is about to add
(`work[w].add`) has been seen, next to every pair on a page. `PagesAndQueriesAgree`
rests on `PagesAlwaysAgree`: for every kind of object, user, follows and blocks,
what `privacy_filter` selects `raise_visible_to_user` opens, and the other way
around but for what the one leaves out on purpose. `QuietPagesAreExact`: once all tasks
have run in order, a page has exactly what it should. `PagesInv` says of every page and
list at every moment how it will be right (`WillBeRight`): a list that is shown and not
seen has a task in the queue that takes it away (`Going`); one that is seen is being put
everywhere it belongs (`Moving`), or is on the page or put there by a task after which
none takes it away (`Coming`). Only pairs about which a change was `unheard` are left out.

**`ListsStreamsProofs`**, of suggestions. `QuietSuggestionsAreExact`: whoever is in the
suggestions of a user, or about to be added there, has fitted at some moment
(`FitKnown`); and once all tasks have run in order, the page shows exactly those who
want to be found and are strangers to its user. `StoreInv` says so of every pair that is
not `unheard` at every moment (`WillFit`): who does not fit and is kept has a task in
the queue that takes them away (`Leaving`), which a `remove_user` task is only as long
as no block stands between the two, since then it would not look at this user's set; and
who fits is kept, or added by a task of the queue, and every task that takes them away
is followed by one that adds them again (`Mended`, `Due`). While the other server is
being let in, its users are not yet active, but the task that adds them is already in
the queue, so that `Mended` is kept for them until they are. That nobody hears of those
who follow them (the condition at `suggested_users.py:61`) is a conjunct of the
invariant, because it is what makes a task look at a user's set.

**`DeliveryProofs`.** `PrivacyComesThrough`: for every privacy and set of mentioned
users, what the sender writes as `to` and `cc` is read as that privacy.
`HeardByThoseWhoMay`: no server is sent, or keeps, a version that nobody there could
open when it was written. `IInv` says it of every activity that is on the way
(`Good`) and of every row (`GoodRows`), with versions that exist already; deliveries
that are repeated, lost or late only move what is good. `CopiesArrive`: when all has
arrived in order, a server's row is as it is at home. `Exact` says it of every moment:
the activities on their way came about in turn (`InTurn`), the last of them tells what
is so at home (`Tells`), and those before it do not make a row that it would not
change any more (`Following`).

**`DeliveryProofs`**, of feeds. `FeedsExact` is about every scene: which statuses there
are, by whom, of which stream, and which kinds of events may happen. `OnlyEverFollowed`
holds in all of them, in whatever order tasks run, because `OnlyFits` also says it of
what a worker has read and is about to write and of the tasks that add (they are queued
by a follow). That feeds are exact at the end holds in scenes in order that are
`Orderly`, as `SceneAssumption` asks of the constants; those of the run are. Outside of
these the code goes wrong, as TLC shows of every condition. A stream at its limit drops
what nothing brings back; a boost takes the original away; who may see a status again
after an edit or the unblocking of a film is not given it back, and neither is a reply
to what is for followers to those who follow its author later; such a reply stays with
others when it is deleted, as does a direct message; a thread about two films leaves
with either of them; in films streams a deleted status stays, and so does one whose film
leaves a shelf while its author is blocked; in the local one, a boost that was undone.

The invariant speaks of what a user will have once the worker that holds a task has
written (`Kept`: it is about to be added, or is there and not about to be dropped), so
that a pipeline changes nothing. Of every pair of opposite tasks the one that fits the
rows comes last (`Before`), and `Kept` differs from what should be only by what a task
of the queue will mend. This is spelled out for each stream: `HomeOrder` for follows
and tombstones, `LocalOrder` for blocks, `FilmsOrder` for shelves, where a status is
kept for any film its thread is about in public (`PublicFilms`), and all these are
one. `Alone` says that of the workers in order only one is at work. `FeedTypesHold`
comes with it: no stream is longer than its limit (`WrittenTyped`, from `NewestFew`: the
k newest of a finite set are k at most).

**`GroupsProofs`**, of shelves. `DuplicatesTorn`: `ShelvesInv` says of every request that
is not stale that it knows what is so (`Knowing`): the row it is about to delete is that
of the current status shelf (and the film is on no other one, `WithoutCurrent`), the
review it will update is the live one, or there is none. So what it commits leaves one
status shelf and one review. That there is always a review left to write is counted, not
assumed: there are at least as many unused ones as requests that may need one. From the
same invariant, `RevivedStale`: a commit writes a deleted review only if its request is
not in the know, that is, stale.

**`MovesProofs`.** `MovesAreAgreed`: `OnlyAgreedMoves` is about what servers say, and
not inductive: a `movedTo` may be written from what a request read (`copy`), from an
activity, or from a `Move` that passes because of a list of aliases. `IInv`
therefore says of requests (`JobIn`), activities (`Good`), and aliases here and
there (`Within`) too that they are of pairs in `listed`. Since `listed` only grows,
what is good stays good (lemma `Larger`). `OddMovesAlone` adds three things: who has moved
has one row for it (`RowsFit`); nobody moves in a circle, because a move that went where
it was asked to had found its target at home (`NoCircle`); and for every user either the
followers' server is right and nothing on the way speaks against it, or an activity on
the way will make it right and nothing after it undoes that (`AllTold`).

Seven modules also prove their `TypeOK` (`TypeCorrect`, `TypesKept`, `PartsKeepTypes`); in
`FilmListsProofs` it is `TypeInv`, within `IInv`. The proofs have one step per action,
and under it one per conjunct that the action can disturb.

*Only model-checked.* Liveness under fairness and `ENABLED` are out of the prover's
reach: `DeliveredBlockIsFelt`, `NothingHangs`, `JobsEnd`. Every invariant that a passing
run checks is a theorem; that feeds are exact is one of orderly scenes. What the
recursive definitions of the library compute (sums, folds) cannot be proved by induction
with the installed provers.

## 6 What the code does not keep

Four disagreements are in the project as runs.

* `groups_expel`: a user who leaves one of an owner's groups, or is removed from it,
  is taken out of all of that owner's groups (`models/group.py:96` deletes the
  memberships of every group of the owner; `models/group.py:94` says "remove a user
  from a group").
* `delivery_privacy`: `PrivacyField.set_field_from_activity` returns whether the
  privacy is *un*changed (`models/fields.py:273`), where `models/fields.py:81` says
  "Returns if changed"; so a list whose privacy is edited keeps the old one on other
  servers. A status escapes it, as setting its mentions saves it whole.
* `delivery_once`: a comment goes to those it mentions as a Note and to servers of
  this software as a Comment (`models/activitypub_mixin.py:247`); a server to which
  both apply has it twice, since each form looks for its own kind of row
  (`activitypub_mixin.py:97` says that deduplication "always includes remote_id").
* `films_match`: an import finds a film by either identifier and gives it the other
  one, which another row may have; `models/film.py:209` says "there OUGHT to be only
  one match".

The following are kept by the properties as conditions. Each is a trace that TLC
prints when the condition is dropped from the property.

| condition in | what happens without it |
|---|---|
| `DeliveredBlockIsFelt` (one block) | A Block that overtakes the Undo of an earlier block meets the old row and is dropped (`verbs.py:151`); the Undo then removes the only block the other server has. |
| `OnlyTornBlocksLeak` | A follow whose check precedes a block and whose commit follows the severing stays (`relationship.py:91`). |
| `OnlyOvertakenAskTwice` | A request that was read is saved again after it was accepted and stands beside the follow (`views/follow.py:41`). |
| `OnlyRacedPagesLie`, `OnlyOverlapsMislead` (doubled) | A page caches what it read before a change, after the change has cleared the cache (`utils/cache.py:17`, `views/interaction.py:20`); two boosts at once make two rows (`models/status.py:462`). |
| `FeedsAreExact` (in order) | A status that is removed before it is added stays in feeds (`activitystreams.py:624`); a follow and an unfollow leave what the one of them wrote whose task ran last (`:454`). |
| `GapsAreExplained` | An approval of an item that is not last leaves a gap that no normalizing closes (`views/list/curate.py:47`). |
| `OnlyTornDuplicates` | Stars given in two places make two reviews, an import adds a film that is on the other status shelf, two requests put it on both (`views/status.py:92`, `import_films.py:132`, `reading.py:78`). |
| `OnlyStaleRevives`, `OnlyStaleOverwrites` | Saving an edit brings back a deleted review (`views/status.py:111`); saving a profile brings back a deleted account (`models/user.py:463`); a film's form saves the row as it was before TMDB's answer (`views/films/edit_film.py:48`). |
| `OnlyTornContradict` | A registration that has read the setting leaves a pending account that cannot be confirmed (`register.py:80`). |
| `OnlyTornDisagree`, `OnlyStaleGetIn` | An invitation of somebody who is accepting an earlier one can never be accepted (`group.py:121`); a membership is made beside a block (`group.py:65`), or of an invitation that was withdrawn (`group.py:82`). |
| `OnlyDisorderMisleads` | Look-up before lock makes two rows (`base_activity.py:201`); a late Create follows the Delete that found nothing (`verbs.py:66`); a repeated Update fills a tombstone. |
| `OnlyOverlapsErr` | Two requests make two exports (`export.py:159`); the archive is packed before the data are committed (`reeltalk_export_job.py:75`); a cleanup is complete with files left (`housekeeping.py:61`). |
| `OnlyOverlapsMislead` (met) | Two likes at once make two notifications, after which `unnotify` fails, and with it every taking back (`notification.py:120`); a notification is deleted with somebody in it, or stays with nobody (`:124`). |
| `OnlyOverlapsMisinvite` | Two registrations count as one, a deleted code comes back (`register.py:85`); two admins grant a request and one of the invitations is shown nowhere (`views/admin/invite.py:168`). |
| `OnlyRacedOrMixedDouble` | Two who open the same hit make two rows (`tmdb.py:180`); an import mixes two (`import_films.py:70`). |
| `PagesAreExact` (unheard) | Joining or leaving the group, its deletion, and the loss of lists by a block of its owner's write with `update()` or to other tables, whose signals `lists_stream.py` does not handle: a list stays on the page of somebody who cannot open it, or is missing. Unfollowing takes lists that can still be seen, and an account that was away has missed the edits. |
| `SuggestionsAreExact` (unheard) | The stores that are updated are those of users whom the suggested one does not follow, where it should be those who do not follow the suggested one (`suggested_users.py:61`); unblocking, withdrawing a request and coming back update none. |
| `CopiesAreExact` (left out, recast, two forms) | A server that was passed over at the creation ignores every later edit (`verbs.py:82`); the edited privacy of a list never arrives (`fields.py:273`); a comment that mentions is there twice (`activitypub_mixin.py:247`). |
| `OnlyOddMovesMislead` (again, stale) | Who moves twice without coming back has two rows: `unmove` fails if they are for one target (`move_user.py:105`), and resets `moved_to` whichever it deletes; an alias that is saved while a move is made writes the old `moved_to` back (`:82`). |
| `OnlyOddMovesMislead` (bent, raced, oneself) | A move looks its target up, and the server of an account that has moved answers with the one it has moved to (`wellknown.py:26`): in a chain of three, the last one who moves "back to the first" moves to the second, and nobody is at home; the same happens when the target moves between the look and the save, or when somebody is their own alias. |
| `OnlyOddMovesMislead` (back) | The Update of `unmove` carries no `movedTo`, and `set_field_from_activity` passes over what is `None` (`fields.py:94`): followers' servers say for ever that the user has moved. |

## 7 What is not modelled

Pages that only read, forms that validate one field, the administration of the
site, rendering and images: nothing there changes what another part reads (who may
see what they show is `Visibility`). Cryptography, HTTP and the parsing of headers
(`signatures.py`) have no state. Passwords, two-factor codes and sessions are
rows of one user that only they change, or what Django provides. Reports and block
lists are tables that requests are looked up in. Full-text search is a query of the
database.

Of the implementation's lines, nearly half are migrations (18 039 of 40 437), which
have no behaviour of their own: the tables they add up to are the state of the
models. Settings, `urls.py`, forms, image generators and template tags are a large
part of the rest. This is why the share of lines that definitions stand for
is small while most of what decides something is modelled.

Code that nothing calls is left out: `Film.merge_into` (`models/film.py:212`),
`ChildJob` (`models/job.py`), `PartialDateField` (no model has one).

Within the components that are modelled: the unread counters of streams, saved and
embedded lists, the creation and deletion of custom shelves, quotations,
notifications of kinds other than likes and boosts (those of a move too), nested
objects in activities, the contents of an export, the deletion of an account as seen
by its relationships, ranks and the limit of 30 of suggested users, and films that
come from other servers (they have no identifiers here). `Films` does not tell
`ConfirmEditFilm`'s new poster from an old one.

`Delivery` takes both servers to know the relations of users at once
(`FollowProtocol` is about how they come to), has only servers that run this
software, processes an activity in one step (`Ingest` is about how that is done)
and fetches nothing. `Moves` has each user on a server of their own, where the
others are known but nobody follows them; a request's last writes, of the alias,
`moved_to` and the row, are one step, and following the new account is a follow of
`FollowProtocol`. `PROJECT.json` says the rest component by component.

## 8 The plan

The order was that of what matters most: relationships between servers
(`FollowProtocol`, `FollowLifecycle`), inside a server (`RelationshipRaces`), what is
shown of them (`ActivityStreams`); the parts that users edit together (lists,
shelves, groups), accounts, ingestion, jobs and interactions; then what Redis keeps
for the other pages, what other servers are told (`Visibility`, `Delivery`),
invitations, films and moves. Every module is parameterised by `CONSTANTS`, has an
action for each operation and invariants of named parts, and declares no `RECURSIVE`
operator.

What would come next, the model: nested locks in `Ingest`; notifications of other
kinds; custom shelves that go with films on them; the deletion of an account in
`FollowProtocol` and `Moves`. The proofs: those of what is added.
