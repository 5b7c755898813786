------------------------------ MODULE Shelving ------------------------------
(***************************************************************************)
(* A user and a film: the shelves that the film is on and the reviews that *)
(* the user has written of it, as views/reading.py, views/shelf/,          *)
(* views/status.py and the three ways to add films in bulk change them.    *)
(*                                                                         *)
(* A request reads in one step and commits in another.  Nothing keeps two  *)
(* requests apart but unique_together (film, shelf); reviews have no       *)
(* constraint at all.                                                      *)
(***************************************************************************)
EXTENDS Naturals, FiniteSets, FiniteSetsExt

CONSTANTS Custom,   \* the user's own shelves
          Threads,  \* web workers
          MaxRow,   \* bound on primary keys of ShelfFilm
          MaxReview \* bound on reviews

Watchlist == "to-read"
Watched   == "read"
Status    == {Watchlist, Watched}     \* READ_STATUS_IDENTIFIERS
Shelves   == Custom \cup Status
NoShelf   == "none"

ShelfAssumption == /\ Custom \cap (Status \cup {NoShelf}) = {}
                   /\ MaxRow \in Nat /\ MaxReview \in Nat

VARIABLES
  on,       \* on[s]: the primary key of the film's row on shelf s, 0 if none
  reviews,  \* reviews[i]: "none", "live" or "deleted"
  job,      \* job[t]: the request that t handles, with what it has read
  stale,    \* threads whose tables another thread has changed since they read
  torn,     \* history: has a request written on the strength of such a reading?
  careless  \* history: has a way been used that does not look for duplicates?

tables == <<on, reviews>>
vars   == <<on, reviews, job, stale, torn, careless>>

OnShelves(o) == {s \in Shelves : o[s] # 0}
Live(r)      == {i \in 1 .. MaxReview : r[i] = "live"}
Unused       == {i \in 1 .. MaxReview : reviews[i] = "none"}

Idle == [op |-> "idle", shelf |-> NoShelf, drop |-> 0, from |-> NoShelf, review |-> 0]
Busy == {t \in Threads : job[t] # Idle}

\* The primary key of the next row.  Keys that nobody holds are used again,
\* but a later row has a greater key than an earlier one.
row == 1 + Max({0} \cup {on[s] : s \in Shelves} \cup {job[t].drop : t \in Threads})
RowsLeft    == row + Cardinality(Busy) <= MaxRow
ReviewsLeft == Cardinality(Unused) > Cardinality(Busy)

Init ==
  /\ on = [s \in Shelves |-> 0]
  /\ reviews = [i \in 1 .. MaxReview |-> "none"]
  /\ job = [t \in Threads |-> Idle]
  /\ stale = {} /\ torn = FALSE /\ careless = FALSE

-----------------------------------------------------------------------------
Begin(t, j) ==
  /\ job[t] = Idle
  /\ job' = [job EXCEPT ![t] = j]
  /\ UNCHANGED <<tables, stale, torn>>

Finished(t) == job' = [job EXCEPT ![t] = Idle]

\* t commits; those in the middle of a request now hold stale data.
Commit(t, o, r) ==
  /\ on' = o /\ reviews' = r
  /\ stale' = (IF <<o, r>> = tables THEN stale
               ELSE stale \cup Busy) \ {t}
  /\ torn' = (torn \/ t \in stale)
  /\ Finished(t)

\* t gives up: a 404, or an IntegrityError, rolls the transaction back.
RollBack(t) ==
  /\ stale' = stale \ {t}
  /\ Finished(t)
  /\ UNCHANGED <<tables, torn>>

\* The row with primary key k is deleted, if it is still there.
Without(o, k) == [s \in Shelves |-> IF k # 0 /\ o[s] = k THEN 0 ELSE o[s]]

\* shelves[0]: of the film's rows on status shelves the one shelved last.
Current == IF \E s \in Status : on[s] # 0
             THEN CHOOSE s \in Status : on[s] = Max({on[x] : x \in Status})
             ELSE NoShelf
CurrentRow == IF Current = NoShelf THEN 0 ELSE on[Current]

\* The review that "finish" updates, if there is one.
\* (Mutant: it finds deleted ones as well.)
AnyReview == IF \A i \in 1 .. MaxReview : reviews[i] = "none" THEN 0
             ELSE Max({i \in 1 .. MaxReview : reviews[i] # "none"})
ExistingReview == IF Live(reviews) = {} THEN 0 ELSE Max(Live(reviews))

-----------------------------------------------------------------------------
\* ReadingStatus.post: "finish" brings a rating, "want" may move the film from
\* the custom shelf whose page the user is on.  A film that is on the desired
\* shelf already is left alone.
ReadingBegin(t, shelf, from) ==
  /\ RowsLeft /\ ReviewsLeft
  /\ Current # shelf
  /\ from # NoShelf => on[from] # 0
  /\ Begin(t, [op |-> IF shelf = Watched THEN "finish" ELSE "want",
               shelf |-> shelf, drop |-> CurrentRow, from |-> from,
               review |-> IF shelf = Watched THEN ExistingReview ELSE 0])

\* The review is posted or updated last; updating writes the whole status, its
\* deleted flag included.
Posted(t) == IF job[t].review # 0 THEN job[t].review ELSE Min(Unused)
Finish(t) ==
  LET o == Without(on, job[t].drop)
  IN  /\ job[t].op = "finish"
      /\ IF o[Watched] # 0 THEN RollBack(t)
         ELSE Commit(t, [o EXCEPT ![Watched] = row],
                     [reviews EXCEPT ![Posted(t)] = "live"])

\* Without a current status shelf there is nothing to move; otherwise the film
\* must be on the shelf that it is moved from.
\* (Mutant: the film is put on its new shelf without leaving the old one.)
WantBesides(t) ==
  /\ job[t].op = "want"
  /\ IF on[Watchlist] # 0 THEN RollBack(t)
     ELSE Commit(t, [on EXCEPT ![Watchlist] = row], reviews)
Want(t) ==
  LET o == [Without(on, job[t].drop) EXCEPT ![Watchlist] = row]
      moves == job[t].from # NoShelf /\ job[t].drop # 0
  IN  /\ job[t].op = "want"
      /\ IF Without(on, job[t].drop)[Watchlist] # 0 \/ (moves /\ on[job[t].from] = 0)
           THEN RollBack(t)
           ELSE Commit(t, IF moves THEN [o EXCEPT ![job[t].from] = 0] ELSE o, reviews)

\* shelve, for an API client.  A custom shelf that holds the film already is an
\* IntegrityError; the view swallows it, but the transaction is rolled back.
ShelveBegin(t, shelf, from) ==
  /\ RowsLeft
  /\ from # NoShelf => on[from] # 0 /\ from # shelf
  /\ shelf \in Custom \/ Current # shelf
  /\ Begin(t, [op |-> "shelve", shelf |-> shelf, review |-> 0, from |-> from,
               drop |-> IF shelf \in Custom \/ Current = from THEN 0 ELSE CurrentRow])
Shelve(t) ==
  LET left == IF job[t].from = NoShelf THEN on ELSE [on EXCEPT ![job[t].from] = 0]
      o == Without(left, job[t].drop)
  IN  /\ job[t].op = "shelve"
      /\ IF o[job[t].shelf] # 0 \/ (job[t].from # NoShelf /\ on[job[t].from] = 0)
           THEN RollBack(t)
           ELSE Commit(t, [o EXCEPT ![job[t].shelf] = row], reviews)

\* unshelve
UnshelveBegin(t, shelf) ==
  /\ on[shelf] # 0
  /\ Begin(t, [Idle EXCEPT !.op = "unshelve", !.drop = on[shelf]])
Unshelve(t) ==
  job[t].op = "unshelve" /\ Commit(t, Without(on, job[t].drop), reviews)

-----------------------------------------------------------------------------
\* The film is put on a shelf with no regard to the others: FilmWatchlistAdd,
\* which looks whether it is there, and GetStartedFilms, which does not.
QuickBegin(t) ==
  /\ RowsLeft /\ on[Watchlist] = 0
  /\ Begin(t, [Idle EXCEPT !.op = "put", !.shelf = Watchlist])
StartBegin(t, shelf) ==
  /\ RowsLeft
  /\ Begin(t, [Idle EXCEPT !.op = "put", !.shelf = shelf])
Put(t) ==
  /\ job[t].op = "put"
  /\ IF on[job[t].shelf] # 0 THEN RollBack(t)
     ELSE Commit(t, [on EXCEPT ![job[t].shelf] = row], reviews)

\* import_row: a row without a rating goes to the watchlist, one with a rating
\* to the watched films, unless the user has a review.
ImportBegin(t, rated) ==
  /\ RowsLeft /\ ReviewsLeft
  /\ IF rated THEN Live(reviews) = {} ELSE on[Watchlist] = 0
  /\ Begin(t, [Idle EXCEPT !.op = "import", !.shelf = IF rated THEN Watched ELSE Watchlist])
Import(t) ==
  /\ job[t].op = "import"
  /\ LET o == [on EXCEPT ![job[t].shelf] = row]
     IN  IF on[job[t].shelf] # 0 THEN RollBack(t)
         ELSE IF job[t].shelf = Watchlist THEN Commit(t, o, reviews)
         ELSE Commit(t, o, [reviews EXCEPT ![Min(Unused)] = "live"])

-----------------------------------------------------------------------------
\* CreateStatus.post of a review: an existing one can only be edited.
\* (Mutant: this is not looked at.)
MayReviewAgain == TRUE
MayReview == Live(reviews) = {}
ReviewBegin(t) ==
  /\ ReviewsLeft /\ MayReview
  /\ Begin(t, [Idle EXCEPT !.op = "review"])
\* CreateStatus.post of a rating: the stars of the film's page.
RateBegin(t) ==
  /\ ReviewsLeft
  /\ Begin(t, [Idle EXCEPT !.op = "rate"])
Review(t) ==
  /\ job[t].op \in {"review", "rate"}
  /\ Commit(t, on, [reviews EXCEPT ![Min(Unused)] = "live"])

\* CreateStatus.post with an existing status, and DeleteStatus.post: both save
\* the whole status as they have read it.
EditBegin(t, i) ==
  /\ reviews[i] = "live"
  /\ Begin(t, [Idle EXCEPT !.op = "edit", !.review = i])
Edit(t) ==
  job[t].op = "edit" /\ Commit(t, on, [reviews EXCEPT ![job[t].review] = "live"])

DeleteBegin(t, i) ==
  /\ reviews[i] = "live"
  /\ Begin(t, [Idle EXCEPT !.op = "delete", !.review = i])
Delete(t) ==
  job[t].op = "delete" /\ Commit(t, on, [reviews EXCEPT ![job[t].review] = "deleted"])

-----------------------------------------------------------------------------
Step(t) ==
  \/ \E s \in Status, f \in Custom \cup {NoShelf} : ReadingBegin(t, s, f)
  \/ \E s \in Shelves, f \in Shelves \cup {NoShelf} : ShelveBegin(t, s, f)
  \/ \E s \in Shelves : UnshelveBegin(t, s) \/ StartBegin(t, s)
  \/ \E i \in 1 .. MaxReview : EditBegin(t, i) \/ DeleteBegin(t, i)
  \/ \E rated \in BOOLEAN : ImportBegin(t, rated)
  \/ QuickBegin(t) \/ ReviewBegin(t) \/ RateBegin(t)
  \/ Finish(t) \/ Want(t) \/ Shelve(t) \/ Unshelve(t)
  \/ Put(t) \/ Import(t) \/ Review(t) \/ Edit(t) \/ Delete(t)

\* Requests that add without asking where the film is or what was written of it.
Careless == \E t \in Threads : job[t].op \in {"put", "import", "rate"}

Next ==
  /\ \E t \in Threads : Step(t)
  /\ careless' = (careless \/ Careless')

Spec == Init /\ [][Next]_vars
-----------------------------------------------------------------------------
\* shelf_actions.py:33 "A film can be on multiple shelves, but only on one read
\* status shelf at a time" and views/status.py:91 "one review per film": two
\* status shelves, or two reviews, come of nothing but two requests of which one
\* wrote what the other had changed since it read it, or a way to add films or
\* ratings that does not look for them.
OnlyTornDuplicates ==
  ~torn /\ ~careless => /\ Cardinality(OnShelves(on) \cap Status) <= 1
                        /\ Cardinality(Live(reviews)) <= 1

\* views/status.py:203 "tombstone that bad boy": only a request that had read a
\* review before its deletion brings it back.
OnlyStaleRevives ==
  [][\A i \in 1 .. MaxReview : reviews[i] = "deleted" /\ reviews'[i] # "deleted"
       => \E t \in stale : job[t].review = i /\ job'[t] = Idle]_vars
=============================================================================
