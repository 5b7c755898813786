------------------------------- MODULE Films --------------------------------
(***************************************************************************)
(* What becomes of one film of TMDB in this server's table of films:       *)
(* looked up and created from a search (tmdb.py), created and identified   *)
(* by the import of a file (views/preferences/import_films.py), completed  *)
(* by the task that follows an import, made and edited by hand             *)
(* (views/films).  Every row of the model bears the title of that film;    *)
(* the table has no unique constraint on the identifiers.                  *)
(*                                                                         *)
(* A thread looks, waits for TMDB, and writes what it decided; save()      *)
(* without update_fields writes the whole row as the thread has it.        *)
(***************************************************************************)
EXTENDS Naturals, Sequences, FiniteSets

CONSTANTS Threads,    \* web and task workers
          MaxFilms,   \* a bound on the rows
          MaxRequests \* a bound on the requests and tasks of a behaviour

Nothing == "nothing"

VARIABLES
  films,    \* the rows, by id
  job,      \* job[t]: what t does next, for which film, with its copy of it
  requests, \* how many requests and tasks there have been
  stale,    \* threads that have read films and seen one changed since
  raced,    \* history: has a stale thread made or identified a film?
  mixed     \* history: was a film found by the one identifier given the other,
            \* which some other film had?

vars == <<films, job, requests, stale, raced, mixed>>

Ids == {"tmdb", "imdb"}
Texts == {Nothing, "tmdb", "hand"}
Rows == [ids : SUBSET Ids, year : BOOLEAN, text : Texts, poster : BOOLEAN]
Ops == {"idle", "match", "create", "backfill", "poster", "import", "matched", "edit",
        "describe", "upload", "absorb"}

Blank == [ids |-> {}, year |-> FALSE, text |-> Nothing, poster |-> FALSE]
Idle  == [op |-> "idle", film |-> 0, copy |-> Blank]

Init ==
  /\ films = <<>>
  /\ job = [t \in Threads |-> Idle]
  /\ requests = 0 /\ stale = {} /\ raced = FALSE /\ mixed = FALSE

-----------------------------------------------------------------------------
(* Film.find_existing, the fallback to title and year, and first() *)

Having(ids) == {f \in DOMAIN films : films[f].ids \cap ids # {}}
OfTheYear   == {f \in DOMAIN films : films[f].year}
First(s)    == CHOOSE f \in s : \A g \in s : f <= g

FoundByTitle(ids, year) ==   \* (Mutant: the title first, the identifiers only then.)
  IF year /\ OfTheYear # {} THEN First(OfTheYear)
  ELSE IF Having(ids) # {} THEN First(Having(ids)) ELSE 0

Found(ids, year) ==
  IF Having(ids) # {} THEN First(Having(ids))
  ELSE IF year /\ OfTheYear # {} THEN First(OfTheYear) ELSE 0

-----------------------------------------------------------------------------
Begins(t) == job[t] = Idle /\ requests < MaxRequests /\ requests' = requests + 1
Starts(t, op, f, copy) ==
  /\ Begins(t)
  /\ job' = [job EXCEPT ![t] = [op |-> op, film |-> f, copy |-> copy]]
  /\ UNCHANGED <<films, stale, raced, mixed>>

On(t, op) == job[t].op = op

\* A row is inserted, or saved whole; it may get identifiers by that.
Inserts(row) == Len(films) < MaxFilms /\ films' = Append(films, row)
Saves(t, row) == films' = [films EXCEPT ![job[t].film] = row]
Notes(t) ==
  raced' = (raced \/ (t \in stale /\ \E f \in DOMAIN films' :
    ~(films'[f].ids \subseteq IF f \in DOMAIN films THEN films[f].ids ELSE {})))

Goes(t, op, f, copy) ==
  /\ job' = [job EXCEPT ![t] = IF op = "idle" THEN Idle
                               ELSE [op |-> op, film |-> f, copy |-> copy]]
  /\ stale' = (IF films' # films THEN {x \in Threads : job[x] # Idle} ELSE stale)
              \ (IF op = "idle" THEN {t} ELSE IF t \in stale THEN {} ELSE {t})
  /\ UNCHANGED requests
  /\ Notes(t)


\* What follows on a film that may lack its poster: its download.
ThenPoster(t, f, row) ==
  Goes(t, IF row.poster THEN "idle" ELSE "poster", f, row)

\* The answer of TMDB or the poster does not come, or the worker dies.
GiveUp(t) ==
  /\ job[t] # Idle
  /\ films' = films /\ Goes(t, "idle", 0, Blank)
  /\ UNCHANGED mixed

-----------------------------------------------------------------------------
(* tmdb.ensure_local_film: a search hit is opened or put on a watchlist. *)

Search(t) ==
  /\ LET f == First(Having({"tmdb"}))
     IN  IF Having({"tmdb"}) = {} THEN Starts(t, "match", 0, Blank)
         ELSE ~films[f].poster /\ Starts(t, "poster", f, films[f])

Match(t) ==
  /\ On(t, "match")
  /\ films' = films
  /\ IF OfTheYear # {} THEN Goes(t, "backfill", First(OfTheYear), films[First(OfTheYear)])
                       ELSE Goes(t, "create", 0, Blank)
  /\ UNCHANGED mixed

FromTmdb == [ids |-> {"tmdb"}, year |-> TRUE, text |-> "tmdb", poster |-> FALSE]

Create(t) ==
  /\ On(t, "create")
  /\ Inserts(FromTmdb)
  /\ ThenPoster(t, Len(films'), FromTmdb)
  /\ UNCHANGED mixed

BackfilledAnew(row) ==   \* (Mutant: TMDB's description replaces the one there is.)
  [row EXCEPT !.ids = @ \cup {"tmdb"}, !.year = TRUE, !.text = "tmdb"]

\* backfill_film_from_tmdb fills what is empty, and saves if that was something.
Backfilled(row) ==
  [row EXCEPT !.ids = @ \cup {"tmdb"}, !.year = TRUE,
              !.text = IF @ = Nothing THEN "tmdb" ELSE @]

Backfill(t) ==
  LET old == job[t].copy
      new == Backfilled(old)
  IN  /\ On(t, "backfill")
      /\ IF new = old THEN films' = films ELSE Saves(t, new)
      /\ ThenPoster(t, job[t].film, new)
      /\ UNCHANGED mixed

\* add_poster
Poster(t) ==
  /\ On(t, "poster")
  /\ Saves(t, [job[t].copy EXCEPT !.poster = TRUE])
  /\ Goes(t, "idle", 0, Blank)
  /\ UNCHANGED mixed

-----------------------------------------------------------------------------
(* The import of a file, one row of it, and the task that completes it. *)

\* find_or_create_film looks with what the line of the file gives; what it will
\* write is settled then: a new film, or the one found with what it lacked.
ImportLook(t, ids, year) ==
  LET f    == Found(ids, year)
      line == [Blank EXCEPT !.ids = ids, !.year = year]
      row  == IF f = 0 THEN line
              ELSE [films[f] EXCEPT !.ids = @ \cup ids, !.year = @ \/ year]
  IN  /\ ids # {} \/ year
      /\ Begins(t)
      /\ job' = [job EXCEPT ![t] =
                  [op |-> IF f # 0 /\ row = films[f] THEN "matched" ELSE "import",
                   film |-> f, copy |-> row]]
      /\ mixed' = (mixed \/ (f \in Having(ids) /\ \E g \in DOMAIN films \ {f} :
                      films[g].ids \cap (row.ids \ films[f].ids) # {}))
      /\ UNCHANGED <<films, stale, raced>>

\* The row is saved if it lacked something.
Import(t) ==
  LET f == job[t].film
  IN  /\ \/ On(t, "matched") /\ films' = films
         \/ On(t, "import") /\ f # 0 /\ Saves(t, job[t].copy)
         \/ On(t, "import") /\ f = 0 /\ Inserts(job[t].copy)
      /\ Goes(t, "idle", 0, Blank)
      /\ UNCHANGED mixed

\* backfill_imported_films_task reads the film anew; any film that has TMDB's
\* identifier may have been in some file.
Task(t, f) ==
  /\ "tmdb" \in films[f].ids
  /\ ~(films[f].poster /\ films[f].text # Nothing)
  /\ Starts(t, "backfill", f, films[f])

-----------------------------------------------------------------------------
(* By hand: forms, for films that are not TMDB's *)

Forms == [ids : {{}}, year : BOOLEAN, text : {Nothing, "hand"}, poster : BOOLEAN]

\* CreateFilm, and ConfirmEditFilm when none of the matches is meant.
CreateByHand(t, form) ==
  /\ Begins(t)
  /\ Inserts(form)
  /\ stale' = {x \in Threads : job[x] # Idle}
  /\ UNCHANGED <<job, mixed>>
  /\ Notes(t)

\* EditFilm, add_description and upload_poster turn away from TMDB's films.
OursToEdit(f) == "tmdb" \notin films[f].ids

Open(t, f) ==
  /\ OursToEdit(f)
  /\ \E op \in {"edit", "describe", "upload"} : Starts(t, op, f, films[f])

Edit(t, form) ==
  /\ On(t, "edit")
  /\ Saves(t, [form EXCEPT !.ids = job[t].copy.ids, !.poster = @ \/ job[t].copy.poster])
  /\ Goes(t, "idle", 0, Blank)
  /\ UNCHANGED mixed

\* Only this one names its field: save(update_fields = ["description", ...]).
Describe(t, text) ==
  /\ On(t, "describe")
  /\ films' = [films EXCEPT ![job[t].film].text = text]
  /\ Goes(t, "idle", 0, Blank)
  /\ UNCHANGED mixed

Upload(t) ==
  /\ On(t, "upload")
  /\ Saves(t, [job[t].copy EXCEPT !.poster = TRUE])
  /\ Goes(t, "idle", 0, Blank)
  /\ UNCHANGED mixed

\* ConfirmEditFilm with a match: TMDB's films too absorb what they lack, and a
\* poster, whether or not they have one.
Confirm(t, f) ==
  Starts(t, "absorb", f, films[f])

Absorb(t, form) ==
  /\ On(t, "absorb")
  /\ Saves(t, [job[t].copy EXCEPT !.year = @ \/ form.year, !.poster = @ \/ form.poster,
                                  !.text = IF @ = Nothing THEN form.text ELSE @])
  /\ Goes(t, "idle", 0, Blank)
  /\ UNCHANGED mixed

Step(t) ==
  \/ Search(t) \/ Match(t) \/ Create(t) \/ Backfill(t) \/ Poster(t)
  \/ GiveUp(t) \/ Import(t) \/ Upload(t)
  \/ \E ids \in SUBSET Ids, year \in BOOLEAN : ImportLook(t, ids, year)
  \/ \E f \in DOMAIN films : Task(t, f) \/ Open(t, f) \/ Confirm(t, f)
  \/ \E form \in Forms : CreateByHand(t, form) \/ Edit(t, form) \/ Absorb(t, form)
  \/ \E text \in {Nothing, "hand"} : Describe(t, text)

Next == \E t \in Threads : Step(t)
Spec == Init /\ [][Next]_vars

-----------------------------------------------------------------------------
\* The types.
TypeOK ==
  /\ films \in Seq(Rows) /\ Len(films) <= MaxFilms
  /\ job \in [Threads -> [op : Ops, film : 0..MaxFilms, copy : Rows]]
  /\ requests \in 0..MaxRequests
  /\ stale \subseteq Threads /\ raced \in BOOLEAN /\ mixed \in BOOLEAN

\* "there OUGHT to be only one match" (models/film.py:209): whatever
\* identifiers are asked for, find_existing has at most one film to choose from.
OneMatch == \A ids \in SUBSET Ids : Cardinality(Having(ids)) <= 1

\* TMDB's identifier is on two rows only if a thread made or identified a film
\* on the strength of a search that was not true any more, or if an import
\* gave it to a film it had found by the other identifier.
OnlyRacedOrMixedDouble ==
  Cardinality(Having({"tmdb"})) > 1 => raced \/ mixed

\* TMDB is the source of truth: once a film has its identifier there, nobody
\* takes that or the poster away or replaces the description, unless they write
\* what they read before somebody else wrote (views/films/edit_film.py:36).
Overruled(f) ==
  LET old == films[f]
      new == films'[f]
  IN  /\ "tmdb" \in old.ids
      /\ \/ ~(old.ids \subseteq new.ids)
         \/ old.text \notin {Nothing, new.text}
         \/ old.poster /\ ~new.poster
OnlyStaleOverrules ==
  [][\A f \in DOMAIN films : Overruled(f) =>
        \E t \in stale : job'[t] # job[t]]_vars
=============================================================================
