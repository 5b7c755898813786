----------------------------- MODULE MCFilmLists -----------------------------
(* A list of a few films; films are alike, and so are workers. *)
EXTENDS FilmLists, TLC
CONSTANTS f1, f2, f3, t1, t2
Two   == {t1, t2}
Three == {f1, f2, f3}
Alike == Permutations(Three) \cup Permutations(Two)
=============================================================================
