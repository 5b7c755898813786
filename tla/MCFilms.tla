------------------------------ MODULE MCFilms -------------------------------
(* One film of TMDB and one worker: no two requests overlap. *)
EXTENDS Films
CONSTANT t1
=============================================================================
