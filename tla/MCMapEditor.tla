------------------------------ MODULE MCMapEditor ------------------------------
(* Two names, a map of one cell. *)
EXTENDS MapEditor, TLC

CONSTANTS x, y, h1, h2

AnyHeader == Permutations(Headers)
===============================================================================
