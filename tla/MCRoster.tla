------------------------------- MODULE MCRoster -------------------------------
(* Clients and server on a small instance. *)
EXTENDS Roster, TLC
Sym == Permutations(Clients)
===============================================================================
