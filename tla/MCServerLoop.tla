---------------------------- MODULE MCServerLoop ----------------------------
(* The event loop: one connection through all the ways it can end. *)
EXTENDS ServerLoop
===============================================================================
