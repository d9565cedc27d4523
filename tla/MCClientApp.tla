----------------------------- MODULE MCClientApp -----------------------------
(* The client with one user and one server. *)
EXTENDS ClientApp
===============================================================================
