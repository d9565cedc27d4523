-------------------------------- MODULE MCSbsm --------------------------------
(* The snapshot ring on a small instance. *)
EXTENDS SbsmLog
===============================================================================
