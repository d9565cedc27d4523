----------------------------- MODULE MCTrajectory -----------------------------
(* The promise of the snapshot ring, two players on a short line. *)
EXTENDS SbsmTrajectory, TLC
Same == Permutations(Players)
===============================================================================
