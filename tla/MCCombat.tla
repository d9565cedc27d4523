------------------------------ MODULE MCCombat ------------------------------
(* One player who shoots and one who steps aside, on a map open to the left. *)
EXTENDS Combat

CONSTANTS a, b

Columns == [p \in {a, b} |-> IF p = a THEN 1 ELSE 4]
Asks == [p \in {a, b} |-> IF p = a THEN {[move |-> 0, shoot |-> s] : s \in BOOLEAN}
                          ELSE {[move |-> m, shoot |-> FALSE] : m \in {-1, 1}}]
Points == {[x |-> 1, lane |-> 1]}
Magazines == [g \in {"small", "big"} |-> IF g = "small" THEN 1 ELSE 2]
===============================================================================
