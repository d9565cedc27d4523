------------------------------- MODULE InputLog -------------------------------
(***************************************************************************)
(* What the snapshot ring promises about inputs, without a ring: a log of  *)
(* the last Depth ticks, under which inputs are filed while it is open,    *)
(* never under an earlier tick than the newest a player was heard at; a    *)
(* round that replays the ticks in order, once each has an input on file;  *)
(* and a new tick only when no input is left waiting.                      *)
(*                                                                         *)
(* Filed inputs are known by their ticks alone.  They are given up only    *)
(* by being replayed, or when their player dies or leaves.                 *)
(***************************************************************************)
EXTENDS Integers

CONSTANTS
  Players,
  Depth      \* ticks the log goes back, at least one

VARIABLES
  now,       \* the present tick
  open,      \* inputs can be filed: no round is under way
  members,   \* players in the game
  filed,     \* the ticks under which inputs of a player wait
  newest     \* the newest tick at which a player was heard

vars == <<now, open, members, filed, newest>>

Kept == {k \in 0 .. now : k > now - Depth}

Init ==
  /\ now = 1
  /\ open = TRUE
  /\ members = {}
  /\ filed = [p \in Players |-> {}]
  /\ newest = [p \in Players |-> 0]

Join(p) ==
  /\ open
  /\ p \notin members
  /\ members' = members \cup {p}
  /\ newest' = [newest EXCEPT ![p] = 0]
  /\ UNCHANGED <<now, open, filed>>

Leave(p) ==
  /\ open
  /\ p \in members
  /\ members' = members \ {p}
  /\ filed' = [filed EXCEPT ![p] = {}]
  /\ UNCHANGED <<now, open, newest>>

\* a change of input is filed; what changes nothing is not
Hear(p, k) ==
  /\ open
  /\ p \in members
  /\ newest[p] <= k
  /\ newest' = [newest EXCEPT ![p] = k]
  /\ \/ filed' = [filed EXCEPT ![p] = @ \cup {k}]
     \/ UNCHANGED filed
  /\ UNCHANGED <<now, open, members>>

Replay(k, died) ==
  /\ \A p \in Players : \A j \in filed[p] : k <= j
  /\ filed' = [p \in Players |-> IF p \in died THEN {} ELSE filed[p] \ {k}]
  /\ open' = FALSE
  /\ UNCHANGED <<now, members, newest>>

Advance ==
  /\ \A p \in Players : filed[p] = {}
  /\ now' = now + 1
  /\ open' = TRUE
  /\ UNCHANGED <<members, filed, newest>>

Next ==
  \/ \E p \in Players : Join(p) \/ Leave(p) \/ \E k \in Kept : Hear(p, k)
  \/ \E k \in Kept, died \in SUBSET members : Replay(k, died)
  \/ Advance

Spec == Init /\ [][Next]_vars
===============================================================================
