------------------------------- MODULE SbsmLog --------------------------------
(***************************************************************************)
(* The snapshot ring implements the log of inputs: slots and timestamps    *)
(* are ticks, a dirty snapshot is an input on file, and coregame_update's  *)
(* rewind is the round that replays them.                                  *)
(***************************************************************************)
EXTENDS Sbsm

Tick(s) == seq - Behind(s)

Filed == [p \in Players |-> {Tick(s) : s \in {k \in Slots : Dirty(k, p)}}]

Newest == [p \in Players |-> player[p].last \div Interval]

Log == INSTANCE InputLog WITH
  Depth <- Size, now <- seq, open <- (pc = "idle"), members <- InGame,
  filed <- Filed, newest <- Newest

(***************************************************************************)
(* Inputs are filed, replayed and given up as the log has it: whatever the *)
(* ring does with its slots, an update replays every filed input, each in  *)
(* its tick and the ticks in order, before it makes a new one.             *)
(***************************************************************************)
ImplementsLog == Log!Spec
===============================================================================
