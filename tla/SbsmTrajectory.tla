---------------------------- MODULE SbsmTrajectory ----------------------------
(***************************************************************************)
(* What the snapshot ring of Sbsm is for: a player whose inputs arrive     *)
(* late should end up where it could be had they arrived in time.  This    *)
(* module adds history variables that remember the inputs filed for every  *)
(* tick, where the last simulation of the tick left each player, the tick  *)
(* every snapshot comes from and what else happened to a player, and       *)
(* states how far the rollback of sbsm.c keeps that promise.               *)
(***************************************************************************)
EXTENDS Sbsm

VARIABLES
  course,    \* course[p][k]: where tick k left p when last simulated, -1: the start
  hist,      \* hist[p][k]: the input filed for tick k, the latest one counting
  done,      \* hist as the last coregame_update found it
  filedAt,   \* the tick of the last input filed
  applied,   \* filedAt as the last coregame_update found it
  taken,     \* taken[s][p]: the tick that left p the way the snapshot in s has it
  clean,     \* players no update has replayed in a way their inputs do not explain
  kept       \* players whose last filed input no update has taken back

history == <<course, hist, done, filedAt, applied, taken, clean, kept>>
tvars == <<vars, history>>

ASSUME RunAssumption == MaxSeq >= 1    \* the ring starts at tick 1

Ticks == 0..MaxSeq    \* the blank snapshot of time 0 can be replayed like any other

TickOf(s) == stamp[s] \div Interval

\* the ways an input may lead p: whatever the clock says, kicked by the gun or
\* not, and cut short by who is in the way
Leads(p, input) ==
  UNION {CutShort(input * length + kick) :
           length \in Lengths \cup {1}, kick \in IF p \in Gunners THEN Kicks \cup {0} ELSE {0}}

TInit ==
  /\ Init
  /\ course = [p \in Players |-> [k \in -1..MaxSeq |-> 0]]
  /\ hist = [p \in Players |-> [k \in Ticks |-> 0]]
  /\ done = hist
  /\ filedAt = [p \in Players |-> 0]
  /\ applied = filedAt
  /\ taken = [s \in Slots |-> [p \in Players |-> 0]]
  /\ clean = Players
  /\ kept = Players

-------------------------------------------------------------------------------
\* p is elsewhere than before that tick
Moved(p, tick) == course[p][seq] # course[p][tick - 1]

\* p has another input than in that tick, or in one since
Turned(p, tick) == \E k \in tick..seq : done[p][k] # done[p][seq]

\* slot o has p as a tick left it that did not start where the slot's own did
Displaced(o, p) == course[p][taken[o][p] - 1] # course[p][TickOf(o) - 1]

\* slot o has an input of p from before the last one replayed
Overtaken(o, p) == pss[o][p] # NoSnap /\ ~Dirty(o, p) /\ taken[o][p] < applied[p]

\* the rollback to slot o cannot restore what p was before that tick: the ring
\* kept nothing of p in that tick, or what it kept is of another tick, or the
\* input it kept was replaced since
Misplaced(o, p) ==
  \/ pss[o][p] = NoSnap /\ (Moved(p, TickOf(o)) \/ Turned(p, TickOf(o)))
  \/ pss[o][p] # NoSnap /\ Displaced(o, p)
  \/ Overtaken(o, p)

\* the rollback to slot o restores an input p has since replaced, and no
\* filed input will put that right
TakenBack(o, p) == Overtaken(o, p) /\ \A s \in Slots : ~Dirty(s, p)

\* where tick k took everybody
Went(k) == [p \in Players |-> [course[p] EXCEPT ![k] = player'[p].pos]]

-------------------------------------------------------------------------------
TJoin(p) ==
  /\ coregame_add_player(p)
  /\ course' = [course EXCEPT ![p] = [k \in -1..MaxSeq |-> player'[p].pos]]
  /\ UNCHANGED <<hist, done, filedAt, applied, taken, clean, kept>>

TLeave(p) ==
  /\ coregame_free_player(p)
  /\ UNCHANGED history

TRefuse(p, input, t) ==
  /\ RefuseInput(p, input, t)
  /\ UNCHANGED history

TFile(p, input, t) ==
  /\ FileInput(p, input, t)
  /\ LET s == sbsm_lookup(t)
         tick == TickOf(s)
     IN
     /\ hist' = [hist EXCEPT ![p] = [k \in Ticks |-> IF k < tick THEN @[k] ELSE input]]
     /\ filedAt' = [filedAt EXCEPT ![p] = tick]
     /\ taken' = IF pss[s][p] = NoSnap THEN [taken EXCEPT ![s][p] = seq] ELSE taken
  /\ kept' = kept \cup {p}
  /\ UNCHANGED <<course, done, applied, clean>>

TMoveBot(p, bots, to) ==
  /\ move_bot(p, bots, to)
  /\ clean' = clean \ bots
  /\ UNCHANGED <<course, hist, done, filedAt, applied, taken, kept>>

TRollback ==
  /\ sbsm_rollback
  /\ clean' = {p \in clean : ~Misplaced(oldest, p)}
  /\ kept' = {p \in kept : ~TakenBack(oldest, p)}
  /\ done' = hist
  /\ applied' = filedAt
  /\ UNCHANGED <<course, hist, filedAt, taken>>

TRewind(busy, killed, spawn, way) ==
  /\ sbsm_rewind(busy, killed, spawn, way)
  /\ clean' = clean \ killed
  /\ kept' = kept \ {p \in killed : \E s \in Slots : s # cursor /\ Dirty(s, p)}
  /\ taken' = [taken EXCEPT ![cursor] = [p \in Players |-> TickOf(cursor)]]
  /\ course' = Went(TickOf(cursor))
  /\ UNCHANGED <<hist, done, filedAt, applied>>

TUpdate(busy, killed, spawn, way) ==
  /\ coregame_update(busy, killed, spawn, way)
  /\ clean' = clean \ killed
  /\ taken' =
       [s \in Slots |->
          IF s = NewPresent THEN [p \in Players |-> seq + 1]
          ELSE IF s = NewBase
          THEN [p \in Players |->
                  IF pss[s][p] = NoSnap THEN taken[baseIdx][p] ELSE taken[s][p]]
          ELSE taken[s]]
  /\ course' = Went(seq + 1)
  /\ UNCHANGED <<hist, done, filedAt, applied, kept>>

TNext ==
  \/ \E p \in Players :
       \/ TJoin(p)
       \/ TLeave(p)
       \/ \E input \in Inputs, t \in 0..(time + Interval) :
            TRefuse(p, input, t) \/ TFile(p, input, t)
       \/ \E bots \in SUBSET (InGame \ {p}), to \in Lo..Hi : TMoveBot(p, bots, to)
  \/ TRollback
  \/ \E busy \in SUBSET (Gunners \cap InGame), killed \in Victims :
     \E spawn \in [killed -> Spawns], way \in [InGame -> AnyWay] :
       TRewind(busy, killed, spawn, way) \/ TUpdate(busy, killed, spawn, way)

TSpec == TInit /\ [][TNext]_tvars

-------------------------------------------------------------------------------
Settled == pc = "idle" /\ oldest = NoSlot

(***************************************************************************)
(* Between updates, with nothing waiting to be replayed, a player stands   *)
(* where its filed inputs, each counted from the tick it was filed under,  *)
(* could have led it had they come in time: every tick starts where the    *)
(* one before it ended and goes a way its input leads (coregame_update,    *)
(* sbsm_rollback).  Not so if it was killed or moved as a bot, or an       *)
(* update rolled the world back past an input of its own replayed before,  *)
(* or to a tick of which the ring has no snapshot of its own: none though  *)
(* it has moved or turned since, or one of a tick that started elsewhere,  *)
(* inherited from an older base or made of the present by the handler.     *)
(***************************************************************************)
TrajectoryReplayed ==
  Settled => \A p \in clean \cap InGame :
               /\ player[p].pos = course[p][seq]
               /\ player[p].input = hist[p][seq]
               /\ \A k \in 0..seq : \E d \in Leads(p, hist[p][k]) :
                    course[p][k] = Clamp(course[p][k - 1] + d, Lo, Hi)

(***************************************************************************)
(* The last input filed is the one in force -- unless its player was       *)
(* killed while it waited, or somebody else's late input made sbsm_rollback*)
(* restore an older one (the replay applies only inputs not applied yet).  *)
(***************************************************************************)
FiledInputInForce ==
  Settled => \A p \in kept \cap InGame : player[p].input = hist[p][MaxSeq]

(***************************************************************************)
(* What a settled server shows is what the inputs it was sent lead to: the *)
(* positions replayed from them, and the last of them in force.            *)
(***************************************************************************)
InputsReplayed == TrajectoryReplayed /\ FiledInputInForce
===============================================================================
