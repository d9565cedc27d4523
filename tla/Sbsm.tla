--------------------------------- MODULE Sbsm ---------------------------------
(***************************************************************************)
(* The server's snapshot ring (lib/coregame/src/sbsm.c) and the handlers   *)
(* of lib/coregame/src/coregame.c that read and write it.                  *)
(*                                                                         *)
(* The ring keeps the last Size ticks.  A client stamps every input with   *)
(* the server time it believes in; the handler files the input into the    *)
(* snapshot of that time and remembers the oldest snapshot touched.  The   *)
(* next coregame_update rolls the players back to that snapshot, replays   *)
(* every tick up to the present with the filed inputs, rotates the ring    *)
(* and simulates the new tick.                                             *)
(*                                                                         *)
(* An input is the displacement it asks for on a line, the walls are the   *)
(* ends of the line, and time is counted in units of which a tick takes    *)
(* Interval.  How far a tick takes a player does not depend on its input   *)
(* alone: a new tick is as long as the clock says, a replayed one is as    *)
(* long as it should be, another player may be in the way, and a gun may   *)
(* kick.  The line is one axis of the plane, so who is in whose way is not *)
(* decided here: any other player may be.                                  *)
(*                                                                         *)
(* What the gun and the bullets do to a player is reduced to two choices:  *)
(* a gun that marks its owner dirty, and a bullet that kills its target.   *)
(* coregame_update is cut into the steps of its own loop (pc); the program *)
(* is single-threaded, so no handler runs between them.                    *)
(*                                                                         *)
(* A definition marked "mutant" is the one after it with a plausible bug;  *)
(* no behaviour uses it.                                                   *)
(***************************************************************************)
EXTENDS Integers

CONSTANTS
  Size,        \* snapshots in the ring: tickrate / 4
  Interval,    \* time units per tick: 1000 / tickrate
  Players,     \* player ids the server may hand out, each at most once
  Inputs,      \* input values; an input is the displacement it asks for
  Spawns,      \* spawn positions of the map
  Lo, Hi,      \* the walls
  Lengths,     \* how long a new tick may take by the clock, in intervals
  Kicks,       \* what the knockback of a gun may add to a new tick
  Gunners,     \* players whose gun may be busy (shooting, charging, reloading)
  Mortals,     \* players a bullet may kill
  MaxSeq,      \* bound: ticks simulated
  MaxSent      \* bound: inputs and moves of bots the clients send

ASSUME SizeAssumption == Size \in Nat \ {0}
ASSUME IntervalAssumption == Interval \in Nat \ {0}
ASSUME WorldAssumption ==
  /\ Lo \in Int /\ Hi \in Int /\ Lo <= 0 /\ 0 <= Hi
  /\ Inputs \subseteq Int /\ 0 \in Inputs
  /\ Spawns \subseteq Lo..Hi /\ Spawns # {}
  /\ Lengths \subseteq Nat /\ Kicks \subseteq Int
  /\ Gunners \subseteq Players /\ Mortals \subseteq Players
ASSUME BoundAssumption == MaxSeq \in Nat /\ MaxSent \in Nat

Slots == 0..(Size - 1)
NoSlot == -1                       \* oldest_change == NULL
NoSnap == [none |-> TRUE]          \* ght_get() == NULL

VARIABLES
  seq,         \* sbsm->seq
  time,        \* sbsm->time
  presentIdx,  \* sbsm->present_idx (and sbsm->present)
  baseIdx,     \* sbsm->base_idx (and sbsm->base)
  stamp,       \* snapshots[i].timestamp
  pss,         \* snapshots[i].player_states
  oldest,      \* sbsm->oldest_change
  player,      \* cg->players
  pc,          \* where coregame_update is: idle, rewind or rotate
  cursor,      \* the snapshot sbsm_rewind is at
  sent         \* datagrams received in time, counted for the bound only

ringVars == <<seq, time, presentIdx, baseIdx, stamp>>
vars == <<seq, time, presentIdx, baseIdx, stamp, pss, oldest, player, pc, cursor, sent>>

Snap == [pos : Int, vel : Int, input : Inputs, dirty : BOOLEAN, count : Nat]

Player ==
  [st : {"absent", "in", "left"}, pos : Int, vel : Int, input : Inputs,
   prevPos : Int, prevDir : Inputs, dirty : BOOLEAN, last : Nat]

NewPlayer(spawn) ==
  [st |-> "in", pos |-> spawn, vel |-> 0, input |-> 0,
   prevPos |-> 0, prevDir |-> 0, dirty |-> FALSE, last |-> 0]

InGame == {p \in Players : player[p].st = "in"}

Wrap(i) == IF i >= Size THEN 0 ELSE i

-------------------------------------------------------------------------------
(* Time to snapshot. *)

CeilDiv(t) == (t + Interval - 1) \div Interval

sbsm_index(t) == CeilDiv(t) % Size

Clamp(t, lo, hi) == IF t < lo THEN lo ELSE IF t > hi THEN hi ELSE t

sbsm_lookup(t) == sbsm_index(Clamp(t, stamp[baseIdx], stamp[presentIdx]))

-------------------------------------------------------------------------------
(* One player: simulate a tick, commit to a snapshot, restore from one. *)

\* cg_resolve_player_collision: whoever is in the way takes from a way of d,
\* all of it or less, and never turns it round
CutShort(d) == IF d < 0 THEN d..0 ELSE 0..d

\* the ways that input may lead in a tick of that length with that kick
Ways(input, length, kick) ==
  LET full == input * length + kick IN
  IF \E p, q \in InGame : p # q THEN CutShort(full) ELSE {full}

MoveTo(r, way) == Clamp(r.pos + way, Lo, Hi)

coregame_update_player(r, gunBusy, way) ==
  [r EXCEPT !.pos = MoveTo(r, way),
            !.vel = MoveTo(r, way) - r.pos,
            !.dirty = @ \/ gunBusy \/ r.prevDir # r.input \/ r.prevPos # MoveTo(r, way),
            !.prevPos = MoveTo(r, way),
            !.prevDir = r.input]

\* what sbsm_commit_player leaves in the snapshot that held s
sbsm_commit_player(s, r) ==
  IF ~r.dirty THEN NoSnap
  ELSE [pos |-> r.pos, vel |-> r.vel, input |-> r.input, dirty |-> FALSE,
        count |-> IF s = NoSnap THEN 0 ELSE s.count]

Committed(r) == [r EXCEPT !.dirty = FALSE]

\* mutants: the position after the tick, the input left alone
sbsm_rollback_player_After(s, r) ==
  IF s = NoSnap \/ r.st # "in" THEN r
  ELSE [r EXCEPT !.pos = s.pos, !.input = s.input]

sbsm_rollback_player_NoInput(s, r) ==
  IF s = NoSnap \/ r.st # "in" THEN r ELSE [r EXCEPT !.pos = s.pos - s.vel]

sbsm_rollback_player(s, r) ==
  IF s = NoSnap \/ r.st # "in" THEN r
  ELSE [r EXCEPT !.pos = s.pos - s.vel, !.input = s.input]

\* mutant: the test of pss->dirty the wrong way round
TakeInput_Clean(s, r) ==
  IF s # NoSnap /\ ~s.dirty THEN [r EXCEPT !.input = s.input] ELSE r

\* the part of sbsm_rewind_player that takes a filed input
TakeInput(s, r) ==
  IF s # NoSnap /\ s.dirty THEN [r EXCEPT !.input = s.input] ELSE r

\* mutant: the loop ends one slot early
sbsm_delete_player_Short(f, gone) ==
  [s \in Slots |-> [p \in Players |->
     IF p \in gone /\ s # Size - 1 THEN NoSnap ELSE f[s][p]]]

\* on_player_damaged of players whose health ran out: forgotten by every
\* snapshot and respawned
sbsm_delete_player(f, gone) ==
  [s \in Slots |-> [p \in Players |-> IF p \in gone THEN NoSnap ELSE f[s][p]]]

Respawned(r, spawn) == [r EXCEPT !.pos = spawn]

\* a bullet hurts only players other than its owner, and only while that
\* owner is still connected
Victims == IF \E p, q \in InGame : p # q THEN SUBSET (Mortals \cap InGame) ELSE {{}}

-------------------------------------------------------------------------------
Init ==
  /\ seq = 1
  /\ time = Interval
  /\ presentIdx = Wrap(1)
  /\ baseIdx = 0
  /\ stamp = [s \in Slots |-> IF s = Wrap(1) THEN Interval ELSE 0]
  /\ pss = [s \in Slots |-> [p \in Players |-> NoSnap]]
  /\ oldest = NoSlot
  /\ player = [p \in Players |-> [NewPlayer(0) EXCEPT !.st = "absent"]]
  /\ pc = "idle"
  /\ cursor = 0
  /\ sent = 0

(***************************************************************************)
(* client_tcp_connect: a new player with a gun at the next spawn point.    *)
(***************************************************************************)
coregame_add_player(p) ==
  /\ pc = "idle"
  /\ player[p].st = "absent"
  /\ \E spawn \in Spawns : player' = [player EXCEPT ![p] = NewPlayer(spawn)]
  /\ UNCHANGED <<ringVars, pss, oldest, pc, cursor, sent>>

(***************************************************************************)
(* server_close_client: the player is forgotten by every snapshot.  The    *)
(* oldest change stays, even if it was this player's.                      *)
(***************************************************************************)
coregame_free_player(p) ==
  /\ pc = "idle"
  /\ player[p].st = "in"
  /\ pss' = sbsm_delete_player(pss, {p})
  /\ player' = [player EXCEPT ![p].st = "left"]
  /\ UNCHANGED <<ringVars, oldest, pc, cursor, sent>>

(***************************************************************************)
(* coregame_set_player_input_t(cg, p, input, t), in three parts: a late    *)
(* input is dropped; an input equal to the one on file, or the third       *)
(* change of one snapshot, only moves last_input_timestamp; any other is   *)
(* filed.                                                                  *)
(***************************************************************************)
LateInput_Never(p, t) == FALSE                               \* mutant

LateInput(p, t) == player[p].last > stamp[sbsm_lookup(t)]

\* the snapshot the handler works on: the one on file, or one made of the
\* player as it is now
OnFile(s, p) ==
  IF pss[s][p] # NoSnap THEN pss[s][p]
  ELSE [pos |-> player[p].pos, vel |-> player[p].vel, input |-> player[p].input,
        dirty |-> FALSE, count |-> 0]

Refused(s, p, input) ==
  /\ pss[s][p] # NoSnap
  /\ pss[s][p].input = input \/ pss[s][p].count > 1

OldestOf_First(s) == IF oldest = NoSlot THEN s ELSE oldest   \* mutant: never looks back

OldestOf(s) ==
  IF oldest = NoSlot THEN s ELSE IF stamp[s] < stamp[oldest] THEN s ELSE oldest

RefuseInput(p, input, t) ==
  LET s == sbsm_lookup(t) IN
  /\ pc = "idle"
  /\ player[p].st = "in"
  /\ ~LateInput(p, t)
  /\ Refused(s, p, input)
  /\ sent < MaxSent /\ sent' = sent + 1
  /\ player' = [player EXCEPT ![p].last = stamp[s]]
  /\ UNCHANGED <<ringVars, pss, oldest, pc, cursor>>

FileInput(p, input, t) ==
  LET s == sbsm_lookup(t) IN
  /\ pc = "idle"
  /\ player[p].st = "in"
  /\ ~LateInput(p, t)
  /\ ~Refused(s, p, input)
  /\ sent < MaxSent /\ sent' = sent + 1
  /\ player' = [player EXCEPT ![p].last = stamp[s]]
  /\ pss' = [pss EXCEPT ![s][p] =
               [OnFile(s, p) EXCEPT !.input = input, !.dirty = TRUE, !.count = @ + 1]]
  /\ oldest' = OldestOf(s)
  /\ UNCHANGED <<ringVars, pc, cursor>>

(***************************************************************************)
(* move_bot, from a player who is no bot: all bots are put at one place.   *)
(* bot_mode makes a player a bot or none at any time, so any other may be. *)
(***************************************************************************)
move_bot(p, bots, to) ==
  /\ pc = "idle"
  /\ player[p].st = "in"
  /\ bots # {}
  /\ sent < MaxSent /\ sent' = sent + 1
  /\ player' = [q \in Players |->
                  IF q \in bots THEN [player[q] EXCEPT !.pos = to] ELSE player[q]]
  /\ UNCHANGED <<ringVars, pss, oldest, pc, cursor>>

(***************************************************************************)
(* sbsm_rollback: put the players on file back to before the oldest        *)
(* changed tick and start rewinding there.                                 *)
(***************************************************************************)
sbsm_rollback ==
  /\ pc = "idle"
  /\ oldest # NoSlot
  /\ player' = [p \in Players |-> sbsm_rollback_player(pss[oldest][p], player[p])]
  /\ pss' = [pss EXCEPT ![oldest] =
               [p \in Players |->
                  IF pss[oldest][p] # NoSnap /\ player[p].st = "in"
                  THEN [pss[oldest][p] EXCEPT !.dirty = FALSE]
                  ELSE pss[oldest][p]]]
  /\ oldest' = NoSlot
  /\ cursor' = sbsm_index(stamp[oldest])
  /\ pc' = "rewind"
  /\ UNCHANGED <<ringVars, sent>>

(***************************************************************************)
(* One turn of sbsm_rewind's loop: replay a tick for every player, then    *)
(* for every bullet.  sbsm_rollback has set the length of the tick to the  *)
(* interval, and the velocity is set after the gun's update: no kick.      *)
(***************************************************************************)
NextSlot(s) == Wrap(s + 1)

RewindOn_NoBreak == stamp[NextSlot(cursor)] <= stamp[presentIdx]   \* mutant

\* the loop goes on unless this was the present or the next is beyond it
RewindOn == cursor # presentIdx /\ stamp[NextSlot(cursor)] <= stamp[presentIdx]

\* players that are on in game after they simulate a tick; the snapshot f is
\* the one they commit to
Simulated(f, busy, way) ==
  [p \in Players |->
     IF player[p].st = "in"
     THEN coregame_update_player(TakeInput(f[p], player[p]), p \in busy, way[p])
     ELSE player[p]]

AfterTick(sim, killed, spawn) ==
  [p \in Players |->
     IF p \in killed THEN Respawned(Committed(sim[p]), spawn[p])
     ELSE IF sim[p].st = "in" THEN Committed(sim[p]) ELSE sim[p]]

CommitAll(f, sim) ==
  [p \in Players |->
     IF sim[p].st = "in" THEN sbsm_commit_player(f[p], sim[p]) ELSE f[p]]

sbsm_rewind(busy, killed, spawn, way) ==
  /\ pc = "rewind"
  /\ \A p \in InGame : way[p] \in Ways(TakeInput(pss[cursor][p], player[p]).input, 1, 0)
  /\ LET sim == Simulated(pss[cursor], busy, way) IN
     /\ player' = AfterTick(sim, killed, spawn)
     /\ pss' = sbsm_delete_player(
                 [pss EXCEPT ![cursor] = CommitAll(pss[cursor], sim)], killed)
  /\ pc' = IF RewindOn THEN "rewind" ELSE "rotate"
  /\ cursor' = IF RewindOn THEN NextSlot(cursor) ELSE cursor
  /\ UNCHANGED <<ringVars, oldest, sent>>

(***************************************************************************)
(* sbsm_rotate, then the new tick of coregame_update: when the present     *)
(* catches the base, the base moves on and inherits the player snapshots   *)
(* it lacks; the new present starts empty.  The new tick is as long as the *)
(* time since the last one, but after a rewind as long as the replayed.    *)
(***************************************************************************)
NewPresent == Wrap(presentIdx + 1)

NewBase_Stays == baseIdx                                                     \* mutant
NewBase_NoWrap == IF NewPresent = baseIdx THEN baseIdx + 1 ELSE baseIdx      \* mutant

NewBase == IF NewPresent = baseIdx THEN Wrap(baseIdx + 1) ELSE baseIdx

Backfilled ==
  [p \in Players |->
     IF pss[NewBase][p] = NoSnap THEN pss[baseIdx][p] ELSE pss[NewBase][p]]

sbsm_rotate ==
  /\ presentIdx' = NewPresent
  /\ baseIdx' = NewBase
  /\ time' = time + Interval
  /\ stamp' = [stamp EXCEPT ![NewPresent] = time + Interval]
  /\ seq' = seq + 1

RotatedPss ==
  [s \in Slots |->
     IF s = NewPresent THEN [p \in Players |-> NoSnap]
     ELSE IF s = NewBase THEN Backfilled ELSE pss[s]]

coregame_get_delta_time == IF pc = "rotate" THEN {1} ELSE Lengths

Recoils(p, busy) == IF p \in busy THEN Kicks \cup {0} ELSE {0}

coregame_update(busy, killed, spawn, way) ==
  /\ pc = "rotate" \/ (pc = "idle" /\ oldest = NoSlot)
  /\ seq < MaxSeq
  /\ \E length \in coregame_get_delta_time : \A p \in InGame :
       \E kick \in Recoils(p, busy) : way[p] \in Ways(player[p].input, length, kick)
  /\ sbsm_rotate
  /\ LET sim == Simulated([p \in Players |-> NoSnap], busy, way) IN
     /\ player' = AfterTick(sim, killed, spawn)
     /\ pss' = sbsm_delete_player(
                 [RotatedPss EXCEPT ![NewPresent] = CommitAll(@, sim)], killed)
  /\ pc' = "idle"
  /\ UNCHANGED <<oldest, cursor, sent>>

-------------------------------------------------------------------------------
Handlers ==
  \E p \in Players :
    \/ coregame_add_player(p)
    \/ coregame_free_player(p)
    \/ \E input \in Inputs, t \in 0..(time + Interval) :
         RefuseInput(p, input, t) \/ FileInput(p, input, t)
    \/ \E bots \in SUBSET (InGame \ {p}), to \in Lo..Hi : move_bot(p, bots, to)

\* every way there may be
AnyWay ==
  UNION {CutShort(input * length + kick) :
           input \in Inputs, length \in Lengths \cup {1}, kick \in Kicks \cup {0}}

Update ==
  \/ sbsm_rollback
  \/ \E busy \in SUBSET (Gunners \cap InGame), killed \in Victims :
     \E spawn \in [killed -> Spawns], way \in [InGame -> AnyWay] :
       sbsm_rewind(busy, killed, spawn, way) \/ coregame_update(busy, killed, spawn, way)

Next == Handlers \/ Update

(***************************************************************************)
(* The server calls coregame_update again and again and nothing suspends   *)
(* it half way, so its steps are fair; clients owe nothing.                *)
(***************************************************************************)
Spec == Init /\ [][Next]_vars /\ WF_vars(Update)
-------------------------------------------------------------------------------
(* What is on file and where. *)

Dirty(s, p) == pss[s][p] # NoSnap /\ pss[s][p].dirty

\* how many ticks slot s is behind the present
Behind(s) == IF s <= presentIdx THEN presentIdx - s ELSE presentIdx - s + Size

TypeOK ==
  /\ seq \in Nat /\ time \in Nat
  /\ presentIdx \in Slots /\ baseIdx \in Slots
  /\ stamp \in [Slots -> Nat]
  /\ pss \in [Slots -> [Players -> Snap \cup {NoSnap}]]
  /\ oldest \in Slots \cup {NoSlot}
  /\ player \in [Players -> Player]
  /\ pc \in {"idle", "rewind", "rotate"}
  /\ cursor \in Slots
  /\ sent \in Nat

\* the slot b places behind the present has the time of b ticks ago
TicksInOrder ==
  /\ time = seq * Interval
  /\ \A s \in Slots : stamp[s] = IF Behind(s) <= seq THEN (seq - Behind(s)) * Interval ELSE 0

OldestIsBase ==
  IF seq >= Size - 1 THEN Behind(baseIdx) = Size - 1 ELSE Behind(baseIdx) = seq

UnreachedBlank ==
  \A s \in Slots : Behind(s) > seq => \A p \in Players : pss[s][p] = NoSnap

(***************************************************************************)
(* Whatever time a client claims, its input is filed under the first tick  *)
(* at or after that time that the ring still has (sbsm_lookup finds the    *)
(* slot by arithmetic alone, and never checks the slot's own timestamp).   *)
(***************************************************************************)
LookupFindsTick ==
  \A t \in 0..(time + Interval) :
    LET s == sbsm_lookup(t)
        u == Clamp(t, stamp[baseIdx], stamp[presentIdx])
    IN  u <= stamp[s] /\ stamp[s] < u + Interval

(***************************************************************************)
(* The ring holds consecutive ticks: the slot b places behind the present  *)
(* has the time of b ticks ago, the base is the oldest slot written, and   *)
(* slots not reached yet are blank (sbsm_rotate); so a lookup by time      *)
(* finds its tick.                                                         *)
(***************************************************************************)
WindowAligned == TicksInOrder /\ OldestIsBase /\ UnreachedBlank /\ LookupFindsTick

\* a filed input is behind a rollback to come, or ahead of the one that runs
PendingCovered ==
  /\ oldest # NoSlot => pc = "idle"
  /\ \A s \in Slots, p \in Players : Dirty(s, p) =>
       \/ pc = "idle" /\ oldest # NoSlot /\ Behind(s) <= Behind(oldest)
       \/ pc = "rewind" /\ Behind(s) <= Behind(cursor)

\* a player who left is in no snapshot
GoneForgotten ==
  \A p \in Players \ InGame : \A s \in Slots : pss[s][p] = NoSnap

(***************************************************************************)
(* The next rollback starts early enough to see every filed input, a       *)
(* running rewind has no filed input behind it, and when it is over none   *)
(* is left: sbsm_rewind_player would replay a leftover a ring turn later.  *)
(* None is of a player who left: a rollback would look it up in            *)
(* cg->players and a backfill would carry it from base to base for ever.   *)
(***************************************************************************)
FiledCovered == PendingCovered /\ GoneForgotten

(***************************************************************************)
(* No filed input is newer than the newest time accepted from its player,  *)
(* and that time is never ahead of the server (coregame_set_player_input_t *)
(* drops older inputs on the strength of it).                              *)
(***************************************************************************)
InputOrder ==
  \A p \in Players :
    /\ player[p].last <= stamp[presentIdx]
    /\ \A s \in Slots : Dirty(s, p) => stamp[s] <= player[p].last

(***************************************************************************)
(* A filed input leaves its snapshot only by being taken up by its player, *)
(* unless the player dies or leaves: neither a rewind that passes by nor   *)
(* sbsm_rotate, which clears a slot of the ring, may lose one.             *)
(***************************************************************************)
TakenUp(s, p) ==
  \/ player'[p].input = pss[s][p].input
  \/ \A k \in Slots : pss'[k][p] = NoSnap

FiledInputTakenUp ==
  [][\A s \in Slots, p \in Players : Dirty(s, p) /\ ~Dirty(s, p)' => TakenUp(s, p)]_vars

(***************************************************************************)
(* Every coregame_update comes to an end: the rewind reaches the present   *)
(* however the ring is turned.                                             *)
(***************************************************************************)
RewindEnds == pc = "rewind" ~> pc = "rotate"
===============================================================================
