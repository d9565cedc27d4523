-------------------------------- MODULE Combat --------------------------------
(***************************************************************************)
(* Guns and bullets on the server (coregame.c, sbsm.c, server_game.c): a   *)
(* tick shoots and moves bullets, every position of a bullet is kept in    *)
(* the snapshot ring, and a late input rolls players, guns and bullets     *)
(* back and lets the ticks since happen again.  Health is not rolled back. *)
(*                                                                         *)
(* Every player starts in a column of its own and moves between two lanes; *)
(* only who stands for a bot is taken elsewhere, by others and wherever    *)
(* they point, and only there players can be in each other's way.  A       *)
(* bullet flies one column a tick along the lane it was shot in.  A gun    *)
(* shoots once a tick: its other timers, charging and knockback are left   *)
(* out.  Of a snapshot's time only its age is kept: how many ticks it is   *)
(* behind the present.  A bullet hits whom the cells of its path list and  *)
(* who is in its way: where a player is listed is kept beside where it is. *)
(*                                                                         *)
(* A bullet that is used after it was freed ends the behaviour.            *)
(***************************************************************************)
EXTENDS Integers, FiniteSets

CONSTANTS
  Players,     \* in the game from the start
  Newcomers,   \* those who may have only just joined it
  Column,      \* where each player spawns
  Cursors,     \* where clients may point as they move the bots: columns 0 and
               \* Length + 1 are beyond the map
  Inputs,      \* what each player's client may ask for
  Guns,        \* gun specs
  Magazine,    \* spec.max_ammo of each
  FirstGun,    \* CG_GUN_ID_SMALL
  Reload,      \* spec.reload_time, in ticks
  MaxHealth,   \* PLAYER_HEALTH, in bullets
  Armed,       \* bound: whose clients aim, see to their guns and move bots
  Length,      \* the map's columns are 1..Length
  Blocks,      \* those that are blocks
  Size,        \* snapshots in the ring
  MaxBullets,  \* bound: bullets ever made; a gun jams after them
  MaxAsks      \* bound: messages and departures of the clients

ASSUME RingAssumption == Size \in Nat /\ Size >= 2
ASSUME MapAssumption ==
  /\ Length \in Nat /\ Blocks \subseteq 1..Length
  /\ Column \in [Players -> (1..Length) \ Blocks]
  /\ Cursors \subseteq [x : 0..(Length + 1), lane : {0, 1}]
  /\ \A p, q \in Players : Column[p] = Column[q] => p = q
ASSUME GunAssumption ==
  /\ Magazine \in [Guns -> Nat \ {0}] /\ FirstGun \in Guns
  /\ Reload \in Nat \ {0} /\ MaxHealth \in Nat \ {0} /\ MaxBullets \in Nat /\ MaxAsks \in Nat
ASSUME InputAssumption ==
  \A p \in Players : Inputs[p] \subseteq [move : {-1, 0, 1}, shoot : BOOLEAN]

Slots == 0..(Size - 1)
Open == (1..Length) \ Blocks
Lanes == {0, 1}
Bullets == 1..MaxBullets
NoSlot == -1
NoCell == <<>>
None == [none |-> TRUE]
Still == [move |-> 0, shoot |-> FALSE]

VARIABLES
  player,     \* cg->players
  bullet,     \* cg->bullets, None for an id that is not in it
  seq,        \* cg->bullet_id_seq
  pss, bss,   \* snapshots[i].player_states and .bullet_states
  base, present, oldest,
  pc,         \* where coregame_update is: idle, players, bullets, down
  cursor,     \* the snapshot being simulated
  rewinding,  \* cg->rewinding
  todo,       \* players, then bullets, this tick has yet to update
  pushed,     \* bullets that wait by reference in a client's udp_io
  asks,       \* how many there were so far, for the bound only
  end,        \* no, or what was used after it was freed
  hurt,       \* history: how often a bullet hurt somebody
  undone,     \* history: how often a rollback took a bullet's hit back
  told,       \* history: the ammo a player's clients were last told of
  crossed,    \* history: the ammo was taken from a snapshot of another gun
  placed,     \* history: who was put where it is since its cells were last set
  ahead,      \* history: the way a player went as its cells were last set
  astray,     \* history: a bot was put beyond the map or into a block
  from,       \* history: the last rewind began at the base
  late        \* history: clients whose first datagram came after bullets for them

ringVars == <<base, present>>
historyVars == <<hurt, undone, told, crossed, placed, ahead, astray, from, late>>
vars == <<player, bullet, seq, pss, bss, base, present, oldest, pc, cursor,
          rewinding, todo, pushed, end, asks, historyVars>>

InGame == {p \in Players : player[p].in}
Alive == {b \in Bullets : bullet[b] # None}
Wrap(i) == IF i >= Size THEN 0 ELSE i

\* ticks since the snapshot: what the code compares is timestamps
Age(s) == (present - s + Size) % Size
Window == {s \in Slots : Age(s) <= Age(base)}

-------------------------------------------------------------------------------
(* One player and its gun. *)

NewGun(r, g) == [r EXCEPT !.gun = g, !.ammo = Magazine[g], !.reload = 0]

\* the first half of coregame_gun_update: an empty gun reloads
Reloading(r) ==
  IF r.ammo > 0 THEN r
  ELSE IF r.reload + 1 < Reload THEN [r EXCEPT !.reload = @ + 1, !.dirty = TRUE]
  ELSE [r EXCEPT !.reload = 0, !.ammo = Magazine[r.gun], !.dirty = TRUE]

Shoots(r) == Reloading(r).ammo > 0 /\ r.input.shoot

coregame_gun_update(r) ==
  IF ~Shoots(r) THEN Reloading(r)
  ELSE [Reloading(r) EXCEPT !.ammo = @ - 1, !.dirty = TRUE, !.gunDirty = TRUE]

MoveTo_Through(r, barred) == r.lane + r.input.move            \* mutant: no walls

\* barred: by another player
MoveTo(r, barred) ==
  LET l == r.lane + r.input.move IN IF l \in Lanes /\ ~barred THEN l ELSE r.lane

\* cg_player_get_cells and cg_player_add_into_cells: none outside the map
CellsAt(x, l) == IF x \in 1..Length /\ l \in Lanes THEN <<x, l>> ELSE NoCell

Listed_Removed(r, to) == IF r.input.move = 0 THEN r.cell ELSE NoCell   \* mutant: not added again

\* who does not move stays in the cells it is in; who does is listed where the
\* same move would take it next, the velocity being added to the new place
Listed(r, to) == IF r.input.move = 0 THEN r.cell ELSE CellsAt(r.x, to + (to - r.lane))

coregame_update_player(r, barred) ==
  LET to == MoveTo(r, barred) IN
  [r EXCEPT !.lane = to, !.cell = Listed(r, to), !.vel = to - r.lane,
            !.dirty = @ \/ r.prevMove # r.input.move \/ r.prevPos # <<r.x, to>>,
            !.prevMove = r.input.move, !.prevPos = <<r.x, to>>]

TakeInput(s, r) == IF s # None /\ s.dirty THEN [r EXCEPT !.input = s.input] ELSE r

sbsm_player_to_snapshot(r, dirty, count) ==
  [x |-> r.x, lane |-> r.lane, vel |-> r.vel, input |-> r.input, gun |-> r.gun,
   ammo |-> r.ammo, reload |-> r.reload, dirty |-> dirty, count |-> count]

sbsm_commit_player(s, r) ==
  IF ~r.dirty THEN None
  ELSE sbsm_player_to_snapshot(r, FALSE, IF s = None THEN 0 ELSE s.count)

(***************************************************************************)
(* sbsm_snapshot_to_player: the snapshot's gun is compared with the        *)
(* player's, then the player is given a new gun of the kind it has, with   *)
(* the ammo of the other.                                                  *)
(***************************************************************************)
sbsm_snapshot_to_player_Silent(r, s) ==                  \* mutant: gun_dirty not set
  [r EXCEPT !.x = s.x, !.lane = s.lane - s.vel, !.input = s.input, !.ammo = s.ammo, !.reload = s.reload]

sbsm_snapshot_to_player(r, s) ==
  [r EXCEPT !.x = s.x, !.lane = s.lane - s.vel, !.input = s.input,
            !.gunDirty = @ \/ s.ammo # (IF s.gun = r.gun THEN r.ammo ELSE Magazine[r.gun]),
            !.ammo = s.ammo, !.reload = s.reload]

-------------------------------------------------------------------------------
(* Bullets. *)

cg_add_bullet(r, p) ==
  [x |-> r.x, lane |-> r.lane, dir |-> r.aim, owner |-> p, hit |-> FALSE]

\* beyond MaxBullets a shot makes no bullet
Makes(r) == Shoots(r) /\ seq < MaxBullets

\* server_on_bullet_create: only a rewind's bullets are sent, and not to their owner
server_on_bullet_create(p) ==
  [q \in Players |-> IF rewinding /\ q \in InGame \ {p} THEN pushed[q] \cup {seq + 1} ELSE pushed[q]]

Next_x(b) == bullet[b].x + bullet[b].dir

\* in its way are no cells if it is beyond the map
InMap(b) == bullet[b].x \in 1..Length

Struck(b) ==
  {q \in InGame \ {bullet[b].owner} :
     /\ player[q].x = Next_x(b) /\ player[q].lane = bullet[b].lane
     /\ player[q].cell = <<Next_x(b), bullet[b].lane>>}

Hits_Walls(b) == Next_x(b) \in Blocks    \* mutant: a player is no obstacle

Hits(b) == InMap(b) /\ (Next_x(b) \in Blocks \/ Struck(b) # {})

Moved(b) == [bullet[b] EXCEPT !.x = Next_x(b), !.hit = Hits(b)]

sbsm_commit_bullet_Flying(r) == [x |-> r.x, hit |-> FALSE]      \* mutant: not collided

sbsm_commit_bullet(r) == [x |-> r.x, hit |-> r.hit]


\* on_player_damaged: who died is forgotten by every snapshot and respawned
Damaged(r) == [r EXCEPT !.health = @ - 1]
Dies(r) == r.health <= 1
Respawned(p) == [player[p] EXCEPT !.x = Column[p], !.lane = 0, !.health = MaxHealth]

-------------------------------------------------------------------------------
(***************************************************************************)
(* A player has been around for a while, or was just added: listed in the  *)
(* first cell of the map, then put where it spawns.                        *)
(***************************************************************************)
Init ==
  /\ \E new \in SUBSET Newcomers : placed = [p \in Players |-> p \in new]
  /\ player = [p \in Players |->
       [in |-> TRUE, udp |-> ~placed[p], x |-> Column[p], lane |-> 0, vel |-> 0,
        input |-> Still, prevMove |-> 0, prevPos |-> <<Column[p], 0>>,
        cell |-> IF placed[p] THEN NoCell ELSE <<Column[p], 0>>, aim |-> 1,
        dirty |-> FALSE, gunDirty |-> FALSE, health |-> MaxHealth, gun |-> FirstGun, ammo |-> Magazine[FirstGun], reload |-> 0, last |-> Size]]
  /\ bullet = [b \in Bullets |-> None]
  /\ seq = 0
  /\ pss = [s \in Slots |-> [p \in Players |-> None]]
  /\ bss = [s \in Slots |-> [b \in Bullets |-> None]]
  /\ base = 0 /\ present = 1 /\ oldest = NoSlot
  /\ pc = "idle" /\ cursor = 0 /\ rewinding = FALSE /\ todo = {}
  /\ pushed = [p \in Players |-> {}]
  /\ end = "no" /\ asks = 0
  /\ hurt = [b \in Bullets |-> 0] /\ undone = [b \in Bullets |-> 0]
  /\ told = [p \in Players |-> Magazine[FirstGun]]
  /\ crossed = [p \in Players |-> FALSE]
  /\ ahead = [p \in Players |-> 0] /\ astray = FALSE /\ from = FALSE /\ late = {}

(* What clients send, between two ticks. *)

Asked(p, udp) ==
  /\ pc = "idle" /\ player[p].in /\ player[p].udp = udp
  /\ asks < MaxAsks /\ asks' = asks + 1

\* server_verify_session: the first datagram tells where to send to
FirstDatagram(p) ==
  /\ Asked(p, FALSE)
  /\ player' = [player EXCEPT ![p].udp = TRUE]
  /\ late' = IF pushed[p] # {} THEN late \cup {p} ELSE late
  /\ UNCHANGED <<bullet, seq, pss, bss, ringVars, oldest, pc, cursor, rewinding, todo,
                 pushed, end, hurt, undone, told, crossed, placed, ahead, astray, from>>

player_cursor(p) ==
  /\ Asked(p, TRUE)
  /\ player' = [player EXCEPT ![p].aim = -@]
  /\ UNCHANGED <<bullet, seq, pss, bss, ringVars, oldest, pc, cursor, rewinding, todo,
                 pushed, end, historyVars>>

(***************************************************************************)
(* coregame_player_change_gun: not to the gun it is, nor from an empty one *)
(***************************************************************************)
player_gun_id(p, g) ==
  /\ Asked(p, TRUE)
  /\ g # player[p].gun /\ player[p].ammo > 0
  /\ player' = [player EXCEPT ![p] = NewGun(@, g)]
  /\ told' = [told EXCEPT ![p] = Magazine[g]]
  /\ UNCHANGED <<bullet, seq, pss, bss, ringVars, oldest, pc, cursor, rewinding, todo,
                 pushed, end, hurt, undone, crossed, placed, ahead, astray, from, late>>

\* the player_reload handler: whatever the gun holds
player_reload(p) ==
  /\ Asked(p, TRUE)
  /\ player' = [player EXCEPT ![p].ammo = 0]
  /\ told' = [told EXCEPT ![p] = 0]
  /\ UNCHANGED <<bullet, seq, pss, bss, ringVars, oldest, pc, cursor, rewinding, todo,
                 pushed, end, hurt, undone, crossed, placed, ahead, astray, from, late>>

\* coregame_set_player_input_t, for the snapshot s a timestamp finds
OnFile(s, p) ==
  IF pss[s][p] # None THEN pss[s][p] ELSE sbsm_player_to_snapshot(player[p], FALSE, 0)

Refused(s, p, input) ==
  pss[s][p] # None /\ (pss[s][p].input = input \/ pss[s][p].count > 1)

player_input(p, input, s) ==
  /\ Asked(p, TRUE)
  /\ player[p].last >= Age(s)
  /\ player' = [player EXCEPT ![p].last = Age(s)]
  /\ IF Refused(s, p, input) THEN UNCHANGED <<pss, oldest>>
     ELSE /\ pss' = [pss EXCEPT ![s][p] =
               [OnFile(s, p) EXCEPT !.input = input, !.dirty = TRUE, !.count = @ + 1]]
          /\ oldest' = IF oldest = NoSlot \/ Age(s) > Age(oldest) THEN s ELSE oldest
  /\ UNCHANGED <<bullet, seq, bss, ringVars, pc, cursor, rewinding, todo, pushed, end, historyVars>>

(***************************************************************************)
(* Who is no bot puts all who are where it points: neither their cells nor *)
(* the map are asked.                                                      *)
(***************************************************************************)
move_bot(p, bots, to) ==
  /\ Asked(p, TRUE)
  /\ bots # {}
  /\ player' = [q \in Players |->
       IF q \in bots THEN [player[q] EXCEPT !.x = to.x, !.lane = to.lane] ELSE player[q]]
  /\ placed' = [q \in Players |-> placed[q] \/ q \in bots]
  /\ astray' = (astray \/ to.x \notin Open)
  /\ UNCHANGED <<bullet, seq, pss, bss, ringVars, oldest, pc, cursor, rewinding, todo,
                 pushed, end, hurt, undone, told, crossed, ahead, from, late>>

\* server_close_client
coregame_free_player(p) ==
  /\ \E udp \in BOOLEAN : Asked(p, udp)
  /\ player' = [player EXCEPT ![p].in = FALSE]
  /\ pss' = [s \in Slots |-> [pss[s] EXCEPT ![p] = None]]
  /\ pushed' = [pushed EXCEPT ![p] = {}]
  /\ UNCHANGED <<bullet, seq, bss, ringVars, oldest, pc, cursor, rewinding, todo, end, historyVars>>

-------------------------------------------------------------------------------
(* coregame_update, in the steps of its loops. *)

RolledBack(b) == bullet[b] # None /\ bss[oldest][b] # None

sbsm_rollback ==
  /\ pc = "idle" /\ oldest # NoSlot
  /\ LET back == {p \in InGame : pss[oldest][p] # None} IN
     /\ player' = [p \in Players |->
          IF p \in back THEN sbsm_snapshot_to_player(player[p], pss[oldest][p]) ELSE player[p]]
     /\ pss' = [pss EXCEPT ![oldest] =
          [p \in Players |-> IF p \in back THEN [pss[oldest][p] EXCEPT !.dirty = FALSE]
                             ELSE pss[oldest][p]]]
     /\ crossed' = [p \in Players |->
          crossed[p] \/ (p \in back /\ pss[oldest][p].gun # player[p].gun)]
     /\ placed' = [p \in Players |-> placed[p] \/ p \in back]
  /\ bullet' = [b \in Bullets |->
       IF RolledBack(b) THEN [bullet[b] EXCEPT !.x = bss[oldest][b].x, !.hit = bss[oldest][b].hit]
       ELSE bullet[b]]
  /\ undone' = [b \in Bullets |->
       IF RolledBack(b) /\ bullet[b].hit /\ ~bss[oldest][b].hit THEN undone[b] + 1 ELSE undone[b]]
  /\ cursor' = oldest /\ oldest' = NoSlot /\ rewinding' = TRUE
  /\ pc' = "players" /\ todo' = InGame
  /\ from' = (oldest = base)
  /\ UNCHANGED <<seq, bss, ringVars, pushed, end, asks, hurt, told, ahead, astray, late>>

(***************************************************************************)
(* One player of a tick, replayed or new.  A gun that empties itself tells *)
(* the others at once; gun_dirty tells everybody, but only in a new tick.  *)
(* Another player in the same column may be in the way or not: one update  *)
(* reads no more of another than that, so they are done in one order, that *)
(* of the columns they spawn in.                                           *)
(***************************************************************************)
Barred(p) == IF \E q \in InGame \ {p} : player[q].x = player[p].x THEN BOOLEAN ELSE {FALSE}

UpdatePlayer(p) ==
  /\ pc = "players" /\ p \in todo
  /\ \A q \in todo : Column[p] <= Column[q]
  /\ \E barred \in Barred(p) :
     LET in == IF rewinding THEN TakeInput(pss[cursor][p], player[p]) ELSE player[p]
         out == coregame_update_player(coregame_gun_update(in), barred)
         tell == out.gunDirty /\ ~rewinding
     IN  /\ player' = [player EXCEPT ![p] =
              [out EXCEPT !.dirty = FALSE, !.gunDirty = @ /\ rewinding]]
         /\ pss' = [pss EXCEPT ![cursor][p] = sbsm_commit_player(@, out)]
         /\ bullet' = IF Makes(in) THEN [bullet EXCEPT ![seq + 1] = cg_add_bullet(in, p)] ELSE bullet
         /\ pushed' = IF Makes(in) THEN server_on_bullet_create(p) ELSE pushed
         /\ seq' = IF Makes(in) THEN seq + 1 ELSE seq
         /\ told' = IF tell \/ (Shoots(in) /\ out.ammo = 0)
                    THEN [told EXCEPT ![p] = out.ammo] ELSE told
         /\ placed' = [placed EXCEPT ![p] = @ /\ in.input.move = 0]
         /\ ahead' = IF in.input.move = 0 THEN ahead ELSE [ahead EXCEPT ![p] = out.vel]
  /\ todo' = todo \ {p}
  /\ UNCHANGED <<bss, ringVars, oldest, pc, cursor, rewinding, end, asks, hurt, undone, crossed, astray, from, late>>

PlayersDone ==
  /\ pc = "players" /\ todo = {}
  /\ pc' = "bullets" /\ todo' = Alive
  /\ UNCHANGED <<player, bullet, seq, pss, bss, ringVars, oldest, cursor, rewinding,
                 pushed, end, asks, historyVars>>

(***************************************************************************)
(* One bullet of a tick.  A replayed bullet is committed to the snapshot   *)
(* and, while it flies, to the present as well.                            *)
(***************************************************************************)
Flies(b) == bullet[b] # None /\ ~bullet[b].hit

Commit(r, b) ==
  [bss EXCEPT ![present][b] = IF Flies(b) THEN sbsm_commit_bullet(r) ELSE @,
              ![cursor][b] = IF Flies(b) \/ rewinding THEN sbsm_commit_bullet(r) ELSE @]

Hurt(q) ==
  /\ player' = [player EXCEPT ![q] = IF Dies(@) THEN Respawned(q) ELSE Damaged(@)]
  /\ pss' = IF Dies(player[q]) THEN [s \in Slots |-> [pss[s] EXCEPT ![q] = None]] ELSE pss
  /\ placed' = [placed EXCEPT ![q] = @ \/ Dies(player[q])]

UpdateBullet(b) ==
  /\ pc = "bullets" /\ b \in todo
  /\ todo' = todo \ {b}
  /\ LET r == IF Flies(b) THEN Moved(b) ELSE bullet[b] IN
     /\ bullet' = [bullet EXCEPT ![b] = IF r.x \in 1..Length THEN r ELSE None]
     /\ end' = IF r.x \in 1..Length THEN "no" ELSE "left"
     /\ pc' = IF r.x \in 1..Length THEN "bullets" ELSE "down"
     /\ bss' = Commit(r, b)
  /\ IF Flies(b) /\ InMap(b) /\ Next_x(b) \notin Blocks /\ Struck(b) # {} /\ bullet[b].owner \in InGame
     THEN /\ \E q \in Struck(b) : Hurt(q)
          /\ hurt' = [hurt EXCEPT ![b] = @ + 1]
     ELSE UNCHANGED <<player, pss, hurt, placed>>
  /\ UNCHANGED <<seq, ringVars, oldest, cursor, rewinding, pushed, asks, undone, told, crossed, ahead, astray, from, late>>

\* the loop of sbsm_rewind goes on to the next snapshot
NextSnapshot ==
  /\ pc = "bullets" /\ todo = {} /\ rewinding /\ cursor # present
  /\ cursor' = Wrap(cursor + 1)
  /\ pc' = "players" /\ todo' = InGame
  /\ UNCHANGED <<player, bullet, seq, pss, bss, ringVars, oldest, rewinding, pushed, end, asks, historyVars>>

(***************************************************************************)
(* sbsm_rotate: the base that is given up hands its records down, but a    *)
(* bullet it saw collided is freed.  Of the new present only the player    *)
(* states are cleared: bullets leave theirs of a turn ago.                 *)
(***************************************************************************)
NewPresent == Wrap(present + 1)
Advances == NewPresent = base
NewBase == IF Advances THEN Wrap(base + 1) ELSE base

sbsm_do_bullet_backfilling_Never(b) == FALSE    \* mutant: no bullet is freed

\* the old base frees it
sbsm_do_bullet_backfilling(b) == Advances /\ bss[base][b] # None /\ bss[base][b].hit

sbsm_rotate ==
  /\ (pc = "idle" /\ oldest = NoSlot) \/ (pc = "bullets" /\ todo = {} /\ rewinding /\ cursor = present)
  /\ present' = NewPresent /\ base' = NewBase
  /\ bullet' = [b \in Bullets |-> IF sbsm_do_bullet_backfilling(b) THEN None ELSE bullet[b]]
  /\ bss' = [bss EXCEPT ![NewBase] = [b \in Bullets |->
       IF bss[NewBase][b] = None /\ ~sbsm_do_bullet_backfilling(b) THEN bss[base][b] ELSE bss[NewBase][b]]]
  /\ pss' = [s \in Slots |->
       IF s = NewPresent THEN [p \in Players |-> None]
       ELSE IF s = NewBase
            THEN [p \in Players |-> IF pss[s][p] = None THEN pss[base][p] ELSE pss[s][p]]
            ELSE pss[s]]
  /\ player' = [p \in Players |->
       [player[p] EXCEPT !.last = IF @ < Size THEN @ + 1 ELSE Size]]
  /\ cursor' = NewPresent /\ rewinding' = FALSE
  /\ pc' = "players" /\ todo' = InGame
  /\ UNCHANGED <<seq, oldest, pushed, end, asks, historyVars>>

\* server_flush_udp_clients: what was pushed by reference is read now
Unsent_All(q) == pushed[q]                                    \* mutant: pushed for ever

Unsent(q) == IF player[q].udp THEN {} ELSE pushed[q]

Freed(q) == player[q].udp /\ \E b \in pushed[q] : bullet[b] = None

server_flush_udp_clients ==
  /\ pc = "bullets" /\ todo = {} /\ ~rewinding
  /\ pushed' = [q \in Players |-> Unsent(q)]
  /\ end' = IF \E q \in InGame : Freed(q) THEN "sent" ELSE "no"
  /\ pc' = IF \E q \in InGame : Freed(q) THEN "down" ELSE "idle"
  /\ UNCHANGED <<player, bullet, seq, pss, bss, ringVars, oldest, cursor, rewinding, todo, asks, historyVars>>

Handlers ==
  \E p \in Players :
    \/ FirstDatagram(p)
    \/ p \in Armed /\ player_cursor(p)
    \/ p \in Armed /\ \E g \in Guns : player_gun_id(p, g)
    \/ p \in Armed /\ player_reload(p)
    \/ \E input \in Inputs[p], s \in Window : player_input(p, input, s)
    \/ p \in Armed /\ \E bots \in SUBSET (InGame \ {p}), to \in Cursors : move_bot(p, bots, to)
    \/ coregame_free_player(p)

Tick ==
  \/ sbsm_rollback
  \/ \E p \in Players : UpdatePlayer(p)
  \/ PlayersDone
  \/ \E b \in Bullets : UpdateBullet(b)
  \/ NextSnapshot
  \/ sbsm_rotate
  \/ server_flush_udp_clients

Next == Handlers \/ Tick

(***************************************************************************)
(* The loop of server_run goes on while it has clients: of a tick a step   *)
(* is possible in every state but the last, so this is weak fairness of    *)
(* Tick, without the cost of its ENABLED.  Without clients server_poll     *)
(* waits for the next with no timeout, and no tick need follow.            *)
(***************************************************************************)
Spec == /\ Init /\ [][Next]_vars
        /\ <>(pc = "down") \/ <>[](InGame = {}) \/ []<><<Tick>>_pc

-------------------------------------------------------------------------------
Input == [move : {-1, 0, 1}, shoot : BOOLEAN]
\* a rollback takes the last velocity away from who was put where it is: it may
\* end beside the lanes
Lane == {-1, 0, 1, 2}
Place == 0..(Length + 1)
Spot == Place \X Lane
Cell == ((1..Length) \X Lanes) \cup {NoCell}

Player ==
  [in : BOOLEAN, udp : BOOLEAN, x : Place, lane : Lane, vel : {-1, 0, 1}, input : Input,
   prevMove : {-1, 0, 1}, prevPos : Spot, cell : Cell,
   aim : {-1, 1}, dirty : BOOLEAN, gunDirty : BOOLEAN,
   health : 1..MaxHealth, gun : Guns, ammo : Nat, reload : 0..(Reload - 1), last : 0..Size]

Snap == [x : Place, lane : Lane, vel : {-1, 0, 1}, input : Input, gun : Guns, ammo : Nat,
         reload : 0..(Reload - 1), dirty : BOOLEAN, count : 0..2]

Bullet == [x : Place, lane : Lane, dir : {-1, 1}, owner : Players, hit : BOOLEAN]

TypeOK ==
  /\ player \in [Players -> Player]
  /\ bullet \in [Bullets -> Bullet \cup {None}]
  /\ seq \in 0..MaxBullets
  /\ \A s \in Slots : \A p \in Players : pss[s][p] \in Snap \cup {None}
  /\ \A s \in Slots : \A b \in Bullets : bss[s][b] # None => bss[s][b].hit \in BOOLEAN
  /\ base \in Slots /\ present \in Slots /\ oldest \in Slots \cup {NoSlot}
  /\ pc \in {"idle", "players", "bullets", "down"} /\ cursor \in Slots
  /\ end \in {"no", "left", "sent"} /\ asks \in 0..MaxAsks

(***************************************************************************)
(* A bullet that has collided has a snapshot ahead of the base that says   *)
(* so, the only place from which it will ever be freed; one that flies is  *)
(* in the snapshot of the present as it is, so that a rollback to the tick *)
(* just done leaves it alone.                                              *)
(***************************************************************************)
BulletsOnRecord ==
  pc = "idle" =>
    \A b \in Alive :
      IF Flies(b) THEN bss[present][b] = [x |-> bullet[b].x, hit |-> FALSE]
      ELSE \E s \in Window : bss[s][b] # None /\ bss[s][b].hit

(***************************************************************************)
(* A bullet hurts once, and once more for each time a rollback has taken   *)
(* its hit back: health is not rolled back with it.                        *)
(***************************************************************************)
HurtOnce == \A b \in Bullets : hurt[b] <= 1 + undone[b]

(***************************************************************************)
(* A gun holds no more than its magazine, and after a tick the other       *)
(* clients know what is in it, or can tell it from the reload they were    *)
(* told of: unless a rollback gave it the ammo of another gun.             *)
(***************************************************************************)
AmmoKnown ==
  pc = "idle" =>
    \A p \in InGame \ {q \in Players : crossed[q]} :
      /\ player[p].ammo <= Magazine[player[p].gun]
      /\ \/ player[p].ammo = told[p]
         \/ told[p] = 0 /\ player[p].ammo = Magazine[player[p].gun]

(***************************************************************************)
(* Bullets look for a player in the cells it is listed in: those where its *)
(* last way, once more, would take it, so where it stands only if it last  *)
(* went nowhere (coregame.c:520 adds the velocity to the new position).    *)
(* Nothing else parts the two but being put somewhere, as it joins, by a   *)
(* rollback, respawned, or as a bot, until it moves.                       *)
(***************************************************************************)
CellsFollow ==
  \A p \in InGame :
    player[p].cell = CellsAt(player[p].x, player[p].lane + ahead[p]) \/ placed[p]

(***************************************************************************)
(* A bullet is used after it was freed when it leaves a map that is open,  *)
(* or was shot by a bot that was put beyond a closed one or into its wall, *)
(* or when a client is to be told of it: one whose first datagram came     *)
(* late, or by a rewind that began at the base, whose bullets the rotation *)
(* after it may free.                                                      *)
(***************************************************************************)
UndefinedExplained ==
  /\ end = "left" => astray \/ ~({1, Length} \subseteq Blocks)
  /\ end = "sent" => from \/ late # {}

(***************************************************************************)
(* A bullet that has collided is freed, or a rollback sets it flying       *)
(* again, unless everybody leaves.                                         *)
(***************************************************************************)
CollidedGo ==
  \A b \in Bullets :
    (bullet[b] # None /\ bullet[b].hit) ~>
      (bullet[b] = None \/ Flies(b) \/ pc = "down" \/ InGame = {})

===============================================================================
