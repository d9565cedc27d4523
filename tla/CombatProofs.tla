----------------------------- MODULE CombatProofs ------------------------------
(***************************************************************************)
(* The invariants of Combat, for any players, guns, map, size of the ring  *)
(* and number of bullets.                                                  *)
(*                                                                         *)
(* The invariant has a layer for each thing that can go wrong: where the   *)
(* ring's indices are, what a rollback may put back, what ammunition is    *)
(* known, how often a bullet hurt, which bullets have left which records,  *)
(* and which wait to be sent.  Each layer is inductive with the types and  *)
(* the indices below it.                                                   *)
(***************************************************************************)
EXTENDS Combat, TLAPS

BulletSnap == [x : Int, hit : BOOLEAN]

\* what clients send of themselves, and what they ask of bots
Message ==
  \E p \in Players :
    \/ FirstDatagram(p) \/ player_cursor(p) \/ player_reload(p) \/ coregame_free_player(p)
    \/ \E g \in Guns : player_gun_id(p, g)
    \/ \E input \in Inputs[p], s \in Window : player_input(p, input, s)

BotsMove ==
  \E p \in Players, bots \in SUBSET Players, to \in Cursors : move_bot(p, bots, to)

\* the types of all that is listed in TypeOK, and of what is not
Typed ==
  /\ player \in [Players -> Player]
  /\ bullet \in [Bullets -> Bullet \cup {None}]
  /\ seq \in 0..MaxBullets
  /\ pss \in [Slots -> [Players -> Snap \cup {None}]]
  /\ bss \in [Slots -> [Bullets -> BulletSnap \cup {None}]]
  /\ base \in Slots /\ present \in Slots /\ oldest \in Slots \cup {NoSlot}
  /\ pc \in {"idle", "players", "bullets", "down"} /\ cursor \in Slots
  /\ rewinding \in BOOLEAN /\ todo \subseteq (IF pc = "players" THEN Players ELSE Bullets)
  /\ pushed \in [Players -> SUBSET Bullets]
  /\ end \in {"no", "left", "sent"} /\ asks \in 0..MaxAsks
  /\ hurt \in [Bullets -> Nat] /\ undone \in [Bullets -> Nat]
  /\ told \in [Players -> Nat] /\ crossed \in [Players -> BOOLEAN]
  /\ placed \in [Players -> BOOLEAN] /\ ahead \in [Players -> {-1, 0, 1}]
  /\ astray \in BOOLEAN /\ from \in BOOLEAN /\ late \subseteq Players

\* what a rollback puts back is a lane, and a bullet in the map
Restorable ==
  /\ \A s \in Slots, p \in Players : pss[s][p] # None => pss[s][p].lane - pss[s][p].vel \in Lane
  /\ \A p \in Players :
       (pc = "players" /\ p \in todo) \/ player[p].lane - player[p].vel \in Lane
  /\ pc # "down" =>
       \A s \in Slots, b \in Bullets : bss[s][b] # None => bss[s][b].x \in 1..Length

\* where the indices are in each part of an update
Indices ==
  /\ base # present
  /\ oldest # NoSlot => pc = "idle" /\ oldest \in Window
  /\ rewinding => pc # "idle" /\ cursor \in Window /\ (cursor = base => from)
  /\ ~rewinding /\ pc \in {"players", "bullets"} => cursor = present
  /\ pc = "players" => todo \subseteq InGame
  /\ pc = "bullets" => todo \subseteq Alive

\* ids are handed out in order, so no snapshot knows one that is to come
Unborn == \A b \in Bullets : b > seq => bullet[b] = None /\ \A s \in Slots : bss[s][b] = None

Known(p) ==
  \/ player[p].ammo = told[p]
  \/ told[p] = 0 /\ player[p].ammo = Magazine[player[p].gun]

\* what the others do not know of a gun will be told at the end of this update
Ammunition ==
  /\ \A p \in Players : ~crossed[p] =>
       /\ player[p].ammo <= Magazine[player[p].gun]
       /\ \A s \in Slots : pss[s][p] # None => pss[s][p].ammo <= Magazine[pss[s][p].gun]
       /\ p \in InGame => Known(p) \/ player[p].gunDirty
  /\ \A p \in InGame : player[p].gunDirty => rewinding \/ (pc = "players" /\ p \in todo)

\* a bullet that flies has hurt only as often as it was taken back
Hurts ==
  \A b \in Bullets : /\ hurt[b] <= 1 + undone[b]
                     /\ b > seq \/ Flies(b) => hurt[b] <= undone[b]

\* who is put nowhere else, and what flies, is in the map and in no block
NoneAstray ==
  /\ \A p \in Players : player[p].x \in Open
  /\ \A s \in Slots, p \in Players : pss[s][p] # None => pss[s][p].x \in Open
  /\ \A b \in Alive : bullet[b].x \in 1..Length /\ (bullet[b].hit \/ bullet[b].x \notin Blocks)
  /\ \A s \in Slots, b \in Bullets : bss[s][b] # None => bss[s][b].hit \/ bss[s][b].x \notin Blocks

InTheOpen ==
  /\ astray \/ NoneAstray
  /\ (end = "no") = (pc # "down")
  /\ end = "left" => astray \/ ~({1, Length} \subseteq Blocks)

\* a collision is on record at all times, a flight once the bullet has moved
Recorded ==
  \A b \in Alive :
    IF bullet[b].hit THEN \E s \in Window : bss[s][b] # None /\ bss[s][b].hit
    ELSE (pc = "idle" \/ (pc = "bullets" /\ ~rewinding /\ b \notin todo))
           => bss[present][b] = [x |-> bullet[b].x, hit |-> FALSE]

\* a bullet that waits to be sent was shot in this rewind, so no base knows it
Waiting ==
  /\ late = {} =>
       \A q \in InGame : player[q].udp =>
         /\ pc = "idle" => pushed[q] = {}
         /\ ~from /\ pc # "down" => \A b \in pushed[q] :
              bullet[b] # None /\ (rewinding => bss[base][b] = None)
  /\ end = "sent" => from \/ late # {}

IInv ==
  /\ Typed /\ Restorable /\ Indices /\ Unborn
  /\ CellsFollow /\ Ammunition /\ Hurts /\ InTheOpen /\ Recorded /\ Waiting

-------------------------------------------------------------------------------
(* The ring. *)

LEMMA Remainder ==
  ASSUME NEW n \in Nat \ {0}, NEW r \in 0..(n - 1)
  PROVE  r % n = r /\ (r + n) % n = r
<1>1. r % n \in 0..(n - 1) /\ r = n * (r \div n) + (r % n)
  OBVIOUS
<1>2. r \div n = 0
  BY <1>1
<1>3. (r + n) % n \in 0..(n - 1) /\ r + n = n * ((r + n) \div n) + ((r + n) % n)
  OBVIOUS
<1>4. (r + n) \div n = 1
  BY <1>3
<1> QED BY <1>1, <1>2, <1>3, <1>4

\* the age of a slot when i is the present
LEMMA AgeOf ==
  ASSUME NEW s \in Slots, NEW i \in Slots
  PROVE  (i - s + Size) % Size = IF s <= i THEN i - s ELSE i - s + Size
<1>1. Size \in Nat \ {0}
  BY RingAssumption
<1>2. CASE s <= i
  BY <1>1, <1>2, Remainder, i - s \in 0..(Size - 1) DEF Slots
<1>3. CASE s > i
  BY <1>1, <1>3, Remainder, i - s + Size \in 0..(Size - 1) DEF Slots
<1> QED BY <1>2, <1>3 DEF Slots

LEMMA WrapSlot == ASSUME NEW i \in Slots PROVE Wrap(i + 1) \in Slots /\ Wrap(i + 1) # i
  BY RingAssumption DEF Slots, Wrap

\* ages tell slots apart, and the present is the youngest
LEMMA AgeFacts ==
  ASSUME present \in Slots, NEW s \in Slots, NEW t \in Slots
  PROVE  /\ Age(s) \in 0..(Size - 1)
         /\ Age(s) = Age(t) => s = t
         /\ Age(s) = 0 <=> s = present
  BY AgeOf, RingAssumption DEF Slots, Age

\* the next slot is a tick younger
LEMMA NextYounger ==
  ASSUME present \in Slots, NEW s \in Slots, s # present
  PROVE  Age(Wrap(s + 1)) = Age(s) - 1
<1>1. Wrap(s + 1) \in Slots
  BY WrapSlot
<1>2. \A t \in Slots : Age(t) = IF t <= present THEN present - t ELSE present - t + Size
  BY AgeOf DEF Age
<1>3. CASE s + 1 >= Size
  <2>1. Wrap(s + 1) = 0 /\ s = Size - 1
    BY <1>3, RingAssumption DEF Wrap, Slots
  <2> QED BY <1>1, <1>2, <2>1, RingAssumption DEF Slots
<1>4. CASE s + 1 < Size
  <2>1. Wrap(s + 1) = s + 1
    BY <1>4, RingAssumption DEF Wrap, Slots
  <2> QED BY <1>1, <1>2, <2>1, RingAssumption DEF Slots
<1> QED BY <1>3, <1>4, RingAssumption DEF Slots

\* a rotation makes all but the new present a tick older, and loses no slot of the window
LEMMA RotatedWindow ==
  ASSUME present \in Slots, base \in Slots, base # present,
         present' = NewPresent, base' = NewBase
  PROVE  /\ NewPresent \in Slots /\ NewBase \in Slots /\ NewBase # NewPresent
         /\ \A s \in Window : s \in Window'
         /\ NewPresent \in Window'
<1>1. NewPresent \in Slots /\ NewBase \in Slots /\ NewPresent # present
  BY WrapSlot DEF NewPresent, NewBase
<1>2. NewBase # NewPresent
  BY WrapSlot DEF NewPresent, NewBase, Advances
<1>3. PICK i \in Slots, j \in Slots : i = NewPresent /\ j = NewBase
  BY <1>1
<1>4. \A s \in Slots :
        /\ Age(s) = IF s <= present THEN present - s ELSE present - s + Size
        /\ Age(s)' = IF s <= i THEN i - s ELSE i - s + Size
  BY <1>3, AgeOf DEF Age
<1>5. i = IF present = Size - 1 THEN 0 ELSE present + 1
  BY <1>3, RingAssumption DEF NewPresent, Wrap, Slots
<1>6. \A s \in Slots : s # i => Age(s)' = Age(s) + 1
  BY <1>1, <1>3, <1>4, <1>5, RingAssumption DEF Slots
<1>7. Age(i)' = 0 /\ \A s \in Slots : Age(s) \in 0..(Size - 1) /\ Age(s)' \in 0..(Size - 1)
  BY <1>3, <1>4, RingAssumption DEF Slots
<1>8. Window' = {s \in Slots : Age(s)' <= Age(j)'}
  BY <1>3 DEF Window, Age
<1>9. i \in Window'
  BY <1>3, <1>7, <1>8
<1>10. \A s \in Window : s \in Slots /\ Age(s) <= Age(base)
  BY DEF Window
<1>11. CASE Advances
  <2>1. j = IF i = Size - 1 THEN 0 ELSE i + 1
    BY <1>3, <1>11, RingAssumption DEF NewBase, Advances, Wrap, Slots
  <2>2. Age(j)' = Size - 1
    BY <1>3, <1>4, <2>1, RingAssumption DEF Slots
  <2> QED BY <1>1, <1>2, <1>3, <1>7, <1>8, <1>9, <1>10, <2>2, RingAssumption
<1>12. CASE ~Advances
  <2>1. j = base /\ j # i
    BY <1>2, <1>3, <1>12 DEF NewBase
  <2>2. Age(j)' = Age(base) + 1
    BY <1>3, <1>6, <2>1
  <2>3. \A s \in Window : Age(s)' <= Age(j)'
    BY <1>3, <1>6, <1>7, <1>10, <2>2
  <2> QED BY <1>1, <1>2, <1>3, <1>8, <1>9, <1>10, <2>3
<1> QED BY <1>11, <1>12

-------------------------------------------------------------------------------
(* Types. *)

LEMMA Records ==
  /\ \A r \in Snap : r # None
  /\ \A r \in BulletSnap : r # None
  /\ \A r \in Bullet : r # None
  BY DEF Snap, BulletSnap, Bullet, None

LEMMA PlayerWith ==
  ASSUME NEW r \in Player
  PROVE  /\ \A n \in Place : [r EXCEPT !.x = n] \in Player
         /\ \A l \in Lane : [r EXCEPT !.lane = l] \in Player
         /\ \A c \in Spot : [r EXCEPT !.prevPos = c] \in Player
         /\ \A v \in {-1, 0, 1} : [r EXCEPT !.vel = v] \in Player /\ [r EXCEPT !.prevMove = v] \in Player
         /\ \A c \in Cell : [r EXCEPT !.cell = c] \in Player
         /\ \A i \in Input : [r EXCEPT !.input = i] \in Player
         /\ \A b \in BOOLEAN :
              /\ [r EXCEPT !.dirty = b] \in Player /\ [r EXCEPT !.gunDirty = b] \in Player
              /\ [r EXCEPT !.in = b] \in Player /\ [r EXCEPT !.udp = b] \in Player
         /\ \A h \in 1..MaxHealth : [r EXCEPT !.health = h] \in Player
         /\ \A g \in Guns : [r EXCEPT !.gun = g] \in Player
         /\ \A n \in Nat : [r EXCEPT !.ammo = n] \in Player
         /\ \A t \in 0..(Reload - 1) : [r EXCEPT !.reload = t] \in Player
         /\ \A d \in {-1, 1} : [r EXCEPT !.aim = d] \in Player
         /\ \A a \in 0..Size : [r EXCEPT !.last = a] \in Player
  BY SMT DEF Player

LEMMA GunWith ==
  ASSUME NEW r \in Player, NEW t \in 0..(Reload - 1), NEW a \in Nat
  PROVE  /\ [r EXCEPT !.reload = t, !.ammo = a, !.dirty = TRUE] \in Player
         /\ [r EXCEPT !.ammo = a, !.dirty = TRUE, !.gunDirty = TRUE] \in Player
<1>1. [r EXCEPT !.reload = t] \in Player /\ [r EXCEPT !.ammo = a] \in Player
  BY PlayerWith
<1>2. [r EXCEPT !.reload = t, !.ammo = a] \in Player /\ [r EXCEPT !.ammo = a, !.dirty = TRUE] \in Player
  BY <1>1, PlayerWith
<1> QED BY <1>2, PlayerWith

LEMMA FieldTypes ==
  ASSUME NEW r \in Player
  PROVE  /\ r.x \in Place /\ r.lane \in Lane /\ r.vel \in {-1, 0, 1} /\ r.input \in Input
         /\ r.input.move \in {-1, 0, 1} /\ r.input.shoot \in BOOLEAN
         /\ r.prevMove \in {-1, 0, 1} /\ r.prevPos \in Spot /\ r.cell \in Cell
         /\ r.in \in BOOLEAN /\ r.udp \in BOOLEAN /\ r.dirty \in BOOLEAN /\ r.gunDirty \in BOOLEAN
         /\ r.health \in 1..MaxHealth /\ r.gun \in Guns /\ r.ammo \in Nat
         /\ r.reload \in 0..(Reload - 1) /\ r.last \in 0..Size /\ r.aim \in {-1, 1}
  BY DEF Player, Input

LEMMA GunType ==
  ASSUME NEW r \in Player
  PROVE  /\ coregame_gun_update(r) \in Player
         /\ coregame_gun_update(r).lane = r.lane /\ coregame_gun_update(r).vel = r.vel
         /\ coregame_gun_update(r).x = r.x
         /\ coregame_gun_update(r).cell = r.cell /\ coregame_gun_update(r).input = r.input
         /\ coregame_gun_update(r).gun = r.gun /\ coregame_gun_update(r).in = r.in
         /\ coregame_gun_update(r).udp = r.udp
         /\ coregame_gun_update(r).gunDirty = (r.gunDirty \/ Shoots(r))
         /\ r.ammo <= Magazine[r.gun] => coregame_gun_update(r).ammo <= Magazine[r.gun]
         /\ Shoots(r) \/ coregame_gun_update(r).ammo = r.ammo
              \/ (r.ammo = 0 /\ coregame_gun_update(r).ammo = Magazine[r.gun])
<1> DEFINE q == Reloading(r)
<1>1. q \in Player /\ q.lane = r.lane /\ q.vel = r.vel /\ q.x = r.x /\ q.cell = r.cell /\ q.input = r.input
      /\ q.gun = r.gun /\ q.in = r.in /\ q.udp = r.udp /\ q.gunDirty = r.gunDirty
      /\ (q.ammo = r.ammo \/ (r.ammo = 0 /\ q.ammo = Magazine[r.gun]))
  <2>1. CASE r.ammo > 0
    BY <2>1 DEF Reloading
  <2>2. CASE ~(r.ammo > 0) /\ r.reload + 1 < Reload
    <3>1. r.reload + 1 \in 0..(Reload - 1)
      BY <2>2, FieldTypes, GunAssumption
    <3>2. q = [r EXCEPT !.reload = r.reload + 1, !.dirty = TRUE]
      BY <2>2 DEF Reloading
    <3>3. q \in Player
      BY <3>1, <3>2, PlayerWith
    <3> QED BY <3>1, <3>2, <3>3, SMT DEF Player
  <2>3. CASE ~(r.ammo > 0) /\ ~(r.reload + 1 < Reload)
    <3>1. Magazine[r.gun] \in Nat /\ 0 \in 0..(Reload - 1) /\ r.ammo = 0
      BY <2>3, FieldTypes, GunAssumption
    <3>2. q = [r EXCEPT !.reload = 0, !.ammo = Magazine[r.gun], !.dirty = TRUE]
      BY <2>3 DEF Reloading
    <3>3. q \in Player
      <4> DEFINE a == Magazine[r.gun]
      <4>1. a \in Nat /\ q = [r EXCEPT !.reload = 0, !.ammo = a, !.dirty = TRUE]
        BY <3>1, <3>2
      <4> HIDE DEF a, q
      <4>2. [r EXCEPT !.reload = 0, !.ammo = a, !.dirty = TRUE] \in Player
        BY <3>1, <4>1, GunWith
      <4> QED BY <4>1, <4>2
    <3> QED BY <3>1, <3>2, <3>3, SMT DEF Player
  <2> QED BY <2>1, <2>2, <2>3
<1>2. /\ q.ammo \in Nat /\ (q.ammo > 0 => q.ammo - 1 \in Nat)
      /\ Magazine[r.gun] \in Nat /\ r.ammo \in Nat /\ r.gunDirty \in BOOLEAN
      /\ r.ammo <= Magazine[r.gun] => q.ammo <= Magazine[r.gun]
  BY <1>1, FieldTypes, GunAssumption
<1>3. CASE ~Shoots(r)
  <2>1. coregame_gun_update(r) = q
    BY <1>3 DEF coregame_gun_update
  <2> HIDE DEF q
  <2> QED BY <1>1, <1>2, <1>3, <2>1
<1>4. CASE Shoots(r)
  <2>1. q.ammo - 1 \in Nat
    BY <1>2, <1>4 DEF Shoots
  <2>2. coregame_gun_update(r) = [q EXCEPT !.ammo = q.ammo - 1, !.dirty = TRUE, !.gunDirty = TRUE]
    BY <1>4 DEF coregame_gun_update
  <2> HIDE DEF q
  <2>3. coregame_gun_update(r) \in Player
    <3> DEFINE a == q.ammo - 1
    <3>1. a \in Nat /\ coregame_gun_update(r) = [q EXCEPT !.ammo = a, !.dirty = TRUE, !.gunDirty = TRUE]
      BY <2>1, <2>2
    <3> HIDE DEF a
    <3>2. [q EXCEPT !.ammo = a, !.dirty = TRUE, !.gunDirty = TRUE] \in Player
      <4>1. 0 \in 0..(Reload - 1)
        BY GunAssumption
      <4> QED BY <1>1, <3>1, <4>1, GunWith
    <3> QED BY <3>1, <3>2
  <2>4. LET n == coregame_gun_update(r) IN
        /\ n.lane = q.lane /\ n.vel = q.vel /\ n.x = q.x /\ n.cell = q.cell /\ n.input = q.input /\ n.gun = q.gun
        /\ n.in = q.in /\ n.udp = q.udp /\ n.ammo = q.ammo - 1 /\ n.gunDirty = TRUE
    BY <1>1, <2>2, SMT DEF Player
  <2>5. r.ammo <= Magazine[r.gun] => coregame_gun_update(r).ammo <= Magazine[r.gun]
    <3>1. coregame_gun_update(r).ammo = q.ammo - 1
      BY <2>4
    <3> QED BY <1>2, <3>1
  <2>6. coregame_gun_update(r).gunDirty = (r.gunDirty \/ Shoots(r))
    BY <1>4, <2>4
  <2> QED BY <1>1, <1>4, <2>3, <2>4, <2>5, <2>6, Zenon
<1> QED BY <1>3, <1>4

LEMMA UpdateType ==
  ASSUME NEW r \in Player, NEW barred \in BOOLEAN
  PROVE  /\ coregame_update_player(r, barred) \in Player
         /\ coregame_update_player(r, barred).lane - coregame_update_player(r, barred).vel = r.lane
         /\ coregame_update_player(r, barred).x = r.x
         /\ coregame_update_player(r, barred).gun = r.gun /\ coregame_update_player(r, barred).ammo = r.ammo
         /\ coregame_update_player(r, barred).gunDirty = r.gunDirty
         /\ coregame_update_player(r, barred).in = r.in /\ coregame_update_player(r, barred).udp = r.udp
         /\ coregame_update_player(r, barred).lane = MoveTo(r, barred)
         /\ coregame_update_player(r, barred).lane - r.lane \in {-1, 0, 1}
         /\ coregame_update_player(r, barred).cell = Listed(r, MoveTo(r, barred))
<1> DEFINE to == MoveTo(r, barred)  d == to - r.lane
           c == Listed(r, to)
           at == <<r.x, to>>
           dirty == r.dirty \/ r.prevMove # r.input.move \/ r.prevPos # <<r.x, to>>
           q == coregame_update_player(r, barred)
<1>1. to \in Lane /\ d \in {-1, 0, 1} /\ c \in Cell /\ dirty \in BOOLEAN
  BY FieldTypes DEF MoveTo, Listed, CellsAt, Lane, Lanes, Cell
<1>2. q = [r EXCEPT !.lane = to, !.cell = c, !.vel = d, !.dirty = dirty,
                    !.prevMove = r.input.move, !.prevPos = at]
      /\ at \in Spot
  BY <1>1, FieldTypes DEF Spot, coregame_update_player
<1>3. q \in Player
  <2> HIDE DEF to, d, c, at, dirty, q
  <2>1. [r EXCEPT !.lane = to, !.cell = c, !.vel = d] \in Player
    BY <1>1, PlayerWith
  <2> DEFINE r2 == [r EXCEPT !.lane = to, !.cell = c, !.vel = d]
  <2> HIDE DEF r2
  <2>2. [r2 EXCEPT !.dirty = dirty, !.prevMove = r.input.move, !.prevPos = at] \in Player
    BY <1>1, <1>2, <2>1, FieldTypes, PlayerWith DEF r2
  <2> QED BY <1>2, <2>2, Zenon DEF r2
<1>4. /\ q.lane = to /\ q.x = r.x /\ q.vel = to - r.lane /\ q.gun = r.gun /\ q.ammo = r.ammo
      /\ q.gunDirty = r.gunDirty /\ q.in = r.in /\ q.udp = r.udp /\ q.cell = c
  BY <1>2, SMT DEF Player
<1>5. r.lane \in Int /\ to \in Int
  BY <1>1, FieldTypes DEF Lane, Lanes
<1> HIDE DEF to
<1>6. to - (to - r.lane) = r.lane
  BY <1>5
<1> QED BY <1>1, <1>3, <1>4, <1>6, Zenon DEF to, d, c, q

LEMMA TakeType ==
  ASSUME NEW r \in Player, NEW s \in Snap \cup {None}
  PROVE  LET q == TakeInput(s, r) IN
         /\ q \in Player /\ q.lane = r.lane /\ q.vel = r.vel /\ q.x = r.x /\ q.cell = r.cell /\ q.gun = r.gun
         /\ q.ammo = r.ammo /\ q.gunDirty = r.gunDirty /\ q.in = r.in /\ q.udp = r.udp
<1>1. CASE s # None /\ s.dirty
  <2>1. s.input \in Input /\ TakeInput(s, r) = [r EXCEPT !.input = s.input]
    BY <1>1 DEF Snap, TakeInput
  <2>2. TakeInput(s, r) \in Player
    BY <2>1, PlayerWith
  <2> QED BY <2>1, <2>2, SMT DEF Player
<1>2. CASE ~(s # None /\ s.dirty)
  BY <1>2 DEF TakeInput
<1> QED BY <1>1, <1>2

LEMMA RestoreType ==
  ASSUME NEW r \in Player, NEW s \in Snap, s.lane - s.vel \in Lane
  PROVE  LET q == sbsm_snapshot_to_player(r, s) IN
         /\ q \in Player /\ q.cell = r.cell /\ q.gun = r.gun /\ q.ammo = s.ammo /\ q.x = s.x
         /\ q.in = r.in /\ q.udp = r.udp
         /\ q.gunDirty = (r.gunDirty \/ s.ammo # (IF s.gun = r.gun THEN r.ammo ELSE Magazine[r.gun]))
<1> DEFINE g == r.gunDirty \/ s.ammo # (IF s.gun = r.gun THEN r.ammo ELSE Magazine[r.gun])
           q == sbsm_snapshot_to_player(r, s)
<1>1. /\ s.input \in Input /\ s.ammo \in Nat /\ s.reload \in 0..(Reload - 1) /\ g \in BOOLEAN
      /\ s.x \in Place
      /\ q = [r EXCEPT !.x = s.x, !.lane = s.lane - s.vel, !.input = s.input, !.gunDirty = g,
                       !.ammo = s.ammo, !.reload = s.reload]
  BY DEF Snap, sbsm_snapshot_to_player
<1> HIDE DEF g
<1>2. q \in Player
  <2> DEFINE r2 == [r EXCEPT !.x = s.x, !.lane = s.lane - s.vel, !.input = s.input, !.gunDirty = g]
  <2>1. r2 \in Player
    BY <1>1, PlayerWith
  <2> HIDE DEF r2, q
  <2>2. [r2 EXCEPT !.ammo = s.ammo, !.reload = s.reload] \in Player
    BY <1>1, <2>1, PlayerWith
  <2> QED BY <1>1, <2>2, Zenon DEF r2
<1>3. q.cell = r.cell /\ q.gun = r.gun /\ q.ammo = s.ammo /\ q.x = s.x /\ q.in = r.in /\ q.udp = r.udp /\ q.gunDirty = g
  BY <1>1, SMT DEF Player
<1> QED BY <1>2, <1>3 DEF g

LEMMA SnapType ==
  ASSUME NEW r \in Player, NEW d \in BOOLEAN, NEW n \in 0..2
  PROVE  /\ sbsm_player_to_snapshot(r, d, n) \in Snap
         /\ sbsm_player_to_snapshot(r, d, n).lane = r.lane /\ sbsm_player_to_snapshot(r, d, n).vel = r.vel
         /\ sbsm_player_to_snapshot(r, d, n).x = r.x
         /\ sbsm_player_to_snapshot(r, d, n).gun = r.gun /\ sbsm_player_to_snapshot(r, d, n).ammo = r.ammo
  BY DEF sbsm_player_to_snapshot, Snap, Player

LEMMA CommitType ==
  ASSUME NEW r \in Player, NEW s \in Snap \cup {None}
  PROVE  LET q == sbsm_commit_player(s, r) IN
         /\ q \in Snap \cup {None}
         /\ q # None => q.lane = r.lane /\ q.vel = r.vel /\ q.x = r.x /\ q.gun = r.gun /\ q.ammo = r.ammo
<1>1. CASE ~r.dirty
  BY <1>1 DEF sbsm_commit_player
<1>2. CASE r.dirty
  <2>1. (IF s = None THEN 0 ELSE s.count) \in 0..2
    BY DEF Snap
  <2> QED BY <1>2, <2>1, SnapType DEF sbsm_commit_player
<1> QED BY <1>1, <1>2

-------------------------------------------------------------------------------
(* What a step does, in the terms of the invariant. *)

\* one player's tick: `in` is the player with the input of the tick, `new` what becomes of it
LEMMA PlayerTicked ==
  ASSUME Typed, NEW p \in Players, UpdatePlayer(p)
  PROVE  \E in \in Player, new \in Player, snap \in Snap \cup {None} :
    /\ player' = [player EXCEPT ![p] = new]
    /\ pss' = [pss EXCEPT ![cursor] = [pss[cursor] EXCEPT ![p] = snap]]
    /\ new.in = player[p].in /\ new.udp = player[p].udp /\ new.gun = player[p].gun
    /\ new.lane - new.vel = player[p].lane
    /\ new.x = player[p].x /\ in.x = player[p].x /\ (snap # None => snap.x = player[p].x)
    /\ snap # None => /\ snap.lane - snap.vel = player[p].lane
                      /\ snap.gun = new.gun /\ snap.ammo = new.ammo
    /\ placed' = [placed EXCEPT ![p] = @ /\ in.input.move = 0]
    /\ ahead' \in [Players -> {-1, 0, 1}] /\ \A q \in Players : q # p => ahead'[q] = ahead[q]
    /\ IF in.input.move = 0
       THEN new.lane = player[p].lane /\ new.cell = player[p].cell /\ ahead'[p] = ahead[p]
       ELSE new.cell = CellsAt(new.x, new.lane + ahead'[p])
    /\ player[p].ammo <= Magazine[player[p].gun] => new.ammo <= Magazine[player[p].gun]
    /\ \/ told' = [told EXCEPT ![p] = new.ammo]
       \/ told' = told /\ (new.gunDirty \/
            (~player[p].gunDirty /\ (new.ammo = player[p].ammo
               \/ (player[p].ammo = 0 /\ new.ammo = Magazine[player[p].gun]))))
    /\ new.gunDirty => rewinding
    /\ \/ UNCHANGED <<bullet, pushed, seq>>
       \/ /\ seq < MaxBullets /\ seq' = seq + 1 /\ pushed' = server_on_bullet_create(p)
          /\ bullet' = [bullet EXCEPT ![seq + 1] = cg_add_bullet(in, p)]
<1>0. PICK barred \in BOOLEAN :
        LET in == IF rewinding THEN TakeInput(pss[cursor][p], player[p]) ELSE player[p]
            out == coregame_update_player(coregame_gun_update(in), barred)
            tell == out.gunDirty /\ ~rewinding
        IN  /\ player' = [player EXCEPT ![p] =
                 [out EXCEPT !.dirty = FALSE, !.gunDirty = @ /\ rewinding]]
            /\ pss' = [pss EXCEPT ![cursor][p] = sbsm_commit_player(@, out)]
            /\ bullet' = IF Makes(in) THEN [bullet EXCEPT ![seq + 1] = cg_add_bullet(in, p)] ELSE bullet
            /\ pushed' = IF Makes(in) THEN server_on_bullet_create(p) ELSE pushed
            /\ seq' = IF Makes(in) THEN seq + 1 ELSE seq
            /\ told' = IF tell \/ (Shoots(in) /\ out.ammo = 0)
                       THEN [told EXCEPT ![p] = out.ammo] ELSE told
            /\ placed' = [placed EXCEPT ![p] = @ /\ in.input.move = 0]
            /\ ahead' = IF in.input.move = 0 THEN ahead ELSE [ahead EXCEPT ![p] = out.vel]
  BY DEF UpdatePlayer, Barred
<1> DEFINE in == IF rewinding THEN TakeInput(pss[cursor][p], player[p]) ELSE player[p]
           mid == coregame_gun_update(in)
           out == coregame_update_player(mid, barred)
           g == out.gunDirty /\ rewinding
           new == [out EXCEPT !.dirty = FALSE, !.gunDirty = g]
           snap == sbsm_commit_player(pss[cursor][p], out)
           tell == (out.gunDirty /\ ~rewinding) \/ (Shoots(in) /\ out.ammo = 0)
<1>1. /\ player' = [player EXCEPT ![p] = new]
      /\ pss' = [pss EXCEPT ![cursor] = [pss[cursor] EXCEPT ![p] = snap]]
      /\ told' = IF tell THEN [told EXCEPT ![p] = out.ammo] ELSE told
      /\ placed' = [placed EXCEPT ![p] = @ /\ in.input.move = 0]
      /\ bullet' = IF Makes(in) THEN [bullet EXCEPT ![seq + 1] = cg_add_bullet(in, p)] ELSE bullet
      /\ pushed' = IF Makes(in) THEN server_on_bullet_create(p) ELSE pushed
      /\ seq' = IF Makes(in) THEN seq + 1 ELSE seq
      /\ ahead' = IF in.input.move = 0 THEN ahead ELSE [ahead EXCEPT ![p] = out.vel]
  BY <1>0
<1>2. player[p] \in Player /\ pss[cursor][p] \in Snap \cup {None} /\ rewinding \in BOOLEAN
      /\ ahead \in [Players -> {-1, 0, 1}]
  BY DEF Typed
<1>3. /\ in \in Player /\ in.x = player[p].x /\ in.lane = player[p].lane /\ in.cell = player[p].cell /\ in.gun = player[p].gun
      /\ in.ammo = player[p].ammo /\ in.gunDirty = player[p].gunDirty
      /\ in.in = player[p].in /\ in.udp = player[p].udp
  BY <1>2, TakeType
<1> HIDE DEF in
<1>4. /\ mid \in Player /\ mid.x = in.x /\ mid.lane = in.lane /\ mid.cell = in.cell /\ mid.input = in.input
      /\ mid.gun = in.gun /\ mid.in = in.in /\ mid.udp = in.udp
      /\ mid.gunDirty = (in.gunDirty \/ Shoots(in))
      /\ in.ammo <= Magazine[in.gun] => mid.ammo <= Magazine[in.gun]
      /\ Shoots(in) \/ mid.ammo = in.ammo \/ (in.ammo = 0 /\ mid.ammo = Magazine[in.gun])
  BY <1>3, GunType
<1> HIDE DEF mid
<1>5. /\ out \in Player /\ out.x = mid.x /\ out.lane - out.vel = mid.lane /\ out.gun = mid.gun /\ out.ammo = mid.ammo
      /\ out.gunDirty = mid.gunDirty /\ out.in = mid.in /\ out.udp = mid.udp
      /\ out.lane - mid.lane \in {-1, 0, 1} /\ out.cell = Listed(mid, out.lane)
      /\ out.lane = MoveTo(mid, barred)
  BY <1>4, UpdateType
<1> HIDE DEF out
<1>6. g \in BOOLEAN
  OBVIOUS
<1> HIDE DEF g
<1>7. new \in Player
  BY <1>5, <1>6, PlayerWith
<1>8. /\ new.in = out.in /\ new.udp = out.udp /\ new.gun = out.gun /\ new.ammo = out.ammo
      /\ new.lane = out.lane /\ new.vel = out.vel /\ new.x = out.x /\ new.cell = out.cell /\ new.gunDirty = g
  BY <1>5, SMT DEF Player
<1> HIDE DEF new
<1>9. /\ snap \in Snap \cup {None}
      /\ snap # None => snap.lane = out.lane /\ snap.vel = out.vel /\ snap.x = out.x /\ snap.gun = out.gun /\ snap.ammo = out.ammo
  BY <1>2, <1>5, CommitType
<1> HIDE DEF snap
<1>10. /\ ahead' \in [Players -> {-1, 0, 1}] /\ \A q \in Players : q # p => ahead'[q] = ahead[q]
       /\ IF in.input.move = 0
          THEN new.lane = player[p].lane /\ new.cell = player[p].cell /\ ahead'[p] = ahead[p]
          ELSE new.cell = CellsAt(new.x, new.lane + ahead'[p])
  <2>1. in.lane \in Int /\ out.lane \in Int /\ out.vel = out.lane - mid.lane
    <3>1. out.lane \in Int /\ out.vel \in Int /\ mid.lane \in Int /\ in.lane \in Int
      BY <1>3, <1>4, <1>5, FieldTypes DEF Lane, Lanes
    <3> QED BY <1>5, <3>1
  <2>2. CASE in.input.move = 0
    <3>1. out.lane = mid.lane /\ out.cell = mid.cell
      BY <1>4, <1>5, <2>1, <2>2 DEF MoveTo, Listed
    <3> QED BY <1>1, <1>2, <1>3, <1>4, <1>8, <2>2, <3>1
  <2>3. CASE in.input.move # 0
    <3>1. ahead' = [ahead EXCEPT ![p] = out.vel] /\ out.vel \in {-1, 0, 1}
      BY <1>1, <1>5, <2>1, <2>3
    <3>2. out.cell = CellsAt(out.x, out.lane + out.vel)
      BY <1>4, <1>5, <2>1, <2>3 DEF Listed
    <3>3. /\ ahead'[p] = out.vel /\ ahead' \in [Players -> {-1, 0, 1}]
          /\ \A q \in Players : q # p => ahead'[q] = ahead[q]
      BY <1>2, <3>1
    <3> QED BY <1>8, <2>3, <3>2, <3>3
  <2> QED BY <2>2, <2>3
<1>11. \/ told' = [told EXCEPT ![p] = new.ammo]
       \/ told' = told /\ (new.gunDirty \/
            (~player[p].gunDirty /\ (new.ammo = player[p].ammo
               \/ (player[p].ammo = 0 /\ new.ammo = Magazine[player[p].gun]))))
  <2>1. CASE tell
    BY <1>1, <1>8, <2>1
  <2>2. CASE ~tell
    BY <1>1, <1>2, <1>3, <1>4, <1>5, <1>8, <2>2 DEF g
  <2> QED BY <2>1, <2>2
<1>12. \/ UNCHANGED <<bullet, pushed, seq>>
       \/ /\ seq < MaxBullets /\ seq' = seq + 1 /\ pushed' = server_on_bullet_create(p)
          /\ bullet' = [bullet EXCEPT ![seq + 1] = cg_add_bullet(in, p)]
  BY <1>1 DEF Makes
<1>13. new.gunDirty => rewinding
  BY <1>8 DEF g
<1> HIDE DEF tell
<1>14. /\ new.in = player[p].in /\ new.udp = player[p].udp /\ new.gun = player[p].gun
       /\ new.lane - new.vel = player[p].lane
       /\ new.x = player[p].x /\ in.x = player[p].x /\ (snap # None => snap.x = player[p].x)
       /\ snap # None => /\ snap.lane - snap.vel = player[p].lane
                         /\ snap.gun = new.gun /\ snap.ammo = new.ammo
       /\ player[p].ammo <= Magazine[player[p].gun] => new.ammo <= Magazine[player[p].gun]
  BY <1>3, <1>4, <1>5, <1>8, <1>9
<1> QED BY <1>1, <1>3, <1>7, <1>9, <1>10, <1>11, <1>12, <1>13, <1>14

\* what a hit does to who is hit: whoever dies is respawned and forgotten
LEMMA PlayerHurt ==
  ASSUME Typed, NEW q \in Players, Hurt(q)
  PROVE  \E new \in Player :
    /\ player' = [player EXCEPT ![q] = new]
    /\ new.in = player[q].in /\ new.udp = player[q].udp /\ new.gun = player[q].gun
    /\ new.ammo = player[q].ammo /\ new.gunDirty = player[q].gunDirty /\ new.cell = player[q].cell
    /\ new.lane - new.vel = player[q].lane - player[q].vel \/ new.lane - new.vel \in Lane
    /\ (new.lane = player[q].lane /\ new.x = player[q].x) \/ placed'[q]
    /\ new.x = player[q].x \/ new.x = Column[q]
    /\ pss' \in [Slots -> [Players -> Snap \cup {None}]]
    /\ \A s \in Slots, p \in Players : pss'[s][p] = pss[s][p] \/ pss'[s][p] = None
    /\ placed' \in [Players -> BOOLEAN] /\ \A p \in Players : placed[p] => placed'[p]
<1> DEFINE r == player[q]
<1>1. r \in Player /\ r.health \in 1..MaxHealth /\ MaxHealth \in Nat \ {0} /\ r.vel \in {-1, 0, 1}
  BY FieldTypes, GunAssumption DEF Typed
<1>2. placed' = [placed EXCEPT ![q] = placed[q] \/ Dies(r)]
  BY DEF Hurt
<1>3. placed' \in [Players -> BOOLEAN] /\ placed'[q] = (placed[q] \/ Dies(r))
      /\ \A p \in Players : placed[p] => placed'[p]
  BY <1>2 DEF Typed
<1> HIDE DEF r
<1>4. CASE Dies(r)
  <2> DEFINE n == Respawned(q)
  <2>1. /\ player' = [player EXCEPT ![q] = n]
        /\ pss' = [s \in Slots |-> [pss[s] EXCEPT ![q] = None]]
    BY <1>4 DEF Hurt, r
  <2>2. 0 \in Lane /\ MaxHealth \in 1..MaxHealth /\ 0 - r.vel \in Lane
    BY <1>1 DEF Lane, Lanes
  <2>3. n \in Player
    <3>1. Column[q] \in Place /\ n = [r EXCEPT !.x = Column[q], !.lane = 0, !.health = MaxHealth]
      BY MapAssumption DEF Place, Respawned, r
    <3>2. [r EXCEPT !.x = Column[q], !.lane = 0] \in Player
      <4>1. [r EXCEPT !.x = Column[q]] \in Player
        BY <1>1, <3>1, PlayerWith
      <4> QED BY <2>2, <4>1, PlayerWith
    <3> QED BY <2>2, <3>1, <3>2, PlayerWith
  <2>4. /\ n.in = r.in /\ n.udp = r.udp /\ n.gun = r.gun /\ n.ammo = r.ammo /\ n.gunDirty = r.gunDirty
        /\ n.cell = r.cell /\ n.lane = 0 /\ n.vel = r.vel /\ n.x = Column[q]
    BY <1>1, SMT DEF Respawned, Player, r
  <2> HIDE DEF n
  <2>5. /\ pss' \in [Slots -> [Players -> Snap \cup {None}]]
        /\ \A s \in Slots, p \in Players : pss'[s][p] = pss[s][p] \/ pss'[s][p] = None
    BY <2>1 DEF Typed
  <2> QED BY <1>3, <1>4, <2>1, <2>2, <2>3, <2>4, <2>5 DEF r
<1>5. CASE ~Dies(r)
  <2>1. player' = [player EXCEPT ![q] = Damaged(r)] /\ pss' = pss
    BY <1>5 DEF Hurt, r
  <2>2. r.health - 1 \in 1..MaxHealth
    BY <1>1, <1>5 DEF Dies
  <2>3. Damaged(r) \in Player
    BY <1>1, <2>2, PlayerWith DEF Damaged
  <2>4. LET n == Damaged(r) IN
        /\ n.in = r.in /\ n.udp = r.udp /\ n.gun = r.gun /\ n.ammo = r.ammo /\ n.gunDirty = r.gunDirty
        /\ n.cell = r.cell /\ n.lane = r.lane /\ n.vel = r.vel /\ n.x = r.x
    BY <1>1, SMT DEF Damaged, Player
  <2> QED BY <1>3, <2>1, <2>3, <2>4 DEF Typed, r
<1> QED BY <1>4, <1>5

\* a bullet that may have left the map
Flying == [x : Int, lane : Lane, dir : {-1, 1}, owner : Players, hit : BOOLEAN]

LEMMA BulletWith ==
  ASSUME NEW r \in Bullet, NEW n \in Int, NEW h \in BOOLEAN,
         NEW q, q = [r EXCEPT !.x = n, !.hit = h]
  PROVE  q.x = n /\ q \in Flying /\ (n \in 1..Length => q \in Bullet)
<1>1. [r EXCEPT !.x = n] \in Flying /\ (n \in 1..Length => [r EXCEPT !.x = n] \in Bullet)
  BY MapAssumption, SMT DEF Bullet, Flying, Place
<1>2. /\ \A s \in Flying : [s EXCEPT !.hit = h] \in Flying
      /\ \A s \in Bullet : [s EXCEPT !.hit = h] \in Bullet
  BY SMT DEF Bullet, Flying
<1>3. q.x = n
  BY SMT DEF Bullet
<1> QED BY <1>1, <1>2, <1>3

LEMMA BulletHit ==
  ASSUME NEW r \in Bullet, NEW n \in Int, NEW h \in BOOLEAN,
         NEW q, q = [r EXCEPT !.x = n, !.hit = h]
  PROVE  q.hit = h
  BY SMT DEF Bullet

\* one bullet's tick, and where it is recorded
LEMMA BulletMoved ==
  ASSUME Typed, Indices, InTheOpen, NEW b \in Bullets, UpdateBullet(b)
  PROVE  /\ pc = "bullets" /\ b \in todo /\ bullet[b] \in Bullet
         /\ \E r \in Flying :
              /\ bullet' = [bullet EXCEPT ![b] = IF r.x \in 1..Length THEN r ELSE None]
              /\ r.x \in 1..Length => r \in Bullet /\ r # None
              /\ astray \/ r.hit \/ r.x \notin Blocks
              /\ IF Flies(b) THEN r.x = Next_x(b) /\ r.hit = Hits(b) ELSE r = bullet[b] /\ r.hit
              /\ bss' \in [Slots -> [Bullets -> BulletSnap \cup {None}]]
              /\ \A s \in Slots, c \in Bullets :
                   bss'[s][c] = IF c = b /\ ((s = cursor /\ (Flies(b) \/ rewinding)) \/ (s = present /\ Flies(b)))
                                THEN [x |-> r.x, hit |-> r.hit] ELSE bss[s][c]
              /\ pc' = IF r.x \in 1..Length THEN "bullets" ELSE "down"
              /\ end' = IF r.x \in 1..Length THEN "no" ELSE "left"
         /\ \/ Flies(b) /\ Hits(b) /\ hurt' = [hurt EXCEPT ![b] = @ + 1] /\ \E q \in Players : Hurt(q)
            \/ UNCHANGED <<player, pss, hurt, placed>>
<1> DEFINE r == IF Flies(b) THEN Moved(b) ELSE bullet[b]
<1>1. pc = "bullets" /\ b \in todo
  BY DEF UpdateBullet
<1>2. bullet[b] \in Bullet /\ bullet[b] # None
  BY <1>1 DEF Indices, Alive, Typed
<1>3. /\ bullet[b].x \in Place /\ bullet[b].dir \in {-1, 1} /\ bullet[b].hit \in BOOLEAN
      /\ Length \in Nat /\ Next_x(b) = bullet[b].x + bullet[b].dir
      /\ bullet[b].lane \in Lane /\ bullet[b].owner \in Players
  BY <1>2, MapAssumption DEF Bullet, Next_x, Place
<1>12. astray \/ (InMap(b) /\ (bullet[b].hit \/ bullet[b].x \notin Blocks))
  BY <1>2 DEF InTheOpen, NoneAstray, Alive, InMap
<1>4. Next_x(b) \in Int /\ Hits(b) \in BOOLEAN
  BY <1>3, MapAssumption DEF Hits, InMap, Place
<1>5. /\ r \in Flying
      /\ r.x \in 1..Length => r \in Bullet
      /\ IF Flies(b) THEN r.x = Next_x(b) /\ r.hit = Hits(b) ELSE r = bullet[b] /\ r.hit
      /\ astray \/ r.hit \/ r.x \notin Blocks
  <2>1. CASE Flies(b)
    <3>1. r = [bullet[b] EXCEPT !.x = Next_x(b), !.hit = Hits(b)]
      BY <2>1 DEF Moved
    <3> HIDE DEF r
    <3>2. PICK old \in Bullet, n \in Int, h \in BOOLEAN :
            /\ r = [old EXCEPT !.x = n, !.hit = h]
            /\ n = Next_x(b) /\ h = Hits(b) /\ (astray \/ h \/ n \notin Blocks)
      BY <1>2, <1>4, <1>12, <3>1, Zenon DEF Hits
    <3>3. r.x = n /\ r \in Flying /\ (n \in 1..Length => r \in Bullet)
      BY <3>2, BulletWith
    <3>4. r.hit = h
      BY <3>2, BulletHit
    <3> QED BY <2>1, <3>2, <3>3, <3>4
  <2>2. CASE ~Flies(b)
    BY <1>2, <1>3, <1>12, <2>2, MapAssumption DEF Flies, Bullet, Flying, Place
  <2> QED BY <2>1, <2>2
<1>6. /\ bullet' = [bullet EXCEPT ![b] = IF r.x \in 1..Length THEN r ELSE None]
      /\ pc' = IF r.x \in 1..Length THEN "bullets" ELSE "down"
      /\ end' = IF r.x \in 1..Length THEN "no" ELSE "left"
      /\ bss' = Commit(r, b)
  BY DEF UpdateBullet
<1> HIDE DEF r
<1>7. r \in Bullet => r # None
  BY Records
<1>8. sbsm_commit_bullet(r) = [x |-> r.x, hit |-> r.hit] /\ sbsm_commit_bullet(r) \in BulletSnap
  BY <1>5 DEF sbsm_commit_bullet, BulletSnap, Flying
<1>9. /\ bss' \in [Slots -> [Bullets -> BulletSnap \cup {None}]]
      /\ \A s \in Slots, c \in Bullets :
           bss'[s][c] = IF c = b /\ ((s = cursor /\ (Flies(b) \/ rewinding)) \/ (s = present /\ Flies(b)))
                        THEN [x |-> r.x, hit |-> r.hit] ELSE bss[s][c]
  <2> DEFINE k == sbsm_commit_bullet(r)
  <2>1. k \in BulletSnap /\ k = [x |-> r.x, hit |-> r.hit]
    BY <1>8
  <2>2. bss' = [bss EXCEPT ![present][b] = IF Flies(b) THEN k ELSE @,
                           ![cursor][b] = IF Flies(b) \/ rewinding THEN k ELSE @]
    BY <1>6 DEF Commit
  <2> HIDE DEF k
  <2> DEFINE one == [bss EXCEPT ![present][b] = IF Flies(b) THEN k ELSE @]
  <2>3. /\ bss \in [Slots -> [Bullets -> BulletSnap \cup {None}]]
        /\ present \in Slots /\ cursor \in Slots
    BY DEF Typed
  <2>4. /\ one \in [Slots -> [Bullets -> BulletSnap \cup {None}]]
        /\ \A s \in Slots, c \in Bullets :
             one[s][c] = IF c = b /\ s = present /\ Flies(b) THEN k ELSE bss[s][c]
    BY <2>1, <2>3
  <2>5. bss' = [one EXCEPT ![cursor][b] = IF Flies(b) \/ rewinding THEN k ELSE one[cursor][b]]
    BY <2>2, <2>3
  <2> HIDE DEF one
  <2> QED BY <2>1, <2>3, <2>4, <2>5
<1>10. \/ Flies(b) /\ Hits(b) /\ hurt' = [hurt EXCEPT ![b] = @ + 1] /\ \E q \in Players : Hurt(q)
       \/ UNCHANGED <<player, pss, hurt, placed>>
  BY DEF UpdateBullet, Hits, Struck, InGame
<1> QED BY <1>1, <1>2, <1>5, <1>6, <1>7, <1>9, <1>10

LEMMA SnapWith ==
  ASSUME NEW r \in Snap
  PROVE  /\ \A d \in BOOLEAN : [r EXCEPT !.dirty = d] \in Snap
         /\ \A i \in Input : [r EXCEPT !.input = i] \in Snap
         /\ \A n \in 0..2 : [r EXCEPT !.count = n] \in Snap
  BY SMT DEF Snap

\* a rollback gives back what the snapshot knows, and neither adds nor removes
LEMMA RolledBackTo ==
  ASSUME Typed, Restorable, Indices, sbsm_rollback
  PROVE  /\ pc = "idle" /\ oldest \in Slots /\ oldest \in Window
         /\ player' \in [Players -> Player]
         /\ \A p \in Players :
              /\ player'[p].in = player[p].in /\ player'[p].udp = player[p].udp
              /\ player'[p].gun = player[p].gun /\ player'[p].cell = player[p].cell
              /\ IF p \in InGame /\ pss[oldest][p] # None
                 THEN /\ player'[p].ammo = pss[oldest][p].ammo /\ placed'[p]
                     /\ player'[p].x = pss[oldest][p].x
                      /\ crossed'[p] = (crossed[p] \/ pss[oldest][p].gun # player[p].gun)
                      /\ player'[p].gunDirty = (player[p].gunDirty \/ pss[oldest][p].ammo #
                           (IF pss[oldest][p].gun = player[p].gun THEN player[p].ammo ELSE Magazine[player[p].gun]))
                 ELSE player'[p] = player[p] /\ placed'[p] = placed[p] /\ crossed'[p] = crossed[p]
         /\ pss' \in [Slots -> [Players -> Snap \cup {None}]]
         /\ \A s \in Slots, p \in Players : pss'[s][p] # None =>
              /\ pss[s][p] # None
              /\ pss'[s][p].lane = pss[s][p].lane /\ pss'[s][p].vel = pss[s][p].vel /\ pss'[s][p].x = pss[s][p].x
              /\ pss'[s][p].gun = pss[s][p].gun /\ pss'[s][p].ammo = pss[s][p].ammo
         /\ bullet' \in [Bullets -> Bullet \cup {None}]
         /\ \A b \in Bullets :
              /\ bullet'[b] = None <=> bullet[b] = None
              /\ IF RolledBack(b) THEN bullet'[b].x = bss[oldest][b].x /\ bullet'[b].hit = bss[oldest][b].hit
                 ELSE bullet'[b] = bullet[b]
         /\ InGame' = InGame
<1>1. pc = "idle" /\ oldest # NoSlot /\ oldest \in Slots /\ oldest \in Window
  BY DEF sbsm_rollback, Typed, Indices
<1> DEFINE back == {p \in InGame : pss[oldest][p] # None}
<1>2. /\ player' = [p \in Players |->
           IF p \in back THEN sbsm_snapshot_to_player(player[p], pss[oldest][p]) ELSE player[p]]
      /\ pss' = [pss EXCEPT ![oldest] =
           [p \in Players |-> IF p \in back THEN [pss[oldest][p] EXCEPT !.dirty = FALSE] ELSE pss[oldest][p]]]
      /\ crossed' = [p \in Players |-> crossed[p] \/ (p \in back /\ pss[oldest][p].gun # player[p].gun)]
      /\ placed' = [p \in Players |-> placed[p] \/ p \in back]
      /\ bullet' = [b \in Bullets |->
           IF RolledBack(b) THEN [bullet[b] EXCEPT !.x = bss[oldest][b].x, !.hit = bss[oldest][b].hit] ELSE bullet[b]]
  BY DEF sbsm_rollback
<1>3. \A p \in Players : player[p] \in Player /\ pss[oldest][p] \in Snap \cup {None}
      /\ (pss[oldest][p] # None => pss[oldest][p].lane - pss[oldest][p].vel \in Lane)
      /\ (p \in back <=> p \in InGame /\ pss[oldest][p] # None)
  BY <1>1 DEF Typed, Restorable, InGame
<1>4. ASSUME NEW p \in Players
      PROVE  /\ player'[p] \in Player
             /\ player'[p].in = player[p].in /\ player'[p].udp = player[p].udp
             /\ player'[p].gun = player[p].gun /\ player'[p].cell = player[p].cell
             /\ IF p \in InGame /\ pss[oldest][p] # None
                THEN /\ player'[p].ammo = pss[oldest][p].ammo /\ placed'[p]
                     /\ player'[p].x = pss[oldest][p].x
                     /\ crossed'[p] = (crossed[p] \/ pss[oldest][p].gun # player[p].gun)
                     /\ player'[p].gunDirty = (player[p].gunDirty \/ pss[oldest][p].ammo #
                          (IF pss[oldest][p].gun = player[p].gun THEN player[p].ammo ELSE Magazine[player[p].gun]))
                ELSE player'[p] = player[p] /\ placed'[p] = placed[p] /\ crossed'[p] = crossed[p]
  <2>1. CASE p \in back
    <3>1. player'[p] = sbsm_snapshot_to_player(player[p], pss[oldest][p]) /\ placed'[p]
          /\ crossed'[p] = (crossed[p] \/ pss[oldest][p].gun # player[p].gun)
      BY <1>2, <2>1
    <3>2. PICK r \in Player, s \in Snap : r = player[p] /\ s = pss[oldest][p] /\ s.lane - s.vel \in Lane
      BY <1>3, <2>1
    <3>3. LET q == sbsm_snapshot_to_player(r, s) IN
          /\ q \in Player /\ q.cell = r.cell /\ q.gun = r.gun /\ q.ammo = s.ammo /\ q.x = s.x
          /\ q.in = r.in /\ q.udp = r.udp
          /\ q.gunDirty = (r.gunDirty \/ s.ammo # (IF s.gun = r.gun THEN r.ammo ELSE Magazine[r.gun]))
      BY <3>2, RestoreType
    <3> QED BY <1>3, <2>1, <3>1, <3>2, <3>3
  <2>2. CASE p \notin back
    <3>1. player'[p] = player[p] /\ placed'[p] = placed[p] /\ crossed'[p] = crossed[p]
      BY <1>2, <2>2 DEF Typed
    <3> QED BY <1>3, <2>2, <3>1
  <2> QED BY <2>1, <2>2
<1>5. player' \in [Players -> Player]
  <2>1. player' = [p \in Players |-> player'[p]]
    BY <1>2
  <2> QED BY <1>4, <2>1
<1>6. ASSUME NEW p \in Players, p \in back
      PROVE  LET q == [pss[oldest][p] EXCEPT !.dirty = FALSE] IN
             /\ q \in Snap /\ q.lane = pss[oldest][p].lane /\ q.vel = pss[oldest][p].vel /\ q.x = pss[oldest][p].x
             /\ q.gun = pss[oldest][p].gun /\ q.ammo = pss[oldest][p].ammo
  <2>1. PICK r \in Snap : r = pss[oldest][p]
    BY <1>3, <1>6
  <2>2. [r EXCEPT !.dirty = FALSE] \in Snap
    BY SnapWith
  <2>3. LET q == [r EXCEPT !.dirty = FALSE] IN
        q.lane = r.lane /\ q.vel = r.vel /\ q.x = r.x /\ q.gun = r.gun /\ q.ammo = r.ammo
    BY SMT DEF Snap
  <2> QED BY <2>1, <2>2, <2>3
<1>7. /\ pss' \in [Slots -> [Players -> Snap \cup {None}]]
      /\ \A s \in Slots, p \in Players : pss'[s][p] # None =>
           /\ pss[s][p] # None
           /\ pss'[s][p].lane = pss[s][p].lane /\ pss'[s][p].vel = pss[s][p].vel /\ pss'[s][p].x = pss[s][p].x
           /\ pss'[s][p].gun = pss[s][p].gun /\ pss'[s][p].ammo = pss[s][p].ammo
  <2> DEFINE row == [p \in Players |-> IF p \in back THEN [pss[oldest][p] EXCEPT !.dirty = FALSE] ELSE pss[oldest][p]]
  <2>1. row \in [Players -> Snap \cup {None}]
    BY <1>3, <1>6
  <2>2. \A p \in Players : row[p] # None =>
           /\ pss[oldest][p] # None
           /\ row[p].lane = pss[oldest][p].lane /\ row[p].vel = pss[oldest][p].vel /\ row[p].x = pss[oldest][p].x
           /\ row[p].gun = pss[oldest][p].gun /\ row[p].ammo = pss[oldest][p].ammo
    BY <1>3, <1>6
  <2>3. pss' = [pss EXCEPT ![oldest] = row]
    BY <1>2
  <2> HIDE DEF row, back
  <2> QED BY <1>1, <2>1, <2>2, <2>3 DEF Typed
<1>8. ASSUME NEW b \in Bullets
      PROVE  /\ bullet'[b] \in Bullet \cup {None} /\ (bullet'[b] = None <=> bullet[b] = None)
             /\ IF RolledBack(b) THEN bullet'[b].x = bss[oldest][b].x /\ bullet'[b].hit = bss[oldest][b].hit
                ELSE bullet'[b] = bullet[b]
  <2>1. CASE RolledBack(b)
    <3>1. /\ bullet[b] \in Bullet /\ bss[oldest][b] # None
          /\ bullet'[b] = [bullet[b] EXCEPT !.x = bss[oldest][b].x, !.hit = bss[oldest][b].hit]
      BY <1>2, <2>1 DEF Typed, RolledBack
    <3>2. bss[oldest][b].x \in 1..Length /\ bss[oldest][b].hit \in BOOLEAN
      BY <1>1, <3>1 DEF Typed, Restorable, BulletSnap
    <3>3. PICK old \in Bullet : old = bullet[b]
      BY <3>1
    <3>8. PICK new : new = bullet'[b]
      OBVIOUS
    <3>4. PICK n \in Int, h \in BOOLEAN : n = bss[oldest][b].x /\ h = bss[oldest][b].hit
      BY <3>2, MapAssumption
    <3>5. new = [old EXCEPT !.x = n, !.hit = h] /\ n \in 1..Length
      BY <3>1, <3>2, <3>3, <3>8, <3>4, Zenon
    <3>6. new.x = n /\ new \in Bullet
      BY <3>5, BulletWith
    <3>7. new.hit = h
      BY <3>5, BulletHit
    <3> QED BY <2>1, <3>1, <3>3, <3>8, <3>4, <3>6, <3>7, Records DEF RolledBack
  <2>2. CASE ~RolledBack(b)
    BY <1>2, <2>2 DEF Typed
  <2> QED BY <2>1, <2>2
<1>9. bullet' \in [Bullets -> Bullet \cup {None}]
  <2>1. bullet' = [b \in Bullets |-> bullet'[b]]
    BY <1>2
  <2> QED BY <1>8, <2>1
<1>10. InGame' = InGame
  BY <1>4 DEF InGame
<1> HIDE DEF back
<1> QED BY <1>1, <1>4, <1>5, <1>7, <1>8, <1>9, <1>10

\* a rotation hands records down to the new base, and frees what the old one saw collide
LEMMA Rotated ==
  ASSUME Typed, Indices, sbsm_rotate
  PROVE  /\ present' \in Slots /\ base' \in Slots /\ base' # present' /\ cursor' = present'
         /\ Window \subseteq Window' /\ present' \in Window'
         /\ InGame' = InGame /\ todo' = InGame
         /\ player' \in [Players -> Player]
         /\ \A p \in Players :
              /\ player'[p].in = player[p].in /\ player'[p].udp = player[p].udp
              /\ player'[p].lane = player[p].lane /\ player'[p].vel = player[p].vel /\ player'[p].x = player[p].x
              /\ player'[p].cell = player[p].cell /\ player'[p].gun = player[p].gun
              /\ player'[p].ammo = player[p].ammo /\ player'[p].gunDirty = player[p].gunDirty
         /\ pss' \in [Slots -> [Players -> Snap \cup {None}]]
         /\ \A s \in Slots, p \in Players : pss'[s][p] # None => \E t \in Slots : pss'[s][p] = pss[t][p]
         /\ bullet' \in [Bullets -> Bullet \cup {None}]
         /\ \A b \in Bullets : bullet'[b] = IF sbsm_do_bullet_backfilling(b) THEN None ELSE bullet[b]
         /\ bss' \in [Slots -> [Bullets -> BulletSnap \cup {None}]]
         /\ \A s \in Slots, b \in Bullets :
              bss'[s][b] = IF s = base' /\ bss[s][b] = None /\ ~sbsm_do_bullet_backfilling(b)
                           THEN bss[base][b] ELSE bss[s][b]
<1>1. /\ base \in Slots /\ present \in Slots /\ base # present
      /\ present' = NewPresent /\ base' = NewBase /\ cursor' = NewPresent /\ todo' = InGame
  BY DEF Typed, Indices, sbsm_rotate
<1>2. /\ present' \in Slots /\ base' \in Slots /\ base' # present' /\ cursor' = present'
      /\ Window \subseteq Window' /\ present' \in Window'
  BY <1>1, RotatedWindow
<1>3. PICK i \in Slots, j \in Slots : i = present' /\ j = base' /\ i = NewPresent /\ j = NewBase
  BY <1>1, <1>2
<1>4. /\ bullet' = [b \in Bullets |-> IF sbsm_do_bullet_backfilling(b) THEN None ELSE bullet[b]]
      /\ bss' = [bss EXCEPT ![j] = [b \in Bullets |->
           IF bss[j][b] = None /\ ~sbsm_do_bullet_backfilling(b) THEN bss[base][b] ELSE bss[j][b]]]
      /\ pss' = [s \in Slots |->
           IF s = i THEN [p \in Players |-> None]
           ELSE IF s = j THEN [p \in Players |-> IF pss[s][p] = None THEN pss[base][p] ELSE pss[s][p]]
                ELSE pss[s]]
      /\ player' = [p \in Players |-> [player[p] EXCEPT !.last = IF @ < Size THEN @ + 1 ELSE Size]]
  BY <1>3 DEF sbsm_rotate
<1>5. ASSUME NEW p \in Players
      PROVE  /\ player'[p] \in Player
             /\ player'[p].in = player[p].in /\ player'[p].udp = player[p].udp
             /\ player'[p].lane = player[p].lane /\ player'[p].vel = player[p].vel /\ player'[p].x = player[p].x
             /\ player'[p].cell = player[p].cell /\ player'[p].gun = player[p].gun
             /\ player'[p].ammo = player[p].ammo /\ player'[p].gunDirty = player[p].gunDirty
  <2>1. PICK r \in Player : r = player[p]
    BY DEF Typed
  <2>2. PICK a \in 0..Size : a = IF r.last < Size THEN r.last + 1 ELSE Size
    BY FieldTypes, RingAssumption
  <2>3. player'[p] = [r EXCEPT !.last = a]
    BY <1>4, <2>1, <2>2
  <2>4. [r EXCEPT !.last = a] \in Player
    BY PlayerWith
  <2>5. LET q == [r EXCEPT !.last = a] IN
        /\ q.in = r.in /\ q.udp = r.udp /\ q.lane = r.lane /\ q.vel = r.vel /\ q.x = r.x
        /\ q.cell = r.cell /\ q.gun = r.gun /\ q.ammo = r.ammo /\ q.gunDirty = r.gunDirty
    BY SMT DEF Player
  <2> QED BY <2>1, <2>3, <2>4, <2>5
<1>6. player' \in [Players -> Player]
  <2>1. player' = [p \in Players |-> player'[p]]
    BY <1>4
  <2> QED BY <1>5, <2>1
<1>7. InGame' = InGame
  BY <1>5 DEF InGame
<1>8. /\ pss' \in [Slots -> [Players -> Snap \cup {None}]]
      /\ \A s \in Slots, p \in Players : pss'[s][p] # None => \E t \in Slots : pss'[s][p] = pss[t][p]
  <2>1. pss \in [Slots -> [Players -> Snap \cup {None}]]
    BY DEF Typed
  <2>2. pss' \in [Slots -> [Players -> Snap \cup {None}]]
    BY <1>1, <1>3, <1>4, <2>1
  <2>3. \A s \in Slots, p \in Players :
          pss'[s][p] = IF s = i THEN None
                       ELSE IF s = j /\ pss[s][p] = None THEN pss[base][p] ELSE pss[s][p]
    BY <1>1, <1>3, <1>4, <2>1
  <2> QED BY <1>1, <2>2, <2>3
<1>9. /\ bullet' \in [Bullets -> Bullet \cup {None}]
      /\ \A b \in Bullets : bullet'[b] = IF sbsm_do_bullet_backfilling(b) THEN None ELSE bullet[b]
  BY <1>4 DEF Typed
<1>10. /\ bss' \in [Slots -> [Bullets -> BulletSnap \cup {None}]]
       /\ \A s \in Slots, b \in Bullets :
            bss'[s][b] = IF s = base' /\ bss[s][b] = None /\ ~sbsm_do_bullet_backfilling(b)
                         THEN bss[base][b] ELSE bss[s][b]
  <2>1. bss \in [Slots -> [Bullets -> BulletSnap \cup {None}]]
    BY DEF Typed
  <2> DEFINE row == [b \in Bullets |->
           IF bss[j][b] = None /\ ~sbsm_do_bullet_backfilling(b) THEN bss[base][b] ELSE bss[j][b]]
  <2>2. row \in [Bullets -> BulletSnap \cup {None}]
    BY <1>1, <2>1
  <2>3. \A b \in Bullets :
          row[b] = IF bss[j][b] = None /\ ~sbsm_do_bullet_backfilling(b) THEN bss[base][b] ELSE bss[j][b]
    OBVIOUS
  <2>4. bss' = [bss EXCEPT ![j] = row]
    BY <1>4
  <2> HIDE DEF row
  <2> QED BY <1>3, <2>1, <2>2, <2>3, <2>4
<1> QED BY <1>1, <1>2, <1>5, <1>6, <1>7, <1>8, <1>9, <1>10

\* what a message or a departure changes between two ticks: one player, and what is told of it
LEMMA Handled ==
  ASSUME Typed, Restorable, Indices, Message
  PROVE  /\ pc = "idle" /\ asks' \in 0..MaxAsks /\ late \subseteq late' /\ late' \subseteq Players
         /\ UNCHANGED <<bullet, seq, bss, base, present, pc, cursor, rewinding, todo, end,
                        hurt, undone, crossed, placed, ahead, astray, from>>
         /\ oldest' = oldest \/ oldest' \in Window
         /\ pss' \in [Slots -> [Players -> Snap \cup {None}]]
         /\ \A s \in Slots, q \in Players : pss'[s][q] # None =>
              \/ /\ pss[s][q] # None
                 /\ pss'[s][q].lane = pss[s][q].lane /\ pss'[s][q].vel = pss[s][q].vel /\ pss'[s][q].x = pss[s][q].x
                 /\ pss'[s][q].gun = pss[s][q].gun /\ pss'[s][q].ammo = pss[s][q].ammo
              \/ /\ pss'[s][q].lane = player[q].lane /\ pss'[s][q].vel = player[q].vel /\ pss'[s][q].x = player[q].x
                 /\ pss'[s][q].gun = player[q].gun /\ pss'[s][q].ammo = player[q].ammo
         /\ pushed' \in [Players -> SUBSET Bullets] /\ \A q \in Players : pushed'[q] \subseteq pushed[q]
         /\ \E p \in Players, new \in Player :
              /\ player' = [player EXCEPT ![p] = new]
              /\ new.lane = player[p].lane /\ new.vel = player[p].vel /\ new.x = player[p].x /\ new.cell = player[p].cell
              /\ new.gunDirty = player[p].gunDirty /\ (new.in => player[p].in)
              /\ \/ new.gun = player[p].gun /\ new.ammo = player[p].ammo /\ told' = told
                 \/ told' = [told EXCEPT ![p] = new.ammo] /\ new.ammo <= Magazine[new.gun]
              /\ new.udp => player[p].udp \/ pushed[p] = {} \/ late' # {}
<1> DEFINE Frame ==
      /\ pc = "idle" /\ asks' \in 0..MaxAsks
      /\ UNCHANGED <<bullet, seq, bss, base, present, pc, cursor, rewinding, todo, end,
                     hurt, undone, crossed, placed, ahead, astray, from>>
<1>0. /\ player \in [Players -> Player] /\ pss \in [Slots -> [Players -> Snap \cup {None}]]
      /\ pushed \in [Players -> SUBSET Bullets] /\ late \subseteq Players /\ asks \in 0..MaxAsks
  BY DEF Typed
<1>1. ASSUME NEW p \in Players, NEW udp \in BOOLEAN, Asked(p, udp)
      PROVE  pc = "idle" /\ player[p].in /\ player[p].udp = udp /\ asks' \in 0..MaxAsks
  BY <1>0, <1>1, GunAssumption DEF Asked
<1>2. ASSUME NEW p \in Players, FirstDatagram(p)
      PROVE  /\ Frame /\ UNCHANGED <<oldest, pss, pushed, told>> /\ late \subseteq late' /\ late' \subseteq Players
             /\ \E new \in Player :
                  /\ player' = [player EXCEPT ![p] = new]
                  /\ new.lane = player[p].lane /\ new.vel = player[p].vel /\ new.x = player[p].x /\ new.cell = player[p].cell
                  /\ new.gunDirty = player[p].gunDirty /\ (new.in => player[p].in)
                  /\ new.gun = player[p].gun /\ new.ammo = player[p].ammo
                  /\ new.udp => player[p].udp \/ pushed[p] = {} \/ late' # {}
  <2>1. PICK r \in Player : r = player[p]
    BY <1>0
  <2>2. /\ [r EXCEPT !.udp = TRUE] \in Player
        /\ player' = [player EXCEPT ![p] = [r EXCEPT !.udp = TRUE]]
    BY <1>2, <2>1, PlayerWith DEF FirstDatagram
  <2>3. LET q == [r EXCEPT !.udp = TRUE] IN
        /\ q.in = r.in /\ q.lane = r.lane /\ q.vel = r.vel /\ q.x = r.x
        /\ q.cell = r.cell /\ q.gun = r.gun /\ q.ammo = r.ammo /\ q.gunDirty = r.gunDirty
    BY SMT DEF Player
  <2>4. /\ Asked(p, FALSE) /\ late' = IF pushed[p] # {} THEN late \cup {p} ELSE late
        /\ UNCHANGED <<bullet, seq, pss, bss, base, present, oldest, pc, cursor, rewinding, todo,
                       pushed, end, hurt, undone, told, crossed, placed, ahead, astray, from>>
    BY <1>2 DEF FirstDatagram, ringVars
  <2> QED BY <1>0, <1>1, <2>1, <2>2, <2>3, <2>4
<1>3. ASSUME NEW p \in Players, player_cursor(p)
      PROVE  /\ Frame /\ UNCHANGED <<oldest, pss, pushed, told, late>>
             /\ \E new \in Player :
                  /\ player' = [player EXCEPT ![p] = new]
                  /\ new.lane = player[p].lane /\ new.vel = player[p].vel /\ new.x = player[p].x /\ new.cell = player[p].cell
                  /\ new.gunDirty = player[p].gunDirty /\ new.in = player[p].in /\ new.udp = player[p].udp
                  /\ new.gun = player[p].gun /\ new.ammo = player[p].ammo
  <2>1. PICK r \in Player : r = player[p]
    BY <1>0
  <2>2. PICK d \in {-1, 1} : d = -r.aim
    BY FieldTypes
  <2>3. /\ [r EXCEPT !.aim = d] \in Player
        /\ player' = [player EXCEPT ![p] = [r EXCEPT !.aim = d]]
    BY <1>3, <2>1, <2>2, PlayerWith DEF player_cursor
  <2>4. LET q == [r EXCEPT !.aim = d] IN
        /\ q.in = r.in /\ q.udp = r.udp /\ q.lane = r.lane /\ q.vel = r.vel /\ q.x = r.x
        /\ q.cell = r.cell /\ q.gun = r.gun /\ q.ammo = r.ammo /\ q.gunDirty = r.gunDirty
    BY SMT DEF Player
  <2>5. /\ Asked(p, TRUE)
        /\ UNCHANGED <<bullet, seq, pss, bss, base, present, oldest, pc, cursor, rewinding, todo,
                       pushed, end, hurt, undone, told, crossed, placed, ahead, astray, from, late>>
    BY <1>3 DEF player_cursor, ringVars, historyVars
  <2> QED BY <1>0, <1>1, <2>1, <2>3, <2>4, <2>5
<1>4. ASSUME NEW p \in Players, NEW g \in Guns, player_gun_id(p, g)
      PROVE  /\ Frame /\ UNCHANGED <<oldest, pss, pushed, late>>
             /\ \E new \in Player :
                  /\ player' = [player EXCEPT ![p] = new]
                  /\ new.lane = player[p].lane /\ new.vel = player[p].vel /\ new.x = player[p].x /\ new.cell = player[p].cell
                  /\ new.gunDirty = player[p].gunDirty /\ new.in = player[p].in /\ new.udp = player[p].udp
                  /\ told' = [told EXCEPT ![p] = new.ammo] /\ new.ammo <= Magazine[new.gun]
  <2>1. PICK r \in Player, n \in Nat : r = player[p] /\ n = Magazine[g]
    BY <1>0, GunAssumption
  <2> DEFINE q == [r EXCEPT !.gun = g, !.ammo = n, !.reload = 0]
  <2>2. player' = [player EXCEPT ![p] = q] /\ told' = [told EXCEPT ![p] = n]
    BY <1>4, <2>1 DEF player_gun_id, NewGun
  <2>3. q \in Player
    <3>1. 0 \in 0..(Reload - 1)
      BY GunAssumption
    <3>2. [r EXCEPT !.gun = g, !.ammo = n] \in Player
      <4>1. [r EXCEPT !.gun = g] \in Player
        BY PlayerWith
      <4> QED BY <4>1, PlayerWith
    <3> QED BY <3>1, <3>2, PlayerWith
  <2>4. /\ q.in = r.in /\ q.udp = r.udp /\ q.lane = r.lane /\ q.vel = r.vel /\ q.x = r.x
        /\ q.cell = r.cell /\ q.gun = g /\ q.ammo = n /\ q.gunDirty = r.gunDirty
    BY SMT DEF Player
  <2>5. /\ Asked(p, TRUE)
        /\ UNCHANGED <<bullet, seq, pss, bss, base, present, oldest, pc, cursor, rewinding, todo,
                       pushed, end, hurt, undone, crossed, placed, ahead, astray, from, late>>
    BY <1>4 DEF player_gun_id, ringVars
  <2> HIDE DEF q
  <2>6. told' = [told EXCEPT ![p] = q.ammo] /\ q.ammo <= Magazine[q.gun]
    BY <2>1, <2>2, <2>4
  <2>7. Frame
    BY <1>1, <2>5
  <2> QED BY <2>1, <2>2, <2>3, <2>4, <2>5, <2>6, <2>7
<1>5. ASSUME NEW p \in Players, player_reload(p)
      PROVE  /\ Frame /\ UNCHANGED <<oldest, pss, pushed, late>>
             /\ \E new \in Player :
                  /\ player' = [player EXCEPT ![p] = new]
                  /\ new.lane = player[p].lane /\ new.vel = player[p].vel /\ new.x = player[p].x /\ new.cell = player[p].cell
                  /\ new.gunDirty = player[p].gunDirty /\ new.in = player[p].in /\ new.udp = player[p].udp
                  /\ told' = [told EXCEPT ![p] = new.ammo] /\ new.ammo <= Magazine[new.gun]
  <2>1. PICK r \in Player : r = player[p]
    BY <1>0
  <2> DEFINE q == [r EXCEPT !.ammo = 0]
  <2>2. player' = [player EXCEPT ![p] = q] /\ told' = [told EXCEPT ![p] = 0]
    BY <1>5, <2>1 DEF player_reload
  <2>3. q \in Player
    BY PlayerWith
  <2>4. /\ q.in = r.in /\ q.udp = r.udp /\ q.lane = r.lane /\ q.vel = r.vel /\ q.x = r.x
        /\ q.cell = r.cell /\ q.gun = r.gun /\ q.ammo = 0 /\ q.gunDirty = r.gunDirty
    BY SMT DEF Player
  <2>5. /\ Asked(p, TRUE)
        /\ UNCHANGED <<bullet, seq, pss, bss, base, present, oldest, pc, cursor, rewinding, todo,
                       pushed, end, hurt, undone, crossed, placed, ahead, astray, from, late>>
    BY <1>5 DEF player_reload, ringVars
  <2>6. Magazine[r.gun] \in Nat
    BY FieldTypes, GunAssumption
  <2> HIDE DEF q
  <2>7. told' = [told EXCEPT ![p] = q.ammo] /\ q.ammo <= Magazine[q.gun]
    BY <2>1, <2>2, <2>4, <2>6
  <2>8. Frame
    BY <1>1, <2>5
  <2> QED BY <2>1, <2>2, <2>3, <2>4, <2>5, <2>7, <2>8
<1>6. ASSUME NEW p \in Players, NEW input \in Inputs[p], NEW s \in Window, player_input(p, input, s)
      PROVE  /\ Frame /\ UNCHANGED <<pushed, told, late>>
             /\ oldest' = oldest \/ oldest' \in Window
             /\ pss' \in [Slots -> [Players -> Snap \cup {None}]]
             /\ \A t \in Slots, q \in Players : pss'[t][q] # None =>
                  \/ /\ pss[t][q] # None
                     /\ pss'[t][q].lane = pss[t][q].lane /\ pss'[t][q].vel = pss[t][q].vel /\ pss'[t][q].x = pss[t][q].x
                     /\ pss'[t][q].gun = pss[t][q].gun /\ pss'[t][q].ammo = pss[t][q].ammo
                  \/ /\ pss'[t][q].lane = player[q].lane /\ pss'[t][q].vel = player[q].vel /\ pss'[t][q].x = player[q].x
                     /\ pss'[t][q].gun = player[q].gun /\ pss'[t][q].ammo = player[q].ammo
             /\ \E new \in Player :
                  /\ player' = [player EXCEPT ![p] = new]
                  /\ new.lane = player[p].lane /\ new.vel = player[p].vel /\ new.x = player[p].x /\ new.cell = player[p].cell
                  /\ new.gunDirty = player[p].gunDirty /\ new.in = player[p].in /\ new.udp = player[p].udp
                  /\ new.gun = player[p].gun /\ new.ammo = player[p].ammo
  <2>1. PICK r \in Player : r = player[p]
    BY <1>0
  <2>2. s \in Slots /\ input \in Input
    BY InputAssumption DEF Window, Input
  <2>3. PICK a \in 0..Size : a = Age(s)
    BY <2>2, AgeFacts, RingAssumption DEF Typed
  <2>4. /\ player' = [player EXCEPT ![p] = [r EXCEPT !.last = a]]
        /\ [r EXCEPT !.last = a] \in Player
    BY <1>6, <2>1, <2>3, PlayerWith DEF player_input
  <2>5. LET q == [r EXCEPT !.last = a] IN
        /\ q.in = r.in /\ q.udp = r.udp /\ q.lane = r.lane /\ q.vel = r.vel /\ q.x = r.x
        /\ q.cell = r.cell /\ q.gun = r.gun /\ q.ammo = r.ammo /\ q.gunDirty = r.gunDirty
    BY SMT DEF Player
  <2>6. /\ Asked(p, TRUE)
        /\ UNCHANGED <<bullet, seq, bss, base, present, pc, cursor, rewinding, todo,
                       pushed, end, hurt, undone, told, crossed, placed, ahead, astray, from, late>>
    BY <1>6 DEF player_input, ringVars, historyVars
  <2>7. /\ oldest' = oldest \/ oldest' \in Window
        /\ pss' \in [Slots -> [Players -> Snap \cup {None}]]
        /\ \A t \in Slots, q \in Players : pss'[t][q] # None =>
             \/ /\ pss[t][q] # None
                /\ pss'[t][q].lane = pss[t][q].lane /\ pss'[t][q].vel = pss[t][q].vel /\ pss'[t][q].x = pss[t][q].x
                /\ pss'[t][q].gun = pss[t][q].gun /\ pss'[t][q].ammo = pss[t][q].ammo
             \/ /\ pss'[t][q].lane = player[q].lane /\ pss'[t][q].vel = player[q].vel /\ pss'[t][q].x = player[q].x
                /\ pss'[t][q].gun = player[q].gun /\ pss'[t][q].ammo = player[q].ammo
    <3>1. CASE Refused(s, p, input)
      BY <1>0, <1>6, <3>1 DEF player_input
    <3>2. CASE ~Refused(s, p, input)
      <4>1. PICK old \in Snap :
              /\ old = OnFile(s, p) /\ old.count \in 0..1
              /\ IF pss[s][p] # None THEN old = pss[s][p]
                 ELSE old.lane = r.lane /\ old.vel = r.vel /\ old.x = r.x /\ old.gun = r.gun /\ old.ammo = r.ammo
        <5>1. CASE pss[s][p] # None
          BY <1>0, <2>2, <3>2, <5>1 DEF OnFile, Refused, Snap
        <5>2. CASE pss[s][p] = None
          <6>1. OnFile(s, p) = sbsm_player_to_snapshot(r, FALSE, 0)
            BY <2>1, <5>2 DEF OnFile
          <6>2. sbsm_player_to_snapshot(r, FALSE, 0).count = 0
            BY DEF sbsm_player_to_snapshot
          <6>3. /\ sbsm_player_to_snapshot(r, FALSE, 0) \in Snap
                /\ sbsm_player_to_snapshot(r, FALSE, 0).lane = r.lane
                /\ sbsm_player_to_snapshot(r, FALSE, 0).x = r.x
                /\ sbsm_player_to_snapshot(r, FALSE, 0).vel = r.vel
                /\ sbsm_player_to_snapshot(r, FALSE, 0).gun = r.gun
                /\ sbsm_player_to_snapshot(r, FALSE, 0).ammo = r.ammo
            BY DEF sbsm_player_to_snapshot, Snap, Player
          <6>4. PICK snap \in Snap : snap = sbsm_player_to_snapshot(r, FALSE, 0)
            BY <6>3
          <6>5. snap = OnFile(s, p)
            BY <6>1, <6>4
          <6>6. snap.count = 0
            BY <6>2, <6>4
          <6>7. snap.lane = r.lane /\ snap.vel = r.vel /\ snap.x = r.x /\ snap.gun = r.gun /\ snap.ammo = r.ammo
            BY <6>3, <6>4
          <6> QED BY <5>2, <6>5, <6>6, <6>7
        <5> QED BY <5>1, <5>2
      <4>2. PICK n \in 0..2 : n = old.count + 1
        BY <4>1
      <4> DEFINE new == [old EXCEPT !.input = input, !.dirty = TRUE, !.count = n]
      <4>3. /\ pss' = [pss EXCEPT ![s][p] = new]
            /\ oldest' = IF oldest = NoSlot \/ Age(s) > Age(oldest) THEN s ELSE oldest
        BY <1>6, <3>2, <4>1, <4>2 DEF player_input
      <4>4. new \in Snap
        <5>1. [old EXCEPT !.input = input, !.dirty = TRUE] \in Snap
          <6>1. [old EXCEPT !.input = input] \in Snap
            BY <2>2, SnapWith
          <6> QED BY <6>1, SnapWith
        <5> QED BY <5>1, SnapWith
      <4>5. new.lane = old.lane /\ new.vel = old.vel /\ new.x = old.x /\ new.gun = old.gun /\ new.ammo = old.ammo
        BY SMT DEF Snap
      <4> HIDE DEF new
      <4>6. /\ pss' \in [Slots -> [Players -> Snap \cup {None}]]
            /\ \A t \in Slots, q \in Players :
                 pss'[t][q] = IF t = s /\ q = p THEN new ELSE pss[t][q]
        BY <1>0, <2>2, <4>3, <4>4
      <4> QED BY <2>1, <2>2, <4>1, <4>3, <4>5, <4>6
    <3> QED BY <3>1, <3>2
  <2> QED BY <1>0, <1>1, <2>1, <2>4, <2>5, <2>6, <2>7
<1>7. ASSUME NEW p \in Players, coregame_free_player(p)
      PROVE  /\ Frame /\ UNCHANGED <<oldest, told, late>>
             /\ pss' \in [Slots -> [Players -> Snap \cup {None}]]
             /\ \A s \in Slots, q \in Players : pss'[s][q] # None => pss'[s][q] = pss[s][q]
             /\ pushed' \in [Players -> SUBSET Bullets] /\ \A q \in Players : pushed'[q] \subseteq pushed[q]
             /\ \E new \in Player :
                  /\ player' = [player EXCEPT ![p] = new]
                  /\ new.lane = player[p].lane /\ new.vel = player[p].vel /\ new.x = player[p].x /\ new.cell = player[p].cell
                  /\ new.gunDirty = player[p].gunDirty /\ ~new.in /\ new.udp = player[p].udp
                  /\ new.gun = player[p].gun /\ new.ammo = player[p].ammo
  <2>1. PICK r \in Player : r = player[p]
    BY <1>0
  <2> DEFINE left == [r EXCEPT !.in = FALSE]
  <2>2. left \in Player /\ player' = [player EXCEPT ![p] = left]
    BY <1>7, <2>1, PlayerWith DEF coregame_free_player
  <2>3. /\ ~left.in /\ left.udp = r.udp /\ left.lane = r.lane /\ left.vel = r.vel /\ left.x = r.x
        /\ left.cell = r.cell /\ left.gun = r.gun /\ left.ammo = r.ammo /\ left.gunDirty = r.gunDirty
    BY SMT DEF Player
  <2>4. PICK udp \in BOOLEAN : Asked(p, udp)
    BY <1>7 DEF coregame_free_player
  <2>5. /\ pss' = [s \in Slots |-> [pss[s] EXCEPT ![p] = None]]
        /\ pushed' = [pushed EXCEPT ![p] = {}]
        /\ UNCHANGED <<bullet, seq, bss, base, present, oldest, pc, cursor, rewinding, todo,
                       end, hurt, undone, told, crossed, placed, ahead, astray, from, late>>
    BY <1>7 DEF coregame_free_player, ringVars, historyVars
  <2>6. /\ pss' \in [Slots -> [Players -> Snap \cup {None}]]
        /\ \A s \in Slots, q \in Players : pss'[s][q] # None => pss'[s][q] = pss[s][q]
        /\ pushed' \in [Players -> SUBSET Bullets] /\ \A q \in Players : pushed'[q] \subseteq pushed[q]
    BY <1>0, <2>5
  <2>7. Frame
    BY <1>1, <2>4, <2>5
  <2> HIDE DEF left
  <2> QED BY <2>1, <2>2, <2>3, <2>5, <2>6, <2>7
<1>8. PICK p \in Players :
        \/ FirstDatagram(p) \/ player_cursor(p) \/ player_reload(p) \/ coregame_free_player(p)
        \/ \E g \in Guns : player_gun_id(p, g)
        \/ \E input \in Inputs[p], s \in Window : player_input(p, input, s)
  BY DEF Message
<1> QED BY <1>0, <1>2, <1>3, <1>4, <1>5, <1>6, <1>7, <1>8

\* bots are put where somebody points, and only their places change
LEMMA BotsPlaced ==
  ASSUME Typed, BotsMove
  PROVE  /\ pc = "idle" /\ asks' \in 0..MaxAsks
         /\ UNCHANGED <<bullet, seq, pss, bss, base, present, oldest, pc, cursor, rewinding, todo,
                        pushed, end, hurt, undone, told, crossed, ahead, from, late>>
         /\ player' \in [Players -> Player] /\ placed' \in [Players -> BOOLEAN] /\ astray' \in BOOLEAN
         /\ astray => astray'
         /\ \A q \in Players :
              /\ player'[q].in = player[q].in /\ player'[q].udp = player[q].udp
              /\ player'[q].vel = player[q].vel /\ player'[q].cell = player[q].cell
              /\ player'[q].gun = player[q].gun /\ player'[q].ammo = player[q].ammo
              /\ player'[q].gunDirty = player[q].gunDirty
              /\ \/ player'[q] = player[q] /\ placed'[q] = placed[q]
                 \/ placed'[q] /\ player'[q].lane \in Lanes /\ (astray' \/ player'[q].x \in Open)
<1>1. PICK p \in Players, bots \in SUBSET Players, to \in Cursors : move_bot(p, bots, to)
  BY DEF BotsMove
<1>2. /\ player \in [Players -> Player] /\ placed \in [Players -> BOOLEAN] /\ astray \in BOOLEAN
      /\ asks \in 0..MaxAsks
  BY DEF Typed
<1>3. to.x \in Place /\ to.lane \in Lanes /\ to.lane \in Lane
  BY MapAssumption DEF Place, Lanes, Lane
<1>9. pc = "idle" /\ asks' \in 0..MaxAsks
  <2>1. Asked(p, TRUE)
    BY <1>1 DEF move_bot
  <2> QED BY <1>2, <2>1, GunAssumption DEF Asked
<1>4. UNCHANGED <<bullet, seq, pss, bss, base, present, oldest, pc, cursor, rewinding, todo,
                  pushed, end, hurt, undone, told, crossed, ahead, from, late>>
  BY <1>1 DEF move_bot, ringVars
<1>5. /\ player' = [q \in Players |->
           IF q \in bots THEN [player[q] EXCEPT !.x = to.x, !.lane = to.lane] ELSE player[q]]
      /\ placed' = [q \in Players |-> placed[q] \/ q \in bots]
      /\ astray' = (astray \/ to.x \notin Open)
  BY <1>1 DEF move_bot
<1>6. ASSUME NEW q \in Players
      PROVE  /\ player'[q] \in Player
             /\ player'[q].in = player[q].in /\ player'[q].udp = player[q].udp
             /\ player'[q].vel = player[q].vel /\ player'[q].cell = player[q].cell
             /\ player'[q].gun = player[q].gun /\ player'[q].ammo = player[q].ammo
             /\ player'[q].gunDirty = player[q].gunDirty
             /\ \/ player'[q] = player[q] /\ placed'[q] = placed[q]
                \/ placed'[q] /\ player'[q].lane \in Lanes /\ (astray' \/ player'[q].x \in Open)
  <2>1. CASE q \in bots
    <3>1. PICK r \in Player, n \in Place, l \in Lane : r = player[q] /\ n = to.x /\ l = to.lane
      BY <1>2, <1>3
    <3> DEFINE new == [r EXCEPT !.x = n, !.lane = l]
    <3>2. new \in Player
      <4>1. [r EXCEPT !.x = n] \in Player
        BY PlayerWith
      <4> QED BY <4>1, PlayerWith
    <3>3. /\ new.in = r.in /\ new.udp = r.udp /\ new.vel = r.vel /\ new.cell = r.cell /\ new.gun = r.gun
          /\ new.ammo = r.ammo /\ new.gunDirty = r.gunDirty /\ new.x = n /\ new.lane = l
      BY SMT DEF Player
    <3>4. player'[q] = new /\ placed'[q]
      BY <1>5, <2>1, <3>1
    <3> HIDE DEF new
    <3>5. astray' \/ n \in Open
      BY <1>5, <3>1
    <3> QED BY <1>3, <3>1, <3>2, <3>3, <3>4, <3>5
  <2>2. CASE q \notin bots
    BY <1>2, <1>5, <2>2
  <2> QED BY <2>1, <2>2
<1>7. player' \in [Players -> Player] /\ placed' \in [Players -> BOOLEAN] /\ astray' \in BOOLEAN
  BY <1>2, <1>5, <1>6
<1>8. astray => astray'
  BY <1>5
<1> QED BY <1>4, <1>6, <1>7, <1>8, <1>9

LEMMA Messages == Handlers => Message \/ BotsMove
<1> SUFFICES ASSUME Handlers PROVE Message \/ BotsMove
  OBVIOUS
<1>1. InGame \subseteq Players
  BY DEF InGame
<1> QED BY <1>1 DEF Handlers, Message, BotsMove

\* the bullet of a shot, and to whom it is pushed
LEMMA Shot ==
  ASSUME Typed, NEW p \in Players, UpdatePlayer(p)
  PROVE  /\ pc = "players" /\ p \in todo /\ todo' = todo \ {p}
         /\ UNCHANGED <<bss, base, present, oldest, pc, cursor, rewinding, end, asks,
                        hurt, undone, crossed, astray, from, late>>
         /\ \/ UNCHANGED <<bullet, pushed, seq>>
            \/ /\ seq + 1 \in Bullets /\ seq' = seq + 1
               /\ bullet' \in [Bullets -> Bullet \cup {None}]
               /\ \A b \in Bullets : b # seq + 1 => bullet'[b] = bullet[b]
               /\ bullet'[seq + 1] # None /\ ~bullet'[seq + 1].hit /\ bullet'[seq + 1].x = player[p].x
               /\ pushed' \in [Players -> SUBSET Bullets]
               /\ \A q \in Players : \/ pushed'[q] = pushed[q]
                                     \/ rewinding /\ pushed'[q] = pushed[q] \cup {seq + 1}
<1>1. /\ pc = "players" /\ p \in todo /\ todo' = todo \ {p}
      /\ UNCHANGED <<bss, base, present, oldest, pc, cursor, rewinding, end, asks,
                     hurt, undone, crossed, astray, from, late>>
  BY DEF UpdatePlayer, ringVars
<1>2. CASE UNCHANGED <<bullet, pushed, seq>>
  BY <1>1, <1>2
<1>3. ASSUME NEW in \in Player, in.x = player[p].x, seq < MaxBullets, seq' = seq + 1, pushed' = server_on_bullet_create(p),
             bullet' = [bullet EXCEPT ![seq + 1] = cg_add_bullet(in, p)]
      PROVE  /\ seq + 1 \in Bullets
             /\ bullet' \in [Bullets -> Bullet \cup {None}]
             /\ \A b \in Bullets : b # seq + 1 => bullet'[b] = bullet[b]
             /\ bullet'[seq + 1] # None /\ ~bullet'[seq + 1].hit /\ bullet'[seq + 1].x = player[p].x
             /\ pushed' \in [Players -> SUBSET Bullets]
             /\ \A q \in Players : \/ pushed'[q] = pushed[q]
                                   \/ rewinding /\ pushed'[q] = pushed[q] \cup {seq + 1}
  <2>1. PICK n \in Bullets : n = seq + 1
    BY <1>3, GunAssumption DEF Typed, Bullets
  <2>2. in.lane \in Lane /\ in.aim \in {-1, 1} /\ in.x \in Place
    BY FieldTypes
  <2>4. PICK new : new = cg_add_bullet(in, p)
    OBVIOUS
  <2>5. new \in Bullet /\ ~new.hit /\ new.x = player[p].x
    BY <1>3, <2>2, <2>4 DEF cg_add_bullet, Bullet
  <2>6. new # None
    BY <2>5, Records
  <2>7. bullet' = [bullet EXCEPT ![n] = new] /\ bullet \in [Bullets -> Bullet \cup {None}]
    BY <1>3, <2>1, <2>4 DEF Typed
  <2>8. /\ bullet' \in [Bullets -> Bullet \cup {None}] /\ bullet'[n] = new
        /\ \A b \in Bullets : b # n => bullet'[b] = bullet[b]
    BY <2>5, <2>7
  <2>9. /\ pushed' \in [Players -> SUBSET Bullets]
        /\ \A q \in Players : pushed'[q] = pushed[q] \/ (rewinding /\ pushed'[q] = pushed[q] \cup {n})
    BY <1>3, <2>1 DEF server_on_bullet_create, Typed
  <2> QED BY <2>1, <2>5, <2>6, <2>8, <2>9
<1>4. \/ UNCHANGED <<bullet, pushed, seq>>
      \/ \E in \in Player : /\ in.x = player[p].x /\ seq < MaxBullets /\ seq' = seq + 1 /\ pushed' = server_on_bullet_create(p)
                            /\ bullet' = [bullet EXCEPT ![seq + 1] = cg_add_bullet(in, p)]
  BY PlayerTicked
<1> QED BY <1>1, <1>2, <1>3, <1>4

-------------------------------------------------------------------------------
(* The layers of the invariant, one by one. *)

LEMMA TypedStep == ASSUME Typed, Restorable, Indices, InTheOpen, Next PROVE Typed'
<1>1. CASE Message
  <2>1. /\ pc = "idle" /\ asks' \in 0..MaxAsks /\ late' \subseteq Players
        /\ UNCHANGED <<bullet, seq, bss, base, present, pc, cursor, rewinding, todo, end,
                       hurt, undone, crossed, placed, ahead, astray, from>>
        /\ oldest' = oldest \/ oldest' \in Window
        /\ pss' \in [Slots -> [Players -> Snap \cup {None}]]
        /\ pushed' \in [Players -> SUBSET Bullets]
    BY <1>1, Handled
  <2>2. player' \in [Players -> Player] /\ told' \in [Players -> Nat]
    <3>1. PICK p \in Players, new \in Player :
            /\ player' = [player EXCEPT ![p] = new]
            /\ told' = told \/ told' = [told EXCEPT ![p] = new.ammo]
      BY <1>1, Handled
    <3> QED BY <3>1, FieldTypes DEF Typed
  <2> QED BY <2>1, <2>2 DEF Typed, Window
<1>2. CASE sbsm_rollback
  <2>1. /\ oldest \in Slots /\ player' \in [Players -> Player]
        /\ pss' \in [Slots -> [Players -> Snap \cup {None}]]
        /\ bullet' \in [Bullets -> Bullet \cup {None}]
    BY <1>2, RolledBackTo
  <2>2. /\ cursor' = oldest /\ oldest' = NoSlot /\ rewinding' = TRUE
        /\ pc' = "players" /\ todo' \subseteq Players /\ from' \in BOOLEAN
        /\ UNCHANGED <<seq, bss, base, present, pushed, end, asks, hurt, told, ahead, astray, late>>
    BY <1>2 DEF sbsm_rollback, Typed, ringVars, InGame
  <2>3. crossed' \in [Players -> BOOLEAN] /\ placed' \in [Players -> BOOLEAN]
    BY <1>2 DEF sbsm_rollback
  <2>4. undone' \in [Bullets -> Nat]
    <3>1. undone' = [b \in Bullets |->
            IF RolledBack(b) /\ bullet[b].hit /\ ~bss[oldest][b].hit THEN undone[b] + 1 ELSE undone[b]]
      BY <1>2 DEF sbsm_rollback
    <3>2. undone \in [Bullets -> Nat]
      BY DEF Typed
    <3> QED BY <3>1, <3>2
  <2> QED BY <2>1, <2>2, <2>3, <2>4 DEF Typed
<1>3. ASSUME NEW p \in Players, UpdatePlayer(p) PROVE Typed'
  <2>1. PICK in \in Player, new \in Player, snap \in Snap \cup {None} :
          /\ player' = [player EXCEPT ![p] = new]
          /\ pss' = [pss EXCEPT ![cursor] = [pss[cursor] EXCEPT ![p] = snap]]
          /\ placed' = [placed EXCEPT ![p] = @ /\ in.input.move = 0]
          /\ told' = [told EXCEPT ![p] = new.ammo] \/ told' = told
          /\ ahead' \in [Players -> {-1, 0, 1}]
    BY <1>3, PlayerTicked
  <2>2. /\ player' \in [Players -> Player] /\ pss' \in [Slots -> [Players -> Snap \cup {None}]]
        /\ placed' \in [Players -> BOOLEAN] /\ told' \in [Players -> Nat]
    BY <2>1, FieldTypes DEF Typed
  <2>3. /\ pc = "players" /\ todo' = todo \ {p}
        /\ UNCHANGED <<bss, base, present, oldest, pc, cursor, rewinding, end, asks,
                       hurt, undone, crossed, astray, from, late>>
    BY <1>3, Shot
  <2>4. /\ bullet' \in [Bullets -> Bullet \cup {None}] /\ pushed' \in [Players -> SUBSET Bullets]
        /\ seq' = seq \/ seq' \in Bullets
    BY <1>3, Shot DEF Typed
  <2>5. seq' \in 0..MaxBullets
    BY <2>4, GunAssumption DEF Typed, Bullets
  <2> QED BY <2>1, <2>2, <2>3, <2>4, <2>5 DEF Typed
<1>4. CASE PlayersDone
  BY <1>4 DEF PlayersDone, Typed, ringVars, historyVars, Alive
<1>5. ASSUME NEW b \in Bullets, UpdateBullet(b) PROVE Typed'
  <2>1. /\ pc = "bullets"
        /\ \E r \in Flying :
             /\ bullet' = [bullet EXCEPT ![b] = IF r.x \in 1..Length THEN r ELSE None]
             /\ r.x \in 1..Length => r \in Bullet
             /\ bss' \in [Slots -> [Bullets -> BulletSnap \cup {None}]]
             /\ pc' = IF r.x \in 1..Length THEN "bullets" ELSE "down"
             /\ end' = IF r.x \in 1..Length THEN "no" ELSE "left"
    BY <1>5, BulletMoved
  <2>2. /\ bullet' \in [Bullets -> Bullet \cup {None}] /\ bss' \in [Slots -> [Bullets -> BulletSnap \cup {None}]]
        /\ pc' \in {"bullets", "down"} /\ end' \in {"no", "left"}
    BY <2>1 DEF Typed
  <2>3. /\ player' \in [Players -> Player] /\ pss' \in [Slots -> [Players -> Snap \cup {None}]]
        /\ placed' \in [Players -> BOOLEAN] /\ hurt' \in [Bullets -> Nat]
    <3>1. CASE UNCHANGED <<player, pss, hurt, placed>>
      BY <3>1 DEF Typed
    <3>2. ASSUME NEW q \in Players, Hurt(q), hurt' = [hurt EXCEPT ![b] = @ + 1]
          PROVE  /\ player' \in [Players -> Player] /\ pss' \in [Slots -> [Players -> Snap \cup {None}]]
                 /\ placed' \in [Players -> BOOLEAN] /\ hurt' \in [Bullets -> Nat]
      <4>1. PICK new \in Player : player' = [player EXCEPT ![q] = new]
                  /\ pss' \in [Slots -> [Players -> Snap \cup {None}]] /\ placed' \in [Players -> BOOLEAN]
        BY <3>2, PlayerHurt
      <4> QED BY <3>2, <4>1 DEF Typed
    <3> QED BY <1>5, <3>1, <3>2, BulletMoved
  <2>4. /\ todo' = todo \ {b}
        /\ UNCHANGED <<seq, base, present, oldest, cursor, rewinding, pushed, asks, undone, told, crossed, ahead, astray, from, late>>
    BY <1>5 DEF UpdateBullet, ringVars
  <2> QED BY <2>1, <2>2, <2>3, <2>4 DEF Typed
<1>6. CASE NextSnapshot
  <2>1. Wrap(cursor + 1) \in Slots
    BY WrapSlot DEF Typed
  <2> QED BY <1>6, <2>1 DEF NextSnapshot, Typed, ringVars, historyVars, InGame
<1>7. CASE sbsm_rotate
  <2>1. /\ present' \in Slots /\ base' \in Slots /\ cursor' = present' /\ todo' = InGame
        /\ player' \in [Players -> Player]
        /\ pss' \in [Slots -> [Players -> Snap \cup {None}]]
        /\ bullet' \in [Bullets -> Bullet \cup {None}]
        /\ bss' \in [Slots -> [Bullets -> BulletSnap \cup {None}]]
    BY <1>7, Rotated
  <2>2. /\ rewinding' = FALSE /\ pc' = "players"
        /\ UNCHANGED <<seq, oldest, pushed, end, asks, hurt, undone, told, crossed, placed, ahead, astray, from, late>>
    BY <1>7 DEF sbsm_rotate, historyVars
  <2> QED BY <2>1, <2>2 DEF Typed, InGame
<1>8. CASE server_flush_udp_clients
  <2>1. pushed' \in [Players -> SUBSET Bullets] /\ pc' \in {"idle", "down"} /\ end' \in {"sent", "no"}
        /\ pc = "bullets"
    BY <1>8 DEF server_flush_udp_clients, Unsent, Typed
  <2> QED BY <1>8, <2>1 DEF server_flush_udp_clients, Typed, ringVars, historyVars
<1>9. CASE BotsMove
  BY <1>9, BotsPlaced DEF Typed
<1> QED BY <1>1, <1>2, <1>3, <1>4, <1>5, <1>6, <1>7, <1>8, <1>9, Messages DEF Next, Tick

LEMMA RestorableStep == ASSUME Typed, Restorable, Indices, InTheOpen, Next PROVE Restorable'
<1> DEFINE Lanes1 == \A s \in Slots, p \in Players : pss'[s][p] # None => pss'[s][p].lane - pss'[s][p].vel \in Lane
           Lanes2 == \A p \in Players : (pc' = "players" /\ p \in todo') \/ player'[p].lane - player'[p].vel \in Lane
           Kept == pc' # "down" => \A s \in Slots, b \in Bullets : bss'[s][b] # None => bss'[s][b].x \in 1..Length
<1>0. /\ player \in [Players -> Player] /\ \A p \in Players : player[p].lane \in Lane
      /\ pss \in [Slots -> [Players -> Snap \cup {None}]]
      /\ base \in Slots /\ cursor \in Slots
  BY FieldTypes DEF Typed
<1>1. CASE Message
  <2>1. Lanes1
    BY <1>1, Handled DEF Restorable
  <2>2. PICK p \in Players, new \in Player :
          /\ player' = [player EXCEPT ![p] = new] /\ new.lane = player[p].lane /\ new.vel = player[p].vel /\ new.x = player[p].x
    BY <1>1, Handled
  <2>3. UNCHANGED <<bss, pc, todo>>
    BY <1>1, Handled
  <2> QED BY <1>0, <2>1, <2>2, <2>3 DEF Restorable
<1>2. CASE sbsm_rollback
  <2>1. Lanes1
    BY <1>2, RolledBackTo DEF Restorable
  <2>2. \A p \in Players : p \in InGame \/ player'[p] = player[p]
    BY <1>2, RolledBackTo
  <2>3. pc = "idle" /\ pc' = "players" /\ todo' = InGame /\ UNCHANGED bss
    BY <1>2 DEF sbsm_rollback
  <2> QED BY <2>1, <2>2, <2>3 DEF Restorable
<1>3. ASSUME NEW p \in Players, UpdatePlayer(p) PROVE Restorable'
  <2>1. PICK new \in Player, snap \in Snap \cup {None} :
          /\ player' = [player EXCEPT ![p] = new]
          /\ pss' = [pss EXCEPT ![cursor] = [pss[cursor] EXCEPT ![p] = snap]]
          /\ new.lane - new.vel = player[p].lane
          /\ snap # None => snap.lane - snap.vel = player[p].lane
    BY <1>3, PlayerTicked
  <2>2. /\ pc = "players" /\ todo' = todo \ {p} /\ UNCHANGED <<bss, pc>>
    BY <1>3, Shot
  <2>3. \A s \in Slots, q \in Players :
          pss'[s][q] = IF s = cursor /\ q = p THEN snap ELSE pss[s][q]
    BY <1>0, <2>1
  <2>4. \A q \in Players : player'[q] = IF q = p THEN new ELSE player[q]
    BY <1>0, <2>1
  <2> QED BY <1>0, <2>1, <2>2, <2>3, <2>4 DEF Restorable
<1>4. CASE PlayersDone
  BY <1>4 DEF PlayersDone, Restorable
<1>5. ASSUME NEW b \in Bullets, UpdateBullet(b) PROVE Restorable'
  <2>1. pc = "bullets"
    BY <1>5 DEF UpdateBullet
  <2>2. Lanes1 /\ \A p \in Players : player'[p].lane - player'[p].vel \in Lane
    <3>1. CASE UNCHANGED <<player, pss, hurt, placed>>
      BY <2>1, <3>1 DEF Restorable
    <3>2. ASSUME NEW q \in Players, Hurt(q)
          PROVE  Lanes1 /\ \A p \in Players : player'[p].lane - player'[p].vel \in Lane
      <4>1. /\ \A s \in Slots, p \in Players : pss'[s][p] = pss[s][p] \/ pss'[s][p] = None
            /\ \E new \in Player :
                 /\ player' = [player EXCEPT ![q] = new]
                 /\ new.lane - new.vel = player[q].lane - player[q].vel \/ new.lane - new.vel \in Lane
        BY <3>2, PlayerHurt
      <4>2. Lanes1
        BY <4>1 DEF Restorable
      <4>3. \A p \in Players : player'[p].lane - player'[p].vel \in Lane
        BY <1>0, <2>1, <4>1 DEF Restorable
      <4> QED BY <4>2, <4>3
    <3> QED BY <1>5, <3>1, <3>2, BulletMoved
  <2>3. Kept
    <3>1. PICK r \in Flying :
            /\ \A s \in Slots, c \in Bullets : bss'[s][c] = bss[s][c] \/ bss'[s][c] = [x |-> r.x, hit |-> r.hit]
            /\ pc' = IF r.x \in 1..Length THEN "bullets" ELSE "down"
      BY <1>5, BulletMoved
    <3> QED BY <2>1, <3>1 DEF Restorable
  <2> QED BY <2>2, <2>3 DEF Restorable
<1>6. CASE NextSnapshot
  BY <1>6 DEF NextSnapshot, Restorable
<1>7. CASE sbsm_rotate
  <2>1. ASSUME NEW s \in Slots, NEW p \in Players, pss'[s][p] # None
        PROVE  pss'[s][p].lane - pss'[s][p].vel \in Lane
    <3>1. PICK t \in Slots : pss'[s][p] = pss[t][p]
      BY <1>7, <2>1, Rotated
    <3> QED BY <2>1, <3>1 DEF Restorable
  <2>2. /\ \A p \in Players : player'[p].lane = player[p].lane /\ player'[p].vel = player[p].vel /\ player'[p].x = player[p].x
        /\ \A s \in Slots, b \in Bullets : bss'[s][b] = bss[base][b] \/ bss'[s][b] = bss[s][b]
    BY <1>7, Rotated
  <2>3. pc \in {"idle", "bullets"} /\ pc' = "players"
    BY <1>7 DEF sbsm_rotate
  <2>4. \A p \in Players : player'[p].lane - player'[p].vel \in Lane
    BY <2>2, <2>3 DEF Restorable
  <2>5. \A s \in Slots, b \in Bullets : bss'[s][b] # None => bss'[s][b].x \in 1..Length
    <3>1. base \in Slots
      BY DEF Typed
    <3> QED BY <2>2, <2>3, <3>1 DEF Restorable
  <2> QED BY <2>1, <2>4, <2>5 DEF Restorable
<1>8. CASE server_flush_udp_clients
  BY <1>8 DEF server_flush_udp_clients, Restorable
<1>9. CASE BotsMove
  <2>1. UNCHANGED <<pss, bss, pc, todo>> /\ pc = "idle"
    BY <1>9, BotsPlaced
  <2>2. ASSUME NEW p \in Players PROVE player'[p].lane - player'[p].vel \in Lane
    <3>1. /\ player'[p].vel = player[p].vel /\ player[p].vel \in {-1, 0, 1}
          /\ player'[p] = player[p] \/ player'[p].lane \in {0, 1}
      BY <1>0, <1>9, BotsPlaced, FieldTypes DEF Lanes
    <3> QED BY <2>1, <3>1 DEF Restorable, Lane
  <2> QED BY <2>1, <2>2 DEF Restorable
<1> QED BY <1>1, <1>2, <1>3, <1>4, <1>5, <1>6, <1>7, <1>8, <1>9, Messages DEF Next, Tick

LEMMA IndicesStep == ASSUME Typed, Restorable, Indices, InTheOpen, Next PROVE Indices'
<1>0. /\ base \in Slots /\ present \in Slots /\ cursor \in Slots /\ base # present
      /\ player \in [Players -> Player] /\ bullet \in [Bullets -> Bullet \cup {None}]
      /\ pc = "players" => todo \subseteq InGame
      /\ pc = "bullets" => todo \subseteq Alive
      /\ oldest # NoSlot => pc = "idle"
  BY DEF Typed, Indices
<1>1. CASE Message
  <2>1. /\ pc = "idle" /\ UNCHANGED <<base, present, pc, cursor, rewinding, from>>
        /\ oldest' = oldest \/ oldest' \in Window
    BY <1>1, Handled
  <2>2. Window' = Window
    BY <2>1 DEF Window, Age
  <2> QED BY <2>1, <2>2 DEF Indices
<1>2. CASE sbsm_rollback
  <2>1. oldest \in Window /\ InGame' = InGame
    BY <1>2, RolledBackTo
  <2>2. /\ cursor' = oldest /\ oldest' = NoSlot /\ rewinding' = TRUE /\ pc' = "players" /\ todo' = InGame
        /\ from' = (oldest = base) /\ UNCHANGED <<base, present>>
    BY <1>2 DEF sbsm_rollback, ringVars
  <2>3. Window' = Window
    BY <2>2 DEF Window, Age
  <2> QED BY <1>0, <2>1, <2>2, <2>3 DEF Indices
<1>3. ASSUME NEW p \in Players, UpdatePlayer(p) PROVE Indices'
  <2>1. /\ pc = "players" /\ todo' = todo \ {p}
        /\ UNCHANGED <<base, present, oldest, pc, cursor, rewinding, from>>
    BY <1>3, Shot
  <2>2. PICK new \in Player : player' = [player EXCEPT ![p] = new] /\ new.in = player[p].in
    BY <1>3, PlayerTicked
  <2>3. InGame' = InGame
    BY <1>0, <2>2 DEF InGame
  <2>4. Window' = Window
    BY <2>1 DEF Window, Age
  <2> QED BY <1>0, <2>1, <2>3, <2>4 DEF Indices
<1>4. CASE PlayersDone
  <2>1. UNCHANGED <<base, present, oldest, cursor, rewinding, from, bullet>>
        /\ pc = "players" /\ pc' = "bullets" /\ todo' = Alive
    BY <1>4 DEF PlayersDone, ringVars, historyVars
  <2>2. Window' = Window /\ Alive' = Alive
    BY <2>1 DEF Window, Age, Alive
  <2> QED BY <1>0, <2>1, <2>2 DEF Indices
<1>5. ASSUME NEW b \in Bullets, UpdateBullet(b) PROVE Indices'
  <2>1. /\ pc = "bullets" /\ todo' = todo \ {b} /\ pc' \in {"bullets", "down"}
        /\ UNCHANGED <<base, present, oldest, cursor, rewinding, from>>
    BY <1>5 DEF UpdateBullet, ringVars
  <2>2. \A c \in Bullets : c # b => bullet'[c] = bullet[c]
    BY <1>0, <1>5 DEF UpdateBullet
  <2>3. todo' \subseteq Alive'
    BY <1>0, <2>1, <2>2 DEF Alive
  <2>4. Window' = Window
    BY <2>1 DEF Window, Age
  <2> QED BY <1>0, <2>1, <2>3, <2>4 DEF Indices
<1>6. CASE NextSnapshot
  <2>1. /\ cursor' = Wrap(cursor + 1) /\ cursor # present /\ rewinding /\ pc = "bullets"
        /\ pc' = "players" /\ todo' = InGame
        /\ UNCHANGED <<base, present, oldest, rewinding, from, player>>
    BY <1>6 DEF NextSnapshot, ringVars, historyVars
  <2>2. cursor \in Window
    BY <2>1 DEF Indices
  <2>3. PICK i \in Slots : i = Wrap(cursor + 1)
    BY <1>0, WrapSlot
  <2>4. Age(i) = Age(cursor) - 1 /\ Age(cursor) <= Age(base)
    BY <1>0, <2>1, <2>2, <2>3, NextYounger DEF Window
  <2>5. Age(i) <= Age(base) /\ i # base
    <3>1. Age(i) \in 0..(Size - 1) /\ Age(cursor) \in 0..(Size - 1) /\ Age(base) \in 0..(Size - 1)
      BY <1>0, <2>3, AgeFacts
    <3> QED BY <2>4, <3>1, RingAssumption
  <2>6. Window' = Window /\ InGame' = InGame
    BY <2>1 DEF Window, Age, InGame
  <2> QED BY <1>0, <2>1, <2>3, <2>5, <2>6 DEF Indices, Window
<1>7. CASE sbsm_rotate
  <2>1. base' # present' /\ cursor' = present' /\ InGame' = InGame /\ todo' = InGame
    BY <1>7, Rotated
  <2>2. /\ rewinding' = FALSE /\ pc' = "players" /\ oldest' = oldest /\ oldest = NoSlot
    BY <1>0, <1>7 DEF sbsm_rotate
  <2> QED BY <2>1, <2>2 DEF Indices
<1>8. CASE server_flush_udp_clients
  <2>1. /\ pc = "bullets" /\ ~rewinding /\ pc' \in {"idle", "down"}
        /\ UNCHANGED <<base, present, oldest, cursor, rewinding, from>>
    BY <1>8 DEF server_flush_udp_clients, ringVars, historyVars
  <2> QED BY <1>0, <2>1 DEF Indices
<1>9. CASE BotsMove
  <2>1. UNCHANGED <<base, present, oldest, pc, cursor, rewinding, from, bullet, todo>> /\ pc = "idle"
    BY <1>9, BotsPlaced
  <2>2. Window' = Window
    BY <2>1 DEF Window, Age
  <2> QED BY <2>1, <2>2 DEF Indices
<1> QED BY <1>1, <1>2, <1>3, <1>4, <1>5, <1>6, <1>7, <1>8, <1>9, Messages DEF Next, Tick

LEMMA UnbornStep == ASSUME Typed, Restorable, Indices, Unborn, InTheOpen, Next PROVE Unborn'
<1>0. /\ bullet \in [Bullets -> Bullet \cup {None}] /\ seq \in 0..MaxBullets /\ MaxBullets \in Nat
      /\ base \in Slots /\ Bullets = 1..MaxBullets
  BY GunAssumption DEF Typed, Bullets
<1>1. CASE Message
  BY <1>1, Handled DEF Unborn
<1>2. CASE sbsm_rollback
  <2>1. \A b \in Bullets : bullet'[b] = None <=> bullet[b] = None
    BY <1>2, RolledBackTo
  <2> QED BY <1>2, <2>1 DEF sbsm_rollback, Unborn
<1>3. ASSUME NEW p \in Players, UpdatePlayer(p) PROVE Unborn'
  <2>1. bss' = bss
    BY <1>3, Shot
  <2>2. \/ UNCHANGED <<bullet, seq>>
        \/ seq' = seq + 1 /\ \A b \in Bullets : b # seq + 1 => bullet'[b] = bullet[b]
    BY <1>3, Shot
  <2> QED BY <1>0, <2>1, <2>2 DEF Unborn
<1>4. CASE PlayersDone
  BY <1>4 DEF PlayersDone, Unborn
<1>5. ASSUME NEW b \in Bullets, UpdateBullet(b) PROVE Unborn'
  <2>1. bullet[b] \in Bullet /\ seq' = seq
    BY <1>5, BulletMoved DEF UpdateBullet
  <2>2. ~(b > seq)
    BY <2>1, Records DEF Unborn
  <2>3. \A c \in Bullets : c # b => bullet'[c] = bullet[c]
    BY <1>0, <1>5 DEF UpdateBullet
  <2>4. \A s \in Slots, c \in Bullets : c # b => bss'[s][c] = bss[s][c]
    <3>1. PICK r \in Flying : \A s \in Slots, c \in Bullets :
            bss'[s][c] = IF c = b /\ ((s = cursor /\ (Flies(b) \/ rewinding)) \/ (s = present /\ Flies(b)))
                         THEN [x |-> r.x, hit |-> r.hit] ELSE bss[s][c]
      BY <1>5, BulletMoved
    <3> QED BY <3>1
  <2> QED BY <2>1, <2>2, <2>3, <2>4 DEF Unborn
<1>6. CASE NextSnapshot
  BY <1>6 DEF NextSnapshot, Unborn
<1>7. CASE sbsm_rotate
  <2>1. /\ \A b \in Bullets : bullet'[b] = None \/ bullet'[b] = bullet[b]
        /\ \A s \in Slots, b \in Bullets : bss'[s][b] = bss[base][b] \/ bss'[s][b] = bss[s][b]
        /\ seq' = seq
    BY <1>7, Rotated DEF sbsm_rotate
  <2> QED BY <1>0, <2>1 DEF Unborn
<1>8. CASE server_flush_udp_clients
  BY <1>8 DEF server_flush_udp_clients, Unborn
<1>9. CASE BotsMove
  BY <1>9, BotsPlaced DEF Unborn
<1> QED BY <1>1, <1>2, <1>3, <1>4, <1>5, <1>6, <1>7, <1>8, <1>9, Messages DEF Next, Tick

LEMMA CellsStep == ASSUME Typed, Restorable, Indices, InTheOpen, CellsFollow, Next PROVE CellsFollow'
<1>0. player \in [Players -> Player] /\ placed \in [Players -> BOOLEAN] /\ ahead \in [Players -> {-1, 0, 1}]
  BY DEF Typed
<1>1. CASE Message
  <2>1. PICK p \in Players, new \in Player :
          /\ player' = [player EXCEPT ![p] = new] /\ new.x = player[p].x
          /\ new.lane = player[p].lane /\ new.cell = player[p].cell
          /\ new.in => player[p].in
    BY <1>1, Handled
  <2>2. placed' = placed /\ ahead' = ahead
    BY <1>1, Handled
  <2> QED BY <1>0, <2>1, <2>2 DEF CellsFollow, InGame
<1>2. CASE sbsm_rollback
  <2>1. ASSUME NEW p \in Players
        PROVE  /\ player'[p].in = player[p].in /\ player'[p].cell = player[p].cell
               /\ placed'[p] \/ (player'[p] = player[p] /\ placed'[p] = placed[p])
    BY <1>2, RolledBackTo
  <2>2. ahead' = ahead
    BY <1>2 DEF sbsm_rollback
  <2> QED BY <2>1, <2>2 DEF CellsFollow, InGame
<1>3. ASSUME NEW p \in Players, UpdatePlayer(p) PROVE CellsFollow'
  <2>1. PICK in \in Player, new \in Player :
          /\ player' = [player EXCEPT ![p] = new] /\ new.in = player[p].in
          /\ placed' = [placed EXCEPT ![p] = @ /\ in.input.move = 0]
          /\ new.x = player[p].x
          /\ \A q \in Players : q # p => ahead'[q] = ahead[q]
          /\ IF in.input.move = 0
             THEN new.lane = player[p].lane /\ new.cell = player[p].cell /\ ahead'[p] = ahead[p]
             ELSE new.cell = CellsAt(new.x, new.lane + ahead'[p])
    BY <1>3, PlayerTicked
  <2>2. ASSUME NEW q \in InGame'
        PROVE  player'[q].cell = CellsAt(player'[q].x, player'[q].lane + ahead'[q]) \/ placed'[q]
    <3>1. CASE q = p
      BY <1>0, <2>1, <2>2, <3>1 DEF CellsFollow, InGame
    <3>2. CASE q # p
      BY <1>0, <2>1, <2>2, <3>2 DEF CellsFollow, InGame
    <3> QED BY <3>1, <3>2
  <2> QED BY <2>2 DEF CellsFollow
<1>4. CASE PlayersDone
  BY <1>4 DEF PlayersDone, CellsFollow, InGame, historyVars
<1>5. ASSUME NEW b \in Bullets, UpdateBullet(b) PROVE CellsFollow'
  <2>0. ahead' = ahead
    BY <1>5 DEF UpdateBullet
  <2>1. CASE UNCHANGED <<player, pss, hurt, placed>>
    BY <2>0, <2>1 DEF CellsFollow, InGame
  <2>2. ASSUME NEW q \in Players, Hurt(q) PROVE CellsFollow'
    <3>1. PICK new \in Player :
            /\ player' = [player EXCEPT ![q] = new] /\ new.in = player[q].in /\ new.cell = player[q].cell
            /\ (new.lane = player[q].lane /\ new.x = player[q].x) \/ placed'[q]
            /\ \A p \in Players : placed[p] => placed'[p]
      BY <2>2, PlayerHurt
    <3> QED BY <1>0, <2>0, <3>1 DEF CellsFollow, InGame
  <2> QED BY <1>5, <2>1, <2>2, BulletMoved
<1>6. CASE NextSnapshot
  BY <1>6 DEF NextSnapshot, CellsFollow, InGame, historyVars
<1>7. CASE sbsm_rotate
  <2>1. \A p \in Players : /\ player'[p].in = player[p].in /\ player'[p].lane = player[p].lane /\ player'[p].x = player[p].x
                           /\ player'[p].cell = player[p].cell
    BY <1>7, Rotated
  <2> QED BY <1>7, <2>1 DEF sbsm_rotate, CellsFollow, InGame, historyVars
<1>8. CASE server_flush_udp_clients
  BY <1>8 DEF server_flush_udp_clients, CellsFollow, InGame, historyVars
<1>9. CASE BotsMove
  BY <1>9, BotsPlaced DEF CellsFollow, InGame
<1> QED BY <1>1, <1>2, <1>3, <1>4, <1>5, <1>6, <1>7, <1>8, <1>9, Messages DEF Next, Tick

LEMMA HurtsStep == ASSUME Typed, Restorable, Indices, Unborn, InTheOpen, Hurts, Next PROVE Hurts'
<1>0. /\ bullet \in [Bullets -> Bullet \cup {None}] /\ seq \in 0..MaxBullets /\ MaxBullets \in Nat
      /\ hurt \in [Bullets -> Nat] /\ undone \in [Bullets -> Nat] /\ Bullets = 1..MaxBullets
  BY GunAssumption DEF Typed, Bullets
<1>1. CASE Message
  BY <1>1, Handled DEF Hurts, Flies
<1>2. CASE sbsm_rollback
  <2>1. hurt' = hurt /\ seq' = seq
    BY <1>2 DEF sbsm_rollback
  <2>2. ASSUME NEW b \in Bullets
        PROVE  hurt'[b] <= 1 + undone'[b] /\ (b > seq' \/ Flies(b)' => hurt'[b] <= undone'[b])
    <3>1. /\ hurt[b] \in Nat /\ undone[b] \in Nat /\ hurt[b] <= 1 + undone[b]
          /\ b > seq \/ Flies(b) => hurt[b] <= undone[b]
      BY <1>0 DEF Hurts
    <3>2. undone'[b] = IF RolledBack(b) /\ bullet[b].hit /\ ~bss[oldest][b].hit THEN undone[b] + 1 ELSE undone[b]
      BY <1>2 DEF sbsm_rollback
    <3>3. /\ bullet'[b] = None <=> bullet[b] = None
          /\ IF RolledBack(b) THEN bullet'[b].hit = bss[oldest][b].hit ELSE bullet'[b] = bullet[b]
      BY <1>2, RolledBackTo
    <3>4. CASE RolledBack(b) /\ bullet[b].hit /\ ~bss[oldest][b].hit
      BY <2>1, <3>1, <3>2, <3>4
    <3>5. CASE ~(RolledBack(b) /\ bullet[b].hit /\ ~bss[oldest][b].hit)
      <4>1. Flies(b)' => Flies(b)
        BY <3>3, <3>5 DEF Flies
      <4>2. undone'[b] = undone[b]
        BY <3>2, <3>5
      <4> QED BY <2>1, <3>1, <4>1, <4>2
    <3> QED BY <3>4, <3>5
  <2> QED BY <2>2 DEF Hurts
<1>3. ASSUME NEW p \in Players, UpdatePlayer(p) PROVE Hurts'
  <2>1. UNCHANGED <<hurt, undone>>
    BY <1>3, Shot
  <2>2. \/ UNCHANGED <<bullet, seq>>
        \/ seq' = seq + 1 /\ \A b \in Bullets : b # seq + 1 => bullet'[b] = bullet[b]
    BY <1>3, Shot
  <2> QED BY <1>0, <2>1, <2>2 DEF Hurts, Flies
<1>4. CASE PlayersDone
  BY <1>4 DEF PlayersDone, Hurts, Flies, historyVars
<1>5. ASSUME NEW b \in Bullets, UpdateBullet(b) PROVE Hurts'
  <2>1. PICK r \in Flying :
          /\ bullet' = [bullet EXCEPT ![b] = IF r.x \in 1..Length THEN r ELSE None]
          /\ IF Flies(b) THEN r.hit = Hits(b) ELSE r = bullet[b] /\ r.hit
    BY <1>5, BulletMoved
  <2>2. bullet[b] \in Bullet /\ UNCHANGED <<seq, undone>>
    BY <1>5, BulletMoved DEF UpdateBullet
  <2>3. ~(b > seq)
    BY <2>2, Records DEF Unborn
  <2>4. \A c \in Bullets : c # b => bullet'[c] = bullet[c]
    BY <1>0, <2>1
  <2>5. Flies(b)' => Flies(b) /\ ~Hits(b)
    BY <1>0, <2>1 DEF Flies
  <2>6. CASE hurt' = hurt
    BY <1>0, <2>2, <2>3, <2>4, <2>5, <2>6 DEF Hurts, Flies
  <2>7. CASE Flies(b) /\ Hits(b) /\ hurt' = [hurt EXCEPT ![b] = @ + 1]
    <3>1. hurt[b] \in Nat /\ undone[b] \in Nat /\ hurt[b] <= undone[b] /\ hurt'[b] = hurt[b] + 1
      BY <1>0, <2>7 DEF Hurts
    <3>2. \A c \in Bullets : c # b => hurt'[c] = hurt[c]
      BY <1>0, <2>7
    <3>3. ~Flies(b)'
      BY <2>5, <2>7
    <3>4. hurt'[b] <= 1 + undone'[b] /\ ~(b > seq')
      BY <2>2, <2>3, <3>1
    <3>5. \A c \in Bullets : c # b =>
            hurt'[c] <= 1 + undone'[c] /\ (c > seq' \/ Flies(c)' => hurt'[c] <= undone'[c])
      BY <2>2, <2>4, <3>2 DEF Hurts, Flies
    <3> QED BY <3>3, <3>4, <3>5 DEF Hurts
  <2> QED BY <1>5, <2>6, <2>7, BulletMoved
<1>6. CASE NextSnapshot
  BY <1>6 DEF NextSnapshot, Hurts, Flies, historyVars
<1>7. CASE sbsm_rotate
  <2>1. \A b \in Bullets : bullet'[b] = None \/ bullet'[b] = bullet[b]
    BY <1>7, Rotated
  <2> QED BY <1>7, <2>1 DEF sbsm_rotate, Hurts, Flies, historyVars
<1>8. CASE server_flush_udp_clients
  BY <1>8 DEF server_flush_udp_clients, Hurts, Flies, historyVars
<1>9. CASE BotsMove
  BY <1>9, BotsPlaced DEF Hurts, Flies
<1> QED BY <1>1, <1>2, <1>3, <1>4, <1>5, <1>6, <1>7, <1>8, <1>9, Messages DEF Next, Tick

LEMMA OpenStep == ASSUME Typed, Restorable, Indices, InTheOpen, Next PROVE InTheOpen'
<1>0. /\ player \in [Players -> Player] /\ bullet \in [Bullets -> Bullet \cup {None}] /\ base \in Slots
      /\ pss \in [Slots -> [Players -> Snap \cup {None}]] /\ cursor \in Slots
      /\ bss \in [Slots -> [Bullets -> BulletSnap \cup {None}]]
  BY DEF Typed
<1>1. CASE Message
  <2>1. UNCHANGED <<bullet, bss, pc, end, astray>>
    BY <1>1, Handled
  <2>2. ASSUME NoneAstray PROVE NoneAstray'
    <3>1. PICK p \in Players, new \in Player : player' = [player EXCEPT ![p] = new] /\ new.x = player[p].x
      BY <1>1, Handled
    <3>2. \A q \in Players : player'[q].x \in Open
      BY <1>0, <2>2, <3>1 DEF NoneAstray
    <3>3. \A s \in Slots, q \in Players : pss'[s][q] # None =>
            (pss[s][q] # None /\ pss'[s][q].x = pss[s][q].x) \/ pss'[s][q].x = player[q].x
      BY <1>1, Handled
    <3> QED BY <2>1, <2>2, <3>2, <3>3 DEF NoneAstray, Alive
  <2> QED BY <2>1, <2>2 DEF InTheOpen
<1>2. CASE sbsm_rollback
  <2>1. UNCHANGED <<bss, end, astray>> /\ pc = "idle" /\ pc' = "players"
    BY <1>2 DEF sbsm_rollback
  <2>2. ASSUME NoneAstray PROVE NoneAstray'
    <3>1. ASSUME NEW b \in Bullets, bullet'[b] # None
          PROVE  bullet'[b].x \in 1..Length /\ (bullet'[b].hit \/ bullet'[b].x \notin Blocks)
      <4>1. /\ bullet[b] # None /\ oldest \in Slots
            /\ IF RolledBack(b) THEN bullet'[b].x = bss[oldest][b].x /\ bullet'[b].hit = bss[oldest][b].hit
               ELSE bullet'[b] = bullet[b]
        BY <1>2, <3>1, RolledBackTo
      <4> QED BY <2>1, <2>2, <4>1 DEF NoneAstray, Restorable, Alive, RolledBack
    <3>2. ASSUME NEW p \in Players PROVE player'[p].x \in Open
      <4>1. /\ oldest \in Slots
            /\ IF p \in InGame /\ pss[oldest][p] # None THEN player'[p].x = pss[oldest][p].x
               ELSE player'[p] = player[p]
        BY <1>2, RolledBackTo
      <4> QED BY <2>2, <4>1 DEF NoneAstray
    <3>3. \A s \in Slots, p \in Players : pss'[s][p] # None => pss[s][p] # None /\ pss'[s][p].x = pss[s][p].x
      BY <1>2, RolledBackTo
    <3> QED BY <2>1, <2>2, <3>1, <3>2, <3>3 DEF NoneAstray, Alive
  <2> QED BY <2>1, <2>2 DEF InTheOpen
<1>3. ASSUME NEW p \in Players, UpdatePlayer(p) PROVE InTheOpen'
  <2>1. UNCHANGED <<bss, end, pc, astray>>
    BY <1>3, Shot
  <2>2. ASSUME NoneAstray PROVE NoneAstray'
    <3>1. PICK new \in Player, snap \in Snap \cup {None} :
            /\ player' = [player EXCEPT ![p] = new]
            /\ pss' = [pss EXCEPT ![cursor] = [pss[cursor] EXCEPT ![p] = snap]]
            /\ new.x = player[p].x /\ (snap # None => snap.x = player[p].x)
      BY <1>3, PlayerTicked
    <3>2. \A q \in Players : player'[q].x \in Open
      BY <1>0, <2>2, <3>1 DEF NoneAstray
    <3>3. \A s \in Slots, q \in Players : pss'[s][q] = IF s = cursor /\ q = p THEN snap ELSE pss[s][q]
      BY <1>0, <3>1
    <3>4. \A s \in Slots, q \in Players : pss'[s][q] # None => pss'[s][q].x \in Open
      BY <2>2, <3>1, <3>3 DEF NoneAstray
    <3>5. \/ bullet' = bullet
          \/ bullet'[seq + 1].x = player[p].x /\ \A c \in Bullets : c # seq + 1 => bullet'[c] = bullet[c]
      BY <1>3, Shot
    <3>6. player[p].x \in 1..Length /\ player[p].x \notin Blocks
      BY <2>2 DEF NoneAstray, Open
    <3>7. \A b \in Alive' : bullet'[b].x \in 1..Length /\ (bullet'[b].hit \/ bullet'[b].x \notin Blocks)
      BY <2>2, <3>5, <3>6 DEF NoneAstray, Alive
    <3> QED BY <2>1, <2>2, <3>2, <3>4, <3>7 DEF NoneAstray
  <2> QED BY <2>1, <2>2 DEF InTheOpen
<1>4. CASE PlayersDone
  BY <1>4 DEF PlayersDone, InTheOpen, NoneAstray, Alive, historyVars
<1>5. ASSUME NEW b \in Bullets, UpdateBullet(b) PROVE InTheOpen'
  <2>1. PICK r \in Flying :
          /\ bullet' = [bullet EXCEPT ![b] = IF r.x \in 1..Length THEN r ELSE None]
          /\ astray \/ r.hit \/ r.x \notin Blocks
          /\ IF Flies(b) THEN r.x = Next_x(b) ELSE r = bullet[b]
          /\ \A s \in Slots, c \in Bullets : bss'[s][c] = bss[s][c] \/ bss'[s][c] = [x |-> r.x, hit |-> r.hit]
          /\ pc' = IF r.x \in 1..Length THEN "bullets" ELSE "down"
          /\ end' = IF r.x \in 1..Length THEN "no" ELSE "left"
    BY <1>5, BulletMoved
  <2>2. bullet[b] \in Bullet /\ bullet[b] # None /\ astray' = astray
    BY <1>5, BulletMoved, Records DEF UpdateBullet
  <2>3. ASSUME NoneAstray, ~astray PROVE NoneAstray'
    <3>1. \A c \in Alive' : bullet'[c].x \in 1..Length /\ (bullet'[c].hit \/ bullet'[c].x \notin Blocks)
      BY <1>0, <2>1, <2>3 DEF NoneAstray, Alive
    <3>2. \A s \in Slots, c \in Bullets : bss'[s][c] # None => bss'[s][c].hit \/ bss'[s][c].x \notin Blocks
      BY <2>1, <2>3 DEF NoneAstray
    <3>3. /\ \A p \in Players : player'[p].x \in Open
          /\ \A s \in Slots, p \in Players : pss'[s][p] # None => pss'[s][p].x \in Open
      <4>1. CASE UNCHANGED <<player, pss, hurt, placed>>
        BY <2>3, <4>1 DEF NoneAstray
      <4>2. ASSUME NEW q \in Players, Hurt(q)
            PROVE  /\ \A p \in Players : player'[p].x \in Open
                   /\ \A s \in Slots, p \in Players : pss'[s][p] # None => pss'[s][p].x \in Open
        <5>1. /\ \E new \in Player : /\ player' = [player EXCEPT ![q] = new]
                                     /\ new.x = player[q].x \/ new.x = Column[q]
              /\ \A s \in Slots, p \in Players : pss'[s][p] = pss[s][p] \/ pss'[s][p] = None
          BY <4>2, PlayerHurt
        <5>2. Column[q] \in Open
          BY MapAssumption DEF Open
        <5> QED BY <1>0, <2>3, <5>1, <5>2 DEF NoneAstray
      <4> QED BY <1>5, <4>1, <4>2, BulletMoved
    <3> QED BY <3>1, <3>2, <3>3 DEF NoneAstray
  <2>4. ASSUME ~astray, r.x \notin 1..Length PROVE ~({1, Length} \subseteq Blocks)
    <3>1. /\ bullet[b].x \in 1..Length /\ bullet[b].dir \in {-1, 1} /\ Length \in Nat
          /\ bullet[b].hit \/ bullet[b].x \notin Blocks
      BY <2>2, <2>4, MapAssumption DEF Bullet, InTheOpen, NoneAstray, Alive
    <3>2. Flies(b) /\ r.x = bullet[b].x + bullet[b].dir
      BY <2>1, <2>4, <3>1 DEF Next_x
    <3>3. bullet[b].x \notin Blocks /\ bullet[b].x \in {1, Length}
      BY <2>4, <3>1, <3>2 DEF Flies
    <3> QED BY <3>3
  <2> QED BY <2>1, <2>2, <2>3, <2>4 DEF InTheOpen
<1>6. CASE NextSnapshot
  BY <1>6 DEF NextSnapshot, InTheOpen, NoneAstray, Alive, historyVars
<1>7. CASE sbsm_rotate
  <2>1. /\ \A b \in Bullets : bullet'[b] = None \/ bullet'[b] = bullet[b]
        /\ \A s \in Slots, b \in Bullets : bss'[s][b] = bss[base][b] \/ bss'[s][b] = bss[s][b]
        /\ \A p \in Players : player'[p].x = player[p].x
        /\ \A s \in Slots, p \in Players : pss'[s][p] # None => \E t \in Slots : pss'[s][p] = pss[t][p]
    BY <1>7, Rotated
  <2>2. pc \in {"idle", "bullets"} /\ pc' = "players" /\ end' = end /\ astray' = astray
    BY <1>7 DEF sbsm_rotate, historyVars
  <2>3. ASSUME NoneAstray PROVE NoneAstray'
    <3>1. \A p \in Players : player'[p].x \in Open
      BY <2>1, <2>3 DEF NoneAstray
    <3>2. ASSUME NEW s \in Slots, NEW p \in Players, pss'[s][p] # None PROVE pss'[s][p].x \in Open
      <4>1. PICK t \in Slots : pss'[s][p] = pss[t][p]
        BY <2>1, <3>2
      <4> QED BY <2>3, <3>2, <4>1 DEF NoneAstray
    <3>3. \A b \in Alive' : bullet'[b].x \in 1..Length /\ (bullet'[b].hit \/ bullet'[b].x \notin Blocks)
      BY <2>1, <2>3 DEF NoneAstray, Alive
    <3>4. ASSUME NEW s \in Slots, NEW b \in Bullets, bss'[s][b] # None
          PROVE  bss'[s][b].hit \/ bss'[s][b].x \notin Blocks
      <4>1. PICK t \in Slots : bss'[s][b] = bss[t][b]
        BY <1>0, <2>1
      <4> QED BY <2>3, <3>4, <4>1 DEF NoneAstray
    <3> QED BY <3>1, <3>2, <3>3, <3>4 DEF NoneAstray
  <2> QED BY <2>2, <2>3 DEF InTheOpen
<1>8. CASE server_flush_udp_clients
  BY <1>8 DEF server_flush_udp_clients, InTheOpen, NoneAstray, Alive, historyVars
<1>9. CASE BotsMove
  <2>1. UNCHANGED <<pss, bullet, bss, pc, end>> /\ (astray => astray')
    BY <1>9, BotsPlaced
  <2>2. \A p \in Players : player'[p] = player[p] \/ astray' \/ player'[p].x \in Open
    BY <1>9, BotsPlaced
  <2>3. ASSUME NoneAstray, ~astray' PROVE NoneAstray'
    BY <2>1, <2>2, <2>3 DEF NoneAstray, Alive
  <2> QED BY <2>1, <2>3 DEF InTheOpen
<1> QED BY <1>1, <1>2, <1>3, <1>4, <1>5, <1>6, <1>7, <1>8, <1>9, Messages DEF Next, Tick

LEMMA RecordedStep == ASSUME Typed, Restorable, Indices, InTheOpen, Recorded, Next PROVE Recorded'
<1>0. /\ bullet \in [Bullets -> Bullet \cup {None}]
      /\ base \in Slots /\ present \in Slots /\ Window \subseteq Slots
  BY DEF Typed, Window
<1>1. UNCHANGED <<base, present>> => Window' = Window
  BY DEF Window, Age
<1>2. CASE Message
  BY <1>1, <1>2, Handled DEF Recorded, Alive
<1>3. CASE sbsm_rollback
  <2>1. UNCHANGED <<bss, base, present>> /\ pc' = "players"
    BY <1>3 DEF sbsm_rollback, ringVars
  <2>2. ASSUME NEW b \in Bullets, bullet'[b] # None, bullet'[b].hit
        PROVE  \E s \in Window : bss[s][b] # None /\ bss[s][b].hit
    <3>1. /\ bullet[b] # None /\ oldest \in Window
          /\ IF RolledBack(b) THEN bullet'[b].hit = bss[oldest][b].hit ELSE bullet'[b] = bullet[b]
      BY <1>3, <2>2, RolledBackTo
    <3> QED BY <2>2, <3>1 DEF Recorded, Alive, RolledBack
  <2> QED BY <1>1, <2>1, <2>2 DEF Recorded, Alive
<1>4. ASSUME NEW p \in Players, UpdatePlayer(p) PROVE Recorded'
  <2>1. UNCHANGED <<bss, base, present, pc>> /\ pc = "players"
    BY <1>4, Shot
  <2>2. bullet' = bullet \/ (~bullet'[seq + 1].hit /\ \A c \in Bullets : c # seq + 1 => bullet'[c] = bullet[c])
    BY <1>4, Shot
  <2> QED BY <1>1, <2>1, <2>2 DEF Recorded, Alive
<1>5. CASE PlayersDone
  <2>1. UNCHANGED <<bullet, bss, base, present>> /\ pc' = "bullets" /\ todo' = Alive
    BY <1>5 DEF PlayersDone, ringVars
  <2> QED BY <1>1, <2>1 DEF Recorded, Alive
<1>6. ASSUME NEW b \in Bullets, UpdateBullet(b) PROVE Recorded'
  <2>1. PICK r \in Flying :
          /\ bullet' = [bullet EXCEPT ![b] = IF r.x \in 1..Length THEN r ELSE None]
          /\ IF Flies(b) THEN r.x = Next_x(b) /\ r.hit = Hits(b) ELSE r = bullet[b] /\ r.hit
          /\ \A s \in Slots, c \in Bullets :
               bss'[s][c] = IF c = b /\ ((s = cursor /\ (Flies(b) \/ rewinding)) \/ (s = present /\ Flies(b)))
                            THEN [x |-> r.x, hit |-> r.hit] ELSE bss[s][c]
          /\ pc' = IF r.x \in 1..Length THEN "bullets" ELSE "down"
    BY <1>6, BulletMoved
  <2>2. /\ pc = "bullets" /\ b \in todo /\ todo' = todo \ {b} /\ bullet[b] # None
        /\ UNCHANGED <<base, present, rewinding>>
    BY <1>6, BulletMoved, Records DEF UpdateBullet, ringVars
  <2>3. present \in Window
    <3>1. Age(present) = 0 /\ Age(base) \in 0..(Size - 1)
      BY <1>0, AgeFacts
    <3> QED BY <1>0, <3>1, RingAssumption DEF Window
  <2>4. [x |-> r.x, hit |-> r.hit] # None
    <3>1. [x |-> r.x, hit |-> r.hit] \in BulletSnap
      BY DEF Flying, BulletSnap
    <3> QED BY <3>1, Records
  <2>5. ASSUME NEW c \in Bullets, bullet'[c] # None
        PROVE  IF bullet'[c].hit THEN \E s \in Window : bss'[s][c] # None /\ bss'[s][c].hit
               ELSE (pc' = "bullets" /\ ~rewinding /\ c \notin todo')
                      => bss'[present][c] = [x |-> bullet'[c].x, hit |-> FALSE]
    <3>1. CASE c # b
      <4>1. bullet'[c] = bullet[c] /\ \A s \in Slots : bss'[s][c] = bss[s][c]
        BY <1>0, <2>1, <3>1
      <4> QED BY <1>0, <2>2, <2>5, <3>1, <4>1 DEF Recorded, Alive
    <3>2. CASE c = b
      <4>1. bullet'[b] = r
        BY <1>0, <2>1, <2>5, <3>2
      <4>2. CASE Flies(b)
        <5>1. bss'[present][b] = [x |-> r.x, hit |-> r.hit]
          BY <1>0, <2>1, <4>2
        <5>2. CASE r.hit
          BY <1>0, <2>3, <2>4, <3>2, <4>1, <5>1, <5>2
        <5>3. CASE ~r.hit
          <6>1. r.hit = FALSE
            BY <5>3 DEF Flying
          <6> QED BY <3>2, <4>1, <5>1, <5>3, <6>1
        <5> QED BY <5>2, <5>3
      <4>3. CASE ~Flies(b)
        <5>1. r = bullet[b] /\ r.hit
          BY <2>1, <4>3
        <5>2. PICK s \in Window : bss[s][b] # None /\ bss[s][b].hit
          BY <2>2, <5>1 DEF Recorded, Alive
        <5>3. bss'[s][b] # None /\ bss'[s][b].hit
          BY <1>0, <2>1, <2>4, <5>1, <5>2
        <5> QED BY <3>2, <4>1, <5>1, <5>3
      <4> QED BY <4>2, <4>3
    <3> QED BY <3>1, <3>2
  <2>6. Window' = Window /\ pc' # "idle"
    BY <1>1, <2>1, <2>2
  <2> QED BY <2>2, <2>5, <2>6 DEF Recorded, Alive
<1>7. CASE NextSnapshot
  <2>1. UNCHANGED <<bullet, bss, base, present>> /\ pc' = "players"
    BY <1>7 DEF NextSnapshot, ringVars
  <2> QED BY <1>1, <2>1 DEF Recorded, Alive
<1>8. CASE sbsm_rotate
  <2>1. /\ \A b \in Bullets : bullet'[b] = None \/ bullet'[b] = bullet[b]
        /\ \A s \in Slots, b \in Bullets : bss[s][b] # None => bss'[s][b] = bss[s][b]
        /\ Window \subseteq Window'
    BY <1>8, Rotated
  <2>2. pc' = "players"
    BY <1>8 DEF sbsm_rotate
  <2>3. ASSUME NEW b \in Alive', bullet'[b].hit PROVE \E s \in Window' : bss'[s][b] # None /\ bss'[s][b].hit
    <3>1. b \in Bullets /\ bullet[b] # None /\ bullet[b].hit
      BY <2>1, <2>3 DEF Alive
    <3>2. PICK s \in Window : bss[s][b] # None /\ bss[s][b].hit
      BY <3>1 DEF Recorded, Alive
    <3> QED BY <1>0, <2>1, <3>1, <3>2
  <2> QED BY <2>2, <2>3 DEF Recorded
<1>9. CASE server_flush_udp_clients
  <2>1. /\ pc = "bullets" /\ todo = {} /\ ~rewinding /\ UNCHANGED <<bullet, bss, base, present>>
    BY <1>9 DEF server_flush_udp_clients, ringVars
  <2> QED BY <1>1, <2>1 DEF Recorded, Alive
<1>10. CASE BotsMove
  BY <1>1, <1>10, BotsPlaced DEF Recorded, Alive
<1> QED BY <1>2, <1>3, <1>4, <1>5, <1>6, <1>7, <1>8, <1>9, <1>10, Messages DEF Next, Tick

LEMMA WaitingStep == ASSUME Typed, Restorable, Indices, Unborn, InTheOpen, Waiting, Next PROVE Waiting'
<1>0. /\ player \in [Players -> Player] /\ bullet \in [Bullets -> Bullet \cup {None}]
      /\ pushed \in [Players -> SUBSET Bullets] /\ late \subseteq Players
      /\ base \in Slots /\ present \in Slots /\ base # present
      /\ seq \in 0..MaxBullets
  BY DEF Typed, Indices
<1>1. CASE Message
  <2>1. /\ pc = "idle" /\ pc' = "idle" /\ end' = end /\ from' = from /\ late \subseteq late'
        /\ \A q \in Players : pushed'[q] \subseteq pushed[q]
    BY <1>1, Handled
  <2>2. PICK p \in Players, new \in Player :
          /\ player' = [player EXCEPT ![p] = new]
          /\ new.in => player[p].in
          /\ new.udp => player[p].udp \/ pushed[p] = {} \/ late' # {}
    BY <1>1, Handled
  <2>3. ASSUME late' = {}, NEW q \in Players, player'[q].in, player'[q].udp PROVE pushed'[q] = {}
    <3>1. late = {}
      BY <2>1, <2>3
    <3>2. player[q].in /\ (player[q].udp \/ pushed[q] = {})
      <4>1. CASE q = p
        <5>1. player'[p] = new
          BY <1>0, <2>2
        <5> QED BY <2>2, <2>3, <4>1, <5>1
      <4>2. CASE q # p
        <5>1. player'[q] = player[q]
          BY <1>0, <2>2, <4>2
        <5> QED BY <2>3, <5>1
      <4> QED BY <4>1, <4>2
    <3>3. pushed[q] = {}
      BY <2>1, <3>1, <3>2 DEF Waiting, InGame
    <3> QED BY <2>1, <3>3
  <2>4. end' = "sent" => from' \/ late' # {}
    BY <2>1 DEF Waiting
  <2> QED BY <2>3, <2>4 DEF Waiting, InGame
<1>2. CASE sbsm_rollback
  <2>1. pc = "idle" /\ pc' = "players" /\ UNCHANGED <<pushed, end, late>>
    BY <1>2 DEF sbsm_rollback
  <2>2. \A q \in Players : player'[q].in = player[q].in /\ player'[q].udp = player[q].udp
    BY <1>2, RolledBackTo
  <2>3. end # "sent"
    BY <2>1 DEF InTheOpen
  <2>4. late = {} => \A q \in InGame : player[q].udp => pushed[q] = {}
    BY <2>1 DEF Waiting
  <2> QED BY <2>1, <2>2, <2>3, <2>4 DEF Waiting, InGame
<1>3. ASSUME NEW p \in Players, UpdatePlayer(p) PROVE Waiting'
  <2>1. /\ pc = "players" /\ UNCHANGED <<bss, base, pc, rewinding, end, from, late>>
    BY <1>3, Shot
  <2>2. \/ UNCHANGED <<bullet, pushed>>
        \/ /\ seq + 1 \in Bullets /\ bullet'[seq + 1] # None
           /\ \A b \in Bullets : b # seq + 1 => bullet'[b] = bullet[b]
           /\ \A q \in Players : pushed'[q] = pushed[q] \/ pushed'[q] = pushed[q] \cup {seq + 1}
    BY <1>3, Shot
  <2>3. PICK new \in Player : player' = [player EXCEPT ![p] = new] /\ new.in = player[p].in /\ new.udp = player[p].udp
    BY <1>3, PlayerTicked
  <2>4. \A q \in Players : player'[q].in = player[q].in /\ player'[q].udp = player[q].udp
    BY <1>0, <2>3
  <2>5. seq + 1 \in Bullets => bss[base][seq + 1] = None
    BY <1>0, GunAssumption DEF Unborn
  <2>6. ASSUME late = {}, NEW q \in Players, player[q].in, player[q].udp, ~from, NEW b \in pushed'[q]
        PROVE  bullet'[b] # None /\ (rewinding => bss[base][b] = None)
    <3>1. \A c \in pushed[q] : c \in Bullets /\ bullet[c] # None /\ (rewinding => bss[base][c] = None)
      BY <1>0, <2>1, <2>6 DEF Waiting, InGame
    <3>2. CASE UNCHANGED <<bullet, pushed>>
      BY <2>6, <3>1, <3>2
    <3>3. CASE b = seq + 1 /\ ~UNCHANGED <<bullet, pushed>>
      BY <2>2, <2>5, <3>3
    <3>4. CASE b # seq + 1 /\ ~UNCHANGED <<bullet, pushed>>
      BY <2>2, <2>6, <3>1, <3>4
    <3> QED BY <3>2, <3>3, <3>4
  <2>7. end # "sent"
    BY <2>1 DEF InTheOpen
  <2> QED BY <2>1, <2>4, <2>6, <2>7 DEF Waiting, InGame
<1>4. CASE PlayersDone
  <2>1. pc = "players" /\ pc' = "bullets"
        /\ UNCHANGED <<player, bullet, bss, base, rewinding, pushed, end, from, late>>
    BY <1>4 DEF PlayersDone, ringVars, historyVars
  <2> QED BY <2>1 DEF Waiting, InGame
<1>5. ASSUME NEW b \in Bullets, UpdateBullet(b) PROVE Waiting'
  <2>1. PICK r \in Flying :
          /\ bullet' = [bullet EXCEPT ![b] = IF r.x \in 1..Length THEN r ELSE None]
          /\ r.x \in 1..Length => r # None
          /\ \A s \in Slots, c \in Bullets :
               bss'[s][c] = IF c = b /\ ((s = cursor /\ (Flies(b) \/ rewinding)) \/ (s = present /\ Flies(b)))
                            THEN [x |-> r.x, hit |-> r.hit] ELSE bss[s][c]
          /\ pc' = IF r.x \in 1..Length THEN "bullets" ELSE "down"
          /\ end' = IF r.x \in 1..Length THEN "no" ELSE "left"
    BY <1>5, BulletMoved
  <2>2. pc = "bullets" /\ UNCHANGED <<base, rewinding, pushed, from, late>>
    BY <1>5 DEF UpdateBullet, ringVars
  <2>3. \A q \in Players : player'[q].in = player[q].in /\ player'[q].udp = player[q].udp
    <3>1. CASE UNCHANGED <<player, pss, hurt, placed>>
      BY <3>1
    <3>2. ASSUME NEW q \in Players, Hurt(q)
          PROVE  \A p \in Players : player'[p].in = player[p].in /\ player'[p].udp = player[p].udp
      <4>1. PICK new \in Player :
              player' = [player EXCEPT ![q] = new] /\ new.in = player[q].in /\ new.udp = player[q].udp
        BY <3>2, PlayerHurt
      <4> QED BY <1>0, <4>1
    <3> QED BY <1>5, <3>1, <3>2, BulletMoved
  <2>4. ASSUME ~from, rewinding PROVE \A c \in Bullets : bss'[base][c] = bss[base][c]
    <3>1. cursor # base
      BY <2>4 DEF Indices
    <3> QED BY <1>0, <2>1, <3>1
  <2>5. ASSUME pc' # "down", NEW c \in Bullets, bullet[c] # None PROVE bullet'[c] # None
    BY <1>0, <2>1, <2>5
  <2>6. ASSUME late = {}, NEW q \in Players, player[q].in, player[q].udp, ~from, pc' # "down", NEW c \in pushed[q]
        PROVE  bullet'[c] # None /\ (rewinding => bss'[base][c] = None)
    <3>1. c \in Bullets /\ bullet[c] # None /\ (rewinding => bss[base][c] = None)
      BY <1>0, <2>2, <2>6 DEF Waiting, InGame
    <3> QED BY <2>4, <2>5, <2>6, <3>1
  <2> QED BY <2>1, <2>2, <2>3, <2>6 DEF Waiting, InGame
<1>6. CASE NextSnapshot
  <2>1. pc = "bullets" /\ pc' = "players"
        /\ UNCHANGED <<player, bullet, bss, base, rewinding, pushed, end, from, late>>
    BY <1>6 DEF NextSnapshot, ringVars, historyVars
  <2> QED BY <2>1 DEF Waiting, InGame
<1>7. CASE sbsm_rotate
  <2>1. /\ \A q \in Players : player'[q].in = player[q].in /\ player'[q].udp = player[q].udp
        /\ \A b \in Bullets : bullet'[b] = IF sbsm_do_bullet_backfilling(b) THEN None ELSE bullet[b]
    BY <1>7, Rotated
  <2>2. /\ pc = "idle" \/ (pc = "bullets" /\ rewinding)
        /\ pc' = "players" /\ rewinding' = FALSE /\ UNCHANGED <<pushed, end, from, late>>
    BY <1>7 DEF sbsm_rotate, historyVars
  <2>3. ASSUME late = {}, NEW q \in Players, player[q].in, player[q].udp, ~from, NEW b \in pushed[q]
        PROVE  bullet'[b] # None
    <3>1. b \in Bullets /\ bullet[b] # None /\ bss[base][b] = None
      BY <1>0, <2>2, <2>3 DEF Waiting, InGame
    <3> QED BY <2>1, <3>1 DEF sbsm_do_bullet_backfilling
  <2>4. end # "sent"
    BY <2>2 DEF InTheOpen
  <2> QED BY <2>1, <2>2, <2>3, <2>4 DEF Waiting, InGame
<1>8. CASE server_flush_udp_clients
  <2>1. /\ pc = "bullets" /\ pushed' = [q \in Players |-> Unsent(q)]
        /\ end' = IF \E q \in InGame : Freed(q) THEN "sent" ELSE "no"
        /\ pc' \in {"idle", "down"} /\ UNCHANGED <<player, from, late>>
    BY <1>8 DEF server_flush_udp_clients, historyVars
  <2>2. \A q \in Players : player[q].udp => pushed'[q] = {}
    BY <2>1 DEF Unsent
  <2>3. late = {} /\ ~from => \A q \in InGame : ~Freed(q)
    BY <2>1 DEF Waiting, Freed
  <2> QED BY <2>1, <2>2, <2>3 DEF Waiting, InGame
<1>9. CASE BotsMove
  <2>1. UNCHANGED <<bullet, bss, base, pc, rewinding, pushed, end, from, late>>
    BY <1>9, BotsPlaced
  <2>2. \A q \in Players : player'[q].in = player[q].in /\ player'[q].udp = player[q].udp
    BY <1>9, BotsPlaced
  <2> QED BY <2>1, <2>2 DEF Waiting, InGame
<1> QED BY <1>1, <1>2, <1>3, <1>4, <1>5, <1>6, <1>7, <1>8, <1>9, Messages DEF Next, Tick

LEMMA AmmunitionStep == ASSUME Typed, Restorable, Indices, InTheOpen, Ammunition, Next PROVE Ammunition'
<1>0. /\ player \in [Players -> Player] /\ pss \in [Slots -> [Players -> Snap \cup {None}]]
      /\ told \in [Players -> Nat] /\ crossed \in [Players -> BOOLEAN] /\ cursor \in Slots
  BY DEF Typed
<1>1. CASE Message
  <2>1. /\ pc = "idle" /\ pc' = "idle" /\ UNCHANGED <<crossed, rewinding, todo>>
    BY <1>1, Handled
  <2>2. \A s \in Slots, q \in Players : pss'[s][q] # None =>
          \/ /\ pss[s][q] # None
             /\ pss'[s][q].gun = pss[s][q].gun /\ pss'[s][q].ammo = pss[s][q].ammo
          \/ pss'[s][q].gun = player[q].gun /\ pss'[s][q].ammo = player[q].ammo
    BY <1>1, Handled
  <2>3. PICK p \in Players, new \in Player :
          /\ player' = [player EXCEPT ![p] = new]
          /\ new.gunDirty = player[p].gunDirty
          /\ new.in => player[p].in
          /\ \/ new.gun = player[p].gun /\ new.ammo = player[p].ammo /\ told' = told
             \/ told' = [told EXCEPT ![p] = new.ammo] /\ new.ammo <= Magazine[new.gun]
    BY <1>1, Handled
  <2>4. player'[p] = new /\ \A q \in Players : q # p => player'[q] = player[q] /\ told'[q] = told[q]
    BY <1>0, <2>3
  <2>5. \A q \in Players : player'[q].in => player[q].in
    BY <2>3, <2>4
  <2>6. \A q \in Players : player'[q].gunDirty = player[q].gunDirty
    BY <2>3, <2>4
  <2>7. ASSUME NEW q \in Players, ~crossed[q]
        PROVE  player'[q].ammo <= Magazine[player'[q].gun] /\ (player'[q].in => Known(q)' \/ player'[q].gunDirty)
    <3>1. player[q].ammo <= Magazine[player[q].gun] /\ (player[q].in => Known(q) \/ player[q].gunDirty)
      BY <2>7 DEF Ammunition, InGame
    <3>2. CASE q # p
      BY <2>4, <3>1, <3>2 DEF Known
    <3>3. CASE q = p
      <4>1. CASE new.gun = player[p].gun /\ new.ammo = player[p].ammo /\ told' = told
        BY <2>4, <2>5, <2>6, <3>1, <3>3, <4>1 DEF Known
      <4>2. CASE told' = [told EXCEPT ![p] = new.ammo] /\ new.ammo <= Magazine[new.gun]
        BY <1>0, <2>4, <3>3, <4>2 DEF Known
      <4> QED BY <2>3, <4>1, <4>2
    <3> QED BY <3>2, <3>3
  <2>8. ASSUME NEW q \in Players, ~crossed[q], NEW s \in Slots, pss'[s][q] # None
        PROVE  pss'[s][q].ammo <= Magazine[pss'[s][q].gun]
    BY <2>2, <2>8 DEF Ammunition
  <2>9. \A q \in InGame' : player'[q].gunDirty => rewinding'
    BY <2>1, <2>5, <2>6 DEF Ammunition, InGame
  <2> QED BY <2>1, <2>7, <2>8, <2>9 DEF Ammunition, InGame
<1>2. CASE sbsm_rollback
  <2>1. rewinding' = TRUE /\ told' = told
    BY <1>2 DEF sbsm_rollback
  <2>2. ASSUME NEW q \in Players, ~crossed'[q]
        PROVE  player'[q].ammo <= Magazine[player'[q].gun] /\ (player'[q].in => Known(q)' \/ player'[q].gunDirty)
    <3>1. /\ player'[q].in = player[q].in /\ player'[q].gun = player[q].gun
          /\ IF q \in InGame /\ pss[oldest][q] # None
             THEN /\ player'[q].ammo = pss[oldest][q].ammo
                  /\ crossed'[q] = (crossed[q] \/ pss[oldest][q].gun # player[q].gun)
                  /\ player'[q].gunDirty = (player[q].gunDirty \/ pss[oldest][q].ammo #
                       (IF pss[oldest][q].gun = player[q].gun THEN player[q].ammo ELSE Magazine[player[q].gun]))
             ELSE player'[q] = player[q] /\ crossed'[q] = crossed[q]
          /\ oldest \in Slots
      BY <1>2, RolledBackTo
    <3>2. ~crossed[q]
      BY <2>2, <3>1
    <3>3. /\ player[q].ammo <= Magazine[player[q].gun] /\ (player[q].in => Known(q) \/ player[q].gunDirty)
          /\ pss[oldest][q] # None => pss[oldest][q].ammo <= Magazine[pss[oldest][q].gun]
      BY <3>1, <3>2 DEF Ammunition, InGame
    <3>4. CASE q \in InGame /\ pss[oldest][q] # None
      <4>1. /\ player'[q].ammo = pss[oldest][q].ammo /\ pss[oldest][q].gun = player[q].gun
            /\ player'[q].gunDirty \/ (~player[q].gunDirty /\ pss[oldest][q].ammo = player[q].ammo)
        BY <2>2, <3>1, <3>4
      <4> QED BY <2>1, <3>1, <3>3, <3>4, <4>1 DEF Known
    <3>5. CASE ~(q \in InGame /\ pss[oldest][q] # None)
      BY <2>1, <3>1, <3>3, <3>5 DEF Known
    <3> QED BY <3>4, <3>5
  <2>3. ASSUME NEW q \in Players, ~crossed'[q], NEW s \in Slots, pss'[s][q] # None
        PROVE  pss'[s][q].ammo <= Magazine[pss'[s][q].gun]
    <3>1. /\ pss[s][q] # None /\ pss'[s][q].gun = pss[s][q].gun /\ pss'[s][q].ammo = pss[s][q].ammo
      BY <1>2, <2>3, RolledBackTo
    <3>2. ~crossed[q]
      BY <1>2, <2>3, RolledBackTo
    <3> QED BY <3>1, <3>2 DEF Ammunition
  <2> QED BY <2>1, <2>2, <2>3 DEF Ammunition, InGame
<1>3. ASSUME NEW p \in Players, UpdatePlayer(p) PROVE Ammunition'
  <2>1. /\ pc = "players" /\ p \in todo /\ todo' = todo \ {p} /\ UNCHANGED <<pc, rewinding, crossed>>
    BY <1>3, Shot
  <2>2. PICK new \in Player, snap \in Snap \cup {None} :
          /\ player' = [player EXCEPT ![p] = new]
          /\ pss' = [pss EXCEPT ![cursor] = [pss[cursor] EXCEPT ![p] = snap]]
          /\ new.in = player[p].in /\ new.gun = player[p].gun
          /\ snap # None => snap.gun = new.gun /\ snap.ammo = new.ammo
          /\ player[p].ammo <= Magazine[player[p].gun] => new.ammo <= Magazine[new.gun]
          /\ \/ told' = [told EXCEPT ![p] = new.ammo]
             \/ told' = told /\ (new.gunDirty \/
                  (~player[p].gunDirty /\ (new.ammo = player[p].ammo
                     \/ (player[p].ammo = 0 /\ new.ammo = Magazine[player[p].gun]))))
          /\ new.gunDirty => rewinding
    BY <1>3, PlayerTicked
  <2>3. player'[p] = new /\ \A q \in Players : q # p => player'[q] = player[q] /\ told'[q] = told[q]
    BY <1>0, <2>2
  <2>4. \A s \in Slots, q \in Players : pss'[s][q] = IF s = cursor /\ q = p THEN snap ELSE pss[s][q]
    BY <1>0, <2>2
  <2>5. player[p].in
    BY <2>1 DEF Indices, InGame
  <2>6. ASSUME NEW q \in Players, ~crossed[q]
        PROVE  player'[q].ammo <= Magazine[player'[q].gun] /\ (player'[q].in => Known(q)' \/ player'[q].gunDirty)
    <3>1. player[q].ammo <= Magazine[player[q].gun] /\ (player[q].in => Known(q) \/ player[q].gunDirty)
      BY <2>6 DEF Ammunition, InGame
    <3>2. CASE q # p
      BY <2>3, <3>1, <3>2 DEF Known
    <3>3. CASE q = p
      <4>1. CASE told' = [told EXCEPT ![p] = new.ammo]
        <5>1. told'[p] = new.ammo
          BY <1>0, <4>1
        <5> QED BY <2>2, <2>3, <3>1, <3>3, <5>1 DEF Known
      <4>2. CASE told' = told /\ new.gunDirty
        BY <2>2, <2>3, <3>1, <3>3, <4>2
      <4>3. CASE told' = told /\ ~player[p].gunDirty /\ (new.ammo = player[p].ammo
                     \/ (player[p].ammo = 0 /\ new.ammo = Magazine[player[p].gun]))
        <5>1. Known(p)
          BY <2>5, <3>1, <3>3, <4>3
        <5>2. player[p].ammo \in Nat /\ Magazine[player[p].gun] \in Nat
          BY <1>0, FieldTypes, GunAssumption
        <5> QED BY <2>2, <2>3, <3>1, <3>3, <4>3, <5>1, <5>2 DEF Known
      <4> QED BY <2>2, <4>1, <4>2, <4>3
    <3> QED BY <3>2, <3>3
  <2>7. ASSUME NEW q \in Players, ~crossed[q], NEW s \in Slots, pss'[s][q] # None
        PROVE  pss'[s][q].ammo <= Magazine[pss'[s][q].gun]
    BY <2>2, <2>3, <2>4, <2>6, <2>7 DEF Ammunition
  <2>8. ASSUME NEW q \in Players, player'[q].in, player'[q].gunDirty PROVE rewinding \/ q \in todo'
    BY <2>1, <2>2, <2>3, <2>8 DEF Ammunition, InGame
  <2> QED BY <2>1, <2>6, <2>7, <2>8 DEF Ammunition, InGame
<1>4. CASE PlayersDone
  BY <1>4 DEF PlayersDone, Ammunition, InGame, Known, historyVars
<1>5. ASSUME NEW b \in Bullets, UpdateBullet(b) PROVE Ammunition'
  <2>1. /\ pc = "bullets" /\ UNCHANGED <<told, crossed, rewinding>>
    BY <1>5 DEF UpdateBullet
  <2>2. /\ \A p \in Players : /\ player'[p].in = player[p].in /\ player'[p].gun = player[p].gun
                              /\ player'[p].ammo = player[p].ammo
                              /\ player'[p].gunDirty = player[p].gunDirty
        /\ \A s \in Slots, p \in Players : pss'[s][p] = pss[s][p] \/ pss'[s][p] = None
    <3>1. CASE UNCHANGED <<player, pss, hurt, placed>>
      BY <3>1
    <3>2. ASSUME NEW q \in Players, Hurt(q)
          PROVE  /\ \A p \in Players : /\ player'[p].in = player[p].in /\ player'[p].gun = player[p].gun
                                       /\ player'[p].ammo = player[p].ammo
                                       /\ player'[p].gunDirty = player[p].gunDirty
                 /\ \A s \in Slots, p \in Players : pss'[s][p] = pss[s][p] \/ pss'[s][p] = None
      <4>1. PICK new \in Player :
              /\ player' = [player EXCEPT ![q] = new]
              /\ new.in = player[q].in /\ new.gun = player[q].gun /\ new.ammo = player[q].ammo
              /\ new.gunDirty = player[q].gunDirty
        BY <3>2, PlayerHurt
      <4>2. \A s \in Slots, p \in Players : pss'[s][p] = pss[s][p] \/ pss'[s][p] = None
        BY <3>2, PlayerHurt
      <4> QED BY <1>0, <4>1, <4>2
    <3> QED BY <1>5, <3>1, <3>2, BulletMoved
  <2> QED BY <2>1, <2>2 DEF Ammunition, InGame, Known
<1>6. CASE NextSnapshot
  BY <1>6 DEF NextSnapshot, Ammunition, InGame, Known, historyVars
<1>7. CASE sbsm_rotate
  <2>1. /\ \A p \in Players : /\ player'[p].in = player[p].in /\ player'[p].gun = player[p].gun
                              /\ player'[p].ammo = player[p].ammo
                              /\ player'[p].gunDirty = player[p].gunDirty
        /\ InGame' = InGame /\ todo' = InGame
    BY <1>7, Rotated
  <2>2. pc' = "players" /\ UNCHANGED <<told, crossed>>
    BY <1>7 DEF sbsm_rotate, historyVars
  <2>3. ASSUME NEW q \in Players, ~crossed[q], NEW s \in Slots, pss'[s][q] # None
        PROVE  pss'[s][q].ammo <= Magazine[pss'[s][q].gun]
    <3>1. PICK t \in Slots : pss'[s][q] = pss[t][q]
      BY <1>7, <2>3, Rotated
    <3> QED BY <2>3, <3>1 DEF Ammunition
  <2>4. \A q \in Players : ~crossed'[q] =>
          /\ player'[q].ammo <= Magazine[player'[q].gun]
          /\ q \in InGame' => Known(q)' \/ player'[q].gunDirty
    BY <2>1, <2>2 DEF Ammunition, Known
  <2> QED BY <2>1, <2>2, <2>3, <2>4 DEF Ammunition
<1>8. CASE server_flush_udp_clients
  BY <1>8 DEF server_flush_udp_clients, Ammunition, InGame, Known, historyVars
<1>9. CASE BotsMove
  <2>1. UNCHANGED <<pss, pc, rewinding, todo, told, crossed>>
    BY <1>9, BotsPlaced
  <2>2. \A q \in Players : /\ player'[q].in = player[q].in /\ player'[q].gun = player[q].gun
                           /\ player'[q].ammo = player[q].ammo
                           /\ player'[q].gunDirty = player[q].gunDirty
    BY <1>9, BotsPlaced
  <2> QED BY <2>1, <2>2 DEF Ammunition, InGame, Known
<1> QED BY <1>1, <1>2, <1>3, <1>4, <1>5, <1>6, <1>7, <1>8, <1>9, Messages DEF Next, Tick

LEMMA InitIInv == ASSUME Init PROVE IInv
<1>1. PICK new \in SUBSET Newcomers : placed = [p \in Players |-> p \in new]
  BY DEF Init
<1>2. placed \in [Players -> BOOLEAN] /\ \A p \in Players : placed[p] \in BOOLEAN
  BY <1>1
<1>3. /\ FirstGun \in Guns /\ Magazine[FirstGun] \in Nat /\ MaxHealth \in 1..MaxHealth /\ 0 \in 0..(Reload - 1)
      /\ Size \in 0..Size /\ 0 \in Slots /\ 1 \in Slots
  BY GunAssumption, RingAssumption DEF Slots
<1> DEFINE first(n, u, c) == [in |-> TRUE, udp |-> u, x |-> n, lane |-> 0, vel |-> 0, input |-> Still, prevMove |-> 0,
             prevPos |-> <<n, 0>>, cell |-> c, aim |-> 1, dirty |-> FALSE, gunDirty |-> FALSE, health |-> MaxHealth,
             gun |-> FirstGun, ammo |-> Magazine[FirstGun], reload |-> 0, last |-> Size]
<1>4. player = [p \in Players |-> first(Column[p], ~placed[p], IF placed[p] THEN NoCell ELSE <<Column[p], 0>>)]
  BY DEF Init
<1>5. Still \in Input /\ 0 \in Lane /\ 0 \in Lanes
  BY DEF Still, Input, Lane, Lanes
<1>6. ASSUME NEW n \in Place, NEW u \in BOOLEAN, NEW c \in Cell PROVE first(n, u, c) \in Player
  BY <1>3, <1>5 DEF Player, Spot
<1>7. ASSUME NEW p \in Players
      PROVE  /\ player[p] \in Player /\ player[p].lane = 0 /\ player[p].vel = 0
             /\ player[p].ammo = Magazine[FirstGun] /\ player[p].gun = FirstGun /\ ~player[p].gunDirty
             /\ player[p].cell = <<Column[p], 0>> \/ placed[p]
             /\ player[p].x = Column[p] /\ Column[p] \in Open /\ Column[p] \in 1..Length
  <2>1. player[p] = first(Column[p], ~placed[p], IF placed[p] THEN NoCell ELSE <<Column[p], 0>>)
    BY <1>4
  <2>4. Column[p] \in Open /\ Column[p] \in 1..Length /\ Column[p] \in Place /\ <<Column[p], 0>> \in Cell /\ NoCell \in Cell
    BY <1>5, MapAssumption DEF Open, Place, Cell
  <2>2. PICK n \in Place, u \in BOOLEAN, c \in Cell :
          /\ player[p] = first(n, u, c) /\ n = Column[p]
          /\ c = <<Column[p], 0>> \/ placed[p]
    BY <1>2, <2>1, <2>4
  <2>3. player[p] \in Player
    BY <1>6, <2>2
  <2> QED BY <2>2, <2>3, <2>4
<1> HIDE DEF first
<1>8. player \in [Players -> Player]
  BY <1>4, <1>7
<1>9. /\ bullet = [b \in Bullets |-> None] /\ seq = 0
      /\ pss = [s \in Slots |-> [p \in Players |-> None]]
      /\ bss = [s \in Slots |-> [b \in Bullets |-> None]]
      /\ base = 0 /\ present = 1 /\ oldest = NoSlot
      /\ pc = "idle" /\ cursor = 0 /\ rewinding = FALSE /\ todo = {}
      /\ pushed = [p \in Players |-> {}]
      /\ end = "no" /\ asks = 0
      /\ hurt = [b \in Bullets |-> 0] /\ undone = [b \in Bullets |-> 0]
      /\ told = [p \in Players |-> Magazine[FirstGun]]
      /\ crossed = [p \in Players |-> FALSE] /\ ahead = [p \in Players |-> 0] /\ astray = FALSE /\ from = FALSE /\ late = {}
  BY DEF Init
<1>10. MaxBullets \in Nat /\ MaxAsks \in Nat
  BY GunAssumption
<1>11. Typed
  <2>1. /\ bullet \in [Bullets -> Bullet \cup {None}] /\ pss \in [Slots -> [Players -> Snap \cup {None}]]
        /\ bss \in [Slots -> [Bullets -> BulletSnap \cup {None}]]
    BY <1>9
  <2>2. pushed \in [Players -> SUBSET Bullets] /\ hurt \in [Bullets -> Nat] /\ undone \in [Bullets -> Nat]
    BY <1>9
  <2>3. told \in [Players -> Nat] /\ crossed \in [Players -> BOOLEAN] /\ ahead \in [Players -> {-1, 0, 1}]
    BY <1>3, <1>9
  <2>4. seq \in 0..MaxBullets /\ asks \in 0..MaxAsks
    BY <1>9, <1>10
  <2>5. /\ base \in Slots /\ present \in Slots /\ oldest \in Slots \cup {NoSlot} /\ cursor \in Slots
        /\ pc \in {"idle", "players", "bullets", "down"} /\ rewinding \in BOOLEAN
        /\ todo \subseteq (IF pc = "players" THEN Players ELSE Bullets)
        /\ end \in {"no", "left", "sent"} /\ astray \in BOOLEAN /\ from \in BOOLEAN /\ late \subseteq Players
    BY <1>3, <1>9
  <2> QED BY <1>2, <1>8, <2>1, <2>2, <2>3, <2>4, <2>5 DEF Typed
<1>12. Restorable /\ Indices /\ Unborn
  <2>1. Restorable
    BY <1>3, <1>5, <1>7, <1>9 DEF Restorable
  <2>2. Indices /\ Unborn
    BY <1>3, <1>7, <1>9 DEF Indices, Unborn
  <2> QED BY <2>1, <2>2
<1>13. CellsFollow
  <2>1. ASSUME NEW p \in Players
        PROVE  player[p].cell = CellsAt(player[p].x, player[p].lane + ahead[p]) \/ placed[p]
    <3>1. ahead[p] = 0 /\ player[p].lane + ahead[p] = 0
      BY <1>7, <1>9
    <3>2. CellsAt(Column[p], 0) = <<Column[p], 0>>
      BY <1>5, <1>7 DEF CellsAt
    <3> QED BY <1>7, <3>1, <3>2
  <2> QED BY <2>1 DEF CellsFollow, InGame
<1>14. Ammunition
  BY <1>3, <1>7, <1>9 DEF Ammunition, Known, InGame
<1>15. Hurts /\ InTheOpen /\ Recorded /\ Waiting
  BY <1>7, <1>9 DEF Hurts, Flies, InTheOpen, NoneAstray, Recorded, Alive, Waiting, InGame
<1> QED BY <1>11, <1>12, <1>13, <1>14, <1>15 DEF IInv

LEMMA Stutter == ASSUME IInv, UNCHANGED vars PROVE IInv'
<1>1. Typed' /\ Restorable' /\ Indices' /\ Unborn'
  BY DEF IInv, vars, ringVars, historyVars, Typed, Restorable, Indices, InGame, Alive, Window, Age, Unborn
<1>2. CellsFollow' /\ Ammunition' /\ Hurts' /\ InTheOpen'
  BY DEF IInv, vars, ringVars, historyVars, CellsFollow, InGame, Ammunition, Known, Hurts, Flies, InTheOpen, NoneAstray, Alive
<1>3. Recorded' /\ Waiting'
  BY DEF IInv, vars, ringVars, historyVars, Recorded, Alive, Window, Age, Waiting, InGame
<1> QED BY <1>1, <1>2, <1>3 DEF IInv

\* every step of a tick and every message keeps the invariant
THEOREM Inductive == Spec => []IInv
<1>1. Init => IInv
  BY InitIInv
<1>2. IInv /\ [Next]_vars => IInv'
  <2>1. ASSUME IInv, Next PROVE IInv'
    BY <2>1, TypedStep, RestorableStep, IndicesStep, UnbornStep, CellsStep, AmmunitionStep, HurtsStep,
       OpenStep, RecordedStep, WaitingStep DEF IInv
  <2> QED BY <2>1, Stutter
<1> QED BY <1>1, <1>2, PTL DEF Spec

-------------------------------------------------------------------------------
(* What follows from it. *)

\* The state has its types: a rollback restores lanes, and bullets in the map.
THEOREM TypeInvariant == Spec => []TypeOK
<1>1. IInv => TypeOK
  BY DEF IInv, Typed, TypeOK, BulletSnap
<1> QED BY <1>1, Inductive, PTL

\* BulletsOnRecord: between two ticks a collision is in a snapshot of the window, from which the
\* rotation frees the bullet, and a flight is in that of the present.
THEOREM RecordInvariant == Spec => []BulletsOnRecord
<1>1. IInv => BulletsOnRecord
  <2> SUFFICES ASSUME IInv, pc = "idle", NEW b \in Alive
               PROVE  IF Flies(b) THEN bss[present][b] = [x |-> bullet[b].x, hit |-> FALSE]
                      ELSE \E s \in Window : bss[s][b] # None /\ bss[s][b].hit
    BY DEF BulletsOnRecord
  <2> QED BY DEF IInv, Recorded, Flies, Alive
<1> QED BY <1>1, Inductive, PTL

\* HurtOnce: replayed or not, a bullet hurts once for each time its hit was taken back, and once more.
THEOREM HurtInvariant == Spec => []HurtOnce
<1>1. IInv => HurtOnce
  BY DEF IInv, Hurts, HurtOnce
<1> QED BY <1>1, Inductive, PTL

\* AmmoKnown: after a tick the clients know what is in a gun that no rollback gave another's ammo.
THEOREM AmmoInvariant == Spec => []AmmoKnown
<1>1. IInv => AmmoKnown
  <2> SUFFICES ASSUME IInv, pc = "idle", NEW p \in InGame, ~crossed[p]
               PROVE  player[p].ammo <= Magazine[player[p].gun] /\ Known(p)
    BY DEF AmmoKnown, Known, InGame
  <2>1. ~rewinding /\ p \in Players
    BY DEF IInv, Indices, InGame
  <2>2. ~player[p].gunDirty
    BY <2>1 DEF IInv, Ammunition
  <2> QED BY <2>1, <2>2 DEF IInv, Ammunition
<1> QED BY <1>1, Inductive, PTL

\* CellsFollow: who has moved since it was put somewhere is listed where its last way leads.
THEOREM CellsInvariant == Spec => []CellsFollow
<1>1. IInv => CellsFollow
  BY DEF IInv
<1> QED BY <1>1, Inductive, PTL

\* UndefinedExplained: in a closed map that no bot was put out of, and while no rewind begins at the base and no first datagram
\* is late, no bullet is used after it was freed.
THEOREM FreedInvariant == Spec => []UndefinedExplained
<1>1. IInv => UndefinedExplained
  BY DEF IInv, InTheOpen, Waiting, UndefinedExplained
<1> QED BY <1>1, Inductive, PTL

===============================================================================
