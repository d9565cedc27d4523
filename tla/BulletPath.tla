------------------------------ MODULE BulletPath ------------------------------
(***************************************************************************)
(* The flight of one bullet over the map (coregame.c): every tick the walk *)
(* over the grid that collects the cells between where the bullet is and   *)
(* where it will be (cg_get_cells_2points, a digital differential          *)
(* analyser), and the ray tested against what stands in those cells        *)
(* (cg_ray_collision_test).  Combat takes the outcome for granted: here    *)
(* the geometry itself is the subject.                                     *)
(*                                                                         *)
(* Positions are whole numbers of GridSize to a cell; the divisions are    *)
(* exact, a quotient being a pair with its denominator not below zero.     *)
(* What IEEE arithmetic makes of a division by zero is kept, for the code  *)
(* runs into it: <<1, 0>>, <<-1, 0>> and <<0, 0>> are infinity, minus      *)
(* infinity and NaN.  Rounding is left out.                                *)
(***************************************************************************)
EXTENDS Integers, Sequences, FiniteSets

CONSTANTS
  Width, Height,  \* map->w and map->h, in cells
  GridSize,       \* map->grid_size
  HalfBullet,     \* half the side of a bullet's square
  Blocks,         \* the cells that are blocks
  Bodies,         \* where the other players stand: their top left corners
  BodySize,       \* the side of a player's square
  Velocities,     \* a bullet's way in a tick, along the axes
  Tickrate        \* ticks in the second the ray test looks ahead

ASSUME MapAssumption ==
  /\ Width \in Nat \ {0} /\ Height \in Nat \ {0} /\ GridSize \in Nat \ {0}
  /\ Blocks \subseteq (0..(Width - 1)) \X (0..(Height - 1))
ASSUME SizeAssumption == HalfBullet \in Nat /\ BodySize \in Nat /\ Tickrate \in Nat \ {0}
ASSUME BodyAssumption ==
  Bodies \subseteq (0..(Width * GridSize - BodySize)) \X (0..(Height * GridSize - BodySize))
ASSUME VelocityAssumption == Velocities \subseteq (Int \X Int) \ {<<0, 0>>}

VARIABLES
  pos,       \* bullet->r.pos
  vel,       \* bullet->velocity, times the tick
  status,    \* flying, collided, or gone when it left the map
  pc,        \* where coregame_update_bullet is: idle, walk or test
  at,        \* <<x0, y0>>
  tmax,      \* <<t_max_x, t_max_y>>
  cells      \* bullet->cells

vars == <<pos, vel, status, pc, at, tmax, cells>>

Axes == {1, 2}
Map == (0..(Width - 1)) \X (0..(Height - 1))
Extent == <<Width * GridSize, Height * GridSize>>
CellOf(p) == <<p[1] \div GridSize, p[2] \div GridSize>>
NextPos == <<pos[1] + vel[1], pos[2] + vel[2]>>
Sign(n) == IF n > 0 THEN 1 ELSE IF n < 0 THEN -1 ELSE 0
--------------------------------------------------------------------------------
(* Arithmetic of quotients; nothing is less than NaN, nor NaN than it.     *)
NaN == <<0, 0>>
Over(n, d) == IF d = 0 THEN <<Sign(n), 0>> ELSE IF d < 0 THEN <<-n, -d>> ELSE <<n, d>>
Less(a, b) == a[1] * b[2] < b[1] * a[2] \/ (a = <<-1, 0>> /\ b = <<1, 0>>)
Later(a, b) == IF Less(a, b) THEN b ELSE a
Sooner(a, b) == IF Less(b, a) THEN b ELSE a
--------------------------------------------------------------------------------
(* cg_get_cells_2points.  Of an axis the bullet does not move along, the   *)
(* step is taken to be -1 and the time of the first crossing is minus      *)
(* infinity, or NaN from a line of the grid; adding the infinite delta     *)
(* makes NaN of either.  The nearer line is crossed, of two as near that   *)
(* of the second axis.                                                     *)
Step(i) == IF vel[i] > 0 THEN 1 ELSE -1

FirstCrossing(i) ==
  Over((CellOf(pos)[i] + (IF Step(i) > 0 THEN 1 ELSE 0)) * GridSize - pos[i], vel[i])

NextCrossing(i) == IF tmax[i][2] = 0 THEN NaN ELSE <<tmax[i][1] + GridSize, tmax[i][2]>>

Axis_Across == IF Less(tmax[2], tmax[1]) THEN 1 ELSE 2  \* mutant: the later line is crossed
Axis == IF Less(tmax[1], tmax[2]) THEN 1 ELSE 2

WalkOn ==
  /\ at' = [at EXCEPT ![Axis] = @ + Step(Axis)]
  /\ tmax' = [tmax EXCEPT ![Axis] = NextCrossing(Axis)]

Collected_Any == Append(cells, at)    \* mutant: no check that there is a cell
Collected == IF at \in Map THEN Append(cells, at) ELSE cells

Walked == {cells[k] : k \in DOMAIN cells}
--------------------------------------------------------------------------------
(* What stands in a cell, as the ray sees it: a block is its cell, a       *)
(* player is listed in every cell its square reaches into, or in none when *)
(* a corner of it has no cell (cg_map_at_wpos).                            *)
Square(p, side) == [lo |-> p, side |-> side]

BlockOf(c) == Square(<<c[1] * GridSize, c[2] * GridSize>>, GridSize)

HasCell(p) == \A i \in Axes : p[i] >= 0 /\ CellOf(p) \in Map
Corner(b) == <<b[1] + BodySize, b[2] + BodySize>>

ListedIn(c) ==
  {b \in Bodies :
     /\ HasCell(b) /\ HasCell(Corner(b))
     /\ \A i \in Axes : CellOf(b)[i] <= c[i] /\ c[i] <= CellOf(Corner(b))[i]}

TargetsIn(c) ==
  IF c \in Blocks THEN {BlockOf(c)} ELSE {Square(b, BodySize) : b \in ListedIn(c)}

(* cg_ray_collision_test, from the bullet's middle along its velocity,     *)
(* against the target grown by half the bullet on every side.              *)
Mid(i) == pos[i] + HalfBullet
Grown(t, i) == <<t.lo[i] - HalfBullet, t.lo[i] + t.side + HalfBullet>>
Enters(t, i) == Over(Grown(t, i)[1] - Mid(i), vel[i])
Leaves(t, i) == Over(Grown(t, i)[2] - Mid(i), vel[i])
TNear(t, i) == Sooner(Enters(t, i), Leaves(t, i))
TFar(t, i) == Later(Enters(t, i), Leaves(t, i))
HitTime(t) == Later(TNear(t, 1), TNear(t, 2))

(* cg_bullet_cell_collision: the time is in seconds and its sign is        *)
(* dropped, so the ray reaches a second ahead, and a second back for a     *)
(* bullet that is inside its target.                                       *)
InSight(a) == Less(a, <<Tickrate, 1>>) /\ Less(<<-Tickrate, 1>>, a)

RayHits(t) ==
  /\ \A i \in Axes : Enters(t, i) # NaN /\ Leaves(t, i) # NaN
  /\ ~Less(TFar(t, 2), TNear(t, 1)) /\ ~Less(TFar(t, 1), TNear(t, 2))
  /\ ~Less(Sooner(TFar(t, 1), TFar(t, 2)), <<0, 1>>)
  /\ InSight(HitTime(t))

Struck(k) == {t \in TargetsIn(cells[k]) : RayHits(t)}

(* The contact point, times the denominator of its time.                   *)
ContactOff(t) ==
  LET a == HitTime(t) IN
  \E i \in Axes : LET c == Mid(i) * a[2] + a[1] * vel[i] IN c < 0 \/ c > Extent[i] * a[2]
--------------------------------------------------------------------------------
Init ==
  /\ pos \in (0..Extent[1]) \X (0..Extent[2]) /\ vel \in Velocities
  /\ CellOf(pos) \notin Blocks
  /\ status = "flying" /\ pc = "idle"
  /\ at = CellOf(pos) /\ tmax = <<NaN, NaN>> /\ cells = <<>>

(* coregame_update_bullet, as far as the start of the walk.                *)
coregame_update_bullet ==
  /\ pc = "idle" /\ status = "flying"
  /\ cells' = <<>> /\ at' = CellOf(pos)
  /\ tmax' = <<FirstCrossing(1), FirstCrossing(2)>>
  /\ pc' = "walk"
  /\ UNCHANGED <<pos, vel, status>>

(* One turn of the loop of cg_get_cells_2points: off the map it ends.      *)
cg_get_cells_2points ==
  /\ pc = "walk"
  /\ cells' = Collected
  /\ IF at \notin Map \/ at = CellOf(NextPos)
     THEN pc' = "test" /\ UNCHANGED <<at, tmax>>
     ELSE pc' = "walk" /\ WalkOn
  /\ UNCHANGED <<pos, vel, status>>

(* The cells are tested in the order of the walk.  The bullet stops at     *)
(* what the ray meets first, or moves; then it is freed if where it is put *)
(* is off the map.  A bullet that has stopped does not move again: of the  *)
(* contact point only that is kept.                                        *)
Stop ==
  \E k \in DOMAIN cells : \E t \in Struck(k) :
    /\ \A j \in 1..(k - 1) : Struck(j) = {}
    /\ status' = IF ContactOff(t) THEN "gone" ELSE "collided"
    /\ pos' = pos

OffMap(p) == \E i \in Axes : p[i] < 0 \/ p[i] > Extent[i]

Move ==
  /\ \A k \in DOMAIN cells : Struck(k) = {}
  /\ status' = IF OffMap(NextPos) THEN "gone" ELSE status
  /\ pos' = NextPos

cg_bullet_collision_test ==
  /\ pc = "test" /\ pc' = "idle"
  /\ Stop \/ Move
  /\ UNCHANGED <<vel, at, tmax, cells>>

Next == coregame_update_bullet \/ cg_get_cells_2points \/ cg_bullet_collision_test

Spec == Init /\ [][Next]_vars
--------------------------------------------------------------------------------
(* Where the bullet is after k of N parts of its way, times N.  Lines are  *)
(* crossed after an even number of parts: what the bullet's corner spends  *)
(* any time in, it is in after an odd number.                              *)
Whole(i) == IF vel[i] = 0 THEN 1 ELSE Sign(vel[i]) * vel[i]
N == 2 * Whole(1) * Whole(2)
Part(k, i) == pos[i] * N + k * vel[i]
Between == {2 * k - 1 : k \in 1..(N \div 2)}

Crossed == {<<Part(k, 1) \div (N * GridSize), Part(k, 2) \div (N * GridSize)>> : k \in Between}

Touched == {c \in Map : \E k \in 0..N : \A i \in Axes :
              c[i] * GridSize * N <= Part(k, i) /\ Part(k, i) <= (c[i] + 1) * GridSize * N}

MeetsBody(b) == \E k \in Between : \A i \in Axes :
                  b[i] * N <= Part(k, i) /\ Part(k, i) < (b[i] + BodySize) * N

(* The walks the code gets wrong: along an axis across a line of the grid  *)
(* the other axis is stepped and the end is never met (but for a vertical  *)
(* way on such a line), a way right and up that ends in a corner of the    *)
(* grid steps past its end, and from the far edges of the map, where a     *)
(* bullet is still kept, the walk ends before it begins.                   *)
Blind ==
  \/ CellOf(pos) \notin Map
  \/ /\ CellOf(pos) # CellOf(NextPos)
     /\ \/ vel[2] = 0
        \/ vel[1] = 0 /\ pos[1] % GridSize # 0
        \/ vel[1] > 0 /\ vel[2] < 0 /\ \A i \in Axes : NextPos[i] % GridSize = 0

(***************************************************************************)
(* A bullet is tested against everything on its way: but for the ways that *)
(* are Blind, the walk collects each cell of the map the bullet's corner   *)
(* passes through and none it does not touch, and a bullet that crosses a  *)
(* block or another player on this tick's way stops in this tick.  A       *)
(* bullet that is in a block, however it got there, stops in any case.     *)
(* The other player is not one that touches the far edges of the map: its  *)
(* far corner has no cell there, and it is listed in none.                 *)
(***************************************************************************)
WayTested ==
  [][pc = "test" =>
       /\ ~Blind =>
            /\ Crossed \cap Map \subseteq Walked /\ Walked \subseteq Touched
            /\ Crossed \cap Blocks # {} => status' # "flying"
            /\ (\E b \in Bodies : HasCell(Corner(b)) /\ MeetsBody(b)) => status' # "flying"
       /\ CellOf(pos) \in Blocks => status' # "flying"]_vars
===============================================================================
