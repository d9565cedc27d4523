# A verification of wa_game in TLA+

wa_game is a multiplayer top-down shooter: a server that simulates the game at
a fixed tickrate, and clients that send it inputs and draw what it tells them.
This directory holds TLA+ modules of its parts, TLC configurations that
model-check them on small instances, and theorems with proofs checked by TLAPS.
Paths are relative to the repository's sources.

## The system

| part | source | state | operations | what makes it correct | module |
|---|---|---|---|---|---|
| snapshot ring | `lib/coregame/src/sbsm.c` | the last `tickrate/4` ticks with player and bullet snapshots; base, present, oldest change | lookup, commit, rollback, rewind, rotate, backfill, delete | the slot computed from a time holds it; no filed input is lost; late inputs count as if in time | `Sbsm`, `Combat` |
| core game | `lib/coregame/src/coregame.c` | players, bullets, guns, cells | tick, inputs, movement, collisions, guns, bullets | a bullet hurts once, hits what is in its way, and is not used after it is freed; cells agree with positions | `Combat`, `BulletPath`, `Sbsm` |
| server event loop | `server/src/server.c`, `event.c`, `client.c`, `server_init.c` | clients by session, list of events, clock of the last tick | epoll batches, accept, read, timeouts, signals, ticks, shutdown | nothing freed is used; silent clients go and others stay; a signal stops it | `ServerLoop` |
| server protocol | `server/src/server_game.c` | player of a client, spawn index | CONNECT, pings, inputs, guns, reload, chat, bots; broadcasts | every client learns of every player once, and of every change | `Roster`, `Play`, `Combat` |
| client networking | `client/src/client_net.c`, `game_net_events.c` | a TCP and a UDP socket, session, array of fd events | connect, read, ping, reconnect, disconnect | one connection at most; no event of an old socket reaches a new one; a lost session is replaced | `ClientApp`, `Roster` |
| client game | `client/src/game.c`, `player.c`, `game_ui.c` | keys, inputs, own player, roster, camera | keys, guns, switches, moves, deaths | the server moves the player by the keys that are held | `Play`, `Roster` |
| client state machine | `client/src/state.c`, `main_menu.c`, `app.c` | current, previous, cleanup pending | switch, update, cleanup | what is cleaned up is what was left | `ClientApp` |
| map | `lib/coregame/src/cg_map.c` | cells, spawns | load, save, add, cell of a position | a saved map loads as itself | `MapEditor` |
| map editor | `client/src/map_editor.c` | headers of maps by path or id | open, place, erase, save | a file is listed once and holds what was saved | `MapEditor` |
| drawing | `client/src/renderer.c`, `game_draw.c`, `opengl.c` | batch objects, shaders, matrices | queue, flush, bind, resize | what is queued is drawn under its own matrices | `Renderer` |
| network definitions | `lib/netdef` | message table | registration | message sizes agree on both sides | |
| windows, helpers | `client/src/gui/`, `mmframes`, matrices, images | | | | `mmframes` in `Combat` |
| external | SSP (packets, reliability), ght (hash tables), cutils, wa (windows) | | | empty submodules, modelled only by how the code uses them | |

How they interact.  The server is one thread: `server_run` waits in
`server_poll` for the rest of a tick and handles what arrives, then calls
`coregame_update`, which rolls back to the oldest snapshot an input changed,
replays to the present, rotates the ring and simulates the new tick; then it
flushes datagrams.  TCP carries joins, departures and switches in order; UDP
carries inputs, moves, guns and pings.  A client is one thread too: it polls its
sockets, then updates its state machine, which draws a frame.  Callbacks run
inside the calls that cause them: a bullet that kills during a rewind deletes
snapshots the rewind is about to write.

What is hard here: inputs out of order and late; a rewind that passes snapshots
of different age and origin, with bullets born or freed in between; a ring that
is full; events of one epoll batch whose client, or whose slot in an array, an
earlier one took away; a clock that stands still while the server sleeps;
sessions lost to timeouts and restarts, with state on either side that survives
them; joins and departures in between; a walk over the grid whose divisions are
by zero.  `PROJECT.json` lists these hazards at their lines, with the properties
that watch them.

## Modules

| module | models | extends or instantiates |
|---|---|---|
| `Sbsm` | the snapshot ring, player snapshots, and the handlers that read and write it | |
| `SbsmTrajectory` | history of filed inputs, and what the rollback promises | `Sbsm` |
| `InputLog` | abstract: a log of inputs by tick, replayed in order | |
| `SbsmLog` | the ring implements the log | `Sbsm`, `InputLog` |
| `Combat` | guns, bullets and cells, rolled back with the ring | |
| `BulletPath` | the walk of a bullet over the grid and its ray test | |
| `ServerLoop` | epoll, events, clients, timeouts, signal, shutdown | |
| `Roster` | server and clients exchanging joins, departures, pings, reconnects | |
| `Play` | one client's keys, input, gun and switches, and the server's side of them | |
| `ClientApp` | the client's fd events, connection and state machine | |
| `MapEditor` | the editor's table of maps, and the files | |
| `Renderer` | batch objects and the frames drawn with them | |
| `SbsmProofs`, `PlayProofs`, `MapEditorProofs`, `ServerLoopProofs`, `CombatProofs`, `RosterProofs`, `RendererProofs`, `ClientAppProofs` | theorems | the module named, and `TLAPS` |
| `MCSbsm`, `MCTrajectory`, `MCServerLoop`, `MCRoster`, ... | instances for TLC | the module named |

Two actors' views of one thing are often in two modules.  `Combat` has its own
ring with bullets in it and takes from `Sbsm`, where the indices are proved,
that a time is found in its slot (it keeps ages instead of times); `Combat`
takes the outcome of `BulletPath` for granted; `Play` makes one step of the
reconnect that `ClientApp` has from the client's side and `Roster` from both.

Operators named `X_Y` next to an operator `X` and marked "mutant" are `X` with
a plausible bug.  No specification uses them; they show that a property would
notice the bug.

### Sbsm, SbsmTrajectory

`pss[s][p]` is the player snapshot of `p` in slot `s`, `stamp` the timestamps,
`oldest` is `oldest_change`, `player` the fields of `cg_player_t` the ring reads
or writes.  `coregame_update` is cut where its loop turns: `pc` is `idle`
between updates, `rewind` while `sbsm_rewind` is at slot `cursor`, `rotate` when
only `sbsm_rotate` and the new tick are left; one tick of all players is one
step, and no input handler runs in between (one thread). Handlers are
`coregame_add_player`, `coregame_free_player` and, for
`coregame_set_player_input_t`, `FileInput` and `RefuseInput` (its early returns;
the return for a late input changes nothing and is no step).  Times are
integers, `Interval` to a tick, so a client may claim times between ticks. The
plane is a line with walls and an input is the displacement it asks for. How far
a tick takes a player is not its input's doing alone: a new tick is as long as
the clock says (`Lengths`, `coregame_get_delta_time`) and has the gun's
knockback in it (`Kicks`), a replayed one takes the interval (sbsm.c:267) and
the new one after it that too; and any other player may cut the way short
(`CutShort`), since on one axis of the plane nobody is known to be out of the
way.  `Ways` are all ways there may be, and a tick takes one of them.
`move_bot` puts bots anywhere.  Here bullets and guns are reduced to what they
do to player snapshots: a busy gun makes its owner dirty, a bullet may kill,
which deletes the victim's snapshots and respawns it.

`SbsmTrajectory` adds the inputs filed per tick (`hist`) and where the last
simulation of each tick left each player (`course`).  `InputsReplayed` says of a
settled server that a player is where the last tick left it, that every tick
began where the one before ended and went a way its input leads (`Leads`), and
that the last filed input is in force.  A replay need not take a player where
the first simulation would have, since it measures no time and others may
stand elsewhere; what the ring owes is that the ticks join and that each has
its input.  Even that has exceptions, and the module names what breaks the
promise, by the tick that left each snapshot as it is (`taken`):

* a rollback to a snapshot with an input the player has replaced since takes
  the newer one back (`Overtaken`: `sbsm_rewind_player` applies dirty inputs
  only, and a snapshot is dirty once);
* a player without a snapshot of the tick rolled back to is replayed from where
  it is, with the input it has: harmless if neither has changed since (`Moved`,
  `Turned`);
* a backfilled snapshot, or one the input handler made of the present, began
  elsewhere than its own tick did (`Displaced`);
* a kill respawns a player and forgets inputs that wait, and `move_bot` puts a
  bot somewhere.

### InputLog, SbsmLog

`InputLog` is what the ring is for, without a ring: a log of the last `Depth`
ticks in which inputs are filed while it is open, a round that replays the ticks
in order, each filed one once, and a new tick only when none waits.  `SbsmLog`
instantiates it: `Depth` is `Size`, a dirty snapshot is a filed tick
(`seq - Behind(s)` is a slot's tick), the log is open while `pc` is `idle`.
`ImplementsLog` is the abstract specification as a property of the ring.

### Combat

Every player starts in a column of its own, moves between two lanes, and shoots
bullets that fly one column a tick; only `move_bot` takes a player to another
column, any of `Cursors`, which may be a block or beyond the map, and there two
players may be in each other's way (`Barred`); a tick is `Tick`, cut into a
rewind's ticks of players and of bullets.  `bss[s][b]` are the bullet snapshots,
`hit` in them what `collided` is; a player's record has the gun, ammo and reload
a snapshot carries, and the cells it is listed in (`cell`).  `late`, `told`,
`placed`, `ahead`, `astray`, `crossed`, `undone`, `hurt` and `from` are history:
whose first datagram came after bullets for it, what the other clients were told
of a player's ammo, who was put somewhere without its cells, which way a player
went when they were set, whether a bot was put beyond the map or into a block,
whose gun a rollback mixed up, hits taken back, hits that hurt, and whether the
last rewind began at the base. Bullets pushed by reference into the frame memory
(`mmframes`) are used at the flush; to use one that was freed ends the behaviour
(`end`).

The properties name what the code gets wrong, and nothing else in the model does
it: health is not rolled back, so a hit a rewind takes back hurts again
(`HurtOnce`); `sbsm_snapshot_to_player` gives a gun the ammo of another one
(`AmmoKnown`); a player that moves is listed where the same move would take it
next, since `cg_player_get_cells` adds the velocity to a position that has it
already (coregame.c:520), and joins, rollbacks, respawns and `move_bot` leave it
in the cells it had, so bullets miss it (`CellsFollow`); a bullet that leaves an
open map, that a bot beyond the map or in its wall shoots, or that a late client
is told of, is used after it was freed (`UndefinedExplained`).

### BulletPath

One bullet, its walk (`cg_get_cells_2points`) with the quotients IEEE arithmetic
would give, infinities and NaN included, and its ray against the blocks and
bodies of the cells collected (`cg_ray_collision_test`).  The reference
definition is the line itself, at points finer than the grid.  `Blind` names the
walks that go wrong: along an axis across a grid line (the unused axis has an
infinite step and the end is never met), right and up into a grid corner, and
from the far edges of the map.  Each of its parts was seen to be needed: without
any one of them TLC finds a counterexample.  A bullet with no velocity at all
(the cursor exactly on the player) is excluded by `VelocityAssumption`.

### ServerLoop

A connection is its `client_t` and its `event_t`.  `pc` is where `server_run`
is, `batch` what epoll returned.  `current` is the clock of the last tick,
`now` the time of day in ticks.  `heard`, `lag`, `closed` and `undefined` are
history.  A use of a freed `client_t` may end the program or not, and is noted
in `undefined`.  A server with clients ticks before time goes on (`Pass`): it is
assumed to keep up with its tickrate.  A server without clients waits in epoll
without a timeout and does not tick, although README.md:17 calls it
"non-sleeping"; what follows is the finding below.

### Roster

Connections are numbers, also their sessions and UDP sockets.  `table` is
`server->clients` in the order of the event list, `chan[k]` the packets on
their way to the client of `k`; the messages pushed together (SESSION_ID,
CG_MAP, UDP_INFO, GUN_SPEC, NEW_PLAYER) travel as one packet (`Welcome`), as
`ssp_tcp_send_io` sends them.  `pings` and `replies` are sets that are never
emptied: a datagram may be read late, again, or never.  A server that dies
loses its memory, and any client's unread packets may be lost with it.  `port`
is the server's: a user may give any, but `do_reconnect` has the address without
it and tries the default one (`Reaches`), where the model has no other server.

### Play

One client and one server over several sessions.  `held` are the keys that are
down, `game.input` the bits the client makes of them, `own` its prediction,
`server` what the server has; `up`, `down`, `tcpUp`, `tcpDown` and `pushed` are
the channels.  An input segment carries the flags of the flush, not those of the
push (`ssp_segbuf_add_i` with a hook).  Of the ring `server` has what matters to
one player: the inputs its records may hold (`records`), and the one filed last
(`next`), which the next `coregame_update` replays, or not: a rollback for
somebody else's late input restores any record's, and a kill deletes them all.
`odd`, `unheard` and `lost` are history: a key parted from its bit; why the server
has another input (`refused`, `undone`, `killed`, or not sent); a switch that went
with a session.

### ClientApp

The program is one record `c`, and a function of the code an operator from such
records to such records, since the functions call each other three and four
deep.  A pointer into the array of fd events is the number of its slot; a slot
past the end still holds what was in it last.  `pc` is `poll`, `batch` or
`update`.  `c.past` is history (reconnects, hangups, a second click of Connect, a
cleanup of the wrong state) and `c.end` names undefined behaviour: a NULL menu
or player, a freed name, a pointer into an array that moved, a read that blocks
for ever.

### MapEditor

`maps` is the hash table.  A header read from disk is filed under the hash of its
path without the extension (`strtok` has cut it), a new one under its id, a saved
one under its whole path.  Whether `ght_insert` replaces a value is not in this
repository: `replaces` is either.  A failed save empties the file (`spoiled`);
saving over another map's file is `over`.

### Renderer

`ren.queue[b]` is what waits in a batch object and the view it was queued under,
`ren.given` the matrices its shader has, `ren.shown` what was drawn.  A frame is
drawn rectangle by rectangle in the order of the three states' update functions;
packets and window events come between frames.  A headless client has no OpenGL,
and each call of it is the end.

## Runs

| run | question | bounds and why they are enough |
|---|---|---|
| `snapshot_ring` | is the ring aligned, is no input lost, does a rewind end, is it a log? | 3 slots, 5 ticks: the ring turns, base and present wrap, a slot is reused; 2 time units a tick: times between ticks; 2 players, 2 inputs, 2 of them sent, on a line of one place (where players stand is the matter of `trajectory`): two in one slot (its limit) and one elsewhere, or one player's against another's |
| `trajectory` | do late inputs count as if in time? | 3 slots, 4 ticks, so the base moves on once, 3 inputs or moves of bots: one input overtaken by a later one and taken back by another's; a line of two places, so that walls are met, and new ticks of no length or one, so that a replay goes elsewhere. Deaths, knockback and longer runs are in the proof |
| `event_loop` | who uses freed memory, who is closed, does a signal stop it? | 1 client, threshold 2, period 3, clock to 10: three periods and more than threshold + period; batches of 5 hold every socket. More clients are covered by the proofs |
| `idle_clock` (violated) | is whoever is closed for inactivity inactive for the threshold? | the same instance; the finding below |
| `roster` | do clients know the server's players? | 2 clients, 3 joins, 1 fault (timeout, signal or crash) with restart: a reconnect while another joins, leaves or reconnects; a server on the default port or another |
| `session` | does a client whose session is lost get a new one? | 1 client, 2 joins, 2 faults: a reconnect that is lost again; both kinds of port |
| `client_app` | does every event reach its socket, is what was left cleaned up? | an array of 4 fd events (the window's, TCP, UDP, and one more before it moves), 3 clicks, 5 messages: enough to join, leave and join again, and for a hangup in a batch with a reconnect |
| `combat` | which hits count twice, which ammo is unknown, what is freed in use? | 2 players, 2 guns with 1 and 2 rounds, 2 bullets, reload of 2 ticks, 3 slots, 6 columns with a block at the right end and open at the left, a bot taken into the shooter's column: a bullet lives for longer than the ring, hits, collides, and is rolled back at every age |
| `bullet_path` | is all that is in a bullet's way tested? | every start and every velocity up to a cell and a half a tick on 3x3 cells, with two blocks and three bodies: all slopes of the walk, along and across grid lines and corners, and the map's edges |
| `map_editor` | does a file hold what was saved, is it listed once? | 2 names, 1 cell of 3 types, 2 headers: a rename, a save over another file, a failed save, an id and a path for one header |
| `play` | do client and server agree on input, gun and modes? | 2 guns, 4 events of the user, faults, rollbacks or kills: a change, its refusal, a loss and a change again. More by the proofs |
| `renderer` | is everything drawn by its object, under its view? | buffers of two rectangles: flushes in mid-frame; 2 cameras, zooms and windows: a view that differs |

The bounds named in the modules (`MaxSeq`, `MaxSent`, `MaxTime`, `MaxJoins`,
`MaxFaults`, `MaxBullets`, `MaxAsks`, `MaxClicks`, `MaxSends`) guard only steps of
the environment or the number of ticks; where they stop the system, runs have
`CHECK_DEADLOCK FALSE`.  Programs that ended (`down`) stop as well.

What the passing runs show:

* `Sbsm`: `WindowAligned` (the slot b behind the present holds the tick b ago),
  `FiledCovered` (no filed input is older than the next rollback, or behind the
  cursor of a running one; a snapshot remembers nobody who left), `InputOrder`,
  `FiledInputTakenUp` (an input leaves the ring by being replayed, or with its
  player), `RewindEnds`, `ImplementsLog`; `InputsReplayed` with its exceptions.
* `ServerLoop`: `ClosedForSilence` and `SilentClientsGo` are the two halves of
  the routine check; `UndefinedExplained` names the only ways a freed client is
  used: a client closed by the routine check, whose event stays in the list, or
  one closed for an invalid packet; `SignalStops`.
* `Roster`: `RosterAgrees`, up to the ghosts a reconnect keeps; `CrashesExplained`
  (a departure told to a connection not in the game yet; the freed
  `save_username`); `SessionRecovered`, but for a refused connect, a second
  loss before the welcome, or a server on another port than the default.
* `ClientApp`: `LeftStateCleaned`, `SocketsKept`, `UndefinedExplained`; `Combat`,
  `BulletPath`: see above, and `CollidedGo`, that no collided bullet stays for ever.
* `MapEditor`: `FilesHoldSaves`, `ListedOnce`; `Play`: `KeysHeld`,
  `ServerHearsInput`, `GunAgrees`, `ModesAgree`; `Renderer`: `DrawnAsQueued`, `LiveOnly`.

A property with an exception names the events that lead to it, as history
variables of the model, and so says also that nothing else does.

### Fairness

* `Sbsm`: weak fairness of the steps of `coregame_update`: `server_run` calls it
  again and again and nothing suspends it.
* `ServerLoop`: weak fairness of the server's thread as a whole, nothing of the
  world.  epoll returns all that is readable in the instance; with more
  sockets than `MAX_EVENTS` the kernel's ready list rotates, which the model
  (any subset) does not know, so a smaller batch could starve the signal in
  the model only.
* `Roster`: weak fairness of each client's and server's socket handlers (both
  poll all their sockets), of handshakes, and of pings and their answers: a
  client pings every second, and not all datagrams are lost.  None of users,
  faults or restarts.
* `Combat`: the server keeps ticking until it is down, as `server_run` does while
  it has clients.  Without any, epoll waits with no timeout (server.c:475) and
  no tick need follow; nothing is assumed of the clients.
* `SbsmTrajectory`, `Play`, `ClientApp`, `MapEditor`, `Renderer` and `BulletPath`
  are checked for safety only.

### Finding

`idle_clock`: `accept_client` stamps a client with the start of the last
tick.  Without clients the server sleeps without a timeout and that clock
stands still; the next tick moves it on, and a routine check before the
client's next packet closes a client that has just connected.  The help
text calls this "inactivity (no packets received)".  `ClosedForSilence` holds
with that exception, so that no other way to lose an active client exists in
the model.

## Theorems

They hold for every value of the constants, and without the bounds of the runs.

`SbsmProofs`, for every ring size, interval, set of players and inputs:

* `RingInvariant`: indices, timestamps and the distance of the base from the
  present.  It is inductive by itself; its core is that `Behind`, the distance
  from the present, of every slot but the reused one grows by one in
  `sbsm_rotate`.  `WindowInvariant` (`WindowAligned`) follows.
* `LookupInvariant`: from it, `sbsm_lookup` finds the right slot for every time
  (`LookupFindsTick`), with the facts about division and remainder it needs as
  lemmas.
* `TypeInvariant`: `TypeOK`.
* `FiledInvariant`: the ring invariant with what is pending, the order of inputs,
  the players who left and where the cursor may be; `CoveredInvariant`
  (`FiledCovered`) and `OrderInvariant` (`InputOrder`) follow.  None of its parts
  is inductive alone: that the rewind leaves no filed input behind needs that it
  started at the oldest one and that distances in the ring order the
  timestamps, which is the ring invariant.
* `TakenUpStep`: the action property `FiledInputTakenUp`.
* `LogImplemented`: the refinement `ImplementsLog`.  Every step of the ring maps
  to a step of the log or a stutter; that slots are different ticks
  (`TickInjective`) comes from the ring invariant.
* `TrajectoryInvariant` (`InputsReplayed`): for any lengths of ticks and any
  knockback, the promise of the ring with its exceptions.  `HistoryOnly` shows
  that the history only watches, so all the above holds meanwhile; `TraceInvariant` is what is inductive.  It places
  every player in game and every snapshot on the course: what is on file is the
  difference between the inputs sent and the inputs replayed (`FilingOf`); a
  snapshot behind the rewind is of its tick or an earlier one (`TakenOf`); a
  clean player is where the last tick left it, or in the middle of a rewind where
  the tick before the next did, every snapshot starts where the tick before its
  own ended, and every tick that is not to be replayed joins the one before and
  goes a way its input leads (`PlaceOf`); a kept player has its last input when
  nothing is on file, and so has every snapshot taken since (`KeptOf`).  The case
  that needs care is `RollbackPlace`: inputs sent and replayed agree before the
  oldest change, and each part of `Misplaced` excludes one way for the snapshot
  not to be on the course.  That a tick replayed elsewhere than it was first does
  no harm is because the rewind replays every tick after it as well.

`PlayProofs`, for any guns and any number of sessions: `TypeInvariant`,
`KeysInvariant`, `InputInvariant`, `GunInvariant`, `ModesInvariant`.  What the runs
check speaks of empty channels only and is not inductive.  The invariant adds
what holds on the way there: what the last segment of its kind in a channel says
is what its sender has, and if there is none the receiver has it already, or for
an input has it on file, as `next`, unless `unheard` says why not.

`MapEditorProofs`, for any names, cells and headers: `TypeInvariant`,
`FilesInvariant` (`FilesHoldSaves`), `ListInvariant` (`ListedOnce`).  The
invariant adds that a header is in the table under one key: its id until it has
a path, never after.

`ServerLoopProofs`, for any number of connections, any batch, threshold and
period: `TypeInvariant`, `FreedInvariant` (`UndefinedExplained`), `SilenceCloses`
(`ClosedForSilence`).  The invariant adds that a connection not accepted yet is
neither in the list nor in the table, so that its event enters the list once,
that what is left of a batch still has its events, and that a client's stamp is
behind the time of its last packet by exactly the lag the history remembers.
`SilenceEnds` (`SilentClientsGo`) is about a server that keeps up with the clock,
which is the hypothesis of the property itself: between two rounds of the timer
a silence exceeds the threshold by at most the time since the last round and a
tick (`Rounds`), and the round that ends it is due before the bound is passed.

`CombatProofs`, for any lanes, guns, players and ring: `TypeInvariant`,
`RecordInvariant` (`BulletsOnRecord`), `HurtInvariant` (`HurtOnce`),
`AmmoInvariant` (`AmmoKnown`), `CellsInvariant` (`CellsFollow`),
`FreedInvariant` (`UndefinedExplained`).  The invariant adds that what a
rollback puts back is on a lane or next to one, that unless a bot was put
`astray` all is in the map, that the parts of an update walk their lists inside
them, that an id not handed out yet is in no snapshot, which snapshot records a
bullet that is in flight, and what of a gun the client is still to be told.

`RosterProofs`, for any finite set of clients and any bounds on joins, faults and
channels: `TypeInvariant`, `RosterInvariant` (`RosterAgrees`), `CrashInvariant`
(`CrashesExplained`).  `RosterAgrees` is about empty channels and is not
inductive.  The invariant says instead what may be in a channel and in which
order at each stage of a connection: one welcome, nobody announced before it, no
departure of one's own player; and that the roster a client will have when it
has read its queue (`After`) is the server's.  That ids handed out are new until a
restart, and that reuse after it is harmless, needs a count: no more ids are used
than connections were made.

`RendererProofs`, for any buffer size, windows and objects: `TypeInvariant`, which
includes that a buffer is never overfull, `DrawnInvariant` (`DrawnAsQueued`),
`LiveInvariant` (`LiveOnly`).  First, each operation on the batches keeps a
renderer `Sound`: its room, the lists and matrices, the queue against what was
shown.  Then, where the frame is: which objects may hold something at each part
of it, which is bound, that the objects follow the states initialised, and that
a switch never leads to the state left last, so that a cleanup never deletes what
is in use.

`ClientAppProofs`, for any order and number of clicks, messages and events:
`TypeInvariant`, `StateInvariant` (`LeftStateCleaned`), `SocketsInvariant`
(`SocketsKept`), `UndefinedInvariant` (`UndefinedExplained`).  None of them is
inductive.  The invariant says which entries the table of fd events has: exactly
those of the connection as long as one was made at a time (`Regular`), and, when
Connect was clicked twice, still the datagram socket last and the TCP socket
that waits as the only one of its number, as long as no hangup closed a socket
under the program (`LastUdp`).  It says of each event that a batch still holds
(`Fit`) that its slot has the socket epoll meant, or that a game was left since,
and of two events (`Alone`) that they are of different sockets.  The proof
follows the code: a lemma for each function says what it leaves alone and that a
sound client (`Fine`) stays sound or ends for a named reason; then each part of
`handle_event` leaves the rest of the batch `Fit`.

They rest on the named assumptions of the modules, which every run evaluates: a
ring of at least one slot (what `tickrate / 4` gives from four ticks a second
on), an interval of at least one unit, walls around the spawns, `NoName` no name,
finitely many clients, buffers with room for two quads, an interface with a window,
an array of three or four fd events (the code has four; a larger one would hold
the entries of a second connection and not move), a run of at least one tick.

Only model-checked: liveness (`RewindEnds`, `SignalStops`, `SessionRecovered`,
`CollidedGo`) and `ENABLED` are out of the prover's reach.
The geometry of `BulletPath` (`WayTested`, products of variables) has no proof.

## Not modelled

* Floating point rounding: times and positions are integers, so that the drift
  of `sbsm->time` and rounding in `sbsm_index` are outside.  (`BulletPath` has the
  divisions by zero.)
* Of a gun: charging and the pause between shots; knockback is a choice in `Sbsm`
  and not in `Combat`.
* Who is in whose way: in `Sbsm` any other player may cut a way short by any
  part, in `Combat` one in the same column may bar it or not.
* How far a replayed tick may stray from the one it replaces (measured time
  against the interval, others elsewhere): `InputsReplayed` allows any such way.
* The frame memory (`mmframes`) that is recycled at the end of a tick with what a
  client without UDP still refers to: `Combat` has the bullets, freed one by one.
* File descriptors that are used again after a routine check closed a socket.
* Writes that fail once the file is open (cg_map.c:250 does not look), and names
  of maps with dots in them.
* A second server at the default port, where `do_reconnect` may end.
* On the client: interpolation and reconciliation of other players, movement
  packets, chat's text, cursors, the statistics windows, the window toolkit
  (`gui.c` is an adapted Nuklear backend), pixels and textures.
* Arguments of the command lines, `sendmmsg` failing, the Windows code, the
  layouts of messages in `lib/netdef` (the serialisation is SSP's).
* `cg_map_resize` returns at once in every build, since nothing sets
  `editor_mode`; `cg_map.c`'s edge pool is commented out.
* SSP, ght, cutils and the window library are submodules and external; glad,
  stb_image and Nuklear are vendored.

## Plan

1. The client's prediction: `coregame_interpolate_player` and `game_player_move`
   against the server's moves, delayed and reordered.
2. A gun's charge, cooldown and knockback in `Combat`, with the fields a
   snapshot carries.
3. Statistics and chat in `Play`.
