-------------------------------- MODULE Play --------------------------------
(***************************************************************************)
(* One client's game and what the server keeps of it: the keys held down   *)
(* and the input bits made of them (client/src/game.c), the stats window's *)
(* switches (client/src/game_ui.c), the gun and its ammunition on either   *)
(* side, and the handlers of server/src/server_game.c.                     *)
(*                                                                         *)
(* UDP segments pushed as important and TCP segments are each delivered in *)
(* order and once while a session lasts: that is the ssp library's work,   *)
(* which is not under src/.  A segment with a copy hook gets its contents  *)
(* when the buffer is serialized, so an input segment carries the flags of *)
(* the flush, not those of the push.                                       *)
(*                                                                         *)
(* A session may end while the game goes on: the server restarts or times  *)
(* the client out, and the client connects again (do_reconnect) or leaves  *)
(* for the main menu and joins anew.  What happens between losing one      *)
(* session and having the next is the subject of ClientApp and Roster:     *)
(* here it is one step.                                                    *)
(*                                                                         *)
(* The ring of snapshots is the subject of Sbsm.  Here it is the set of    *)
(* the inputs it may hold of the player, and the one filed last, which the *)
(* next tick replays; whether an input is filed depends on the tick its    *)
(* timestamp falls in, which may be any, and on what is held of that.      *)
(***************************************************************************)
EXTENDS Naturals, Sequences

CONSTANTS
  Guns,     \* ids of the gun specs
  Small,    \* CG_GUN_ID_SMALL
  MaxAsks   \* bound: keys, clicks, shots and sessions counted

ASSUME GunsAssumption == Small \in Guns
ASSUME MaxAsksAssumption == MaxAsks \in Nat

VARIABLES
  held,     \* the keys and buttons that are physically down
  game,     \* client_game_t: chat, menu, input, prev, bot
  app,      \* waapp_t: bot (a command line option), stats (get_server_stats)
  own,      \* the client's own cg_player_t: input, gun, ammo, name
  pushed,   \* segments in net.udp.io, waiting for a flush
  up, down,         \* UDP segments on their way to the server and back
  tcpUp, tcpDown,   \* TCP segments on their way
  server,   \* client_t and its cg_player_t
  odd,      \* bits of the input that have been parted from their keys
  unheard,  \* why the server has another input: refused, undone by a rollback,
            \* killed with the player, or unsent by the client
  lost,     \* settings the server lost with a session
  asks      \* counts what MaxAsks bounds

client == <<held, game, app, own, pushed>>
net == <<up, down, tcpUp, tcpDown>>
vars == <<client, net, server, odd, unheard, lost, asks>>

Bits == {"up", "shoot"}
Ammo == {"none", "some", "full"}

(***************************************************************************)
(* A player of the server is named after the client; name counts the       *)
(* "Bot_" put in front of that.  next is the input filed last, which will  *)
(* be input when it has been replayed; records are the inputs snapshots    *)
(* may hold.  heard: an input was looked up before (last_input_timestamp); *)
(* filed counts the changes made to the record it fell on (dirty_count).   *)
(***************************************************************************)
NewPlayer(name) ==
  [input |-> {}, next |-> {}, records |-> {{}}, heard |-> FALSE, filed |-> 0,
   gun |-> Small, ammo |-> "full", bot |-> FALSE, stats |-> FALSE, name |-> name]

OwnPlayer(name) == [input |-> {}, gun |-> Small, ammo |-> "full", name |-> name]

NewGame == [chat |-> FALSE, menu |-> FALSE, input |-> {}, prev |-> {}, bot |-> app.bot]

Init ==
  /\ held = {}
  /\ app \in [bot : BOOLEAN, stats : {FALSE}]
  /\ game = NewGame
  /\ own = OwnPlayer(0)
  /\ server = NewPlayer(0)
  /\ pushed = <<>> /\ up = <<>> /\ down = <<>> /\ tcpDown = <<>>
  /\ tcpUp = IF app.bot THEN <<[what |-> "bot", on |-> TRUE]>> ELSE <<>>
  /\ odd = {} /\ unheard = {} /\ lost = {} /\ asks = 0

Ask == asks < MaxAsks /\ asks' = asks + 1

Xor(S, b) == IF b \in S THEN S \ {b} ELSE S \cup {b}

\* The bits in which the input differs from the keys held.
Differ(input, keys) == {b \in Bits : b \in input <=> b \notin keys}

-----------------------------------------------------------------------------
(***************************************************************************)
(* Keys and buttons.  While the chat is open every key but escape is       *)
(* ignored, presses and releases alike; mouse buttons are not.             *)
(***************************************************************************)
Pressed(b) == [game EXCEPT !.input = @ \cup {b}]

\* mutant: the release of a key is handled as its press is.
Released_Sets(b) == [game EXCEPT !.input = @ \cup {b}]

Released(b) ==
  CASE b = "up"    -> [game EXCEPT !.input = Xor(@, b)]
    [] b = "shoot" -> [game EXCEPT !.input = @ \ {b}]

Heard(b) == b = "shoot" \/ ~game.chat

Press(b) ==
  /\ b \notin held
  /\ held' = held \cup {b}
  /\ game' = IF Heard(b) THEN Pressed(b) ELSE game
  /\ odd' = IF Heard(b) THEN odd \ {b} ELSE odd \cup Differ(game.input, held')

Release(b) ==
  /\ b \in held
  /\ held' = held \ {b}
  /\ game' = IF Heard(b) THEN Released(b) ELSE game
  /\ odd' = IF ~Heard(b) THEN odd \cup Differ(game.input, held')
            ELSE IF b = "up" THEN odd ELSE odd \ {b}

\* T switches shooting on and off.
HoldFire ==
  /\ ~game.chat
  /\ game' = [game EXCEPT !.input = Xor(@, "shoot")]
  /\ odd' = odd \cup Differ(game'.input, held)
  /\ UNCHANGED held

Enter == /\ ~game.chat
         /\ game' = [game EXCEPT !.chat = TRUE]
         /\ UNCHANGED <<held, odd>>

Escape == /\ game' = IF game.chat THEN [game EXCEPT !.chat = FALSE]
                                  ELSE [game EXCEPT !.menu = ~@]
          /\ UNCHANGED <<held, odd>>

game_handle_key ==
  /\ Ask
  /\ \/ \E b \in Bits : Press(b) \/ Release(b)
     \/ HoldFire
     \/ Enter
     \/ Escape
  /\ UNCHANGED <<app, own, pushed, net, server, unheard, lost>>

(***************************************************************************)
(* Changing the gun: not to the one in hand, nor while it is reloading.  A *)
(* new gun is created, with all its ammunition.  force: without the        *)
(* conditions.                                                             *)
(***************************************************************************)
CanChange(player, id) == player.gun # id /\ player.ammo # "none"
Changed(player, id) == [player EXCEPT !.gun = id, !.ammo = "full"]

game_handle_num_keys(id) ==
  /\ Ask /\ ~game.chat
  /\ CanChange(own, id)
  /\ own' = Changed(own, id)
  /\ pushed' = Append(pushed, [what |-> "gun", id |-> id])
  /\ UNCHANGED <<held, game, app, net, server, odd, unheard, lost>>

\* The hook of a reload tells the server: game_on_player_reload.
Empty ==
  /\ own' = [own EXCEPT !.ammo = "none"]
  /\ pushed' = Append(pushed, [what |-> "reload"])

coregame_player_reload ==
  /\ Ask /\ ~game.chat
  /\ own.ammo # "full"
  /\ Empty
  /\ UNCHANGED <<held, game, app, net, server, odd, unheard, lost>>

\* The client's own simulation of its gun: a shot, the last one perhaps, or
\* the end of reloading.
OwnGunUpdate ==
  /\ \/ /\ Ask
        /\ own.ammo # "none" /\ "shoot" \in own.input
        /\ Empty \/ (own' = [own EXCEPT !.ammo = "some"] /\ UNCHANGED pushed)
     \/ /\ own.ammo = "none"
        /\ own' = [own EXCEPT !.ammo = "full"]
        /\ UNCHANGED <<pushed, asks>>
  /\ UNCHANGED <<held, game, app, net, server, odd, unheard, lost>>

-----------------------------------------------------------------------------
(***************************************************************************)
(* The stats window's switches, which go to the server over TCP at once.   *)
(***************************************************************************)
game_send_bot_mode ==
  /\ game.menu
  /\ game' = [game EXCEPT !.bot = ~@]
  /\ tcpUp' = Append(tcpUp, [what |-> "bot", on |-> game'.bot])
  /\ lost' = lost \ {"bot"}
  /\ UNCHANGED app

AskForStats ==
  /\ game.menu
  /\ app' = [app EXCEPT !.stats = ~@]
  /\ tcpUp' = Append(tcpUp, [what |-> "stats", on |-> app'.stats])
  /\ lost' = lost \ {"stats"}
  /\ UNCHANGED game

game_ui_stats_window ==
  /\ Ask
  /\ game_send_bot_mode \/ AskForStats
  /\ UNCHANGED <<held, own, pushed, up, down, tcpDown, server, odd, unheard>>

(***************************************************************************)
(* A frame: a bot's input is drawn anew from time to time, its movement    *)
(* bits only; an input that differs from the last one is pushed; and when  *)
(* the interval is over all that was pushed is serialized and sent.        *)
(***************************************************************************)
BotInputs == IF game.bot THEN {game.input} \cup SUBSET {"up"} ELSE {game.input}

\* mutant: only a bit that is newly set is news for the server.
Push_NewBits(input) ==
  IF input \subseteq game.prev THEN pushed ELSE Append(pushed, [what |-> "input"])

Push(input) ==
  IF input = game.prev THEN pushed ELSE Append(pushed, [what |-> "input"])

Serialized(segments, input) ==
  [n \in DOMAIN segments |->
     IF segments[n].what = "input" THEN [what |-> "input", flags |-> input]
                                   ELSE segments[n]]

game_update ==
  \E input \in BotInputs, elapsed \in BOOLEAN :
    /\ IF input = game.input THEN UNCHANGED <<odd, asks>>
       ELSE Ask /\ odd' = odd \cup Differ(input, held)
    /\ game' = [game EXCEPT !.input = input, !.prev = input]
    /\ IF elapsed
       THEN /\ up' = up \o Serialized(Push(input), input)
            /\ pushed' = <<>>
       ELSE pushed' = Push(input) /\ UNCHANGED up
    /\ IF input = game.prev THEN UNCHANGED <<own, unheard>>
       ELSE /\ own' = [own EXCEPT !.input = input]
            /\ unheard' = unheard \ {"unsent"}
    /\ UNCHANGED <<held, app, down, tcpUp, tcpDown, server, lost>>

-----------------------------------------------------------------------------
(***************************************************************************)
(* The server's handlers.                                                  *)
(***************************************************************************)
Parted == {"refused", "undone", "killed"}

Takes(flags, changes) ==
  /\ server' = [server EXCEPT !.next = flags, !.records = @ \cup {flags},
                              !.heard = TRUE, !.filed = changes + 1]
  /\ unheard' = unheard \ Parted

Refused(flags) ==
  unheard' = IF flags = server.next THEN unheard \ Parted ELSE unheard \cup {"refused"}

Drops(flags, changes) ==
  /\ server' = [server EXCEPT !.heard = TRUE, !.filed = changes]
  /\ Refused(flags)

\* mutant: a record takes any number of changes.
player_input_Any(flags) ==
  \/ server.heard /\ Refused(flags) /\ UNCHANGED server
  \/ \E changes \in {0, server.filed} :
       \/ flags \in server.records /\ Drops(flags, changes)
       \/ Takes(flags, changes)

(***************************************************************************)
(* coregame_set_player_input_t: a timestamp that goes back is refused.     *)
(* Otherwise the record of its tick -- that of the last input, or another, *)
(* which is new, old or a copy of that -- is compared: it drops the input  *)
(* it has already, whatever is still to be replayed before it, and a third *)
(* change.  A tick without a record of the player takes any.               *)
(***************************************************************************)
player_input(flags) ==
  \/ server.heard /\ Refused(flags) /\ UNCHANGED server
  \/ \E changes \in {0, server.filed} :
       \/ (flags \in server.records \/ changes > 1) /\ Drops(flags, changes)
       \/ changes <= 1 /\ Takes(flags, changes)

\* mutant: a refused change is not answered.
player_gun_id_Silent(id) ==
  IF CanChange(server, id)
  THEN /\ server' = Changed(server, id)
       /\ down' = Append(down, [what |-> "gun", id |-> id])
  ELSE UNCHANGED <<server, down>>

\* A change is echoed to everybody; of a refusal the client is told the gun
\* its player still has.
player_gun_id(id) ==
  /\ server' = IF CanChange(server, id) THEN Changed(server, id) ELSE server
  /\ down' = Append(down, [what |-> "gun", id |-> server'.gun])

player_reload ==
  /\ server' = [server EXCEPT !.ammo = "none"]
  /\ UNCHANGED down

UdpSegment ==
  /\ up # <<>>
  /\ LET segment == Head(up) IN
     CASE segment.what = "input" -> player_input(segment.flags) /\ UNCHANGED down
       [] segment.what = "gun"   -> player_gun_id(segment.id) /\ UNCHANGED unheard
       [] OTHER                  -> player_reload /\ UNCHANGED unheard
  /\ up' = Tail(up)
  /\ UNCHANGED <<client, tcpUp, tcpDown, odd, lost, asks>>

\* mutant: the name is made a bot's again although it is one already.
bot_mode_Always(on) ==
  /\ server' = [server EXCEPT !.bot = on, !.name = IF on THEN @ + 1 ELSE 0]
  /\ tcpDown' = IF on THEN tcpDown ELSE Append(tcpDown, server'.name)

\* Nothing is done when the mode is already the one asked for.
bot_mode(on) ==
  IF on = server.bot THEN UNCHANGED <<server, tcpDown>>
  ELSE /\ server' = [server EXCEPT !.bot = on,
                                   !.name = IF on THEN @ + 1 ELSE @ - 1]
       /\ tcpDown' = Append(tcpDown, server'.name)

want_server_stats(on) ==
  server' = [server EXCEPT !.stats = on] /\ UNCHANGED tcpDown

TcpSegment ==
  /\ tcpUp # <<>>
  /\ LET segment == Head(tcpUp) IN
     IF segment.what = "bot" THEN bot_mode(segment.on)
                             ELSE want_server_stats(segment.on)
  /\ tcpUp' = Tail(tcpUp)
  /\ UNCHANGED <<client, up, down, odd, unheard, lost, asks>>

(***************************************************************************)
(* A tick.  With changes in the snapshots the players are taken back to    *)
(* the oldest of them and replayed: one with a change of its own ends with *)
(* the last of these, but one without keeps, for somebody else's late      *)
(* input, what its record of that tick says, an older input perhaps.  A    *)
(* kill, in the replay or after it, deletes the player's records with all  *)
(* that is still to be replayed (on_player_damaged).  The gun's ammunition *)
(* may be another, which every client is told.                             *)
(***************************************************************************)
Replayed(input, records, ammo) ==
  [server EXCEPT !.input = input, !.next = input, !.records = records \cup {input}, !.ammo = ammo]

GunState(ammo) == [what |-> "state", id |-> server.gun, ammo |-> ammo]

coregame_update ==
  \E input \in server.records, ammo \in Ammo, killed \in BOOLEAN :
    /\ killed \/ input = server.next \/ server.next = server.input
    /\ server' = Replayed(input, IF killed THEN {} ELSE server.records, ammo)
    /\ unheard' = IF input = server.next THEN unheard
                  ELSE unheard \cup {IF killed THEN "killed" ELSE "undone"}
    /\ down' = IF ammo = server.ammo THEN down ELSE Append(down, GunState(ammo))
    /\ IF input = server.next /\ ammo = server.ammo /\ ~killed THEN UNCHANGED asks ELSE Ask
    /\ UNCHANGED <<client, up, tcpUp, tcpDown, odd, lost>>

\* A shot, the last one perhaps: the gun's state goes to every client.  That
\* of a gun that has reloaded does not.
coregame_gun_update ==
  \/ /\ Ask
     /\ server.ammo # "none" /\ "shoot" \in server.input
     /\ \E left \in {"some", "none"} :
          /\ server' = [server EXCEPT !.ammo = left]
          /\ down' = Append(down, GunState(left))
     /\ UNCHANGED <<client, up, tcpUp, tcpDown, odd, unheard, lost>>
  \/ /\ server.ammo = "none"
     /\ server' = [server EXCEPT !.ammo = "full"]
     /\ UNCHANGED <<client, net, odd, unheard, lost, asks>>

-----------------------------------------------------------------------------
(***************************************************************************)
(* The client's handlers.                                                  *)
(***************************************************************************)
game_player_gun_id(id) == own' = Changed(own, id)

game_player_gun_state(id, ammo) == own' = [own EXCEPT !.gun = id, !.ammo = ammo]

UdpAnswer ==
  /\ down # <<>>
  /\ LET segment == Head(down) IN
     IF segment.what = "gun" THEN game_player_gun_id(segment.id)
                             ELSE game_player_gun_state(segment.id, segment.ammo)
  /\ down' = Tail(down)
  /\ UNCHANGED <<held, game, app, pushed, up, tcpUp, tcpDown, server, odd, unheard, lost, asks>>

game_username_change ==
  /\ tcpDown # <<>>
  /\ own' = [own EXCEPT !.name = Head(tcpDown)]
  /\ tcpDown' = Tail(tcpDown)
  /\ UNCHANGED <<held, game, app, pushed, up, down, tcpUp, server, odd, unheard, lost, asks>>

(***************************************************************************)
(* A new session: whatever was on its way is lost, the server has a new    *)
(* player, and client_net_on_connect repeats the command line's bot mode.  *)
(***************************************************************************)
NewSession(name) ==
  /\ Ask
  /\ up' = <<>> /\ down' = <<>> /\ tcpDown' = <<>> /\ pushed' = <<>>
  /\ tcpUp' = IF app.bot THEN <<[what |-> "bot", on |-> TRUE]>> ELSE <<>>
  /\ server' = NewPlayer(name)
  /\ own' = OwnPlayer(name)
  /\ UNCHANGED <<held, app>>

\* The game stays, and so do its bot mode and its last input sent; the player
\* is a new one under the name the old one had.
do_reconnect ==
  /\ NewSession(own.name)
  /\ game' = [game EXCEPT !.input = {}]
  /\ odd' = Differ({}, held)
  /\ unheard' = IF game.prev = {} THEN {} ELSE {"unsent"}
  /\ lost' = {s \in {"bot", "stats", "name"} :
                \/ s = "name" /\ own.name > 0
                \/ s = "bot" /\ game.bot # app.bot
                \/ s = "stats" /\ app.stats}

\* By way of the main menu: the game is a new one, but the wish for the
\* server's stats belongs to the application.
Rejoin ==
  /\ NewSession(0)
  /\ game' = NewGame
  /\ odd' = Differ({}, held)
  /\ unheard' = {}
  /\ lost' = IF app.stats THEN {"stats"} ELSE {}

Next ==
  \/ game_handle_key
  \/ \E id \in Guns : game_handle_num_keys(id)
  \/ coregame_player_reload \/ OwnGunUpdate
  \/ game_ui_stats_window
  \/ game_update
  \/ UdpSegment \/ TcpSegment \/ coregame_update \/ coregame_gun_update
  \/ UdpAnswer \/ game_username_change
  \/ do_reconnect \/ Rejoin

Spec == Init /\ [][Next]_vars

-----------------------------------------------------------------------------
(***************************************************************************)
(* The records have their types, no channel carries a segment of another   *)
(* kind, and a snapshot's record of the player takes two changes at most   *)
(* (dirty_count, coregame.c:902).                                          *)
(***************************************************************************)
Segments ==
  [what : {"input"}, flags : SUBSET Bits] \cup [what : {"gun"}, id : Guns]
    \cup [what : {"reload"}]

TypeOK ==
  /\ held \in SUBSET Bits /\ odd \in SUBSET Bits
  /\ game \in [chat : BOOLEAN, menu : BOOLEAN, bot : BOOLEAN,
               input : SUBSET Bits, prev : SUBSET Bits]
  /\ app \in [bot : BOOLEAN, stats : BOOLEAN]
  /\ own \in [input : SUBSET Bits, gun : Guns, ammo : Ammo, name : Nat]
  /\ server \in [input : SUBSET Bits, next : SUBSET Bits, records : SUBSET SUBSET Bits,
                 heard : BOOLEAN, filed : 0 .. 2, gun : Guns, ammo : Ammo,
                 bot : BOOLEAN, stats : BOOLEAN, name : Nat]
  /\ \A n \in DOMAIN up : up[n] \in Segments
  /\ \A n \in DOMAIN tcpUp : tcpUp[n] \in [what : {"bot", "stats"}, on : BOOLEAN]
  /\ unheard \subseteq Parted \cup {"unsent"}
  /\ lost \subseteq {"bot", "stats", "name"}
  /\ asks \in 0 .. MaxAsks

(***************************************************************************)
(* A bit of the input is set exactly while its key is down, unless the two *)
(* were parted: by the chat swallowing a press or a release, by T, by a    *)
(* bot's drawing, by a new player under a key held down.  The toggling     *)
(* release of a movement key (game.c:108) then sets the bit of a key that  *)
(* is up; pressing the key brings them together again.                     *)
(***************************************************************************)
KeysHeld == Differ(game.input, held) \subseteq odd

(***************************************************************************)
(* When nothing is on its way or to be replayed any more, the server moves *)
(* the player by the input the client's own prediction moves it by, unless *)
(* the last segment was refused (a timestamp that goes back, a third       *)
(* change in one tick, an input its tick had already), or what it said was *)
(* undone by a rollback for somebody else's late input or went with the    *)
(* player's records in a kill; and the prediction is by the bits of the    *)
(* keys, unless prev_input, which a reconnection keeps (game.c:286), hid   *)
(* the change of input.                                                    *)
(***************************************************************************)
InputSettled ==
  up = <<>> /\ pushed = <<>> /\ game.input = game.prev /\ server.next = server.input

ServerHearsInput ==
  InputSettled =>
    /\ unheard \cap Parted # {} \/ server.input = own.input
    /\ "unsent" \in unheard \/ own.input = game.input

(***************************************************************************)
(* When nothing is on its way any more, both sides have the player hold    *)
(* the same gun, whichever changes were refused, overtaken by a state of   *)
(* the old gun, or made again before the first was answered.               *)
(***************************************************************************)
GunAgrees == up = <<>> /\ pushed = <<>> /\ down = <<>> => own.gun = server.gun

(***************************************************************************)
(* When nothing is on its way any more, the server has the bot mode and    *)
(* the wish for stats that the client shows, a player is called a bot once *)
(* if it is one and not at all if it is not, and the client knows it by    *)
(* the server's name; apart from what a lost session took with it, which   *)
(* the next use of the switch mends, except for the name.                  *)
(***************************************************************************)
ModesAgree ==
  tcpUp = <<>> /\ tcpDown = <<>> =>
    /\ "bot" \in lost \/ server.bot = game.bot
    /\ "stats" \in lost \/ server.stats = app.stats
    /\ "name" \in lost \/ server.name = (IF server.bot THEN 1 ELSE 0)
    /\ own.name = server.name

=============================================================================
