-------------------------------- MODULE Roster --------------------------------
(***************************************************************************)
(* Who is in the game: the server's players (server_game.c, server.c) and  *)
(* what every client makes of the packets it is sent (client_net.c,        *)
(* game_net_events.c), through joins, departures, lost sessions and        *)
(* restarts of the server.                                                 *)
(*                                                                         *)
(* A connection is a number, used once; its session is that number too.    *)
(* TCP delivers the server's packets in order until the client closes its  *)
(* end; UDP may lose, repeat and delay.  The UDP socket goes with the      *)
(* connection, so what is sent to an old one is never read.  A client      *)
(* sends its CONNECT once per connection, when the handshake is over.      *)
(* The server listens on the default port or, by its options, on another,  *)
(* which the address given in the menu then names.                         *)
(* Use of memory that was freed, or of a game that is not there, is        *)
(* undefined behaviour: the client goes on, or it crashes.                 *)
(***************************************************************************)
EXTENDS Integers, Sequences, FiniteSets

CONSTANTS
  Clients,       \* client programs
  MaxJoins,      \* bound: connections made from the menu
  MaxFaults      \* bound: sessions timed out and times the server stops

ASSUME BoundAssumption == MaxJoins \in Nat /\ MaxFaults \in Nat /\ IsFiniteSet(Clients)

\* no more than these: only a fault makes clients reconnect
Conns == 1..(MaxJoins + MaxFaults * Cardinality(Clients))
NoConn == 0
NoPlayer == 0

VARIABLES
  port,       \* the server's: default or other
  mode,       \* the server: up, stopping (server_cleanup) or down
  table,      \* server->clients, in the order they were accepted
  pidOf,      \* client->player of a connection
  player_id_seq,
  backlog,    \* connections the kernel made and the server has not accepted
  requests,   \* connections with a CONNECT the server has not read
  chan,       \* packets to the client of a connection
  pings,      \* sessions of the datagrams sent to the server
  replies,    \* connections whose UDP socket was sent a DO_RECONNECT
  screen,     \* a client's state: menu, game or crashed
  net,        \* its TCP connection
  phase,      \* of that: idle, connecting, made (by the kernels), connected,
              \* or ready (UDP_INFO is here)
  roster,     \* its game->cg.players
  own,        \* its game->player
  saved,      \* its app->save_username: unset, set or freed
  kept,       \* players it held on to when it last reconnected
  used,       \* connections made, for their numbers
  joins,      \* those made from the menu, for the bound only
  faults      \* counted for the bound only

serverVars == <<port, mode, table, pidOf, player_id_seq, backlog, requests>>
wireVars == <<chan, pings, replies>>
clientVars == <<screen, net, phase, roster, own, saved, kept>>
vars == <<serverVars, wireVars, clientVars, used, joins, faults>>

Listed == {table[i] : i \in DOMAIN table}
Joined == {k \in Listed : pidOf[k] # NoPlayer}
Players == {pidOf[k] : k \in Joined}

Init ==
  /\ port \in {"default", "other"}
  /\ mode = "up"
  /\ table = <<>>
  /\ pidOf = [k \in Conns |-> NoPlayer]
  /\ player_id_seq = 0
  /\ backlog = {} /\ requests = {}
  /\ chan = [k \in Conns |-> <<>>]
  /\ pings = {} /\ replies = {}
  /\ screen = [c \in Clients |-> "menu"]
  /\ net = [c \in Clients |-> NoConn]
  /\ phase = [c \in Clients |-> "idle"]
  /\ roster = [c \in Clients |-> {}]
  /\ own = [c \in Clients |-> NoPlayer]
  /\ saved = [c \in Clients |-> "unset"]
  /\ kept = [c \in Clients |-> {}]
  /\ used = 0 /\ joins = 0 /\ faults = 0

-------------------------------------------------------------------------------
(* Packets.  What is sent to a client that closed its end goes nowhere. *)

Welcome(pid, others) == [type |-> "welcome", pid |-> pid, others |-> others]
NewPlayer(pid) == [type |-> "new", pid |-> pid]
DeletePlayer(pid) == [type |-> "delete", pid |-> pid]
Shutdown == [type |-> "shutdown"]

Sent(to, m, ch) ==
  [k \in Conns |->
     IF k \in to /\ \E c \in Clients : net[c] = k THEN Append(ch[k], m) ELSE ch[k]]

-------------------------------------------------------------------------------
(* The client: connecting. *)

main_menu_connect(c) ==
  /\ screen[c] = "menu" /\ net[c] = NoConn
  /\ joins < MaxJoins /\ joins' = joins + 1
  /\ used' = used + 1
  /\ net' = [net EXCEPT ![c] = used + 1]
  /\ phase' = [phase EXCEPT ![c] = "connecting"]
  /\ UNCHANGED <<serverVars, wireVars, screen, roster, own, saved, kept, faults>>

(***************************************************************************)
(* client_net_parse_address: the menu's address names the server's port,   *)
(* but do_reconnect's, from within the game, is the IP address alone and   *)
(* so means the default port, where no other server is.                    *)
(***************************************************************************)
Reaches(c) == port = "default" \/ screen[c] = "menu"

\* the kernels shake hands; the client learns of it later
Handshake(c) ==
  /\ phase[c] = "connecting"
  /\ mode # "down" /\ Reaches(c)
  /\ phase' = [phase EXCEPT ![c] = "made"]
  /\ backlog' = backlog \cup {net[c]}
  /\ UNCHANGED <<port, mode, table, pidOf, player_id_seq, requests, wireVars,
                 screen, net, roster, own, saved, kept, used, joins, faults>>

(***************************************************************************)
(* client_net_on_connect: send CONNECT under the name saved by the last    *)
(* reconnect, which is freed and never unset.                              *)
(***************************************************************************)
tcp_write_connect(c) ==
  /\ screen[c] # "crashed"
  /\ phase[c] = "made"
  /\ \/ /\ phase' = [phase EXCEPT ![c] = "connected"]
        /\ requests' = requests \cup ({net[c]} \cap (backlog \cup Listed))
        /\ saved' = [saved EXCEPT ![c] = IF @ = "unset" THEN @ ELSE "freed"]
        /\ UNCHANGED screen
     \/ /\ saved[c] = "freed"
        /\ screen' = [screen EXCEPT ![c] = "crashed"]
        /\ UNCHANGED <<phase, requests, saved>>
  /\ UNCHANGED <<port, mode, table, pidOf, player_id_seq, backlog, wireVars,
                 net, roster, own, kept, used, joins, faults>>

\* refused, or reset before it was noticed; a client in the game stays there
tcp_error(c) ==
  /\ screen[c] # "crashed"
  /\ \/ phase[c] = "connecting" /\ (mode = "down" \/ ~Reaches(c))
     \/ phase[c] = "made" /\ net[c] \notin backlog \cup Listed
  /\ net' = [net EXCEPT ![c] = NoConn]
  /\ phase' = [phase EXCEPT ![c] = "idle"]
  /\ chan' = [k \in Conns |-> IF k = net[c] THEN <<>> ELSE chan[k]]
  /\ UNCHANGED <<serverVars, pings, replies, screen, roster, own, saved, kept,
                 used, joins, faults>>

(***************************************************************************)
(* game_cleanup, on the way back to the menu: the game is gone and the     *)
(* connection closed.                                                      *)
(***************************************************************************)
game_cleanup(c) ==
  /\ screen' = [screen EXCEPT ![c] = "menu"]
  /\ roster' = [roster EXCEPT ![c] = {}]
  /\ own' = [own EXCEPT ![c] = NoPlayer]
  /\ kept' = [kept EXCEPT ![c] = {}]
  /\ net' = [net EXCEPT ![c] = NoConn]
  /\ phase' = [phase EXCEPT ![c] = "idle"]
  /\ chan' = [k \in Conns |-> IF k = net[c] THEN <<>> ELSE chan[k]]

LeaveGame(c) ==
  /\ screen[c] = "game"
  /\ game_cleanup(c)
  /\ UNCHANGED <<serverVars, pings, replies, saved, used, joins, faults>>

-------------------------------------------------------------------------------
(***************************************************************************)
(* The client: packets on TCP.                                             *)
(***************************************************************************)
Receive(c, type) ==
  /\ screen[c] # "crashed"
  /\ net[c] # NoConn /\ phase[c] \in {"made", "connected", "ready"}
  /\ chan[net[c]] # <<>> /\ Head(chan[net[c]]).type = type

Packet(c) == Head(chan[net[c]])

Taken(c) == chan' = [chan EXCEPT ![net[c]] = Tail(@)]

(***************************************************************************)
(* session_id, udp_info and game_new_player, as they come together: into   *)
(* the game, if the client is not in it yet, and everybody added.          *)
(***************************************************************************)
welcome(c) ==
  /\ Receive(c, "welcome")
  /\ Taken(c)
  /\ screen' = [screen EXCEPT ![c] = "game"]
  /\ roster' = [roster EXCEPT ![c] = @ \cup Packet(c).others \cup {Packet(c).pid}]
  /\ own' = [own EXCEPT ![c] = Packet(c).pid]
  /\ phase' = [phase EXCEPT ![c] = "ready"]
  /\ UNCHANGED <<serverVars, pings, replies, net, saved, kept, used, joins, faults>>

game_new_player(c) ==
  /\ Receive(c, "new")
  /\ Taken(c)
  /\ IF screen[c] = "game"
     THEN /\ roster' = [roster EXCEPT ![c] = @ \cup {Packet(c).pid}]
          /\ UNCHANGED screen
     ELSE /\ screen' = [screen EXCEPT ![c] = "crashed"]
          /\ UNCHANGED roster
  /\ UNCHANGED <<serverVars, pings, replies, net, phase, own, saved, kept, used, joins, faults>>

game_delete_player(c) ==
  /\ Receive(c, "delete")
  /\ Taken(c)
  /\ IF screen[c] = "game"
     THEN /\ roster' = [roster EXCEPT ![c] = @ \ {Packet(c).pid}]
          /\ UNCHANGED screen
     ELSE /\ screen' = [screen EXCEPT ![c] = "crashed"]
          /\ UNCHANGED roster
  /\ UNCHANGED <<serverVars, pings, replies, net, phase, own, saved, kept, used, joins, faults>>

game_server_shutdown(c) ==
  /\ Receive(c, "shutdown")
  /\ game_cleanup(c)
  /\ UNCHANGED <<serverVars, pings, replies, saved, used, joins, faults>>

-------------------------------------------------------------------------------
(* The client: datagrams.  A ping every second once the port is known. *)

client_net_ping_server(c) ==
  /\ screen[c] = "game" /\ phase[c] = "ready"
  /\ pings' = pings \cup {net[c]}
  /\ UNCHANGED <<serverVars, chan, replies, clientVars, used, joins, faults>>

do_reconnect_Own(c) == own                          \* mutant: game->player stays

\* what do_reconnect leaves of game->player
ReconnectedOwn(c) == [own EXCEPT ![c] = NoPlayer]

(***************************************************************************)
(* do_reconnect: a new connection, from within the game and to the default *)
(* port; of the players only its own is forgotten.                         *)
(***************************************************************************)
do_reconnect(c) ==
  /\ screen[c] = "game" /\ phase[c] = "ready"
  /\ net[c] \in replies
  /\ used' = used + 1
  /\ net' = [net EXCEPT ![c] = used + 1]
  /\ phase' = [phase EXCEPT ![c] = "connecting"]
  /\ chan' = [chan EXCEPT ![net[c]] = <<>>]
  /\ roster' = [roster EXCEPT ![c] = @ \ {own[c]}]
  /\ own' = ReconnectedOwn(c)
  /\ kept' = [kept EXCEPT ![c] = roster[c] \ {own[c]}]
  /\ saved' = [saved EXCEPT ![c] = "set"]
  /\ UNCHANGED <<serverVars, pings, replies, screen, joins, faults>>

-------------------------------------------------------------------------------
(* The server. *)

accept_client(k) ==
  /\ mode = "up"
  /\ k \in backlog
  /\ backlog' = backlog \ {k}
  /\ table' = Append(table, k)
  /\ UNCHANGED <<port, mode, pidOf, player_id_seq, requests, wireVars, clientVars, used, joins, faults>>

NextPlayer_Post == player_id_seq                    \* mutant: counted on afterwards

\* the id coregame_add_player hands out
NextPlayer == player_id_seq + 1

broadcast_new_player_All == Listed                  \* mutant: to newcomers, too

\* whom broadcast_new_player tells
broadcast_new_player == Joined

client_tcp_connect(k) ==
  /\ mode = "up"
  /\ k \in Listed \cap requests
  /\ requests' = requests \ {k}
  /\ player_id_seq' = player_id_seq + 1
  /\ pidOf' = [pidOf EXCEPT ![k] = NextPlayer]
  /\ chan' = Sent({k}, Welcome(NextPlayer, Players),
               Sent(broadcast_new_player \ {k}, NewPlayer(NextPlayer), chan))
  /\ UNCHANGED <<port, mode, table, backlog, pings, replies, clientVars, used, joins, faults>>

broadcast_delete_player_None(k) == {}               \* mutant: nobody is told

\* whom broadcast_delete_player tells of the end of k
broadcast_delete_player(k) == Listed \ {k}

Without(q, i) == [j \in 1..(Len(q) - 1) |-> IF j < i THEN q[j] ELSE q[j + 1]]

server_close_client(k, ch) ==
  /\ \E i \in DOMAIN table : table[i] = k /\ table' = Without(table, i)
  /\ pidOf' = [pidOf EXCEPT ![k] = NoPlayer]
  /\ requests' = requests \ {k}
  /\ chan' = IF pidOf[k] = NoPlayer THEN ch
             ELSE Sent(broadcast_delete_player(k), DeletePlayer(pidOf[k]), ch)

\* read_client at the end of the stream
read_client_end(k) ==
  /\ mode = "up"
  /\ k \in Listed
  /\ \A c \in Clients : net[c] = k => screen[c] = "crashed"
  /\ server_close_client(k, chan)
  /\ UNCHANGED <<port, mode, player_id_seq, backlog, pings, replies, clientVars, used, joins, faults>>

\* nothing of the client came through for long enough
server_routine_checks(k) ==
  /\ mode = "up"
  /\ k \in Listed
  /\ faults < MaxFaults /\ faults' = faults + 1
  /\ server_close_client(k, chan)
  /\ UNCHANGED <<port, mode, player_id_seq, backlog, pings, replies, clientVars, used, joins>>

server_verify_session_Quiet(k) == {}                \* mutant: says nothing

\* whom server_verify_session asks to reconnect
server_verify_session(k) == IF k \in Listed THEN {} ELSE {k}

server_read_udp_packet(k) ==
  /\ mode = "up"
  /\ k \in pings
  /\ replies' = replies \cup server_verify_session(k)
  /\ UNCHANGED <<serverVars, chan, pings, clientVars, used, joins, faults>>

(***************************************************************************)
(* server_cleanup after a signal, one client at a time in the order they   *)
(* were accepted; or the process dies, and any client's unread packets     *)
(* with it.                                                                *)
(***************************************************************************)
signalfd_read ==
  /\ mode = "up"
  /\ faults < MaxFaults /\ faults' = faults + 1
  /\ mode' = "stopping"
  /\ UNCHANGED <<port, table, pidOf, player_id_seq, backlog, requests, wireVars, clientVars, used, joins>>

server_cleanup ==
  /\ mode = "stopping"
  /\ IF table # <<>>
     THEN /\ server_close_client(Head(table),
               IF pidOf[Head(table)] = NoPlayer THEN chan
               ELSE Sent({Head(table)}, Shutdown, chan))
          /\ UNCHANGED <<mode, backlog>>
     ELSE /\ mode' = "down"
          /\ backlog' = {}
          /\ UNCHANGED <<table, pidOf, requests, chan>>
  /\ UNCHANGED <<port, player_id_seq, pings, replies, clientVars, used, joins, faults>>

ServerDies ==
  /\ mode # "down"
  /\ faults < MaxFaults /\ faults' = faults + 1
  /\ mode' = "down"
  /\ table' = <<>> /\ backlog' = {} /\ requests' = {}
  /\ pidOf' = [k \in Conns |-> NoPlayer]
  /\ \E lost \in SUBSET {k \in Conns : chan[k] # <<>>} :
       chan' = [k \in Conns |-> IF k \in lost THEN <<>> ELSE chan[k]]
  /\ UNCHANGED <<port, player_id_seq, pings, replies, clientVars, used, joins>>

server_init ==
  /\ mode = "down"
  /\ mode' = "up"
  /\ player_id_seq' = 0
  /\ UNCHANGED <<port, table, pidOf, backlog, requests, wireVars, clientVars, used, joins, faults>>

-------------------------------------------------------------------------------
ClientStep(c) ==
  \/ tcp_write_connect(c) \/ tcp_error(c)
  \/ welcome(c) \/ game_new_player(c) \/ game_delete_player(c) \/ game_server_shutdown(c)
  \/ client_net_ping_server(c) \/ do_reconnect(c)

ServerStep(k) ==
  \/ accept_client(k) \/ client_tcp_connect(k) \/ read_client_end(k)
  \/ server_read_udp_packet(k)

User(c) == main_menu_connect(c) \/ LeaveGame(c)

Faults == signalfd_read \/ ServerDies \/ \E k \in Conns : server_routine_checks(k)

Next ==
  \/ \E c \in Clients : User(c) \/ Handshake(c) \/ ClientStep(c)
  \/ \E k \in Conns : ServerStep(k)
  \/ Faults \/ server_cleanup \/ server_init

(***************************************************************************)
(* Both programs keep polling all their sockets, and the kernels finish    *)
(* handshakes.  A client pings every second as long as it is in the game,  *)
(* and not all of its datagrams, nor all of the answers, are lost.         *)
(***************************************************************************)
Fairness ==
  /\ \A c \in Clients :
       /\ WF_vars(Handshake(c))
       /\ WF_vars(tcp_write_connect(c)) /\ WF_vars(tcp_error(c))
       /\ WF_vars(welcome(c)) /\ WF_vars(game_new_player(c))
       /\ WF_vars(game_delete_player(c)) /\ WF_vars(game_server_shutdown(c))
       /\ WF_vars(client_net_ping_server(c)) /\ WF_vars(do_reconnect(c))
  /\ \A k \in Conns :
       /\ WF_vars(accept_client(k)) /\ WF_vars(client_tcp_connect(k))
       /\ WF_vars(read_client_end(k)) /\ WF_vars(server_read_udp_packet(k))
  /\ WF_vars(server_cleanup)

Spec == Init /\ [][Next]_vars /\ Fairness
-------------------------------------------------------------------------------
Ids == Conns

TypeOK ==
  /\ port \in {"default", "other"}
  /\ mode \in {"up", "stopping", "down"}
  /\ table \in Seq(Conns) /\ pidOf \in [Conns -> Ids \cup {NoPlayer}]
  /\ player_id_seq \in Nat
  /\ backlog \subseteq Conns /\ requests \subseteq Conns
  /\ pings \subseteq Conns /\ replies \subseteq Conns
  /\ screen \in [Clients -> {"menu", "game", "crashed"}]
  /\ net \in [Clients -> Conns \cup {NoConn}]
  /\ phase \in [Clients -> {"idle", "connecting", "made", "connected", "ready"}]
  /\ roster \in [Clients -> SUBSET Ids] /\ kept \in [Clients -> SUBSET Ids]
  /\ own \in [Clients -> Ids \cup {NoPlayer}]
  /\ saved \in [Clients -> {"unset", "set", "freed"}]
  /\ used \in Nat /\ faults \in Nat

Adds(m, p) == (m.type = "welcome" /\ p \in m.others) \/ (m.type \in {"welcome", "new"} /\ p = m.pid)
Drops(m, p) == m.type = "delete" /\ p = m.pid

\* what is left of a roster by the packets of q: whom the last of them about it did not drop
After(q, players) ==
  {p \in Ids : \/ p \in players /\ \A i \in DOMAIN q : ~Drops(q[i], p)
               \/ \E i \in DOMAIN q : Adds(q[i], p) /\ \A j \in DOMAIN q : j > i => ~Drops(q[j], p)}

\* the roster of c once it has read what is on its way to it
Roster(c) == After(chan[net[c]], roster[c])

\* game->player is one of the players in the game
OwnInRoster == \A c \in Clients : own[c] # NoPlayer => own[c] \in roster[c]

(***************************************************************************)
(* A client whose player is in the game will have exactly the server's     *)
(* players in its game once it has read what is on its way -- and, after a *)
(* reconnect, perhaps some it kept from before, who left while it had no   *)
(* session (do_reconnect forgets only the client's own player).  No        *)
(* departure and no reconnect leaves game->player dangling, whatever ids a *)
(* restarted server hands out again.                                       *)
(***************************************************************************)
RosterAgrees ==
  /\ OwnInRoster
  /\ \A c \in Clients : net[c] \in Joined /\ screen[c] # "crashed" =>
       Players \subseteq Roster(c) /\ Roster(c) \subseteq Players \cup kept[c]

(***************************************************************************)
(* Only two things can crash a client: somebody's departure, told to a     *)
(* client that is not in the game yet (broadcast_delete_player tells every *)
(* connection), and a connect after a reconnect (save_username).           *)
(***************************************************************************)
CrashesExplained ==
  [][\A c \in Clients : screen[c] # "crashed" /\ screen'[c] = "crashed" =>
       \/ chan' = chan /\ phase[c] = "made" /\ saved[c] = "freed"
       \/ chan' # chan /\ screen[c] = "menu" /\ Packet(c).type = "delete"]_vars

(***************************************************************************)
(* A client in the game whose session the server lost -- to a timeout, or  *)
(* to a crash and restart -- gets back into it, if the server stays up     *)
(* from then on and listens on the default port, unless its connect was    *)
(* refused while the server was down, it leaves, it crashes, or the new    *)
(* connection too is lost before the client was welcomed: without a player *)
(* it neither pings nor connects again.  On another port its connect goes  *)
(* where no server is, and it is left with none.                           *)
(***************************************************************************)
Lost(c) == screen[c] = "game" /\ phase[c] = "ready" /\ net[c] \notin Listed

Stranded(c) ==
  /\ phase[c] \in {"made", "connected"}
  /\ net[c] \notin backlog \cup Listed /\ chan[net[c]] = <<>>

Back(c) ==
  \/ net[c] \in Joined /\ pidOf[net[c]] = own[c]
  \/ phase[c] = "idle" \/ Stranded(c) \/ screen[c] = "crashed"

SessionRecovered == <>[](mode = "up") => \A c \in Clients : [](Lost(c) => <>Back(c))
===============================================================================
