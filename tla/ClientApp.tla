------------------------------ MODULE ClientApp ------------------------------
(***************************************************************************)
(* The client's thread: client_net_poll and waapp_state_update in turn     *)
(* (app.c), the array of fd events (client_net.c) and the state machine of *)
(* main menu, game and map editor (state.c, main_menu.c, map_editor.c).    *)
(*                                                                         *)
(* The program is one record, c, and a function of the code is an operator *)
(* from such a record to the next, since the functions call each other     *)
(* three and four deep.  epoll hands out pointers into the array of fd     *)
(* events: a pointer is the number of its slot, and a slot past the end    *)
(* of the array still holds what was in it last.                           *)
(*                                                                         *)
(* Undefined behaviour (a NULL pointer, memory given back) and a read that *)
(* blocks for ever end the behaviour, and c.end says what it was.          *)
(***************************************************************************)
EXTENDS Integers, Sequences, FiniteSets

CONSTANTS
  Capacity,    \* of the array of fd events before it is moved
  MaxClicks,   \* bound: what the user does
  MaxSends     \* bound: messages and datagrams of the server

\* the code has 4; a larger array would not move under a second connection
ASSUME CapacityAssumption == Capacity \in 3..4
ASSUME BoundsAssumption == MaxClicks \in Nat /\ MaxSends \in Nat

VARIABLES
  c,       \* the program, and what the kernel holds for its sockets
  pc,      \* poll, batch, update, or down
  batch,   \* what epoll returned and is not handled yet: slot, flags, and whose
  clicks,  \* user's actions so far, for the bound only
  sends    \* server's messages so far, for the bound only

vars == <<c, pc, batch, clicks, sends>>

States == {"main_menu", "game", "map_editor"}

\* an fdevent_t: the socket and whether it waits to be written
Fdev(kind, sock, write) == [kind |-> kind, sock |-> sock, write |-> write]
Nothing == Fdev("none", 0, FALSE)

\* the server's end and the kernel's buffers of the socket in use
FreshLink == [shake |-> "none", q |-> <<>>, fin |-> FALSE, rst |-> FALSE, err |-> FALSE]

Ended(s) == s.end # "no"

Undefined(s, why) == IF Ended(s) THEN s ELSE [s EXCEPT !.end = why]

-------------------------------------------------------------------------------
(* The array of fd events. *)

\* array_erase: the tail moves down and the memory behind it stays
Erased(mem, n, i) == [j \in DOMAIN mem |-> IF i <= j /\ j < n THEN mem[j + 1] ELSE mem[j]]

FirstOf(s, kind, sock) ==
  {i \in 1..s.count : s.mem[i].kind = kind /\ s.mem[i].sock = sock
     /\ \A j \in 1..(i - 1) : s.mem[j].kind # kind \/ s.mem[j].sock # sock}

client_net_del_fdevent(s, kind, sock) ==
  IF FirstOf(s, kind, sock) = {} THEN s
  ELSE LET i == CHOOSE i \in FirstOf(s, kind, sock) : TRUE
       IN  [s EXCEPT !.mem = Erased(@, s.count, i), !.count = @ - 1]

\* one more than the capacity and the array moves under all pointers to it
client_net_add_fdevent(s, kind, sock, write) ==
  IF s.count = Capacity THEN Undefined(s, "moved")
  ELSE [s EXCEPT !.count = @ + 1, !.mem[s.count + 1] = Fdev(kind, sock, write)]

-------------------------------------------------------------------------------
(* Sockets: s.sock numbers the TCP socket in use, s.st is its state.       *)

ssp_tcp_sock_create(s) ==
  [s EXCEPT !.sock = @ + 1, !.st = "fresh", !.link = FreshLink,
            !.greeted = 0, !.welcomed = FALSE]

\* tcp_close on the slot fd: the socket it names is closed and not replaced
tcp_close(s, fd) ==
  LET e == s.mem[fd]
      d == client_net_del_fdevent(s, e.kind, e.sock)
  IN  IF e.kind # "tcp" THEN Undefined(d, "no_socket")
      ELSE IF e.sock = s.sock THEN [d EXCEPT !.st = "closed"] ELSE d

client_net_udp_init(s) ==
  [client_net_add_fdevent(s, "udp", s.sock, FALSE)
     EXCEPT !.udpSock = s.sock, !.udpFdev = s.count + 1, !.dgrams = <<>>]

udp_close(s) ==
  IF s.udpFdev = 0 THEN s
  ELSE [client_net_del_fdevent(s, "udp", s.udpSock)
          EXCEPT !.udpSock = 0, !.udpFdev = 0, !.dgrams = <<>>]

\* mutants: the new socket is forgotten, the datagram socket is left open
client_net_disconnect_NoSocket(s) ==
  udp_close(IF s.tcpFdev = 0 THEN s ELSE [tcp_close(s, s.tcpFdev) EXCEPT !.tcpFdev = 0])

client_net_disconnect_NoUdp(s) ==
  IF s.tcpFdev = 0 THEN s
  ELSE ssp_tcp_sock_create([tcp_close(s, s.tcpFdev) EXCEPT !.tcpFdev = 0])

client_net_disconnect(s) ==
  udp_close(IF s.tcpFdev = 0 THEN s
            ELSE ssp_tcp_sock_create([tcp_close(s, s.tcpFdev) EXCEPT !.tcpFdev = 0]))

(***************************************************************************)
(* client_net_on_connect: CONNECT is sent with the name saved for a        *)
(* reconnect, or else the menu's; the saved name is freed and kept.        *)
(***************************************************************************)
client_net_on_connect(s) ==
  LET name == IF s.saved = "freed" THEN Undefined(s, "freed_name")
              ELSE IF s.saved = "none" /\ "main_menu" \notin s.ready THEN Undefined(s, "no_menu")
              ELSE s
  IN  [client_net_udp_init([name EXCEPT !.st = "connected", !.greeted = @ + 1])
         EXCEPT !.saved = IF @ = "none" THEN "none" ELSE "freed"]

\* connect(2) of a socket that is connecting or done with it is not up to res
Result(s, res) ==
  IF s.st = "fresh" THEN res
  ELSE IF s.st = "connecting" /\ s.link.shake = "ok" THEN "ok" ELSE "fail"

client_net_async_connect(s, res) ==
  IF Result(s, res) = "fail"
  THEN [s EXCEPT !.run = @ /\ ~s.doConnect, !.link.err = FALSE]
  ELSE LET a == [client_net_add_fdevent(s, "tcp", s.sock, Result(s, res) = "wouldblock")
                   EXCEPT !.tcpFdev = s.count + 1]
       IN  IF Result(s, res) = "wouldblock"
           THEN [a EXCEPT !.st = "connecting", !.link.shake = "syn"]
           ELSE client_net_on_connect(
                  [a EXCEPT !.link.shake = "ok",
                            !.past = IF s.st = "connecting" THEN @ \cup {"twice"} ELSE @])

-------------------------------------------------------------------------------
(* The state machine. *)

game_cleanup(s) == [client_net_disconnect(s) EXCEPT !.game = "none"]

\* waapp_state_cleanup: the state's data is gone until it is entered again
waapp_state_cleanup(s, which) ==
  [(IF which = "game" THEN game_cleanup(s) ELSE s) EXCEPT !.ready = @ \ {which}]

\* exit, init and enter of waapp_state_switch; with an address on the command
\* line the main menu connects whenever it is entered
waapp_state_switch(s, to, res) ==
  IF s.cur = to THEN s
  ELSE LET left == [s EXCEPT !.prev = s.cur, !.pending = @ \/ s.cur = "game",
                             !.game = IF to = "game" /\ "game" \notin s.ready THEN "noplayer" ELSE @,
                             !.ready = @ \cup {to}]
           in == IF to = "main_menu" /\ s.doConnect THEN client_net_async_connect(left, res) ELSE left
       IN  [in EXCEPT !.cur = to]

\* mutant: the state that is current is cleaned, not the one that was left
CleanupPending_Current(s) ==
  IF s.pending THEN [waapp_state_cleanup(s, s.cur) EXCEPT !.pending = FALSE] ELSE s

CleanupPending(s) ==
  IF s.pending
  THEN [waapp_state_cleanup(s, s.prev)
          EXCEPT !.pending = FALSE, !.past = IF s.prev = "game" THEN @ ELSE @ \cup {"misclean"}]
  ELSE s

\* what a click does in the current state's update, or none
Clicked(s, click, res) ==
  CASE click = "quit" -> [s EXCEPT !.run = FALSE]
    [] click = "connect" /\ s.cur = "main_menu" -> client_net_async_connect(s, res)
    [] click = "editor" /\ s.cur = "main_menu" -> waapp_state_switch(s, "map_editor", res)
    [] click = "menu" /\ s.cur = "map_editor" -> waapp_state_switch(s, "main_menu", res)
    [] click = "menu" /\ s.cur = "game" /\ s.game = "player" ->
         waapp_state_switch(s, "main_menu", res)
    [] OTHER -> s

\* a bot moves its player every frame, and has one
waapp_state_update(s, click, res) ==
  CleanupPending(IF s.bot /\ s.cur = "game" /\ s.game # "player"
                 THEN Undefined(s, "no_player") ELSE Clicked(s, click, res))

-------------------------------------------------------------------------------
(* What the sockets bring. *)

\* mutant: the game does not learn which player is its own
Welcome_Stranger(s, res) == [waapp_state_switch(s, "game", res) EXCEPT !.welcomed = TRUE]

\* SESSION_ID, CG_MAP, UDP_INFO, GUN_SPEC and NEW_PLAYER of oneself
Welcome(s, res) ==
  [waapp_state_switch(s, "game", res) EXCEPT !.game = "player", !.welcomed = TRUE]

game_server_shutdown(s, res) ==
  IF "main_menu" \notin s.ready THEN Undefined(s, "no_menu")
  ELSE waapp_state_switch(s, "main_menu", res)

do_reconnect(s, res) ==
  IF s.game # "player" THEN Undefined(s, "no_player")
  ELSE [client_net_async_connect(client_net_disconnect(s), res)
          EXCEPT !.saved = "name", !.game = "noplayer", !.past = @ \cup {"reconnect"}]

udp_pong(s) == IF s.game # "player" THEN Undefined(s, "no_player") ELSE s

tcp_read(s, sock, res) ==
  IF sock # s.sock \/ s.st = "closed" \/ s.link.q = <<>> THEN s
  ELSE LET d == [s EXCEPT !.link.q = Tail(@)]
       IN  IF Head(s.link.q) = "welcome" THEN Welcome(d, res) ELSE game_server_shutdown(d, res)

udp_read(s, sock, res) ==
  IF sock # s.udpSock THEN s
  ELSE IF s.dgrams = <<>> THEN Undefined(s, "blocked")
  ELSE LET d == [s EXCEPT !.dgrams = Tail(@)]
       IN  IF Head(s.dgrams) = "reconnect" THEN do_reconnect(d, res) ELSE udp_pong(d)

tcp_error(s, fd) ==
  IF s.st = "connected" THEN s
  ELSE LET e == s.mem[fd]
           mm == IF "main_menu" \in s.ready THEN s ELSE Undefined(s, "no_menu")
       IN  ssp_tcp_sock_create(client_net_del_fdevent(mm, e.kind, e.sock))

\* a socket closed meanwhile leaves err unset
client_net_fdevent_del_write(s, fd) == [s EXCEPT !.mem[fd].write = FALSE]

tcp_write_connect(s, fd) ==
  IF s.mem[fd].sock # s.sock \/ s.st = "closed" THEN Undefined(s, "unset")
  ELSE client_net_fdevent_del_write(client_net_on_connect(s), fd)

-------------------------------------------------------------------------------
(***************************************************************************)
(* handle_event: each part looks at the slot as the one before left it.    *)
(***************************************************************************)
OnError(s, fd) ==
  [(IF s.mem[fd].kind = "tcp" THEN tcp_error([s EXCEPT !.link.err = FALSE], fd)
    ELSE Undefined(s, "no_close"))
     EXCEPT !.run = @ /\ ~s.doConnect]

OnHangup(s, fd) ==
  IF s.mem[fd].kind = "tcp" THEN [tcp_close(s, fd) EXCEPT !.past = @ \cup {"hangup"}]
  ELSE Undefined(s, "no_close")

OnInput(s, fd, res) ==
  CASE s.mem[fd].kind = "tcp" -> tcp_read(s, s.mem[fd].sock, res)
    [] s.mem[fd].kind = "udp" -> udp_read(s, s.mem[fd].sock, res)
    [] OTHER -> s

OnWritable(s, fd) == IF s.mem[fd].write THEN tcp_write_connect(s, fd) ELSE Undefined(s, "no_write")

Part(s, flag, flags, Handled) == IF flag \in flags /\ ~Ended(s) THEN Handled ELSE s

\* the slot has another socket by now than epoll meant, and one in use
Noted(s, fd, of) ==
  LET e == s.mem[fd] IN
  IF /\ <<e.kind, e.sock>> # <<of.kind, of.sock>>
     /\ \/ e.kind = "tcp" /\ e.sock = s.sock /\ s.st # "closed"
        \/ e.kind = "udp" /\ e.sock = s.udpSock
  THEN [s EXCEPT !.past = @ \cup {"stray"}] ELSE s

handle_event(s, fd, flags, of, res) ==
  IF "ERR" \in flags THEN OnError(Noted(s, fd, of), fd)
  ELSE LET h == Part(s, "HUP", flags, OnHangup(Noted(s, fd, of), fd))
           r == Part(h, "IN", flags, OnInput(Noted(h, fd, of), fd, res))
       IN  Part(r, "OUT", flags, OnWritable(Noted(r, fd, of), fd))

\* what epoll says of a slot; it knows a socket by the first slot it was added in
Flags(s, i) ==
  LET e == s.mem[i] IN
  IF e.kind = "udp" /\ e.sock = s.udpSock THEN {f \in {"IN"} : s.dgrams # <<>>}
  ELSE IF e.kind = "tcp" /\ e.sock = s.sock /\ s.st # "closed" /\ i \in FirstOf(s, "tcp", e.sock)
  THEN {f \in {"ERR"} : s.link.err} \cup {f \in {"HUP"} : s.link.rst}
         \cup {f \in {"IN"} : s.link.q # <<>> \/ s.link.fin \/ s.link.rst}
         \cup {f \in {"OUT"} : e.write /\ s.link.shake \in {"ok", "refused"}}
  ELSE {}

-------------------------------------------------------------------------------
Init ==
  /\ \E bot, doConnect \in BOOLEAN :
     \E res \in {"wouldblock", "ok", "fail"} :
       c = waapp_state_switch(
             [mem |-> [i \in 1..Capacity |-> IF i = 1 THEN Fdev("wayland", 0, FALSE) ELSE Nothing],
              count |-> 1, tcpFdev |-> 0, udpFdev |-> 0, udpSock |-> 0, dgrams |-> <<>>,
              sock |-> 1, st |-> "fresh", link |-> FreshLink, greeted |-> 0, welcomed |-> FALSE,
              cur |-> "none", prev |-> "none", pending |-> FALSE, ready |-> {},
              game |-> "none", saved |-> "none", run |-> TRUE, bot |-> bot,
              doConnect |-> doConnect, end |-> "no", past |-> {}],
             "main_menu", res)
  /\ pc = "poll" /\ batch = <<>> /\ clicks = 0 /\ sends = 0

Go(s, to) ==
  /\ c' = s
  /\ pc' = IF Ended(s) THEN "down" ELSE to

\* epoll_pwait2: what is ready, in any order, and perhaps something of the window's
client_net_poll ==
  /\ pc = "poll" /\ c.run
  /\ \E window \in SUBSET {1} :
     LET hot == window \cup {i \in 2..c.count : Flags(c, i) # {}} IN
     \E order \in [1..Cardinality(hot) -> hot] :
       /\ \A i, j \in 1..Cardinality(hot) : order[i] = order[j] => i = j
       /\ batch' = [i \in 1..Cardinality(hot) |->
                      [fd |-> order[i], of |-> c.mem[order[i]],
                       flags |-> IF order[i] = 1 THEN {"IN"} ELSE Flags(c, order[i])]]
       /\ pc' = IF hot = {} THEN "update" ELSE "batch"
  /\ UNCHANGED <<c, clicks, sends>>

AfterBatch_Leaves == {"poll", "update"}     \* mutant: one event of a batch is enough

\* with a limit to the frame rate epoll is asked again until the frame is due
AfterBatch == IF Len(batch) = 1 THEN {"poll", "update"} ELSE {"batch"}

HandleSocket ==
  /\ pc = "batch" /\ Head(batch).fd # 1
  /\ \E res \in {"wouldblock", "ok", "fail"}, to \in AfterBatch :
     LET b == Head(batch) IN Go(handle_event(c, b.fd, b.flags, b.of, res), to)
  /\ batch' = Tail(batch)
  /\ UNCHANGED <<clicks, sends>>

\* waapp_event: keys, and a camera locked to the player when the window changes
\* its size, reach for the player without a check
HandleKey ==
  /\ pc = "batch" /\ Head(batch).fd = 1
  /\ clicks < MaxClicks /\ clicks' = clicks + 1
  /\ \E to \in AfterBatch :
       Go(c, to) \/ (c.game = "noplayer" /\ Go(Undefined(c, "no_player"), to))
  /\ batch' = Tail(batch)
  /\ UNCHANGED sends

Clicks == {"none", "connect", "editor", "menu", "quit"}

Clicking(click) ==
  /\ click # "none" => clicks < MaxClicks
  /\ clicks' = IF click = "none" THEN clicks ELSE clicks + 1

\* with vsync the window's event draws the frame, in the middle of a batch
HandleFrame ==
  /\ pc = "batch" /\ Head(batch).fd = 1
  /\ \E click \in Clicks, res \in {"wouldblock", "ok", "fail"}, to \in AfterBatch :
       LET s == waapp_state_update(c, click, res)
           left == "game" \in c.ready \ s.ready
       IN  /\ Clicking(click)
           /\ Go([s EXCEPT !.past = IF left THEN @ \cup {"left"} ELSE @], to)
  /\ batch' = Tail(batch)
  /\ UNCHANGED sends

Update ==
  /\ pc = "update"
  /\ \E click \in Clicks, res \in {"wouldblock", "ok", "fail"} :
       Clicking(click) /\ Go(waapp_state_update(c, click, res), "poll")
  /\ UNCHANGED <<batch, sends>>

\* waapp_run is left: every state that is still there is cleaned up
waapp_cleanup ==
  /\ pc = "poll" /\ ~c.run
  /\ LET m == waapp_state_cleanup(c, "main_menu")
         e == waapp_state_cleanup(m, "map_editor")
         g == IF "game" \in e.ready THEN waapp_state_cleanup(e, "game") ELSE e
     IN  c' = [g EXCEPT !.st = "closed", !.count = 0,
                        !.end = IF Ended(g) THEN @ ELSE "exit"]
  /\ pc' = "down"
  /\ UNCHANGED <<batch, clicks, sends>>

-------------------------------------------------------------------------------
(* The server and the network, at any moment. *)

Outside(l) ==
  /\ pc # "down"
  /\ sends < MaxSends /\ sends' = sends + 1
  /\ c' = l
  /\ UNCHANGED <<pc, batch, clicks>>

Answer ==
  /\ c.link.shake = "syn"
  /\ \/ Outside([c EXCEPT !.link.shake = "ok"])
     \/ Outside([c EXCEPT !.link.shake = "refused", !.link.err = TRUE, !.link.rst = TRUE])

Up == c.st = "connected" /\ ~c.link.fin /\ ~c.link.rst

\* one welcome for the CONNECT, and a farewell
Send ==
  /\ Up
  /\ \/ /\ ~c.welcomed /\ c.link.q = <<>>
        /\ Outside([c EXCEPT !.link.q = <<"welcome">>])
     \/ Outside([c EXCEPT !.link.q = Append(@, "shutdown"), !.link.fin = TRUE])

\* the server dies or closes the connection; what the client sends later is
\* answered by a reset
Lose ==
  \/ Up /\ Outside([c EXCEPT !.link.fin = TRUE])
  \/ /\ c.st = "connected" /\ ~c.link.rst
     /\ Outside([c EXCEPT !.link.rst = TRUE, !.link.err = TRUE])

\* a datagram answers one of the client's, which sends some while it has a player
Datagram ==
  /\ c.udpSock # 0 /\ c.game = "player" /\ Len(c.dgrams) < 2
  /\ \E d \in {"reconnect", "pong"} : Outside([c EXCEPT !.dgrams = Append(@, d)])

Next ==
  \/ client_net_poll \/ HandleSocket \/ HandleKey \/ HandleFrame \/ Update \/ waapp_cleanup
  \/ Answer \/ Send \/ Lose \/ Datagram

Spec == Init /\ [][Next]_vars
-------------------------------------------------------------------------------
TypeOK ==
  /\ c.mem \in [1..Capacity -> [kind : {"none", "wayland", "tcp", "udp"}, sock : Nat, write : BOOLEAN]]
  /\ c.count \in 0..Capacity /\ c.tcpFdev \in 0..(Capacity + 1) /\ c.udpFdev \in 0..(Capacity + 1)
  /\ c.udpSock \in 0..c.sock /\ c.dgrams \in Seq({"reconnect", "pong"})
  /\ c.st \in {"fresh", "connecting", "connected", "closed"}
  /\ c.greeted \in Nat
  /\ c.cur \in States /\ c.prev \in States \cup {"none"} /\ c.ready \subseteq States
  /\ c.game \in {"none", "noplayer", "player"} /\ c.saved \in {"none", "name", "freed"}
  /\ {c.pending, c.run, c.bot, c.doConnect, c.welcomed} \subseteq BOOLEAN
  /\ pc \in {"poll", "batch", "update", "down"} /\ (pc = "batch") = (batch # <<>> /\ ~Ended(c))

Running == pc # "down"

(***************************************************************************)
(* A game that was left is cleaned up by the end of the next update, and   *)
(* the state that is updated always has its data: waapp_state_update       *)
(* cleans up what was left last, which a click in the very update that     *)
(* should clean the game makes the main menu.                              *)
(***************************************************************************)
LeftStateCleaned ==
  Running =>
    /\ c.cur \in c.ready
    /\ (c.game # "none") = ("game" \in c.ready)
    /\ c.cur # "game" /\ ~c.pending /\ "misclean" \notin c.past => c.game = "none"

GreetedOnce ==
  /\ c.greeted <= 1
  /\ (c.greeted = 1) = (c.st = "connected") \/ c.st = "closed"
  /\ c.st = "connected" => c.udpSock = c.sock

MenuCanConnect ==
  /\ ~c.welcomed /\ c.udpSock \in {0, c.sock}
  /\ c.st = "closed" => "hangup" \in c.past

OneConnection ==
  Running =>
    /\ "twice" \notin c.past => GreetedOnce
    /\ c.cur # "game" /\ ~c.pending /\ "misclean" \notin c.past => MenuCanConnect

EventsReachTheirSocket == "stray" \in c.past => c.past \cap {"reconnect", "hangup"} # {}

(***************************************************************************)
(* One CONNECT for a connection (a second gives the client a second player *)
(* on the server) and a datagram socket with it, unless Connect is clicked *)
(* again while the handshake has just ended.  Who left a game has left its *)
(* connection and can make another: the menu never sits on one that had    *)
(* its welcome, and sits on a closed socket, to which connect always       *)
(* fails, only after a hangup that tcp_close answered without a new one.   *)
(* Events of one epoll batch point into the array of fd events, which      *)
(* handlers of the same batch erase from and add to: an event reaches      *)
(* another socket in use than epoll meant only after a reconnect or a      *)
(* hangup, never for a refused connection or a game left by a click.       *)
(***************************************************************************)
SocketsKept == OneConnection /\ EventsReachTheirSocket

(***************************************************************************)
(* Nothing else leads to undefined behaviour, or to a thread that waits    *)
(* for a datagram nobody sends, than what is named here (client_net.c,     *)
(* game.c and main_menu.c use what they point to without looking).         *)
(***************************************************************************)
UndefinedExplained ==
  /\ c.end = "no_player" => "reconnect" \in c.past
  /\ c.end = "freed_name" => "reconnect" \in c.past
  /\ c.end = "no_menu" => "misclean" \in c.past
  /\ c.end = "blocked" => "hangup" \in c.past
  /\ c.end = "moved" => "twice" \in c.past
  /\ c.end \in {"no_socket", "no_write", "unset", "no_close"} =>
       c.past \cap {"hangup", "reconnect", "twice", "left"} # {}
===============================================================================
