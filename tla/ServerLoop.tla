------------------------------ MODULE ServerLoop ------------------------------
(***************************************************************************)
(* The server's event loop (server.c, event.c, client.c): epoll, ticks,    *)
(* the list of events, and the routine check that closes silent clients.   *)
(*                                                                         *)
(* A connection is its client_t and its event_t at once; what it says      *)
(* inside the game is the matter of module Roster.  Time counts ticks: the *)
(* clock goes on when the server has nothing left to do in this tick       *)
(* (Pass), so a server that has clients is assumed to keep up.             *)
(*                                                                         *)
(* A client_t used after it was freed is undefined behaviour: the program  *)
(* then goes on as if nothing had happened, or dies.                       *)
(***************************************************************************)
EXTENDS Integers, Sequences, FiniteSets

CONSTANTS
  Clients,     \* connections, each made at most once
  Timeout,     \* client_timeout_threshold
  Routine,     \* routine_time: the period of the timer
  MaxEvents,   \* events one epoll call returns at most
  MaxTime      \* bound: the clock

ASSUME TimesAssumption == Timeout \in Nat /\ Routine \in Nat \ {0} /\ MaxTime \in Nat
ASSUME EventsAssumption == MaxEvents \in Nat \ {0} /\ IsFiniteSet(Clients)

Fixed == <<"listen", "udp", "signal", "timer">>   \* in the order server_init adds them

ASSUME NamesAssumption == \A i \in DOMAIN Fixed : Fixed[i] \notin Clients

VARIABLES
  running,     \* server->running
  clients,     \* server->clients
  last,        \* client->last_packet_time
  current,     \* server->current_time, also timer.start_time_s
  events,      \* server->events, the list
  pc,          \* where server_run is: poll, batch, tick, cleanup or down
  batch,       \* events returned by epoll and not handled yet
  now,         \* the time of day
  arrived,     \* what waits in the kernel to be read
  peer,        \* a connection's far end: new, open or shut
  heard,       \* when a packet of a client was last read, or it was accepted
  lag,         \* by how much the server's clock was behind then
  closed,      \* how the server came to close a connection
  undefined    \* connections whose client_t was used after it was freed

loopVars == <<running, clients, last, current, events, pc, batch>>
historyVars == <<heard, lag, closed, undefined>>
vars == <<loopVars, now, arrived, peer, historyVars>>

\* arrived: datagrams by sender, streams by connection, connections to accept
Arrivals == [accept : SUBSET Clients, tcp : SUBSET Clients, udp : SUBSET Clients,
             timer : BOOLEAN, signal : BOOLEAN]

Without(q, i) == [j \in 1 .. (Len(q) - 1) |-> IF j < i THEN q[j] ELSE q[j + 1]]

Listed == {events[i] : i \in DOMAIN events}

\* sockets the program still holds: epoll forgets a closed one
Readable ==
  {c \in clients : c \in arrived.tcp \/ peer[c] = "shut"}
    \cup (IF arrived.accept # {} THEN {"listen"} ELSE {})
    \cup (IF arrived.udp # {} THEN {"udp"} ELSE {})
    \cup (IF arrived.timer THEN {"timer"} ELSE {})
    \cup (IF arrived.signal THEN {"signal"} ELSE {})

Init ==
  /\ running = TRUE
  /\ clients = {}
  /\ last = [c \in Clients |-> 0]
  /\ current = 0
  /\ events = Fixed
  /\ pc = "poll"
  /\ batch = {}
  /\ now = 0
  /\ arrived = [accept |-> {}, tcp |-> {}, udp |-> {}, timer |-> FALSE, signal |-> FALSE]
  /\ peer = [c \in Clients |-> "new"]
  /\ heard = [c \in Clients |-> 0]
  /\ lag = [c \in Clients |-> 0]
  /\ closed = [c \in Clients |-> "no"]
  /\ undefined = {}

-------------------------------------------------------------------------------
(* Outside the server. *)

Connect(c) ==
  /\ peer[c] = "new"
  /\ peer' = [peer EXCEPT ![c] = "open"]
  /\ arrived' = [arrived EXCEPT !.accept = @ \cup {c}]
  /\ UNCHANGED <<loopVars, now, historyVars>>

\* a datagram carries the session of a client the server has accepted
Send(c) ==
  /\ peer[c] = "open" /\ closed[c] = "no"
  /\ \/ arrived' = [arrived EXCEPT !.tcp = @ \cup {c}]
     \/ c \in clients /\ arrived' = [arrived EXCEPT !.udp = @ \cup {c}]
  /\ UNCHANGED <<loopVars, now, peer, historyVars>>

\* in order, or by a reset that discards what was not read yet
Hangup(c) ==
  /\ peer[c] = "open"
  /\ peer' = [peer EXCEPT ![c] = "shut"]
  /\ arrived' \in {arrived, [arrived EXCEPT !.tcp = @ \ {c}]}
  /\ UNCHANGED <<loopVars, now, historyVars>>

Signal ==
  /\ ~arrived.signal
  /\ arrived' = [arrived EXCEPT !.signal = TRUE]
  /\ UNCHANGED <<loopVars, now, peer, historyVars>>

Pass ==
  /\ now < MaxTime
  /\ pc = "poll" /\ Readable = {}
  /\ clients # {} => current = now
  /\ now' = now + 1
  /\ arrived' = [arrived EXCEPT !.timer = @ \/ (now + 1) % Routine = 0]
  /\ UNCHANGED <<loopVars, peer, historyVars>>

-------------------------------------------------------------------------------
(***************************************************************************)
(* server_poll.  Without clients epoll has no timeout.  It returns what is *)
(* readable, up to MaxEvents, in any order.                                *)
(***************************************************************************)
Returned(b) ==
  /\ b \subseteq Readable
  /\ Cardinality(b) = IF Cardinality(Readable) > MaxEvents THEN MaxEvents ELSE Cardinality(Readable)

Poll ==
  /\ pc = "poll"
  /\ Readable # {}
  /\ \E b \in SUBSET Readable : Returned(b) /\ batch' = b
  /\ pc' = "batch"
  /\ UNCHANGED <<running, clients, last, current, events, now, arrived, peer, historyVars>>

PollTimeout ==
  /\ pc = "poll"
  /\ Readable = {}
  /\ clients # {}
  /\ pc' = "tick"
  /\ UNCHANGED <<running, clients, last, current, events, batch, now, arrived, peer, historyVars>>

LoopAgain_Deaf == TRUE     \* mutant: the test of server->running forgotten

LoopAgain == running

BatchDone ==
  /\ pc = "batch"
  /\ batch = {}
  /\ pc' = IF LoopAgain THEN "poll" ELSE "tick"
  /\ UNCHANGED <<running, clients, last, current, events, batch, now, arrived, peer, historyVars>>

(***************************************************************************)
(* The rest of server_run's loop, reduced to the time it takes note of.    *)
(***************************************************************************)
Tick ==
  /\ pc = "tick"
  /\ current' = now
  /\ pc' = IF running THEN "poll" ELSE "cleanup"
  /\ UNCHANGED <<running, clients, last, events, batch, now, arrived, peer, historyVars>>

-------------------------------------------------------------------------------
(***************************************************************************)
(* server_handle_event, one event of the batch at a time.                  *)
(***************************************************************************)
Take(e) ==
  /\ pc = "batch"
  /\ e \in batch
  /\ batch' = batch \ {e}

server_handle_new_connection ==
  /\ Take("listen")
  /\ \E c \in arrived.accept :
       /\ arrived' = [arrived EXCEPT !.accept = @ \ {c}]
       /\ clients' = clients \cup {c}
       /\ last' = [last EXCEPT ![c] = current]
       /\ events' = Append(events, c)
       /\ heard' = [heard EXCEPT ![c] = now]
       /\ lag' = [lag EXCEPT ![c] = now - current]
  /\ UNCHANGED <<running, current, pc, now, peer, closed, undefined>>

signalfd_read ==
  /\ Take("signal")
  /\ running' = FALSE
  /\ arrived' = [arrived EXCEPT !.signal = FALSE]
  /\ UNCHANGED <<clients, last, current, events, pc, now, peer, historyVars>>

\* what server_close_client does to the table; the event is its caller's matter
server_close_client(gone, how) ==
  /\ clients' = clients \ gone
  /\ closed' = [c \in Clients |-> IF c \in gone THEN how ELSE closed[c]]

\* mutant: the period of the timer counted in
Silent_Routine(c) == current - last[c] > Timeout + Routine

Silent(c) == current - last[c] > Timeout

(***************************************************************************)
(* server_timerfd_timeout and server_routine_checks: silent clients are    *)
(* closed, and their events stay in the list.                              *)
(***************************************************************************)
server_routine_checks ==
  /\ Take("timer")
  /\ arrived' = [arrived EXCEPT !.timer = FALSE]
  /\ server_close_client({c \in clients : Silent(c)}, "timeout")
  /\ UNCHANGED <<running, last, current, events, pc, now, peer, heard, lag, undefined>>

(***************************************************************************)
(* server_read_udp_packet and server_verify_session.                       *)
(***************************************************************************)
\* mutants: stamped with the tick before; last_packet_time not set
Heard_Early(c) ==
  /\ last' = [last EXCEPT ![c] = current - 1]
  /\ heard' = [heard EXCEPT ![c] = now]
  /\ lag' = [lag EXCEPT ![c] = now - current]

Heard_Not(c) ==
  /\ last' = last
  /\ heard' = [heard EXCEPT ![c] = now]
  /\ lag' = [lag EXCEPT ![c] = now - current]

Heard(c) ==
  /\ last' = [last EXCEPT ![c] = current]
  /\ heard' = [heard EXCEPT ![c] = now]
  /\ lag' = [lag EXCEPT ![c] = now - current]

server_read_udp_packet ==
  /\ Take("udp")
  /\ \E c \in arrived.udp :
       /\ arrived' = [arrived EXCEPT !.udp = @ \ {c}]
       /\ IF c \in clients THEN Heard(c) ELSE UNCHANGED <<last, heard, lag>>
  /\ UNCHANGED <<running, clients, current, events, pc, now, peer, closed, undefined>>

\* mutant: the event stays in the list
server_close_event_Leaves(c) == UNCHANGED events

\* the event is taken out of the list where it is
server_close_event(c) ==
  \E i \in DOMAIN events : events[i] = c /\ events' = Without(events, i)

(***************************************************************************)
(* read_client: a packet, an invalid one (the client_t is freed and then   *)
(* written to), the end of the stream, or -- if the routine check closed   *)
(* the connection earlier in this batch -- a failed recv, after which the  *)
(* freed client_t is closed again.                                         *)
(***************************************************************************)
ReadPacket(c) ==
  /\ Take(c)
  /\ c \in clients /\ c \in arrived.tcp
  /\ arrived' = [arrived EXCEPT !.tcp = @ \ {c}]
  /\ Heard(c)
  /\ UNCHANGED <<running, clients, current, events, pc, now, peer, closed, undefined>>

ReadInvalid(c) ==
  /\ Take(c)
  /\ c \in clients /\ c \in arrived.tcp
  /\ arrived' = [arrived EXCEPT !.tcp = @ \ {c}]
  /\ server_close_client({c}, "invalid")
  /\ server_close_event(c)
  /\ undefined' = undefined \cup {c}
  /\ pc' \in {"batch", "down"}
  /\ UNCHANGED <<running, last, current, now, peer, heard, lag>>

ReadEnd(c) ==
  /\ Take(c)
  /\ c \in clients /\ c \notin arrived.tcp /\ peer[c] = "shut"
  /\ server_close_client({c}, "peer")
  /\ server_close_event(c)
  /\ UNCHANGED <<running, last, current, pc, now, arrived, peer, heard, lag, undefined>>

ReadClosed(c) ==
  /\ Take(c)
  /\ c \notin clients
  /\ server_close_event(c)
  /\ undefined' = undefined \cup {c}
  /\ pc' \in {"batch", "down"}
  /\ UNCHANGED <<running, clients, last, current, now, arrived, peer, heard, lag, closed>>

-------------------------------------------------------------------------------
(***************************************************************************)
(* server_cleanup: server_close_all_events walks the list; an event left   *)
(* behind by the routine check still points at its client_t.               *)
(***************************************************************************)
CloseFixed ==
  /\ pc = "cleanup"
  /\ events # <<>> /\ Head(events) \notin Clients
  /\ events' = Tail(events)
  /\ UNCHANGED <<running, clients, last, current, pc, batch, now, arrived, peer, historyVars>>

CloseConnection ==
  /\ pc = "cleanup"
  /\ events # <<>> /\ Head(events) \in clients
  /\ events' = Tail(events)
  /\ server_close_client({Head(events)}, "shutdown")
  /\ UNCHANGED <<running, last, current, pc, batch, now, arrived, peer, heard, lag, undefined>>

CloseStale ==
  /\ pc = "cleanup"
  /\ events # <<>> /\ Head(events) \in Clients \ clients
  /\ events' = Tail(events)
  /\ undefined' = undefined \cup {Head(events)}
  /\ pc' \in {"cleanup", "down"}
  /\ UNCHANGED <<running, clients, last, current, batch, now, arrived, peer, heard, lag, closed>>

\* server_cleanup_clients closes whom the events did not
server_cleanup_clients ==
  /\ pc = "cleanup"
  /\ events = <<>>
  /\ server_close_client(clients, "shutdown")
  /\ pc' = "down"
  /\ UNCHANGED <<running, last, current, events, batch, now, arrived, peer, heard, lag, undefined>>

-------------------------------------------------------------------------------
\* what arrives once the loop has ended is never read
World ==
  /\ pc \notin {"cleanup", "down"}
  /\ Pass \/ Signal \/ \E c \in Clients : Connect(c) \/ Send(c) \/ Hangup(c)

Handle ==
  \/ server_handle_new_connection
  \/ signalfd_read
  \/ server_routine_checks
  \/ server_read_udp_packet
  \/ \E c \in Clients : ReadPacket(c) \/ ReadInvalid(c) \/ ReadEnd(c) \/ ReadClosed(c)

server_cleanup == CloseFixed \/ CloseConnection \/ CloseStale \/ server_cleanup_clients

server_run == Poll \/ PollTimeout \/ Handle \/ BatchDone \/ Tick \/ server_cleanup

Next == World \/ server_run

(***************************************************************************)
(* The server is one thread that nothing holds up but epoll, so its steps  *)
(* are fair; the world owes it nothing.                                    *)
(***************************************************************************)
Spec == Init /\ [][Next]_vars /\ WF_vars(server_run)
-------------------------------------------------------------------------------
TypeOK ==
  /\ running \in BOOLEAN
  /\ clients \subseteq Clients
  /\ last \in [Clients -> Nat] /\ heard \in [Clients -> Nat] /\ lag \in [Clients -> Nat]
  /\ current \in Nat /\ now \in Nat
  /\ Listed \subseteq Clients \cup {Fixed[i] : i \in DOMAIN Fixed}
  /\ pc \in {"poll", "batch", "tick", "cleanup", "down"}
  /\ batch \subseteq Clients \cup {Fixed[i] : i \in DOMAIN Fixed}
  /\ arrived \in Arrivals
  /\ peer \in [Clients -> {"new", "open", "shut"}]
  /\ closed \in [Clients -> {"no", "peer", "invalid", "timeout", "shutdown"}]
  /\ undefined \subseteq Clients

(***************************************************************************)
(* Every client in the table has one event in the list, through which it   *)
(* is read and closed; an event without its client is one whose client the *)
(* routine check closed (server_close_client leaves events alone).         *)
(***************************************************************************)
EventsHaveClients ==
  /\ clients \subseteq Listed \/ pc = "down"
  /\ \A i, j \in DOMAIN events : events[i] = events[j] => i = j
  /\ \A c \in Listed \cap Clients : c \in clients \/ closed[c] = "timeout"

(***************************************************************************)
(* A client_t is used after it was freed only if the routine check closed  *)
(* it or its packet was invalid: any other end of a connection is clean,   *)
(* and leaves no event behind.                                             *)
(***************************************************************************)
UndefinedExplained ==
  EventsHaveClients /\ \A c \in undefined : closed[c] \in {"timeout", "invalid"}

(***************************************************************************)
(* A client is closed for silence only if the server read nothing of it    *)
(* for the whole threshold, to within the tick by which the clock of a     *)
(* server with clients lags -- unless the last it read of the client, or   *)
(* its accept, came when the server had slept and the clock was older.     *)
(***************************************************************************)
ClosedForSilence ==
  [][\A c \in Clients : closed[c] = "no" /\ closed'[c] = "timeout" =>
       now - heard[c] >= Timeout \/ lag[c] > 1]_vars

(***************************************************************************)
(* "Time in seconds before a client is disconnected due to inactivity (no  *)
(* packets received)", says the help text of --client-timeout: whoever is  *)
(* closed for silence was silent, to within a tick, for that long.         *)
(***************************************************************************)
InactiveWhenClosed ==
  [][\A c \in Clients : closed[c] = "no" /\ closed'[c] = "timeout" =>
       now - heard[c] >= Timeout]_vars

(***************************************************************************)
(* A silent client is gone after the threshold and one period of the timer *)
(* (and the tick by which the server's clock lags).                        *)
(***************************************************************************)
SilentClientsGo ==
  running => \A c \in clients : now - heard[c] <= Timeout + Routine + 1

(***************************************************************************)
(* SIGINT and SIGTERM stop the server, whatever its clients do.            *)
(***************************************************************************)
SignalStops == arrived.signal ~> pc = "down"
===============================================================================
