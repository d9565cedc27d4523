--------------------------- MODULE ClientAppProofs ----------------------------
(***************************************************************************)
(* Proofs about ClientApp, for any order of events, clicks and messages    *)
(* and any number of them.                                                 *)
(*                                                                         *)
(* First, what each function of the code does to a client: which fields    *)
(* it leaves alone, and that a sound client stays sound unless the program *)
(* ends.  Then, which events of a batch still reach the socket that epoll  *)
(* meant, step by step.                                                    *)
(***************************************************************************)
EXTENDS ClientApp, FiniteSetTheorems, TLAPS

-------------------------------------------------------------------------------
(* The client. *)

Fdevs == [kind : {"none", "wayland", "tcp", "udp"}, sock : Nat, write : BOOLEAN]

Links == [shake : {"none", "syn", "ok", "refused"}, q : Seq({"welcome", "shutdown"}),
          fin : BOOLEAN, rst : BOOLEAN, err : BOOLEAN]

Ends == {"no", "exit", "moved", "no_socket", "freed_name", "no_menu", "no_player", "blocked",
         "unset", "no_close", "no_write"}

Pasts == {"twice", "misclean", "reconnect", "hangup", "stray", "left"}

Clients ==
  [mem : [1..Capacity -> Fdevs], count : 0..Capacity,
   tcpFdev : 0..(Capacity + 1), udpFdev : 0..(Capacity + 1), udpSock : Nat,
   dgrams : Seq({"reconnect", "pong"}), sock : Nat,
   st : {"fresh", "connecting", "connected", "closed"}, link : Links,
   greeted : Nat, welcomed : BOOLEAN,
   cur : States, prev : States \cup {"none"}, pending : BOOLEAN,
   ready : SUBSET States, game : {"none", "noplayer", "player"},
   saved : {"none", "name", "freed"}, run : BOOLEAN, bot : BOOLEAN, doConnect : BOOLEAN,
   end : Ends, past : SUBSET Pasts]

\* the entries of the sockets in use: of one that waits to be written, and of others
Waiting(sock) == Fdev("tcp", sock, TRUE)
Settled(sock) == Fdev("tcp", sock, FALSE)
UdpEntry(sock) == Fdev("udp", sock, FALSE)

\* the states of the state machine and what they own
Menu(s) ==
  /\ s.cur \in s.ready /\ s.prev # s.cur
  /\ s.game # "none" <=> "game" \in s.ready
  /\ s.game # "none" /\ s.cur # "game" /\ "misclean" \notin s.past => s.pending
  /\ s.pending /\ s.prev = "game" => s.game # "none"

\* what the past explains
Kept(s) ==
  /\ "main_menu" \notin s.ready => "misclean" \in s.past
  /\ s.game = "noplayer" => "reconnect" \in s.past
  /\ s.saved # "none" => "reconnect" \in s.past

\* the sockets in use, whatever the table of fd events says
Socket(s) ==
  /\ s.udpFdev = 0 <=> s.udpSock = 0
  /\ s.udpSock \in {0, s.sock} /\ s.sock # 0
  /\ s.udpSock = 0 => s.dgrams = <<>>
  /\ s.dgrams # <<>> => s.game = "player" \/ "reconnect" \in s.past
  /\ \A i \in 1..Capacity : s.mem[i].sock <= s.sock /\ (s.mem[i].kind = "udp" => s.mem[i].sock # 0)
  /\ s.st = "fresh" => \A i \in 1..Capacity : s.mem[i].sock < s.sock
  /\ s.st \in {"fresh", "connecting"} => s.udpSock = 0 /\ s.greeted = 0 /\ s.link.q = <<>> /\ ~s.welcomed
  /\ s.st = "connected" => s.udpSock = s.sock
  /\ s.st = "closed" => "hangup" \in s.past
  /\ s.tcpFdev = 0 => s.st = "fresh"
  /\ s.welcomed => s.game # "none"

\* the table, as long as one connection was made at a time
Regular(s) ==
  /\ s.mem[1].kind = "wayland"
  /\ s.st = "fresh" => /\ s.count = 1
                       /\ s.tcpFdev = 0 \/ (s.tcpFdev = 2 /\ s.mem[2].kind = "tcp")
  /\ s.st = "connecting" => s.count = 2 /\ s.tcpFdev = 2 /\ s.mem[2] = Waiting(s.sock)
  /\ s.st = "connected" => /\ s.count = 3 /\ s.tcpFdev = 2 /\ s.greeted = 1
                           /\ s.mem[2] = Settled(s.sock) /\ s.mem[3] = UdpEntry(s.sock)
  /\ s.st = "closed" => /\ s.tcpFdev = 2 /\ s.greeted <= 1
                        /\ (s.count = 2 /\ s.mem[2].kind = "udp") \/ (s.count = 1 /\ s.udpSock = 0)

\* slots a connection needs
Needs(s) == IF s.st = "fresh" THEN 0 ELSE IF s.st = "connecting" THEN 1 ELSE 2

\* the table, as long as no socket was closed under the program
LastUdp(s) ==
  /\ s.mem[1].kind = "wayland" /\ s.count >= 1 + Needs(s)
  /\ \A i \in 1..s.count : s.mem[i].kind = "udp" => i = s.count /\ s.st = "connected"
  /\ s.st = "connected" => s.mem[s.count].kind = "udp" /\ s.mem[s.count].sock = s.sock
  /\ s.st = "connecting" => \A i \in 1..Capacity : s.mem[i].sock = s.sock => i = s.count
  /\ s.st = "connected" => \A i \in 1..Capacity : s.mem[i].sock = s.sock /\ s.mem[i].write => s.count = Capacity

Net(s) ==
  /\ Socket(s)
  /\ "twice" \notin s.past => Regular(s)
  /\ "hangup" \notin s.past => LastUdp(s)

Explained(s) ==
  /\ s.end \in {"no_player", "freed_name"} => "reconnect" \in s.past
  /\ s.end = "no_menu" => "misclean" \in s.past
  /\ s.end = "blocked" => "hangup" \in s.past
  /\ s.end = "moved" => "twice" \in s.past
  /\ s.end \in {"no_socket", "no_write", "unset", "no_close"} =>
       s.past \cap {"hangup", "reconnect", "twice", "left"} # {}
  /\ "stray" \in s.past => s.past \cap {"reconnect", "hangup"} # {}

Proper(s) == s \in Clients /\ s.udpSock <= s.sock

\* what a client is before and after every function, its state machine apart
Fine(s) == Proper(s) /\ Explained(s) /\ (~Ended(s) => Kept(s) /\ Net(s))

\* the same when the program is left and nothing is ready any more
Firm(s) == Proper(s) /\ Explained(s) /\ (~Ended(s) => Net(s))

-------------------------------------------------------------------------------
(* A batch of events. *)

AllFlags == {"ERR", "HUP", "IN", "OUT"}

Events == [fd : 1..Capacity, of : Fdevs, flags : SUBSET AllFlags]

There(s, e) ==
  /\ s.mem[e.fd].kind = e.of.kind /\ s.mem[e.fd].sock = e.of.sock
  /\ e.of.sock = s.sock /\ e.fd <= s.count

Gone(s) == s.st = "fresh" /\ "left" \in s.past

FitTcp(s, e, gone) ==
  /\ s.st # "closed"
  /\ "twice" \notin s.past => e.fd = 2
  /\ "hangup" \notin s.past => /\ e.fd + Needs(s) <= s.count + 1
                               /\ s.st = "fresh" => s.tcpFdev = 0
  /\ s.past \cap {"hangup", "reconnect"} = {} => (There(s, e) /\ s.st # "fresh") \/ (gone /\ Gone(s))
  /\ s.past \cap {"hangup", "reconnect", "twice", "left"} = {} /\ "OUT" \in e.flags => s.st = "connecting"

FitUdp(s, e, gone) ==
  /\ e.flags \subseteq {"IN"}
  /\ "hangup" \notin s.past =>
       (There(s, e) /\ s.st = "connected" /\ s.dgrams # <<>>) \/ (gone /\ Gone(s))

Fit(s, b, gone) ==
  \A k \in DOMAIN b : b[k].fd # 1 =>
    /\ b[k].of.kind \in {"tcp", "udp"}
    /\ b[k].of.kind = "tcp" => FitTcp(s, b[k], gone)
    /\ b[k].of.kind = "udp" => FitUdp(s, b[k], gone)

NoWindow(b) == \A k \in DOMAIN b : b[k].fd # 1

Alone(s, b) ==
  \A k, m \in DOMAIN b : k # m =>
    /\ b[k].fd # b[m].fd
    /\ b[k].fd # 1 /\ b[m].fd # 1 /\ b[k].of.kind = b[m].of.kind =>
         b[k].of.kind = "udp" /\ "hangup" \in s.past

Typed ==
  /\ c.cur \in States
  /\ pc \in {"poll", "batch", "update", "down"} /\ batch \in Seq(Events)
  /\ pc = "batch" <=> batch # <<>> /\ ~Ended(c)
  /\ pc = "down" <=> Ended(c)
  /\ clicks \in Nat /\ sends \in Nat

IInv ==
  /\ Typed /\ Fine(c)
  /\ pc # "down" => /\ Menu(c) /\ Alone(c, batch)
                    /\ Fit(c, batch, NoWindow(batch))

-------------------------------------------------------------------------------
(* What a function leaves alone. *)

SameApp(q, s) ==
  /\ q.cur = s.cur /\ q.prev = s.prev /\ q.pending = s.pending /\ q.ready = s.ready
  /\ q.game = s.game /\ q.bot = s.bot /\ q.doConnect = s.doConnect

SameConn(q, s) ==
  /\ q.sock = s.sock /\ q.st = s.st /\ q.link = s.link
  /\ q.greeted = s.greeted /\ q.welcomed = s.welcomed

SameUdp(q, s) == q.udpSock = s.udpSock /\ q.udpFdev = s.udpFdev /\ q.dgrams = s.dgrams

SameTable(q, s) == q.mem = s.mem /\ q.count = s.count

SameRest(q, s) == q.saved = s.saved /\ q.run = s.run /\ q.past = s.past

\* the first end of a program is its end
SameEnd(q, s) == Ended(s) => q.end = s.end

\* no earlier end is changed, no past forgotten, and no event went astray
Onward(q, s) ==
  SameEnd(q, s) /\ s.past \subseteq q.past /\ ("stray" \in q.past => "stray" \in s.past)

LEMMA CapacityFacts == Capacity \in Nat /\ Capacity >= 3 /\ Capacity <= 4
  BY CapacityAssumption

LEMMA ClientFields ==
  ASSUME NEW s \in Clients
  PROVE  /\ s.mem \in [1..Capacity -> Fdevs] /\ s.count \in 0..Capacity
         /\ s.tcpFdev \in 0..(Capacity + 1) /\ s.udpFdev \in 0..(Capacity + 1) /\ s.udpSock \in Nat
         /\ s.dgrams \in Seq({"reconnect", "pong"}) /\ s.sock \in Nat
         /\ s.st \in {"fresh", "connecting", "connected", "closed"} /\ s.link \in Links
         /\ s.greeted \in Nat /\ s.welcomed \in BOOLEAN
         /\ s.cur \in States /\ s.prev \in States \cup {"none"} /\ s.pending \in BOOLEAN
         /\ s.ready \in SUBSET States /\ s.game \in {"none", "noplayer", "player"}
         /\ s.saved \in {"none", "name", "freed"} /\ s.run \in BOOLEAN /\ s.bot \in BOOLEAN
         /\ s.doConnect \in BOOLEAN /\ s.end \in Ends /\ s.past \in SUBSET Pasts
  BY DEF Clients

\* an fd event's parts
LEMMA FdevFields ==
  ASSUME NEW f \in Fdevs
  PROVE  f.kind \in {"none", "wayland", "tcp", "udp"} /\ f.sock \in Nat /\ f.write \in BOOLEAN
  BY DEF Fdevs

LEMMA FdevMade ==
  ASSUME NEW kind \in {"none", "wayland", "tcp", "udp"}, NEW sock \in Nat, NEW write \in BOOLEAN
  PROVE  /\ Fdev(kind, sock, write) \in Fdevs
         /\ Fdev(kind, sock, write).kind = kind /\ Fdev(kind, sock, write).sock = sock
         /\ Fdev(kind, sock, write).write = write
  BY DEF Fdev, Fdevs

LEMMA Entries ==
  ASSUME NEW k \in Nat
  PROVE  /\ {Waiting(k), Settled(k), UdpEntry(k)} \subseteq Fdevs
         /\ Waiting(k).kind = "tcp" /\ Waiting(k).sock = k /\ Waiting(k).write = TRUE
         /\ Settled(k).kind = "tcp" /\ Settled(k).sock = k /\ Settled(k).write = FALSE
         /\ UdpEntry(k).kind = "udp" /\ UdpEntry(k).sock = k /\ UdpEntry(k).write = FALSE
<1>1. /\ [kind |-> "tcp", sock |-> k, write |-> TRUE] \in Fdevs
      /\ [kind |-> "tcp", sock |-> k, write |-> FALSE] \in Fdevs
      /\ [kind |-> "udp", sock |-> k, write |-> FALSE] \in Fdevs
  BY DEF Fdevs
<1> QED BY <1>1 DEF Waiting, Settled, UdpEntry, Fdev

\* an entry that does not wait any more
LEMMA WaitsNot ==
  ASSUME NEW k \in Nat
  PROVE  /\ [Waiting(k) EXCEPT !.write = FALSE] = Settled(k)
         /\ [UdpEntry(k) EXCEPT !.write = FALSE] = UdpEntry(k)
<1>1. \A f, g \in Fdevs : f.kind = g.kind /\ f.sock = g.sock /\ (f.write <=> g.write) => f = g
  BY DEF Fdevs
<1>2. \A f \in Fdevs : /\ [f EXCEPT !.write = FALSE] \in Fdevs
                        /\ [f EXCEPT !.write = FALSE].kind = f.kind
                        /\ [f EXCEPT !.write = FALSE].sock = f.sock
                        /\ ~[f EXCEPT !.write = FALSE].write
  BY DEF Fdevs
<1>3. /\ Waiting(k) \in Fdevs /\ Settled(k) \in Fdevs /\ UdpEntry(k) \in Fdevs
      /\ Waiting(k).kind = Settled(k).kind /\ Waiting(k).sock = Settled(k).sock
      /\ ~Settled(k).write /\ ~UdpEntry(k).write
  BY Entries
<1>4. [Waiting(k) EXCEPT !.write = FALSE] = Settled(k)
  BY <1>1, <1>2, <1>3, Zenon
<1>5. [UdpEntry(k) EXCEPT !.write = FALSE] = UdpEntry(k)
  BY <1>1, <1>2, <1>3, Zenon
<1> QED BY <1>4, <1>5

LEMMA LinkFields ==
  ASSUME NEW l \in Links
  PROVE  /\ l.shake \in {"none", "syn", "ok", "refused"} /\ l.q \in Seq({"welcome", "shutdown"})
         /\ l.fin \in BOOLEAN /\ l.rst \in BOOLEAN /\ l.err \in BOOLEAN
  BY DEF Links

LEMMA FreshLinkFacts ==
  /\ FreshLink \in Links /\ FreshLink.q = <<>> /\ FreshLink.shake = "none"
  /\ FreshLink.fin = FALSE /\ FreshLink.rst = FALSE /\ FreshLink.err = FALSE
<1>1. <<>> \in Seq({"welcome", "shutdown"})
  OBVIOUS
<1> QED BY <1>1 DEF FreshLink, Links

\* the first undefined behaviour ends the program and changes nothing else
LEMMA UndefinedEffect ==
  ASSUME NEW s \in Clients, NEW why \in Ends \ {"no"}, NEW q, q = Undefined(s, why)
  PROVE  /\ q \in Clients /\ Ended(q) /\ Onward(q, s) /\ (~Ended(s) => q.end = why)
         /\ SameApp(q, s) /\ SameConn(q, s) /\ SameUdp(q, s) /\ SameTable(q, s) /\ SameRest(q, s)
         /\ q.tcpFdev = s.tcpFdev
<1>1. CASE Ended(s)
  BY <1>1 DEF Undefined, Onward, SameEnd, SameApp, SameConn, SameUdp, SameTable, SameRest
<1>2. CASE ~Ended(s)
  <2>1. q = [s EXCEPT !.end = why]
    BY <1>2 DEF Undefined
  <2>2. q \in Clients
    BY <2>1 DEF Clients
  <2>3. /\ q.end = why /\ q.tcpFdev = s.tcpFdev
        /\ SameApp(q, s) /\ SameConn(q, s) /\ SameUdp(q, s) /\ SameTable(q, s) /\ SameRest(q, s)
    BY <2>1 DEF Clients, SameApp, SameConn, SameUdp, SameTable, SameRest
  <2> QED BY <1>2, <2>2, <2>3 DEF Ended, Onward, SameEnd, SameRest
<1> QED BY <1>1, <1>2

-------------------------------------------------------------------------------
(* The table of fd events. *)

\* array_erase keeps the array an array
LEMMA ErasedType ==
  ASSUME NEW mem \in [1..Capacity -> Fdevs], NEW n \in 0..Capacity, NEW i \in 1..n
  PROVE  /\ Erased(mem, n, i) \in [1..Capacity -> Fdevs]
         /\ \A j \in 1..Capacity : Erased(mem, n, i)[j] = IF i <= j /\ j < n THEN mem[j + 1] ELSE mem[j]
<1>1. \A j \in 1..Capacity : i <= j /\ j < n => j + 1 \in 1..Capacity
  BY CapacityFacts
<1> QED BY <1>1 DEF Erased

\* an entry that is in the table has a first one
LEMMA FirstFound ==
  ASSUME NEW s \in Clients, NEW kind, NEW sock,
         NEW i \in 1..s.count, s.mem[i].kind = kind, s.mem[i].sock = sock
  PROVE  FirstOf(s, kind, sock) # {}
<1> DEFINE M == {m \in 1..s.count : s.mem[m].kind = kind /\ s.mem[m].sock = sock}
<1>1. s.count \in 0..4 /\ i \in M
  BY CapacityFacts, ClientFields
<1>2. M \subseteq 1..4
  BY <1>1
<1>3. PICK j \in M : \A m \in M : j <= m
  <2> HIDE DEF M
  <2> QED BY <1>1, <1>2
<1>4. \A m \in 1..(j - 1) : m \notin M
  <2> HIDE DEF M
  <2> QED BY <1>2, <1>3
<1>5. j \in FirstOf(s, kind, sock)
  <2>1. \A m \in 1..(j - 1) : m \in 1..s.count
    BY <1>1
  <2> QED BY <1>3, <1>4, <2>1 DEF FirstOf
<1> QED BY <1>5

\* client_net_del_fdevent erases the first entry of a socket, if it has one
LEMMA DelEffect ==
  ASSUME NEW s \in Clients, NEW kind, NEW sock, NEW q, q = client_net_del_fdevent(s, kind, sock)
  PROVE  /\ q \in Clients /\ q.end = s.end /\ q.tcpFdev = s.tcpFdev
         /\ SameApp(q, s) /\ SameConn(q, s) /\ SameUdp(q, s) /\ SameRest(q, s)
         /\ \/ /\ SameTable(q, s)
               /\ \A i \in 1..s.count : s.mem[i].kind # kind \/ s.mem[i].sock # sock
            \/ \E i \in 1..s.count :
                 /\ s.mem[i].kind = kind /\ s.mem[i].sock = sock
                 /\ \A j \in 1..(i - 1) : s.mem[j].kind # kind \/ s.mem[j].sock # sock
                 /\ q.mem = Erased(s.mem, s.count, i) /\ q.count = s.count - 1
<1>1. CASE FirstOf(s, kind, sock) = {}
  <2>1. q = s
    BY <1>1 DEF client_net_del_fdevent
  <2> QED BY <1>1, <2>1, FirstFound DEF SameApp, SameConn, SameUdp, SameRest, SameTable
<1>2. CASE FirstOf(s, kind, sock) # {}
  <2>1. PICK i \in FirstOf(s, kind, sock) :
          q = [s EXCEPT !.mem = Erased(s.mem, s.count, i), !.count = s.count - 1]
    <3> DEFINE i == CHOOSE i \in FirstOf(s, kind, sock) : TRUE
    <3>1. i \in FirstOf(s, kind, sock)
      BY <1>2
    <3>2. q = [s EXCEPT !.mem = Erased(s.mem, s.count, i), !.count = s.count - 1]
      BY <1>2 DEF client_net_del_fdevent, Clients
    <3> QED BY <3>1, <3>2
  <2>2. /\ i \in 1..s.count /\ s.mem[i].kind = kind /\ s.mem[i].sock = sock
        /\ \A j \in 1..(i - 1) : s.mem[j].kind # kind \/ s.mem[j].sock # sock
    BY DEF FirstOf
  <2>3. s.count \in 0..Capacity /\ s.count - 1 \in 0..Capacity
    BY <2>2, ClientFields, CapacityFacts
  <2>4. Erased(s.mem, s.count, i) \in [1..Capacity -> Fdevs]
    BY <2>2, <2>3, ErasedType, ClientFields
  <2> DEFINE m == Erased(s.mem, s.count, i)
             n == s.count - 1
  <2>5. q = [s EXCEPT !.mem = m, !.count = n] /\ m \in [1..Capacity -> Fdevs] /\ n \in 0..Capacity
    BY <2>1, <2>3, <2>4
  <2> HIDE DEF m, n
  <2>6. q \in Clients
    BY <2>5 DEF Clients
  <2>7. /\ q.end = s.end /\ q.tcpFdev = s.tcpFdev /\ q.mem = m /\ q.count = n
        /\ SameApp(q, s) /\ SameConn(q, s) /\ SameUdp(q, s) /\ SameRest(q, s)
    BY <2>5 DEF Clients, SameApp, SameConn, SameUdp, SameRest
  <2> QED BY <2>2, <2>6, <2>7 DEF m, n
<1> QED BY <1>1, <1>2

\* the new entry is the last one, or the array moves
LEMMA AddEffect ==
  ASSUME NEW s \in Clients, NEW kind \in {"tcp", "udp"}, NEW sock \in Nat, NEW write \in BOOLEAN,
         NEW q, q = client_net_add_fdevent(s, kind, sock, write)
  PROVE  /\ q \in Clients /\ q.tcpFdev = s.tcpFdev /\ Onward(q, s)
         /\ SameApp(q, s) /\ SameConn(q, s) /\ SameUdp(q, s) /\ SameRest(q, s)
         /\ \/ s.count = Capacity /\ SameTable(q, s) /\ Ended(q) /\ (~Ended(s) => q.end = "moved")
            \/ /\ s.count < Capacity /\ q.count = s.count + 1 /\ q.end = s.end
               /\ q.mem = [s.mem EXCEPT ![s.count + 1] = Fdev(kind, sock, write)]
<1>1. CASE s.count = Capacity
  <2>1. q = Undefined(s, "moved") /\ "moved" \in Ends \ {"no"}
    BY <1>1 DEF client_net_add_fdevent, Ends
  <2> QED BY <1>1, <2>1, UndefinedEffect
<1>2. CASE s.count # Capacity
  <2> DEFINE m == [s.mem EXCEPT ![s.count + 1] = Fdev(kind, sock, write)]
             n == s.count + 1
  <2>1. s.count < Capacity /\ n \in 1..Capacity
    BY <1>2, ClientFields, CapacityFacts
  <2>2. m \in [1..Capacity -> Fdevs]
    BY <2>1, ClientFields, FdevMade
  <2>3. q = [s EXCEPT !.mem = m, !.count = n]
    BY <1>2 DEF client_net_add_fdevent, Clients
  <2> HIDE DEF m, n
  <2>4. q \in Clients
    <3>1. n \in 0..Capacity
      BY <2>1, CapacityFacts
    <3> QED BY <2>2, <2>3, <3>1 DEF Clients
  <2>5. /\ q.end = s.end /\ q.tcpFdev = s.tcpFdev /\ q.mem = m /\ q.count = n
        /\ SameApp(q, s) /\ SameConn(q, s) /\ SameUdp(q, s) /\ SameRest(q, s)
    BY <2>3 DEF Clients, SameApp, SameConn, SameUdp, SameRest
  <2> QED BY <2>1, <2>4, <2>5 DEF m, n, Onward, SameEnd, SameRest
<1> QED BY <1>1, <1>2

-------------------------------------------------------------------------------
(* The sockets. *)

\* only the state of the socket may be another
SameSock(q, s) ==
  q.sock = s.sock /\ q.link = s.link /\ q.greeted = s.greeted /\ q.welcomed = s.welcomed

NewSock(q, s) ==
  /\ q.sock = s.sock + 1 /\ q.st = "fresh" /\ q.link = FreshLink
  /\ q.greeted = 0 /\ q.welcomed = FALSE

LEMMA FreshType ==
  ASSUME NEW s \in Clients, NEW n \in Nat, NEW l \in Links, NEW g \in Nat, NEW w \in BOOLEAN,
         NEW st \in {"fresh", "connecting", "connected", "closed"}
  PROVE  [s EXCEPT !.sock = n, !.st = st, !.link = l, !.greeted = g, !.welcomed = w] \in Clients
  BY DEF Clients

\* ssp_tcp_sock_create leaves a socket that nothing names yet
LEMMA CreateEffect ==
  ASSUME NEW s \in Clients, NEW q, q = ssp_tcp_sock_create(s)
  PROVE  /\ q \in Clients /\ NewSock(q, s) /\ q.end = s.end /\ q.tcpFdev = s.tcpFdev
         /\ SameApp(q, s) /\ SameUdp(q, s) /\ SameTable(q, s) /\ SameRest(q, s)
<1>1. PICK l \in Links : l = FreshLink
  BY FreshLinkFacts
<1>2. q = [s EXCEPT !.sock = s.sock + 1, !.st = "fresh", !.link = l, !.greeted = 0, !.welcomed = FALSE]
  BY <1>1 DEF ssp_tcp_sock_create, Clients
<1>3. q \in Clients
  <2>1. PICK n \in Nat, z \in Nat : n = s.sock + 1 /\ z = 0
    BY ClientFields
  <2>2. q = [s EXCEPT !.sock = n, !.st = "fresh", !.link = l, !.greeted = z, !.welcomed = FALSE]
    BY <1>2, <2>1
  <2>3. PICK st \in {"fresh", "connecting", "connected", "closed"}, w \in BOOLEAN : st = "fresh" /\ w = FALSE
    OBVIOUS
  <2>4. q = [s EXCEPT !.sock = n, !.st = st, !.link = l, !.greeted = z, !.welcomed = w]
    BY <2>2, <2>3, Zenon
  <2>5. [s EXCEPT !.sock = n, !.st = st, !.link = l, !.greeted = z, !.welcomed = w] \in Clients
    BY FreshType, Zenon
  <2> QED BY <2>4, <2>5, Zenon
<1>4. /\ q.sock = s.sock + 1 /\ q.st = "fresh" /\ q.link = l /\ q.greeted = 0 /\ q.welcomed = FALSE
      /\ q.end = s.end /\ q.tcpFdev = s.tcpFdev
      /\ SameApp(q, s) /\ SameUdp(q, s) /\ SameTable(q, s) /\ SameRest(q, s)
  BY <1>2 DEF Clients, SameApp, SameUdp, SameTable, SameRest
<1> QED BY <1>1, <1>3, <1>4 DEF NewSock

\* the entry of a socket goes, if it has one
Dropped(q, s, kind, sock) ==
  \/ /\ SameTable(q, s)
     /\ \A i \in 1..s.count : s.mem[i].kind # kind \/ s.mem[i].sock # sock
  \/ \E i \in 1..s.count :
       /\ s.mem[i].kind = kind /\ s.mem[i].sock = sock
       /\ \A j \in 1..(i - 1) : s.mem[j].kind # kind \/ s.mem[j].sock # sock
       /\ q.mem = Erased(s.mem, s.count, i) /\ q.count = s.count - 1

\* tcp_close closes the socket of the slot, whose first entry leaves the table
LEMMA CloseEffect ==
  ASSUME NEW s \in Clients, NEW fd, NEW q, q = tcp_close(s, fd)
  PROVE  /\ q \in Clients /\ Onward(q, s) /\ q.tcpFdev = s.tcpFdev
         /\ SameApp(q, s) /\ SameUdp(q, s) /\ SameSock(q, s) /\ SameRest(q, s)
         /\ Dropped(q, s, s.mem[fd].kind, s.mem[fd].sock)
         /\ s.mem[fd].kind # "tcp" => Ended(q) /\ (~Ended(s) => q.end = "no_socket")
         /\ s.mem[fd].kind = "tcp" =>
              q.end = s.end /\ q.st = IF s.mem[fd].sock = s.sock THEN "closed" ELSE s.st
<1> DEFINE e == s.mem[fd]
           d == client_net_del_fdevent(s, e.kind, e.sock)
<1>1. /\ d \in Clients /\ d.end = s.end /\ d.tcpFdev = s.tcpFdev
      /\ SameApp(d, s) /\ SameConn(d, s) /\ SameUdp(d, s) /\ SameRest(d, s)
      /\ Dropped(d, s, e.kind, e.sock)
  BY DelEffect DEF Dropped
<1>2. q = IF e.kind # "tcp" THEN Undefined(d, "no_socket")
          ELSE IF e.sock = s.sock THEN [d EXCEPT !.st = "closed"] ELSE d
  BY DEF tcp_close
<1> HIDE DEF e, d
<1>3. CASE e.kind # "tcp"
  <2>1. "no_socket" \in Ends \ {"no"}
    BY DEF Ends
  <2>2. q = Undefined(d, "no_socket")
    BY <1>2, <1>3
  <2>3. /\ q \in Clients /\ Ended(q) /\ Onward(q, d) /\ (~Ended(d) => q.end = "no_socket")
        /\ SameApp(q, d) /\ SameConn(q, d) /\ SameUdp(q, d) /\ SameTable(q, d) /\ SameRest(q, d)
        /\ q.tcpFdev = d.tcpFdev
    BY <1>1, <2>1, <2>2, UndefinedEffect
  <2> QED BY <1>1, <1>3, <2>3
          DEF e, Onward, SameEnd, Ended, SameApp, SameConn, SameUdp, SameSock, SameRest, SameTable, Dropped
<1>4. CASE e.kind = "tcp" /\ e.sock = s.sock
  <2>1. q = [d EXCEPT !.st = "closed"]
    BY <1>2, <1>4
  <2>2. q \in Clients
    BY <1>1, <2>1 DEF Clients
  <2>3. /\ q.st = "closed" /\ q.end = d.end /\ q.tcpFdev = d.tcpFdev
        /\ SameApp(q, d) /\ SameUdp(q, d) /\ SameSock(q, d) /\ SameRest(q, d) /\ SameTable(q, d)
    BY <1>1, <2>1 DEF Clients, SameApp, SameUdp, SameSock, SameRest, SameTable
  <2> QED BY <1>1, <1>4, <2>2, <2>3
          DEF e, Onward, SameEnd, Ended, SameApp, SameConn, SameUdp, SameSock, SameRest, SameTable, Dropped
<1>5. CASE e.kind = "tcp" /\ e.sock # s.sock
  <2>1. q = d
    BY <1>2, <1>5
  <2> QED BY <1>1, <1>5, <2>1
          DEF e, Onward, SameEnd, Ended, SameApp, SameConn, SameUdp, SameSock, SameRest, SameTable
<1> QED BY <1>3, <1>4, <1>5

\* client_net_udp_init adds the datagram socket at the end
LEMMA UdpInitEffect ==
  ASSUME NEW s \in Clients, NEW q, q = client_net_udp_init(s)
  PROVE  /\ q \in Clients /\ q.tcpFdev = s.tcpFdev /\ Onward(q, s)
         /\ SameApp(q, s) /\ SameConn(q, s) /\ SameRest(q, s)
         /\ q.udpSock = s.sock /\ q.udpFdev = s.count + 1 /\ q.dgrams = <<>>
         /\ \/ s.count = Capacity /\ SameTable(q, s) /\ Ended(q) /\ (~Ended(s) => q.end = "moved")
            \/ /\ s.count < Capacity /\ q.count = s.count + 1 /\ q.end = s.end
               /\ q.mem = [s.mem EXCEPT ![s.count + 1] = UdpEntry(s.sock)]
<1>1. s.sock \in Nat /\ s.count \in 0..Capacity /\ s.count + 1 \in 0..(Capacity + 1)
  BY ClientFields, CapacityFacts
<1>2. PICK kind \in {"tcp", "udp"}, write \in BOOLEAN : kind = "udp" /\ write = FALSE
  OBVIOUS
<1>3. PICK a : a = client_net_add_fdevent(s, kind, s.sock, write)
  OBVIOUS
<1>4. PICK f : f = Fdev(kind, s.sock, write)
  OBVIOUS
<1>5. /\ a \in Clients /\ a.tcpFdev = s.tcpFdev /\ Onward(a, s)
      /\ SameApp(a, s) /\ SameConn(a, s) /\ SameRest(a, s)
      /\ \/ s.count = Capacity /\ SameTable(a, s) /\ Ended(a) /\ (~Ended(s) => a.end = "moved")
         \/ /\ s.count < Capacity /\ a.count = s.count + 1 /\ a.end = s.end
            /\ a.mem = [s.mem EXCEPT ![s.count + 1] = f]
  BY <1>1, <1>3, <1>4, AddEffect
<1>6. f = UdpEntry(s.sock)
  BY <1>2, <1>4, Zenon DEF UdpEntry
<1>7. a = client_net_add_fdevent(s, "udp", s.sock, FALSE)
  BY <1>2, <1>3, Zenon
<1>8. q = [a EXCEPT !.udpSock = s.sock, !.udpFdev = s.count + 1, !.dgrams = <<>>]
  BY <1>7, Zenon DEF client_net_udp_init
<1>9. q \in Clients
  <2>1. <<>> \in Seq({"reconnect", "pong"})
    OBVIOUS
  <2>2. PICK n \in 0..(Capacity + 1), x \in Seq({"reconnect", "pong"}), z \in Nat :
          n = s.count + 1 /\ x = <<>> /\ z = s.sock
    BY <1>1, <2>1
  <2>3. q = [a EXCEPT !.udpSock = z, !.udpFdev = n, !.dgrams = x]
    BY <1>8, <2>2
  <2>4. a \in Clients
    BY <1>5
  <2> QED BY <2>3, <2>4 DEF Clients
<1>10. /\ q.udpSock = s.sock /\ q.udpFdev = s.count + 1 /\ q.dgrams = <<>>
       /\ q.tcpFdev = a.tcpFdev /\ q.end = a.end
       /\ SameApp(q, a) /\ SameConn(q, a) /\ SameRest(q, a) /\ SameTable(q, a)
  BY <1>5, <1>8 DEF Clients, SameApp, SameConn, SameRest, SameTable
<1> QED BY <1>5, <1>6, <1>9, <1>10
        DEF Onward, SameEnd, Ended, SameApp, SameConn, SameRest, SameTable

\* udp_close takes the datagram socket out of the table
LEMMA UdpCloseEffect ==
  ASSUME NEW s \in Clients, NEW q, q = udp_close(s)
  PROVE  /\ q \in Clients /\ q.tcpFdev = s.tcpFdev /\ q.end = s.end /\ q.udpFdev = 0
         /\ SameApp(q, s) /\ SameConn(q, s) /\ SameRest(q, s)
         /\ s.udpFdev = 0 => SameUdp(q, s) /\ SameTable(q, s)
         /\ s.udpFdev # 0 => q.udpSock = 0 /\ q.dgrams = <<>> /\ Dropped(q, s, "udp", s.udpSock)
<1>1. CASE s.udpFdev = 0
  BY <1>1 DEF udp_close, SameApp, SameConn, SameRest, SameUdp, SameTable
<1>2. CASE s.udpFdev # 0
  <2> DEFINE d == client_net_del_fdevent(s, "udp", s.udpSock)
  <2>1. /\ d \in Clients /\ d.end = s.end /\ d.tcpFdev = s.tcpFdev
        /\ SameApp(d, s) /\ SameConn(d, s) /\ SameRest(d, s) /\ Dropped(d, s, "udp", s.udpSock)
    BY DelEffect DEF Dropped
  <2>2. q = [d EXCEPT !.udpSock = 0, !.udpFdev = 0, !.dgrams = <<>>]
    BY <1>2 DEF udp_close
  <2> HIDE DEF d
  <2>3. q \in Clients
    <3>3. <<>> \in Seq({"reconnect", "pong"})
      OBVIOUS
    <3>1. 0 \in 0..(Capacity + 1) /\ 0 \in Nat
      BY CapacityFacts
    <3>4. PICK n \in 0..(Capacity + 1) : n = 0
      BY <3>1
    <3>5. PICK x \in Seq({"reconnect", "pong"}) : x = <<>>
      BY <3>3
    <3>6. PICK z \in Nat : z = 0
      BY <3>1
    <3>2. q = [d EXCEPT !.udpSock = z, !.udpFdev = n, !.dgrams = x]
      BY <2>2, <3>4, <3>5, <3>6
    <3> QED BY <2>1, <3>2 DEF Clients
  <2>4. /\ q.udpSock = 0 /\ q.udpFdev = 0 /\ q.dgrams = <<>> /\ q.end = d.end /\ q.tcpFdev = d.tcpFdev
        /\ SameApp(q, d) /\ SameConn(q, d) /\ SameRest(q, d) /\ SameTable(q, d)
    BY <2>1, <2>2 DEF Clients, SameApp, SameConn, SameRest, SameTable
  <2> QED BY <1>2, <2>1, <2>3, <2>4 DEF SameApp, SameConn, SameRest, SameTable, Dropped
<1> QED BY <1>1, <1>2

-------------------------------------------------------------------------------
(* Connecting. *)

\* client_net_on_connect: one CONNECT, and the datagram socket with it
LEMMA OnConnectEffect ==
  ASSUME NEW s \in Clients, NEW q, q = client_net_on_connect(s)
  PROVE  /\ q \in Clients /\ Onward(q, s) /\ SameApp(q, s) /\ q.tcpFdev = s.tcpFdev
         /\ q.run = s.run /\ q.past = s.past
         /\ q.sock = s.sock /\ q.link = s.link /\ q.welcomed = s.welcomed
         /\ q.st = "connected" /\ q.greeted = s.greeted + 1
         /\ q.saved = IF s.saved = "none" THEN "none" ELSE "freed"
         /\ q.udpSock = s.sock /\ q.udpFdev = s.count + 1 /\ q.dgrams = <<>>
         /\ ~Ended(s) /\ Ended(q) => \/ q.end = "freed_name" /\ s.saved # "none"
                                     \/ q.end = "no_menu" /\ "main_menu" \notin s.ready
                                     \/ q.end = "moved" /\ s.count = Capacity
         /\ s.count = Capacity => Ended(q)
         /\ ~Ended(q) => /\ s.count < Capacity /\ q.count = s.count + 1
                         /\ q.mem = [s.mem EXCEPT ![s.count + 1] = UdpEntry(s.sock)]
<1> DEFINE name == IF s.saved = "freed" THEN Undefined(s, "freed_name")
                   ELSE IF s.saved = "none" /\ "main_menu" \notin s.ready THEN Undefined(s, "no_menu")
                   ELSE s
<1>1. /\ name \in Clients /\ Onward(name, s) /\ name.tcpFdev = s.tcpFdev
      /\ SameApp(name, s) /\ SameConn(name, s) /\ SameUdp(name, s) /\ SameTable(name, s) /\ SameRest(name, s)
      /\ ~Ended(s) /\ Ended(name) => \/ name.end = "freed_name" /\ s.saved # "none"
                                     \/ name.end = "no_menu" /\ "main_menu" \notin s.ready
  <2>1. "freed_name" \in Ends \ {"no"} /\ "no_menu" \in Ends \ {"no"}
    BY DEF Ends
  <2>2. CASE s.saved = "freed"
    <3>1. name = Undefined(s, "freed_name")
      BY <2>2
    <3> HIDE DEF name
    <3> QED BY <2>1, <2>2, <3>1, UndefinedEffect
  <2>3. CASE s.saved = "none" /\ "main_menu" \notin s.ready
    <3>1. name = Undefined(s, "no_menu")
      BY <2>3
    <3> HIDE DEF name
    <3> QED BY <2>1, <2>3, <3>1, UndefinedEffect
  <2>4. CASE s.saved # "freed" /\ ~(s.saved = "none" /\ "main_menu" \notin s.ready)
    <3>1. name = s
      BY <2>4
    <3> HIDE DEF name
    <3> QED BY <3>1 DEF Onward, SameEnd, SameApp, SameConn, SameUdp, SameTable, SameRest
  <2> QED BY <2>2, <2>3, <2>4
<1> HIDE DEF name
<1> DEFINE n == [name EXCEPT !.st = "connected", !.greeted = @ + 1]
<1>2. n \in Clients
  <2>1. PICK k \in Nat : k = name.greeted + 1
    BY <1>1, ClientFields
  <2>2. n = [name EXCEPT !.st = "connected", !.greeted = k]
    BY <1>1, <2>1 DEF Clients
  <2> QED BY <1>1, <2>2 DEF Clients
<1>3. /\ n.st = "connected" /\ n.greeted = name.greeted + 1 /\ n.sock = name.sock /\ n.link = name.link
      /\ n.welcomed = name.welcomed /\ n.end = name.end /\ n.tcpFdev = name.tcpFdev
      /\ SameApp(n, name) /\ SameTable(n, name) /\ SameRest(n, name)
  BY <1>1 DEF Clients, SameApp, SameTable, SameRest
<1> HIDE DEF n
<1> DEFINE u == client_net_udp_init(n)
<1>4. /\ u \in Clients /\ u.tcpFdev = n.tcpFdev /\ Onward(u, n)
      /\ SameApp(u, n) /\ SameConn(u, n) /\ SameRest(u, n)
      /\ u.udpSock = n.sock /\ u.udpFdev = n.count + 1 /\ u.dgrams = <<>>
      /\ \/ n.count = Capacity /\ SameTable(u, n) /\ Ended(u) /\ (~Ended(n) => u.end = "moved")
         \/ /\ n.count < Capacity /\ u.count = n.count + 1 /\ u.end = n.end
            /\ u.mem = [n.mem EXCEPT ![n.count + 1] = UdpEntry(n.sock)]
  BY <1>2, UdpInitEffect
<1>5. q = [u EXCEPT !.saved = IF u.saved = "none" THEN "none" ELSE "freed"]
  BY <1>4 DEF client_net_on_connect, u, n, name, Clients
<1> HIDE DEF u
<1>6. q \in Clients
  BY <1>4, <1>5 DEF Clients
<1>7. /\ q.saved = (IF u.saved = "none" THEN "none" ELSE "freed") /\ q.end = u.end /\ q.tcpFdev = u.tcpFdev
      /\ q.run = u.run /\ q.past = u.past
      /\ SameApp(q, u) /\ SameConn(q, u) /\ SameUdp(q, u) /\ SameTable(q, u)
  BY <1>4, <1>5 DEF Clients, SameApp, SameConn, SameUdp, SameTable
<1>8. n.sock = s.sock /\ n.count = s.count /\ n.mem = s.mem /\ n.past = s.past /\ n.run = s.run /\ n.saved = s.saved
  BY <1>1, <1>3 DEF SameConn, SameTable, SameRest
<1>9. SameApp(q, s)
  BY <1>1, <1>3, <1>4, <1>7 DEF SameApp
<1>10. /\ q.tcpFdev = s.tcpFdev /\ q.run = s.run /\ q.past = s.past
       /\ q.sock = s.sock /\ q.link = s.link /\ q.welcomed = s.welcomed
       /\ q.st = "connected" /\ q.greeted = s.greeted + 1
       /\ q.saved = IF s.saved = "none" THEN "none" ELSE "freed"
       /\ q.udpSock = s.sock /\ q.udpFdev = s.count + 1 /\ q.dgrams = <<>>
  BY <1>1, <1>3, <1>4, <1>7, <1>8 DEF SameConn, SameUdp, SameRest
<1>11. Onward(q, s)
  BY <1>1, <1>3, <1>4, <1>7, <1>10 DEF Onward, SameEnd, Ended
<1>12. ~Ended(s) /\ Ended(q) => \/ q.end = "freed_name" /\ s.saved # "none"
                                \/ q.end = "no_menu" /\ "main_menu" \notin s.ready
                                \/ q.end = "moved" /\ s.count = Capacity
  BY <1>1, <1>3, <1>4, <1>7, <1>8 DEF Onward, SameEnd, Ended
<1>13. /\ s.count = Capacity => Ended(q)
       /\ ~Ended(q) => /\ s.count < Capacity /\ q.count = s.count + 1
                       /\ q.mem = [s.mem EXCEPT ![s.count + 1] = UdpEntry(s.sock)]
  <2>1. q.end = u.end /\ q.mem = u.mem /\ q.count = u.count
    BY <1>7 DEF SameTable
  <2>2. CASE n.count = Capacity /\ Ended(u)
    <3>1. s.count = Capacity /\ Ended(q)
      BY <1>8, <2>1, <2>2 DEF Ended
    <3> QED BY <3>1
  <2>3. CASE /\ n.count < Capacity /\ u.count = n.count + 1
             /\ u.mem = [n.mem EXCEPT ![n.count + 1] = UdpEntry(n.sock)]
    <3>1. s.count < Capacity /\ q.count = s.count + 1
      BY <1>8, <2>1, <2>3
    <3>2. q.mem = [s.mem EXCEPT ![s.count + 1] = UdpEntry(s.sock)]
      BY <1>8, <2>1, <2>3
    <3>3. s.count # Capacity
      BY <3>1, CapacityFacts, ClientFields
    <3> QED BY <3>1, <3>2, <3>3
  <2> QED BY <1>4, <2>2, <2>3
<1> QED BY <1>6, <1>9, <1>10, <1>11, <1>12, <1>13

\* connect refused at once: nothing but the flag that stops the program
LEMMA ConnectFails ==
  ASSUME NEW s \in Clients, NEW res, NEW q, q = client_net_async_connect(s, res), Result(s, res) = "fail"
  PROVE  /\ q \in Clients /\ SameApp(q, s) /\ SameUdp(q, s) /\ SameTable(q, s)
         /\ q.sock = s.sock /\ q.st = s.st /\ q.greeted = s.greeted /\ q.welcomed = s.welcomed
         /\ q.link.q = s.link.q /\ q.saved = s.saved /\ q.past = s.past /\ q.end = s.end
         /\ q.tcpFdev = s.tcpFdev
<1> DEFINE l == [s.link EXCEPT !.err = FALSE]
           r == s.run /\ ~s.doConnect
<1>1. l \in Links /\ l.q = s.link.q
  <2>1. s.link \in Links
    BY ClientFields
  <2> QED BY <2>1 DEF Links
<1>2. r \in BOOLEAN
  OBVIOUS
<1>3. q = [s EXCEPT !.run = r, !.link = l]
  BY DEF client_net_async_connect, Clients
<1> HIDE DEF l, r
<1>4. q \in Clients
  BY <1>1, <1>2, <1>3 DEF Clients
<1>5. /\ SameApp(q, s) /\ SameUdp(q, s) /\ SameTable(q, s) /\ q.link = l
      /\ q.sock = s.sock /\ q.st = s.st /\ q.greeted = s.greeted /\ q.welcomed = s.welcomed
      /\ q.saved = s.saved /\ q.past = s.past /\ q.end = s.end /\ q.tcpFdev = s.tcpFdev
  BY <1>3 DEF Clients, SameApp, SameUdp, SameTable
<1> QED BY <1>1, <1>4, <1>5

\* with the entry of a socket that is connected or will be
TcpAdded(s, w) == [client_net_add_fdevent(s, "tcp", s.sock, w) EXCEPT !.tcpFdev = s.count + 1]

LEMMA ConnectAdds ==
  ASSUME NEW s \in Clients, NEW w \in BOOLEAN, NEW q, q = TcpAdded(s, w)
  PROVE  /\ q \in Clients /\ Onward(q, s) /\ SameApp(q, s) /\ SameConn(q, s) /\ SameUdp(q, s) /\ SameRest(q, s)
         /\ q.tcpFdev = s.count + 1
         /\ \/ s.count = Capacity /\ SameTable(q, s) /\ Ended(q) /\ (~Ended(s) => q.end = "moved")
            \/ /\ s.count < Capacity /\ q.count = s.count + 1 /\ q.end = s.end
               /\ q.mem = [s.mem EXCEPT ![s.count + 1] = Fdev("tcp", s.sock, w)]
<1> DEFINE a == client_net_add_fdevent(s, "tcp", s.sock, w)
<1>1. s.sock \in Nat /\ s.count \in 0..Capacity /\ s.count + 1 \in 0..(Capacity + 1) /\ "tcp" \in {"tcp", "udp"}
  BY ClientFields, CapacityFacts
<1>2. /\ a \in Clients /\ Onward(a, s)
      /\ SameApp(a, s) /\ SameConn(a, s) /\ SameUdp(a, s) /\ SameRest(a, s)
      /\ \/ s.count = Capacity /\ SameTable(a, s) /\ Ended(a) /\ (~Ended(s) => a.end = "moved")
         \/ /\ s.count < Capacity /\ a.count = s.count + 1 /\ a.end = s.end
            /\ a.mem = [s.mem EXCEPT ![s.count + 1] = Fdev("tcp", s.sock, w)]
  BY <1>1, AddEffect
<1> HIDE DEF a
<1>3. PICK n \in 0..(Capacity + 1) : n = s.count + 1
  BY <1>1
<1>4. q = [a EXCEPT !.tcpFdev = n]
  BY <1>3 DEF a, TcpAdded
<1>5. q \in Clients
  BY <1>2, <1>4 DEF Clients
<1>6. /\ q.tcpFdev = n /\ q.end = a.end /\ SameApp(q, a) /\ SameConn(q, a) /\ SameUdp(q, a)
      /\ SameRest(q, a) /\ SameTable(q, a)
  BY <1>2, <1>4 DEF Clients, SameApp, SameConn, SameUdp, SameRest, SameTable
<1> QED BY <1>2, <1>3, <1>5, <1>6
        DEF Onward, SameEnd, Ended, SameApp, SameConn, SameUdp, SameRest, SameTable

\* a connect that has to wait for the handshake
LEMMA ConnectBegins ==
  ASSUME NEW s \in Clients, NEW res, NEW q, q = client_net_async_connect(s, res),
         Result(s, res) = "wouldblock"
  PROVE  /\ q \in Clients /\ Onward(q, s) /\ SameApp(q, s) /\ SameUdp(q, s) /\ SameRest(q, s)
         /\ q.sock = s.sock /\ q.greeted = s.greeted /\ q.welcomed = s.welcomed /\ q.link.q = s.link.q
         /\ s.st = "fresh" /\ q.st = "connecting" /\ q.tcpFdev = s.count + 1
         /\ \/ s.count = Capacity /\ SameTable(q, s) /\ Ended(q) /\ (~Ended(s) => q.end = "moved")
            \/ /\ s.count < Capacity /\ q.count = s.count + 1 /\ q.end = s.end
               /\ q.mem = [s.mem EXCEPT ![s.count + 1] = Waiting(s.sock)]
<1>1. PICK w \in BOOLEAN : w = TRUE
  OBVIOUS
<1>2. PICK a : a = TcpAdded(s, w)
  OBVIOUS
<1>3. PICK f : f = Fdev("tcp", s.sock, w)
  OBVIOUS
<1>4. /\ a \in Clients /\ Onward(a, s) /\ SameApp(a, s) /\ SameConn(a, s) /\ SameUdp(a, s) /\ SameRest(a, s)
      /\ a.tcpFdev = s.count + 1
      /\ \/ s.count = Capacity /\ SameTable(a, s) /\ Ended(a) /\ (~Ended(s) => a.end = "moved")
         \/ /\ s.count < Capacity /\ a.count = s.count + 1 /\ a.end = s.end
            /\ a.mem = [s.mem EXCEPT ![s.count + 1] = f]
  BY <1>2, <1>3, ConnectAdds
<1>5. f = Waiting(s.sock)
  BY <1>1, <1>3, Zenon DEF Waiting
<1>6. (Result(s, res) = "wouldblock") = w
  BY <1>1
<1>7. a = [client_net_add_fdevent(s, "tcp", s.sock, Result(s, res) = "wouldblock") EXCEPT !.tcpFdev = s.count + 1]
  BY <1>2, <1>6, Zenon DEF TcpAdded
<1>8. q = [a EXCEPT !.st = "connecting", !.link.shake = "syn"]
  <2>1. Result(s, res) # "fail"
    OBVIOUS
  <2> QED BY <1>7, <2>1, Zenon DEF client_net_async_connect
<1> DEFINE l == [a.link EXCEPT !.shake = "syn"]
<1>9. l \in Links /\ l.q = s.link.q
  <2>1. a.link \in Links /\ a.link = s.link
    BY <1>4, ClientFields DEF SameConn
  <2> QED BY <2>1 DEF Links
<1>10. q = [a EXCEPT !.st = "connecting", !.link = l]
  BY <1>4, <1>8 DEF Clients
<1> HIDE DEF l
<1>11. q \in Clients
  <2>1. a \in Clients /\ l \in Links
    BY <1>4, <1>9
  <2> QED BY <1>10, <2>1 DEF Clients
<1>12. /\ q.st = "connecting" /\ q.link = l /\ q.sock = a.sock /\ q.greeted = a.greeted
       /\ q.welcomed = a.welcomed /\ q.tcpFdev = a.tcpFdev /\ q.end = a.end
       /\ SameApp(q, a) /\ SameUdp(q, a) /\ SameRest(q, a) /\ SameTable(q, a)
  BY <1>4, <1>10 DEF Clients, SameApp, SameUdp, SameRest, SameTable
<1>13. s.st = "fresh"
  BY DEF Result
<1> QED BY <1>4, <1>5, <1>9, <1>11, <1>12, <1>13
        DEF Onward, SameEnd, Ended, SameApp, SameConn, SameUdp, SameRest, SameTable

\* a second connection on a socket is in the past of what it leads to
PastOf(s) == IF s.st = "connecting" THEN s.past \cup {"twice"} ELSE s.past

\* the entries of a connection at the end of the table
Placed(q, s) ==
  /\ s.count + 2 <= Capacity /\ q.count = s.count + 2
  /\ \A i \in 1..Capacity : q.mem[i] = IF i = s.count + 2 THEN UdpEntry(s.sock)
                                      ELSE IF i = s.count + 1 THEN Settled(s.sock) ELSE s.mem[i]

\* a connect that is done at once
LEMMA ConnectDone ==
  ASSUME NEW s \in Clients, NEW res, NEW q, q = client_net_async_connect(s, res), Result(s, res) = "ok"
  PROVE  /\ q \in Clients /\ Onward(q, s) /\ SameApp(q, s) /\ q.run = s.run
         /\ q.sock = s.sock /\ q.welcomed = s.welcomed /\ q.link.q = s.link.q
         /\ q.saved = IF s.saved = "none" THEN "none" ELSE "freed"
         /\ q.past = PastOf(s)
         /\ s.st \in {"fresh", "connecting"} /\ q.st = "connected" /\ q.greeted = s.greeted + 1
         /\ q.tcpFdev = s.count + 1 /\ q.udpSock = s.sock /\ q.dgrams = <<>>
         /\ q.udpFdev # 0 /\ (~Ended(q) => q.udpFdev = s.count + 2)
         /\ ~Ended(s) /\ Ended(q) => \/ q.end = "freed_name" /\ s.saved # "none"
                                     \/ q.end = "no_menu" /\ "main_menu" \notin s.ready
                                     \/ q.end = "moved" /\ s.count + 2 > Capacity
         /\ ~Ended(q) => Placed(q, s)
<1>1. PICK w \in BOOLEAN : w = FALSE
  OBVIOUS
<1>2. PICK a : a = TcpAdded(s, w)
  OBVIOUS
<1>3. PICK f : f = Fdev("tcp", s.sock, w)
  OBVIOUS
<1>4. /\ a \in Clients /\ Onward(a, s) /\ SameApp(a, s) /\ SameConn(a, s) /\ SameUdp(a, s) /\ SameRest(a, s)
      /\ a.tcpFdev = s.count + 1
      /\ \/ s.count = Capacity /\ SameTable(a, s) /\ Ended(a) /\ (~Ended(s) => a.end = "moved")
         \/ /\ s.count < Capacity /\ a.count = s.count + 1 /\ a.end = s.end
            /\ a.mem = [s.mem EXCEPT ![s.count + 1] = f]
  BY <1>2, <1>3, ConnectAdds
<1>5. f = Settled(s.sock)
  BY <1>1, <1>3, Zenon DEF Settled
<1>6. (Result(s, res) = "wouldblock") = w
  BY <1>1
<1>7. a = [client_net_add_fdevent(s, "tcp", s.sock, Result(s, res) = "wouldblock") EXCEPT !.tcpFdev = s.count + 1]
  BY <1>2, <1>6, Zenon DEF TcpAdded
<1> DEFINE p == PastOf(s)
           l == [a.link EXCEPT !.shake = "ok"]
           b == [a EXCEPT !.link = l, !.past = p]
<1>8. l \in Links /\ l.q = s.link.q
  <2>1. a.link \in Links /\ a.link = s.link
    BY <1>4, ClientFields DEF SameConn
  <2> QED BY <2>1 DEF Links
<1>9. p \in SUBSET Pasts /\ a.past = s.past
  BY <1>4, ClientFields DEF Pasts, SameRest, PastOf
<1>10. q = client_net_on_connect(b)
  <2>1. Result(s, res) # "fail" /\ Result(s, res) # "wouldblock"
    OBVIOUS
  <2>2. q = client_net_on_connect(
              [a EXCEPT !.link.shake = "ok",
                        !.past = IF s.st = "connecting" THEN @ \cup {"twice"} ELSE @])
    BY <1>7, <2>1, Zenon DEF client_net_async_connect
  <2>3. b = [a EXCEPT !.link.shake = "ok",
                      !.past = IF s.st = "connecting" THEN @ \cup {"twice"} ELSE @]
    BY <1>4, <1>9 DEF Clients, PastOf
  <2> QED BY <2>2, <2>3, Zenon
<1>11. b \in Clients
  <2> HIDE DEF l, p
  <2> QED BY <1>4, <1>8, <1>9 DEF Clients
<1>12. /\ b.link = l /\ b.past = p /\ b.st = a.st /\ b.sock = a.sock /\ b.greeted = a.greeted
       /\ b.welcomed = a.welcomed /\ b.tcpFdev = a.tcpFdev /\ b.end = a.end /\ b.run = a.run
       /\ b.saved = a.saved /\ SameApp(b, a) /\ SameTable(b, a)
  <2> HIDE DEF l, p
  <2> QED BY <1>4 DEF Clients, SameApp, SameTable
<1> HIDE DEF b
<1>13. /\ q \in Clients /\ Onward(q, b) /\ SameApp(q, b) /\ q.tcpFdev = b.tcpFdev
       /\ q.run = b.run /\ q.past = b.past
       /\ q.sock = b.sock /\ q.link = b.link /\ q.welcomed = b.welcomed
       /\ q.st = "connected" /\ q.greeted = b.greeted + 1
       /\ q.saved = IF b.saved = "none" THEN "none" ELSE "freed"
       /\ q.udpSock = b.sock /\ q.udpFdev = b.count + 1 /\ q.dgrams = <<>>
       /\ ~Ended(b) /\ Ended(q) => \/ q.end = "freed_name" /\ b.saved # "none"
                                   \/ q.end = "no_menu" /\ "main_menu" \notin b.ready
                                   \/ q.end = "moved" /\ b.count = Capacity
       /\ b.count = Capacity => Ended(q)
       /\ ~Ended(q) => /\ b.count < Capacity /\ q.count = b.count + 1
                       /\ q.mem = [b.mem EXCEPT ![b.count + 1] = UdpEntry(b.sock)]
  BY <1>10, <1>11, OnConnectEffect
<1>14. /\ b.sock = s.sock /\ b.greeted = s.greeted /\ b.welcomed = s.welcomed /\ b.saved = s.saved
       /\ b.run = s.run /\ b.tcpFdev = s.count + 1 /\ b.ready = s.ready
       /\ b.mem = a.mem /\ b.count = a.count /\ b.end = a.end
  BY <1>4, <1>12 DEF SameConn, SameRest, SameApp, SameTable
<1>15. SameApp(q, s)
  BY <1>4, <1>12, <1>13 DEF SameApp
<1>16. /\ q.run = s.run /\ q.sock = s.sock /\ q.welcomed = s.welcomed /\ q.link.q = s.link.q
       /\ q.saved = (IF s.saved = "none" THEN "none" ELSE "freed") /\ q.past = p
       /\ q.st = "connected" /\ q.greeted = s.greeted + 1
       /\ q.tcpFdev = s.count + 1 /\ q.udpSock = s.sock /\ q.dgrams = <<>>
  BY <1>8, <1>12, <1>13, <1>14
<1>17. s.st \in {"fresh", "connecting"}
  BY DEF Result
<1>18. Onward(q, s)
  BY <1>4, <1>13, <1>14, <1>16 DEF Onward, SameEnd, Ended, PastOf
<1>19. CASE s.count = Capacity /\ SameTable(a, s) /\ Ended(a) /\ (~Ended(s) => a.end = "moved")
  <2>1. Ended(q) /\ (~Ended(s) => q.end = "moved")
    BY <1>13, <1>14, <1>19 DEF Onward, SameEnd, Ended
  <2>2. s.count + 2 > Capacity /\ q.udpFdev # 0
    BY <1>13, <1>14, <1>19, CapacityFacts DEF SameTable
  <2> QED BY <1>13, <1>15, <1>16, <1>17, <1>18, <2>1, <2>2
<1>20. CASE s.count < Capacity /\ a.count = s.count + 1 /\ a.end = s.end
            /\ a.mem = [s.mem EXCEPT ![s.count + 1] = f]
  <2>1. s.count \in Nat /\ b.count = s.count + 1 /\ b.end = s.end
    BY <1>14, <1>20, ClientFields
  <2>2. q.udpFdev = s.count + 2 /\ q.udpFdev # 0
    BY <1>13, <2>1
  <2>3. ~Ended(s) /\ Ended(q) => \/ q.end = "freed_name" /\ s.saved # "none"
                                 \/ q.end = "no_menu" /\ "main_menu" \notin s.ready
                                 \/ q.end = "moved" /\ s.count + 2 > Capacity
    BY <1>13, <1>14, <2>1, CapacityFacts DEF Ended
  <2>4. ASSUME ~Ended(q)
        PROVE  Placed(q, s)
    <3>1. s.count + 2 <= Capacity /\ q.count = s.count + 2
      BY <1>13, <2>1, <2>4, CapacityFacts
    <3>2. b.count + 1 = s.count + 2 /\ b.mem = [s.mem EXCEPT ![s.count + 1] = Settled(s.sock)]
      BY <1>5, <1>14, <1>20, <2>1
    <3>3. q.mem = [b.mem EXCEPT ![b.count + 1] = UdpEntry(b.sock)]
      BY <1>13, <2>4
    <3>4. /\ s.mem \in [1..Capacity -> Fdevs] /\ b.mem \in [1..Capacity -> Fdevs]
          /\ s.count + 1 \in 1..Capacity /\ s.count + 2 \in 1..Capacity
      BY <1>11, <2>1, <3>1, ClientFields, CapacityFacts
    <3> QED BY <1>14, <3>1, <3>2, <3>3, <3>4 DEF Placed
  <2> QED BY <1>13, <1>15, <1>16, <1>17, <1>18, <2>2, <2>3, <2>4
<1> QED BY <1>4, <1>19, <1>20

\* what explained an end still does
LEMMA ExplainedKept ==
  ASSUME NEW s, NEW q, Explained(s), Onward(q, s), q.end = s.end
  PROVE  Explained(q)
BY DEF Explained, Onward

LEMMA ResultType ==
  ASSUME NEW s, NEW res \in {"wouldblock", "ok", "fail"}
  PROVE  Result(s, res) \in {"wouldblock", "ok", "fail"}
BY DEF Result

\* a connection that begins: the entry waits at the end of the table
LEMMA NetBegins ==
  ASSUME NEW s \in Clients, NEW q \in Clients, Net(s),
         SameApp(q, s), SameUdp(q, s), q.past = s.past,
         q.sock = s.sock, q.greeted = s.greeted, q.welcomed = s.welcomed, q.link.q = s.link.q,
         s.st = "fresh", q.st = "connecting", q.tcpFdev = s.count + 1, s.count < Capacity,
         q.count = s.count + 1, q.mem = [s.mem EXCEPT ![s.count + 1] = Waiting(s.sock)]
  PROVE  Net(q)
<1>1. /\ s.count \in 0..Capacity /\ s.mem \in [1..Capacity -> Fdevs] /\ s.sock \in Nat
      /\ s.count + 1 \in 1..Capacity /\ Capacity \in 3..4
  BY ClientFields, CapacityFacts
<1>2. Socket(s)
  BY DEF Net
<1>3. \A i \in 1..Capacity : q.mem[i] = IF i = s.count + 1 THEN Waiting(s.sock) ELSE s.mem[i]
  BY <1>1
<1>4. Waiting(s.sock).kind = "tcp" /\ Waiting(s.sock).sock = s.sock
  BY <1>1, Entries
<1>5. \A i \in 1..Capacity : s.mem[i].sock < s.sock /\ s.mem[i].sock \in Nat
  BY <1>1, <1>2, FdevFields DEF Socket
<1>6. Socket(q)
  <2>1. \A i \in 1..Capacity : q.mem[i].sock <= q.sock /\ (q.mem[i].kind = "udp" => q.mem[i].sock # 0)
    BY <1>1, <1>2, <1>3, <1>4, <1>5 DEF Socket
  <2>2. q.tcpFdev # 0
    BY <1>1
  <2> QED BY <1>2, <2>1, <2>2 DEF Socket, SameUdp, SameApp
<1>7. ASSUME "twice" \notin q.past PROVE Regular(q)
  <2>1. Regular(s)
    BY <1>7 DEF Net
  <2>2. s.count = 1 /\ s.mem[1].kind = "wayland"
    BY <2>1 DEF Regular
  <2>3. q.count = 2 /\ q.tcpFdev = 2 /\ q.mem[2] = Waiting(q.sock) /\ q.mem[1].kind = "wayland"
    BY <1>1, <1>3, <2>2
  <2> QED BY <2>3 DEF Regular
<1>8. ASSUME "hangup" \notin q.past PROVE LastUdp(q)
  <2>1. LastUdp(s)
    BY <1>8 DEF Net
  <2>2. s.mem[1].kind = "wayland" /\ s.count >= 1
    BY <1>1, <2>1 DEF LastUdp, Needs
  <2>3. q.mem[1].kind = "wayland" /\ q.count >= 1 + Needs(q)
    BY <1>1, <1>3, <2>2 DEF Needs
  <2>4. \A i \in 1..q.count : q.mem[i].kind # "udp"
    BY <1>1, <1>3, <1>4, <2>1 DEF LastUdp
  <2>5. \A i \in 1..Capacity : q.mem[i].sock = q.sock => i = q.count
    BY <1>1, <1>3, <1>5
  <2> QED BY <2>3, <2>4, <2>5 DEF LastUdp
<1> QED BY <1>6, <1>7, <1>8 DEF Net

\* a connection made at once, or while another is made on the same socket
LEMMA NetDone ==
  ASSUME NEW s \in Clients, NEW q \in Clients, Net(s), SameApp(q, s),
         q.past = PastOf(s),
         q.sock = s.sock, q.greeted = s.greeted + 1, q.welcomed = s.welcomed, q.link.q = s.link.q,
         s.st \in {"fresh", "connecting"}, q.st = "connected", q.tcpFdev = s.count + 1,
         q.udpSock = s.sock, q.dgrams = <<>>, q.udpFdev # 0, Placed(q, s)
  PROVE  Net(q)
<1>1. /\ s.count \in 0..Capacity /\ s.mem \in [1..Capacity -> Fdevs] /\ s.sock \in Nat
      /\ s.count + 1 \in 1..Capacity /\ s.count + 2 \in 1..Capacity /\ Capacity \in 3..4
      /\ q.count = s.count + 2
  BY ClientFields, CapacityFacts DEF Placed
<1>2. Socket(s)
  BY DEF Net
<1>3. \A i \in 1..Capacity : q.mem[i] = IF i = s.count + 2 THEN UdpEntry(s.sock)
                                        ELSE IF i = s.count + 1 THEN Settled(s.sock) ELSE s.mem[i]
  BY DEF Placed
<1>4. /\ Settled(s.sock).kind = "tcp" /\ Settled(s.sock).sock = s.sock /\ Settled(s.sock).write = FALSE
      /\ UdpEntry(s.sock).kind = "udp" /\ UdpEntry(s.sock).sock = s.sock /\ UdpEntry(s.sock).write = FALSE
  BY <1>1, Entries
<1>5. \A i \in 1..Capacity : s.mem[i].sock <= s.sock /\ s.mem[i].sock \in Nat
  BY <1>1, <1>2, FdevFields DEF Socket
<1>6. Socket(q)
  <2>1. ASSUME NEW i \in 1..Capacity
        PROVE  q.mem[i].sock <= q.sock /\ (q.mem[i].kind = "udp" => q.mem[i].sock # 0)
    <3>1. s.mem[i].sock <= s.sock /\ (s.mem[i].kind = "udp" => s.mem[i].sock # 0) /\ s.sock # 0
      BY <1>2 DEF Socket
    <3>2. q.mem[i] \in {UdpEntry(s.sock), Settled(s.sock), s.mem[i]}
      BY <1>3
    <3>3. s.sock \in Nat /\ s.sock <= s.sock
      BY <1>1
    <3> QED BY <1>4, <3>1, <3>2, <3>3
  <2>2. q.tcpFdev # 0 /\ q.udpSock # 0 /\ s.sock # 0
    BY <1>1, <1>2 DEF Socket
  <2>3. q.welcomed => q.game # "none"
    BY <1>2 DEF Socket, SameApp
  <2> QED BY <1>2, <2>1, <2>2, <2>3 DEF Socket
<1>7. ASSUME "twice" \notin q.past PROVE Regular(q)
  <2>1. s.st = "fresh" /\ Regular(s) /\ s.greeted = 0
    BY <1>2, <1>7 DEF Net, Socket, PastOf
  <2>2. s.count = 1 /\ s.mem[1].kind = "wayland"
    BY <2>1 DEF Regular
  <2>3. /\ q.count = 3 /\ q.tcpFdev = 2 /\ q.mem[2] = Settled(q.sock) /\ q.mem[3] = UdpEntry(q.sock)
        /\ q.mem[1].kind = "wayland" /\ q.greeted = 1
    BY <1>1, <1>3, <2>1, <2>2
  <2> QED BY <2>3 DEF Regular
<1>8. ASSUME "hangup" \notin q.past PROVE LastUdp(q)
  <2>1. LastUdp(s)
    BY <1>8 DEF Net, PastOf
  <2>2. /\ s.mem[1].kind = "wayland" /\ s.count >= 1 + Needs(s)
        /\ s.st = "connecting" => s.count >= 2
    BY <2>1 DEF LastUdp, Needs
  <2>3. q.mem[1].kind = "wayland" /\ q.count >= 1 + Needs(q)
    BY <1>1, <1>3, <2>2 DEF Needs
  <2>4. \A i \in 1..q.count : q.mem[i].kind = "udp" => i = q.count
    <3>1. \A i \in 1..s.count : s.mem[i].kind # "udp"
      BY <2>1 DEF LastUdp
    <3>2. ASSUME NEW i \in 1..q.count, i # q.count PROVE q.mem[i].kind # "udp"
      <4>1. i \in 1..s.count \/ i = s.count + 1
        BY <1>1, <3>2
      <4>2. i \in 1..Capacity /\ i # s.count + 2
        BY <1>1, <3>2
      <4>3. CASE i \in 1..s.count
        <5>1. q.mem[i] = s.mem[i]
          BY <1>1, <1>3, <4>2, <4>3
        <5> QED BY <3>1, <4>3, <5>1
      <4>4. CASE i = s.count + 1
        <5>1. q.mem[i] = Settled(s.sock)
          BY <1>3, <4>2, <4>4
        <5> QED BY <1>4, <5>1
      <4> QED BY <4>1, <4>3, <4>4
    <3> QED BY <3>2
  <2>5. q.mem[q.count].kind = "udp" /\ q.mem[q.count].sock = q.sock
    BY <1>1, <1>3, <1>4
  <2>6. ASSUME NEW i \in 1..Capacity, q.mem[i].sock = q.sock, q.mem[i].write PROVE q.count = Capacity
    <3>1. CASE s.st = "fresh"
      <4>1. s.mem[i].sock < s.sock
        BY <1>2, <3>1 DEF Socket
      <4>2. i = s.count + 1 \/ i = s.count + 2
        BY <1>1, <1>3, <1>5, <2>6, <4>1
      <4>3. q.mem[i].write = FALSE
        BY <1>1, <1>3, <1>4, <4>2
      <4> QED BY <2>6, <4>3
    <3>2. CASE s.st = "connecting"
      BY <1>1, <2>2, <3>2
    <3> QED BY <3>1, <3>2
  <2> QED BY <2>3, <2>4, <2>5, <2>6 DEF LastUdp
<1> QED BY <1>6, <1>7, <1>8 DEF Net

\* what a connect did to the sockets
Connected(q, s) ==
  /\ q.sock = s.sock
  /\ \/ SameTable(q, s) /\ SameUdp(q, s) /\ q.st = s.st /\ q.past = s.past /\ q.tcpFdev = s.tcpFdev
     \/ /\ s.st = "fresh" \/ (s.st = "connecting" /\ "twice" \in q.past)
        /\ q.st \in {"connecting", "connected"} /\ s.count <= q.count
        /\ q.count + Needs(s) >= s.count + Needs(q)
        /\ q.past \subseteq s.past \cup {"twice"}
        /\ \A i \in 1..s.count : q.mem[i] = s.mem[i]

\* client_net_async_connect keeps a sound client sound, or ends it for a named reason
LEMMA ConnectFine ==
  ASSUME NEW s, Fine(s), NEW res \in {"wouldblock", "ok", "fail"}, NEW q, q = client_net_async_connect(s, res)
  PROVE  Fine(q) /\ Onward(q, s) /\ SameApp(q, s) /\ (~Ended(q) => Connected(q, s))
<1>1. /\ s \in Clients /\ Proper(s) /\ Explained(s) /\ (~Ended(s) => Kept(s) /\ Net(s))
      /\ s.count \in Nat /\ s.udpSock <= s.sock /\ s.sock \in Nat
  BY ClientFields DEF Fine, Proper
<1>2. CASE Result(s, res) = "fail"
  <2>1. /\ q \in Clients /\ SameApp(q, s) /\ SameUdp(q, s) /\ SameTable(q, s)
        /\ q.sock = s.sock /\ q.st = s.st /\ q.greeted = s.greeted /\ q.welcomed = s.welcomed
        /\ q.link.q = s.link.q /\ q.saved = s.saved /\ q.past = s.past /\ q.end = s.end
        /\ q.tcpFdev = s.tcpFdev
    BY <1>1, <1>2, ConnectFails
  <2>2. Onward(q, s)
    BY <2>1 DEF Onward, SameEnd
  <2>3. Explained(q)
    BY <1>1, <2>1, <2>2, ExplainedKept
  <2>4. ASSUME Net(s) PROVE Net(q)
    BY <2>1, <2>4 DEF Net, Socket, Regular, LastUdp, Needs, SameApp, SameUdp, SameTable
  <2>5. Kept(s) => Kept(q)
    BY <2>1 DEF Kept, SameApp
  <2> QED BY <1>1, <2>1, <2>2, <2>3, <2>4, <2>5 DEF Fine, Proper, Ended, Connected, SameUdp
<1>3. CASE Result(s, res) = "wouldblock"
  <2>1. /\ q \in Clients /\ Onward(q, s) /\ SameApp(q, s) /\ SameUdp(q, s) /\ SameRest(q, s)
        /\ q.sock = s.sock /\ q.greeted = s.greeted /\ q.welcomed = s.welcomed /\ q.link.q = s.link.q
        /\ s.st = "fresh" /\ q.st = "connecting" /\ q.tcpFdev = s.count + 1
        /\ \/ s.count = Capacity /\ SameTable(q, s) /\ Ended(q) /\ (~Ended(s) => q.end = "moved")
           \/ /\ s.count < Capacity /\ q.count = s.count + 1 /\ q.end = s.end
              /\ q.mem = [s.mem EXCEPT ![s.count + 1] = Waiting(s.sock)]
    BY <1>1, <1>3, ConnectBegins
  <2>2. Explained(q)
    <3>1. CASE q.end = s.end
      BY <1>1, <2>1, <3>1, ExplainedKept
    <3>2. CASE q.end # s.end
      <4>1. ~Ended(s) /\ s.count = Capacity /\ q.end = "moved"
        BY <2>1, <3>2 DEF Onward, SameEnd, Ended
      <4>2. "twice" \in s.past
        BY <1>1, <2>1, <4>1, CapacityFacts DEF Net, Regular
      <4> QED BY <1>1, <2>1, <4>1, <4>2 DEF Explained, Onward
    <3> QED BY <3>1, <3>2
  <2>3. ASSUME ~Ended(q)
        PROVE  /\ ~Ended(s) /\ s.count < Capacity /\ q.count = s.count + 1
               /\ q.mem = [s.mem EXCEPT ![s.count + 1] = Waiting(s.sock)]
    BY <2>1, <2>3 DEF Onward, SameEnd, Ended
  <2>4. ASSUME ~Ended(q) PROVE Kept(q) /\ Net(q)
    <3>1. Kept(q)
      BY <1>1, <2>1, <2>3, <2>4 DEF Kept, SameApp, SameRest
    <3>2. q.past = s.past
      BY <2>1 DEF SameRest
    <3> QED BY <1>1, <2>1, <2>3, <2>4, <3>1, <3>2, NetBegins
  <2>5. ASSUME ~Ended(q) PROVE Connected(q, s)
    <3>1. \A i \in 1..s.count : q.mem[i] = s.mem[i]
      <4>1. s.mem \in [1..Capacity -> Fdevs] /\ \A i \in 1..s.count : i \in 1..Capacity /\ i # s.count + 1
        BY <1>1, <2>3, <2>5, ClientFields, CapacityFacts
      <4> QED BY <2>3, <2>5, <4>1
    <3>2. s.count <= q.count /\ q.count + Needs(s) >= s.count + Needs(q)
      BY <1>1, <2>1, <2>3, <2>5 DEF Needs
    <3> QED BY <2>1, <3>1, <3>2 DEF Connected, SameRest
  <2>6. Proper(q)
    BY <1>1, <2>1 DEF Proper, SameUdp
  <2> QED BY <2>1, <2>2, <2>4, <2>5, <2>6 DEF Fine
<1>4. CASE Result(s, res) = "ok"
  <2>1. /\ q \in Clients /\ Onward(q, s) /\ SameApp(q, s) /\ q.run = s.run
        /\ q.sock = s.sock /\ q.welcomed = s.welcomed /\ q.link.q = s.link.q
        /\ q.saved = IF s.saved = "none" THEN "none" ELSE "freed"
        /\ q.past = PastOf(s)
        /\ s.st \in {"fresh", "connecting"} /\ q.st = "connected" /\ q.greeted = s.greeted + 1
        /\ q.tcpFdev = s.count + 1 /\ q.udpSock = s.sock /\ q.dgrams = <<>>
        /\ q.udpFdev # 0 /\ (~Ended(q) => q.udpFdev = s.count + 2)
        /\ ~Ended(s) /\ Ended(q) => \/ q.end = "freed_name" /\ s.saved # "none"
                                    \/ q.end = "no_menu" /\ "main_menu" \notin s.ready
                                    \/ q.end = "moved" /\ s.count + 2 > Capacity
        /\ ~Ended(q) => Placed(q, s)
    BY <1>1, <1>4, ConnectDone
  <2>2. Explained(q)
    <3>1. CASE q.end = s.end
      BY <1>1, <2>1, <3>1, ExplainedKept
    <3>2. CASE q.end # s.end
      <4>1. ~Ended(s) /\ Ended(q) /\ Kept(s) /\ Net(s)
        BY <1>1, <2>1, <3>2 DEF Onward, SameEnd, Ended
      <4>2. CASE q.end = "freed_name" \/ q.end = "no_menu"
        BY <1>1, <2>1, <4>1, <4>2 DEF Explained, Onward, Kept
      <4>3. CASE q.end = "moved" /\ s.count + 2 > Capacity
        <5>1. "twice" \in q.past
          <6>1. CASE s.st = "connecting"
            BY <2>1, <6>1 DEF PastOf
          <6>2. CASE s.st = "fresh" /\ "twice" \notin s.past
            BY <4>1, <4>3, <6>2, CapacityFacts DEF Net, Regular
          <6> QED BY <2>1, <6>1, <6>2 DEF PastOf
        <5> QED BY <1>1, <2>1, <4>3, <5>1 DEF Explained, Onward
      <4> QED BY <2>1, <4>1, <4>2, <4>3
    <3> QED BY <3>1, <3>2
  <2>3. ASSUME ~Ended(q) PROVE ~Ended(s)
    BY <2>1, <2>3 DEF Onward, SameEnd, Ended
  <2>4. ASSUME ~Ended(q) PROVE Kept(q) /\ Net(q)
    <3>1. Kept(q)
      BY <1>1, <2>1, <2>3, <2>4 DEF Kept, SameApp, Onward
    <3>2. Net(q)
      BY <1>1, <2>1, <2>3, <2>4, NetDone
    <3> QED BY <3>1, <3>2
  <2>5. ASSUME ~Ended(q) PROVE Connected(q, s)
    <3>1. \A i \in 1..s.count : q.mem[i] = s.mem[i]
      <4>1. Placed(q, s) /\ s.count \in Nat
        BY <1>1, <2>1, <2>5
      <4> QED BY <4>1, CapacityFacts DEF Placed
    <3>2. s.count <= q.count /\ q.count + Needs(s) >= s.count + Needs(q)
      BY <1>1, <2>1, <2>5 DEF Needs, Placed
    <3>3. s.st = "fresh" \/ (s.st = "connecting" /\ "twice" \in q.past)
      BY <2>1 DEF PastOf
    <3>4. q.past \subseteq s.past \cup {"twice"}
      BY <2>1 DEF PastOf
    <3> QED BY <2>1, <3>1, <3>2, <3>3, <3>4 DEF Connected
  <2>6. Proper(q)
    BY <1>1, <2>1 DEF Proper
  <2> QED BY <2>1, <2>2, <2>4, <2>5, <2>6 DEF Fine
<1> QED BY <1>2, <1>3, <1>4, ResultType

-------------------------------------------------------------------------------
(* Disconnecting. *)

\* client_net_disconnect takes both sockets out of the table, and makes a new one
LEMMA DisconnectEffect ==
  ASSUME NEW s \in Clients, NEW q, q = client_net_disconnect(s)
  PROVE  /\ q \in Clients /\ Onward(q, s) /\ SameApp(q, s) /\ SameRest(q, s)
         /\ q.udpFdev = 0 /\ q.tcpFdev = 0
         /\ s.tcpFdev = 0 => SameConn(q, s) /\ q.end = s.end
         /\ s.tcpFdev # 0 /\ s.mem[s.tcpFdev].kind # "tcp" => Ended(q) /\ (~Ended(s) => q.end = "no_socket")
         /\ s.tcpFdev # 0 /\ s.mem[s.tcpFdev].kind = "tcp" => q.end = s.end
         /\ s.tcpFdev # 0 => NewSock(q, s)
         /\ \E n \in Clients :
              /\ s.tcpFdev = 0 => SameTable(n, s)
              /\ s.tcpFdev # 0 => Dropped(n, s, s.mem[s.tcpFdev].kind, s.mem[s.tcpFdev].sock)
              /\ s.udpFdev = 0 => SameUdp(q, s) /\ SameTable(q, n)
              /\ s.udpFdev # 0 => q.udpSock = 0 /\ q.dgrams = <<>> /\ Dropped(q, n, "udp", s.udpSock)
<1>1. CASE s.tcpFdev = 0
  <2>1. q = udp_close(s)
    BY <1>1 DEF client_net_disconnect
  <2>2. /\ q \in Clients /\ q.tcpFdev = s.tcpFdev /\ q.end = s.end /\ q.udpFdev = 0
        /\ SameApp(q, s) /\ SameConn(q, s) /\ SameRest(q, s)
        /\ s.udpFdev = 0 => SameUdp(q, s) /\ SameTable(q, s)
        /\ s.udpFdev # 0 => q.udpSock = 0 /\ q.dgrams = <<>> /\ Dropped(q, s, "udp", s.udpSock)
    BY <2>1, UdpCloseEffect
  <2>3. Onward(q, s) /\ SameTable(s, s)
    BY <2>2 DEF Onward, SameEnd, SameRest, SameTable
  <2> QED BY <1>1, <2>2, <2>3
<1>2. CASE s.tcpFdev # 0
  <2> DEFINE t == tcp_close(s, s.tcpFdev)
             u == [t EXCEPT !.tcpFdev = 0]
             n == ssp_tcp_sock_create(u)
             e == s.mem[s.tcpFdev]
  <2>1. /\ t \in Clients /\ Onward(t, s)
        /\ SameApp(t, s) /\ SameUdp(t, s) /\ SameSock(t, s) /\ SameRest(t, s)
        /\ Dropped(t, s, e.kind, e.sock)
        /\ e.kind # "tcp" => Ended(t) /\ (~Ended(s) => t.end = "no_socket")
        /\ e.kind = "tcp" => t.end = s.end
    BY CloseEffect
  <2>2. q = udp_close(n)
    BY <1>2 DEF client_net_disconnect
  <2> HIDE DEF t, e
  <2>3. u \in Clients
    <3>1. PICK z \in 0..(Capacity + 1) : z = 0
      BY CapacityFacts
    <3>2. u = [t EXCEPT !.tcpFdev = z]
      BY <3>1
    <3> QED BY <2>1, <3>2 DEF Clients
  <2>4. /\ u.tcpFdev = 0 /\ u.end = t.end /\ u.sock = t.sock
        /\ SameApp(u, t) /\ SameUdp(u, t) /\ SameTable(u, t) /\ SameRest(u, t)
    BY <2>1 DEF Clients, SameApp, SameUdp, SameTable, SameRest
  <2> HIDE DEF u
  <2>5. /\ n \in Clients /\ NewSock(n, u) /\ n.end = u.end /\ n.tcpFdev = u.tcpFdev
        /\ SameApp(n, u) /\ SameUdp(n, u) /\ SameTable(n, u) /\ SameRest(n, u)
    BY <2>3, CreateEffect
  <2> HIDE DEF n
  <2>6. /\ q \in Clients /\ q.tcpFdev = n.tcpFdev /\ q.end = n.end /\ q.udpFdev = 0
        /\ SameApp(q, n) /\ SameConn(q, n) /\ SameRest(q, n)
        /\ n.udpFdev = 0 => SameUdp(q, n) /\ SameTable(q, n)
        /\ n.udpFdev # 0 => q.udpSock = 0 /\ q.dgrams = <<>> /\ Dropped(q, n, "udp", n.udpSock)
    BY <2>2, <2>5, UdpCloseEffect
  <2>7. SameUdp(n, s) /\ n.mem = t.mem /\ n.count = t.count
    BY <2>1, <2>4, <2>5 DEF SameUdp, SameTable
  <2>8. Dropped(n, s, e.kind, e.sock)
    BY <2>1, <2>7 DEF Dropped, SameTable
  <2>9. SameApp(q, s) /\ SameRest(q, s) /\ q.end = t.end /\ q.tcpFdev = 0
    BY <2>1, <2>4, <2>5, <2>6 DEF SameApp, SameRest
  <2>10. NewSock(q, s)
    BY <2>1, <2>4, <2>5, <2>6 DEF NewSock, SameConn, SameSock
  <2>11. Onward(q, s)
    BY <2>1, <2>9 DEF Onward, SameEnd, Ended, SameRest
  <2>12. /\ s.udpFdev = 0 => SameUdp(q, s) /\ SameTable(q, n)
         /\ s.udpFdev # 0 => q.udpSock = 0 /\ q.dgrams = <<>> /\ Dropped(q, n, "udp", s.udpSock)
    BY <2>6, <2>7 DEF SameUdp
  <2>13. /\ e.kind # "tcp" => Ended(q) /\ (~Ended(s) => q.end = "no_socket")
         /\ e.kind = "tcp" => q.end = s.end
    BY <2>1, <2>9 DEF Ended
  <2> QED BY <1>2, <2>5, <2>6, <2>8, <2>9, <2>10, <2>11, <2>12, <2>13 DEF e
<1> QED BY <1>1, <1>2

\* an entry that goes
LEMMA DroppedTable ==
  ASSUME NEW s \in Clients, NEW q \in Clients, NEW kind, NEW sock, Dropped(q, s, kind, sock)
  PROVE  \/ /\ q.count = s.count /\ \A j \in 1..Capacity : q.mem[j] = s.mem[j]
            /\ \A i \in 1..s.count : s.mem[i].kind # kind \/ s.mem[i].sock # sock
         \/ \E i \in 1..s.count :
              /\ s.mem[i].kind = kind /\ s.mem[i].sock = sock
              /\ \A j \in 1..(i - 1) : s.mem[j].kind # kind \/ s.mem[j].sock # sock
              /\ q.count = s.count - 1
              /\ \A j \in 1..Capacity :
                   q.mem[j] = IF i <= j /\ j < s.count THEN s.mem[j + 1] ELSE s.mem[j]
<1>1. s.mem \in [1..Capacity -> Fdevs] /\ s.count \in 0..Capacity
  BY ClientFields
<1>2. CASE /\ SameTable(q, s)
           /\ \A i \in 1..s.count : s.mem[i].kind # kind \/ s.mem[i].sock # sock
  BY <1>2 DEF SameTable
<1>3. ASSUME NEW i \in 1..s.count, s.mem[i].kind = kind, s.mem[i].sock = sock,
             \A j \in 1..(i - 1) : s.mem[j].kind # kind \/ s.mem[j].sock # sock,
             q.mem = Erased(s.mem, s.count, i), q.count = s.count - 1
      PROVE  \A j \in 1..Capacity : q.mem[j] = IF i <= j /\ j < s.count THEN s.mem[j + 1] ELSE s.mem[j]
  BY <1>1, <1>3, ErasedType
<1> QED BY <1>2, <1>3 DEF Dropped

LEMMA DroppedEntries ==
  ASSUME NEW s \in Clients, NEW q \in Clients, NEW kind, NEW sock, Dropped(q, s, kind, sock)
  PROVE  \A i \in 1..Capacity : q.mem[i] = s.mem[i] \/ (i + 1 \in 1..Capacity /\ q.mem[i] = s.mem[i + 1])
<1>1. s.count \in 0..Capacity /\ Capacity \in 3..4
  BY ClientFields, CapacityFacts
<1>2. \/ \A j \in 1..Capacity : q.mem[j] = s.mem[j]
      \/ \E i \in 1..s.count :
           \A j \in 1..Capacity : q.mem[j] = IF i <= j /\ j < s.count THEN s.mem[j + 1] ELSE s.mem[j]
  BY DroppedTable
<1> QED BY <1>1, <1>2

\* nothing of the program is left in the table, as long as it was regular
LEMMA RegularDrop ==
  ASSUME NEW s \in Clients, NEW n \in Clients, NEW q \in Clients, Socket(s), Regular(s),
         s.tcpFdev # 0, s.mem[s.tcpFdev].kind = "tcp",
         Dropped(n, s, "tcp", s.mem[s.tcpFdev].sock),
         s.udpFdev = 0 => SameTable(q, n), s.udpFdev # 0 => Dropped(q, n, "udp", s.udpSock)
  PROVE  q.count = 1 /\ q.mem[1].kind = "wayland"
<1>1. /\ Capacity \in 3..4 /\ s.count \in 0..Capacity /\ n.count \in 0..Capacity /\ q.count \in 0..Capacity
      /\ s.sock \in Nat
  BY ClientFields, CapacityFacts
<1>2. PICK x : x = s.mem[s.tcpFdev].sock
  OBVIOUS
<1>3. \/ /\ n.count = s.count /\ \A j \in 1..Capacity : n.mem[j] = s.mem[j]
         /\ \A i \in 1..s.count : s.mem[i].kind # "tcp" \/ s.mem[i].sock # x
      \/ \E i \in 1..s.count :
           /\ s.mem[i].kind = "tcp" /\ s.mem[i].sock = x
           /\ \A j \in 1..(i - 1) : s.mem[j].kind # "tcp" \/ s.mem[j].sock # x
           /\ n.count = s.count - 1
           /\ \A j \in 1..Capacity : n.mem[j] = IF i <= j /\ j < s.count THEN s.mem[j + 1] ELSE s.mem[j]
  BY <1>2, DroppedTable
<1>4. s.mem[1].kind = "wayland"
  BY DEF Regular
<1>5. CASE s.udpFdev = 0
  <2>1. q.count = n.count /\ q.mem = n.mem /\ s.udpSock = 0
    BY <1>5 DEF SameTable, Socket
  <2>2. s.st # "connected"
    BY <2>1 DEF Socket
  <2>3. CASE s.count = 1
    BY <1>1, <1>3, <1>4, <2>1, <2>3
  <2>4. CASE s.st = "connecting"
    <3>1. /\ s.count = 2 /\ s.tcpFdev = 2 /\ s.mem[2].kind = "tcp"
      BY <1>1, <2>4, Entries DEF Regular
    <3>2. s.mem[2].kind = "tcp" /\ s.mem[2].sock = x
      BY <1>2, <3>1
    <3>3. n.count = 1 /\ n.mem[1] = s.mem[1]
      BY <1>1, <1>3, <1>4, <3>1, <3>2
    <3> QED BY <1>4, <2>1, <3>3
  <2>5. CASE s.st = "closed"
    BY <1>1, <1>3, <1>4, <2>1, <2>3, <2>5 DEF Regular
  <2> QED BY <1>1, <2>2, <2>3, <2>4, <2>5, ClientFields DEF Regular
<1>6. CASE s.udpFdev # 0
  <2>1. s.udpSock = s.sock /\ s.udpSock # 0 /\ s.st \in {"connected", "closed"}
    BY <1>6, ClientFields DEF Socket
  <2>2. s.st = "connected"
    BY <2>1 DEF Regular
  <2>3. /\ s.count = 3 /\ s.tcpFdev = 2 /\ s.mem[2].kind = "tcp"
        /\ s.mem[3].kind = "udp" /\ s.mem[3].sock = s.sock
    <3>1. s.count = 3 /\ s.tcpFdev = 2 /\ s.mem[2] = Settled(s.sock) /\ s.mem[3] = UdpEntry(s.sock)
      BY <2>2 DEF Regular
    <3>2. /\ Settled(s.sock).kind = "tcp"
          /\ UdpEntry(s.sock).kind = "udp" /\ UdpEntry(s.sock).sock = s.sock
      BY <1>1, Entries
    <3> QED BY <3>1, <3>2
  <2>4. s.mem[2].kind = "tcp" /\ s.mem[2].sock = x
    BY <1>2, <2>3
  <2>5. n.count = 2 /\ n.mem[1] = s.mem[1] /\ n.mem[2] = s.mem[3]
    BY <1>1, <1>3, <1>4, <2>3, <2>4
  <2>6. \/ /\ q.count = n.count /\ \A j \in 1..Capacity : q.mem[j] = n.mem[j]
           /\ \A i \in 1..n.count : n.mem[i].kind # "udp" \/ n.mem[i].sock # s.udpSock
        \/ \E i \in 1..n.count :
             /\ n.mem[i].kind = "udp" /\ n.mem[i].sock = s.udpSock
             /\ \A j \in 1..(i - 1) : n.mem[j].kind # "udp" \/ n.mem[j].sock # s.udpSock
             /\ q.count = n.count - 1
             /\ \A j \in 1..Capacity : q.mem[j] = IF i <= j /\ j < n.count THEN n.mem[j + 1] ELSE n.mem[j]
    BY <1>6, DroppedTable
  <2>7. n.mem[2].kind = "udp" /\ n.mem[2].sock = s.udpSock /\ n.mem[1].kind = "wayland"
    BY <1>4, <2>1, <2>3, <2>5
  <2>8. q.count = 1 /\ q.mem[1] = n.mem[1]
    BY <1>1, <2>5, <2>6, <2>7
  <2> QED BY <2>7, <2>8
<1> QED BY <1>5, <1>6

\* no datagram socket is left in the table, as long as none was closed under the program
LEMMA LastUdpDrop ==
  ASSUME NEW s \in Clients, NEW n \in Clients, NEW q \in Clients, Socket(s), LastUdp(s), s.st # "closed",
         s.tcpFdev # 0, s.mem[s.tcpFdev].kind = "tcp",
         Dropped(n, s, "tcp", s.mem[s.tcpFdev].sock),
         s.udpFdev = 0 => SameTable(q, n), s.udpFdev # 0 => Dropped(q, n, "udp", s.udpSock)
  PROVE  /\ q.mem[1].kind = "wayland" /\ q.count >= 1
         /\ \A i \in 1..q.count : q.mem[i].kind # "udp"
         /\ s.st # "fresh" => q.count + Needs(s) >= s.count
<1>1. /\ Capacity \in 3..4 /\ s.count \in 0..Capacity /\ n.count \in 0..Capacity /\ q.count \in 0..Capacity
      /\ s.sock \in Nat
  BY ClientFields, CapacityFacts
<1>2. PICK x : x = s.mem[s.tcpFdev].sock
  OBVIOUS
<1>3. \/ n.count = s.count /\ \A j \in 1..Capacity : n.mem[j] = s.mem[j]
      \/ \E i \in 1..s.count :
           /\ s.mem[i].kind = "tcp"
           /\ n.count = s.count - 1
           /\ \A j \in 1..Capacity : n.mem[j] = IF i <= j /\ j < s.count THEN s.mem[j + 1] ELSE s.mem[j]
  BY <1>2, DroppedTable
<1>4. /\ s.mem[1].kind = "wayland" /\ s.count >= 1
      /\ \A i \in 1..s.count : s.mem[i].kind = "udp" => i = s.count /\ s.st = "connected"
      /\ s.st = "connected" => s.count >= 3 /\ s.mem[s.count].kind = "udp" /\ s.mem[s.count].sock = s.sock
      /\ s.st = "connecting" => s.count >= 2
  BY <1>1 DEF LastUdp, Needs
<1>5. /\ n.mem[1].kind = "wayland" /\ n.count >= 1 /\ n.count >= s.count - 1
      /\ \A i \in 1..n.count : n.mem[i].kind = "udp" => i = n.count /\ s.st = "connected"
      /\ s.st = "connected" => n.mem[n.count].kind = "udp" /\ n.mem[n.count].sock = s.sock
  <2>1. CASE n.count = s.count /\ \A j \in 1..Capacity : n.mem[j] = s.mem[j]
    <3>1. \A i \in 1..s.count : n.mem[i] = s.mem[i]
      BY <1>1, <2>1
    <3> QED BY <1>1, <1>4, <2>1, <3>1
  <2>2. ASSUME NEW i \in 1..s.count, s.mem[i].kind = "tcp", n.count = s.count - 1,
               \A j \in 1..Capacity : n.mem[j] = IF i <= j /\ j < s.count THEN s.mem[j + 1] ELSE s.mem[j]
        PROVE  /\ n.mem[1].kind = "wayland" /\ n.count >= 1 /\ n.count >= s.count - 1
               /\ \A j \in 1..n.count : n.mem[j].kind = "udp" => j = n.count /\ s.st = "connected"
               /\ s.st = "connected" => n.mem[n.count].kind = "udp" /\ n.mem[n.count].sock = s.sock
    <3>1. i >= 2 /\ s.count >= 2
      BY <1>1, <1>4, <2>2
    <3>2. n.mem[1] = s.mem[1]
      BY <1>1, <2>2, <3>1
    <3>3. ASSUME NEW j \in 1..n.count, n.mem[j].kind = "udp" PROVE j = n.count /\ s.st = "connected"
      <4>1. j \in 1..Capacity /\ j < s.count /\ j \in 1..s.count /\ j + 1 \in 1..s.count
        BY <1>1, <2>2
      <4>2. CASE i <= j
        <5>1. n.mem[j] = s.mem[j + 1]
          BY <2>2, <4>1, <4>2
        <5>2. j + 1 = s.count /\ s.st = "connected"
          BY <1>4, <3>3, <4>1, <5>1
        <5> QED BY <1>1, <2>2, <5>2
      <4>3. CASE ~(i <= j)
        <5>1. n.mem[j] = s.mem[j]
          BY <2>2, <4>1, <4>3
        <5>2. j = s.count
          BY <1>4, <3>3, <4>1, <5>1
        <5> QED BY <1>1, <4>1, <5>2
      <4> QED BY <4>2, <4>3
    <3>4. ASSUME s.st = "connected" PROVE n.mem[n.count].kind = "udp" /\ n.mem[n.count].sock = s.sock
      <4>1. i # s.count
        BY <1>4, <2>2, <3>4
      <4>2. n.count \in 1..Capacity /\ i <= n.count /\ n.count < s.count /\ n.count + 1 = s.count
        BY <1>1, <2>2, <3>1, <4>1
      <4>3. n.mem[n.count] = s.mem[s.count]
        BY <2>2, <4>2
      <4> QED BY <1>4, <3>4, <4>3
    <3>5. n.count >= 1 /\ n.count >= s.count - 1
      BY <1>1, <2>2, <3>1
    <3> QED BY <1>4, <3>2, <3>3, <3>4, <3>5
  <2> QED BY <1>3, <2>1, <2>2
<1>6. CASE s.udpFdev = 0
  <2>1. q.count = n.count /\ q.mem = n.mem /\ s.udpSock = 0
    BY <1>6 DEF SameTable, Socket
  <2>2. s.st # "connected"
    BY <2>1 DEF Socket
  <2>3. s.st # "fresh" => Needs(s) = 1
    BY <2>2, ClientFields DEF Needs
  <2> QED BY <1>1, <1>5, <2>1, <2>2, <2>3
<1>7. CASE s.udpFdev # 0
  <2>1. s.udpSock = s.sock /\ s.st = "connected" /\ Needs(s) = 2
    BY <1>7, ClientFields DEF Socket, Needs
  <2>2. n.mem[n.count].kind = "udp" /\ n.mem[n.count].sock = s.udpSock /\ n.count \in 1..n.count
    BY <1>1, <1>5, <2>1
  <2>3. \E i \in 1..n.count :
             /\ n.mem[i].kind = "udp"
             /\ q.count = n.count - 1
             /\ \A j \in 1..Capacity : q.mem[j] = IF i <= j /\ j < n.count THEN n.mem[j + 1] ELSE n.mem[j]
    BY <1>7, <2>2, DroppedTable
  <2>4. /\ q.count = n.count - 1
        /\ \A j \in 1..Capacity : q.mem[j] = IF n.count <= j /\ j < n.count THEN n.mem[j + 1] ELSE n.mem[j]
    BY <1>5, <2>3
  <2>5. n.count >= 2
    BY <1>1, <1>4, <1>5, <2>1
  <2>6. \A j \in 1..q.count : q.mem[j] = n.mem[j] /\ j # n.count /\ j \in 1..n.count
    BY <1>1, <2>4
  <2>7. q.mem[1].kind = "wayland"
    BY <1>1, <1>5, <2>4, <2>5, <2>6
  <2>8. \A i \in 1..q.count : q.mem[i].kind # "udp"
    BY <1>5, <2>6
  <2> QED BY <1>1, <1>5, <2>1, <2>4, <2>5, <2>7, <2>8
<1> QED BY <1>6, <1>7

\* what client_net_disconnect leaves of the sockets
Disconnected(q, s) ==
  /\ SameRest(q, s) /\ q.st = "fresh" /\ q.udpSock = 0 /\ q.dgrams = <<>> /\ q.tcpFdev = 0 /\ ~q.welcomed
  /\ q.link.q = <<>>
  /\ "hangup" \notin s.past /\ (s.st # "fresh" \/ s.tcpFdev = 0) => q.count + Needs(s) >= s.count

\* client_net_disconnect keeps a sound client sound
LEMMA DisconnectFirm ==
  ASSUME NEW s, Firm(s), NEW q, q = client_net_disconnect(s)
  PROVE  Firm(q) /\ Onward(q, s) /\ SameApp(q, s) /\ SameRest(q, s) /\ (~Ended(q) => Disconnected(q, s))
<1>1. /\ s \in Clients /\ Proper(s) /\ Explained(s) /\ (~Ended(s) => Net(s))
      /\ s.count \in Nat /\ s.udpSock <= s.sock /\ s.sock \in Nat /\ s.udpSock \in Nat
      /\ s.tcpFdev \in 0..(Capacity + 1) /\ s.st \in {"fresh", "connecting", "connected", "closed"}
  BY ClientFields DEF Firm, Proper
<1>2. /\ q \in Clients /\ Onward(q, s) /\ SameApp(q, s) /\ SameRest(q, s)
      /\ q.udpFdev = 0 /\ q.tcpFdev = 0
      /\ s.tcpFdev = 0 => SameConn(q, s) /\ q.end = s.end
      /\ s.tcpFdev # 0 /\ s.mem[s.tcpFdev].kind # "tcp" => Ended(q) /\ (~Ended(s) => q.end = "no_socket")
      /\ s.tcpFdev # 0 /\ s.mem[s.tcpFdev].kind = "tcp" => q.end = s.end
      /\ s.tcpFdev # 0 => NewSock(q, s)
  BY <1>1, DisconnectEffect
<1>3. PICK n \in Clients :
        /\ s.tcpFdev = 0 => SameTable(n, s)
        /\ s.tcpFdev # 0 => Dropped(n, s, s.mem[s.tcpFdev].kind, s.mem[s.tcpFdev].sock)
        /\ s.udpFdev = 0 => SameUdp(q, s) /\ SameTable(q, n)
        /\ s.udpFdev # 0 => q.udpSock = 0 /\ q.dgrams = <<>> /\ Dropped(q, n, "udp", s.udpSock)
  BY <1>1, DisconnectEffect
<1>4. Proper(q)
  BY <1>1, <1>2, <1>3 DEF Proper, SameUdp, SameConn, NewSock
<1>5. q.end = s.end \/ (~Ended(s) /\ q.end = "no_socket" /\ s.tcpFdev # 0 /\ s.mem[s.tcpFdev].kind # "tcp")
  BY <1>2 DEF Onward, SameEnd, Ended
<1>6. Explained(q)
  <2>1. CASE q.end = s.end
    BY <1>1, <1>2, <2>1, ExplainedKept
  <2>2. CASE ~Ended(s) /\ q.end = "no_socket" /\ s.tcpFdev # 0 /\ s.mem[s.tcpFdev].kind # "tcp"
    <3>1. "hangup" \in s.past \/ "twice" \in s.past
      <4>1. ASSUME "hangup" \notin s.past, "twice" \notin s.past PROVE FALSE
        <5>1. Socket(s) /\ Regular(s)
          BY <1>1, <2>2, <4>1 DEF Net
        <5>2. s.st # "closed"
          BY <4>1, <5>1 DEF Socket
        <5>3. Waiting(s.sock).kind = "tcp" /\ Settled(s.sock).kind = "tcp"
          BY <1>1, Entries
        <5>4. s.tcpFdev = 2 /\ s.mem[2].kind = "tcp"
          BY <1>1, <2>2, <5>1, <5>2, <5>3 DEF Regular
        <5> QED BY <2>2, <5>4
      <4> QED BY <4>1
    <3> QED BY <1>1, <1>2, <2>2, <3>1 DEF Explained, Onward
  <2> QED BY <1>5, <2>1, <2>2
<1>7. ASSUME ~Ended(q) PROVE Net(q) /\ Disconnected(q, s)
  <2>1. ~Ended(s) /\ Socket(s) /\ q.past = s.past
    BY <1>1, <1>2, <1>7 DEF Onward, SameEnd, Ended, SameRest, Net
  <2>2. CASE s.tcpFdev = 0
    <3>1. s.st = "fresh" /\ s.udpSock = 0 /\ s.udpFdev = 0
      BY <2>1, <2>2 DEF Socket
    <3>2. SameUdp(q, s) /\ SameTable(q, s) /\ SameConn(q, s)
      BY <1>2, <1>3, <2>2, <3>1 DEF SameTable
    <3>3. Net(q)
      BY <1>1, <1>2, <2>1, <2>2, <3>2
         DEF Net, Socket, Regular, LastUdp, Needs, SameApp, SameUdp, SameTable, SameConn
    <3>4. Disconnected(q, s)
      <4>1. s.dgrams = <<>> /\ ~s.welcomed /\ s.link.q = <<>>
        BY <2>1, <3>1 DEF Socket
      <4>2. Needs(s) = 0
        BY <3>1 DEF Needs
      <4>3. q.count + Needs(s) >= s.count
        BY <1>1, <3>2, <4>2 DEF SameTable
      <4> QED BY <1>2, <3>1, <3>2, <4>1, <4>3 DEF Disconnected, SameUdp, SameConn
    <3> QED BY <3>3, <3>4
  <2>3. CASE s.tcpFdev # 0
    <3>1. s.mem[s.tcpFdev].kind = "tcp" /\ NewSock(q, s)
      BY <1>2, <1>7, <2>3
    <3>2. Dropped(n, s, "tcp", s.mem[s.tcpFdev].sock)
      BY <1>3, <2>3, <3>1
    <3>3. s.udpFdev = 0 => SameTable(q, n)
      BY <1>3
    <3>4. s.udpFdev # 0 => Dropped(q, n, "udp", s.udpSock)
      BY <1>3
    <3>5. q.udpSock = 0 /\ q.dgrams = <<>>
      BY <1>3, <2>1 DEF Socket, SameUdp
    <3>6. /\ q.sock = s.sock + 1 /\ q.st = "fresh" /\ q.link.q = <<>> /\ q.greeted = 0 /\ q.welcomed = FALSE
      BY <3>1, FreshLinkFacts DEF NewSock
    <3>7. \A i \in 1..Capacity : /\ q.mem[i].sock < q.sock
                                 /\ q.mem[i].kind = "udp" => q.mem[i].sock # 0
      <4>1. \A i \in 1..Capacity : s.mem[i].sock \in Nat /\ s.mem[i].sock < q.sock
        <5>1. \A i \in 1..Capacity : s.mem[i] \in Fdevs
          BY <1>1, ClientFields
        <5> QED BY <1>1, <2>1, <3>6, <5>1, FdevFields DEF Socket
      <4>2. \A i \in 1..Capacity : n.mem[i] = s.mem[i] \/ (i + 1 \in 1..Capacity /\ n.mem[i] = s.mem[i + 1])
        BY <1>1, <3>2, DroppedEntries
      <4>3. \A i \in 1..Capacity : q.mem[i] = n.mem[i] \/ (i + 1 \in 1..Capacity /\ q.mem[i] = n.mem[i + 1])
        <5>1. CASE s.udpFdev = 0
          BY <3>3, <5>1 DEF SameTable
        <5>2. CASE s.udpFdev # 0
          <6>1. Dropped(q, n, "udp", s.udpSock)
            BY <3>4, <5>2
          <6> QED BY <1>2, <6>1, DroppedEntries
        <5> QED BY <5>1, <5>2
      <4>4. \A i \in 1..Capacity : n.mem[i].sock < q.sock /\ (n.mem[i].kind = "udp" => n.mem[i].sock # 0)
        BY <2>1, <4>1, <4>2 DEF Socket
      <4> QED BY <4>3, <4>4
    <3>8. \A i \in 1..Capacity : q.mem[i].sock <= q.sock /\ q.mem[i].sock # q.sock
      <4>1. \A i \in 1..Capacity : q.mem[i] \in Fdevs
        BY <1>2, ClientFields
      <4> QED BY <1>1, <3>6, <3>7, <4>1, FdevFields
    <3>9. Socket(q)
      BY <1>1, <1>2, <3>5, <3>6, <3>7, <3>8 DEF Socket
    <3>10. ASSUME "twice" \notin q.past PROVE Regular(q)
      <4>1. Regular(s)
        BY <1>1, <2>1, <3>10 DEF Net
      <4>2. q.count = 1 /\ q.mem[1].kind = "wayland"
        BY <1>1, <1>2, <2>1, <2>3, <3>1, <3>2, <3>3, <3>4, <4>1, RegularDrop
      <4> QED BY <1>2, <3>6, <4>2 DEF Regular
    <3>11. ASSUME "hangup" \notin q.past
           PROVE  LastUdp(q) /\ (s.st # "fresh" => q.count + Needs(s) >= s.count)
      <4>1. LastUdp(s) /\ s.st # "closed"
        BY <1>1, <2>1, <3>11 DEF Net, Socket
      <4>2. /\ q.mem[1].kind = "wayland" /\ q.count >= 1
            /\ \A i \in 1..q.count : q.mem[i].kind # "udp"
            /\ s.st # "fresh" => q.count + Needs(s) >= s.count
        BY <1>1, <1>2, <2>1, <2>3, <3>1, <3>2, <3>3, <3>4, <4>1, LastUdpDrop
      <4>3. q.count >= 1 + Needs(q)
        BY <3>6, <4>2 DEF Needs
      <4> QED BY <3>6, <4>2, <4>3 DEF LastUdp
    <3>12. Net(q)
      BY <3>9, <3>10, <3>11 DEF Net
    <3>13. Disconnected(q, s)
      BY <1>2, <2>1, <2>3, <3>5, <3>6, <3>11 DEF Disconnected
    <3> QED BY <3>12, <3>13
  <2> QED BY <2>2, <2>3
<1> QED BY <1>2, <1>4, <1>6, <1>7 DEF Firm

-------------------------------------------------------------------------------
(* The state machine. *)

SameNet(q, s) ==
  /\ SameTable(q, s) /\ q.tcpFdev = s.tcpFdev /\ q.udpFdev = s.udpFdev /\ q.udpSock = s.udpSock
  /\ q.sock = s.sock /\ q.st = s.st /\ q.greeted = s.greeted

\* what is read from a socket and what the game makes of it leave the table alone
LEMMA NetKept ==
  ASSUME NEW s, NEW q, Net(s), SameNet(q, s), s.past \subseteq q.past,
         q.link.q = s.link.q \/ s.st = "connected" \/ s.st = "closed",
         q.dgrams = s.dgrams \/ s.udpSock # 0,
         q.welcomed = s.welcomed \/ s.st = "connected",
         q.dgrams # <<>> => q.game = "player" \/ "reconnect" \in q.past,
         q.welcomed => q.game # "none"
  PROVE  Net(q)
<1>1. Socket(q)
  BY DEF Net, Socket, SameNet, SameTable
<1>2. Regular(s) => Regular(q)
  BY DEF Regular, SameNet, SameTable
<1>3. LastUdp(s) => LastUdp(q)
  BY DEF LastUdp, Needs, SameNet, SameTable
<1> QED BY <1>1, <1>2, <1>3 DEF Net

\* the state machine, with the current state given up for another one
Moved(q, s, to) ==
  /\ q.cur = to /\ q.game = s.game
  /\ s.cur = to => q.prev = s.prev /\ q.pending = s.pending /\ q.ready = s.ready
  /\ s.cur # to => /\ q.prev = s.cur /\ (q.pending <=> s.pending \/ s.cur = "game")
                   /\ q.ready = s.ready \cup {to}

\* waapp_state_switch to another state than the game
LEMMA SwitchFine ==
  ASSUME NEW s, Fine(s), NEW to \in {"main_menu", "map_editor"}, NEW res \in {"wouldblock", "ok", "fail"},
         NEW q, q = waapp_state_switch(s, to, res)
  PROVE  Fine(q) /\ Onward(q, s) /\ Moved(q, s, to) /\ (~Ended(q) => Connected(q, s))
<1>1. s \in Clients /\ Proper(s) /\ Explained(s) /\ (~Ended(s) => Kept(s) /\ Net(s))
  BY DEF Fine, Proper
<1>2. CASE s.cur = to
  <2>1. q = s
    BY <1>2 DEF waapp_state_switch
  <2> QED BY <1>2, <2>1 DEF Onward, SameEnd, Moved, Connected, SameTable, SameUdp
<1>3. CASE s.cur # to
  <2>1. PICK p \in BOOLEAN : p = (s.pending \/ s.cur = "game")
    OBVIOUS
  <2>2. PICK r \in SUBSET States : r = s.ready \cup {to}
    BY <1>1, ClientFields DEF States
  <2>3. PICK was \in States \cup {"none"} : was = s.cur
    BY <1>1, ClientFields
  <2> DEFINE left == [s EXCEPT !.prev = was, !.pending = p, !.ready = r]
             in == IF to = "main_menu" /\ s.doConnect THEN client_net_async_connect(left, res) ELSE left
  <2>4. /\ s.game \in {"none", "noplayer", "player"}
        /\ [s EXCEPT !.prev = s.cur, !.pending = @ \/ s.cur = "game",
                     !.game = IF to = "game" /\ "game" \notin s.ready THEN "noplayer" ELSE @,
                     !.ready = @ \cup {to}] = left
    BY <1>1, <2>1, <2>2, <2>3 DEF Clients
  <2>5. q = [in EXCEPT !.cur = to]
    BY <1>3, <2>4, Zenon DEF waapp_state_switch
  <2>6. left \in Clients
    BY <1>1 DEF Clients
  <2>7. /\ left.prev = was /\ left.pending = p /\ left.ready = r /\ left.game = s.game
        /\ SameNet(left, s) /\ SameConn(left, s) /\ SameUdp(left, s) /\ SameRest(left, s)
        /\ left.end = s.end /\ left.cur = s.cur
    BY <1>1 DEF Clients, SameNet, SameTable, SameConn, SameUdp, SameRest
  <2> HIDE DEF left
  <2>8. Fine(left) /\ Onward(left, s)
    <3>1. Onward(left, s)
      BY <2>7 DEF Onward, SameEnd, SameRest
    <3>2. Explained(left) /\ Proper(left)
      BY <1>1, <2>6, <2>7, <3>1, ExplainedKept DEF Proper, SameUdp, SameConn
    <3>3. Kept(s) => Kept(left)
      BY <2>2, <2>7 DEF Kept, SameRest
    <3>4. ASSUME Net(s) PROVE Net(left)
      <4>1. /\ s.dgrams # <<>> => s.game = "player" \/ "reconnect" \in s.past
            /\ s.welcomed => s.game # "none"
        BY <3>4 DEF Net, Socket
      <4> QED BY <2>7, <3>4, <4>1, NetKept DEF SameConn, SameUdp, SameRest
    <3> QED BY <1>1, <2>7, <3>1, <3>2, <3>3, <3>4 DEF Fine, Ended
  <2>9. Fine(in) /\ Onward(in, left) /\ SameApp(in, left) /\ (~Ended(in) => Connected(in, left))
    <3>1. Onward(left, left) /\ SameApp(left, left) /\ Connected(left, left)
      BY DEF Onward, SameEnd, SameApp, Connected, SameTable, SameUdp
    <3>2. CASE to = "main_menu" /\ s.doConnect
      BY <2>8, <3>2, ConnectFine
    <3>3. CASE ~(to = "main_menu" /\ s.doConnect)
      BY <2>8, <3>1, <3>3
    <3> QED BY <3>2, <3>3
  <2> HIDE DEF in
  <2>10. in \in Clients
    BY <2>9 DEF Fine, Proper
  <2>11. q \in Clients
    <3>1. PICK t \in States : t = to
      BY DEF States
    <3>2. q = [in EXCEPT !.cur = t]
      BY <2>5, <3>1
    <3> QED BY <2>10, <3>2 DEF Clients
  <2>12. /\ q.cur = to /\ q.prev = in.prev /\ q.pending = in.pending /\ q.ready = in.ready /\ q.game = in.game
         /\ SameNet(q, in) /\ SameConn(q, in) /\ SameUdp(q, in) /\ SameRest(q, in) /\ q.end = in.end
    BY <2>5, <2>10 DEF Clients, SameNet, SameTable, SameConn, SameUdp, SameRest
  <2>13. Moved(q, s, to)
    BY <1>3, <2>1, <2>2, <2>3, <2>7, <2>9, <2>12 DEF Moved, SameApp
  <2>14. Onward(q, in) /\ Onward(q, s)
    BY <2>8, <2>9, <2>12 DEF Onward, SameEnd, Ended, SameRest
  <2>15. Fine(q)
    <3>1. Explained(q) /\ Proper(q)
      BY <2>9, <2>11, <2>12, <2>14, ExplainedKept DEF Fine, Proper, SameUdp, SameConn
    <3>2. Kept(in) => Kept(q)
      BY <2>12 DEF Kept, SameRest
    <3>3. ASSUME Net(in) PROVE Net(q)
      <4>1. /\ in.dgrams # <<>> => in.game = "player" \/ "reconnect" \in in.past
            /\ in.welcomed => in.game # "none"
        BY <3>3 DEF Net, Socket
      <4> QED BY <2>12, <3>3, <4>1, NetKept DEF SameConn, SameUdp, SameRest
    <3> QED BY <2>9, <2>12, <3>1, <3>2, <3>3 DEF Fine, Ended
  <2>16. ASSUME ~Ended(q) PROVE Connected(q, s)
    <3>1. Connected(in, left)
      BY <2>9, <2>12, <2>16 DEF Ended
    <3>2. /\ left.mem = s.mem /\ left.count = s.count /\ left.sock = s.sock /\ left.st = s.st
          /\ SameUdp(left, s) /\ left.past = s.past /\ left.tcpFdev = s.tcpFdev /\ Needs(left) = Needs(s)
      BY <2>7 DEF SameNet, SameTable, SameRest, Needs
    <3>3. /\ q.mem = in.mem /\ q.count = in.count /\ q.sock = in.sock /\ q.st = in.st
          /\ SameUdp(q, in) /\ q.past = in.past /\ q.tcpFdev = in.tcpFdev /\ Needs(q) = Needs(in)
      BY <2>12 DEF SameNet, SameTable, SameRest, Needs
    <3> QED BY <3>1, <3>2, <3>3 DEF Connected, SameTable, SameUdp
  <2> QED BY <2>13, <2>14, <2>15, <2>16
<1> QED BY <1>2, <1>3

LEMMA MenuMoved ==
  ASSUME NEW s, NEW q, NEW to \in {"main_menu", "map_editor"}, Menu(s), Moved(q, s, to), s.past \subseteq q.past
  PROVE  Menu(q)
<1>1. CASE s.cur = to
  BY <1>1 DEF Menu, Moved
<1>2. CASE s.cur # to
  <2>1. /\ q.cur = to /\ q.game = s.game /\ q.prev = s.cur /\ (q.pending <=> s.pending \/ s.cur = "game")
        /\ q.ready = s.ready \cup {to} /\ to # "game"
    BY <1>2 DEF Moved
  <2> QED BY <1>2, <2>1 DEF Menu
<1> QED BY <1>1, <1>2

\* a game that is cleaned up has no connection any more
LEMMA GameCleaned ==
  ASSUME NEW s, Firm(s), NEW q, q = waapp_state_cleanup(s, "game")
  PROVE  /\ Firm(q) /\ Onward(q, s) /\ SameRest(q, s) /\ q.cur = s.cur /\ q.prev = s.prev
         /\ q.pending = s.pending /\ q.game = "none" /\ q.ready = s.ready \ {"game"}
         /\ ~Ended(q) => Disconnected(q, s)
<1> DEFINE d == client_net_disconnect(s)
<1>1. Firm(d) /\ Onward(d, s) /\ SameApp(d, s) /\ SameRest(d, s) /\ (~Ended(d) => Disconnected(d, s))
  BY DisconnectFirm
<1>2. q = [[d EXCEPT !.game = "none"] EXCEPT !.ready = @ \ {"game"}]
  BY DEF waapp_state_cleanup, game_cleanup
<1> HIDE DEF d
<1>3. d \in Clients
  BY <1>1 DEF Firm, Proper
<1>4. PICK r \in SUBSET States : r = d.ready \ {"game"}
  BY <1>3, ClientFields
<1>5. q = [d EXCEPT !.game = "none", !.ready = r]
  BY <1>2, <1>3, <1>4 DEF Clients
<1>6. q \in Clients
  BY <1>3, <1>5 DEF Clients
<1>7. /\ q.game = "none" /\ q.ready = r /\ q.cur = d.cur /\ q.prev = d.prev /\ q.pending = d.pending
      /\ SameNet(q, d) /\ SameConn(q, d) /\ SameUdp(q, d) /\ SameRest(q, d) /\ q.end = d.end
  BY <1>3, <1>5 DEF Clients, SameNet, SameTable, SameConn, SameUdp, SameRest
<1>8. Onward(q, d) /\ Onward(q, s)
  BY <1>1, <1>7 DEF Onward, SameEnd, Ended, SameRest
<1>9. Explained(q) /\ Proper(q)
  BY <1>1, <1>6, <1>7, <1>8, ExplainedKept DEF Firm, Proper, SameUdp, SameConn
<1>10. ASSUME ~Ended(q) PROVE Disconnected(q, s) /\ Net(q)
  <2>1. Disconnected(d, s) /\ Net(d)
    BY <1>1, <1>7, <1>10 DEF Ended, Firm
  <2>2. q.dgrams = <<>> /\ ~q.welcomed /\ q.dgrams = d.dgrams /\ q.welcomed = d.welcomed /\ q.link.q = d.link.q
    BY <1>7, <2>1 DEF Disconnected, SameUdp, SameConn
  <2>3. Net(q)
    BY <1>7, <2>1, <2>2, NetKept DEF SameRest
  <2>4. Disconnected(q, s)
    BY <1>7, <2>1 DEF Disconnected, SameRest, SameNet, SameTable, SameConn, SameUdp
  <2> QED BY <2>3, <2>4
<1> QED BY <1>1, <1>4, <1>7, <1>8, <1>9, <1>10 DEF Firm, SameApp, SameRest

\* nothing that an event of a batch could miss
Steady(q, s) ==
  /\ SameTable(q, s) /\ SameUdp(q, s) /\ q.sock = s.sock /\ q.st = s.st /\ q.tcpFdev = s.tcpFdev
  /\ s.past \subseteq q.past

\* the cleanup of what was left last
LEMMA CleanupFine ==
  ASSUME NEW s, Fine(s), ~Ended(s) => Menu(s), NEW q, q = CleanupPending(s)
  PROVE  /\ Fine(q) /\ Onward(q, s)
         /\ ~Ended(q) => /\ Menu(q)
                         /\ \/ Steady(q, s) /\ s.ready \cap {"game"} = q.ready \cap {"game"}
                            \/ /\ Disconnected(q, s) /\ "game" \in s.ready /\ "game" \notin q.ready
<1>1. s \in Clients /\ Proper(s) /\ Explained(s) /\ (~Ended(s) => Kept(s) /\ Net(s)) /\ Firm(s)
  BY DEF Fine, Firm, Proper
<1>2. CASE ~s.pending
  <2>1. q = s
    BY <1>2 DEF CleanupPending
  <2> QED BY <1>2, <2>1 DEF Onward, SameEnd, Steady, SameTable, SameUdp
<1>3. CASE s.pending /\ s.prev = "game"
  <2> DEFINE g == waapp_state_cleanup(s, "game")
  <2>1. /\ Firm(g) /\ Onward(g, s) /\ SameRest(g, s) /\ g.cur = s.cur /\ g.prev = s.prev
        /\ g.pending = s.pending /\ g.game = "none" /\ g.ready = s.ready \ {"game"}
        /\ ~Ended(g) => Disconnected(g, s)
    BY <1>1, GameCleaned
  <2>2. q = [g EXCEPT !.pending = FALSE, !.past = IF s.prev = "game" THEN @ ELSE @ \cup {"misclean"}]
    BY <1>3 DEF CleanupPending
  <2> HIDE DEF g
  <2>3. g \in Clients
    BY <2>1 DEF Firm, Proper
  <2>4. q = [g EXCEPT !.pending = FALSE]
    BY <1>3, <2>2, <2>3 DEF Clients
  <2>5. q \in Clients
    BY <2>3, <2>4 DEF Clients
  <2>6. /\ q.pending = FALSE /\ q.game = g.game /\ q.ready = g.ready /\ q.cur = g.cur /\ q.prev = g.prev
        /\ SameNet(q, g) /\ SameConn(q, g) /\ SameUdp(q, g) /\ SameRest(q, g) /\ q.end = g.end
    BY <2>3, <2>4 DEF Clients, SameNet, SameTable, SameConn, SameUdp, SameRest
  <2>7. Onward(q, g) /\ Onward(q, s)
    BY <2>1, <2>6 DEF Onward, SameEnd, Ended, SameRest
  <2>8. Explained(q) /\ Proper(q)
    BY <2>1, <2>5, <2>6, <2>7, ExplainedKept DEF Firm, Proper, SameUdp, SameConn
  <2>9. ASSUME ~Ended(q)
        PROVE  Kept(q) /\ Net(q) /\ Menu(q) /\ Disconnected(q, s) /\ "game" \in s.ready /\ "game" \notin q.ready
    <3>1. ~Ended(s) /\ ~Ended(g) /\ Kept(s) /\ Menu(s)
      BY <1>1, <2>1, <2>6, <2>9 DEF Onward, SameEnd, Ended
    <3>2. Disconnected(g, s) /\ Net(g)
      BY <2>1, <3>1 DEF Firm
    <3>3. Disconnected(q, s)
      BY <2>6, <3>2 DEF Disconnected, SameRest, SameNet, SameTable, SameConn, SameUdp
    <3>4. q.dgrams = <<>> /\ ~q.welcomed /\ q.dgrams = g.dgrams /\ q.welcomed = g.welcomed /\ q.link.q = g.link.q
      BY <2>6, <3>2 DEF Disconnected, SameUdp, SameConn
    <3>5. Net(q)
      BY <2>6, <3>2, <3>4, NetKept DEF SameRest
    <3>6. Kept(q)
      BY <2>1, <2>6, <3>1 DEF Kept, SameRest
    <3>7. "game" \in s.ready /\ "game" \notin q.ready /\ q.game = "none"
      BY <1>3, <2>1, <2>6, <3>1 DEF Menu
    <3>8. q.cur = s.cur /\ q.prev = s.prev /\ ~q.pending /\ s.cur # "game"
      BY <1>3, <2>1, <2>6, <3>1 DEF Menu
    <3>9. Menu(q)
      BY <2>1, <2>6, <3>1, <3>7, <3>8 DEF Menu
    <3> QED BY <3>3, <3>5, <3>6, <3>7, <3>9
  <2> QED BY <2>7, <2>8, <2>9 DEF Fine
<1>4. CASE s.pending /\ s.prev # "game"
  <2>1. PICK r \in SUBSET States : r = s.ready \ {s.prev}
    BY <1>1, ClientFields
  <2>2. PICK p \in SUBSET Pasts : p = s.past \cup {"misclean"}
    BY <1>1, ClientFields DEF Pasts
  <2>3. q = [s EXCEPT !.ready = r, !.pending = FALSE, !.past = p]
    BY <1>1, <1>4, <2>1, <2>2 DEF CleanupPending, waapp_state_cleanup, Clients
  <2>4. q \in Clients
    BY <1>1, <2>3 DEF Clients
  <2>5. /\ q.pending = FALSE /\ q.game = s.game /\ q.ready = r /\ q.cur = s.cur /\ q.prev = s.prev
        /\ q.past = p /\ q.saved = s.saved
        /\ SameNet(q, s) /\ SameConn(q, s) /\ SameUdp(q, s) /\ q.end = s.end
    BY <1>1, <2>3 DEF Clients, SameNet, SameTable, SameConn, SameUdp
  <2>6. Onward(q, s)
    BY <2>2, <2>5 DEF Onward, SameEnd
  <2>7. Explained(q) /\ Proper(q)
    BY <1>1, <2>4, <2>5, <2>6, ExplainedKept DEF Proper, SameUdp, SameConn
  <2>8. ASSUME ~Ended(q) PROVE Kept(q) /\ Net(q) /\ Menu(q)
    <3>1. ~Ended(s) /\ Kept(s) /\ Net(s) /\ Menu(s)
      BY <1>1, <2>5, <2>8 DEF Ended
    <3>2. /\ s.dgrams # <<>> => s.game = "player" \/ "reconnect" \in s.past
          /\ s.welcomed => s.game # "none"
      BY <3>1 DEF Net, Socket
    <3>3. Net(q)
      BY <2>2, <2>5, <3>1, <3>2, NetKept DEF SameConn, SameUdp
    <3>4. Kept(q) /\ Menu(q)
      BY <1>4, <2>1, <2>2, <2>5, <3>1 DEF Kept, Menu
    <3> QED BY <3>3, <3>4
  <2>9. Steady(q, s) /\ s.ready \cap {"game"} = q.ready \cap {"game"}
    BY <1>4, <2>1, <2>2, <2>5 DEF Steady, SameNet
  <2> QED BY <2>6, <2>7, <2>8, <2>9 DEF Fine
<1> QED BY <1>2, <1>3, <1>4

\* what a click does in an update
LEMMA ClickedFine ==
  ASSUME NEW s, Fine(s), ~Ended(s), Menu(s), NEW click \in Clicks, NEW res \in {"wouldblock", "ok", "fail"},
         NEW q, q = Clicked(s, click, res)
  PROVE  /\ Fine(q) /\ Onward(q, s)
         /\ ~Ended(q) => /\ Menu(q) /\ Connected(q, s)
                         /\ s.ready \cap {"game"} = q.ready \cap {"game"}
<1>1. s \in Clients /\ Proper(s) /\ Explained(s) /\ Kept(s) /\ Net(s)
  BY DEF Fine, Proper
<1>2. CASE q = s
  BY <1>2 DEF Onward, SameEnd, Connected, SameTable, SameUdp
<1>3. CASE q = [s EXCEPT !.run = FALSE]
  <2>1. q \in Clients
    BY <1>1, <1>3 DEF Clients
  <2>2. /\ SameNet(q, s) /\ SameConn(q, s) /\ SameUdp(q, s) /\ SameApp(q, s)
        /\ q.saved = s.saved /\ q.past = s.past /\ q.end = s.end
    BY <1>1, <1>3 DEF Clients, SameNet, SameTable, SameConn, SameUdp, SameApp
  <2>3. Onward(q, s)
    BY <2>2 DEF Onward, SameEnd
  <2>4. Explained(q) /\ Proper(q)
    BY <1>1, <2>1, <2>2, <2>3, ExplainedKept DEF Proper, SameUdp, SameConn
  <2>5. /\ s.dgrams # <<>> => s.game = "player" \/ "reconnect" \in s.past
        /\ s.welcomed => s.game # "none"
    BY <1>1 DEF Net, Socket
  <2>6. Net(q)
    BY <1>1, <2>2, <2>5, NetKept DEF SameConn, SameUdp, SameApp
  <2>7. Kept(q) /\ Menu(q)
    BY <1>1, <2>2 DEF Kept, Menu, SameApp
  <2>8. Connected(q, s)
    BY <2>2 DEF Connected, SameNet
  <2> QED BY <2>2, <2>3, <2>4, <2>6, <2>7, <2>8 DEF Fine, SameApp
<1>4. CASE q = client_net_async_connect(s, res)
  <2>1. Fine(q) /\ Onward(q, s) /\ SameApp(q, s) /\ (~Ended(q) => Connected(q, s))
    BY <1>4, ConnectFine
  <2>2. Menu(q)
    BY <2>1 DEF Menu, SameApp, Onward
  <2> QED BY <2>1, <2>2 DEF SameApp
<1>5. ASSUME NEW to \in {"main_menu", "map_editor"}, q = waapp_state_switch(s, to, res)
      PROVE  /\ Fine(q) /\ Onward(q, s)
             /\ ~Ended(q) => /\ Menu(q) /\ Connected(q, s)
                             /\ s.ready \cap {"game"} = q.ready \cap {"game"}
  <2>1. Fine(q) /\ Onward(q, s) /\ Moved(q, s, to) /\ (~Ended(q) => Connected(q, s))
    BY <1>5, SwitchFine
  <2>2. Menu(q)
    BY <2>1, MenuMoved DEF Onward
  <2>3. q.ready = s.ready \/ q.ready = s.ready \cup {to}
    BY <2>1 DEF Moved
  <2>4. s.ready \cap {"game"} = q.ready \cap {"game"}
    BY <2>3
  <2> QED BY <2>1, <2>2, <2>4
<1>6. CASE click = "quit"
  <2>1. q = [s EXCEPT !.run = FALSE]
    BY <1>6 DEF Clicked
  <2> QED BY <1>3, <2>1
<1>7. CASE click = "connect"
  <2>1. q = client_net_async_connect(s, res) \/ q = s
    BY <1>7 DEF Clicked
  <2> QED BY <1>2, <1>4, <2>1
<1>8. CASE click = "editor"
  <2>1. q = waapp_state_switch(s, "map_editor", res) \/ q = s
    BY <1>8 DEF Clicked
  <2> QED BY <1>2, <1>5, <2>1
<1>9. CASE click = "menu"
  <2>1. q = waapp_state_switch(s, "main_menu", res) \/ q = s
    <3>1. CASE s.cur = "map_editor"
      BY <1>9, <3>1 DEF Clicked
    <3>2. CASE s.cur = "game" /\ s.game = "player"
      BY <1>9, <3>2 DEF Clicked
    <3>3. CASE s.cur # "map_editor" /\ ~(s.cur = "game" /\ s.game = "player")
      BY <1>9, <3>3 DEF Clicked
    <3> QED BY <3>1, <3>2, <3>3
  <2> QED BY <1>2, <1>5, <2>1
<1>10. CASE click = "none"
  <2>1. q = s
    BY <1>10 DEF Clicked
  <2> QED BY <1>2, <2>1
<1> QED BY <1>6, <1>7, <1>8, <1>9, <1>10 DEF Clicks

\* an end that the past explains
LEMMA UndefinedFine ==
  ASSUME NEW s, Fine(s), NEW why \in Ends \ {"no"}, NEW q, q = Undefined(s, why),
         ~Ended(s) =>
           /\ why \in {"no_player", "freed_name"} => "reconnect" \in s.past
           /\ why = "no_menu" => "misclean" \in s.past
           /\ why = "blocked" => "hangup" \in s.past
           /\ why = "moved" => "twice" \in s.past
           /\ why \in {"no_socket", "no_write", "unset", "no_close"} =>
                s.past \cap {"hangup", "reconnect", "twice", "left"} # {}
  PROVE  Fine(q) /\ Onward(q, s) /\ Ended(q)
<1>1. s \in Clients /\ Proper(s) /\ Explained(s)
  BY DEF Fine, Proper
<1>2. /\ q \in Clients /\ Ended(q) /\ Onward(q, s) /\ (~Ended(s) => q.end = why)
      /\ SameConn(q, s) /\ SameUdp(q, s) /\ SameRest(q, s)
  BY <1>1, UndefinedEffect
<1>3. Proper(q)
  BY <1>1, <1>2 DEF Proper, SameConn, SameUdp
<1>4. Explained(q)
  <2>1. CASE Ended(s)
    BY <1>1, <1>2, <2>1, ExplainedKept DEF Onward, SameEnd
  <2>2. CASE ~Ended(s)
    BY <1>1, <1>2, <2>2 DEF Explained, SameRest
  <2> QED BY <2>1, <2>2
<1> QED BY <1>2, <1>3, <1>4 DEF Fine

\* waapp_state_update connects, or leaves a game, or neither, but not both
LEMMA UpdateFine ==
  ASSUME NEW s, Fine(s), ~Ended(s), Menu(s), NEW click \in Clicks, NEW res \in {"wouldblock", "ok", "fail"},
         NEW q, q = waapp_state_update(s, click, res)
  PROVE  /\ Fine(q) /\ Onward(q, s)
         /\ ~Ended(q) =>
              /\ Menu(q)
              /\ \E n \in Clients :
                   /\ Connected(n, s) /\ Onward(n, s)
                   /\ \/ Steady(q, n) /\ s.ready \cap {"game"} = q.ready \cap {"game"}
                      \/ Disconnected(q, n) /\ "game" \in s.ready /\ "game" \notin q.ready
<1> DEFINE n == IF s.bot /\ s.cur = "game" /\ s.game # "player"
                THEN Undefined(s, "no_player") ELSE Clicked(s, click, res)
<1>1. s \in Clients /\ Kept(s)
  BY DEF Fine, Proper
<1>2. /\ Fine(n) /\ Onward(n, s)
      /\ ~Ended(n) => Menu(n) /\ Connected(n, s) /\ s.ready \cap {"game"} = n.ready \cap {"game"}
  <2>1. CASE s.bot /\ s.cur = "game" /\ s.game # "player"
    <3>1. "reconnect" \in s.past
      BY <1>1, <2>1, ClientFields DEF Menu, Kept
    <3>2. n = Undefined(s, "no_player") /\ "no_player" \in Ends \ {"no"}
      BY <2>1 DEF Ends
    <3> HIDE DEF n
    <3> QED BY <3>1, <3>2, UndefinedFine
  <2>2. CASE ~(s.bot /\ s.cur = "game" /\ s.game # "player")
    <3>1. n = Clicked(s, click, res)
      BY <2>2
    <3> HIDE DEF n
    <3> QED BY <3>1, ClickedFine
  <2> QED BY <2>1, <2>2
<1>3. q = CleanupPending(n)
  BY DEF waapp_state_update
<1> HIDE DEF n
<1>4. /\ Fine(q) /\ Onward(q, n)
      /\ ~Ended(q) => /\ Menu(q)
                      /\ \/ Steady(q, n) /\ n.ready \cap {"game"} = q.ready \cap {"game"}
                         \/ Disconnected(q, n) /\ "game" \in n.ready /\ "game" \notin q.ready
  BY <1>2, <1>3, CleanupFine
<1>5. Onward(q, s)
  BY <1>2, <1>4 DEF Onward, SameEnd, Ended
<1>6. n \in Clients /\ (~Ended(q) => ~Ended(n))
  BY <1>2, <1>4 DEF Onward, SameEnd, Ended, Fine, Proper
<1> QED BY <1>2, <1>4, <1>5, <1>6

-------------------------------------------------------------------------------
(* What the sockets bring. *)

LEMMA TailType ==
  ASSUME NEW S, NEW x \in Seq(S), x # <<>>
  PROVE  /\ Tail(x) \in Seq(S) /\ Len(Tail(x)) = Len(x) - 1 /\ Head(x) \in S
         /\ \A i \in 1..(Len(x) - 1) : Tail(x)[i] = x[i + 1]
  OBVIOUS

\* a welcome that is read
LEMMA WelcomeFine ==
  ASSUME NEW s, Fine(s), ~Ended(s), Menu(s), s.st = "connected", NEW res, NEW q, q = Welcome(s, res)
  PROVE  Fine(q) /\ Onward(q, s) /\ Menu(q) /\ Steady(q, s)
<1>1. s \in Clients /\ Proper(s) /\ Explained(s) /\ Kept(s) /\ Net(s)
  BY DEF Fine, Proper
<1> DEFINE w == waapp_state_switch(s, "game", res)
<1>2. /\ w \in Clients /\ SameNet(w, s) /\ SameConn(w, s) /\ SameUdp(w, s) /\ SameRest(w, s) /\ w.end = s.end
      /\ w.cur = "game" /\ w.prev # "game" /\ w.ready = s.ready \cup {"game"}
  <2>1. CASE s.cur = "game"
    <3>1. w = s
      BY <2>1 DEF waapp_state_switch
    <3> HIDE DEF w
    <3> QED BY <1>1, <2>1, <3>1 DEF Menu, SameNet, SameTable, SameConn, SameUdp, SameRest
  <2>2. CASE s.cur # "game"
    <3>1. PICK p \in BOOLEAN : p = (s.pending \/ s.cur = "game")
      OBVIOUS
    <3>2. PICK r \in SUBSET States : r = s.ready \cup {"game"}
      BY <1>1, ClientFields DEF States
    <3>3. PICK was \in States \cup {"none"}, to \in States : was = s.cur /\ to = "game"
      BY <1>1, ClientFields DEF States
    <3>4. PICK g \in {"none", "noplayer", "player"} : g = IF "game" \notin s.ready THEN "noplayer" ELSE s.game
      BY <1>1, ClientFields
    <3> DEFINE left == [s EXCEPT !.prev = was, !.pending = p, !.game = g, !.ready = r]
    <3>5. [s EXCEPT !.prev = s.cur, !.pending = @ \/ s.cur = "game",
                    !.game = IF "game" = "game" /\ "game" \notin s.ready THEN "noplayer" ELSE @,
                    !.ready = @ \cup {"game"}] = left
      BY <1>1, <3>1, <3>2, <3>3, <3>4 DEF Clients
    <3>6. w = [left EXCEPT !.cur = to]
      BY <2>2, <3>3, <3>5, Zenon DEF waapp_state_switch
    <3> HIDE DEF w
    <3>7. w = [s EXCEPT !.prev = was, !.pending = p, !.game = g, !.ready = r, !.cur = to]
      BY <1>1, <3>6 DEF Clients
    <3>8. w \in Clients
      <4>1. left \in Clients
        BY <1>1 DEF Clients
      <4> HIDE DEF left
      <4> QED BY <3>6, <4>1 DEF Clients
    <3>9. /\ SameNet(w, s) /\ SameConn(w, s) /\ SameUdp(w, s) /\ SameRest(w, s) /\ w.end = s.end
          /\ w.cur = to /\ w.prev = was /\ w.ready = r
      BY <1>1, <3>7 DEF Clients, SameNet, SameTable, SameConn, SameUdp, SameRest
    <3> QED BY <2>2, <3>2, <3>3, <3>8, <3>9
  <2> QED BY <2>1, <2>2
<1>3. q = [w EXCEPT !.game = "player", !.welcomed = TRUE]
  BY DEF Welcome
<1> HIDE DEF w
<1>4. q \in Clients
  BY <1>2, <1>3 DEF Clients
<1>5. /\ q.game = "player" /\ q.welcomed = TRUE /\ q.cur = w.cur /\ q.prev = w.prev /\ q.ready = w.ready
      /\ q.link = w.link /\ SameNet(q, w) /\ SameUdp(q, w) /\ SameRest(q, w) /\ q.end = w.end
  BY <1>2, <1>3 DEF Clients, SameNet, SameTable, SameUdp, SameRest
<1>6. /\ SameNet(q, s) /\ q.link = s.link /\ SameUdp(q, s) /\ SameRest(q, s) /\ q.end = s.end
      /\ q.cur = "game" /\ q.prev # "game" /\ q.ready = s.ready \cup {"game"}
  BY <1>2, <1>5 DEF SameNet, SameTable, SameConn, SameUdp, SameRest
<1>7. Onward(q, s)
  BY <1>6 DEF Onward, SameEnd, SameRest
<1>8. Explained(q) /\ Proper(q)
  BY <1>1, <1>4, <1>6, <1>7, ExplainedKept DEF Proper, SameUdp, SameNet
<1>9. Net(q)
  BY <1>1, <1>5, <1>6, NetKept DEF SameUdp, SameRest
<1>10. Kept(q) /\ Menu(q)
  BY <1>1, <1>5, <1>6 DEF Kept, Menu, SameRest
<1>11. Steady(q, s)
  BY <1>6 DEF Steady, SameNet, SameRest
<1> QED BY <1>7, <1>8, <1>9, <1>10, <1>11 DEF Fine

\* a connection that stands is not made again
LEMMA ShutdownFine ==
  ASSUME NEW s, Fine(s), ~Ended(s), Menu(s), s.st = "connected", NEW res \in {"wouldblock", "ok", "fail"},
         NEW q, q = game_server_shutdown(s, res)
  PROVE  Fine(q) /\ Onward(q, s) /\ (~Ended(q) => Menu(q) /\ Steady(q, s))
<1>1. s \in Clients /\ Kept(s)
  BY DEF Fine, Proper
<1>2. CASE "main_menu" \notin s.ready
  <2>1. q = Undefined(s, "no_menu") /\ "no_menu" \in Ends \ {"no"} /\ "misclean" \in s.past
    BY <1>1, <1>2 DEF game_server_shutdown, Ends, Kept
  <2> QED BY <2>1, UndefinedFine
<1>3. CASE "main_menu" \in s.ready
  <2>1. PICK to \in {"main_menu", "map_editor"} : to = "main_menu"
    OBVIOUS
  <2>2. q = waapp_state_switch(s, to, res)
    BY <1>3, <2>1 DEF game_server_shutdown
  <2>3. Fine(q) /\ Onward(q, s) /\ Moved(q, s, to) /\ (~Ended(q) => Connected(q, s))
    BY <2>2, SwitchFine
  <2>4. Menu(q)
    BY <2>3, MenuMoved DEF Onward
  <2>5. Connected(q, s) => Steady(q, s)
    BY DEF Connected, Steady
  <2> QED BY <2>3, <2>4, <2>5
<1> QED BY <1>2, <1>3

\* one message of the TCP socket
LEMMA TcpReadFine ==
  ASSUME NEW s, Fine(s), ~Ended(s), Menu(s), NEW sock, NEW res \in {"wouldblock", "ok", "fail"},
         NEW q, q = tcp_read(s, sock, res)
  PROVE  Fine(q) /\ Onward(q, s) /\ (~Ended(q) => Menu(q) /\ Steady(q, s))
<1>1. s \in Clients /\ Proper(s) /\ Explained(s) /\ Kept(s) /\ Net(s)
  BY DEF Fine, Proper
<1>2. CASE sock # s.sock \/ s.st = "closed" \/ s.link.q = <<>>
  <2>1. q = s
    BY <1>2 DEF tcp_read
  <2> QED BY <2>1 DEF Onward, SameEnd, Steady, SameTable, SameUdp
<1>3. CASE ~(sock # s.sock \/ s.st = "closed" \/ s.link.q = <<>>)
  <2>1. s.st = "connected"
    BY <1>1, <1>3, ClientFields DEF Net, Socket
  <2> DEFINE l == [s.link EXCEPT !.q = Tail(@)]
             d == [s EXCEPT !.link.q = Tail(@)]
  <2>2. l \in Links
    <3>1. s.link \in Links /\ s.link.q \in Seq({"welcome", "shutdown"}) /\ s.link.q # <<>>
      BY <1>1, <1>3, ClientFields, LinkFields
    <3>2. PICK t \in Seq({"welcome", "shutdown"}) : t = Tail(s.link.q)
      BY <3>1, TailType
    <3> QED BY <3>1, <3>2 DEF Links
  <2>3. d = [s EXCEPT !.link = l]
    BY <1>1 DEF Clients
  <2> HIDE DEF l
  <2>4. d \in Clients
    BY <1>1, <2>2, <2>3 DEF Clients
  <2>5. /\ SameNet(d, s) /\ SameApp(d, s) /\ SameUdp(d, s) /\ d.welcomed = s.welcomed
        /\ d.saved = s.saved /\ d.past = s.past /\ d.end = s.end
    BY <1>1, <2>3 DEF Clients, SameNet, SameTable, SameApp, SameUdp
  <2>6. \/ q = Welcome(d, res)
        \/ q = game_server_shutdown(d, res)
    BY <1>3 DEF tcp_read
  <2> HIDE DEF d
  <2>7. Onward(d, s)
    BY <2>5 DEF Onward, SameEnd
  <2>8. Explained(d) /\ Proper(d)
    BY <1>1, <2>4, <2>5, <2>7, ExplainedKept DEF Proper, SameUdp, SameNet
  <2>9. Net(d)
    <3>1. /\ s.dgrams # <<>> => s.game = "player" \/ "reconnect" \in s.past
          /\ s.welcomed => s.game # "none"
      BY <1>1 DEF Net, Socket
    <3> QED BY <1>1, <2>1, <2>5, <3>1, NetKept DEF SameUdp, SameApp
  <2>10. Kept(d) /\ Menu(d) /\ ~Ended(d) /\ d.st = "connected"
    BY <1>1, <2>1, <2>5 DEF Kept, Menu, SameApp, Ended, SameNet
  <2>11. Fine(q) /\ Onward(q, d) /\ (~Ended(q) => Menu(q) /\ Steady(q, d))
    <3>1. Fine(d)
      BY <2>8, <2>9, <2>10 DEF Fine
    <3>2. CASE q = Welcome(d, res)
      BY <2>10, <3>1, <3>2, WelcomeFine
    <3>3. CASE q = game_server_shutdown(d, res)
      BY <2>10, <3>1, <3>3, ShutdownFine
    <3> QED BY <2>6, <3>2, <3>3
  <2>12. Onward(q, s) /\ (Steady(q, d) => Steady(q, s))
    BY <2>5, <2>7, <2>11 DEF Onward, SameEnd, Ended, Steady, SameNet, SameTable, SameUdp
  <2> QED BY <2>11, <2>12
<1> QED BY <1>2, <1>3

\* another connection, or none, in the place of the one that is lost
Reconnected(q, s) ==
  /\ q.st # "closed" /\ s.past \cup {"reconnect"} \subseteq q.past
  /\ q.st = "fresh" => q.tcpFdev = 0
  /\ "hangup" \notin s.past /\ (s.st # "fresh" \/ s.tcpFdev = 0) =>
       q.count + Needs(s) >= s.count + Needs(q)

\* do_reconnect disconnects and connects anew
LEMMA ReconnectFine ==
  ASSUME NEW s, Fine(s), ~Ended(s), Menu(s), s.game = "player" \/ "reconnect" \in s.past,
         NEW res \in {"wouldblock", "ok", "fail"}, NEW q, q = do_reconnect(s, res)
  PROVE  Fine(q) /\ Onward(q, s) /\ (~Ended(q) => Menu(q) /\ Reconnected(q, s))
<1>1. s \in Clients /\ Kept(s) /\ Net(s) /\ Firm(s)
  BY DEF Fine, Proper, Firm
<1>2. CASE s.game # "player"
  <2>1. q = Undefined(s, "no_player") /\ "no_player" \in Ends \ {"no"} /\ "reconnect" \in s.past
    BY <1>2 DEF do_reconnect, Ends
  <2> QED BY <2>1, UndefinedFine
<1>3. CASE s.game = "player"
  <2> DEFINE d == client_net_disconnect(s)
             x == client_net_async_connect(d, res)
  <2>1. Firm(d) /\ Onward(d, s) /\ SameApp(d, s) /\ SameRest(d, s) /\ (~Ended(d) => Disconnected(d, s))
    BY <1>1, DisconnectFirm
  <2>2. q = [x EXCEPT !.saved = "name", !.game = "noplayer", !.past = @ \cup {"reconnect"}]
    BY <1>3 DEF do_reconnect
  <2> HIDE DEF d
  <2>3. Fine(d)
    <3>1. Kept(d)
      BY <1>1, <2>1 DEF Kept, SameApp, SameRest
    <3> QED BY <2>1, <3>1 DEF Fine, Firm
  <2>4. Fine(x) /\ Onward(x, d) /\ SameApp(x, d) /\ (~Ended(x) => Connected(x, d))
    BY <2>3, ConnectFine
  <2> HIDE DEF x
  <2>5. x \in Clients /\ d \in Clients
    BY <2>3, <2>4 DEF Fine, Proper
  <2>6. PICK p \in SUBSET Pasts : p = x.past \cup {"reconnect"}
    BY <2>5, ClientFields DEF Pasts
  <2>7. q = [x EXCEPT !.saved = "name", !.game = "noplayer", !.past = p]
    BY <2>2, <2>5, <2>6 DEF Clients
  <2>8. q \in Clients
    <3>1. x \in Clients
      BY <2>5
    <3> QED BY <2>7, <3>1 DEF Clients
  <2>9. /\ q.saved = "name" /\ q.game = "noplayer" /\ q.past = p /\ q.cur = x.cur /\ q.prev = x.prev
        /\ q.pending = x.pending /\ q.ready = x.ready
        /\ SameNet(q, x) /\ SameConn(q, x) /\ SameUdp(q, x) /\ q.end = x.end
    BY <2>5, <2>7 DEF Clients, SameNet, SameTable, SameConn, SameUdp
  <2>10. Onward(q, x) /\ Onward(q, s)
    BY <2>1, <2>4, <2>6, <2>9 DEF Onward, SameEnd, Ended
  <2>11. Explained(q) /\ Proper(q)
    BY <2>4, <2>8, <2>9, <2>10, ExplainedKept DEF Fine, Proper, SameUdp, SameConn
  <2>12. ASSUME ~Ended(q) PROVE Kept(q) /\ Net(q) /\ Menu(q) /\ Reconnected(q, s)
    <3>1. ~Ended(x) /\ ~Ended(d) /\ Kept(x) /\ Net(x)
      BY <2>4, <2>9, <2>12 DEF Onward, SameEnd, Ended, Fine
    <3>2. Disconnected(d, s) /\ Connected(x, d)
      BY <2>1, <2>4, <3>1
    <3>3. Net(q)
      BY <2>6, <2>9, <3>1, NetKept DEF SameConn, SameUdp
    <3>4. Kept(q)
      BY <2>6, <2>9, <3>1 DEF Kept
    <3>5. Menu(q)
      BY <1>3, <2>1, <2>4, <2>6, <2>9, <2>10 DEF Menu, SameApp, Onward
    <3>6. /\ q.st = x.st /\ q.count = x.count /\ q.tcpFdev = x.tcpFdev /\ Needs(q) = Needs(x)
          /\ d.st = "fresh" /\ d.tcpFdev = 0 /\ d.past = s.past /\ Needs(d) = 0
      BY <2>9, <3>2 DEF SameNet, SameTable, Needs, Disconnected, SameRest
    <3>7. x.st # "closed" /\ (x.st = "fresh" => x.tcpFdev = 0)
      BY <3>2, <3>6 DEF Connected
    <3>8. d.past \subseteq x.past
      BY <2>4 DEF Onward
    <3>9. x.count >= d.count + Needs(x)
      <4>1. x.count \in Nat /\ d.count \in Nat /\ Needs(x) \in Nat
        BY <2>5, ClientFields DEF Needs
      <4>2. CASE SameTable(x, d) /\ x.st = d.st
        <5>1. Needs(x) = 0 /\ x.count = d.count
          BY <3>6, <4>2 DEF Needs, SameTable
        <5> QED BY <4>1, <5>1
      <4>3. CASE x.count + Needs(d) >= d.count + Needs(x)
        BY <3>6, <4>1, <4>3
      <4> QED BY <3>2, <4>2, <4>3 DEF Connected
    <3>10. Reconnected(q, s)
      <4>1. x.count \in Nat /\ d.count \in Nat /\ Needs(x) \in Nat /\ s.count \in Nat /\ Needs(s) \in Nat
        BY <1>1, <2>5, ClientFields DEF Needs
      <4>2. "hangup" \notin s.past /\ (s.st # "fresh" \/ s.tcpFdev = 0) => d.count + Needs(s) >= s.count
        BY <3>2 DEF Disconnected
      <4>3. "hangup" \notin s.past /\ (s.st # "fresh" \/ s.tcpFdev = 0) =>
              q.count + Needs(s) >= s.count + Needs(q)
        BY <3>6, <3>9, <4>1, <4>2
      <4>4. s.past \cup {"reconnect"} \subseteq q.past
        BY <2>6, <2>9, <3>6, <3>8
      <4> QED BY <3>6, <3>7, <4>3, <4>4 DEF Reconnected
    <3> QED BY <3>3, <3>4, <3>5, <3>10
  <2> QED BY <2>10, <2>11, <2>12 DEF Fine
<1> QED BY <1>2, <1>3

\* as Steady, with a datagram less
Level(q, s) ==
  /\ SameTable(q, s) /\ q.udpSock = s.udpSock /\ q.sock = s.sock /\ q.st = s.st /\ q.tcpFdev = s.tcpFdev
  /\ s.past \subseteq q.past

\* one datagram
LEMMA UdpReadFine ==
  ASSUME NEW s, Fine(s), ~Ended(s), Menu(s), NEW sock, NEW res \in {"wouldblock", "ok", "fail"},
         sock = s.udpSock /\ s.dgrams = <<>> => "hangup" \in s.past,
         NEW q, q = udp_read(s, sock, res)
  PROVE  /\ Fine(q) /\ Onward(q, s) /\ (~Ended(q) => Menu(q) /\ (Level(q, s) \/ Reconnected(q, s)))
         /\ sock # s.udpSock => q = s
<1>1. s \in Clients /\ Proper(s) /\ Explained(s) /\ Kept(s) /\ Net(s)
  BY DEF Fine, Proper
<1>2. CASE sock # s.udpSock
  <2>1. q = s
    BY <1>2 DEF udp_read
  <2> QED BY <2>1 DEF Onward, SameEnd, Level, SameTable
<1>3. CASE sock = s.udpSock /\ s.dgrams = <<>>
  <2>1. q = Undefined(s, "blocked") /\ "blocked" \in Ends \ {"no"} /\ "hangup" \in s.past
    BY <1>3 DEF udp_read, Ends
  <2> QED BY <1>3, <2>1, UndefinedFine
<1>4. CASE sock = s.udpSock /\ s.dgrams # <<>>
  <2>1. PICK t \in Seq({"reconnect", "pong"}) : t = Tail(s.dgrams)
    BY <1>1, <1>4, ClientFields, TailType
  <2> DEFINE d == [s EXCEPT !.dgrams = t]
  <2>2. q = do_reconnect(d, res) \/ q = udp_pong(d)
    <3>1. [s EXCEPT !.dgrams = Tail(@)] = d
      BY <1>1, <2>1 DEF Clients
    <3> QED BY <1>4, <3>1, Zenon DEF udp_read
  <2>3. d \in Clients
    BY <1>1 DEF Clients
  <2>4. /\ SameNet(d, s) /\ SameApp(d, s) /\ SameConn(d, s) /\ SameRest(d, s) /\ d.end = s.end
    BY <1>1 DEF Clients, SameNet, SameTable, SameApp, SameConn, SameRest
  <2> HIDE DEF d
  <2>5. Onward(d, s)
    BY <2>4 DEF Onward, SameEnd, SameRest
  <2>6. Explained(d) /\ Proper(d)
    BY <1>1, <2>3, <2>4, <2>5, ExplainedKept DEF Proper, SameNet
  <2>7. d.game = "player" \/ "reconnect" \in d.past
    BY <1>1, <1>4, <2>4 DEF Net, Socket, SameApp, SameRest
  <2>8. Net(d)
    <3>1. s.udpSock # 0 /\ (s.welcomed => s.game # "none")
      BY <1>1, <1>4 DEF Net, Socket
    <3> QED BY <1>1, <2>4, <2>7, <3>1, NetKept DEF SameConn, SameApp, SameRest
  <2>9. Kept(d) /\ Menu(d) /\ ~Ended(d)
    BY <1>1, <2>4 DEF Kept, Menu, SameApp, SameRest, Ended
  <2>10. Fine(d)
    BY <2>6, <2>8, <2>9 DEF Fine
  <2>11. Level(d, s)
    BY <2>4 DEF Level, SameNet, SameRest
  <2>12. CASE q = do_reconnect(d, res)
    <3>1. Fine(q) /\ Onward(q, d) /\ (~Ended(q) => Menu(q) /\ Reconnected(q, d))
      BY <2>7, <2>9, <2>10, <2>12, ReconnectFine
    <3>2. Reconnected(q, d) => Reconnected(q, s)
      BY <2>4 DEF Reconnected, SameNet, SameRest, SameTable, Needs
    <3>3. Onward(q, s)
      BY <2>4, <2>5, <3>1 DEF Onward, SameEnd, Ended
    <3> QED BY <1>4, <3>1, <3>2, <3>3
  <2>13. CASE q = udp_pong(d)
    <3>1. CASE d.game = "player"
      <4>1. q = d
        BY <2>13, <3>1 DEF udp_pong
      <4> QED BY <1>4, <2>5, <2>9, <2>10, <2>11, <4>1
    <3>2. CASE d.game # "player"
      <4>1. q = Undefined(d, "no_player") /\ "no_player" \in Ends \ {"no"} /\ "reconnect" \in d.past
        BY <2>7, <2>13, <3>2 DEF udp_pong, Ends
      <4>2. Fine(q) /\ Onward(q, d) /\ Ended(q)
        BY <2>10, <4>1, UndefinedFine
      <4>3. Onward(q, s)
        BY <2>4, <2>5, <4>2 DEF Onward, SameEnd, Ended
      <4> QED BY <1>4, <4>2, <4>3
    <3> QED BY <3>1, <3>2
  <2> QED BY <2>2, <2>12, <2>13
<1> QED BY <1>2, <1>3, <1>4

-------------------------------------------------------------------------------
(* The parts of an event of the TCP socket. *)

\* a change that only the user or the peer sees
LEMMA HarmlessFine ==
  ASSUME NEW s, Fine(s), NEW q \in Clients, SameNet(q, s), SameApp(q, s), SameUdp(q, s), q.link.q = s.link.q,
         q.welcomed = s.welcomed, q.saved = s.saved, q.past = s.past, q.end = s.end
  PROVE  /\ Fine(q) /\ Onward(q, s) /\ Steady(q, s) /\ (Ended(q) <=> Ended(s))
         /\ Menu(s) => Menu(q)
<1>1. Onward(q, s) /\ (Ended(q) <=> Ended(s))
  BY DEF Onward, SameEnd, Ended
<1>2. Explained(q) /\ Proper(q)
  BY <1>1, ExplainedKept DEF Fine, Proper, SameUdp, SameNet
<1>3. ASSUME Net(s) PROVE Net(q)
  <2>1. /\ s.dgrams # <<>> => s.game = "player" \/ "reconnect" \in s.past
        /\ s.welcomed => s.game # "none"
    BY <1>3 DEF Net, Socket
  <2> QED BY <1>3, <2>1, NetKept DEF SameUdp, SameApp
<1>4. (Kept(s) => Kept(q)) /\ (Menu(s) => Menu(q))
  BY DEF Kept, Menu, SameApp
<1>5. Steady(q, s)
  BY DEF Steady, SameNet
<1> QED BY <1>1, <1>2, <1>3, <1>4, <1>5 DEF Fine

\* a socket that could not connect is replaced; its entry goes
LEMMA NetReplaced ==
  ASSUME NEW s \in Clients, NEW q \in Clients, Net(s), s.st \in {"fresh", "connecting"},
         NEW fd \in 1..Capacity, s.mem[fd].kind = "tcp", "twice" \notin s.past => fd = 2,
         Dropped(q, s, "tcp", s.mem[fd].sock),
         q.sock = s.sock + 1, q.st = "fresh", q.link.q = <<>>, q.greeted = 0, q.welcomed = FALSE,
         q.tcpFdev = s.tcpFdev, SameUdp(q, s), q.past = s.past
  PROVE  Net(q)
<1>1. /\ s.mem \in [1..Capacity -> Fdevs] /\ s.count \in 0..Capacity /\ s.sock \in Nat /\ Capacity \in 3..4
      /\ s.tcpFdev \in 0..(Capacity + 1) /\ q.mem \in [1..Capacity -> Fdevs]
  BY ClientFields, CapacityFacts
<1>2. Socket(s)
  BY DEF Net
<1>3. s.udpSock = 0 /\ s.dgrams = <<>>
  BY <1>2 DEF Socket
<1>4. \A i \in 1..Capacity : /\ q.mem[i].sock \in Nat /\ q.mem[i].sock < q.sock /\ q.mem[i].sock <= q.sock
                             /\ q.mem[i].kind = "udp" => q.mem[i].sock # 0
  <2>1. \A i \in 1..Capacity : q.mem[i] = s.mem[i] \/ (i + 1 \in 1..Capacity /\ q.mem[i] = s.mem[i + 1])
    BY DroppedEntries
  <2>2. \A i \in 1..Capacity : s.mem[i].sock \in Nat /\ s.mem[i].sock <= s.sock
    BY <1>1, <1>2, FdevFields DEF Socket
  <2>3. \A i \in 1..Capacity : s.mem[i].sock < q.sock /\ s.mem[i].sock <= q.sock
    BY <1>1, <2>2
  <2> QED BY <1>2, <2>1, <2>2, <2>3 DEF Socket
<1>5. Socket(q)
  BY <1>1, <1>2, <1>3, <1>4 DEF Socket, SameUdp
<1>6. PICK x : x = s.mem[fd].sock
  OBVIOUS
<1>7. \/ /\ q.count = s.count /\ \A j \in 1..Capacity : q.mem[j] = s.mem[j]
         /\ \A i \in 1..s.count : s.mem[i].kind # "tcp" \/ s.mem[i].sock # x
      \/ \E i \in 1..s.count :
           /\ s.mem[i].kind = "tcp" /\ s.mem[i].sock = x
           /\ \A j \in 1..(i - 1) : s.mem[j].kind # "tcp" \/ s.mem[j].sock # x
           /\ q.count = s.count - 1
           /\ \A j \in 1..Capacity : q.mem[j] = IF i <= j /\ j < s.count THEN s.mem[j + 1] ELSE s.mem[j]
  BY <1>6, DroppedTable
<1>8. ASSUME "twice" \notin q.past PROVE Regular(q)
  <2>1. Regular(s) /\ fd = 2 /\ s.mem[1].kind = "wayland"
    BY <1>8 DEF Net, Regular
  <2>2. CASE s.st = "fresh"
    <3>1. s.count = 1 /\ (s.tcpFdev = 0 \/ (s.tcpFdev = 2 /\ s.mem[2].kind = "tcp"))
      BY <2>1, <2>2 DEF Regular
    <3>2. ~\E i \in 1..s.count : s.mem[i].kind = "tcp"
      BY <2>1, <3>1
    <3>3. q.count = 1 /\ \A j \in 1..Capacity : q.mem[j] = s.mem[j]
      BY <1>7, <3>1, <3>2
    <3>4. q.mem[1] = s.mem[1] /\ q.mem[2] = s.mem[2]
      BY <1>1, <3>3
    <3> QED BY <2>1, <3>1, <3>3, <3>4 DEF Regular
  <2>3. CASE s.st = "connecting"
    <3>1. s.count = 2 /\ s.tcpFdev = 2
      BY <2>1, <2>3 DEF Regular
    <3>2. q.count = 1 /\ q.mem[1] = s.mem[1] /\ q.mem[2] = s.mem[2]
      BY <1>1, <1>6, <1>7, <2>1, <3>1
    <3> QED BY <2>1, <3>1, <3>2 DEF Regular
  <2> QED BY <2>2, <2>3
<1>9. ASSUME "hangup" \notin q.past PROVE LastUdp(q)
  <2>1. /\ s.mem[1].kind = "wayland" /\ s.count >= 1
        /\ \A i \in 1..s.count : s.mem[i].kind # "udp"
    BY <1>1, <1>9 DEF Net, LastUdp, Needs
  <2>2. /\ q.mem[1].kind = "wayland" /\ q.count >= 1
        /\ \A i \in 1..q.count : q.mem[i].kind # "udp"
    <3>1. CASE q.count = s.count /\ \A j \in 1..Capacity : q.mem[j] = s.mem[j]
      <4>1. 1 \in 1..Capacity /\ \A j \in 1..s.count : j \in 1..Capacity
        BY <1>1
      <4>2. q.mem[1] = s.mem[1] /\ \A j \in 1..s.count : q.mem[j] = s.mem[j]
        BY <3>1, <4>1
      <4> QED BY <2>1, <3>1, <4>2
    <3>2. ASSUME NEW i \in 1..s.count, s.mem[i].kind = "tcp", q.count = s.count - 1,
                 \A j \in 1..Capacity : q.mem[j] = IF i <= j /\ j < s.count THEN s.mem[j + 1] ELSE s.mem[j]
          PROVE  /\ q.mem[1].kind = "wayland" /\ q.count >= 1
                 /\ \A j \in 1..q.count : q.mem[j].kind # "udp"
      <4>1. i >= 2 /\ s.count >= 2
        BY <1>1, <2>1, <3>2
      <4>2. \A j \in 1..q.count : j \in 1..Capacity /\ j \in 1..s.count /\ j + 1 \in 1..s.count
        BY <1>1, <3>2
      <4>3. q.mem[1] = s.mem[1]
        BY <1>1, <3>2, <4>1
      <4>4. \A j \in 1..q.count : q.mem[j] = s.mem[j] \/ q.mem[j] = s.mem[j + 1]
        BY <3>2, <4>2
      <4>5. \A j \in 1..q.count : q.mem[j].kind # "udp"
        BY <2>1, <4>2, <4>4
      <4>6. q.count >= 1
        BY <1>1, <3>2, <4>1
      <4> QED BY <2>1, <4>3, <4>5, <4>6
    <3> QED BY <1>7, <3>1, <3>2
  <2>3. q.count >= 1 + Needs(q)
    BY <2>2 DEF Needs
  <2> QED BY <2>2, <2>3 DEF LastUdp
<1> QED BY <1>5, <1>8, <1>9 DEF Net

\* tcp_error on a connection that was refused
LEMMA TcpErrorFine ==
  ASSUME NEW s, Fine(s), ~Ended(s), Menu(s), s.st # "closed",
         NEW fd \in 1..Capacity, s.mem[fd].kind = "tcp", "twice" \notin s.past => fd = 2,
         NEW q, q = tcp_error(s, fd)
  PROVE  /\ Fine(q) /\ Onward(q, s)
         /\ ~Ended(q) => /\ Menu(q) /\ q.past = s.past
                         /\ (s.st = "connected" /\ Steady(q, s)) \/ (s.st # "connected" /\ q.st = "fresh")
<1>1. s \in Clients /\ Proper(s) /\ Explained(s) /\ Kept(s) /\ Net(s)
  BY DEF Fine, Proper
<1>2. CASE s.st = "connected"
  <2>1. q = s
    BY <1>2 DEF tcp_error
  <2> QED BY <1>2, <2>1 DEF Onward, SameEnd, Steady, SameTable, SameUdp
<1>3. CASE s.st # "connected"
  <2> DEFINE mm == IF "main_menu" \in s.ready THEN s ELSE Undefined(s, "no_menu")
             d == client_net_del_fdevent(mm, s.mem[fd].kind, s.mem[fd].sock)
  <2>1. q = ssp_tcp_sock_create(d)
    BY <1>3 DEF tcp_error
  <2>2. /\ Fine(mm) /\ Onward(mm, s) /\ (~Ended(mm) => mm = s)
    <3>1. CASE "main_menu" \in s.ready
      BY <3>1 DEF Onward, SameEnd
    <3>2. CASE "main_menu" \notin s.ready
      <4>1. mm = Undefined(s, "no_menu") /\ "no_menu" \in Ends \ {"no"} /\ "misclean" \in s.past
        BY <1>1, <3>2 DEF Ends, Kept
      <4> HIDE DEF mm
      <4> QED BY <4>1, UndefinedFine
    <3> QED BY <3>1, <3>2
  <2> HIDE DEF mm
  <2>3. mm \in Clients
    BY <2>2 DEF Fine, Proper
  <2>4. /\ d \in Clients /\ d.end = mm.end /\ d.tcpFdev = mm.tcpFdev
        /\ SameApp(d, mm) /\ SameConn(d, mm) /\ SameUdp(d, mm) /\ SameRest(d, mm)
        /\ Dropped(d, mm, s.mem[fd].kind, s.mem[fd].sock)
    BY <2>3, DelEffect DEF Dropped
  <2> HIDE DEF d
  <2>5. /\ q \in Clients /\ NewSock(q, d) /\ q.end = d.end /\ q.tcpFdev = d.tcpFdev
        /\ SameApp(q, d) /\ SameUdp(q, d) /\ SameTable(q, d) /\ SameRest(q, d)
    BY <2>1, <2>4, CreateEffect
  <2>6. q.end = mm.end /\ q.past = mm.past /\ q.sock = mm.sock + 1 /\ SameUdp(q, mm) /\ SameApp(q, mm)
    BY <2>4, <2>5 DEF SameRest, SameUdp, SameApp, SameConn, NewSock
  <2>7. Onward(q, mm) /\ Onward(q, s)
    BY <2>2, <2>6 DEF Onward, SameEnd, Ended
  <2>8. Explained(q) /\ Proper(q)
    <3>1. mm.udpSock <= mm.sock /\ mm.udpSock \in Nat /\ mm.sock \in Nat
      BY <2>2, <2>3, ClientFields DEF Fine, Proper
    <3> QED BY <2>2, <2>5, <2>6, <2>7, <3>1, ExplainedKept DEF Fine, Proper, SameUdp
  <2>9. ASSUME ~Ended(q) PROVE Kept(q) /\ Net(q) /\ Menu(q) /\ q.past = s.past /\ q.st = "fresh"
    <3>1. mm = s
      BY <2>2, <2>6, <2>9 DEF Ended
    <3>2. Kept(q) /\ Menu(q) /\ q.past = s.past
      BY <1>1, <2>4, <2>5, <2>6, <3>1 DEF Kept, Menu, SameApp, SameRest
    <3>3. /\ q.sock = s.sock + 1 /\ q.st = "fresh" /\ q.link.q = <<>> /\ q.greeted = 0 /\ q.welcomed = FALSE
          /\ q.tcpFdev = s.tcpFdev /\ SameUdp(q, s)
      BY <2>4, <2>5, <2>6, <3>1, FreshLinkFacts DEF NewSock
    <3>4. Dropped(q, s, "tcp", s.mem[fd].sock)
      BY <2>4, <2>5, <3>1 DEF Dropped, SameTable
    <3>5. s.st \in {"fresh", "connecting"}
      BY <1>1, <1>3, ClientFields
    <3>6. Net(q)
      BY <1>1, <2>5, <3>2, <3>3, <3>4, <3>5, NetReplaced
    <3> QED BY <3>2, <3>3, <3>6
  <2> QED BY <1>3, <2>7, <2>8, <2>9 DEF Fine
<1> QED BY <1>2, <1>3

\* the ERR part of handle_event
LEMMA ErrorFine ==
  ASSUME NEW s, Fine(s), ~Ended(s), Menu(s), s.st # "closed", NEW fd \in 1..Capacity,
         "twice" \notin s.past => fd = 2,
         s.mem[fd].kind # "tcp" => s.past \cap {"hangup", "reconnect", "twice", "left"} # {},
         NEW q, q = OnError(s, fd)
  PROVE  /\ Fine(q) /\ Onward(q, s)
         /\ ~Ended(q) => /\ Menu(q) /\ q.past = s.past
                         /\ (s.st = "connected" /\ Steady(q, s)) \/ (s.st # "connected" /\ q.st = "fresh")
<1> DEFINE z == [s EXCEPT !.link.err = FALSE]
           t == IF s.mem[fd].kind = "tcp" THEN tcp_error(z, fd) ELSE Undefined(s, "no_close")
<1>1. s \in Clients
  BY DEF Fine, Proper
<1>2. /\ Fine(t) /\ Onward(t, s)
      /\ ~Ended(t) => /\ Menu(t) /\ t.past = s.past
                      /\ (s.st = "connected" /\ Steady(t, s)) \/ (s.st # "connected" /\ t.st = "fresh")
  <2>1. CASE s.mem[fd].kind = "tcp"
    <3>1. PICK l \in Links : l = [s.link EXCEPT !.err = FALSE] /\ l.q = s.link.q
      <4>1. s.link \in Links
        BY <1>1, ClientFields
      <4>2. [s.link EXCEPT !.err = FALSE] \in Links /\ [s.link EXCEPT !.err = FALSE].q = s.link.q
        BY <4>1 DEF Links
      <4> QED BY <4>2
    <3>2. z = [s EXCEPT !.link = l]
      BY <1>1, <3>1 DEF Clients
    <3>3. t = tcp_error(z, fd)
      BY <2>1
    <3> HIDE DEF z, t
    <3>4. z \in Clients
      BY <1>1, <3>2 DEF Clients
    <3>5. /\ SameNet(z, s) /\ SameApp(z, s) /\ SameUdp(z, s) /\ z.link = l
          /\ z.welcomed = s.welcomed /\ z.saved = s.saved /\ z.past = s.past /\ z.end = s.end
      BY <1>1, <3>2 DEF Clients, SameNet, SameTable, SameApp, SameUdp
    <3>6. Fine(z) /\ Onward(z, s) /\ Steady(z, s) /\ ~Ended(z) /\ Menu(z)
      BY <3>1, <3>4, <3>5, HarmlessFine
    <3>7. z.st = s.st /\ z.mem = s.mem
      BY <3>5 DEF SameNet, SameTable
    <3>8. /\ Fine(t) /\ Onward(t, z)
          /\ ~Ended(t) => /\ Menu(t) /\ t.past = z.past
                          /\ (z.st = "connected" /\ Steady(t, z)) \/ (z.st # "connected" /\ t.st = "fresh")
      BY <2>1, <3>3, <3>5, <3>6, <3>7, TcpErrorFine
    <3>9. Onward(t, s) /\ (Steady(t, z) => Steady(t, s))
      BY <3>6, <3>8 DEF Onward, SameEnd, Ended, Steady, SameTable, SameUdp
    <3> QED BY <3>5, <3>7, <3>8, <3>9
  <2>2. CASE s.mem[fd].kind # "tcp"
    <3>1. t = Undefined(s, "no_close") /\ "no_close" \in Ends \ {"no"}
      BY <2>2 DEF Ends
    <3> HIDE DEF t
    <3> QED BY <2>2, <3>1, UndefinedFine
  <2> QED BY <2>1, <2>2
<1>3. q = [t EXCEPT !.run = @ /\ ~s.doConnect]
  BY DEF OnError
<1> HIDE DEF t
<1>4. t \in Clients
  BY <1>2 DEF Fine, Proper
<1>5. PICK r \in BOOLEAN : r = (t.run /\ ~s.doConnect)
  OBVIOUS
<1>6. q = [t EXCEPT !.run = r]
  BY <1>3, <1>4, <1>5 DEF Clients
<1>7. q \in Clients
  BY <1>4, <1>6 DEF Clients
<1>8. /\ SameNet(q, t) /\ SameApp(q, t) /\ SameUdp(q, t) /\ q.link = t.link
      /\ q.welcomed = t.welcomed /\ q.saved = t.saved /\ q.past = t.past /\ q.end = t.end
  BY <1>4, <1>6 DEF Clients, SameNet, SameTable, SameApp, SameUdp
<1>9. Fine(q) /\ Onward(q, t) /\ Steady(q, t) /\ (Ended(q) <=> Ended(t)) /\ (Menu(t) => Menu(q))
  BY <1>2, <1>7, <1>8, HarmlessFine
<1>10. Onward(q, s) /\ (Steady(t, s) => Steady(q, s)) /\ q.st = t.st
  BY <1>2, <1>8, <1>9 DEF Onward, SameEnd, Ended, Steady, SameTable, SameUdp
<1> QED BY <1>2, <1>8, <1>9, <1>10

\* a socket that is closed and not replaced; its entry goes
LEMMA NetClosed ==
  ASSUME NEW s \in Clients, NEW q \in Clients, Net(s), s.st # "closed",
         NEW fd \in 1..Capacity, s.mem[fd].kind = "tcp", "twice" \notin s.past => fd = 2,
         Dropped(q, s, "tcp", s.mem[fd].sock), SameSock(q, s), SameUdp(q, s), SameApp(q, s),
         q.st = (IF s.mem[fd].sock = s.sock THEN "closed" ELSE s.st),
         q.tcpFdev = s.tcpFdev, q.past = s.past \cup {"hangup"}
  PROVE  Net(q)
<1>1. /\ s.mem \in [1..Capacity -> Fdevs] /\ s.count \in 0..Capacity /\ s.sock \in Nat /\ Capacity \in 3..4
      /\ s.tcpFdev \in 0..(Capacity + 1) /\ s.greeted \in Nat
      /\ s.st \in {"fresh", "connecting", "connected", "closed"}
  BY ClientFields, CapacityFacts
<1>2. Socket(s)
  BY DEF Net
<1>3. q.sock = s.sock /\ q.link = s.link /\ q.greeted = s.greeted /\ q.welcomed = s.welcomed
  BY DEF SameSock
<1>4. \A i \in 1..Capacity : q.mem[i] = s.mem[i] \/ (i + 1 \in 1..Capacity /\ q.mem[i] = s.mem[i + 1])
  BY DroppedEntries
<1>5. \A i \in 1..Capacity : q.mem[i].sock <= q.sock /\ (q.mem[i].kind = "udp" => q.mem[i].sock # 0)
  BY <1>2, <1>3, <1>4 DEF Socket
<1>6. ASSUME s.st = "fresh" PROVE q.st = "fresh" /\ \A i \in 1..Capacity : q.mem[i].sock < q.sock
  <2>1. \A i \in 1..Capacity : s.mem[i].sock < s.sock
    BY <1>2, <1>6 DEF Socket
  <2>2. \A i \in 1..Capacity : q.mem[i].sock < q.sock
    BY <1>3, <1>4, <2>1
  <2>3. s.mem[fd].sock # s.sock
    BY <1>1, <2>1
  <2> QED BY <1>6, <2>2, <2>3
<1>7. q.st = "closed" \/ q.st = s.st
  OBVIOUS
<1>8. Socket(q)
  BY <1>2, <1>3, <1>5, <1>6, <1>7 DEF Socket, SameUdp, SameApp
<1>9. PICK x : x = s.mem[fd].sock
  OBVIOUS
<1>10. \/ /\ q.count = s.count /\ \A j \in 1..Capacity : q.mem[j] = s.mem[j]
          /\ \A i \in 1..s.count : s.mem[i].kind # "tcp" \/ s.mem[i].sock # x
       \/ \E i \in 1..s.count :
            /\ s.mem[i].kind = "tcp" /\ s.mem[i].sock = x
            /\ \A j \in 1..(i - 1) : s.mem[j].kind # "tcp" \/ s.mem[j].sock # x
            /\ q.count = s.count - 1
            /\ \A j \in 1..Capacity : q.mem[j] = IF i <= j /\ j < s.count THEN s.mem[j + 1] ELSE s.mem[j]
  BY <1>9, DroppedTable
<1>11. ASSUME "twice" \notin q.past PROVE Regular(q)
  <2>1. Regular(s) /\ fd = 2 /\ s.mem[1].kind = "wayland"
    BY <1>11 DEF Net, Regular
  <2>2. CASE s.st = "fresh"
    <3>1. s.count = 1 /\ (s.tcpFdev = 0 \/ (s.tcpFdev = 2 /\ s.mem[2].kind = "tcp"))
      BY <2>1, <2>2 DEF Regular
    <3>2. ~\E i \in 1..s.count : s.mem[i].kind = "tcp"
      BY <2>1, <3>1
    <3>3. q.count = 1 /\ \A j \in 1..Capacity : q.mem[j] = s.mem[j]
      BY <1>10, <3>1, <3>2
    <3>4. q.mem[1] = s.mem[1] /\ q.mem[2] = s.mem[2]
      BY <1>1, <3>3
    <3> QED BY <1>6, <2>1, <2>2, <3>1, <3>3, <3>4 DEF Regular
  <2>3. CASE s.st = "connecting"
    <3>1. s.count = 2 /\ s.tcpFdev = 2 /\ s.mem[2] = Waiting(s.sock)
      BY <2>1, <2>3 DEF Regular
    <3>2. q.count = 1 /\ q.mem[1] = s.mem[1]
      BY <1>1, <1>9, <1>10, <2>1, <3>1
    <3>3. q.st = "closed" /\ q.udpSock = 0 /\ q.greeted = 0
      <4>1. Waiting(s.sock).sock = s.sock
        BY <1>1, Entries
      <4>2. s.mem[fd].sock = s.sock
        BY <2>1, <3>1, <4>1
      <4> QED BY <4>2, <1>2, <1>3, <2>3 DEF Socket, SameUdp
    <3> QED BY <2>1, <3>1, <3>2, <3>3 DEF Regular
  <2>4. CASE s.st = "connected"
    <3>1. /\ s.count = 3 /\ s.tcpFdev = 2 /\ s.greeted = 1
          /\ s.mem[2] = Settled(s.sock) /\ s.mem[3] = UdpEntry(s.sock)
      BY <2>1, <2>4 DEF Regular
    <3>2. q.count = 2 /\ q.mem[1] = s.mem[1] /\ q.mem[2] = s.mem[3]
      BY <1>1, <1>9, <1>10, <2>1, <3>1
    <3>3. q.st = "closed" /\ UdpEntry(s.sock).kind = "udp"
      <4>1. Settled(s.sock).sock = s.sock /\ UdpEntry(s.sock).kind = "udp"
        BY <1>1, Entries
      <4>2. s.mem[fd].sock = s.sock
        BY <2>1, <3>1, <4>1
      <4> QED BY <4>1, <4>2
    <3> QED BY <1>3, <2>1, <3>1, <3>2, <3>3 DEF Regular
  <2> QED BY <1>1, <2>2, <2>3, <2>4
<1> QED BY <1>8, <1>11 DEF Net

\* the HUP part of handle_event
LEMMA HangupFine ==
  ASSUME NEW s, Fine(s), ~Ended(s), Menu(s), s.st # "closed", NEW fd \in 1..Capacity,
         "twice" \notin s.past => fd = 2,
         s.mem[fd].kind # "tcp" => s.past \cap {"hangup", "reconnect", "twice", "left"} # {},
         NEW q, q = OnHangup(s, fd)
  PROVE  Fine(q) /\ Onward(q, s) /\ (~Ended(q) => Menu(q) /\ q.past = s.past \cup {"hangup"})
<1>1. s \in Clients /\ Proper(s) /\ Explained(s) /\ Kept(s) /\ Net(s)
  BY DEF Fine, Proper
<1>2. CASE s.mem[fd].kind # "tcp"
  <2>1. q = Undefined(s, "no_close") /\ "no_close" \in Ends \ {"no"}
    BY <1>2 DEF OnHangup, Ends
  <2> QED BY <1>2, <2>1, UndefinedFine
<1>3. CASE s.mem[fd].kind = "tcp"
  <2> DEFINE t == tcp_close(s, fd)
  <2>1. /\ t \in Clients /\ Onward(t, s) /\ t.tcpFdev = s.tcpFdev
        /\ SameApp(t, s) /\ SameUdp(t, s) /\ SameSock(t, s) /\ SameRest(t, s)
        /\ Dropped(t, s, s.mem[fd].kind, s.mem[fd].sock)
        /\ t.end = s.end /\ t.st = IF s.mem[fd].sock = s.sock THEN "closed" ELSE s.st
    BY <1>1, <1>3, CloseEffect
  <2>2. q = [t EXCEPT !.past = @ \cup {"hangup"}]
    BY <1>3 DEF OnHangup
  <2> HIDE DEF t
  <2>3. PICK p \in SUBSET Pasts : p = t.past \cup {"hangup"}
    BY <2>1, ClientFields DEF Pasts
  <2>4. q = [t EXCEPT !.past = p]
    BY <2>1, <2>2, <2>3 DEF Clients
  <2>5. q \in Clients
    BY <2>1, <2>4 DEF Clients
  <2>6. /\ q.past = p /\ q.saved = t.saved /\ q.end = t.end
        /\ SameNet(q, t) /\ SameConn(q, t) /\ SameUdp(q, t) /\ SameApp(q, t)
    BY <2>1, <2>4 DEF Clients, SameNet, SameTable, SameConn, SameUdp, SameApp
  <2>7. q.past = s.past \cup {"hangup"} /\ q.saved = s.saved /\ SameApp(q, s) /\ SameUdp(q, s) /\ SameSock(q, s)
    BY <2>1, <2>3, <2>6 DEF SameRest, SameApp, SameUdp, SameSock, SameConn
  <2>8. Dropped(q, s, "tcp", s.mem[fd].sock) /\ q.tcpFdev = s.tcpFdev /\ q.end = s.end
        /\ q.st = IF s.mem[fd].sock = s.sock THEN "closed" ELSE s.st
    BY <1>3, <2>1, <2>6 DEF Dropped, SameNet, SameTable
  <2>9. Net(q)
    BY <1>1, <1>3, <2>5, <2>7, <2>8, NetClosed
  <2>10. Onward(q, s)
    BY <2>7, <2>8 DEF Onward, SameEnd
  <2>11. Explained(q) /\ Proper(q)
    BY <1>1, <2>5, <2>7, <2>8, <2>10, ExplainedKept DEF Proper, SameUdp, SameSock
  <2>12. Kept(q) /\ Menu(q)
    BY <1>1, <2>7 DEF Kept, Menu, SameApp
  <2> QED BY <2>7, <2>9, <2>10, <2>11, <2>12 DEF Fine
<1> QED BY <1>2, <1>3

\* the entry that waited does not wait any more, and the datagram socket's follows
Written(q, s, fd) ==
  /\ s.count < Capacity /\ q.count = s.count + 1
  /\ \A i \in 1..Capacity :
       /\ i = s.count + 1 => q.mem[i] = UdpEntry(s.sock)
       /\ i # s.count + 1 /\ i # fd => q.mem[i] = s.mem[i]
       /\ i # s.count + 1 /\ i = fd => q.mem[i] = [s.mem[i] EXCEPT !.write = FALSE]

\* the table after a handshake that ended
LEMMA NetWritten ==
  ASSUME NEW s \in Clients, NEW q \in Clients, Net(s), NEW fd \in 1..Capacity,
         s.mem[fd].write, s.mem[fd].sock = s.sock, s.st # "closed", "twice" \notin s.past => fd = 2,
         q.sock = s.sock, q.link = s.link, q.welcomed = s.welcomed, q.st = "connected",
         q.greeted = s.greeted + 1, q.tcpFdev = s.tcpFdev, q.udpSock = s.sock, q.udpFdev = s.count + 1,
         q.dgrams = <<>>, q.past = s.past, SameApp(q, s), Written(q, s, fd)
  PROVE  Net(q) /\ ("hangup" \notin s.past => s.st = "connecting")
<1>1. /\ s.mem \in [1..Capacity -> Fdevs] /\ s.count \in 0..Capacity /\ s.sock \in Nat /\ Capacity \in 3..4
      /\ s.tcpFdev \in 0..(Capacity + 1) /\ s.greeted \in Nat
      /\ s.st \in {"fresh", "connecting", "connected", "closed"}
  BY ClientFields, CapacityFacts
<1>2. Socket(s)
  BY DEF Net
<1>3. s.st \in {"connecting", "connected"}
  <2>1. ASSUME s.st = "fresh" PROVE FALSE
    BY <1>1, <1>2, <2>1 DEF Socket
  <2> QED BY <1>1, <2>1
<1>4. /\ UdpEntry(s.sock).kind = "udp" /\ UdpEntry(s.sock).sock = s.sock /\ UdpEntry(s.sock).write = FALSE
      /\ Waiting(s.sock).kind = "tcp" /\ Waiting(s.sock).sock = s.sock
      /\ Settled(s.sock).kind = "tcp" /\ Settled(s.sock).sock = s.sock /\ Settled(s.sock).write = FALSE
  BY <1>1, Entries
<1>5. s.count < Capacity /\ q.count = s.count + 1 /\ s.count + 1 \in 1..Capacity
  BY <1>1, CapacityFacts DEF Written
<1>6. \A i \in 1..Capacity :
        /\ q.mem[i].kind = (IF i = s.count + 1 THEN "udp" ELSE s.mem[i].kind)
        /\ q.mem[i].sock = (IF i = s.count + 1 THEN s.sock ELSE s.mem[i].sock)
        /\ i = s.count + 1 \/ i = fd => ~q.mem[i].write
        /\ i # s.count + 1 /\ i # fd => q.mem[i].write = s.mem[i].write
  <2> SUFFICES ASSUME NEW i \in 1..Capacity
               PROVE  /\ q.mem[i].kind = (IF i = s.count + 1 THEN "udp" ELSE s.mem[i].kind)
                      /\ q.mem[i].sock = (IF i = s.count + 1 THEN s.sock ELSE s.mem[i].sock)
                      /\ i = s.count + 1 \/ i = fd => ~q.mem[i].write
                      /\ i # s.count + 1 /\ i # fd => q.mem[i].write = s.mem[i].write
    OBVIOUS
  <2>1. CASE i = s.count + 1
    BY <1>4, <2>1 DEF Written
  <2>2. CASE i # s.count + 1 /\ i # fd
    BY <2>2 DEF Written
  <2>3. CASE i # s.count + 1 /\ i = fd
    <3>1. q.mem[i] = [s.mem[i] EXCEPT !.write = FALSE] /\ s.mem[i] \in Fdevs
      BY <1>1, <2>3 DEF Written
    <3> QED BY <2>3, <3>1 DEF Fdevs
  <2> QED BY <2>1, <2>2, <2>3
<1>7. s.tcpFdev # 0 /\ s.sock # 0
  BY <1>2, <1>3 DEF Socket
<1>8. Socket(q)
  <2>1. \A i \in 1..Capacity : q.mem[i].sock <= q.sock /\ (q.mem[i].kind = "udp" => q.mem[i].sock # 0)
    <3>1. \A i \in 1..Capacity : s.mem[i].sock <= s.sock /\ (s.mem[i].kind = "udp" => s.mem[i].sock # 0)
      BY <1>2 DEF Socket
    <3>2. s.sock <= s.sock
      BY <1>1
    <3> QED BY <1>6, <1>7, <3>1, <3>2
  <2>2. q.udpFdev # 0 /\ q.udpSock # 0
    BY <1>1, <1>7
  <2>3. q.welcomed => q.game # "none"
    BY <1>2 DEF Socket, SameApp
  <2> QED BY <1>7, <2>1, <2>2, <2>3 DEF Socket
<1>9. ASSUME "twice" \notin q.past PROVE Regular(q)
  <2>1. Regular(s) /\ fd = 2 /\ s.mem[1].kind = "wayland"
    BY <1>9 DEF Net, Regular
  <2>2. s.st = "connecting"
    BY <1>3, <1>4, <2>1 DEF Regular
  <2>3. s.count = 2 /\ s.tcpFdev = 2 /\ s.mem[2] = Waiting(s.sock) /\ s.greeted = 0
    BY <1>2, <2>1, <2>2 DEF Regular, Socket
  <2>4. /\ q.mem[3] = UdpEntry(s.sock) /\ q.mem[1] = s.mem[1]
        /\ q.mem[2] = [Waiting(s.sock) EXCEPT !.write = FALSE]
    <3>1. 1 \in 1..Capacity /\ 2 \in 1..Capacity /\ 3 \in 1..Capacity
      BY <1>1
    <3>2. 3 = s.count + 1 /\ 1 # s.count + 1 /\ 2 # s.count + 1
      BY <2>3
    <3>3. q.mem[2] = [s.mem[2] EXCEPT !.write = FALSE]
      BY <2>1, <3>1, <3>2 DEF Written
    <3> QED BY <2>1, <2>3, <3>1, <3>2, <3>3 DEF Written
  <2>5. [Waiting(s.sock) EXCEPT !.write = FALSE] = Settled(s.sock)
    BY <1>1, WaitsNot
  <2> QED BY <1>5, <2>1, <2>3, <2>4, <2>5 DEF Regular
<1>10. ASSUME "hangup" \notin q.past PROVE s.st = "connecting" /\ LastUdp(q)
  <2>1. LastUdp(s)
    BY <1>10 DEF Net
  <2>2. s.st = "connecting"
    <3>1. s.st = "connected" => s.count = Capacity
      <4>1. fd \in 1..Capacity /\ s.mem[fd].sock = s.sock /\ s.mem[fd].write
        OBVIOUS
      <4> QED BY <2>1, <4>1, Zenon DEF LastUdp
    <3> QED BY <1>1, <1>3, <1>5, <3>1
  <2>3. fd = s.count /\ s.mem[1].kind = "wayland" /\ s.count >= 2 /\ \A i \in 1..s.count : s.mem[i].kind # "udp"
    BY <1>1, <2>1, <2>2 DEF LastUdp, Needs
  <2>4. q.mem[1].kind = "wayland" /\ q.count >= 1 + Needs(q)
    BY <1>1, <1>5, <1>6, <2>3 DEF Needs
  <2>5. \A i \in 1..q.count : q.mem[i].kind = "udp" => i = q.count
    <3>1. \A i \in 1..q.count : i \in 1..Capacity /\ (i \in 1..s.count \/ i = s.count + 1)
      BY <1>1, <1>5
    <3>2. \A i \in 1..Capacity : i # s.count + 1 => q.mem[i].kind = s.mem[i].kind
      BY <1>6
    <3> QED BY <1>5, <2>3, <3>1, <3>2
  <2>6. q.mem[q.count].kind = "udp" /\ q.mem[q.count].sock = q.sock
    BY <1>5, <1>6
  <2>7. \A i \in 1..Capacity : s.mem[i].sock = s.sock => i = s.count
    BY <2>1, <2>2 DEF LastUdp
  <2>8. \A i \in 1..Capacity : ~(q.mem[i].sock = q.sock /\ q.mem[i].write)
    BY <1>1, <1>6, <2>3, <2>7
  <2> QED BY <2>2, <2>4, <2>5, <2>6, <2>8 DEF LastUdp
<1> QED BY <1>8, <1>9, <1>10 DEF Net

\* the OUT part of handle_event
LEMMA WritableFine ==
  ASSUME NEW s, Fine(s), ~Ended(s), Menu(s), NEW fd \in 1..Capacity, "twice" \notin s.past => fd = 2,
         s.st = "connecting" \/ s.past \cap {"hangup", "reconnect", "twice", "left"} # {},
         NEW q, q = OnWritable(s, fd)
  PROVE  /\ Fine(q) /\ Onward(q, s)
         /\ ~Ended(q) => Menu(q) /\ q.past = s.past /\ ("hangup" \notin s.past => s.st = "connecting")
<1>1. s \in Clients /\ Proper(s) /\ Explained(s) /\ Kept(s) /\ Net(s)
  BY DEF Fine, Proper
<1>2. /\ s.mem \in [1..Capacity -> Fdevs] /\ s.count \in 0..Capacity /\ s.sock \in Nat /\ Capacity \in 3..4
  BY <1>1, ClientFields, CapacityFacts
<1>3. Socket(s)
  BY <1>1 DEF Net
<1>4. CASE ~s.mem[fd].write \/ s.mem[fd].sock # s.sock \/ s.st = "closed"
  <2>1. PICK why \in {"no_write", "unset"} : q = Undefined(s, why)
    BY <1>4 DEF OnWritable, tcp_write_connect
  <2>2. why \in Ends \ {"no"}
    BY DEF Ends
  <2>3. s.past \cap {"hangup", "reconnect", "twice", "left"} # {}
    <3>1. ASSUME s.past \cap {"hangup", "reconnect", "twice", "left"} = {} PROVE FALSE
      <4>1. s.st = "connecting" /\ "twice" \notin s.past /\ fd = 2
        BY <3>1
      <4>2. s.mem[2] = Waiting(s.sock)
        BY <1>1, <4>1 DEF Net, Regular
      <4>3. Waiting(s.sock).sock = s.sock /\ Waiting(s.sock).write = TRUE
        BY <1>2, Entries
      <4> QED BY <1>4, <4>1, <4>2, <4>3
    <3> QED BY <3>1
  <2> QED BY <2>1, <2>2, <2>3, UndefinedFine
<1>5. CASE s.mem[fd].write /\ s.mem[fd].sock = s.sock /\ s.st # "closed"
  <2> DEFINE o == client_net_on_connect(s)
  <2>1. /\ o \in Clients /\ Onward(o, s) /\ SameApp(o, s) /\ o.tcpFdev = s.tcpFdev
        /\ o.run = s.run /\ o.past = s.past
        /\ o.sock = s.sock /\ o.link = s.link /\ o.welcomed = s.welcomed
        /\ o.st = "connected" /\ o.greeted = s.greeted + 1
        /\ o.saved = IF s.saved = "none" THEN "none" ELSE "freed"
        /\ o.udpSock = s.sock /\ o.udpFdev = s.count + 1 /\ o.dgrams = <<>>
        /\ ~Ended(s) /\ Ended(o) => \/ o.end = "freed_name" /\ s.saved # "none"
                                    \/ o.end = "no_menu" /\ "main_menu" \notin s.ready
                                    \/ o.end = "moved" /\ s.count = Capacity
        /\ s.count = Capacity => Ended(o)
        /\ ~Ended(o) => /\ s.count < Capacity /\ o.count = s.count + 1
                        /\ o.mem = [s.mem EXCEPT ![s.count + 1] = UdpEntry(s.sock)]
    BY <1>1, OnConnectEffect
  <2>2. q = [o EXCEPT !.mem[fd].write = FALSE]
    BY <1>5 DEF OnWritable, tcp_write_connect, client_net_fdevent_del_write
  <2> HIDE DEF o
  <2>3. PICK e \in Fdevs : e = [o.mem[fd] EXCEPT !.write = FALSE]
    <3>1. o.mem[fd] \in Fdevs
      BY <2>1, ClientFields
    <3> QED BY <3>1 DEF Fdevs
  <2>4. PICK m \in [1..Capacity -> Fdevs] : m = [o.mem EXCEPT ![fd] = e]
    <3>1. o.mem \in [1..Capacity -> Fdevs]
      BY <2>1, ClientFields
    <3> QED BY <3>1
  <2>5. q = [o EXCEPT !.mem = m]
    <3>1. o.mem \in [1..Capacity -> Fdevs]
      BY <2>1, ClientFields
    <3> QED BY <2>1, <2>2, <2>3, <2>4, <3>1 DEF Clients
  <2>6. q \in Clients
    <3>1. o \in Clients
      BY <2>1
    <3> QED BY <2>5, <3>1 DEF Clients
  <2>7. /\ q.mem = m /\ q.count = o.count /\ q.tcpFdev = o.tcpFdev /\ q.saved = o.saved /\ q.past = o.past
        /\ SameConn(q, o) /\ SameUdp(q, o) /\ SameApp(q, o) /\ q.end = o.end
    BY <2>1, <2>5 DEF Clients, SameConn, SameUdp, SameApp
  <2>8. SameApp(q, s) /\ q.past = s.past /\ q.end = o.end
    BY <2>1, <2>7 DEF SameApp
  <2>9. Onward(q, s)
    BY <2>1, <2>7 DEF Onward, SameEnd
  <2>10. Proper(q)
    BY <1>2, <2>1, <2>6, <2>7 DEF Proper, SameConn, SameUdp
  <2>11. Explained(q)
    <3>1. CASE q.end = s.end
      BY <1>1, <2>9, <3>1, ExplainedKept
    <3>2. CASE q.end # s.end
      <4>1. Ended(o)
        BY <2>7, <3>2 DEF Ended
      <4>2. CASE (q.end = "freed_name" /\ s.saved # "none") \/ (q.end = "no_menu" /\ "main_menu" \notin s.ready)
        BY <1>1, <2>8, <4>2 DEF Explained, Kept
      <4>3. CASE q.end = "moved" /\ s.count = Capacity
        <5>1. ASSUME "twice" \notin s.past PROVE FALSE
          <6>1. Regular(s) /\ fd = 2
            BY <1>1, <5>1 DEF Net
          <6>2. Settled(s.sock).write = FALSE
            BY <1>2, Entries
          <6>3. s.st \notin {"fresh"}
            BY <1>2, <1>3, <1>5 DEF Socket
          <6>4. s.st # "connected"
            BY <1>5, <6>1, <6>2 DEF Regular
          <6>5. s.st = "connecting"
            BY <1>1, <1>5, <6>3, <6>4, ClientFields
          <6> QED BY <1>2, <4>3, <6>1, <6>5 DEF Regular
        <5> QED BY <1>1, <2>8, <4>3, <5>1 DEF Explained
      <4> QED BY <2>1, <2>7, <4>1, <4>2, <4>3
    <3> QED BY <3>1, <3>2
  <2>12. ASSUME ~Ended(q) PROVE Kept(q) /\ Net(q) /\ Menu(q) /\ ("hangup" \notin s.past => s.st = "connecting")
    <3>1. ~Ended(o)
      BY <2>7, <2>12 DEF Ended
    <3>2. s.count < Capacity /\ o.count = s.count + 1 /\ o.mem = [s.mem EXCEPT ![s.count + 1] = UdpEntry(s.sock)]
      BY <2>1, <3>1
    <3>3. s.count + 1 \in 1..Capacity /\ q.count = s.count + 1
      BY <1>2, <2>7, <3>2
    <3>4. \A i \in 1..Capacity : /\ i = s.count + 1 => o.mem[i] = UdpEntry(s.sock)
                                 /\ i # s.count + 1 => o.mem[i] = s.mem[i]
      BY <1>2, <3>2, <3>3
    <3>5. \A i \in 1..Capacity : q.mem[i] = IF i = fd THEN [o.mem[fd] EXCEPT !.write = FALSE] ELSE o.mem[i]
      <4>1. o.mem \in [1..Capacity -> Fdevs]
        BY <2>1, ClientFields
      <4> QED BY <2>3, <2>4, <2>7, <4>1
    <3>6. [UdpEntry(s.sock) EXCEPT !.write = FALSE] = UdpEntry(s.sock)
      BY <1>2, WaitsNot
    <3>7. Written(q, s, fd)
      BY <3>2, <3>3, <3>4, <3>5, <3>6 DEF Written
    <3>8. Net(q) /\ ("hangup" \notin s.past => s.st = "connecting")
      <4>1. /\ q.sock = s.sock /\ q.link = s.link /\ q.welcomed = s.welcomed /\ q.st = "connected"
            /\ q.greeted = s.greeted + 1 /\ q.tcpFdev = s.tcpFdev /\ q.udpSock = s.sock
            /\ q.udpFdev = s.count + 1 /\ q.dgrams = <<>>
        BY <2>1, <2>7 DEF SameConn, SameUdp
      <4> QED BY <1>1, <1>5, <2>6, <2>8, <3>7, <4>1, NetWritten
    <3>9. Kept(q) /\ Menu(q)
      <4>1. q.saved # "none" => s.saved # "none"
        BY <2>1, <2>7
      <4> QED BY <1>1, <2>8, <4>1 DEF Kept, Menu, SameApp
    <3> QED BY <3>8, <3>9
  <2> QED BY <2>8, <2>9, <2>10, <2>11, <2>12 DEF Fine
<1> QED BY <1>4, <1>5

-------------------------------------------------------------------------------
(* One event of a batch. *)

\* that an event went astray is written down, and no more
StrayOnly(q, s) ==
  /\ SameNet(q, s) /\ SameApp(q, s) /\ SameConn(q, s) /\ SameUdp(q, s) /\ q.end = s.end /\ q.saved = s.saved
  /\ s.past \subseteq q.past /\ q.past \subseteq s.past \cup {"stray"}

\* an event that goes astray is one that a reconnect or a hangup explains
LEMMA NotedFine ==
  ASSUME NEW s, Fine(s), ~Ended(s), Menu(s), NEW e \in Events,
         s.past \cap {"hangup", "reconnect"} = {} => There(s, e) \/ Gone(s),
         NEW q, q = Noted(s, e.fd, e.of)
  PROVE  Fine(q) /\ ~Ended(q) /\ Menu(q) /\ StrayOnly(q, s)
<1>1. s \in Clients /\ Proper(s) /\ Explained(s) /\ Kept(s) /\ Net(s) /\ e.fd \in 1..Capacity
  BY DEF Fine, Proper, Events
<1>2. CASE q = s
  BY <1>2 DEF StrayOnly, SameNet, SameTable, SameApp, SameConn, SameUdp
<1>3. CASE q # s
  <2> DEFINE x == s.mem[e.fd]
  <2>1. /\ <<x.kind, x.sock>> # <<e.of.kind, e.of.sock>>
        /\ \/ x.kind = "tcp" /\ x.sock = s.sock /\ s.st # "closed"
           \/ x.kind = "udp" /\ x.sock = s.udpSock
        /\ q = [s EXCEPT !.past = @ \cup {"stray"}]
    BY <1>3 DEF Noted
  <2>2. s.past \cap {"hangup", "reconnect"} # {}
    <3>1. ASSUME s.past \cap {"hangup", "reconnect"} = {} PROVE FALSE
      <4>1. ~There(s, e)
        BY <2>1 DEF There
      <4>2. s.st = "fresh"
        BY <3>1, <4>1 DEF Gone
      <4>3. s.udpSock = 0 /\ x.sock # s.sock /\ (x.kind = "udp" => x.sock # 0)
        <5>1. Socket(s) /\ s.sock \in Nat
          BY <1>1, ClientFields DEF Net
        <5>2. x.sock < s.sock
          BY <1>1, <4>2, <5>1 DEF Socket
        <5> QED BY <1>1, <4>2, <5>1, <5>2 DEF Socket
      <4> QED BY <2>1, <4>3
    <3> QED BY <3>1
  <2>3. PICK p \in SUBSET Pasts : p = s.past \cup {"stray"}
    BY <1>1, ClientFields DEF Pasts
  <2>4. q = [s EXCEPT !.past = p]
    BY <1>1, <2>1, <2>3 DEF Clients
  <2>5. q \in Clients
    BY <1>1, <2>4 DEF Clients
  <2>6. /\ SameNet(q, s) /\ SameApp(q, s) /\ SameConn(q, s) /\ SameUdp(q, s) /\ q.end = s.end
        /\ q.saved = s.saved /\ q.past = p
    BY <1>1, <2>4 DEF Clients, SameNet, SameTable, SameApp, SameConn, SameUdp
  <2>7. StrayOnly(q, s)
    BY <2>3, <2>6 DEF StrayOnly
  <2>8. Explained(q) /\ Proper(q) /\ ~Ended(q)
    BY <1>1, <2>2, <2>3, <2>5, <2>6 DEF Explained, Proper, Ended, SameConn, SameUdp
  <2>9. Net(q)
    <3>1. /\ s.dgrams # <<>> => s.game = "player" \/ "reconnect" \in s.past
          /\ s.welcomed => s.game # "none"
      BY <1>1 DEF Net, Socket
    <3> QED BY <1>1, <2>3, <2>6, <3>1, NetKept DEF SameConn, SameUdp, SameApp
  <2>10. Kept(q) /\ Menu(q)
    BY <1>1, <2>3, <2>6 DEF Kept, Menu, SameApp
  <2> QED BY <2>7, <2>8, <2>9, <2>10 DEF Fine
<1> QED BY <1>2, <1>3

LEMMA StraySteady ==
  ASSUME NEW s, NEW q, StrayOnly(q, s)
  PROVE  Steady(q, s)
BY DEF StrayOnly, Steady, SameNet

\* an event stays fit over what leaves the table alone
LEMMA FitTcpSteady ==
  ASSUME NEW s, NEW q, NEW e, NEW gone, FitTcp(s, e, gone), Steady(q, s)
  PROVE  FitTcp(q, e, gone)
BY DEF FitTcp, There, Gone, Needs, Steady, SameTable

LEMMA FitUdpSteady ==
  ASSUME NEW s, NEW q, NEW e, NEW gone, FitUdp(s, e, gone), Steady(q, s)
  PROVE  FitUdp(q, e, gone)
BY DEF FitUdp, There, Gone, Steady, SameTable, SameUdp

\* what an event of the TCP socket leaves to the other events of its batch
Passed(q, s) ==
  /\ s.past \subseteq q.past
  /\ "hangup" \in q.past \/ Steady(q, s) \/ (s.st # "connected" /\ (s.st = "fresh" => q.st = "fresh"))

\* the parts of handle_event one after the other
LEMMA PassedOn ==
  ASSUME NEW s, NEW h, NEW q, Passed(h, s), Passed(q, h)
  PROVE  Passed(q, s)
BY DEF Passed, Steady, SameTable, SameUdp

\* the datagram socket's event after the TCP socket's
LEMMA FitUdpPassed ==
  ASSUME NEW s, NEW q, NEW e, NEW gone, FitUdp(s, e, gone), Passed(q, s)
  PROVE  FitUdp(q, e, gone)
<1>1. CASE "hangup" \in q.past
  BY <1>1 DEF FitUdp
<1>2. CASE Steady(q, s)
  BY <1>2, FitUdpSteady
<1>3. CASE "hangup" \notin q.past /\ s.st # "connected" /\ (s.st = "fresh" => q.st = "fresh")
  BY <1>3 DEF FitUdp, Gone, Passed
<1> QED BY <1>1, <1>2, <1>3 DEF Passed

\* between the parts of an event of the TCP socket
At(s, e, gone) ==
  /\ "twice" \notin s.past => e.fd = 2
  /\ "hangup" \in s.past \/ FitTcp(s, e, gone)

\* the TCP socket's event at the beginning of a part of handle_event
LEMMA AtNoted ==
  ASSUME NEW s, Fine(s), ~Ended(s), Menu(s), NEW e \in Events, e.of.kind = "tcp", NEW gone, At(s, e, gone),
         NEW n, n = Noted(s, e.fd, e.of)
  PROVE  /\ Fine(n) /\ ~Ended(n) /\ Menu(n) /\ StrayOnly(n, s) /\ At(n, e, gone)
         /\ FitTcp(s, e, gone) => FitTcp(n, e, gone)
<1>1. Fine(n) /\ ~Ended(n) /\ Menu(n) /\ StrayOnly(n, s)
  BY NotedFine DEF At, FitTcp
<1>2. Steady(n, s) /\ s.past \subseteq n.past
  BY <1>1, StraySteady DEF StrayOnly
<1>3. FitTcp(s, e, gone) => FitTcp(n, e, gone)
  BY <1>2, FitTcpSteady
<1> QED BY <1>1, <1>2, <1>3 DEF At

\* where the TCP socket's slot is a datagram socket's by now, that one is not in use
LEMMA NotTheDatagrams ==
  ASSUME NEW s \in Clients, Net(s), NEW e \in Events, NEW gone, FitTcp(s, e, gone), "hangup" \notin s.past,
         s.mem[e.fd].kind = "udp"
  PROVE  s.mem[e.fd].sock # s.udpSock
<1>1. /\ s.count \in 0..Capacity /\ e.fd \in 1..Capacity /\ s.udpSock \in Nat
      /\ s.st \in {"fresh", "connecting", "connected", "closed"}
  BY ClientFields DEF Events
<1>2. Socket(s) /\ LastUdp(s) /\ e.fd + Needs(s) <= s.count + 1
  BY DEF Net, FitTcp
<1>3. CASE e.fd \in 1..s.count
  <2>1. e.fd = s.count /\ s.st = "connected"
    BY <1>2, <1>3 DEF LastUdp
  <2>2. Needs(s) = 2
    BY <2>1 DEF Needs
  <2> QED BY <1>1, <1>2, <2>1, <2>2
<1>4. CASE e.fd \notin 1..s.count
  <2>1. s.st = "fresh"
    <3>1. ASSUME s.st # "fresh" PROVE FALSE
      <4>1. Needs(s) >= 1 /\ Needs(s) \in Nat
        BY <3>1 DEF Needs
      <4> QED BY <1>1, <1>2, <1>4, <4>1
    <3> QED BY <3>1
  <2> QED BY <1>1, <1>2, <2>1 DEF Socket
<1> QED BY <1>3, <1>4

\* the IN part of handle_event for the TCP socket
LEMMA TcpInputFine ==
  ASSUME NEW s, Fine(s), ~Ended(s), Menu(s), NEW e \in Events, e.of.kind = "tcp", NEW gone, At(s, e, gone),
         NEW res \in {"wouldblock", "ok", "fail"}, NEW q, q = OnInput(s, e.fd, res)
  PROVE  Fine(q) /\ (~Ended(q) => Menu(q) /\ Passed(q, s) /\ At(q, e, gone))
<1>1. s \in Clients /\ Net(s)
  BY DEF Fine, Proper
<1>2. CASE s.mem[e.fd].kind = "tcp"
  <2>1. q = tcp_read(s, s.mem[e.fd].sock, res)
    BY <1>2 DEF OnInput
  <2>2. Fine(q) /\ (~Ended(q) => Menu(q) /\ Steady(q, s))
    BY <2>1, TcpReadFine
  <2>3. Steady(q, s) => Passed(q, s) /\ At(q, e, gone)
    BY FitTcpSteady DEF Passed, Steady, At
  <2> QED BY <2>2, <2>3
<1>3. CASE s.mem[e.fd].kind = "udp"
  <2>1. q = udp_read(s, s.mem[e.fd].sock, res)
    BY <1>3 DEF OnInput
  <2>2. "hangup" \notin s.past => s.mem[e.fd].sock # s.udpSock
    BY <1>1, <1>3, NotTheDatagrams DEF At
  <2>3. /\ Fine(q) /\ (~Ended(q) => Menu(q) /\ (Level(q, s) \/ Reconnected(q, s)))
        /\ s.mem[e.fd].sock # s.udpSock => q = s
    BY <2>1, <2>2, UdpReadFine
  <2>4. CASE "hangup" \notin s.past
    <3>1. q = s
      BY <2>2, <2>3, <2>4
    <3> QED BY <3>1 DEF Passed, Steady, SameTable, SameUdp
  <2>5. CASE "hangup" \in s.past
    <3>1. ~Ended(q) => s.past \subseteq q.past
      BY <2>3 DEF Level, Reconnected
    <3> QED BY <2>3, <2>5, <3>1 DEF Passed, At
  <2> QED BY <2>4, <2>5
<1>4. CASE s.mem[e.fd].kind # "tcp" /\ s.mem[e.fd].kind # "udp"
  <2>1. q = s
    BY <1>4 DEF OnInput
  <2> QED BY <2>1 DEF Passed, Steady, SameTable, SameUdp
<1> QED BY <1>2, <1>3, <1>4

\* handle_event for the TCP socket's event
LEMMA TcpEventFine ==
  ASSUME NEW s, Fine(s), ~Ended(s), Menu(s), NEW e \in Events, e.of.kind = "tcp", NEW gone, FitTcp(s, e, gone),
         NEW res \in {"wouldblock", "ok", "fail"}, NEW q, q = handle_event(s, e.fd, e.flags, e.of, res)
  PROVE  Fine(q) /\ (~Ended(q) => Menu(q) /\ Passed(q, s))
<1>1. e.fd \in 1..Capacity /\ At(s, e, gone)
  BY DEF Events, At, FitTcp
<1> DEFINE n == Noted(s, e.fd, e.of)
<1>2. Fine(n) /\ ~Ended(n) /\ Menu(n) /\ StrayOnly(n, s) /\ At(n, e, gone) /\ FitTcp(n, e, gone)
  BY <1>1, AtNoted
<1>3. Passed(n, s) /\ Passed(s, s)
  BY <1>2, StraySteady DEF Passed, StrayOnly, Steady, SameTable, SameUdp
<1>4. /\ n.st # "closed" /\ ("twice" \notin n.past => e.fd = 2)
      /\ n.mem[e.fd].kind # "tcp" => n.past \cap {"hangup", "reconnect", "twice", "left"} # {}
  BY <1>2 DEF FitTcp, There, Gone
<1>5. CASE "ERR" \in e.flags
  <2>1. q = OnError(n, e.fd)
    BY <1>5 DEF handle_event
  <2> HIDE DEF n
  <2>2. /\ Fine(q) /\ Onward(q, n)
        /\ ~Ended(q) => /\ Menu(q) /\ q.past = n.past
                        /\ (n.st = "connected" /\ Steady(q, n)) \/ (n.st # "connected" /\ q.st = "fresh")
    BY <1>1, <1>2, <1>4, <2>1, ErrorFine
  <2>3. ~Ended(q) => Passed(q, n)
    BY <2>2 DEF Passed
  <2> QED BY <1>3, <2>2, <2>3, PassedOn
<1>6. CASE "ERR" \notin e.flags
  <2> DEFINE h == Part(s, "HUP", e.flags, OnHangup(n, e.fd))
             m == Noted(h, e.fd, e.of)
             r == Part(h, "IN", e.flags, OnInput(m, e.fd, res))
             k == Noted(r, e.fd, e.of)
  <2>1. q = Part(r, "OUT", e.flags, OnWritable(k, e.fd))
    BY <1>6 DEF handle_event
  <2>2. Fine(h) /\ (~Ended(h) => Menu(h) /\ Passed(h, s) /\ At(h, e, gone))
    <3>1. CASE "HUP" \in e.flags
      <4>1. h = OnHangup(n, e.fd)
        BY <3>1 DEF Part
      <4> HIDE DEF n, h
      <4>2. Fine(h) /\ (~Ended(h) => Menu(h) /\ h.past = n.past \cup {"hangup"})
        BY <1>1, <1>2, <1>4, <4>1, HangupFine
      <4>3. ~Ended(h) => Passed(h, n) /\ At(h, e, gone)
        BY <1>4, <4>2 DEF Passed, At
      <4> QED BY <1>3, <4>2, <4>3, PassedOn
    <3>2. CASE "HUP" \notin e.flags
      <4>1. h = s
        BY <3>2 DEF Part
      <4> HIDE DEF h
      <4> QED BY <1>1, <1>3, <4>1
    <3> QED BY <3>1, <3>2
  <2> HIDE DEF h
  <2>3. Fine(r) /\ (~Ended(r) => Menu(r) /\ Passed(r, s) /\ At(r, e, gone))
    <3>1. CASE "IN" \in e.flags /\ ~Ended(h)
      <4>1. r = OnInput(m, e.fd, res)
        BY <3>1 DEF Part
      <4>2. Fine(m) /\ ~Ended(m) /\ Menu(m) /\ StrayOnly(m, h) /\ At(m, e, gone)
        BY <2>2, <3>1, AtNoted
      <4> HIDE DEF r, m
      <4>3. Fine(r) /\ (~Ended(r) => Menu(r) /\ Passed(r, m) /\ At(r, e, gone))
        BY <4>1, <4>2, TcpInputFine
      <4>4. Passed(m, h)
        BY <4>2, StraySteady DEF Passed, StrayOnly
      <4> QED BY <2>2, <3>1, <4>3, <4>4, PassedOn
    <3>2. CASE ~("IN" \in e.flags /\ ~Ended(h))
      <4>1. r = h
        BY <3>2 DEF Part
      <4> HIDE DEF r
      <4> QED BY <2>2, <4>1
    <3> QED BY <3>1, <3>2
  <2> HIDE DEF r
  <2>4. CASE "OUT" \in e.flags /\ ~Ended(r)
    <3>1. q = OnWritable(k, e.fd)
      BY <2>1, <2>4 DEF Part
    <3>2. Fine(k) /\ ~Ended(k) /\ Menu(k) /\ StrayOnly(k, r) /\ At(k, e, gone)
      BY <2>3, <2>4, AtNoted
    <3> HIDE DEF k
    <3>3. k.st = "connecting" \/ k.past \cap {"hangup", "reconnect", "twice", "left"} # {}
      BY <2>4, <3>2 DEF At, FitTcp
    <3>4. /\ Fine(q)
          /\ ~Ended(q) => Menu(q) /\ q.past = k.past /\ ("hangup" \notin k.past => k.st = "connecting")
      BY <1>1, <3>1, <3>2, <3>3, WritableFine DEF At
    <3>5. Passed(k, r)
      BY <3>2, StraySteady DEF Passed, StrayOnly
    <3>6. ~Ended(q) => Passed(q, k)
      BY <3>4 DEF Passed
    <3> QED BY <2>3, <2>4, <3>4, <3>5, <3>6, PassedOn
  <2>5. CASE ~("OUT" \in e.flags /\ ~Ended(r))
    <3>1. q = r
      BY <2>1, <2>5 DEF Part
    <3> QED BY <2>3, <3>1
  <2> QED BY <2>4, <2>5
<1> QED BY <1>5, <1>6

\* what an event of the datagram socket leaves to the TCP socket's
Bypassed(q, s) ==
  /\ s.past \subseteq q.past
  /\ Steady(q, s) \/ Level(q, s) \/ Reconnected(q, s)

\* the TCP socket's event after the datagram socket's
LEMMA FitTcpBypassed ==
  ASSUME NEW s \in Clients, NEW q \in Clients, NEW e \in Events, NEW gone, FitTcp(s, e, gone), Bypassed(q, s)
  PROVE  FitTcp(q, e, gone)
<1>1. CASE Steady(q, s)
  BY <1>1, FitTcpSteady
<1>2. CASE Level(q, s)
  BY <1>2 DEF Level, FitTcp, There, Gone, Needs, SameTable
<1>3. CASE Reconnected(q, s)
  <2>1. /\ q.st # "closed" /\ "reconnect" \in q.past /\ s.past \subseteq q.past
        /\ q.st = "fresh" => q.tcpFdev = 0
        /\ "hangup" \notin s.past /\ (s.st # "fresh" \/ s.tcpFdev = 0) =>
             q.count + Needs(s) >= s.count + Needs(q)
    BY <1>3 DEF Reconnected
  <2>2. ASSUME "hangup" \notin q.past PROVE e.fd + Needs(q) <= q.count + 1
    <3>1. e.fd + Needs(s) <= s.count + 1 /\ (s.st = "fresh" => s.tcpFdev = 0)
      BY <2>1, <2>2 DEF FitTcp
    <3>2. q.count + Needs(s) >= s.count + Needs(q)
      BY <2>1, <2>2, <3>1
    <3>3. /\ e.fd \in Int /\ s.count \in Int /\ q.count \in Int /\ Needs(s) \in Int /\ Needs(q) \in Int
      BY ClientFields DEF Events, Needs
    <3> QED BY <3>1, <3>2, <3>3
  <2> QED BY <2>1, <2>2 DEF FitTcp
<1> QED BY <1>1, <1>2, <1>3 DEF Bypassed

\* handle_event for the datagram socket's event
LEMMA UdpEventFine ==
  ASSUME NEW s, Fine(s), ~Ended(s), Menu(s), NEW e \in Events, e.of.kind = "udp", NEW gone, FitUdp(s, e, gone),
         NEW res \in {"wouldblock", "ok", "fail"}, NEW q, q = handle_event(s, e.fd, e.flags, e.of, res)
  PROVE  Fine(q) /\ (~Ended(q) => Menu(q) /\ Bypassed(q, s))
<1>1. e.fd \in 1..Capacity /\ "ERR" \notin e.flags /\ "HUP" \notin e.flags /\ "OUT" \notin e.flags
  BY DEF Events, FitUdp
<1> DEFINE n == Noted(s, e.fd, e.of)
<1>2. q = Part(s, "IN", e.flags, OnInput(n, e.fd, res))
  BY <1>1 DEF handle_event, Part
<1>3. CASE "IN" \notin e.flags
  <2>1. q = s
    BY <1>2, <1>3 DEF Part
  <2> QED BY <2>1 DEF Bypassed, Steady, SameTable, SameUdp
<1>4. CASE "IN" \in e.flags
  <2>1. q = OnInput(n, e.fd, res)
    BY <1>2, <1>4 DEF Part
  <2>2. Fine(n) /\ ~Ended(n) /\ Menu(n) /\ StrayOnly(n, s)
    BY NotedFine DEF FitUdp
  <2>3. Steady(n, s)
    BY <2>2, StraySteady
  <2>4. FitUdp(n, e, gone)
    BY <2>3, FitUdpSteady
  <2> HIDE DEF n
  <2>5. n \in Clients /\ Net(n)
    BY <2>2 DEF Fine, Proper
  <2>6. Fine(q) /\ (~Ended(q) => Menu(q) /\ Bypassed(q, n))
    <3>1. CASE n.mem[e.fd].kind = "tcp"
      <4>1. q = tcp_read(n, n.mem[e.fd].sock, res)
        BY <2>1, <3>1 DEF OnInput
      <4>2. Fine(q) /\ (~Ended(q) => Menu(q) /\ Steady(q, n))
        BY <2>2, <4>1, TcpReadFine
      <4> QED BY <4>2 DEF Bypassed, Steady
    <3>2. CASE n.mem[e.fd].kind = "udp"
      <4>1. q = udp_read(n, n.mem[e.fd].sock, res)
        BY <2>1, <3>2 DEF OnInput
      <4>2. n.mem[e.fd].sock = n.udpSock /\ n.dgrams = <<>> => "hangup" \in n.past
        <5>1. ASSUME n.mem[e.fd].sock = n.udpSock, n.dgrams = <<>>, "hangup" \notin n.past PROVE FALSE
          <6>1. n.st = "fresh"
            BY <2>4, <5>1 DEF FitUdp, Gone
          <6>2. n.udpSock = 0 /\ n.mem[e.fd].sock # 0
            BY <1>1, <2>5, <3>2, <6>1 DEF Net, Socket
          <6> QED BY <5>1, <6>2
        <5> QED BY <5>1
      <4>3. Fine(q) /\ (~Ended(q) => Menu(q) /\ (Level(q, n) \/ Reconnected(q, n)))
        BY <2>2, <4>1, <4>2, UdpReadFine
      <4> QED BY <4>3 DEF Bypassed, Level, Reconnected
    <3>3. CASE n.mem[e.fd].kind # "tcp" /\ n.mem[e.fd].kind # "udp"
      <4>1. q = n
        BY <2>1, <3>3 DEF OnInput
      <4> QED BY <2>2, <4>1 DEF Bypassed, Steady, SameTable, SameUdp
    <3> QED BY <3>1, <3>2, <3>3
  <2>7. ASSUME Bypassed(q, n) PROVE Bypassed(q, s)
    <3>1. CASE Steady(q, n)
      BY <2>3, <3>1 DEF Bypassed, Steady, SameTable, SameUdp
    <3>2. CASE Level(q, n)
      BY <2>2, <3>2 DEF Bypassed, Level, StrayOnly, SameNet, SameTable
    <3>3. CASE Reconnected(q, n)
      BY <2>2, <3>3 DEF Bypassed, Reconnected, StrayOnly, SameNet, SameTable, Needs
    <3> QED BY <2>7, <3>1, <3>2, <3>3 DEF Bypassed
  <2> QED BY <2>6, <2>7
<1> QED BY <1>3, <1>4

-------------------------------------------------------------------------------
(* The batch. *)

LEMMA BatchTail ==
  ASSUME NEW b \in Seq(Events), b # <<>>
  PROVE  /\ Head(b) = b[1] /\ 1 \in DOMAIN b /\ Head(b) \in Events /\ Tail(b) \in Seq(Events)
         /\ \A k \in DOMAIN b : b[k] \in Events
         /\ \A k \in DOMAIN Tail(b) : k + 1 \in DOMAIN b /\ k + 1 # 1 /\ Tail(b)[k] = b[k + 1]
         /\ \A k, m \in DOMAIN Tail(b) : k # m => k + 1 # m + 1
  OBVIOUS

\* the events that are left are still of different sockets
LEMMA AloneOn ==
  ASSUME NEW s, NEW q, NEW b \in Seq(Events), b # <<>>, Alone(s, b), s.past \subseteq q.past
  PROVE  Alone(q, Tail(b))
<1> DEFINE t == Tail(b)
<1>1. \A k \in DOMAIN t : k + 1 \in DOMAIN b /\ t[k] = b[k + 1]
  BY BatchTail
<1>2. \A k, m \in DOMAIN t : k # m => k + 1 # m + 1
  BY BatchTail
<1> HIDE DEF t
<1>3. ASSUME NEW k \in DOMAIN t, NEW m \in DOMAIN t, k # m
      PROVE  /\ t[k].fd # t[m].fd
             /\ t[k].fd # 1 /\ t[m].fd # 1 /\ t[k].of.kind = t[m].of.kind =>
                  t[k].of.kind = "udp" /\ "hangup" \in q.past
  <2> DEFINE i == k + 1
             j == m + 1
  <2>1. i \in DOMAIN b /\ j \in DOMAIN b /\ i # j /\ t[k] = b[i] /\ t[m] = b[j]
    BY <1>1, <1>2, <1>3
  <2> HIDE DEF i, j
  <2> QED BY <2>1 DEF Alone
<1>4. Alone(q, t)
  BY <1>3 DEF Alone
<1> QED BY <1>4 DEF t

\* the first event of a batch is handled, and the rest stays fit
LEMMA SocketEventFine ==
  ASSUME NEW s, Fine(s), ~Ended(s), Menu(s), NEW b \in Seq(Events), b # <<>>, Head(b).fd # 1,
         Alone(s, b), NEW gone, Fit(s, b, gone), NEW res \in {"wouldblock", "ok", "fail"},
         NEW q, q = handle_event(s, Head(b).fd, Head(b).flags, Head(b).of, res)
  PROVE  Fine(q) /\ (~Ended(q) => Menu(q) /\ Alone(q, Tail(b)) /\ Fit(q, Tail(b), gone))
<1> DEFINE e == Head(b)
           t == Tail(b)
<1>1. /\ e \in Events /\ 1 \in DOMAIN b /\ e = b[1]
      /\ \A k \in DOMAIN t : t[k] \in Events /\ k + 1 \in DOMAIN b /\ k + 1 # 1 /\ t[k] = b[k + 1]
  BY BatchTail
<1> HIDE DEF e, t
<1>2. /\ e.of.kind \in {"tcp", "udp"}
      /\ e.of.kind = "tcp" => FitTcp(s, e, gone)
      /\ e.of.kind = "udp" => FitUdp(s, e, gone)
  BY <1>1 DEF Fit, e
<1>3. \A k \in DOMAIN t : t[k].fd # 1 =>
        /\ t[k].of.kind \in {"tcp", "udp"}
        /\ t[k].of.kind = "tcp" => FitTcp(s, t[k], gone)
        /\ t[k].of.kind = "udp" => FitUdp(s, t[k], gone)
  BY <1>1 DEF Fit
<1>4. \A k \in DOMAIN t : t[k].fd # 1 /\ e.of.kind = t[k].of.kind => e.of.kind = "udp" /\ "hangup" \in s.past
  <2>1. e.fd # 1
    BY DEF e
  <2>2. ASSUME NEW k \in DOMAIN t, t[k].fd # 1, e.of.kind = t[k].of.kind
        PROVE  e.of.kind = "udp" /\ "hangup" \in s.past
    <3> DEFINE i == k + 1
    <3>1. i \in DOMAIN b /\ i # 1 /\ t[k] = b[i]
      BY <1>1
    <3> HIDE DEF i
    <3> QED BY <1>1, <2>1, <2>2, <3>1 DEF Alone
  <2> QED BY <2>2
<1>5. s \in Clients
  BY DEF Fine, Proper
<1>6. CASE e.of.kind = "tcp"
  <2>1. Fine(q) /\ (~Ended(q) => Menu(q) /\ Passed(q, s))
    BY <1>1, <1>2, <1>6, TcpEventFine DEF e
  <2>2. ASSUME ~Ended(q) PROVE Alone(q, t) /\ Fit(q, t, gone)
    <3>1. Passed(q, s) /\ s.past \subseteq q.past
      BY <2>1, <2>2 DEF Passed
    <3>2. \A k \in DOMAIN t : t[k].fd # 1 => t[k].of.kind = "udp" /\ FitUdp(q, t[k], gone)
      BY <1>3, <1>4, <1>6, <3>1, FitUdpPassed
    <3>3. Alone(q, t)
      BY <3>1, AloneOn DEF t
    <3> QED BY <3>2, <3>3 DEF Fit
  <2> QED BY <2>1, <2>2 DEF t
<1>7. CASE e.of.kind = "udp"
  <2>1. Fine(q) /\ (~Ended(q) => Menu(q) /\ Bypassed(q, s))
    BY <1>1, <1>2, <1>7, UdpEventFine DEF e
  <2>2. ASSUME ~Ended(q) PROVE Alone(q, t) /\ Fit(q, t, gone)
    <3>1. Bypassed(q, s) /\ s.past \subseteq q.past /\ q \in Clients
      BY <2>1, <2>2 DEF Bypassed, Fine, Proper
    <3>2. \A k \in DOMAIN t : t[k].fd # 1 /\ t[k].of.kind = "tcp" => FitTcp(q, t[k], gone)
      BY <1>1, <1>3, <1>5, <3>1, FitTcpBypassed
    <3>3. \A k \in DOMAIN t : t[k].fd # 1 /\ t[k].of.kind = "udp" => FitUdp(q, t[k], gone)
      BY <1>3, <1>4, <1>7, <3>1 DEF FitUdp
    <3>4. Alone(q, t)
      BY <3>1, AloneOn DEF t
    <3> QED BY <1>3, <3>2, <3>3, <3>4 DEF Fit
  <2> QED BY <2>1, <2>2 DEF t
<1> QED BY <1>2, <1>6, <1>7

\* a click that connects does not come between an event and its socket
LEMMA FitConnected ==
  ASSUME NEW s \in Clients, NEW q \in Clients, NEW e \in Events, NEW gone, ~gone,
         Connected(q, s), s.past \subseteq q.past
  PROVE  /\ FitTcp(s, e, gone) => FitTcp(q, e, gone)
         /\ FitUdp(s, e, gone) => FitUdp(q, e, gone)
<1>1. CASE SameTable(q, s) /\ SameUdp(q, s) /\ q.st = s.st /\ q.past = s.past /\ q.tcpFdev = s.tcpFdev
  <2>1. Steady(q, s)
    BY <1>1 DEF Connected, Steady
  <2> QED BY <2>1, FitTcpSteady, FitUdpSteady
<1>2. CASE /\ s.st = "fresh" \/ (s.st = "connecting" /\ "twice" \in q.past)
           /\ q.st \in {"connecting", "connected"} /\ s.count <= q.count
           /\ q.count + Needs(s) >= s.count + Needs(q)
           /\ \A i \in 1..s.count : q.mem[i] = s.mem[i]
  <2>1. s.count \in Nat /\ q.count \in Nat /\ Needs(s) \in Nat /\ Needs(q) \in Nat /\ e.fd \in 1..Capacity
        /\ Capacity \in Nat /\ q.sock = s.sock
    BY ClientFields, CapacityFacts DEF Needs, Events, Connected
  <2>2. There(s, e) => There(q, e)
    BY <1>2, <2>1 DEF There
  <2>3. ASSUME e.fd + Needs(s) <= s.count + 1 PROVE e.fd + Needs(q) <= q.count + 1
    BY <1>2, <2>1, <2>3
  <2>4. FitTcp(s, e, gone) => FitTcp(q, e, gone)
    BY <1>2, <2>2, <2>3 DEF FitTcp
  <2>5. FitUdp(s, e, gone) => FitUdp(q, e, gone)
    BY <1>2 DEF FitUdp
  <2> QED BY <2>4, <2>5
<1> QED BY <1>1, <1>2 DEF Connected

\* after a game that was left in the batch no event of it reaches a socket
LEMMA FitDisconnected ==
  ASSUME NEW s \in Clients, NEW q \in Clients, NEW e \in Events, NEW gone, ~gone, NEW now, now,
         Disconnected(q, s), NEW r \in Clients, Steady(r, q), "left" \in r.past
  PROVE  /\ FitTcp(s, e, gone) => FitTcp(r, e, now)
         /\ FitUdp(s, e, gone) => FitUdp(r, e, now)
<1>1. /\ r.st = "fresh" /\ r.tcpFdev = 0 /\ r.count = q.count /\ s.past \subseteq r.past
      /\ "hangup" \notin s.past /\ (s.st # "fresh" \/ s.tcpFdev = 0) => r.count + Needs(s) >= s.count
  BY DEF Disconnected, Steady, SameTable, SameRest
<1>2. Gone(r)
  BY <1>1 DEF Gone
<1>3. ASSUME FitTcp(s, e, gone), "hangup" \notin r.past PROVE e.fd + Needs(r) <= r.count + 1
  <2>1. e.fd + Needs(s) <= s.count + 1 /\ r.count + Needs(s) >= s.count
    BY <1>1, <1>3 DEF FitTcp
  <2>2. Needs(r) = 0 /\ Needs(s) \in Nat /\ e.fd \in Int /\ s.count \in Int /\ r.count \in Int
    BY <1>1, ClientFields DEF Needs, Events
  <2> QED BY <2>1, <2>2
<1>4. FitTcp(s, e, gone) => FitTcp(r, e, now)
  BY <1>1, <1>2, <1>3 DEF FitTcp
<1>5. FitUdp(s, e, gone) => FitUdp(r, e, now)
  BY <1>1, <1>2 DEF FitUdp
<1> QED BY <1>4, <1>5

\* a game that the frame left is remembered
Framed(q, z, s) ==
  q = [z EXCEPT !.past = IF "game" \in s.ready \ z.ready THEN @ \cup {"left"} ELSE @]

\* what is only remembered changes nothing
LEMMA PastAdded ==
  ASSUME NEW s, Fine(s), ~Ended(s) => Menu(s), NEW p \in SUBSET Pasts, s.past \subseteq p,
         "stray" \in p => "stray" \in s.past, NEW q, q = [s EXCEPT !.past = p]
  PROVE  /\ Fine(q) /\ Onward(q, s) /\ Steady(q, s) /\ q.past = p /\ (Ended(q) <=> Ended(s))
         /\ ~Ended(q) => Menu(q)
<1>1. s \in Clients /\ Proper(s) /\ Explained(s)
  BY DEF Fine, Proper
<1>2. q \in Clients
  BY <1>1 DEF Clients
<1>3. /\ q.past = p /\ q.saved = s.saved /\ q.end = s.end
      /\ SameNet(q, s) /\ SameConn(q, s) /\ SameUdp(q, s) /\ SameApp(q, s)
  BY <1>1 DEF Clients, SameNet, SameTable, SameConn, SameUdp, SameApp
<1>4. Steady(q, s) /\ Onward(q, s) /\ (Ended(q) <=> Ended(s))
  BY <1>3 DEF Steady, SameNet, Onward, SameEnd, Ended
<1>5. Explained(q) /\ Proper(q)
  BY <1>1, <1>2, <1>3, <1>4, ExplainedKept DEF Proper, SameUdp, SameConn
<1>6. ASSUME ~Ended(s) PROVE Kept(q) /\ Menu(q) /\ Net(q)
  <2>1. Menu(s) /\ Kept(s) /\ Net(s)
    BY <1>6 DEF Fine
  <2>2. Kept(q) /\ Menu(q)
    BY <1>3, <2>1 DEF Kept, Menu, SameApp
  <2>3. /\ s.dgrams # <<>> => s.game = "player" \/ "reconnect" \in s.past
        /\ s.welcomed => s.game # "none"
    BY <2>1 DEF Net, Socket
  <2>4. Net(q)
    BY <1>3, <2>1, <2>3, NetKept DEF SameConn, SameUdp, SameApp
  <2> QED BY <2>2, <2>4
<1> QED BY <1>3, <1>4, <1>5, <1>6 DEF Fine

\* the frame that is drawn for the window's event
LEMMA FrameFine ==
  ASSUME NEW s, Fine(s), ~Ended(s), Menu(s), NEW b \in Seq(Events), b # <<>>, Head(b).fd = 1,
         Alone(s, b), Fit(s, b, NoWindow(b)), NEW click \in Clicks, NEW res \in {"wouldblock", "ok", "fail"},
         NEW z, z = waapp_state_update(s, click, res),
         NEW q, Framed(q, z, s)
  PROVE  Fine(q) /\ (~Ended(q) => Menu(q) /\ Alone(q, Tail(b)) /\ Fit(q, Tail(b), NoWindow(Tail(b))))
<1> DEFINE t == Tail(b)
           gone == NoWindow(b)
           now == NoWindow(t)
<1>1. /\ 1 \in DOMAIN b /\ b[1].fd = 1
      /\ \A k \in DOMAIN t : t[k] \in Events /\ k + 1 \in DOMAIN b /\ k + 1 # 1 /\ t[k] = b[k + 1]
  BY BatchTail
<1>2. ~gone
  BY <1>1 DEF NoWindow
<1>3. now
  <2> HIDE DEF t
  <2>1. ASSUME NEW k \in DOMAIN t PROVE t[k].fd # 1
    <3> DEFINE i == k + 1
    <3>1. i \in DOMAIN b /\ i # 1 /\ t[k] = b[i]
      BY <1>1
    <3> HIDE DEF i
    <3> QED BY <1>1, <3>1 DEF Alone
  <2> QED BY <2>1 DEF NoWindow
<1> HIDE DEF t, gone, now
<1>4. \A k \in DOMAIN t : t[k].fd # 1 =>
        /\ t[k].of.kind \in {"tcp", "udp"}
        /\ t[k].of.kind = "tcp" => FitTcp(s, t[k], gone)
        /\ t[k].of.kind = "udp" => FitUdp(s, t[k], gone)
  BY <1>1 DEF Fit, gone
<1>5. /\ Fine(z) /\ Onward(z, s)
      /\ ~Ended(z) =>
           /\ Menu(z)
           /\ \E n \in Clients :
                /\ Connected(n, s) /\ Onward(n, s)
                /\ \/ Steady(z, n) /\ s.ready \cap {"game"} = z.ready \cap {"game"}
                   \/ Disconnected(z, n) /\ "game" \in s.ready /\ "game" \notin z.ready
  BY UpdateFine
<1>6. z \in Clients /\ s \in Clients
  BY <1>5 DEF Fine, Proper
<1>7. PICK p \in SUBSET Pasts : p = IF "game" \in s.ready \ z.ready THEN z.past \cup {"left"} ELSE z.past
  BY <1>6, ClientFields DEF Pasts
<1>8. /\ Fine(q) /\ Onward(q, z) /\ Steady(q, z) /\ q.past = p /\ (Ended(q) <=> Ended(z))
      /\ ~Ended(q) => Menu(q)
  <2>1. q = [z EXCEPT !.past = p]
    BY <1>6, <1>7 DEF Framed, Clients
  <2>2. z.past \subseteq p /\ ("stray" \in p => "stray" \in z.past)
    BY <1>7
  <2> QED BY <1>5, <2>1, <2>2, PastAdded
<1>9. q \in Clients
  BY <1>8 DEF Fine, Proper
<1>10. ASSUME ~Ended(q) PROVE Alone(q, t) /\ Fit(q, t, now)
  <2>1. ~Ended(z)
    BY <1>8, <1>10
  <2>4. Alone(q, t)
    <3>1. s.past \subseteq q.past
      BY <1>5, <1>8 DEF Onward
    <3> QED BY <3>1, AloneOn DEF t
  <2>5. PICK n \in Clients :
          /\ Connected(n, s) /\ Onward(n, s)
          /\ \/ Steady(z, n) /\ s.ready \cap {"game"} = z.ready \cap {"game"}
             \/ Disconnected(z, n) /\ "game" \in s.ready /\ "game" \notin z.ready
    BY <1>5, <2>1
  <2>6. \A k \in DOMAIN t : t[k].fd # 1 =>
          /\ t[k].of.kind = "tcp" => FitTcp(n, t[k], gone)
          /\ t[k].of.kind = "udp" => FitUdp(n, t[k], gone)
    BY <1>1, <1>2, <1>4, <1>6, <2>5, FitConnected DEF Onward
  <2>7. \A k \in DOMAIN t : t[k].fd # 1 =>
          /\ t[k].of.kind = "tcp" => FitTcp(q, t[k], now)
          /\ t[k].of.kind = "udp" => FitUdp(q, t[k], now)
    <3>1. CASE Steady(z, n)
      <4>1. Steady(q, n)
        BY <1>8, <3>1 DEF Steady, SameTable, SameUdp
      <4>2. \A k \in DOMAIN t : /\ FitTcp(n, t[k], gone) => FitTcp(q, t[k], gone)
                                /\ FitUdp(n, t[k], gone) => FitUdp(q, t[k], gone)
        BY <4>1, FitTcpSteady, FitUdpSteady
      <4>3. \A k \in DOMAIN t : /\ FitTcp(q, t[k], gone) => FitTcp(q, t[k], now)
                                /\ FitUdp(q, t[k], gone) => FitUdp(q, t[k], now)
        BY <1>2 DEF FitTcp, FitUdp
      <4> QED BY <2>6, <4>2, <4>3
    <3>2. CASE Disconnected(z, n) /\ "game" \in s.ready /\ "game" \notin z.ready
      <4>1. "left" \in q.past
        BY <1>7, <1>8, <3>2
      <4>2. ASSUME NEW e \in Events
            PROVE  /\ FitTcp(n, e, gone) => FitTcp(q, e, now)
                   /\ FitUdp(n, e, gone) => FitUdp(q, e, now)
        <5>1. Disconnected(z, n) /\ Steady(q, z)
          BY <1>8, <3>2
        <5> QED BY <1>2, <1>3, <1>6, <1>9, <4>1, <5>1, FitDisconnected
      <4> QED BY <1>1, <2>6, <4>2
    <3> QED BY <2>5, <3>1, <3>2
  <2>8. Fit(q, t, now)
    BY <1>4, <2>7 DEF Fit
  <2> QED BY <2>4, <2>8
<1> QED BY <1>8, <1>10 DEF t, now

-------------------------------------------------------------------------------
(* The server, the network and the end. *)

\* the server or the network changes what the kernel holds for the TCP socket
LEMMA LinkFine ==
  ASSUME NEW s, Fine(s), ~Ended(s), Menu(s), NEW l \in Links, l.q = s.link.q \/ s.st = "connected",
         NEW q, q = [s EXCEPT !.link = l]
  PROVE  Fine(q) /\ ~Ended(q) /\ Menu(q) /\ Steady(q, s)
<1>1. s \in Clients /\ Proper(s) /\ Explained(s) /\ Kept(s) /\ Net(s)
  BY DEF Fine, Proper
<1>2. q \in Clients
  BY <1>1 DEF Clients
<1>3. /\ q.link = l /\ q.welcomed = s.welcomed /\ q.saved = s.saved /\ q.past = s.past /\ q.end = s.end
      /\ SameNet(q, s) /\ SameApp(q, s) /\ SameUdp(q, s)
  BY <1>1 DEF Clients, SameNet, SameTable, SameApp, SameUdp
<1>4. Onward(q, s) /\ ~Ended(q) /\ Steady(q, s)
  BY <1>3 DEF Onward, SameEnd, Ended, Steady, SameNet
<1>5. Explained(q) /\ Proper(q)
  BY <1>1, <1>2, <1>3, <1>4, ExplainedKept DEF Proper, SameUdp, SameNet
<1>6. Net(q)
  <2>1. /\ s.dgrams # <<>> => s.game = "player" \/ "reconnect" \in s.past
        /\ s.welcomed => s.game # "none"
    BY <1>1 DEF Net, Socket
  <2> QED BY <1>1, <1>3, <2>1, NetKept DEF SameUdp, SameApp
<1>7. Kept(q) /\ Menu(q)
  BY <1>1, <1>3 DEF Kept, Menu, SameApp
<1> QED BY <1>4, <1>5, <1>6, <1>7 DEF Fine

\* a batch stays fit over what leaves the table alone
LEMMA FitKept ==
  ASSUME NEW s, NEW q, NEW b, NEW gone, Fit(s, b, gone), Alone(s, b), Steady(q, s)
  PROVE  Fit(q, b, gone) /\ Alone(q, b)
<1>1. \A k \in DOMAIN b : /\ FitTcp(s, b[k], gone) => FitTcp(q, b[k], gone)
                          /\ FitUdp(s, b[k], gone) => FitUdp(q, b[k], gone)
  BY FitTcpSteady, FitUdpSteady
<1> QED BY <1>1 DEF Fit, Alone, Steady

\* a datagram arrives
LEMMA DatagramFine ==
  ASSUME NEW s, Fine(s), ~Ended(s), Menu(s), s.udpSock # 0, s.game = "player",
         NEW x \in Seq({"reconnect", "pong"}), x # <<>>, NEW q, q = [s EXCEPT !.dgrams = x],
         NEW b \in Seq(Events), NEW gone, Fit(s, b, gone), Alone(s, b)
  PROVE  Fine(q) /\ ~Ended(q) /\ Menu(q) /\ Fit(q, b, gone) /\ Alone(q, b)
<1>1. s \in Clients /\ Proper(s) /\ Explained(s) /\ Kept(s) /\ Net(s)
  BY DEF Fine, Proper
<1>2. q \in Clients
  BY <1>1 DEF Clients
<1>3. /\ q.dgrams = x /\ q.end = s.end
      /\ SameNet(q, s) /\ SameApp(q, s) /\ SameConn(q, s) /\ SameRest(q, s)
  BY <1>1 DEF Clients, SameNet, SameTable, SameApp, SameConn, SameRest
<1>4. Onward(q, s) /\ ~Ended(q) /\ Level(q, s)
  BY <1>3 DEF Onward, SameEnd, Ended, Level, SameNet, SameRest
<1>5. Explained(q) /\ Proper(q)
  BY <1>1, <1>2, <1>3, <1>4, ExplainedKept DEF Proper, SameNet
<1>6. Net(q)
  <2>1. s.welcomed => s.game # "none"
    BY <1>1 DEF Net, Socket
  <2> QED BY <1>1, <1>3, <2>1, NetKept DEF SameConn, SameApp, SameRest
<1>7. Kept(q) /\ Menu(q)
  BY <1>1, <1>3 DEF Kept, Menu, SameApp, SameRest
<1>8. \A k \in DOMAIN b : b[k] \in Events
  OBVIOUS
<1>9. \A k \in DOMAIN b : FitTcp(s, b[k], gone) => FitTcp(q, b[k], gone)
  BY <1>1, <1>2, <1>4, <1>8, FitTcpBypassed DEF Bypassed, Level
<1>10. \A k \in DOMAIN b : FitUdp(s, b[k], gone) => FitUdp(q, b[k], gone)
  BY <1>3 DEF FitUdp, There, Gone, SameNet, SameTable, SameRest
<1>11. Alone(q, b)
  BY <1>4 DEF Alone, Level
<1> QED BY <1>4, <1>5, <1>6, <1>7, <1>9, <1>10, <1>11 DEF Fine, Fit

\* the data of another state than the game
LEMMA MenuCleaned ==
  ASSUME NEW s, Firm(s), ~Ended(s), NEW which \in {"main_menu", "map_editor"},
         NEW q, q = waapp_state_cleanup(s, which)
  PROVE  Firm(q) /\ ~Ended(q)
<1>1. s \in Clients /\ Proper(s) /\ Explained(s) /\ Net(s)
  BY DEF Firm, Proper
<1>2. PICK r \in SUBSET States : r = s.ready \ {which}
  BY <1>1, ClientFields
<1>3. q = [s EXCEPT !.ready = r]
  BY <1>1, <1>2 DEF waapp_state_cleanup, Clients
<1>4. q \in Clients
  BY <1>1, <1>3 DEF Clients
<1>5. /\ q.end = s.end /\ q.game = s.game
      /\ SameNet(q, s) /\ SameConn(q, s) /\ SameUdp(q, s) /\ SameRest(q, s)
  BY <1>1, <1>3 DEF Clients, SameNet, SameTable, SameConn, SameUdp, SameRest
<1>6. Onward(q, s) /\ ~Ended(q)
  BY <1>5 DEF Onward, SameEnd, Ended, SameRest
<1>7. Explained(q) /\ Proper(q)
  BY <1>1, <1>4, <1>5, <1>6, ExplainedKept DEF Proper, SameUdp, SameConn
<1>8. Net(q)
  <2>1. /\ s.dgrams # <<>> => s.game = "player" \/ "reconnect" \in s.past
        /\ s.welcomed => s.game # "none"
    BY <1>1 DEF Net, Socket
  <2> QED BY <1>1, <1>5, <2>1, NetKept DEF SameConn, SameUdp, SameRest
<1> QED BY <1>6, <1>7, <1>8 DEF Firm

\* the end of a program, if it has not ended before
Closed(q, g) ==
  q = [g EXCEPT !.st = "closed", !.count = 0, !.end = IF Ended(g) THEN @ ELSE "exit"]

LEMMA ClosedType ==
  ASSUME NEW g \in Clients, NEW n \in 0..Capacity, NEW end \in Ends
  PROVE  [g EXCEPT !.st = "closed", !.count = n, !.end = end] \in Clients
  BY DEF Clients

\* the end of waapp_run cleans up every state that is left, and the program has an end
LEMMA ExitFine ==
  ASSUME NEW s, Fine(s), ~Ended(s),
         NEW m, m = waapp_state_cleanup(s, "main_menu"), NEW e, e = waapp_state_cleanup(m, "map_editor"),
         NEW g, g = IF "game" \in e.ready THEN waapp_state_cleanup(e, "game") ELSE e,
         NEW q, Closed(q, g)
  PROVE  Fine(q) /\ Ended(q)
<1>1. Firm(s)
  BY DEF Fine, Firm
<1>2. Firm(m) /\ ~Ended(m)
  BY <1>1, MenuCleaned
<1>3. Firm(e)
  BY <1>2, MenuCleaned
<1>4. Firm(g)
  BY <1>3, GameCleaned
<1>5. g \in Clients /\ Proper(g) /\ Explained(g)
  BY <1>4 DEF Firm, Proper
<1>6. PICK end \in Ends : end = IF Ended(g) THEN g.end ELSE "exit"
  BY <1>5, ClientFields DEF Ends
<1>7. PICK n \in 0..Capacity : n = 0
  BY CapacityFacts
<1>8. q = [g EXCEPT !.st = "closed", !.count = n, !.end = end]
  BY <1>5, <1>6, <1>7 DEF Closed, Clients
<1>9. q \in Clients
  BY <1>5, <1>8, ClosedType, Zenon
<1>10. q.end = end /\ q.past = g.past /\ q.udpSock = g.udpSock /\ q.sock = g.sock
  BY <1>5, <1>8 DEF Clients
<1>11. Ended(q)
  BY <1>6, <1>10 DEF Ended
<1>12. Explained(q)
  BY <1>5, <1>6, <1>10 DEF Explained
<1> QED BY <1>5, <1>9, <1>10, <1>11, <1>12 DEF Fine, Proper

-------------------------------------------------------------------------------
(* The start. *)

\* before the main menu is entered no state is current; to connect does not depend on it
Fields == {"mem", "count", "tcpFdev", "udpFdev", "udpSock", "dgrams", "sock", "st", "link", "greeted",
           "welcomed", "cur", "prev", "pending", "ready", "game", "saved", "run", "bot", "doConnect",
           "end", "past"}

Whole(s) == s = [f \in Fields |-> s[f]]

Under(s, x) == [s EXCEPT !.cur = x]

\* each function does the same whatever state is current
LEMMA UndefinedUnder ==
  ASSUME NEW s, Whole(s), NEW x, NEW why
  PROVE  Whole(Undefined(s, why)) /\ Undefined(Under(s, x), why) = Under(Undefined(s, why), x)
  BY DEF Whole, Fields, Under, Undefined, Ended

LEMMA AddUnder ==
  ASSUME NEW s, Whole(s), NEW x, NEW kind, NEW sock, NEW write
  PROVE  /\ Whole(client_net_add_fdevent(s, kind, sock, write))
         /\ client_net_add_fdevent(Under(s, x), kind, sock, write)
              = Under(client_net_add_fdevent(s, kind, sock, write), x)
<1>1. CASE s.count = Capacity
  <2>1. Under(s, x).count = s.count
    BY DEF Under, Whole, Fields
  <2> QED BY <1>1, <2>1, UndefinedUnder DEF client_net_add_fdevent
<1>2. CASE s.count # Capacity
  BY <1>2 DEF Whole, Fields, Under, client_net_add_fdevent
<1> QED BY <1>1, <1>2

LEMMA UdpUnder ==
  ASSUME NEW s, Whole(s), NEW x
  PROVE  Whole(client_net_udp_init(s)) /\ client_net_udp_init(Under(s, x)) = Under(client_net_udp_init(s), x)
<1> DEFINE a == client_net_add_fdevent(s, "udp", s.sock, FALSE)
<1>1. Under(s, x).count = s.count /\ Under(s, x).sock = s.sock
  BY DEF Under, Whole, Fields
<1>2. Whole(a) /\ client_net_add_fdevent(Under(s, x), "udp", s.sock, FALSE) = Under(a, x)
  <2>1. \A k, n, w : /\ Whole(client_net_add_fdevent(s, k, n, w))
                     /\ client_net_add_fdevent(Under(s, x), k, n, w) = Under(client_net_add_fdevent(s, k, n, w), x)
    BY AddUnder
  <2> QED BY <2>1, Zenon
<1>3. /\ client_net_udp_init(s) = [a EXCEPT !.udpSock = s.sock, !.udpFdev = s.count + 1, !.dgrams = <<>>]
      /\ client_net_udp_init(Under(s, x))
           = [Under(a, x) EXCEPT !.udpSock = s.sock, !.udpFdev = s.count + 1, !.dgrams = <<>>]
  BY <1>1, <1>2 DEF client_net_udp_init
<1> HIDE DEF a
<1> QED BY <1>2, <1>3 DEF Whole, Fields, Under

LEMMA OnConnectUnder ==
  ASSUME NEW s, Whole(s), NEW x
  PROVE  Whole(client_net_on_connect(s)) /\ client_net_on_connect(Under(s, x)) = Under(client_net_on_connect(s), x)
<1> DEFINE name(r) == IF r.saved = "freed" THEN Undefined(r, "freed_name")
                      ELSE IF r.saved = "none" /\ "main_menu" \notin r.ready THEN Undefined(r, "no_menu")
                      ELSE r
           n == name(s)
           g == [n EXCEPT !.st = "connected", !.greeted = n.greeted + 1]
           u == client_net_udp_init(g)
<1>1. Whole(n) /\ name(Under(s, x)) = Under(n, x)
  <2>1. Under(s, x).saved = s.saved /\ Under(s, x).ready = s.ready
    BY DEF Under, Whole, Fields
  <2> QED BY <2>1, UndefinedUnder
<1>2. client_net_on_connect(s) = [u EXCEPT !.saved = IF u.saved = "none" THEN "none" ELSE "freed"]
  BY DEF client_net_on_connect
<1> DEFINE h == [Under(n, x) EXCEPT !.st = "connected", !.greeted = Under(n, x).greeted + 1]
           v == client_net_udp_init(h)
<1>3. client_net_on_connect(Under(s, x)) = [v EXCEPT !.saved = IF v.saved = "none" THEN "none" ELSE "freed"]
  <2> DEFINE k == name(Under(s, x))
             j == client_net_udp_init([k EXCEPT !.st = "connected", !.greeted = k.greeted + 1])
  <2>1. client_net_on_connect(Under(s, x)) = [j EXCEPT !.saved = IF j.saved = "none" THEN "none" ELSE "freed"]
    BY DEF client_net_on_connect
  <2>2. k = Under(n, x)
    BY <1>1
  <2> HIDE DEF k, n, name
  <2>3. j = v
    BY <2>2
  <2> HIDE DEF j, v
  <2> QED BY <2>1, <2>3
<1> HIDE DEF n, name
<1>4. Whole(g) /\ h = Under(g, x)
  BY <1>1 DEF Whole, Fields, Under
<1> HIDE DEF g, h
<1>5. Whole(u) /\ v = Under(u, x)
  BY <1>4, UdpUnder
<1> HIDE DEF u, v
<1> QED BY <1>2, <1>3, <1>5 DEF Whole, Fields, Under

LEMMA AsyncUnder ==
  ASSUME NEW s, Whole(s), NEW x, NEW res
  PROVE  client_net_async_connect(Under(s, x), res) = Under(client_net_async_connect(s, res), x)
<1> DEFINE t == Under(s, x)
<1>1. /\ t.sock = s.sock /\ t.st = s.st /\ t.link = s.link /\ t.count = s.count
      /\ Result(t, res) = Result(s, res)
  BY DEF Under, Whole, Fields, Result
<1>2. CASE Result(s, res) = "fail"
  <2>1. /\ client_net_async_connect(s, res) = [s EXCEPT !.run = s.run /\ ~s.doConnect, !.link.err = FALSE]
        /\ client_net_async_connect(t, res) = [t EXCEPT !.run = t.run /\ ~t.doConnect, !.link.err = FALSE]
    BY <1>1, <1>2 DEF client_net_async_connect
  <2> QED BY <2>1 DEF Whole, Fields, Under
<1>3. CASE Result(s, res) # "fail"
  <2> DEFINE w == Result(s, res) = "wouldblock"
             b == client_net_add_fdevent(s, "tcp", s.sock, w)
             a == [b EXCEPT !.tcpFdev = s.count + 1]
             d == [Under(b, x) EXCEPT !.tcpFdev = s.count + 1]
             past == IF s.st = "connecting" THEN a.past \cup {"twice"} ELSE a.past
             n == [a EXCEPT !.link.shake = "ok", !.past = past]
             m == [d EXCEPT !.link.shake = "ok", !.past = IF s.st = "connecting" THEN d.past \cup {"twice"} ELSE d.past]
  <2>1. Whole(b) /\ client_net_add_fdevent(t, "tcp", s.sock, w) = Under(b, x)
    BY AddUnder
  <2>2. client_net_async_connect(s, res) =
             IF w THEN [a EXCEPT !.st = "connecting", !.link.shake = "syn"] ELSE client_net_on_connect(n)
    BY <1>1, <1>3 DEF client_net_async_connect
  <2>7. client_net_async_connect(t, res) =
             IF w THEN [d EXCEPT !.st = "connecting", !.link.shake = "syn"] ELSE client_net_on_connect(m)
    <3> DEFINE j == [client_net_add_fdevent(t, "tcp", t.sock, Result(t, res) = "wouldblock") EXCEPT !.tcpFdev = t.count + 1]
    <3>1. client_net_async_connect(t, res) =
             IF Result(t, res) = "wouldblock" THEN [j EXCEPT !.st = "connecting", !.link.shake = "syn"]
             ELSE client_net_on_connect([j EXCEPT !.link.shake = "ok",
                            !.past = IF t.st = "connecting" THEN j.past \cup {"twice"} ELSE j.past])
      BY <1>1, <1>3 DEF client_net_async_connect
    <3>2. j = d
      BY <1>1, <2>1
    <3> HIDE DEF j, d, t
    <3> QED BY <1>1, <3>1, <3>2
  <2> HIDE DEF b, w
  <2>3. Whole(a) /\ d = Under(a, x)
    BY <2>1 DEF Whole, Fields, Under
  <2> HIDE DEF a, d
  <2>4. Whole(n) /\ m = Under(n, x)
    BY <2>3 DEF Whole, Fields, Under
  <2> HIDE DEF n, m
  <2>5. client_net_on_connect(m) = Under(client_net_on_connect(n), x)
    BY <2>4, OnConnectUnder
  <2>6. [d EXCEPT !.st = "connecting", !.link.shake = "syn"]
          = Under([a EXCEPT !.st = "connecting", !.link.shake = "syn"], x)
    BY <2>3 DEF Whole, Fields, Under
  <2> QED BY <2>2, <2>5, <2>6, <2>7
<1> QED BY <1>2, <1>3

\* what waapp_init leaves, the main menu to be entered
Started(q, bot, doConnect) ==
  /\ q \in Clients /\ q.mem[1].kind = "wayland" /\ q.count = 1
  /\ \A i \in 1..Capacity : q.mem[i].sock = 0 /\ q.mem[i].kind # "udp"
  /\ q.tcpFdev = 0 /\ q.udpFdev = 0 /\ q.udpSock = 0 /\ q.dgrams = <<>> /\ q.sock = 1
  /\ q.st = "fresh" /\ q.link = FreshLink /\ q.greeted = 0 /\ ~q.welcomed
  /\ q.prev = "none" /\ ~q.pending /\ q.ready = {"main_menu"} /\ q.game = "none" /\ q.saved = "none"
  /\ q.doConnect = doConnect /\ q.end = "no" /\ q.past = {}

\* the program before it connects is sound
LEMMA StartedFine ==
  ASSUME NEW q, NEW bot, NEW doConnect, Started(q, bot, doConnect)
  PROVE  Fine(q) /\ ~Ended(q)
<1>1. Proper(q) /\ Explained(q) /\ Kept(q) /\ ~Ended(q)
  BY DEF Started, Proper, Explained, Kept, Ended
<1>2. Socket(q)
  BY FreshLinkFacts DEF Started, Socket
<1>3. Regular(q)
  BY DEF Started, Regular
<1>4. LastUdp(q)
  <2>1. \A i \in 1..q.count : i \in 1..Capacity
    BY CapacityFacts DEF Started
  <2> QED BY <2>1 DEF Started, LastUdp, Needs
<1> QED BY <1>1, <1>2, <1>3, <1>4 DEF Fine, Net

First(bot, doConnect, cur) ==
  [mem |-> [i \in 1..Capacity |-> IF i = 1 THEN Fdev("wayland", 0, FALSE) ELSE Nothing],
   count |-> 1, tcpFdev |-> 0, udpFdev |-> 0, udpSock |-> 0, dgrams |-> <<>>,
   sock |-> 1, st |-> "fresh", link |-> FreshLink, greeted |-> 0, welcomed |-> FALSE,
   cur |-> cur, prev |-> "none", pending |-> FALSE, ready |-> {},
   game |-> "none", saved |-> "none", run |-> TRUE, bot |-> bot,
   doConnect |-> doConnect, end |-> "no", past |-> {}]

\* the fields of the program when the main menu is entered
LEMMA StartedFirst ==
  ASSUME NEW bot \in BOOLEAN, NEW doConnect \in BOOLEAN,
         NEW q, q = Under([First(bot, doConnect, "none") EXCEPT !.prev = "none", !.ready = {"main_menu"}], "main_menu")
  PROVE  Started(q, bot, doConnect) /\ q.cur = "main_menu"
<1> DEFINE m == [i \in 1..Capacity |-> IF i = 1 THEN Fdev("wayland", 0, FALSE) ELSE Nothing]
<1>1. /\ m \in [1..Capacity -> Fdevs] /\ m[1].kind = "wayland"
      /\ \A i \in 1..Capacity : m[i].sock = 0 /\ m[i].kind # "udp"
  <2>1. Fdev("wayland", 0, FALSE) \in Fdevs /\ Nothing \in Fdevs
    BY DEF Fdev, Fdevs, Nothing
  <2>2. /\ Fdev("wayland", 0, FALSE).kind = "wayland" /\ Fdev("wayland", 0, FALSE).sock = 0
        /\ Nothing.sock = 0 /\ Nothing.kind = "none"
    BY DEF Fdev, Nothing
  <2>3. 1 \in 1..Capacity
    BY CapacityFacts
  <2> QED BY <2>1, <2>2, <2>3
<1> HIDE DEF m
<1>2. q = [First(bot, doConnect, "none") EXCEPT !.prev = "none", !.ready = {"main_menu"}, !.cur = "main_menu"]
  BY DEF Under, First
<1>3. /\ q.mem = m /\ q.count = 1 /\ q.tcpFdev = 0 /\ q.udpFdev = 0 /\ q.udpSock = 0 /\ q.dgrams = <<>>
      /\ q.sock = 1 /\ q.st = "fresh" /\ q.link = FreshLink /\ q.greeted = 0 /\ q.welcomed = FALSE
      /\ q.cur = "main_menu" /\ q.prev = "none" /\ q.pending = FALSE /\ q.ready = {"main_menu"}
      /\ q.game = "none" /\ q.saved = "none" /\ q.run = TRUE /\ q.bot = bot
      /\ q.doConnect = doConnect /\ q.end = "no" /\ q.past = {}
  <2> DEFINE f == First(bot, doConnect, "none")
  <2>1. Whole(f)
    BY DEF Whole, Fields, First
  <2>2. f.mem = m
    BY Zenon DEF First, m
  <2>3. /\ f.count = 1 /\ f.tcpFdev = 0 /\ f.udpFdev = 0 /\ f.udpSock = 0 /\ f.sock = 1 /\ f.greeted = 0
        /\ f.dgrams = <<>> /\ f.link = FreshLink
    BY DEF First
  <2>4. f.st = "fresh" /\ f.game = "none" /\ f.saved = "none" /\ f.end = "no" /\ f.past = {}
    BY DEF First
  <2>5. f.welcomed = FALSE /\ f.pending = FALSE /\ f.run = TRUE /\ f.bot = bot /\ f.doConnect = doConnect
    BY DEF First
  <2>6. q = [f EXCEPT !.prev = "none", !.ready = {"main_menu"}, !.cur = "main_menu"]
    BY <1>2
  <2> HIDE DEF f
  <2>7. /\ q.mem = f.mem /\ q.count = f.count /\ q.tcpFdev = f.tcpFdev /\ q.udpFdev = f.udpFdev
        /\ q.udpSock = f.udpSock /\ q.dgrams = f.dgrams /\ q.sock = f.sock /\ q.st = f.st
        /\ q.link = f.link /\ q.greeted = f.greeted /\ q.welcomed = f.welcomed /\ q.pending = f.pending
        /\ q.game = f.game /\ q.saved = f.saved /\ q.run = f.run /\ q.bot = f.bot
        /\ q.doConnect = f.doConnect /\ q.end = f.end /\ q.past = f.past
        /\ q.cur = "main_menu" /\ q.prev = "none" /\ q.ready = {"main_menu"}
    BY <2>1, <2>6 DEF Whole, Fields
  <2>8. /\ q.mem = m /\ q.count = 1 /\ q.tcpFdev = 0 /\ q.udpFdev = 0 /\ q.udpSock = 0 /\ q.dgrams = <<>>
        /\ q.sock = 1 /\ q.st = "fresh" /\ q.link = FreshLink /\ q.greeted = 0
    BY <2>2, <2>3, <2>4, <2>7
  <2>9. q.welcomed = FALSE /\ q.pending = FALSE /\ q.run = TRUE /\ q.bot = bot /\ q.doConnect = doConnect
    BY <2>5, <2>7
  <2>10. q.game = "none" /\ q.saved = "none" /\ q.end = "no" /\ q.past = {}
    BY <2>4, <2>7
  <2> QED BY <2>7, <2>8, <2>9, <2>10
<1>4. q \in Clients
  <2>1. q = [mem |-> q.mem, count |-> q.count, tcpFdev |-> q.tcpFdev, udpFdev |-> q.udpFdev,
             udpSock |-> q.udpSock, dgrams |-> q.dgrams, sock |-> q.sock, st |-> q.st, link |-> q.link,
             greeted |-> q.greeted, welcomed |-> q.welcomed, cur |-> q.cur, prev |-> q.prev,
             pending |-> q.pending, ready |-> q.ready, game |-> q.game, saved |-> q.saved, run |-> q.run,
             bot |-> q.bot, doConnect |-> q.doConnect, end |-> q.end, past |-> q.past]
    BY <1>2 DEF First
  <2>2. /\ q.mem \in [1..Capacity -> Fdevs] /\ q.count \in 0..Capacity
        /\ q.tcpFdev \in 0..(Capacity + 1) /\ q.udpFdev \in 0..(Capacity + 1) /\ q.udpSock \in Nat
        /\ q.sock \in Nat /\ q.greeted \in Nat
    BY <1>1, <1>3, CapacityFacts
  <2>3. q.dgrams \in Seq({"reconnect", "pong"}) /\ q.link \in Links
    <3>1. <<>> \in Seq({"reconnect", "pong"})
      OBVIOUS
    <3> QED BY <1>3, <3>1, FreshLinkFacts, Zenon
  <2>4. /\ q.st \in {"fresh", "connecting", "connected", "closed"}
        /\ q.cur \in States /\ q.prev \in States \cup {"none"} /\ q.ready \in SUBSET States
        /\ q.game \in {"none", "noplayer", "player"} /\ q.saved \in {"none", "name", "freed"}
        /\ q.end \in Ends /\ q.past \in SUBSET Pasts
    BY <1>3 DEF States, Ends
  <2>5. q.welcomed \in BOOLEAN /\ q.pending \in BOOLEAN /\ q.run \in BOOLEAN /\ q.bot \in BOOLEAN
        /\ q.doConnect \in BOOLEAN
    BY <1>3

  <2> QED BY <2>1, <2>2, <2>3, <2>4, <2>5 DEF Clients
<1> QED BY <1>1, <1>3, <1>4 DEF Started

LEMMA MenuEntered ==
  ASSUME NEW b, Whole(b), b.cur = "none", b.ready = {}, b.game = "none", b.pending = FALSE, NEW res
  PROVE  waapp_state_switch(b, "main_menu", res)
           = [(IF b.doConnect
               THEN client_net_async_connect([b EXCEPT !.prev = "none", !.ready = {"main_menu"}], res)
               ELSE [b EXCEPT !.prev = "none", !.ready = {"main_menu"}]) EXCEPT !.cur = "main_menu"]
  BY DEF waapp_state_switch, Whole, Fields

\* the program that begins, connected or not, is sound
LEMMA InitFine ==
  ASSUME NEW bot \in BOOLEAN, NEW doConnect \in BOOLEAN, NEW res \in {"wouldblock", "ok", "fail"},
         NEW q, q = waapp_state_switch(First(bot, doConnect, "none"), "main_menu", res)
  PROVE  Fine(q) /\ ~Ended(q) /\ Menu(q)
<1> DEFINE b == First(bot, doConnect, "none")
           l == [b EXCEPT !.prev = "none", !.ready = {"main_menu"}]
           r == Under(l, "main_menu")
<1>1. Whole(b) /\ b.cur = "none" /\ b.ready = {} /\ b.game = "none" /\ b.pending = FALSE /\ b.doConnect = doConnect
  BY DEF Whole, Fields, First
<1>2. Started(r, bot, doConnect) /\ r.cur = "main_menu"
  BY StartedFirst
<1>3. Whole(l)
  BY <1>1 DEF Whole, Fields
<1>4. q = Under(IF doConnect THEN client_net_async_connect(l, res) ELSE l, "main_menu")
  <2> HIDE DEF b
  <2>1. q = waapp_state_switch(b, "main_menu", res)
    BY DEF b
  <2>2. q = [(IF b.doConnect
              THEN client_net_async_connect([b EXCEPT !.prev = "none", !.ready = {"main_menu"}], res)
              ELSE [b EXCEPT !.prev = "none", !.ready = {"main_menu"}]) EXCEPT !.cur = "main_menu"]
    BY <1>1, <2>1, MenuEntered
  <2> QED BY <1>1, <2>2 DEF Under
<1> HIDE DEF b, l
<1>5. q = IF doConnect THEN client_net_async_connect(r, res) ELSE r
  BY <1>3, <1>4, AsyncUnder
<1> HIDE DEF r
<1>6. Fine(r) /\ ~Ended(r)
  BY <1>2, StartedFine
<1>7. Menu(r)
  BY <1>2 DEF Started, Menu
<1>8. CASE ~doConnect
  BY <1>5, <1>6, <1>7, <1>8
<1>9. CASE doConnect
  <2>1. q = client_net_async_connect(r, res)
    BY <1>5, <1>9
  <2>2. Fine(q) /\ Onward(q, r) /\ SameApp(q, r)
    BY <1>6, <2>1, ConnectFine
  <2>3. Menu(q)
    BY <1>2, <2>2 DEF Started, Menu, SameApp
  <2>4. ~Ended(q)
    <3>1. /\ r \in Clients /\ r.end = "no" /\ r.count = 1 /\ r.saved = "none" /\ "main_menu" \in r.ready
          /\ 3 <= Capacity /\ Capacity \in Nat
      BY <1>2, CapacityFacts DEF Started
    <3>2. CASE Result(r, res) = "fail"
      BY <2>1, <3>1, <3>2, ConnectFails DEF Ended
    <3>3. CASE Result(r, res) = "wouldblock"
      <4>1. \/ r.count = Capacity /\ SameTable(q, r) /\ Ended(q) /\ (~Ended(r) => q.end = "moved")
            \/ /\ r.count < Capacity /\ q.count = r.count + 1 /\ q.end = r.end
               /\ q.mem = [r.mem EXCEPT ![r.count + 1] = Waiting(r.sock)]
        BY <2>1, <3>1, <3>3, ConnectBegins
      <4> QED BY <3>1, <4>1 DEF Ended
    <3>4. CASE Result(r, res) = "ok"
      <4>1. ~Ended(r) /\ Ended(q) => \/ q.end = "freed_name" /\ r.saved # "none"
                                     \/ q.end = "no_menu" /\ "main_menu" \notin r.ready
                                     \/ q.end = "moved" /\ r.count + 2 > Capacity
        BY <2>1, <3>1, <3>4, ConnectDone
      <4> QED BY <1>6, <3>1, <4>1
    <3> QED BY <3>2, <3>3, <3>4, ResultType
  <2> QED BY <2>2, <2>3, <2>4
<1> QED BY <1>8, <1>9

-------------------------------------------------------------------------------
(* epoll. *)

\* what is ready is a socket in use
LEMMA FlagsOf ==
  ASSUME NEW s \in Clients, NEW i, Flags(s, i) # {}
  PROVE  \/ /\ s.mem[i].kind = "udp" /\ s.mem[i].sock = s.udpSock /\ s.dgrams # <<>>
            /\ Flags(s, i) \subseteq {"IN"}
         \/ /\ s.mem[i].kind = "tcp" /\ s.mem[i].sock = s.sock /\ s.st # "closed"
            /\ i \in FirstOf(s, "tcp", s.sock) /\ ("OUT" \in Flags(s, i) => s.mem[i].write)
  BY DEF Flags

LEMMA FlagsType ==
  ASSUME NEW s, NEW i
  PROVE  Flags(s, i) \subseteq AllFlags
  BY DEF Flags, AllFlags

\* what epoll says of a socket in use
LEMMA PolledFit ==
  ASSUME NEW s, Fine(s), ~Ended(s), NEW i \in 2..s.count, Flags(s, i) # {},
         NEW e \in Events, e.fd = i, e.of = s.mem[i], e.flags = Flags(s, i), NEW gone
  PROVE  /\ e.of.kind \in {"tcp", "udp"}
         /\ e.of.kind = "tcp" => FitTcp(s, e, gone)
         /\ e.of.kind = "udp" => FitUdp(s, e, gone)
<1>1. s \in Clients /\ Net(s) /\ Socket(s)
  BY DEF Fine, Proper, Net
<1>2. /\ i \in 1..Capacity /\ s.count \in Nat /\ s.sock \in Nat /\ s.mem[i] \in Fdevs /\ s.mem[i].sock \in Nat
      /\ s.mem[i].write \in BOOLEAN
  BY <1>1, CapacityFacts, ClientFields, FdevFields
<1>3. CASE /\ s.mem[i].kind = "udp" /\ s.mem[i].sock = s.udpSock /\ s.dgrams # <<>>
           /\ Flags(s, i) \subseteq {"IN"}
  <2>1. There(s, e)
    BY <1>1, <1>2, <1>3 DEF Socket, There
  <2>2. "hangup" \notin s.past => s.st = "connected"
    BY <1>1, <1>2, <1>3 DEF Net, LastUdp
  <2>3. FitUdp(s, e, gone)
    BY <1>3, <2>1, <2>2 DEF FitUdp
  <2> QED BY <1>3, <2>3
<1>4. CASE /\ s.mem[i].kind = "tcp" /\ s.mem[i].sock = s.sock /\ s.st # "closed"
           /\ i \in FirstOf(s, "tcp", s.sock) /\ ("OUT" \in Flags(s, i) => s.mem[i].write)
  <2>1. There(s, e)
    BY <1>2, <1>4 DEF There
  <2>2. s.st \in {"connecting", "connected"}
    <3>1. s.st # "fresh"
      BY <1>1, <1>2, <1>4 DEF Socket
    <3> QED BY <1>1, <1>4, <3>1, ClientFields
  <2>3. ASSUME "twice" \notin s.past PROVE i = 2 /\ ("OUT" \in e.flags => s.st = "connecting")
    <3>1. Regular(s)
      BY <1>1, <2>3 DEF Net
    <3>2. CASE s.st = "connecting"
      BY <1>2, <3>1, <3>2 DEF Regular
    <3>3. CASE s.st = "connected"
      <4>1. s.count = 3 /\ s.mem[2] = Settled(s.sock) /\ s.mem[3] = UdpEntry(s.sock)
        BY <3>1, <3>3 DEF Regular
      <4>2. i # 3
        <5>1. UdpEntry(s.sock).kind = "udp"
          BY <1>2, Entries
        <5> QED BY <1>4, <4>1, <5>1
      <4>3. i = 2
        BY <4>1, <4>2
      <4>4. s.mem[i].write = FALSE
        <5>1. Settled(s.sock).write = FALSE
          BY <1>2, Entries
        <5> QED BY <4>1, <4>3, <5>1, Zenon
      <4> QED BY <1>4, <4>3, <4>4
    <3> QED BY <2>2, <3>2, <3>3
  <2>4. ASSUME "hangup" \notin s.past PROVE i + Needs(s) <= s.count + 1
    <3>1. LastUdp(s)
      BY <1>1, <2>4 DEF Net
    <3>2. s.st = "connected" => i # s.count
      BY <1>4, <3>1 DEF LastUdp
    <3> QED BY <1>2, <2>2, <3>2 DEF Needs
  <2>5. FitTcp(s, e, gone)
    BY <1>4, <2>1, <2>2, <2>3, <2>4 DEF FitTcp
  <2> QED BY <1>4, <2>5
<1> QED BY <1>1, <1>3, <1>4, FlagsOf

\* one entry for the TCP socket, and one for the datagram socket unless tcp_close left another
LEMMA PolledAlone ==
  ASSUME NEW s, Fine(s), ~Ended(s), NEW i \in 2..s.count, NEW j \in 2..s.count, i # j,
         Flags(s, i) # {}, Flags(s, j) # {}, s.mem[i].kind = s.mem[j].kind
  PROVE  s.mem[i].kind = "udp" /\ "hangup" \in s.past
<1>1. s \in Clients /\ Net(s)
  BY DEF Fine, Proper
<1>2. s.count \in Nat /\ i \in 1..s.count /\ j \in 1..s.count
  BY <1>1, CapacityFacts, ClientFields
<1>3. s.mem[i].kind = "udp"
  <2>1. SUFFICES ASSUME i \in FirstOf(s, "tcp", s.sock), j \in FirstOf(s, "tcp", s.sock) PROVE FALSE
    BY <1>1, FlagsOf
  <2>2. /\ s.mem[i].kind = "tcp" /\ s.mem[i].sock = s.sock /\ s.mem[j].kind = "tcp" /\ s.mem[j].sock = s.sock
        /\ \A k \in 1..(i - 1) : s.mem[k].kind # "tcp" \/ s.mem[k].sock # s.sock
        /\ \A k \in 1..(j - 1) : s.mem[k].kind # "tcp" \/ s.mem[k].sock # s.sock
    BY <2>1 DEF FirstOf
  <2>3. i \in 1..(j - 1) \/ j \in 1..(i - 1)
    BY <1>2
  <2> QED BY <2>2, <2>3
<1>4. "hangup" \in s.past
  <2>1. SUFFICES ASSUME LastUdp(s) PROVE FALSE
    BY <1>1 DEF Net
  <2>2. i = s.count /\ j = s.count
    BY <1>2, <1>3, <2>1 DEF LastUdp
  <2> QED BY <2>2
<1> QED BY <1>3, <1>4

LEMMA SeqMade ==
  ASSUME NEW S, NEW n \in Nat, NEW b \in [1..n -> S]
  PROVE  b \in Seq(S) /\ Len(b) = n /\ (b = <<>> <=> n = 0)
<1>1. b \in Seq(S) /\ Len(b) = n
  OBVIOUS
<1> QED BY <1>1

\* the events of the slots that are hot, in some order
Batched(s, hot, order, b) ==
  b = [i \in 1..Cardinality(hot) |->
         [fd |-> order[i], of |-> s.mem[order[i]],
          flags |-> IF order[i] = 1 THEN {"IN"} ELSE Flags(s, order[i])]]

HotOf(s, window) == window \cup {i \in 2..s.count : Flags(s, i) # {}}

Ordered(order, hot) ==
  /\ order \in [1..Cardinality(hot) -> hot]
  /\ \A i, j \in 1..Cardinality(hot) : order[i] = order[j] => i = j

Polled(s, b, n) ==
  /\ b \in [1..n -> Events]
  /\ \A k, m \in 1..n : k # m => b[k].fd # b[m].fd
  /\ \A k \in 1..n : b[k].fd # 1 => /\ b[k].fd \in 2..s.count /\ Flags(s, b[k].fd) # {}
                                    /\ b[k].of = s.mem[b[k].fd] /\ b[k].flags = Flags(s, b[k].fd)

\* a batch names each slot once, and only slots that are ready
LEMMA BatchPolled ==
  ASSUME NEW s \in Clients, NEW window \in SUBSET {1},
         NEW hot, hot = HotOf(s, window), NEW order, Ordered(order, hot),
         NEW b, Batched(s, hot, order, b)
  PROVE  \E n \in Nat : Polled(s, b, n) /\ (n = 0 <=> hot = {})
<1>1. s \in Clients /\ s.count \in 0..4 /\ s.count <= Capacity /\ s.mem \in [1..Capacity -> Fdevs]
  BY CapacityFacts, ClientFields
<1>2. hot \subseteq 1..Capacity /\ \A i \in hot : i # 1 => i \in 2..s.count /\ Flags(s, i) # {}
  <2>1. \A i \in 2..s.count : i \in 1..Capacity
    BY <1>1, CapacityFacts
  <2>2. window \subseteq {1} /\ 1 \in 1..Capacity
    BY CapacityFacts
  <2> QED BY <2>1, <2>2 DEF HotOf
<1>3. Cardinality(hot) \in Nat /\ (Cardinality(hot) = 0 <=> hot = {})
  <2>1. IsFiniteSet(1..Capacity)
    BY FS_Interval, CapacityFacts
  <2>2. IsFiniteSet(hot)
    BY <1>2, <2>1, FS_Subset
  <2> QED BY <2>2, FS_CardinalityType, FS_EmptySet
<1> DEFINE n == Cardinality(hot)
<1> HIDE DEF n
<1>4. n \in Nat /\ (n = 0 <=> hot = {}) /\ order \in [1..n -> hot]
  BY <1>3 DEF n, Ordered
<1>5. ASSUME NEW k \in 1..n
      PROVE  /\ b[k] = [fd |-> order[k], of |-> s.mem[order[k]],
                        flags |-> IF order[k] = 1 THEN {"IN"} ELSE Flags(s, order[k])]
             /\ order[k] \in hot
  BY <1>4 DEF n, Batched
<1>6. ASSUME NEW k \in 1..n
      PROVE  /\ b[k] \in Events /\ b[k].fd = order[k]
             /\ b[k].fd # 1 => /\ b[k].fd \in 2..s.count /\ Flags(s, b[k].fd) # {}
                               /\ b[k].of = s.mem[b[k].fd] /\ b[k].flags = Flags(s, b[k].fd)
  <2>1. PICK i \in 1..Capacity, f \in Fdevs, x \in SUBSET AllFlags :
           /\ i = order[k] /\ f = s.mem[order[k]]
           /\ x = IF order[k] = 1 THEN {"IN"} ELSE Flags(s, order[k])
    <3>1. order[k] \in 1..Capacity
      BY <1>2, <1>5
    <3>2. s.mem[order[k]] \in Fdevs
      BY <1>1, <3>1
    <3>3. {"IN"} \subseteq AllFlags /\ Flags(s, order[k]) \subseteq AllFlags
      BY FlagsType DEF AllFlags
    <3> QED BY <3>1, <3>2, <3>3
  <2>2. b[k] = [fd |-> i, of |-> f, flags |-> x]
    BY <1>5, <2>1
  <2>3. b[k] \in Events /\ b[k].fd = i /\ b[k].of = f /\ b[k].flags = x
    <3>1. [fd |-> i, of |-> f, flags |-> x] \in Events
      BY DEF Events
    <3> QED BY <2>2, <3>1
  <2> QED BY <1>2, <1>5, <2>1, <2>3
<1>7. b \in [1..n -> Events]
  <2>1. b = [k \in 1..n |-> b[k]]
    BY DEF n, Batched
  <2> QED BY <1>6, <2>1
<1>8. ASSUME NEW k \in 1..n, NEW m \in 1..n, k # m PROVE b[k].fd # b[m].fd
  <2>1. order[k] = order[m] => k = m
    BY DEF n, Ordered
  <2> QED BY <1>6, <1>8, <2>1
<1> QED BY <1>4, <1>6, <1>7, <1>8 DEF Polled

\* what epoll returns is a batch of fit events
LEMMA PollFine ==
  ASSUME NEW s, Fine(s), ~Ended(s), NEW b, NEW n \in Nat, Polled(s, b, n), NEW gone
  PROVE  b \in Seq(Events) /\ Alone(s, b) /\ Fit(s, b, gone) /\ (b = <<>> <=> n = 0)
<1>1. b \in Seq(Events) /\ (b = <<>> <=> n = 0) /\ DOMAIN b = 1..n
  BY SeqMade DEF Polled
<1>2. ASSUME NEW k \in 1..n, b[k].fd # 1
      PROVE  /\ b[k].of.kind \in {"tcp", "udp"}
             /\ b[k].of.kind = "tcp" => FitTcp(s, b[k], gone)
             /\ b[k].of.kind = "udp" => FitUdp(s, b[k], gone)
  <2>1. PICK e \in Events, i \in 2..s.count :
          e = b[k] /\ i = e.fd /\ e.of = s.mem[i] /\ e.flags = Flags(s, i) /\ Flags(s, i) # {}
    BY <1>2 DEF Polled
  <2> QED BY <2>1, PolledFit
<1>3. Fit(s, b, gone)
  BY <1>1, <1>2 DEF Fit
<1>4. ASSUME NEW k \in 1..n, NEW m \in 1..n, k # m
      PROVE  /\ b[k].fd # b[m].fd
             /\ b[k].fd # 1 /\ b[m].fd # 1 /\ b[k].of.kind = b[m].of.kind =>
                  b[k].of.kind = "udp" /\ "hangup" \in s.past
  <2>1. b[k].fd # b[m].fd
    BY <1>4 DEF Polled
  <2>2. ASSUME b[k].fd # 1, b[m].fd # 1, b[k].of.kind = b[m].of.kind
        PROVE  b[k].of.kind = "udp" /\ "hangup" \in s.past
    <3>1. PICK i \in 2..s.count, j \in 2..s.count :
            /\ i = b[k].fd /\ j = b[m].fd /\ Flags(s, i) # {} /\ Flags(s, j) # {}
            /\ b[k].of = s.mem[i] /\ b[m].of = s.mem[j]
      BY <2>2 DEF Polled
    <3>2. i # j /\ s.mem[i].kind = s.mem[j].kind
      BY <2>1, <2>2, <3>1
    <3>3. s.mem[i].kind = "udp" /\ "hangup" \in s.past
      BY <3>1, <3>2, PolledAlone
    <3> QED BY <3>1, <3>3
  <2> QED BY <2>1, <2>2
<1>5. Alone(s, b)
  BY <1>1, <1>4 DEF Alone
<1> QED BY <1>1, <1>3, <1>5

-------------------------------------------------------------------------------
(* The steps. *)

\* no event gets less fit when the window's event is done
LEMMA FitLater ==
  ASSUME NEW s, NEW b, NEW gone, NEW now, gone => now, Fit(s, b, gone)
  PROVE  Fit(s, b, now)
  BY DEF Fit, FitTcp, FitUdp

LEMMA FitTail ==
  ASSUME NEW s, NEW b \in Seq(Events), b # <<>>, NEW gone, Fit(s, b, gone)
  PROVE  Fit(s, Tail(b), gone)
<1>1. \A k \in DOMAIN Tail(b) : k + 1 \in DOMAIN b /\ Tail(b)[k] = b[k + 1]
  BY BatchTail
<1> QED BY <1>1 DEF Fit

\* an event of a socket does not change which events of the window are to come
LEMMA WindowTail ==
  ASSUME NEW b \in Seq(Events), b # <<>>
  PROVE  NoWindow(b) => NoWindow(Tail(b))
<1>1. \A k \in DOMAIN Tail(b) : k + 1 \in DOMAIN b /\ Tail(b)[k] = b[k + 1]
  BY BatchTail
<1> QED BY <1>1 DEF NoWindow

\* an empty batch
LEMMA NothingLeft ==
  ASSUME NEW s, NEW gone
  PROVE  Alone(s, <<>>) /\ Fit(s, <<>>, gone)
<1>1. DOMAIN <<>> = {}
  OBVIOUS
<1> QED BY <1>1, Zenon DEF Alone, Fit

LEMMA EmptyLen ==
  ASSUME NEW S, NEW x \in Seq(S)
  PROVE  x = <<>> <=> Len(x) = 0
<1>1. Len(x) \in Nat /\ x \in [1..Len(x) -> S]
  OBVIOUS
<1> QED BY <1>1, SeqMade

LEMMA Appended ==
  ASSUME NEW S, NEW x \in Seq(S), NEW e \in S
  PROVE  Append(x, e) \in Seq(S) /\ Append(x, e) # <<>>
<1>1. Append(x, e) \in Seq(S) /\ Len(Append(x, e)) = Len(x) + 1 /\ Len(x) \in Nat
  OBVIOUS
<1> QED BY <1>1, EmptyLen

LEMMA AfterBatchFacts ==
  ASSUME batch \in Seq(Events), batch # <<>>, NEW to \in AfterBatch
  PROVE  to \in {"poll", "batch", "update"} /\ (to = "batch" <=> Tail(batch) # <<>>)
<1>1. Len(Tail(batch)) = Len(batch) - 1 /\ Tail(batch) \in Seq(Events) /\ Len(batch) \in Nat
  BY TailType
<1>2. Tail(batch) = <<>> <=> Len(batch) = 1
  <2> DEFINE t == Tail(batch)
  <2>1. t \in Seq(Events) /\ Len(t) = Len(batch) - 1
    BY <1>1
  <2> HIDE DEF t
  <2>2. t = <<>> <=> Len(t) = 0
    BY <2>1, EmptyLen
  <2>3. t = <<>> <=> Len(batch) = 1
    BY <1>1, <2>1, <2>2
  <2> QED BY <2>3 DEF t
<1> QED BY <1>2 DEF AfterBatch

\* a step of the thread
LEMMA GoFine ==
  ASSUME NEW s, Fine(s), NEW b \in Seq(Events), NEW to \in {"poll", "batch", "update"},
         to = "batch" <=> b # <<>>,
         ~Ended(s) => Menu(s) /\ Alone(s, b) /\ Fit(s, b, NoWindow(b)),
         Go(s, to), batch' = b, clicks' \in Nat, sends' \in Nat
  PROVE  IInv'
<1>1. c' = s /\ pc' = IF Ended(s) THEN "down" ELSE to
  BY DEF Go
<1>2. s.cur \in States
  BY ClientFields DEF Fine, Proper
<1>3. Typed'
  BY <1>1, <1>2 DEF Typed
<1>4. pc' # "down" => ~Ended(s)
  BY <1>1
<1> QED BY <1>1, <1>3, <1>4 DEF IInv

\* a step of the server or of the network
LEMMA OutsideFine ==
  ASSUME IInv, NEW q, Fine(q), ~Ended(q), Menu(q), Alone(q, batch), Fit(q, batch, NoWindow(batch)), Outside(q)
  PROVE  IInv'
<1>1. c' = q /\ UNCHANGED <<pc, batch, clicks>> /\ sends' = sends + 1 /\ pc # "down"
  BY DEF Outside
<1>2. q.cur \in States
  BY ClientFields DEF Fine, Proper
<1>3. Typed'
  BY <1>1, <1>2 DEF IInv, Typed
<1>4. c' = q /\ batch' = batch
  BY <1>1
<1> QED BY <1>3, <1>4 DEF IInv

\* the steps of Next, one by one: first those of the server and the network
LEMMA LinkStep ==
  ASSUME IInv, pc # "down", NEW l \in Links, l.q = c.link.q \/ c.st = "connected",
         Outside([c EXCEPT !.link = l])
  PROVE  IInv'
<1>1. Fine(c) /\ ~Ended(c) /\ Menu(c) /\ Alone(c, batch) /\ Fit(c, batch, NoWindow(batch))
  BY DEF IInv, Typed
<1> DEFINE q == [c EXCEPT !.link = l]
<1>2. Fine(q) /\ ~Ended(q) /\ Menu(q) /\ Steady(q, c)
  BY <1>1, LinkFine
<1>3. Outside(q)
  OBVIOUS
<1> HIDE DEF q
<1>4. Alone(q, batch) /\ Fit(q, batch, NoWindow(batch))
  BY <1>1, <1>2, FitKept
<1> QED BY <1>2, <1>3, <1>4, OutsideFine

LEMMA AnswerStep ==
  ASSUME IInv, pc # "down", Answer
  PROVE  IInv'
<1>1. c \in Clients /\ c.link \in Links
  BY ClientFields DEF IInv, Fine, Proper
<1>2. ASSUME Outside([c EXCEPT !.link.shake = "ok"]) PROVE IInv'
  <2>1. PICK l \in Links : l = [c.link EXCEPT !.shake = "ok"]
    BY <1>1 DEF Links
  <2>2. l.q = c.link.q
    BY <1>1, <2>1 DEF Links
  <2>3. [c EXCEPT !.link.shake = "ok"] = [c EXCEPT !.link = l]
    BY <1>1, <2>1 DEF Clients
  <2> QED BY <1>2, <2>2, <2>3, LinkStep
<1>3. ASSUME Outside([c EXCEPT !.link.shake = "refused", !.link.err = TRUE, !.link.rst = TRUE]) PROVE IInv'
  <2>1. PICK l \in Links : l = [c.link EXCEPT !.shake = "refused", !.err = TRUE, !.rst = TRUE]
    BY <1>1 DEF Links
  <2>2. l.q = c.link.q
    BY <1>1, <2>1 DEF Links
  <2>3. [c EXCEPT !.link.shake = "refused", !.link.err = TRUE, !.link.rst = TRUE] = [c EXCEPT !.link = l]
    BY <1>1, <2>1 DEF Clients
  <2> QED BY <1>3, <2>2, <2>3, LinkStep
<1> QED BY <1>2, <1>3 DEF Answer

LEMMA SendStep ==
  ASSUME IInv, pc # "down", Send
  PROVE  IInv'
<1>1. c \in Clients /\ c.link \in Links /\ c.link.q \in Seq({"welcome", "shutdown"}) /\ c.st = "connected"
  BY ClientFields, LinkFields DEF IInv, Fine, Proper, Send, Up
<1>2. ASSUME Outside([c EXCEPT !.link.q = <<"welcome">>]) PROVE IInv'
  <2>1. PICK x \in Seq({"welcome", "shutdown"}) : x = <<"welcome">>
    <3>1. <<"welcome">> \in Seq({"welcome", "shutdown"})
      OBVIOUS
    <3> QED BY <3>1
  <2>2. PICK l \in Links : l = [c.link EXCEPT !.q = x]
    BY <1>1 DEF Links
  <2>3. [c EXCEPT !.link.q = <<"welcome">>] = [c EXCEPT !.link = l]
    BY <1>1, <2>1, <2>2 DEF Clients
  <2> QED BY <1>1, <1>2, <2>3, LinkStep
<1>3. ASSUME Outside([c EXCEPT !.link.q = Append(c.link.q, "shutdown"), !.link.fin = TRUE]) PROVE IInv'
  <2>1. PICK x \in Seq({"welcome", "shutdown"}) : x = Append(c.link.q, "shutdown")
    <3>1. Append(c.link.q, "shutdown") \in Seq({"welcome", "shutdown"})
      BY <1>1, Appended
    <3> QED BY <3>1
  <2>2. PICK l \in Links : l = [c.link EXCEPT !.q = x, !.fin = TRUE]
    BY <1>1 DEF Links
  <2>3. [c EXCEPT !.link.q = Append(c.link.q, "shutdown"), !.link.fin = TRUE] = [c EXCEPT !.link = l]
    BY <1>1, <2>1, <2>2 DEF Clients
  <2> QED BY <1>1, <1>3, <2>3, LinkStep
<1> QED BY <1>2, <1>3 DEF Send

LEMMA LoseStep ==
  ASSUME IInv, pc # "down", Lose
  PROVE  IInv'
<1>1. c \in Clients /\ c.link \in Links /\ c.st = "connected"
  BY ClientFields DEF IInv, Fine, Proper, Lose, Up
<1>2. ASSUME Outside([c EXCEPT !.link.fin = TRUE]) PROVE IInv'
  <2>1. PICK l \in Links : l = [c.link EXCEPT !.fin = TRUE]
    BY <1>1 DEF Links
  <2>2. [c EXCEPT !.link.fin = TRUE] = [c EXCEPT !.link = l]
    BY <1>1, <2>1 DEF Clients
  <2> QED BY <1>1, <1>2, <2>2, LinkStep
<1>3. ASSUME Outside([c EXCEPT !.link.rst = TRUE, !.link.err = TRUE]) PROVE IInv'
  <2>1. PICK l \in Links : l = [c.link EXCEPT !.rst = TRUE, !.err = TRUE]
    BY <1>1 DEF Links
  <2>2. [c EXCEPT !.link.rst = TRUE, !.link.err = TRUE] = [c EXCEPT !.link = l]
    BY <1>1, <2>1 DEF Clients
  <2> QED BY <1>1, <1>3, <2>2, LinkStep
<1> QED BY <1>2, <1>3 DEF Lose

LEMMA DatagramStep ==
  ASSUME IInv, pc # "down", Datagram
  PROVE  IInv'
<1>1. Fine(c) /\ ~Ended(c) /\ Menu(c) /\ Alone(c, batch) /\ Fit(c, batch, NoWindow(batch)) /\ batch \in Seq(Events)
  BY DEF IInv, Typed
<1>2. c \in Clients /\ c.dgrams \in Seq({"reconnect", "pong"}) /\ c.udpSock # 0 /\ c.game = "player"
  BY <1>1, ClientFields DEF Fine, Proper, Datagram
<1>3. PICK d \in {"reconnect", "pong"} : Outside([c EXCEPT !.dgrams = Append(c.dgrams, d)])
  BY DEF Datagram
<1>4. PICK x \in Seq({"reconnect", "pong"}) : x = Append(c.dgrams, d) /\ x # <<>>
  <2>1. Append(c.dgrams, d) \in Seq({"reconnect", "pong"}) /\ Append(c.dgrams, d) # <<>>
    BY <1>2, Appended
  <2> QED BY <2>1
<1> DEFINE q == [c EXCEPT !.dgrams = x]
<1>5. Fine(q) /\ ~Ended(q) /\ Menu(q) /\ Fit(q, batch, NoWindow(batch)) /\ Alone(q, batch)
  BY <1>1, <1>2, <1>4, DatagramFine
<1>6. Outside(q)
  BY <1>3, <1>4
<1> HIDE DEF q
<1> QED BY <1>5, <1>6, OutsideFine

\* the steps of the client's thread
LEMMA SocketStep ==
  ASSUME IInv, HandleSocket
  PROVE  IInv'
<1>1. /\ Fine(c) /\ ~Ended(c) /\ Menu(c) /\ batch \in Seq(Events) /\ batch # <<>> /\ Head(batch).fd # 1
      /\ Alone(c, batch) /\ Fit(c, batch, NoWindow(batch)) /\ clicks \in Nat /\ sends \in Nat
  BY DEF IInv, Typed, HandleSocket
<1>2. PICK res \in {"wouldblock", "ok", "fail"}, to \in AfterBatch :
        Go(handle_event(c, Head(batch).fd, Head(batch).flags, Head(batch).of, res), to)
  BY DEF HandleSocket
<1>3. batch' = Tail(batch) /\ clicks' = clicks /\ sends' = sends
  BY DEF HandleSocket
<1> DEFINE q == handle_event(c, Head(batch).fd, Head(batch).flags, Head(batch).of, res)
<1>4. Fine(q) /\ (~Ended(q) => Menu(q) /\ Alone(q, Tail(batch)) /\ Fit(q, Tail(batch), NoWindow(batch)))
  BY <1>1, SocketEventFine
<1>5. Go(q, to)
  BY <1>2
<1> HIDE DEF q
<1>6. ~Ended(q) => Fit(q, Tail(batch), NoWindow(Tail(batch)))
  BY <1>1, <1>4, WindowTail, FitLater
<1>7. Tail(batch) \in Seq(Events)
  BY <1>1, TailType
<1>8. to \in {"poll", "batch", "update"} /\ (to = "batch" <=> Tail(batch) # <<>>)
  BY <1>1, AfterBatchFacts
<1> QED BY <1>1, <1>3, <1>4, <1>5, <1>6, <1>7, <1>8, GoFine

LEMMA KeyStep ==
  ASSUME IInv, HandleKey
  PROVE  IInv'
<1>1. /\ Fine(c) /\ ~Ended(c) /\ Menu(c) /\ batch \in Seq(Events) /\ batch # <<>>
      /\ Alone(c, batch) /\ Fit(c, batch, NoWindow(batch)) /\ clicks \in Nat /\ sends \in Nat
  BY DEF IInv, Typed, HandleKey
<1>2. PICK to \in AfterBatch : Go(c, to) \/ (c.game = "noplayer" /\ Go(Undefined(c, "no_player"), to))
  BY DEF HandleKey
<1>3. batch' = Tail(batch) /\ clicks' \in Nat /\ sends' \in Nat
  BY <1>1 DEF HandleKey
<1>4. Fit(c, Tail(batch), NoWindow(Tail(batch)))
  BY <1>1, FitTail, WindowTail, FitLater
<1>5. Alone(c, Tail(batch))
  BY <1>1, AloneOn
<1>6. Tail(batch) \in Seq(Events)
  BY <1>1, TailType
<1>7. to \in {"poll", "batch", "update"} /\ (to = "batch" <=> Tail(batch) # <<>>)
  BY <1>1, AfterBatchFacts
<1>8. CASE Go(c, to)
  BY <1>1, <1>3, <1>4, <1>5, <1>6, <1>7, <1>8, GoFine
<1>9. CASE c.game = "noplayer" /\ Go(Undefined(c, "no_player"), to)
  <2> DEFINE q == Undefined(c, "no_player")
  <2>1. "reconnect" \in c.past
    BY <1>1, <1>9 DEF Fine, Kept
  <2>2. Fine(q) /\ Ended(q)
    BY <1>1, <2>1, UndefinedFine DEF Ends
  <2>3. Go(q, to)
    BY <1>9
  <2> HIDE DEF q
  <2> QED BY <1>3, <1>4, <1>6, <1>7, <2>2, <2>3, GoFine
<1> QED BY <1>2, <1>8, <1>9

LEMMA FrameStep ==
  ASSUME IInv, HandleFrame
  PROVE  IInv'
<1>1. /\ Fine(c) /\ ~Ended(c) /\ Menu(c) /\ batch \in Seq(Events) /\ batch # <<>> /\ Head(batch).fd = 1
      /\ Alone(c, batch) /\ Fit(c, batch, NoWindow(batch)) /\ clicks \in Nat /\ sends \in Nat
  BY DEF IInv, Typed, HandleFrame
<1>2. PICK click \in Clicks, res \in {"wouldblock", "ok", "fail"}, to \in AfterBatch :
        /\ Clicking(click)
        /\ LET s == waapp_state_update(c, click, res)
           IN  Go([s EXCEPT !.past = IF "game" \in c.ready \ s.ready THEN @ \cup {"left"} ELSE @], to)
  BY DEF HandleFrame
<1>3. batch' = Tail(batch) /\ sends' = sends /\ clicks' \in Nat
  BY <1>1, <1>2 DEF HandleFrame, Clicking
<1> DEFINE z == waapp_state_update(c, click, res)
           q == [z EXCEPT !.past = IF "game" \in c.ready \ z.ready THEN @ \cup {"left"} ELSE @]
<1>4. Go(q, to)
  BY <1>2
<1>5. Framed(q, z, c)
  BY DEF Framed
<1> HIDE DEF q
<1>6. Fine(q) /\ (~Ended(q) => Menu(q) /\ Alone(q, Tail(batch)) /\ Fit(q, Tail(batch), NoWindow(Tail(batch))))
  <2> DEFINE b == batch
  <2> HIDE DEF b
  <2>1. b \in Seq(Events) /\ b # <<>> /\ Head(b).fd = 1 /\ Alone(c, b) /\ Fit(c, b, NoWindow(b))
    BY <1>1 DEF b
  <2>2. Fine(q) /\ (~Ended(q) => Menu(q) /\ Alone(q, Tail(b)) /\ Fit(q, Tail(b), NoWindow(Tail(b))))
    BY <1>1, <1>5, <2>1, FrameFine
  <2> QED BY <2>2 DEF b
<1> HIDE DEF z
<1>7. Tail(batch) \in Seq(Events)
  BY <1>1, TailType
<1>8. to \in {"poll", "batch", "update"} /\ (to = "batch" <=> Tail(batch) # <<>>)
  BY <1>1, AfterBatchFacts
<1> QED BY <1>1, <1>3, <1>4, <1>6, <1>7, <1>8, GoFine

LEMMA UpdateStep ==
  ASSUME IInv, Update
  PROVE  IInv'
<1>1. Fine(c) /\ ~Ended(c) /\ Menu(c) /\ batch = <<>> /\ clicks \in Nat /\ sends \in Nat
  BY DEF IInv, Typed, Update
<1>2. PICK click \in Clicks, res \in {"wouldblock", "ok", "fail"} :
        Clicking(click) /\ Go(waapp_state_update(c, click, res), "poll")
  BY DEF Update
<1>3. batch' = <<>> /\ sends' = sends /\ clicks' \in Nat
  BY <1>1, <1>2 DEF Update, Clicking
<1> DEFINE q == waapp_state_update(c, click, res)
<1>4. Fine(q) /\ (~Ended(q) => Menu(q))
  BY <1>1, UpdateFine
<1>5. Go(q, "poll")
  BY <1>2
<1> HIDE DEF q
<1>6. PICK b \in Seq(Events) : b = <<>>
  <2>1. <<>> \in Seq(Events)
    OBVIOUS
  <2> QED BY <2>1
<1>7. Alone(q, b) /\ Fit(q, b, NoWindow(b))
  BY <1>6, NothingLeft
<1>8. batch' = b /\ ("poll" = "batch" <=> b # <<>>)
  BY <1>3, <1>6
<1>9. sends' \in Nat
  BY <1>1, <1>3
<1> QED BY <1>3, <1>4, <1>5, <1>7, <1>8, <1>9, GoFine

LEMMA PollStep ==
  ASSUME IInv, client_net_poll
  PROVE  IInv'
<1>1. Fine(c) /\ ~Ended(c) /\ Menu(c) /\ clicks \in Nat /\ sends \in Nat /\ c.cur \in States
  BY DEF IInv, Typed, client_net_poll
<1>2. c \in Clients
  BY <1>1 DEF Fine, Proper
<1>3. PICK window \in SUBSET {1} : \E order :
        /\ Ordered(order, HotOf(c, window)) /\ Batched(c, HotOf(c, window), order, batch')
        /\ pc' = IF HotOf(c, window) = {} THEN "update" ELSE "batch"
  BY DEF client_net_poll, Batched, Ordered, HotOf
<1> DEFINE hot == HotOf(c, window)
<1>4. PICK order :
        /\ Ordered(order, hot) /\ Batched(c, hot, order, batch')
        /\ pc' = IF hot = {} THEN "update" ELSE "batch"
  BY <1>3
<1>6. PICK n \in Nat : Polled(c, batch', n) /\ (n = 0 <=> hot = {})
  <2>1. \A b : Batched(c, hot, order, b) => \E n \in Nat : Polled(c, b, n) /\ (n = 0 <=> hot = {})
    BY <1>2, <1>4, BatchPolled
  <2> QED BY <1>4, <2>1
<1>7. /\ batch' \in Seq(Events) /\ Alone(c, batch') /\ (batch' = <<>> <=> n = 0)
      /\ Fit(c, batch', NoWindow(batch'))
  <2>1. \A b, gone : Polled(c, b, n) =>
          b \in Seq(Events) /\ Alone(c, b) /\ Fit(c, b, gone) /\ (b = <<>> <=> n = 0)
    BY <1>1, PollFine
  <2> QED BY <1>6, <2>1, Zenon
<1>8. c' = c /\ clicks' = clicks /\ sends' = sends
  BY DEF client_net_poll
<1>9. Typed'
  <2>1. pc' \in {"update", "batch"} /\ (pc' = "batch" <=> batch' # <<>>)
    BY <1>4, <1>6, <1>7
  <2> QED BY <1>1, <1>7, <1>8, <2>1 DEF Typed
<1>10. Fine(c') /\ Menu(c') /\ Alone(c', batch') /\ Fit(c', batch', NoWindow(batch'))
  BY <1>1, <1>7, <1>8
<1> QED BY <1>9, <1>10 DEF IInv

LEMMA ExitStep ==
  ASSUME IInv, waapp_cleanup
  PROVE  IInv'
<1>1. Fine(c) /\ ~Ended(c) /\ batch \in Seq(Events) /\ clicks \in Nat /\ sends \in Nat
  BY DEF IInv, Typed, waapp_cleanup
<1> DEFINE m == waapp_state_cleanup(c, "main_menu")
           e == waapp_state_cleanup(m, "map_editor")
           g == IF "game" \in e.ready THEN waapp_state_cleanup(e, "game") ELSE e
<1>2. Closed(c', g) /\ pc' = "down" /\ UNCHANGED <<batch, clicks, sends>>
  BY DEF waapp_cleanup, Closed
<1>3. \A q : Closed(q, g) => Fine(q) /\ Ended(q)
  BY <1>1, ExitFine
<1>4. Fine(c') /\ Ended(c')
  BY <1>2, <1>3
<1>5. c'.cur \in States
  BY <1>4, ClientFields DEF Fine, Proper
<1>6. Typed'
  BY <1>1, <1>2, <1>4, <1>5 DEF Typed
<1> QED BY <1>2, <1>4, <1>6 DEF IInv

LEMMA InitStep ==
  ASSUME Init
  PROVE  IInv
<1>1. PICK bot \in BOOLEAN, doConnect \in BOOLEAN, res \in {"wouldblock", "ok", "fail"} :
        c = waapp_state_switch(First(bot, doConnect, "none"), "main_menu", res)
  BY DEF Init, First
<1>2. Fine(c) /\ ~Ended(c) /\ Menu(c)
  BY <1>1, InitFine
<1>3. c.cur \in States
  BY <1>2, ClientFields DEF Fine, Proper
<1>4. PICK b \in Seq(Events) : b = <<>>
  <2>1. <<>> \in Seq(Events)
    OBVIOUS
  <2> QED BY <2>1
<1>5. Alone(c, b) /\ Fit(c, b, NoWindow(b))
  BY <1>4, NothingLeft
<1>6. batch = b /\ pc = "poll" /\ clicks = 0 /\ sends = 0
  BY <1>4 DEF Init
<1>7. Typed
  BY <1>2, <1>3, <1>4, <1>6 DEF Typed
<1> QED BY <1>2, <1>5, <1>6, <1>7 DEF IInv

\* every step of the thread, the server and the network keeps the invariant
LEMMA NextStep ==
  ASSUME IInv, [Next]_vars
  PROVE  IInv'
<1>1. CASE client_net_poll
  BY <1>1, PollStep
<1>2. CASE HandleSocket
  BY <1>2, SocketStep
<1>3. CASE HandleKey
  BY <1>3, KeyStep
<1>4. CASE HandleFrame
  BY <1>4, FrameStep
<1>5. CASE Update
  BY <1>5, UpdateStep
<1>6. CASE waapp_cleanup
  BY <1>6, ExitStep
<1>7. CASE Answer
  BY <1>7, AnswerStep DEF Answer, Outside
<1>8. CASE Send
  BY <1>8, SendStep DEF Send, Outside
<1>9. CASE Lose
  BY <1>9, LoseStep DEF Lose, Outside
<1>10. CASE Datagram
  BY <1>10, DatagramStep DEF Datagram, Outside
<1>11. CASE UNCHANGED vars
  <2>1. c' = c /\ pc' = pc /\ batch' = batch /\ clicks' = clicks /\ sends' = sends
    BY <1>11 DEF vars
  <2> QED BY <2>1 DEF IInv, Typed
<1> QED BY <1>1, <1>2, <1>3, <1>4, <1>5, <1>6, <1>7, <1>8, <1>9, <1>10, <1>11 DEF Next

\* In every reachable state of the client the table of fd events is what the
\* functions of client_net.c leave, and every event that a batch still holds
\* (handle_event) points to the slot of the socket that epoll meant, unless a
\* reconnect, a hangup or a game that was left came between.
THEOREM Inductive == Spec => []IInv
<1>1. Init => IInv
  BY InitStep
<1>2. IInv /\ [Next]_vars => IInv'
  BY NextStep
<1> QED BY <1>1, <1>2, PTL DEF Spec

-------------------------------------------------------------------------------
(* What the invariant says. *)

\* The types of the program's state: of the array of fd events, the pointers
\* into it, the sockets and the state machine (struct client_net, waapp_t).
THEOREM TypeInvariant == Spec => []TypeOK
<1>1. ASSUME IInv PROVE TypeOK
  <2>1. c \in Clients /\ c.udpSock <= c.sock /\ c.cur \in States
    BY <1>1 DEF IInv, Fine, Proper, Typed
  <2>2. c.mem \in [1..Capacity -> [kind : {"none", "wayland", "tcp", "udp"}, sock : Nat, write : BOOLEAN]]
    BY <2>1, ClientFields DEF Fdevs
  <2>3. c.udpSock \in 0..c.sock
    BY <2>1, ClientFields
  <2>4. {c.pending, c.run, c.bot, c.doConnect, c.welcomed} \subseteq BOOLEAN
    BY <2>1, ClientFields
  <2>5. (pc = "batch") = (batch # <<>> /\ ~Ended(c)) /\ pc \in {"poll", "batch", "update", "down"}
    BY <1>1 DEF IInv, Typed
  <2> QED BY <2>1, <2>2, <2>3, <2>4, <2>5, ClientFields DEF TypeOK
<1> QED BY <1>1, Inductive, PTL

\* The state that waapp_state_update updates has its data, the game's data is
\* there as long as the game is ready, and a game that was left is cleaned up,
\* or about to be, unless the cleanup went to another state (state.c).
THEOREM StateInvariant == Spec => []LeftStateCleaned
<1>1. ASSUME IInv PROVE LeftStateCleaned
  <2>1. pc # "down" => Menu(c)
    BY <1>1 DEF IInv
  <2>2. (c.game # "none" <=> "game" \in c.ready) <=> (c.game # "none") = ("game" \in c.ready)
    OBVIOUS
  <2> QED BY <2>1, <2>2 DEF LeftStateCleaned, Running, Menu
<1> QED BY <1>1, Inductive, PTL

\* One CONNECT for a connection unless Connect was clicked twice, the menu
\* never sits on a connection that had its welcome, nor on a closed socket but
\* after a hangup, and an event of an epoll batch reaches the socket it was
\* meant for unless a reconnect or a hangup came between (client_net.c).
THEOREM SocketsInvariant == Spec => []SocketsKept
<1>1. ASSUME IInv PROVE SocketsKept
  <2>1. EventsReachTheirSocket
    BY <1>1 DEF IInv, Fine, Explained, EventsReachTheirSocket
  <2>2. ASSUME pc # "down" PROVE c \in Clients /\ Menu(c) /\ Net(c) /\ Socket(c)
    BY <1>1, <2>2 DEF IInv, Typed, Fine, Proper, Net
  <2>3. ASSUME pc # "down", "twice" \notin c.past PROVE GreetedOnce
    <3>1. Socket(c) /\ Regular(c) /\ c.greeted \in Nat /\ c.st \in {"fresh", "connecting", "connected", "closed"}
      BY <2>2, <2>3, ClientFields DEF Net
    <3> QED BY <3>1 DEF GreetedOnce, Socket, Regular
  <2>4. ASSUME pc # "down", c.cur # "game", ~c.pending, "misclean" \notin c.past PROVE MenuCanConnect
    <3>1. Socket(c) /\ c.game = "none"
      BY <2>2, <2>4 DEF Menu
    <3> QED BY <3>1 DEF MenuCanConnect, Socket
  <2> QED BY <2>1, <2>3, <2>4 DEF SocketsKept, OneConnection, Running
<1> QED BY <1>1, Inductive, PTL

\* Undefined behaviour and a thread that waits for ever need a reconnect, a
\* hangup, a second Connect while the handshake ends, a game that was left in
\* the middle of a batch, or a cleanup of the wrong state (client_net.c,
\* game.c, main_menu.c).
THEOREM UndefinedInvariant == Spec => []UndefinedExplained
<1>1. ASSUME IInv PROVE UndefinedExplained
  BY <1>1 DEF IInv, Fine, Explained, UndefinedExplained
<1> QED BY <1>1, Inductive, PTL
===============================================================================
