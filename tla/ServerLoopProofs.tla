--------------------------- MODULE ServerLoopProofs ---------------------------
(***************************************************************************)
(* Proofs about ServerLoop, for any connections, threshold, timer and      *)
(* batch: the types, the agreement of the list of events with the table of *)
(* clients, when a freed client_t is used, and when silence closes one.    *)
(*                                                                         *)
(* The list and the table are inductive only together with what a          *)
(* connection has not yet done: one that waits to be accepted (or was not  *)
(* made) is in neither, so its event enters the list once; and what is     *)
(* left of a batch still has its events, for only the handler of an event  *)
(* takes that event out of the list.                                       *)
(***************************************************************************)
EXTENDS ServerLoop, TLAPS

Members == Clients \cup {Fixed[i] : i \in DOMAIN Fixed}

Elems(q) == {q[i] : i \in DOMAIN q}

Once(q) == \A i, j \in DOMAIN q : q[i] = q[j] => i = j

LEMMA AppendFacts ==
  ASSUME NEW S, NEW q \in Seq(S), Once(q), NEW x \in S, x \notin Elems(q)
  PROVE  /\ Append(q, x) \in Seq(S)
         /\ Once(Append(q, x))
         /\ Elems(Append(q, x)) = Elems(q) \cup {x}
<1>1. Append(q, x) \in Seq(S) /\ DOMAIN Append(q, x) = 1 .. Len(q) + 1
  OBVIOUS
<1>2. \A i \in 1 .. Len(q) : Append(q, x)[i] = q[i] /\ q[i] \in Elems(q)
  BY DEF Elems
<1>3. Append(q, x)[Len(q) + 1] = x
  OBVIOUS
<1>4. Elems(Append(q, x)) = Elems(q) \cup {x}
  BY <1>1, <1>2, <1>3 DEF Elems
<1>5. Once(Append(q, x))
  BY <1>1, <1>2, <1>3 DEF Once
<1> QED BY <1>1, <1>4, <1>5

LEMMA TailFacts ==
  ASSUME NEW S, NEW q \in Seq(S), Once(q), q # <<>>
  PROVE  /\ Head(q) \in S /\ Head(q) \in Elems(q)
         /\ Tail(q) \in Seq(S)
         /\ Once(Tail(q))
         /\ Elems(Tail(q)) = Elems(q) \ {Head(q)}
<1>1. Len(q) \in Nat \ {0} /\ DOMAIN q = 1 .. Len(q) /\ Head(q) = q[1]
  OBVIOUS
<1>2. Tail(q) \in Seq(S) /\ DOMAIN Tail(q) = 1 .. Len(q) - 1
  BY <1>1
<1>3. \A i \in 1 .. Len(q) - 1 : Tail(q)[i] = q[i + 1]
  BY <1>1
<1>4. Elems(Tail(q)) = {q[i] : i \in 2 .. Len(q)}
  <2>1. Elems(Tail(q)) \subseteq {q[i] : i \in 2 .. Len(q)}
    BY <1>1, <1>2, <1>3 DEF Elems
  <2>2. ASSUME NEW i \in 2 .. Len(q) PROVE q[i] \in Elems(Tail(q))
    <3>1. i - 1 \in 1 .. Len(q) - 1 /\ Tail(q)[i - 1] = q[i]
      BY <1>1, <1>3
    <3> QED BY <3>1, <1>2 DEF Elems
  <2> QED BY <2>1, <2>2
<1>5. Elems(Tail(q)) = Elems(q) \ {Head(q)}
  <2>1. \A i \in 2 .. Len(q) : q[i] # q[1] /\ i \in DOMAIN q
    BY <1>1 DEF Once
  <2>2. \A i \in DOMAIN q : i = 1 \/ i \in 2 .. Len(q)
    BY <1>1
  <2> QED BY <1>1, <1>4, <2>1, <2>2 DEF Elems
<1>6. Once(Tail(q))
  BY <1>1, <1>2, <1>3 DEF Once
<1>7. Head(q) \in S /\ Head(q) \in Elems(q)
  BY <1>1 DEF Elems
<1> QED BY <1>2, <1>5, <1>6, <1>7

LEMMA WithoutFacts ==
  ASSUME NEW S, NEW q \in Seq(S), Once(q), NEW k \in DOMAIN q
  PROVE  /\ q[k] \in Elems(q)
         /\ Without(q, k) \in Seq(S)
         /\ Once(Without(q, k))
         /\ Elems(Without(q, k)) = Elems(q) \ {q[k]}
<1> DEFINE w == Without(q, k)
<1>1. /\ Len(q) \in Nat \ {0} /\ DOMAIN q = 1 .. Len(q) /\ k \in 1 .. Len(q)
      /\ \A i \in 1 .. Len(q) : q[i] \in S
  OBVIOUS
<1>2. /\ DOMAIN w = 1 .. Len(q) - 1
      /\ \A i \in 1 .. Len(q) - 1 : w[i] = IF i < k THEN q[i] ELSE q[i + 1]
  BY DEF Without
<1>3. w \in Seq(S)
  <2>1. w \in [1 .. Len(q) - 1 -> S]
    BY <1>1 DEF Without
  <2>2. Len(q) - 1 \in Nat
    BY <1>1
  <2> QED BY <2>1, <2>2
<1>4. Elems(w) \subseteq Elems(q) \ {q[k]}
  BY <1>1, <1>2 DEF Elems, Once
<1>5. ASSUME NEW i \in 1 .. Len(q), i # k PROVE q[i] \in Elems(w)
  <2>1. CASE i < k
    BY <2>1, <1>1, <1>2 DEF Elems
  <2>2. CASE i > k
    <3>1. i - 1 \in 1 .. Len(q) - 1 /\ w[i - 1] = q[i]
      BY <2>2, <1>1, <1>2
    <3> QED BY <3>1, <1>2 DEF Elems
  <2> QED BY <2>1, <2>2, <1>1, <1>5
<1>6. Elems(q) \ {q[k]} \subseteq Elems(w)
  BY <1>1, <1>5 DEF Elems
<1>7. Once(w)
  BY <1>1, <1>2 DEF Once
<1> QED BY <1>1, <1>3, <1>4, <1>6, <1>7 DEF Elems

-------------------------------------------------------------------------------
(* The inductive invariant. *)

Typed == events \in Seq(Members) /\ TypeOK

\* the list and the table
Table ==
  /\ Once(events)
  /\ clients \subseteq Elems(events)
  /\ \A c \in Clients \cap Elems(events) : c \in clients \/ closed[c] = "timeout"
  /\ \A c \in clients : closed[c] = "no"

\* a connection the server has not accepted
Unknown ==
  /\ \A c \in Clients : c \in arrived.accept \/ peer[c] = "new" =>
       c \notin Elems(events) /\ closed[c] = "no"
  /\ \A c \in arrived.accept : peer[c] # "new"

\* what is left of a batch
Remains ==
  /\ batch \cap Clients \subseteq Elems(events)
  /\ pc \notin {"batch", "down"} => batch = {}

Freed == \A c \in undefined : closed[c] \in {"timeout", "invalid"}

Clock == current <= now /\ \A c \in clients : last[c] + lag[c] = heard[c]

IInv == Typed /\ Table /\ Unknown /\ Remains /\ Freed /\ Clock

LEMMA InitHolds == Init => IInv
<1> SUFFICES ASSUME Init PROVE IInv
  OBVIOUS
<1>1. /\ events = Fixed /\ Fixed \in Seq(Members) /\ Once(Fixed)
      /\ Clients \cap Elems(Fixed) = {}
  <2>1. Fixed = <<"listen", "udp", "signal", "timer">> /\ DOMAIN Fixed = 1 .. 4
    BY DEF Fixed
  <2>2. \A i \in 1 .. 4 : Fixed[i] \in Members
    BY <2>1 DEF Members
  <2>3. Fixed \in Seq(Members)
    BY <2>1, <2>2
  <2>4. Once(Fixed)
    BY <2>1 DEF Once
  <2>5. Clients \cap Elems(Fixed) = {}
    BY NamesAssumption DEF Elems
  <2> QED BY <2>3, <2>4, <2>5 DEF Init
<1>2. Typed
  BY <1>1 DEF Init, Typed, TypeOK, Arrivals, Listed
<1>3. Table /\ Unknown /\ Remains /\ Freed /\ Clock
  BY <1>1 DEF Init, Table, Unknown, Remains, Freed, Clock
<1> QED BY <1>2, <1>3 DEF IInv

\* the first event of the list is in it
LEMMA ListedMembers == ASSUME NEW q \in Seq(Members)
                       PROVE  Elems(q) \subseteq Clients \cup {Fixed[i] : i \in DOMAIN Fixed}
  BY DEF Elems, Members

-------------------------------------------------------------------------------
(* Every step keeps it. *)

LEMMA StepWorld == ASSUME IInv, World PROVE IInv'
<1> USE DEF IInv, loopVars, historyVars
<1>1. UNCHANGED <<events, clients, closed, batch, pc, undefined, current, last, lag, heard, running>>
  BY DEF World, Pass, Signal, Connect, Send, Hangup
<1>2. /\ now \in Nat /\ now' \in Nat /\ now <= now'
  BY DEF World, Pass, Signal, Connect, Send, Hangup, Typed, TypeOK
<1> DEFINE Good ==
     /\ arrived' \in Arrivals /\ peer' \in [Clients -> {"new", "open", "shut"}]
     /\ \A c \in Clients : c \in arrived'.accept \/ peer'[c] = "new" =>
          c \in arrived.accept \/ peer[c] = "new"
     /\ \A c \in arrived'.accept : peer'[c] # "new"
<1>a. /\ arrived \in Arrivals /\ peer \in [Clients -> {"new", "open", "shut"}]
      /\ \A c \in arrived.accept : peer[c] # "new"
  BY DEF Typed, TypeOK, Unknown
<1>3. Good
  <2>1. CASE Pass
    BY <2>1, <1>a DEF Pass, Arrivals
  <2>2. CASE Signal
    BY <2>2, <1>a DEF Signal, Arrivals
  <2>3. ASSUME NEW c \in Clients, Connect(c) PROVE Good
    <3>1. /\ arrived' = [arrived EXCEPT !.accept = @ \cup {c}]
          /\ peer' = [peer EXCEPT ![c] = "open"] /\ peer[c] = "new"
      BY <2>3 DEF Connect
    <3>2. arrived' \in Arrivals /\ arrived'.accept = arrived.accept \cup {c}
      BY <3>1, <1>a DEF Arrivals
    <3> QED BY <3>1, <3>2, <1>a
  <2>4. ASSUME NEW c \in Clients, Send(c) PROVE Good
    <3>1. /\ peer' = peer
          /\ \/ arrived' = [arrived EXCEPT !.tcp = @ \cup {c}]
             \/ arrived' = [arrived EXCEPT !.udp = @ \cup {c}]
      BY <2>4 DEF Send
    <3>2. arrived' \in Arrivals /\ arrived'.accept = arrived.accept
      BY <3>1, <1>a DEF Arrivals
    <3> QED BY <3>1, <3>2, <1>a
  <2>5. ASSUME NEW c \in Clients, Hangup(c) PROVE Good
    <3>1. /\ peer' = [peer EXCEPT ![c] = "shut"]
          /\ \/ arrived' = arrived
             \/ arrived' = [arrived EXCEPT !.tcp = @ \ {c}]
      BY <2>5 DEF Hangup
    <3>2. arrived' \in Arrivals /\ arrived'.accept = arrived.accept
      BY <3>1, <1>a DEF Arrivals
    <3> QED BY <3>1, <3>2, <1>a
  <2> QED BY <2>1, <2>2, <2>3, <2>4, <2>5 DEF World
<1>4. Typed'
  BY <1>1, <1>2, <1>3 DEF Typed, TypeOK, Listed
<1>5. Unknown'
  BY <1>1, <1>3 DEF Unknown, Typed, TypeOK, Arrivals
<1>6. Table' /\ Remains' /\ Freed' /\ Clock'
  BY <1>1, <1>2 DEF Table, Remains, Freed, Clock, Typed, TypeOK
<1> QED BY <1>4, <1>5, <1>6

LEMMA ReadableMembers ==
  ASSUME IInv
  PROVE  Readable \subseteq Members /\ Readable \cap Clients \subseteq clients
<1> DEFINE r == {"listen", "udp", "timer", "signal"}
<1>1. DOMAIN Fixed = 1 .. 4 /\ Fixed = <<"listen", "udp", "signal", "timer">>
  BY DEF Fixed
<1>2. r = {Fixed[i] : i \in DOMAIN Fixed}
  <2>1. r \subseteq {Fixed[i] : i \in DOMAIN Fixed}
    <3>1. 1 \in DOMAIN Fixed /\ 2 \in DOMAIN Fixed /\ 3 \in DOMAIN Fixed /\ 4 \in DOMAIN Fixed
      BY <1>1
    <3>2. Fixed[1] = "listen" /\ Fixed[2] = "udp" /\ Fixed[3] = "signal" /\ Fixed[4] = "timer"
      BY <1>1
    <3> QED BY <3>1, <3>2
  <2>2. \A i \in DOMAIN Fixed : Fixed[i] \in r
    BY <1>1
  <2> QED BY <2>1, <2>2
<1>3. r \cap Clients = {}
  BY <1>2, NamesAssumption
<1>4. Readable \subseteq clients \cup r /\ clients \subseteq Clients
  BY DEF Readable, IInv, Typed, TypeOK
<1> QED BY <1>2, <1>3, <1>4 DEF Members

\* a step that leaves the list, the table and the kernel's queues to the others
LEMMA StepQuiet ==
  ASSUME IInv, Poll \/ PollTimeout \/ BatchDone \/ Tick
  PROVE  IInv'
<1> USE DEF IInv, historyVars
<1>1. UNCHANGED <<events, clients, closed, undefined, last, lag, heard, running, now, arrived, peer>>
  BY DEF Poll, PollTimeout, BatchDone, Tick
<1>2. /\ pc' \in {"poll", "batch", "tick", "cleanup"}
      /\ batch' \subseteq Members /\ batch' \cap Clients \subseteq Elems(events)
      /\ pc' # "batch" => batch' = {}
  <2>1. CASE Poll
    <3>1. batch' \subseteq Readable /\ pc' = "batch"
      BY <2>1 DEF Poll, Returned
    <3> QED BY <3>1, ReadableMembers DEF Table
  <2>2. CASE PollTimeout \/ BatchDone \/ Tick
    <3>1. batch' = batch /\ pc' \in {"poll", "tick", "cleanup"} /\ batch = {}
      BY <2>2 DEF PollTimeout, BatchDone, Tick, Remains
    <3> QED BY <3>1
  <2> QED BY <2>1, <2>2
<1>3. current' \in Nat /\ current' <= now
  BY DEF Poll, PollTimeout, BatchDone, Tick, Typed, TypeOK, Clock
<1>4. Typed'
  BY <1>1, <1>2, <1>3 DEF Typed, TypeOK, Listed, Members
<1>5. Table' /\ Unknown' /\ Remains' /\ Freed' /\ Clock'
  BY <1>1, <1>2, <1>3 DEF Table, Unknown, Remains, Freed, Clock
<1> QED BY <1>4, <1>5

LEMMA StepAccept == ASSUME IInv, server_handle_new_connection PROVE IInv'
<1> USE DEF IInv
<1>1. PICK c \in arrived.accept :
        /\ arrived' = [arrived EXCEPT !.accept = @ \ {c}]
        /\ clients' = clients \cup {c}
        /\ last' = [last EXCEPT ![c] = current]
        /\ events' = Append(events, c)
        /\ heard' = [heard EXCEPT ![c] = now]
        /\ lag' = [lag EXCEPT ![c] = now - current]
  BY DEF server_handle_new_connection
<1>2. /\ UNCHANGED <<running, current, pc, now, peer, closed, undefined>>
      /\ pc = "batch" /\ batch' = batch \ {"listen"}
  BY DEF server_handle_new_connection, Take
<1>3. /\ c \in Clients /\ c \in Members /\ c \notin Elems(events) /\ closed[c] = "no"
      /\ peer[c] # "new"
  BY DEF Typed, TypeOK, Arrivals, Unknown, Members
<1>4. events' \in Seq(Members) /\ Once(events') /\ Elems(events') = Elems(events) \cup {c}
  BY <1>1, <1>3, AppendFacts DEF Typed, Table
<1>5. arrived' \in Arrivals /\ arrived'.accept = arrived.accept \ {c}
  BY <1>1 DEF Typed, TypeOK, Arrivals
<1>6. current \in Nat /\ now \in Nat /\ current <= now /\ now - current \in Nat
  BY DEF Typed, TypeOK, Clock
<1>7. Typed'
  <2>1. Listed' = Elems(events')
    BY DEF Listed, Elems
  <2>2. Listed' \subseteq Members
    BY <2>1, <1>4, ListedMembers DEF Members
  <2> QED BY <1>1, <1>2, <1>3, <1>4, <1>5, <1>6, <2>2 DEF Typed, TypeOK, Members
<1>8. Table'
  BY <1>1, <1>2, <1>3, <1>4 DEF Table
<1>9. Unknown'
  BY <1>2, <1>3, <1>4, <1>5 DEF Unknown
<1>10. Remains' /\ Freed'
  BY <1>1, <1>2, <1>4 DEF Remains, Freed
<1>11. Clock'
  BY <1>1, <1>2, <1>3, <1>6 DEF Clock, Typed, TypeOK
<1> QED BY <1>7, <1>8, <1>9, <1>10, <1>11

\* a handler that closes nobody, or silent clients, whose events stay
LEMMA StepStays ==
  ASSUME IInv,
         \/ signalfd_read \/ server_routine_checks \/ server_read_udp_packet
         \/ \E c \in Clients : ReadPacket(c)
  PROVE  IInv'
<1> USE DEF IInv, historyVars
<1>1. /\ UNCHANGED <<events, current, pc, now, peer, undefined>>
      /\ pc = "batch" /\ batch' \subseteq batch
  BY DEF signalfd_read, server_routine_checks, server_read_udp_packet, ReadPacket, Take
<1>2. running' \in BOOLEAN
  BY DEF signalfd_read, server_routine_checks, server_read_udp_packet, ReadPacket, Typed, TypeOK
<1>3. arrived' \in Arrivals /\ arrived'.accept = arrived.accept
  <2>1. arrived \in Arrivals
    BY DEF Typed, TypeOK
  <2>2. CASE signalfd_read
    BY <2>1, <2>2 DEF signalfd_read, Arrivals
  <2>3. CASE server_routine_checks
    BY <2>1, <2>3 DEF server_routine_checks, Arrivals
  <2>4. CASE server_read_udp_packet
    BY <2>1, <2>4 DEF server_read_udp_packet, Arrivals
  <2>5. CASE \E c \in Clients : ReadPacket(c)
    BY <2>1, <2>5 DEF ReadPacket, Arrivals
  <2> QED BY <2>2, <2>3, <2>4, <2>5
<1>4. PICK gone \in SUBSET clients :
        clients' = clients \ gone
        /\ closed' = [c \in Clients |-> IF c \in gone THEN "timeout" ELSE closed[c]]
  <2>1. closed = [c \in Clients |-> IF c \in {} THEN "timeout" ELSE closed[c]]
    BY DEF Typed, TypeOK
  <2>2. CASE server_routine_checks
    BY <2>2 DEF server_routine_checks, server_close_client
  <2>3. CASE signalfd_read \/ server_read_udp_packet \/ \E c \in Clients : ReadPacket(c)
    <3>1. clients' = clients \ {} /\ closed' = closed
      BY <2>3 DEF signalfd_read, server_read_udp_packet, ReadPacket
    <3>2. closed' = [c \in Clients |-> IF c \in {} THEN "timeout" ELSE closed[c]]
      BY <2>1, <3>1
    <3> WITNESS {} \in SUBSET clients
    <3> QED BY <3>1, <3>2
  <2> QED BY <2>2, <2>3
<1>5. \/ UNCHANGED <<last, heard, lag>>
      \/ \E c \in Clients : Heard(c)
  BY DEF signalfd_read, server_routine_checks, server_read_udp_packet, ReadPacket, Typed, TypeOK,
         Arrivals
<1>6. /\ last' \in [Clients -> Nat] /\ heard' \in [Clients -> Nat] /\ lag' \in [Clients -> Nat]
      /\ \A c \in clients : last'[c] + lag'[c] = heard'[c]
  <2>1. current \in Nat /\ now \in Nat /\ current <= now /\ now - current \in Nat
        /\ current + (now - current) = now
    BY DEF Typed, TypeOK, Clock
  <2>2. CASE UNCHANGED <<last, heard, lag>>
    BY <2>2 DEF Typed, TypeOK, Clock
  <2>3. ASSUME NEW c \in Clients, Heard(c)
        PROVE  /\ last' \in [Clients -> Nat] /\ heard' \in [Clients -> Nat] /\ lag' \in [Clients -> Nat]
               /\ \A d \in clients : last'[d] + lag'[d] = heard'[d]
    BY <2>1, <2>3 DEF Typed, TypeOK, Clock, Heard
  <2> QED BY <1>5, <2>2, <2>3
<1>7. Typed'
  BY <1>1, <1>2, <1>3, <1>4, <1>6 DEF Typed, TypeOK, Listed
<1>8. Table' /\ Unknown' /\ Remains'
  BY <1>1, <1>3, <1>4 DEF Table, Unknown, Remains, Typed, TypeOK
<1>9. Freed'
  BY <1>1, <1>4 DEF Freed, Typed, TypeOK
<1>10. Clock'
  BY <1>1, <1>4, <1>6 DEF Clock
<1> QED BY <1>7, <1>8, <1>9, <1>10

\* a step that closes a connection and takes its event out of the list
LEMMA StepCloses ==
  ASSUME IInv, NEW c \in Clients, NEW how \in {"no", "peer", "invalid", "timeout", "shutdown"},
         UNCHANGED <<running, last, current, now, peer, heard, lag>>,
         pc' \in {pc, "down"},
         batch' = batch \ {c},
         arrived' \in {arrived, [arrived EXCEPT !.tcp = @ \ {c}]},
         clients' = clients \ {c},
         closed' = [d \in Clients |-> IF d = c THEN how ELSE closed[d]],
         events' \in Seq(Members), Once(events'), Elems(events') = Elems(events) \ {c},
         undefined' \in {undefined, undefined \cup {c}},
         undefined' = undefined \/ how \in {"timeout", "invalid"},
         c \in Elems(events),
         c \in clients \/ how = closed[c]
  PROVE  IInv'
<1> USE DEF IInv
<1>1. arrived' \in Arrivals /\ arrived'.accept = arrived.accept
  <2>1. arrived \in Arrivals
    BY DEF Typed, TypeOK
  <2>2. CASE arrived' = arrived
    BY <2>1, <2>2
  <2>3. CASE arrived' = [arrived EXCEPT !.tcp = @ \ {c}]
    BY <2>1, <2>3 DEF Arrivals
  <2> QED BY <2>2, <2>3
<1>2. Typed'
  <2>1. Listed' = Elems(events') /\ Elems(events') \subseteq Members
    BY ListedMembers DEF Listed, Elems, Members
  <2> QED BY <1>1, <2>1 DEF Typed, TypeOK, Members
<1>3. Table'
  BY DEF Table, Typed, TypeOK
<1>4. Unknown'
  BY <1>1 DEF Unknown, Typed, TypeOK, Arrivals
<1>5. Remains'
  BY DEF Remains, Typed, TypeOK
<1>6. Freed'
  BY DEF Freed, Table, Typed, TypeOK
<1>7. Clock'
  BY DEF Clock, Typed, TypeOK
<1> QED BY <1>2, <1>3, <1>4, <1>5, <1>6, <1>7

LEMMA StepRead ==
  ASSUME IInv, NEW c \in Clients, ReadInvalid(c) \/ ReadEnd(c) \/ ReadClosed(c)
  PROVE  IInv'
<1>1. /\ UNCHANGED <<running, last, current, now, peer, heard, lag>>
      /\ c \in batch /\ pc = "batch" /\ batch' = batch \ {c}
      /\ arrived' \in {arrived, [arrived EXCEPT !.tcp = @ \ {c}]}
      /\ pc' \in {pc, "down"}
      /\ server_close_event(c)
  BY DEF ReadInvalid, ReadEnd, ReadClosed, Take
<1>2. PICK i \in DOMAIN events : events[i] = c /\ events' = Without(events, i)
  BY <1>1 DEF server_close_event
<1>3. /\ c \in Elems(events) /\ events' \in Seq(Members) /\ Once(events')
      /\ Elems(events') = Elems(events) \ {c}
  BY <1>2, WithoutFacts DEF IInv, Typed, Table
<1>4. closed = [d \in Clients |-> closed[d]]
  BY DEF IInv, Typed, TypeOK
<1>5. CASE ReadInvalid(c)
  <2>1. /\ clients' = clients \ {c} /\ undefined' = undefined \cup {c} /\ c \in clients
        /\ closed' = [d \in Clients |-> IF d = c THEN "invalid" ELSE closed[d]]
    BY <1>5 DEF ReadInvalid, server_close_client
  <2> QED BY <1>1, <1>3, <2>1, StepCloses
<1>6. CASE ReadEnd(c)
  <2>1. /\ clients' = clients \ {c} /\ undefined' = undefined /\ c \in clients
        /\ closed' = [d \in Clients |-> IF d = c THEN "peer" ELSE closed[d]]
    BY <1>6 DEF ReadEnd, server_close_client
  <2> QED BY <1>1, <1>3, <2>1, StepCloses
<1>7. CASE ReadClosed(c)
  <2>1. c \notin clients /\ clients' = clients /\ closed' = closed
        /\ undefined' = undefined \cup {c}
    BY <1>7 DEF ReadClosed
  <2>2. closed[c] = "timeout" /\ clients' = clients \ {c}
    BY <1>3, <2>1 DEF IInv, Table
  <2>3. closed' = [d \in Clients |-> IF d = c THEN "timeout" ELSE closed[d]]
    BY <1>4, <2>1, <2>2
  <2> QED BY <1>1, <1>3, <2>1, <2>2, <2>3, StepCloses
<1> QED BY <1>5, <1>6, <1>7

LEMMA StepCleanup == ASSUME IInv, server_cleanup PROVE IInv'
<1>1. /\ UNCHANGED <<running, last, current, now, peer, heard, lag, batch, arrived>>
      /\ pc = "cleanup" /\ batch = {}
  BY DEF server_cleanup, CloseFixed, CloseConnection, CloseStale, server_cleanup_clients,
         historyVars, IInv, Remains
<1>2. events # <<>> =>
        /\ Head(events) \in Members /\ Head(events) \in Elems(events)
        /\ Tail(events) \in Seq(Members) /\ Once(Tail(events))
        /\ Elems(Tail(events)) = Elems(events) \ {Head(events)}
  BY TailFacts DEF IInv, Typed, Table
<1>3. closed = [d \in Clients |-> closed[d]] /\ clients \subseteq Clients
  BY DEF IInv, Typed, TypeOK
<1>4. CASE CloseFixed
  <2>1. /\ UNCHANGED <<pc, clients, closed, undefined>>
        /\ events # <<>> /\ Head(events) \notin Clients /\ events' = Tail(events)
    BY <1>4 DEF CloseFixed, historyVars
  <2>2. Typed'
    <3>1. Listed' = Elems(events') /\ Elems(events') \subseteq Members
      BY <2>1, <1>2, ListedMembers DEF Listed, Elems, Members
    <3> QED BY <1>1, <1>2, <2>1, <3>1 DEF IInv, Typed, TypeOK, Members
  <2>3. Elems(events') \cap Clients = Elems(events) \cap Clients
    BY <1>2, <2>1
  <2>4. Table' /\ Unknown' /\ Remains' /\ Freed' /\ Clock'
    BY <1>1, <1>2, <1>3, <2>1, <2>3 DEF IInv, Table, Unknown, Remains, Freed, Clock
  <2> QED BY <2>2, <2>4 DEF IInv
<1>5. CASE CloseConnection
  <2>1. /\ events # <<>> /\ Head(events) \in clients /\ events' = Tail(events)
        /\ clients' = clients \ {Head(events)} /\ undefined' = undefined /\ pc' = pc
        /\ closed' = [d \in Clients |-> IF d = Head(events) THEN "shutdown" ELSE closed[d]]
    BY <1>5 DEF CloseConnection, server_close_client
  <2>2. Head(events) \in Clients /\ batch' = batch \ {Head(events)} /\ arrived' = arrived
    BY <1>1, <1>3, <2>1
  <2> QED BY <1>1, <1>2, <2>1, <2>2, StepCloses
<1>6. CASE CloseStale
  <2>1. /\ events # <<>> /\ Head(events) \in Clients \ clients /\ events' = Tail(events)
        /\ UNCHANGED <<clients, closed>>
        /\ undefined' = undefined \cup {Head(events)} /\ pc' \in {pc, "down"}
    BY <1>1, <1>6 DEF CloseStale
  <2>2. closed[Head(events)] = "timeout" /\ clients' = clients \ {Head(events)}
        /\ batch' = batch \ {Head(events)} /\ arrived' = arrived
    BY <1>1, <1>2, <2>1 DEF IInv, Table
  <2>3. closed' = [d \in Clients |-> IF d = Head(events) THEN "timeout" ELSE closed[d]]
    BY <1>3, <2>1, <2>2
  <2> QED BY <1>1, <1>2, <2>1, <2>2, <2>3, StepCloses
<1>7. CASE server_cleanup_clients
  <2>1. /\ clients' = {} /\ UNCHANGED <<events, undefined>> /\ pc' = "down"
        /\ closed' = [d \in Clients |-> IF d \in clients THEN "shutdown" ELSE closed[d]]
        /\ events = <<>>
    BY <1>7 DEF server_cleanup_clients, server_close_client
  <2>2. Elems(events) = {}
    BY <2>1 DEF Elems
  <2>3. clients = {} /\ closed' = closed
    BY <1>3, <2>1, <2>2 DEF IInv, Table
  <2>4. Typed'
    BY <1>1, <2>1, <2>3 DEF IInv, Typed, TypeOK, Listed
  <2>5. Table' /\ Unknown' /\ Remains' /\ Freed' /\ Clock'
    BY <1>1, <2>1, <2>3 DEF IInv, Table, Unknown, Remains, Freed, Clock
  <2> QED BY <2>4, <2>5 DEF IInv
<1> QED BY <1>4, <1>5, <1>6, <1>7 DEF server_cleanup

LEMMA Step == IInv /\ [Next]_vars => IInv'
<1> SUFFICES ASSUME IInv, [Next]_vars PROVE IInv'
  OBVIOUS
<1>1. CASE UNCHANGED vars
  BY <1>1 DEF vars, loopVars, historyVars, IInv, Typed, TypeOK, Listed, Table, Unknown, Remains,
              Freed, Clock
<1>2. CASE Next
  BY <1>2, StepWorld, StepQuiet, StepAccept, StepStays, StepRead, StepCleanup
     DEF Next, server_run, Handle
<1> QED BY <1>1, <1>2

LEMMA Invariance == Spec => []IInv
BY InitHolds, Step, PTL DEF Spec

-------------------------------------------------------------------------------
(***************************************************************************)
(* The server's state keeps its types, whatever connections come and go    *)
(* (server.c, event.c).                                                    *)
(***************************************************************************)
THEOREM TypeInvariant == Spec => []TypeOK
<1>1. IInv => TypeOK
  BY DEF IInv, Typed
<1> QED BY <1>1, Invariance, PTL

(***************************************************************************)
(* The list of events and the table of clients agree up to clients closed  *)
(* for silence, and only such a client, or one whose packet was invalid,   *)
(* is used after it was freed: for any number of connections.              *)
(***************************************************************************)
THEOREM FreedInvariant == Spec => []UndefinedExplained
<1>1. IInv => UndefinedExplained
  BY DEF IInv, Typed, Table, Freed, UndefinedExplained, EventsHaveClients, Once, Listed, Elems
<1> QED BY <1>1, Invariance, PTL

(***************************************************************************)
(* server_routine_checks closes a client for silence only after the whole  *)
(* threshold, whatever the threshold and the timer, unless the client was  *)
(* last heard while the server's clock stood still.                        *)
(***************************************************************************)
THEOREM SilenceCloses == Spec => ClosedForSilence
<1>1. ASSUME IInv, [Next]_vars, NEW c \in Clients, closed[c] = "no", closed'[c] = "timeout"
      PROVE  now - heard[c] >= Timeout \/ lag[c] > 1
  <2>1. closed' # closed
    BY <1>1
  <2>2. server_routine_checks
    <3>1. CASE World \/ Poll \/ PollTimeout \/ BatchDone \/ Tick \/ UNCHANGED vars
      BY <2>1, <3>1 DEF World, Pass, Signal, Connect, Send, Hangup, Poll, PollTimeout, BatchDone,
                        Tick, vars, historyVars
    <3>2. CASE server_handle_new_connection \/ signalfd_read \/ server_read_udp_packet
      BY <2>1, <3>2 DEF server_handle_new_connection, signalfd_read, server_read_udp_packet, historyVars
    <3>3. ASSUME NEW d \in Clients, ReadPacket(d) \/ ReadInvalid(d) \/ ReadEnd(d) \/ ReadClosed(d)
          PROVE FALSE
      BY <1>1, <2>1, <3>3 DEF ReadPacket, ReadInvalid, ReadEnd, ReadClosed, server_close_client
    <3>4. CASE server_cleanup
      BY <1>1, <2>1, <3>4 DEF server_cleanup, CloseFixed, CloseConnection, CloseStale,
                              server_cleanup_clients, server_close_client, historyVars
    <3> QED BY <1>1, <3>1, <3>2, <3>3, <3>4 DEF Next, server_run, Handle
  <2>3. c \in clients /\ Silent(c)
    BY <1>1, <2>2 DEF server_routine_checks, server_close_client
  <2>4. /\ last[c] \in Nat /\ heard[c] \in Nat /\ lag[c] \in Nat /\ current \in Nat /\ now \in Nat
        /\ current <= now /\ last[c] + lag[c] = heard[c] /\ Timeout \in Nat
    BY <1>1, <2>3, TimesAssumption DEF IInv, Typed, TypeOK, Clock
  <2>5. current - last[c] > Timeout
    BY <2>3 DEF Silent
  <2> QED BY <2>4, <2>5
<1>2. IInv /\ [Next]_vars =>
        [\A c \in Clients : closed[c] = "no" /\ closed'[c] = "timeout" =>
           now - heard[c] >= Timeout \/ lag[c] > 1]_vars
  BY <1>1
<1> QED BY <1>2, Invariance, PTL DEF Spec, ClosedForSilence

-------------------------------------------------------------------------------
(***************************************************************************)
(* Silence ends: what the timer finds.  Between two rounds of the timer a  *)
(* client's silence may exceed the threshold by the time since the last    *)
(* one, and by a tick; while a round is due, by a whole period.            *)
(***************************************************************************)
Grace == IF arrived.timer THEN Routine ELSE now % Routine

Rounds ==
  /\ arrived.timer => now % Routine = 0
  /\ \A c \in clients : heard[c] <= now /\ (heard[c] = now \/ now <= current + 1)
  /\ running => \A c \in clients : now - heard[c] <= Timeout + 1 + Grace

LEMMA NextRemainder ==
  ASSUME NEW n \in Nat, NEW r \in Nat \ {0}
  PROVE  /\ n % r \in 0 .. r - 1
         /\ (n + 1) % r = 0 => n % r = r - 1
         /\ (n + 1) % r # 0 => (n + 1) % r = (n % r) + 1
<1> DEFINE q == n \div r
           p == (n + 1) \div r
<1>1. /\ q \in Int /\ n = (r * q) + (n % r) /\ n % r \in 0 .. r - 1
      /\ p \in Int /\ n + 1 = (r * p) + ((n + 1) % r) /\ (n + 1) % r \in 0 .. r - 1
  OBVIOUS
<1> HIDE DEF q, p
<1>2. p = q \/ p = q + 1
  BY <1>1, SMTT(30)
<1>3. CASE p = q
  BY <1>1, <1>3
<1>4. CASE p = q + 1
  <2>1. r * p = (r * q) + r
    BY <1>1, <1>4
  <2> QED BY <1>1, <2>1
<1> QED BY <1>2, <1>3, <1>4

LEMMA RoundsStep == ASSUME IInv, Rounds, [Next]_vars PROVE Rounds'
<1>1. /\ current \in Nat /\ now \in Nat /\ current <= now /\ arrived \in Arrivals
      /\ clients \subseteq Clients /\ arrived.timer \in BOOLEAN
      /\ last \in [Clients -> Nat] /\ heard \in [Clients -> Nat] /\ lag \in [Clients -> Nat]
      /\ Timeout \in Nat /\ Routine \in Nat \ {0} /\ now % Routine \in 0 .. Routine - 1
  BY TimesAssumption, NextRemainder DEF IInv, Typed, TypeOK, Clock, Arrivals
<1>2. CASE Pass
  <2>1. /\ now' = now + 1 /\ UNCHANGED <<clients, heard, current, running>>
        /\ clients # {} => current = now
        /\ arrived' = [arrived EXCEPT !.timer = @ \/ (now + 1) % Routine = 0]
        /\ "timer" \notin Readable
    BY <1>2 DEF Pass, loopVars, historyVars
  <2>2. arrived.timer = FALSE
    BY <1>1, <2>1 DEF Readable
  <2>3. arrived'.timer <=> (now + 1) % Routine = 0
    BY <1>1, <2>1, <2>2 DEF Arrivals
  <2>4. /\ (now + 1) % Routine = 0 => now % Routine = Routine - 1
        /\ (now + 1) % Routine # 0 => (now + 1) % Routine = (now % Routine) + 1
    BY <1>1, NextRemainder
  <2>5. Grace = now % Routine /\ Grace' = (now % Routine) + 1
    BY <1>1, <2>1, <2>2, <2>3, <2>4 DEF Grace
  <2>6. ASSUME NEW c \in clients
        PROVE  /\ heard[c] \in Nat /\ heard[c] <= now /\ current = now
               /\ running => now - heard[c] <= Timeout + 1 + Grace
    BY <1>1, <2>1 DEF Rounds
  <2>7. ASSUME NEW c \in clients
        PROVE  /\ heard[c] <= now + 1 /\ now + 1 <= current + 1
               /\ running => (now + 1) - heard[c] <= Timeout + 1 + Grace'
    BY <1>1, <2>5, <2>6
  <2> QED BY <2>1, <2>3, <2>7 DEF Rounds
\* every other step leaves the clock alone, and the timer but in its handler
<1>3. CASE server_routine_checks
  <2>1. /\ UNCHANGED <<running, last, current, now, heard, lag>> /\ arrived'.timer = FALSE
        /\ clients' = clients \ {c \in clients : Silent(c)}
    BY <1>1, <1>3 DEF server_routine_checks, server_close_client, Arrivals
  <2>2. Grace' = now % Routine
    BY <2>1 DEF Grace
  <2>3. ASSUME NEW c \in clients, ~Silent(c)
        PROVE  /\ heard[c] <= now /\ (heard[c] = now \/ now <= current + 1)
               /\ running => now - heard[c] <= Timeout + 1 + (now % Routine)
    <3>1. /\ last[c] \in Nat /\ heard[c] \in Nat /\ lag[c] \in Nat
          /\ last[c] + lag[c] = heard[c] /\ current - last[c] <= Timeout
          /\ heard[c] <= now /\ (heard[c] = now \/ now <= current + 1)
      BY <1>1, <2>3 DEF IInv, Clock, Rounds, Silent
    <3>2. running => now - heard[c] <= Timeout + 1 + Grace
      BY <2>3 DEF Rounds
    <3>3. now - heard[c] <= Timeout + 1
      BY <1>1, <3>1
    <3> QED BY <1>1, <3>1, <3>3
  <2> QED BY <2>1, <2>2, <2>3 DEF Rounds
<1>4. CASE Tick
  <2>1. UNCHANGED <<running, clients, heard, now, arrived>> /\ current' = now
    BY <1>4 DEF Tick, historyVars
  <2>2. Grace' = Grace
    BY <2>1 DEF Grace
  <2> QED BY <1>1, <2>1, <2>2 DEF Rounds
\* a client that is heard, or new, is silent for no time
<1>5. ASSUME UNCHANGED <<now, current>>, arrived'.timer = arrived.timer, running' => running,
             \A c \in clients' : (c \in clients /\ heard'[c] = heard[c]) \/ heard'[c] = now
      PROVE  Rounds'
  <2>1. Grace' = Grace /\ Grace \in Nat
    BY <1>1, <1>5 DEF Grace
  <2> QED BY <1>1, <1>5, <2>1 DEF Rounds
<1>6. CASE Signal \/ (\E c \in Clients : Connect(c) \/ Send(c) \/ Hangup(c))
  <2>1. /\ UNCHANGED <<now, current, running, clients, heard>> /\ arrived'.timer = arrived.timer
    BY <1>1, <1>6 DEF Signal, Connect, Send, Hangup, loopVars, historyVars, Arrivals
  <2> QED BY <1>5, <2>1
<1>7. CASE Poll \/ PollTimeout \/ BatchDone \/ server_cleanup \/ UNCHANGED vars
  <2>1. /\ UNCHANGED <<now, current, running, arrived, heard>> /\ clients' \subseteq clients
    BY <1>7 DEF Poll, PollTimeout, BatchDone, server_cleanup, CloseFixed, CloseConnection, CloseStale,
                server_cleanup_clients, server_close_client, vars, loopVars, historyVars
  <2> QED BY <1>5, <2>1
<1>8. CASE server_handle_new_connection
  <2>1. PICK c \in arrived.accept :
          /\ arrived' = [arrived EXCEPT !.accept = @ \ {c}] /\ clients' = clients \cup {c}
          /\ heard' = [heard EXCEPT ![c] = now]
    BY <1>8 DEF server_handle_new_connection
  <2>2. UNCHANGED <<running, current, now>> /\ arrived'.timer = arrived.timer /\ c \in Clients
    BY <1>1, <1>8, <2>1 DEF server_handle_new_connection, Arrivals
  <2> QED BY <1>1, <1>5, <2>1, <2>2
<1>9. CASE signalfd_read \/ server_read_udp_packet \/ (\E c \in Clients : ReadPacket(c))
  <2>1. /\ UNCHANGED <<now, current, clients>> /\ arrived'.timer = arrived.timer
        /\ (running' => running)
    BY <1>1, <1>9 DEF signalfd_read, server_read_udp_packet, ReadPacket, historyVars, Arrivals
  <2>2. heard' = heard \/ \E c \in Clients : heard' = [heard EXCEPT ![c] = now]
    BY <1>1, <1>9 DEF signalfd_read, server_read_udp_packet, ReadPacket, historyVars, Heard, Arrivals
  <2>3. \A c \in clients' : (c \in clients /\ heard'[c] = heard[c]) \/ heard'[c] = now
    <3>1. CASE heard' = heard
      BY <2>1, <3>1
    <3>2. CASE \E c \in Clients : heard' = [heard EXCEPT ![c] = now]
      BY <1>1, <2>1, <3>2
    <3> QED BY <2>2, <3>1, <3>2
  <2> QED BY <1>5, <2>1, <2>3
<1>10. CASE \E c \in Clients : ReadInvalid(c) \/ ReadEnd(c) \/ ReadClosed(c)
  <2>1. /\ UNCHANGED <<now, current, running, heard>> /\ arrived'.timer = arrived.timer
        /\ clients' \subseteq clients
    BY <1>1, <1>10 DEF ReadInvalid, ReadEnd, ReadClosed, server_close_client, Arrivals
  <2> QED BY <1>5, <2>1
<1> QED BY <1>2, <1>3, <1>4, <1>6, <1>7, <1>8, <1>9, <1>10 DEF Next, World, server_run, Handle

(***************************************************************************)
(* A silent client is closed: no client stays in the table longer than the *)
(* threshold, one period of the timer and a tick after the server last     *)
(* heard of it, whatever the threshold, the period and the other clients   *)
(* (server_routine_checks, and the timer that calls it), as long as the    *)
(* server keeps up with the clock.                                         *)
(***************************************************************************)
THEOREM SilenceEnds == Spec => []SilentClientsGo
<1>1. Init => Rounds
  <2>1. 0 % Routine = 0
    <3>1. Routine \in Nat \ {0} /\ Routine * 0 = 0
      BY TimesAssumption
    <3>2. 0 % Routine \in 0 .. Routine - 1 /\ 0 = (Routine * (0 \div Routine)) + (0 % Routine)
      BY <3>1
    <3> QED BY <3>1, SMTT(30)
  <2> QED BY <2>1 DEF Init, Rounds
<1>2. IInv /\ Rounds /\ [Next]_vars => Rounds'
  BY RoundsStep
<1>3. IInv /\ Rounds => SilentClientsGo
  <2> SUFFICES ASSUME IInv, Rounds, running, NEW c \in clients
               PROVE  now - heard[c] <= Timeout + Routine + 1
    BY DEF SilentClientsGo
  <2>1. /\ now \in Nat /\ heard[c] \in Nat /\ Timeout \in Nat /\ Routine \in Nat \ {0}
        /\ now % Routine \in 0 .. Routine - 1
    BY TimesAssumption, NextRemainder DEF IInv, Typed, TypeOK
  <2>2. Grace \in Nat /\ Grace <= Routine /\ now - heard[c] <= Timeout + 1 + Grace
    BY <2>1 DEF Grace, Rounds
  <2> QED BY <2>1, <2>2
<1> QED BY <1>1, <1>2, <1>3, Invariance, PTL DEF Spec
===============================================================================
