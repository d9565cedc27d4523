----------------------------- MODULE RosterProofs ------------------------------
(***************************************************************************)
(* Proofs about Roster, for any clients and any bounds: the types, the     *)
(* agreement of every roster with the server's players, and what can crash *)
(* a client.                                                               *)
(*                                                                         *)
(* A roster agrees because of what is on its way: the invariant says which *)
(* packets can be in the channel of a connection, and in which order, at   *)
(* each stage of a connection's life.  That numbers of connections and ids *)
(* of players never run out is a counting argument: every reconnect uses   *)
(* up what one fault did to one client.                                    *)
(***************************************************************************)
EXTENDS Roster, FiniteSetTheorems, TLAPS

Packets ==
  [type : {"welcome"}, pid : Ids, others : SUBSET Ids]
    \cup [type : {"new", "delete"}, pid : Ids] \cup [type : {"shutdown"}]

Typed ==
  /\ TypeOK
  /\ chan \in [Conns -> Seq(Packets)]
  /\ joins \in 0..MaxJoins /\ faults \in 0..MaxFaults

Elems(q) == {q[i] : i \in DOMAIN q}

Once(q) == \A i, j \in DOMAIN q : q[i] = q[j] => i = j

Greetings(q) == {q[i].pid : i \in {j \in DOMAIN q : q[j].type = "welcome"}}
Dropped(q) == {q[i].pid : i \in {j \in DOMAIN q : q[j].type = "delete"}}

\* one welcome, and nobody new before it
Ordered(q, greeted) ==
  /\ \A i, j \in DOMAIN q : q[i].type = "welcome" /\ q[j].type = "welcome" => i = j
  /\ greeted => Greetings(q) = {}
  /\ \A i \in DOMAIN q : q[i].type = "new" => greeted \/ \E j \in DOMAIN q : j < i /\ q[j].type = "welcome"

\* a connection is a number that one client has, and the server knows it once
Numbers ==
  /\ \A c \in Clients : net[c] <= used /\ (net[c] = NoConn <=> phase[c] = "idle")
  /\ \A c, d \in Clients : net[c] = net[d] /\ net[c] # NoConn => c = d
  /\ Once(table)
  /\ Listed \cap backlog = {}
  /\ \A k \in Conns : k > used =>
       k \notin backlog \cup Listed \cup requests \cup pings \cup replies /\ chan[k] = <<>>
  /\ mode = "down" => Listed = {} /\ backlog = {}

\* the stages of a connection
Stages ==
  /\ \A k \in Conns : pidOf[k] # NoPlayer => k \in Listed \ requests
  /\ \A k \in backlog : chan[k] = <<>> /\ k \notin pings
  /\ \A k \in replies : k \in pings \ Listed
  /\ \A c \in Clients :
       /\ phase[c] = "connecting" =>
            net[c] \notin backlog \cup Listed \cup requests \cup pings /\ chan[net[c]] = <<>>
       /\ phase[c] = "made" => net[c] \notin requests /\ pidOf[net[c]] = NoPlayer
       /\ phase[c] = "ready" => net[c] \notin backlog
       /\ phase[c] # "ready" => own[c] = NoPlayer /\ roster[c] \subseteq kept[c]
       /\ screen[c] = "menu" => phase[c] # "ready"

\* an id is a player's alone
Unique ==
  /\ \A k \in Conns : pidOf[k] <= player_id_seq
  /\ \A j, k \in Conns : pidOf[j] = pidOf[k] /\ pidOf[j] # NoPlayer => j = k

\* what is on its way to a client
Wire(c, q) ==
  /\ Ordered(q, phase[c] = "ready")
  /\ Greetings(q) # {} => phase[c] = "connected"
  /\ Dropped(q) \cap (Greetings(q) \cup {own[c]}) = {}
  /\ net[c] \in Listed =>
       /\ Dropped(q) \subseteq 1..player_id_seq
       /\ IF phase[c] = "ready" THEN own[c] = pidOf[net[c]] /\ pidOf[net[c]] # NoPlayer
          ELSE Greetings(q) = {pidOf[net[c]]} \ {NoPlayer}
  /\ net[c] \in Joined /\ screen[c] # "crashed" =>
       Players \subseteq Roster(c) /\ Roster(c) \subseteq Players \cup kept[c]

Wires == \A c \in Clients : net[c] # NoConn => Wire(c, chan[net[c]])

\* who may yet reconnect: each of them was cut off by a fault
Cut(c) ==
  /\ screen[c] # "crashed" /\ net[c] # NoConn
  /\ phase[c] = "ready" \/ Greetings(chan[net[c]]) # {}
  /\ net[c] \notin Listed \/ mode # "up"

CutOff == {c \in Clients : Cut(c)}

\* connections of which the CONNECT has been read, or never will be
Spent ==
  {k \in 1..used : k \notin requests
                   /\ \A c \in Clients : net[c] = k => phase[c] \in {"connected", "ready"}}

Counted ==
  /\ used + Cardinality(CutOff) <= joins + faults * Cardinality(Clients)
  /\ player_id_seq <= Cardinality(Spent)

IInv == Typed /\ Numbers /\ Stages /\ Unique /\ OwnInRoster /\ Wires /\ Counted

-------------------------------------------------------------------------------
(* Queues of packets. *)

LEMMA AppendIndices ==
  ASSUME NEW S, NEW q \in Seq(S), NEW m \in S
  PROVE  /\ Append(q, m) \in Seq(S)
         /\ DOMAIN q = 1 .. Len(q) /\ Len(q) \in Nat
         /\ DOMAIN Append(q, m) = 1 .. (Len(q) + 1)
         /\ \A i \in 1 .. Len(q) : Append(q, m)[i] = q[i]
         /\ Append(q, m)[Len(q) + 1] = m
  OBVIOUS

LEMMA TailIndices ==
  ASSUME NEW S, NEW q \in Seq(S), q # <<>>
  PROVE  /\ Tail(q) \in Seq(S) /\ Head(q) \in S
         /\ DOMAIN q = 1 .. Len(q) /\ Len(q) \in Nat \ {0} /\ Head(q) = q[1]
         /\ DOMAIN Tail(q) = 1 .. (Len(q) - 1)
         /\ \A i \in 1 .. (Len(q) - 1) : Tail(q)[i] = q[i + 1]
         /\ \A i \in 2 .. Len(q) : i - 1 \in 1 .. (Len(q) - 1) /\ Tail(q)[i - 1] = q[i]
<1>1. /\ Tail(q) \in Seq(S) /\ Head(q) \in S
      /\ DOMAIN q = 1 .. Len(q) /\ Len(q) \in Nat \ {0} /\ Head(q) = q[1]
      /\ DOMAIN Tail(q) = 1 .. (Len(q) - 1)
      /\ \A i \in 1 .. (Len(q) - 1) : Tail(q)[i] = q[i + 1]
  OBVIOUS
<1>2. ASSUME NEW i \in 2 .. Len(q)
      PROVE  i - 1 \in 1 .. (Len(q) - 1) /\ Tail(q)[i - 1] = q[i]
  <2>1. i - 1 \in 1 .. (Len(q) - 1) /\ (i - 1) + 1 = i
    BY <1>1
  <2> QED BY <2>1, <1>1
<1> QED BY <1>1, <1>2

\* an added packet is the last to speak
LEMMA AppendAfter ==
  ASSUME NEW S, NEW q \in Seq(S), NEW m \in S, NEW R
  PROVE  After(Append(q, m), R) =
           {p \in Ids : Adds(m, p) \/ (p \in After(q, R) /\ ~Drops(m, p))}
<1>1. \A p : ~(Adds(m, p) /\ Drops(m, p))
  BY DEF Adds, Drops
<1> DEFINE n == Len(q)
<1>2. /\ DOMAIN q = 1 .. n /\ n \in Nat
      /\ DOMAIN Append(q, m) = 1 .. (n + 1)
      /\ \A i \in 1 .. n : Append(q, m)[i] = q[i]
      /\ Append(q, m)[n + 1] = m
  BY AppendIndices
<1> HIDE DEF n
<1>3. ASSUME NEW p \in Ids
      PROVE  p \in After(Append(q, m), R) <=> Adds(m, p) \/ (p \in After(q, R) /\ ~Drops(m, p))
  <2>1. (\A i \in DOMAIN Append(q, m) : ~Drops(Append(q, m)[i], p))
          <=> (\A i \in DOMAIN q : ~Drops(q[i], p)) /\ ~Drops(m, p)
    BY <1>2
  <2> DEFINE Stays(s, i) == Adds(s[i], p) /\ \A j \in DOMAIN s : j > i => ~Drops(s[j], p)
  <2>2. \A i \in 1 .. n : Stays(Append(q, m), i) <=> Stays(q, i) /\ ~Drops(m, p)
    BY <1>2
  <2>3. Stays(Append(q, m), n + 1) <=> Adds(m, p)
    BY <1>2
  <2>4. (\E i \in DOMAIN Append(q, m) : Stays(Append(q, m), i))
          <=> Adds(m, p) \/ (~Drops(m, p) /\ \E i \in DOMAIN q : Stays(q, i))
    <3> HIDE DEF Stays
    <3> QED BY <1>2, <2>2, <2>3
  <2>5. \A s : p \in After(s, R) <=>
          (p \in R /\ \A i \in DOMAIN s : ~Drops(s[i], p)) \/ \E i \in DOMAIN s : Stays(s, i)
    BY DEF After
  <2> HIDE DEF Stays
  <2> QED BY <1>1, <2>1, <2>4, <2>5
<1>4. After(Append(q, m), R) \subseteq Ids
  BY DEF After
<1> QED BY <1>3, <1>4

\* reading a packet leaves the same to come
LEMMA TailAfter ==
  ASSUME NEW S, NEW q \in Seq(S), q # <<>>, NEW R, NEW T,
         \A p \in Ids : p \in T <=> Adds(Head(q), p) \/ (p \in R /\ ~Drops(Head(q), p))
  PROVE  After(Tail(q), T) = After(q, R)
<1> DEFINE n == Len(q)
           h == Head(q)
           t == Tail(q)
<1>1. \A p : ~(Adds(h, p) /\ Drops(h, p))
  BY DEF Adds, Drops
<1>2. /\ DOMAIN q = 1 .. n /\ n \in Nat \ {0} /\ h = q[1]
      /\ DOMAIN t = 1 .. (n - 1)
      /\ \A i \in 1 .. (n - 1) : t[i] = q[i + 1]
      /\ \A i \in 2 .. n : i - 1 \in 1 .. (n - 1) /\ t[i - 1] = q[i]
  BY TailIndices
<1>0. \A p \in Ids : p \in T <=> Adds(h, p) \/ (p \in R /\ ~Drops(h, p))
  OBVIOUS
<1> HIDE DEF n, h, t
<1>3. ASSUME NEW p \in Ids PROVE p \in After(t, T) <=> p \in After(q, R)
  <2>1. (\A i \in DOMAIN q : ~Drops(q[i], p))
          <=> (\A i \in DOMAIN t : ~Drops(t[i], p)) /\ ~Drops(h, p)
    <3>1. ASSUME \A i \in DOMAIN t : ~Drops(t[i], p), ~Drops(h, p), NEW i \in DOMAIN q
          PROVE  ~Drops(q[i], p)
      <4>1. i = 1 \/ i \in 2 .. n
        BY <1>2
      <4> QED BY <4>1, <1>2, <3>1
    <3>2. ASSUME \A i \in DOMAIN q : ~Drops(q[i], p), NEW i \in DOMAIN t PROVE ~Drops(t[i], p)
      <4>1. i \in 1 .. (n - 1) /\ i + 1 \in DOMAIN q
        BY <1>2
      <4> QED BY <4>1, <1>2, <3>2
    <3>3. 1 \in DOMAIN q
      BY <1>2
    <3> QED BY <3>1, <3>2, <3>3, <1>2
  <2> DEFINE Stays(s, i) == Adds(s[i], p) /\ \A j \in DOMAIN s : j > i => ~Drops(s[j], p)
  <2>2. ASSUME NEW i \in 1 .. (n - 1) PROVE Stays(t, i) <=> Stays(q, i + 1)
    <3>1. t[i] = q[i + 1]
      BY <1>2
    <3>2. ASSUME \A j \in DOMAIN t : j > i => ~Drops(t[j], p), NEW j \in DOMAIN q, j > i + 1
          PROVE  ~Drops(q[j], p)
      <4>1. j \in 2 .. n /\ j - 1 \in DOMAIN t /\ j - 1 > i
        BY <1>2, <3>2
      <4> QED BY <4>1, <1>2, <3>2
    <3>3. ASSUME \A j \in DOMAIN q : j > i + 1 => ~Drops(q[j], p), NEW j \in DOMAIN t, j > i
          PROVE  ~Drops(t[j], p)
      <4>1. j \in 1 .. (n - 1) /\ j + 1 \in DOMAIN q /\ j + 1 > i + 1
        BY <1>2, <3>3
      <4> QED BY <4>1, <1>2, <3>3
    <3> QED BY <3>1, <3>2, <3>3
  <2>3. Stays(q, 1) <=> Adds(h, p) /\ \A j \in DOMAIN t : ~Drops(t[j], p)
    <3>1. ASSUME \A j \in DOMAIN t : ~Drops(t[j], p), NEW j \in DOMAIN q, j > 1 PROVE ~Drops(q[j], p)
      <4>1. j \in 2 .. n /\ j - 1 \in DOMAIN t
        BY <1>2, <3>1
      <4> QED BY <4>1, <1>2, <3>1
    <3>2. ASSUME \A j \in DOMAIN q : j > 1 => ~Drops(q[j], p), NEW j \in DOMAIN t PROVE ~Drops(t[j], p)
      <4>1. j \in 1 .. (n - 1) /\ j + 1 \in DOMAIN q /\ j + 1 > 1
        BY <1>2
      <4> QED BY <4>1, <1>2, <3>2
    <3> QED BY <3>1, <3>2, <1>2
  <2>4. (\E i \in DOMAIN q : Stays(q, i)) <=> Stays(q, 1) \/ \E i \in DOMAIN t : Stays(t, i)
    <3> HIDE DEF Stays
    <3>1. ASSUME NEW i \in DOMAIN q, Stays(q, i) PROVE Stays(q, 1) \/ \E j \in DOMAIN t : Stays(t, j)
      <4>1. CASE i = 1
        BY <4>1, <3>1
      <4>2. CASE i # 1
        <5>1. i - 1 \in 1 .. (n - 1) /\ (i - 1) + 1 = i
          BY <4>2, <1>2
        <5> QED BY <5>1, <2>2, <3>1, <1>2
      <4> QED BY <4>1, <4>2
    <3>2. ASSUME NEW i \in DOMAIN t, Stays(t, i) PROVE \E j \in DOMAIN q : Stays(q, j)
      <4>1. i \in 1 .. (n - 1) /\ i + 1 \in DOMAIN q
        BY <1>2
      <4> QED BY <4>1, <2>2, <3>2
    <3>3. 1 \in DOMAIN q
      BY <1>2
    <3> QED BY <3>1, <3>2, <3>3
  <2>5. \A s, X : p \in After(s, X) <=>
          (p \in X /\ \A i \in DOMAIN s : ~Drops(s[i], p)) \/ \E i \in DOMAIN s : Stays(s, i)
    BY DEF After
  <2> HIDE DEF Stays
  <2>6. p \in T <=> Adds(h, p) \/ (p \in R /\ ~Drops(h, p))
    BY <1>0
  <2> QED BY <1>1, <2>1, <2>3, <2>4, <2>5, <2>6
<1>4. After(t, T) \subseteq Ids /\ After(q, R) \subseteq Ids
  BY DEF After
<1>5. After(t, T) = After(q, R)
  BY <1>3, <1>4
<1> QED BY <1>5 DEF t

\* nothing on its way, nothing to change
LEMMA EmptyQueue ==
  ASSUME NEW R \in SUBSET Ids, NEW g \in BOOLEAN
  PROVE  After(<<>>, R) = R /\ Greetings(<<>>) = {} /\ Dropped(<<>>) = {} /\ Ordered(<<>>, g)
<1>1. \A i : ~(i \in DOMAIN <<>>)
  OBVIOUS
<1> QED BY <1>1 DEF After, Greetings, Dropped, Ordered

LEMMA Named ==
  ASSUME NEW q
  PROVE  /\ \A p : p \in Greetings(q) <=> \E i \in DOMAIN q : q[i].type = "welcome" /\ p = q[i].pid
         /\ \A p : p \in Dropped(q) <=> \E i \in DOMAIN q : q[i].type = "delete" /\ p = q[i].pid
  BY DEF Greetings, Dropped

LEMMA AppendNames ==
  ASSUME NEW S, NEW q \in Seq(S), NEW m \in S
  PROVE  /\ Greetings(Append(q, m)) = Greetings(q) \cup (IF m.type = "welcome" THEN {m.pid} ELSE {})
         /\ Dropped(Append(q, m)) = Dropped(q) \cup (IF m.type = "delete" THEN {m.pid} ELSE {})
<1> DEFINE n == Len(q)
           a == Append(q, m)
<1>1. /\ DOMAIN q = 1 .. n /\ n \in Nat
      /\ DOMAIN a = 1 .. (n + 1)
      /\ \A i \in 1 .. n : a[i] = q[i]
      /\ a[n + 1] = m
  BY AppendIndices
<1> HIDE DEF n, a
<1>2. \A i : i \in 1 .. (n + 1) <=> i \in 1 .. n \/ i = n + 1
  BY <1>1
<1>3. /\ Greetings(a) = Greetings(q) \cup (IF m.type = "welcome" THEN {m.pid} ELSE {})
      /\ Dropped(a) = Dropped(q) \cup (IF m.type = "delete" THEN {m.pid} ELSE {})
  BY <1>1, <1>2 DEF Greetings, Dropped
<1> QED BY <1>3 DEF a

LEMMA TailNames ==
  ASSUME NEW S, NEW q \in Seq(S), q # <<>>
  PROVE  /\ Greetings(q) = Greetings(Tail(q)) \cup (IF Head(q).type = "welcome" THEN {Head(q).pid} ELSE {})
         /\ Dropped(q) = Dropped(Tail(q)) \cup (IF Head(q).type = "delete" THEN {Head(q).pid} ELSE {})
<1> DEFINE n == Len(q)
           h == Head(q)
           t == Tail(q)
<1>1. /\ DOMAIN q = 1 .. n /\ n \in Nat \ {0} /\ h = q[1]
      /\ DOMAIN t = 1 .. (n - 1)
      /\ \A i \in 1 .. (n - 1) : t[i] = q[i + 1]
      /\ \A i \in 2 .. n : i - 1 \in 1 .. (n - 1) /\ t[i - 1] = q[i]
  BY TailIndices
<1> HIDE DEF n, h, t
<1>2. \A i \in 1 .. n : i = 1 \/ i \in 2 .. n
  BY <1>1
<1>3. \A i \in 1 .. (n - 1) : i + 1 \in 1 .. n
  BY <1>1
<1>4. 1 \in 1 .. n
  BY <1>1
<1>5. ASSUME NEW f, NEW i \in DOMAIN q, q[i].type = f
      PROVE  (h.type = f /\ q[i].pid = h.pid) \/ \E j \in DOMAIN t : t[j].type = f /\ t[j].pid = q[i].pid
  <2>1. CASE i = 1
    BY <2>1, <1>5, <1>1
  <2>2. CASE i \in 2 .. n
    BY <2>2, <1>5, <1>1
  <2> QED BY <2>1, <2>2, <1>2, <1>1
<1>6. ASSUME NEW j \in DOMAIN t PROVE j + 1 \in DOMAIN q /\ q[j + 1] = t[j]
  BY <1>1, <1>3
<1>7. 1 \in DOMAIN q
  BY <1>1
<1>8. Greetings(q) = Greetings(t) \cup (IF h.type = "welcome" THEN {h.pid} ELSE {})
  <2>1. ASSUME NEW p \in Greetings(q) PROVE p \in Greetings(t) \/ (h.type = "welcome" /\ p = h.pid)
    <3>1. PICK i \in DOMAIN q : q[i].type = "welcome" /\ p = q[i].pid
      BY <2>1, Named
    <3>2. CASE h.type = "welcome" /\ q[i].pid = h.pid
      BY <3>1, <3>2
    <3>3. CASE \E j \in DOMAIN t : t[j].type = "welcome" /\ t[j].pid = q[i].pid
      BY <3>1, <3>3, Named
    <3> QED BY <3>1, <3>2, <3>3, <1>5
  <2>2. ASSUME NEW p \in Greetings(t) PROVE p \in Greetings(q)
    <3>1. PICK j \in DOMAIN t : t[j].type = "welcome" /\ p = t[j].pid
      BY <2>2, Named
    <3>2. j + 1 \in DOMAIN q /\ q[j + 1].type = "welcome" /\ p = q[j + 1].pid
      BY <3>1, <1>6
    <3> QED BY <3>2, Named
  <2>3. h.type = "welcome" => h.pid \in Greetings(q)
    BY <1>1, <1>7, Named
  <2> QED BY <2>1, <2>2, <2>3
<1>9. Dropped(q) = Dropped(t) \cup (IF h.type = "delete" THEN {h.pid} ELSE {})
  <2>1. ASSUME NEW p \in Dropped(q) PROVE p \in Dropped(t) \/ (h.type = "delete" /\ p = h.pid)
    <3>1. PICK i \in DOMAIN q : q[i].type = "delete" /\ p = q[i].pid
      BY <2>1, Named
    <3>2. CASE h.type = "delete" /\ q[i].pid = h.pid
      BY <3>1, <3>2
    <3>3. CASE \E j \in DOMAIN t : t[j].type = "delete" /\ t[j].pid = q[i].pid
      BY <3>1, <3>3, Named
    <3> QED BY <3>1, <3>2, <3>3, <1>5
  <2>2. ASSUME NEW p \in Dropped(t) PROVE p \in Dropped(q)
    <3>1. PICK j \in DOMAIN t : t[j].type = "delete" /\ p = t[j].pid
      BY <2>2, Named
    <3>2. j + 1 \in DOMAIN q /\ q[j + 1].type = "delete" /\ p = q[j + 1].pid
      BY <3>1, <1>6
    <3> QED BY <3>2, Named
  <2>3. h.type = "delete" => h.pid \in Dropped(q)
    BY <1>1, <1>7, Named
  <2> QED BY <2>1, <2>2, <2>3
<1> QED BY <1>8, <1>9 DEF h, t

\* a packet the server may send keeps the order
LEMMA AppendOrdered ==
  ASSUME NEW S, NEW q \in Seq(S), NEW m \in S, NEW g \in BOOLEAN, Ordered(q, g),
         m.type = "welcome" => ~g /\ Greetings(q) = {},
         m.type = "new" => g \/ Greetings(q) # {}
  PROVE  Ordered(Append(q, m), g)
<1> DEFINE n == Len(q)
           a == Append(q, m)
<1>1. /\ DOMAIN q = 1 .. n /\ n \in Nat
      /\ DOMAIN a = 1 .. (n + 1)
      /\ \A i \in 1 .. n : a[i] = q[i]
      /\ a[n + 1] = m
  BY AppendIndices
<1>2. Greetings(a) = Greetings(q) \cup (IF m.type = "welcome" THEN {m.pid} ELSE {})
  BY AppendNames
<1> HIDE DEF n, a
<1>3. \A i \in 1 .. (n + 1) : (i \in 1 .. n /\ a[i] = q[i]) \/ (i = n + 1 /\ a[i] = m)
  BY <1>1
<1>4. (\E j \in 1 .. n : q[j].type = "welcome") <=> Greetings(q) # {}
  BY <1>1 DEF Greetings
<1>5. \A i, j \in DOMAIN a : a[i].type = "welcome" /\ a[j].type = "welcome" => i = j
  BY <1>1, <1>3, <1>4 DEF Ordered
<1>6. g => Greetings(a) = {}
  BY <1>2 DEF Ordered
<1>7. ASSUME NEW i \in DOMAIN a, a[i].type = "new", ~g
      PROVE  \E j \in DOMAIN a : j < i /\ a[j].type = "welcome"
  <2>1. CASE i \in 1 .. n /\ a[i] = q[i]
    <3>1. PICK j \in 1 .. n : j < i /\ q[j].type = "welcome"
      BY <2>1, <1>1, <1>7 DEF Ordered
    <3>2. j \in DOMAIN a /\ a[j].type = "welcome"
      BY <3>1, <1>1
    <3> QED BY <3>1, <3>2
  <2>2. CASE i = n + 1 /\ a[i] = m
    <3>1. PICK j \in 1 .. n : q[j].type = "welcome"
      BY <2>2, <1>4, <1>7
    <3>2. j \in DOMAIN a /\ a[j].type = "welcome" /\ j < i
      BY <3>1, <2>2, <1>1
    <3> QED BY <3>2
  <2> QED BY <2>1, <2>2, <1>1, <1>3
<1>8. Ordered(a, g)
  BY <1>5, <1>6, <1>7 DEF Ordered
<1> QED BY <1>8 DEF a

\* and so does reading one
LEMMA TailOrdered ==
  ASSUME NEW S, NEW q \in Seq(S), q # <<>>, NEW g \in BOOLEAN, Ordered(q, g)
  PROVE  /\ Ordered(Tail(q), g \/ Head(q).type = "welcome")
         /\ Head(q).type = "welcome" => ~g /\ Greetings(Tail(q)) = {}
         /\ Head(q).type = "new" => g
<1> DEFINE n == Len(q)
           h == Head(q)
           t == Tail(q)
<1>1. /\ DOMAIN q = 1 .. n /\ n \in Nat \ {0} /\ h = q[1]
      /\ DOMAIN t = 1 .. (n - 1)
      /\ \A i \in 1 .. (n - 1) : t[i] = q[i + 1]
      /\ \A i \in 2 .. n : i - 1 \in 1 .. (n - 1) /\ t[i - 1] = q[i]
  BY TailIndices
<1>2. Greetings(q) = Greetings(t) \cup (IF h.type = "welcome" THEN {h.pid} ELSE {})
  BY TailNames
<1> HIDE DEF n, h, t
<1>3. \A i \in 1 .. (n - 1) : i + 1 \in 1 .. n /\ i + 1 \in 2 .. n /\ i + 1 > 1
  BY <1>1
<1>4. 1 \in 1 .. n
  BY <1>1
<1>5. ASSUME h.type = "welcome" PROVE Greetings(t) = {}
  <2>1. ASSUME NEW j \in DOMAIN t, t[j].type = "welcome" PROVE FALSE
    <3>1. /\ j + 1 \in DOMAIN q /\ q[j + 1].type = "welcome"
          /\ 1 \in DOMAIN q /\ q[1].type = "welcome" /\ j + 1 # 1
      BY <1>1, <1>3, <1>4, <1>5, <2>1
    <3> QED BY <3>1 DEF Ordered
  <2> QED BY <2>1 DEF Greetings
<1>6. h.type = "new" => g
  BY <1>1, <1>4 DEF Ordered
<1>7. h.type = "welcome" => ~g
  BY <1>2 DEF Ordered
<1>8. ASSUME NEW i \in DOMAIN t, NEW j \in DOMAIN t, t[i].type = "welcome", t[j].type = "welcome"
      PROVE  i = j
  <2>1. i + 1 = j + 1
    BY <1>1, <1>3, <1>8 DEF Ordered
  <2> QED BY <2>1, <1>1
<1>9. ASSUME NEW i \in DOMAIN t, t[i].type = "new", ~g, h.type # "welcome"
      PROVE  \E j \in DOMAIN t : j < i /\ t[j].type = "welcome"
  <2>1. i + 1 \in DOMAIN q /\ q[i + 1].type = "new"
    BY <1>1, <1>3, <1>9
  <2>2. PICK j \in DOMAIN q : j < i + 1 /\ q[j].type = "welcome"
    BY <2>1, <1>9 DEF Ordered
  <2>3. j # 1 /\ j \in 2 .. n
    BY <2>2, <1>1, <1>9
  <2>4. j - 1 \in DOMAIN t /\ t[j - 1].type = "welcome" /\ j - 1 < i
    BY <2>2, <2>3, <1>1
  <2> QED BY <2>4
<1>10. Ordered(t, g \/ h.type = "welcome")
  BY <1>2, <1>5, <1>8, <1>9 DEF Ordered
<1> QED BY <1>5, <1>6, <1>7, <1>10 DEF t, h

\* before the welcome nobody is added
LEMMA NotGreeted ==
  ASSUME NEW S, NEW q \in Seq(S), Ordered(q, FALSE), Greetings(q) = {}, NEW R
  PROVE  After(q, R) \subseteq R
<1>1. \A i \in DOMAIN q : q[i].type # "welcome"
  BY Named
<1>3. \A i \in DOMAIN q : q[i].type # "new"
  BY <1>1 DEF Ordered
<1>2. \A p : \A i \in DOMAIN q : ~Adds(q[i], p)
  BY <1>1, <1>3 DEF Adds
<1> QED BY <1>2 DEF After

-------------------------------------------------------------------------------
(* The table of the server's clients. *)

LEMMA AppendFacts ==
  ASSUME NEW S, NEW q \in Seq(S), Once(q), NEW x \in S, x \notin Elems(q)
  PROVE  Append(q, x) \in Seq(S) /\ Once(Append(q, x)) /\ Elems(Append(q, x)) = Elems(q) \cup {x}
<1>1. Append(q, x) \in Seq(S) /\ DOMAIN Append(q, x) = 1 .. Len(q) + 1
  OBVIOUS
<1>2. \A i \in 1 .. Len(q) : Append(q, x)[i] = q[i] /\ q[i] \in Elems(q)
  BY DEF Elems
<1>3. Append(q, x)[Len(q) + 1] = x
  OBVIOUS
<1>4. Elems(Append(q, x)) = Elems(q) \cup {x}
  BY <1>1, <1>2, <1>3 DEF Elems
<1>5. Once(Append(q, x))
  BY <1>1, <1>2, <1>3 DEF Once
<1> QED BY <1>1, <1>4, <1>5

LEMMA WithoutFacts ==
  ASSUME NEW S, NEW q \in Seq(S), Once(q), NEW k \in DOMAIN q
  PROVE  /\ Without(q, k) \in Seq(S)
         /\ Once(Without(q, k))
         /\ Elems(Without(q, k)) = Elems(q) \ {q[k]}
<1> DEFINE w == Without(q, k)
<1>1. /\ Len(q) \in Nat \ {0} /\ DOMAIN q = 1 .. Len(q) /\ k \in 1 .. Len(q)
      /\ \A i \in 1 .. Len(q) : q[i] \in S
  OBVIOUS
<1>2. /\ DOMAIN w = 1 .. Len(q) - 1
      /\ \A i \in 1 .. Len(q) - 1 : w[i] = IF i < k THEN q[i] ELSE q[i + 1]
  BY DEF Without
<1>3. w \in Seq(S)
  <2>1. w \in [1 .. Len(q) - 1 -> S]
    BY <1>1 DEF Without
  <2>2. Len(q) - 1 \in Nat
    BY <1>1
  <2> QED BY <2>1, <2>2
<1>4. Elems(w) \subseteq Elems(q) \ {q[k]}
  BY <1>1, <1>2 DEF Elems, Once
<1>5. ASSUME NEW i \in 1 .. Len(q), i # k PROVE q[i] \in Elems(w)
  <2>1. CASE i < k
    BY <2>1, <1>1, <1>2 DEF Elems
  <2>2. CASE i > k
    <3>1. i - 1 \in 1 .. Len(q) - 1 /\ w[i - 1] = q[i]
      BY <2>2, <1>1, <1>2
    <3> QED BY <3>1, <1>2 DEF Elems
  <2> QED BY <2>1, <2>2, <1>1, <1>5
<1>6. Elems(q) \ {q[k]} \subseteq Elems(w)
  BY <1>1, <1>5 DEF Elems
<1>7. Once(w)
  BY <1>1, <1>2 DEF Once
<1> QED BY <1>3, <1>4, <1>6, <1>7

-------------------------------------------------------------------------------
(* How many connections and players there can be. *)

LEMMA Times == ASSUME NEW a \in Nat, NEW b \in Nat, NEW n \in Nat, a <= b PROVE a * n <= b * n
<1>1. PICK d \in Nat : b = a + d
  <2>1. b - a \in Nat /\ b = a + (b - a)
    OBVIOUS
  <2> QED BY <2>1
<1>2. b * n = a * n + d * n /\ d * n \in Nat /\ a * n \in Nat
  BY <1>1
<1> QED BY <1>2

LEMMA ConnsFacts ==
  /\ Cardinality(Clients) \in Nat /\ MaxFaults * Cardinality(Clients) \in Nat
  /\ Conns \subseteq Nat \ {0} /\ IsFiniteSet(Conns)
  /\ \A k \in Nat : k # 0 /\ k <= MaxJoins + MaxFaults * Cardinality(Clients) => k \in Conns
  /\ NoConn \notin Conns
<1>1. Cardinality(Clients) \in Nat
  BY BoundAssumption, FS_CardinalityType
<1>2. MaxFaults * Cardinality(Clients) \in Nat
  BY <1>1, BoundAssumption
<1>3. IsFiniteSet(Conns)
  BY <1>2, BoundAssumption, FS_Interval DEF Conns
<1> DEFINE top == MaxJoins + MaxFaults * Cardinality(Clients)
<1>4. top \in Nat /\ Conns = 1 .. top
  BY <1>2, BoundAssumption DEF Conns
<1> HIDE DEF top
<1>5. Conns \subseteq Nat \ {0} /\ (\A k \in Nat : k # 0 /\ k <= top => k \in Conns) /\ NoConn \notin Conns
  BY <1>4 DEF NoConn
<1> QED BY <1>1, <1>2, <1>3, <1>5 DEF top

\* what the counters say together
LEMMA Room ==
  ASSUME Typed, Counted
  PROVE  /\ Cardinality(CutOff) \in Nat /\ IsFiniteSet(CutOff)
         /\ Cardinality(Spent) \in Nat /\ IsFiniteSet(Spent) /\ Cardinality(Spent) <= used
         /\ used + Cardinality(CutOff) <= MaxJoins + MaxFaults * Cardinality(Clients)
         /\ joins < MaxJoins => used + 1 \in Conns
         /\ CutOff # {} => used + 1 \in Conns
         /\ used \in Nat /\ 1 .. used \subseteq Conns
<1>1. CutOff \subseteq Clients /\ Spent \subseteq 1 .. used /\ used \in Nat
  BY DEF CutOff, Spent, Typed, TypeOK
<1>2. Cardinality(CutOff) \in Nat /\ IsFiniteSet(CutOff)
  BY <1>1, BoundAssumption, FS_Subset, FS_CardinalityType
<1>3. IsFiniteSet(1 .. used) /\ Cardinality(1 .. used) = used
  BY <1>1, FS_Interval
<1>4. Cardinality(Spent) \in Nat /\ IsFiniteSet(Spent) /\ Cardinality(Spent) <= used
  BY <1>1, <1>3, FS_Subset, FS_CardinalityType
<1>5. /\ joins \in Nat /\ joins <= MaxJoins /\ faults \in Nat /\ faults <= MaxFaults
      /\ MaxJoins \in Nat /\ MaxFaults \in Nat /\ Cardinality(Clients) \in Nat
  BY BoundAssumption, ConnsFacts DEF Typed, TypeOK
<1>6. faults * Cardinality(Clients) <= MaxFaults * Cardinality(Clients)
  BY <1>5, Times
<1> DEFINE f == faults * Cardinality(Clients)
           m == MaxFaults * Cardinality(Clients)
           x == Cardinality(CutOff)
<1>7. f \in Nat /\ m \in Nat
  BY <1>5
<1>8. used + x <= joins + f /\ x \in Nat /\ f <= m
  BY <1>2, <1>6 DEF Counted
<1>9. \A k \in Nat : k # 0 /\ k <= MaxJoins + m => k \in Conns
  BY ConnsFacts
<1> HIDE DEF f, m, x
<1>10. used + x <= MaxJoins + m /\ used <= MaxJoins + m
  BY <1>1, <1>5, <1>7, <1>8
<1>11. joins < MaxJoins => used + 1 \in Conns
  BY <1>1, <1>5, <1>7, <1>8, <1>9
<1>12. CutOff # {} => used + 1 \in Conns
  <2>1. CutOff # {} => x # 0
    BY <1>2, FS_EmptySet DEF x
  <2> QED BY <2>1, <1>1, <1>5, <1>7, <1>8, <1>9, <1>10
<1>13. 1 .. used \subseteq Conns
  BY <1>1, <1>5, <1>7, <1>9, <1>10
<1> QED BY <1>1, <1>2, <1>4, <1>10, <1>11, <1>12, <1>13 DEF x, m

\* nothing is counted, nobody is cut off and no CONNECT comes back
LEMMA CountKept ==
  ASSUME Typed, Typed', Counted, UNCHANGED <<used, joins, faults, player_id_seq>>,
         CutOff' \subseteq CutOff, Spent \subseteq Spent'
  PROVE  Counted'
<1>1. /\ Cardinality(CutOff) \in Nat /\ IsFiniteSet(CutOff) /\ used \in Nat
      /\ Cardinality(Spent) \in Nat
  BY Room
<1>2. Cardinality(CutOff') <= Cardinality(CutOff) /\ Cardinality(CutOff') \in Nat
  BY <1>1, FS_Subset, FS_CardinalityType
<1>3. IsFiniteSet(Spent')
  <2>1. used' = used
    OBVIOUS
  <2>2. Spent' \subseteq 1 .. used
    BY <2>1 DEF Spent
  <2>3. IsFiniteSet(1 .. used)
    BY <1>1, FS_Interval
  <2> QED BY <2>2, <2>3, FS_Subset
<1>4. Cardinality(Spent) <= Cardinality(Spent') /\ Cardinality(Spent') \in Nat
  BY <1>3, FS_Subset, FS_CardinalityType
<1> DEFINE f == faults * Cardinality(Clients)
<1>5. f \in Nat /\ f' = f /\ joins \in Nat
  BY ConnsFacts DEF Typed, TypeOK
<1>6. used + Cardinality(CutOff) <= joins + f /\ player_id_seq <= Cardinality(Spent) /\ player_id_seq \in Nat
  BY DEF Counted, Typed, TypeOK
<1> HIDE DEF f
<1>7. used' + Cardinality(CutOff') <= joins' + f' /\ player_id_seq' <= Cardinality(Spent')
  BY <1>1, <1>2, <1>4, <1>5, <1>6
<1> QED BY <1>7 DEF Counted, f

-------------------------------------------------------------------------------
LEMMA InitHolds == Init => IInv
<1> SUFFICES ASSUME Init PROVE IInv
  OBVIOUS
<1> USE DEF Init
<1>1. /\ Listed = {} /\ Elems(table) = {} /\ Once(table) /\ Joined = {}
  <2>1. \A i : ~(i \in DOMAIN <<>>)
    OBVIOUS
  <2> QED BY <2>1 DEF Listed, Elems, Once, Joined
<1>2. Typed
  <2>1. TypeOK
    BY DEF TypeOK
  <2>2. chan \in [Conns -> Seq(Packets)] /\ joins \in 0..MaxJoins /\ faults \in 0..MaxFaults
    BY BoundAssumption
  <2> QED BY <2>1, <2>2 DEF Typed
<1>3. Numbers
  BY <1>1 DEF Numbers, NoConn
<1>4. Stages
  BY <1>1 DEF Stages
<1>5. Unique
  BY DEF Unique, NoPlayer
<1>6. OwnInRoster
  BY DEF OwnInRoster
<1>7. Wires
  BY DEF Wires
<1>8. Counted
  <2>1. CutOff = {}
    BY DEF CutOff, Cut
  <2>2. Spent = {}
    BY DEF Spent
  <2>3. Cardinality(CutOff) = 0 /\ Cardinality(Spent) = 0 /\ Cardinality(Clients) \in Nat
    BY <2>1, <2>2, FS_EmptySet, ConnsFacts
  <2> QED BY <2>3 DEF Counted
<1> QED BY <1>2, <1>3, <1>4, <1>5, <1>6, <1>7, <1>8 DEF IInv

-------------------------------------------------------------------------------
(* The steps of a client. *)

\* a step that is c's alone
Alone(c) ==
  /\ UNCHANGED <<mode, table, pidOf, player_id_seq, faults>>
  /\ \A d \in Clients \ {c} :
       /\ net'[d] = net[d] /\ phase'[d] = phase[d] /\ screen'[d] = screen[d]
       /\ roster'[d] = roster[d] /\ own'[d] = own[d] /\ kept'[d] = kept[d]
       /\ net[d] # NoConn => chan'[net[d]] = chan[net[d]]

LEMMA OtherWires ==
  ASSUME IInv, NEW c \in Clients, Alone(c), NEW d \in Clients \ {c}, net'[d] # NoConn
  PROVE  Wire(d, chan[net[d]])'
<1>1. Wire(d, chan[net[d]]) /\ net'[d] = net[d] /\ chan'[net[d]] = chan[net[d]]
  BY DEF IInv, Wires, Alone
<1>2. /\ phase'[d] = phase[d] /\ screen'[d] = screen[d]
      /\ roster'[d] = roster[d] /\ own'[d] = own[d] /\ kept'[d] = kept[d]
      /\ UNCHANGED <<table, pidOf, player_id_seq>>
  BY DEF Alone
<1>3. Listed' = Listed /\ Joined' = Joined /\ Players' = Players
  BY <1>2 DEF Listed, Joined, Players
<1>4. Roster(d)' = Roster(d)
  BY <1>1, <1>2 DEF Roster
<1> QED BY <1>1, <1>2, <1>3, <1>4 DEF Wire

\* nobody else is cut off
LEMMA OtherCut ==
  ASSUME IInv, NEW c \in Clients, Alone(c), NEW d \in Clients \ {c}, Cut(d)' PROVE Cut(d)
<1>1. /\ net'[d] = net[d] /\ (net[d] # NoConn => chan'[net[d]] = chan[net[d]])
      /\ phase'[d] = phase[d] /\ screen'[d] = screen[d] /\ mode' = mode /\ table' = table
  BY DEF Alone
<1>2. Listed' = Listed
  BY <1>1 DEF Listed
<1> QED BY <1>1, <1>2 DEF Cut

LEMMA AloneSame == ASSUME NEW c \in Clients, Alone(c)
                   PROVE  Listed' = Listed /\ Joined' = Joined /\ Players' = Players /\ mode' = mode
<1>1. table' = table /\ pidOf' = pidOf /\ mode' = mode
  BY DEF Alone
<1> QED BY <1>1 DEF Listed, Joined, Players

LEMMA AloneUnique == ASSUME IInv, NEW c \in Clients, Alone(c) PROVE Unique'
<1>1. Unique /\ pidOf' = pidOf /\ player_id_seq' = player_id_seq
  BY DEF IInv, Alone
<1> QED BY <1>1 DEF Unique

\* a client that is left without a connection
LEMMA StepGone ==
  ASSUME IInv, NEW c \in Clients, Typed', Alone(c),
         net'[c] = NoConn, phase'[c] = "idle", own'[c] = NoPlayer, roster'[c] \subseteq kept'[c],
         \A k \in Conns : chan'[k] = chan[k] \/ (k = net[c] /\ chan'[k] = <<>>),
         UNCHANGED <<backlog, requests, pings, replies, used, joins>>
  PROVE  IInv'
<1> USE DEF IInv
<1>1. /\ Listed' = Listed /\ mode' = mode /\ table' = table /\ pidOf' = pidOf
      /\ player_id_seq' = player_id_seq /\ faults' = faults
      /\ backlog' = backlog /\ requests' = requests /\ pings' = pings /\ replies' = replies
      /\ used' = used /\ joins' = joins
  BY AloneSame DEF Alone
<1>2. Numbers'
  <2>1. \A d \in Clients \ {c} : net'[d] = net[d] /\ phase'[d] = phase[d]
    BY DEF Alone
  <2>2. \A k \in Conns : k > used => chan'[k] = <<>>
    BY DEF Numbers
  <2>3. 0 <= used
    BY DEF Typed, TypeOK
  <2> QED BY <1>1, <2>1, <2>2, <2>3 DEF Numbers, NoConn
<1>3. Stages'
  <2>1. \A d \in Clients \ {c} : (net[d] # NoConn => chan'[net[d]] = chan[net[d]]) /\ UNCHANGED <<net[d], phase[d], own[d], roster[d], kept[d], screen[d]>>
    BY DEF Alone
  <2>2. \A k \in Conns : chan[k] = <<>> => chan'[k] = <<>>
    OBVIOUS
  <2>3. \A d \in Clients : phase[d] = "connecting" => net[d] # NoConn
    BY DEF Numbers
  <2>4. backlog \subseteq Conns
    BY DEF Typed, TypeOK
  <2> QED BY <1>1, <2>1, <2>2, <2>3, <2>4 DEF Stages
<1>4. Unique'
  BY AloneUnique
<1>5. OwnInRoster'
  BY DEF OwnInRoster, Alone
<1>6. Wires'
  BY OtherWires DEF Wires
<1>7. Counted'
  <2>1. CutOff' \subseteq CutOff
    <3>1. ~Cut(c)'
      BY DEF Cut
    <3>2. \A d \in Clients : Cut(d)' => Cut(d)
      BY <3>1, OtherCut
    <3> QED BY <3>2 DEF CutOff
  <2>2. Spent \subseteq Spent'
    <3>1. \A d \in Clients \ {c} : net'[d] = net[d] /\ phase'[d] = phase[d]
      BY DEF Alone
    <3>2. \A k \in 1 .. used : k # NoConn
      BY DEF NoConn, Typed, TypeOK
    <3> QED BY <1>1, <3>1, <3>2 DEF Spent
  <2> QED BY <2>1, <2>2, <1>1, CountKept
<1> QED BY <1>2, <1>3, <1>4, <1>5, <1>6, <1>7

LEMMA StepTcpError == ASSUME IInv, NEW c \in Clients, tcp_error(c) PROVE IInv'
<1> USE DEF IInv, tcp_error, serverVars
<1>1. Typed'
  <2>1. TypeOK'
    BY DEF Typed, TypeOK
  <2>2. chan' \in [Conns -> Seq(Packets)]
    BY DEF Typed
  <2> QED BY <2>1, <2>2 DEF Typed
<1>2. Alone(c)
  <2>1. \A d \in Clients \ {c} : net[d] # NoConn => net[d] \in Conns /\ net[d] # net[c]
    BY DEF Typed, TypeOK, Numbers
  <2> QED BY <2>1 DEF Alone, Typed, TypeOK
<1>3. own'[c] = NoPlayer /\ roster'[c] \subseteq kept'[c]
  BY DEF Stages
<1>4. net'[c] = NoConn /\ phase'[c] = "idle"
  BY DEF Typed, TypeOK
<1> QED BY <1>1, <1>2, <1>3, <1>4, StepGone

\* a client back in the menu
LEMMA StepCleanup ==
  ASSUME IInv, NEW c \in Clients, game_cleanup(c),
         UNCHANGED <<serverVars, pings, replies, saved, used, joins, faults>>
  PROVE  IInv'
<1> USE DEF IInv, game_cleanup, serverVars
<1>1. Typed'
  <2>1. TypeOK'
    BY DEF Typed, TypeOK
  <2>2. chan' \in [Conns -> Seq(Packets)]
    BY DEF Typed
  <2> QED BY <2>1, <2>2 DEF Typed
<1>2. Alone(c)
  <2>1. \A d \in Clients \ {c} : net[d] # NoConn => net[d] \in Conns /\ net[d] # net[c]
    BY DEF Typed, TypeOK, Numbers
  <2> QED BY <2>1 DEF Alone, Typed, TypeOK
<1>3. own'[c] = NoPlayer /\ roster'[c] \subseteq kept'[c] /\ net'[c] = NoConn /\ phase'[c] = "idle"
  BY DEF Typed, TypeOK
<1> QED BY <1>1, <1>2, <1>3, StepGone

LEMMA StepLeaveGame == ASSUME IInv, NEW c \in Clients, LeaveGame(c) PROVE IInv'
  BY StepCleanup DEF LeaveGame

LEMMA StepServerShutdown == ASSUME IInv, NEW c \in Clients, game_server_shutdown(c) PROVE IInv'
  BY StepCleanup DEF game_server_shutdown

LEMMA StepPing == ASSUME IInv, NEW c \in Clients, client_net_ping_server(c) PROVE IInv'
<1> USE DEF IInv, client_net_ping_server, serverVars, clientVars
<1>0. net[c] \in Conns /\ net[c] # NoConn /\ net[c] <= used /\ phase[c] = "ready"
  BY DEF Typed, TypeOK, Numbers
<1>1. Typed'
  <2>1. TypeOK'
    BY <1>0 DEF Typed, TypeOK
  <2> QED BY <2>1 DEF Typed
<1>2. Alone(c)
  BY DEF Alone
<1>a. Listed' = Listed /\ mode' = mode
  BY <1>2, AloneSame
<1>3. Numbers'
  <2>1. \A k \in Conns : k > used => k # net[c]
    BY <1>0, ConnsFacts DEF Typed, TypeOK
  <2> QED BY <1>a, <1>0, <2>1 DEF Numbers
<1>4. Stages'
  <2>1. net[c] \notin backlog
    BY <1>0 DEF Stages
  <2>2. \A d \in Clients : phase[d] = "connecting" => net[d] # net[c]
    BY <1>0 DEF Numbers
  <2> QED BY <1>a, <2>1, <2>2 DEF Stages
<1>5. Unique' /\ OwnInRoster'
  BY <1>2, AloneUnique DEF OwnInRoster
<1>6. Wires'
  <2>1. \A d \in Clients : Wire(d, chan[net[d]])' <=> Wire(d, chan[net[d]])
    BY DEF Wire, Roster, Listed, Joined, Players
  <2> QED BY <2>1 DEF Wires
<1>7. Counted'
  <2>1. CutOff' = CutOff /\ Spent' = Spent
    BY DEF CutOff, Cut, Spent, Listed
  <2> QED BY <2>1, <1>1, CountKept
<1> QED BY <1>1, <1>3, <1>4, <1>5, <1>6, <1>7

LEMMA StepHandshake == ASSUME IInv, NEW c \in Clients, Handshake(c) PROVE IInv'
<1> USE DEF IInv, Handshake, wireVars
<1>0. /\ net[c] \in Conns /\ net[c] # NoConn /\ net[c] <= used
      /\ phase[c] = "connecting" /\ phase'[c] = "made" /\ backlog' = backlog \cup {net[c]}
      /\ \A d \in Clients \ {c} : phase'[d] = phase[d]
      /\ net[c] \notin backlog \cup Listed \cup requests \cup pings /\ chan[net[c]] = <<>>
  BY DEF Typed, TypeOK, Numbers, Stages
<1>1. Typed'
  <2>1. TypeOK'
    BY <1>0 DEF Typed, TypeOK
  <2> QED BY <2>1 DEF Typed
<1>2. Alone(c)
  BY <1>0 DEF Alone
<1>a. Listed' = Listed /\ mode' = mode /\ mode # "down"
  BY <1>2, AloneSame
<1>3. Numbers'
  <2>1. \A k \in Conns : k > used => k # net[c]
    BY <1>0, ConnsFacts DEF Typed, TypeOK
  <2>2. \A d \in Clients : phase'[d] = "idle" <=> phase[d] = "idle"
    BY <1>0
  <2> QED BY <1>a, <1>0, <2>1, <2>2 DEF Numbers
<1>4. Stages'
  <2>1. \A d \in Clients \ {c} : phase[d] # "idle" => net[d] # net[c]
    BY <1>0 DEF Numbers
  <2>2. pidOf[net[c]] = NoPlayer
    BY <1>0 DEF Stages
  <2> QED BY <1>a, <1>0, <2>1, <2>2 DEF Stages
<1>5. Unique' /\ OwnInRoster'
  BY <1>2, AloneUnique DEF OwnInRoster
<1>6. Wires'
  <2>1. Wire(c, chan[net[c]])'
    <3>1. /\ Listed' = Listed /\ net' = net /\ chan' = chan /\ own' = own
          /\ roster' = roster /\ kept' = kept /\ screen' = screen
      BY <1>a
    <3>2. Greetings(chan[net[c]]) = {} /\ Dropped(chan[net[c]]) = {} /\ Ordered(chan[net[c]], FALSE)
      BY <1>0, EmptyQueue
    <3>3. net[c] \notin Listed /\ Joined' = Joined /\ Joined \subseteq Listed
      BY <1>0, <1>2, AloneSame DEF Joined
    <3> QED BY <1>0, <3>1, <3>2, <3>3 DEF Wire
  <2> QED BY <1>2, <2>1, OtherWires DEF Wires
<1>7. Counted'
  <2>1. CutOff' \subseteq CutOff
    <3>1. ~Cut(c)'
      <4>1. Greetings(chan[net[c]]) = {} /\ net' = net /\ chan' = chan /\ phase'[c] = "made"
        BY <1>0, EmptyQueue
      <4> QED BY <4>1 DEF Cut
    <3> QED BY <3>1, <1>2, OtherCut DEF CutOff
  <2>2. Spent \subseteq Spent'
    BY <1>0 DEF Spent
  <2> QED BY <2>1, <2>2, <1>1, CountKept
<1> QED BY <1>1, <1>3, <1>4, <1>5, <1>6, <1>7

LEMMA StepWriteConnect == ASSUME IInv, NEW c \in Clients, tcp_write_connect(c) PROVE IInv'
<1> USE DEF IInv, tcp_write_connect, wireVars
<1>0. /\ net[c] \in Conns /\ net[c] # NoConn /\ net[c] <= used /\ phase[c] = "made"
      /\ net[c] \notin requests /\ pidOf[net[c]] = NoPlayer
      /\ net' = net /\ chan' = chan /\ own' = own /\ roster' = roster /\ kept' = kept
      /\ backlog' = backlog /\ table' = table /\ pidOf' = pidOf /\ mode' = mode
      /\ pings' = pings /\ replies' = replies /\ used' = used
  BY DEF Typed, TypeOK, Numbers, Stages
<1>b. \/ /\ phase'[c] = "connected" /\ requests' = requests \cup ({net[c]} \cap (backlog \cup Listed))
         /\ screen' = screen /\ \A d \in Clients \ {c} : phase'[d] = phase[d]
      \/ /\ phase' = phase /\ requests' = requests /\ screen'[c] = "crashed"
         /\ \A d \in Clients \ {c} : screen'[d] = screen[d]
  BY DEF Typed, TypeOK
<1>1. Typed'
  <2>1. TypeOK'
    BY <1>0 DEF Typed, TypeOK
  <2> QED BY <2>1 DEF Typed
<1>2. Alone(c)
  BY <1>0, <1>b DEF Alone
<1>a. Listed' = Listed /\ Joined' = Joined /\ Players' = Players
  BY <1>2, AloneSame
<1>3. Numbers'
  <2>1. \A k \in Conns : k > used => k # net[c]
    BY <1>0, ConnsFacts DEF Typed, TypeOK
  <2>2. \A d \in Clients : phase'[d] = "idle" <=> phase[d] = "idle"
    BY <1>0, <1>b
  <2> QED BY <1>a, <1>0, <1>b, <2>1, <2>2 DEF Numbers
<1>4. Stages'
  <2>1. \A d \in Clients \ {c} : phase[d] # "idle" => net[d] # net[c]
    BY <1>0 DEF Numbers
  <2>2. \A d \in Clients \ {c} : phase'[d] = phase[d] /\ screen'[d] = screen[d]
    BY <1>b
  <2>3. phase'[c] \in {"made", "connected"} /\ requests' \subseteq requests \cup {net[c]}
    BY <1>b, <1>0
  <2>4. phase'[c] = "made" => requests' = requests
    BY <1>b
  <2>5. \A k \in Conns : pidOf[k] # NoPlayer => k \in Listed \ requests'
    BY <1>0, <2>3 DEF Stages
  <2>6. \A d \in Clients \ {c} :
          /\ phase'[d] = "connecting" =>
               net[d] \notin backlog \cup Listed \cup requests' \cup pings /\ chan[net[d]] = <<>>
          /\ phase'[d] = "made" => net[d] \notin requests' /\ pidOf[net[d]] = NoPlayer
    BY <2>1, <2>2, <2>3 DEF Stages
  <2>7. phase'[c] # "ready" => own[c] = NoPlayer /\ roster[c] \subseteq kept[c]
    BY <1>0 DEF Stages
  <2>8. /\ phase'[c] # "connecting" /\ phase'[c] # "ready"
        /\ phase'[c] = "made" => net[c] \notin requests' /\ pidOf[net[c]] = NoPlayer
    BY <2>3, <2>4, <1>0
  <2>9. \A d \in Clients \ {c} :
          /\ phase'[d] = "ready" => net[d] \notin backlog
          /\ phase'[d] # "ready" => own[d] = NoPlayer /\ roster[d] \subseteq kept[d]
          /\ screen'[d] = "menu" => phase'[d] # "ready"
    BY <2>2 DEF Stages
  <2> QED BY <1>a, <1>0, <2>5, <2>6, <2>7, <2>8, <2>9 DEF Stages
<1>5. Unique' /\ OwnInRoster'
  BY <1>0, <1>2, AloneUnique DEF OwnInRoster
<1>c. Greetings(chan[net[c]]) = {}
  <2>1. Wire(c, chan[net[c]])
    BY <1>0 DEF Wires
  <2> QED BY <2>1, <1>0 DEF Wire
<1>6. Wires'
  <2>1. Wire(c, chan[net[c]])'
    <3>1. Wire(c, chan[net[c]])
      BY <1>0 DEF Wires
    <3>2. Roster(c)' = Roster(c) /\ player_id_seq' = player_id_seq
      BY <1>0 DEF Roster
    <3>3. /\ phase'[c] # "ready" /\ phase[c] # "ready"
          /\ screen'[c] # "crashed" => screen[c] # "crashed"
      BY <1>0, <1>b
    <3> QED BY <1>0, <1>a, <1>c, <3>1, <3>2, <3>3 DEF Wire
  <2> QED BY <1>2, <2>1, OtherWires DEF Wires
<1>7. Counted'
  <2>1. CutOff' \subseteq CutOff
    <3>1. ~Cut(c)'
      BY <1>0, <1>b, <1>c DEF Cut
    <3> QED BY <3>1, <1>2, OtherCut DEF CutOff
  <2>2. Spent \subseteq Spent'
    BY <1>0, <1>b DEF Spent
  <2> QED BY <2>1, <2>2, <1>1, CountKept
<1> QED BY <1>1, <1>3, <1>4, <1>5, <1>6, <1>7

\* a client with a new connection
LEMMA StepFresh ==
  ASSUME IInv, NEW c \in Clients, Typed', Alone(c), used + 1 \in Conns,
         net'[c] = used + 1, phase'[c] = "connecting", used' = used + 1,
         own'[c] = NoPlayer, roster'[c] \subseteq kept'[c],
         \A k \in Conns : chan'[k] = chan[k] \/ (k = net[c] /\ chan'[k] = <<>>),
         UNCHANGED <<backlog, requests, pings, replies>>,
         used' + Cardinality(CutOff') <= joins' + faults' * Cardinality(Clients)
  PROVE  IInv'
<1> USE DEF IInv
<1> DEFINE k == used + 1
<1>1. /\ Listed' = Listed /\ mode' = mode /\ table' = table /\ pidOf' = pidOf
      /\ player_id_seq' = player_id_seq
      /\ backlog' = backlog /\ requests' = requests /\ pings' = pings /\ replies' = replies
  BY AloneSame DEF Alone
<1>2. /\ k \in Conns /\ k > used /\ k # NoConn /\ used \in Nat
      /\ net'[c] = k /\ used' = k
      /\ \A j \in Conns : j > k => j > used
      /\ \A d \in Clients : net[d] <= k /\ net[d] # k
  <2>1. used \in Nat /\ \A d \in Clients : net[d] <= used
    BY DEF Typed, TypeOK, Numbers
  <2>2. \A d \in Clients : net[d] \in Conns \cup {NoConn}
    BY DEF Typed, TypeOK
  <2>3. Conns \subseteq Nat
    BY ConnsFacts
  <2>4. \A d \in Clients : net[d] \in Nat
    <3>1. NoConn \in Nat
      BY DEF NoConn
    <3> QED BY <3>1, <2>2, <2>3, Zenon
  <2>5. k \in Nat /\ k > used /\ \A j \in Nat : j <= used => j <= k /\ j # k
    BY <2>1
  <2>6. \A j \in Conns : j > k => j > used
    BY <2>1, <2>3
  <2>7. k \in Conns /\ k # NoConn
    BY <2>1 DEF NoConn
  <2> QED BY <2>1, <2>4, <2>5, <2>6, <2>7
<1>3. /\ k \notin backlog \cup Listed \cup requests \cup pings \cup replies
      /\ chan[k] = <<>> /\ chan'[k] = <<>>
  BY <1>2 DEF Numbers
<1> HIDE DEF k
<1>4. \A d \in Clients \ {c} :
        /\ net'[d] = net[d] /\ phase'[d] = phase[d] /\ screen'[d] = screen[d]
        /\ roster'[d] = roster[d] /\ own'[d] = own[d] /\ kept'[d] = kept[d]
        /\ net[d] # NoConn => chan'[net[d]] = chan[net[d]]
  BY DEF Alone
<1>5. Numbers'
  <2>1. \A j \in Conns : j > k => chan'[j] = <<>>
    BY <1>2 DEF Numbers
  <2>2. k <= k
    BY <1>2
  <2> QED BY <1>1, <1>2, <1>3, <1>4, <2>1, <2>2 DEF Numbers
<1>6. Stages'
  <2>2. \A j \in Conns : chan[j] = <<>> => chan'[j] = <<>>
    OBVIOUS
  <2>3. \A d \in Clients : phase[d] = "connecting" => net[d] # NoConn
    BY DEF Numbers
  <2>4. backlog \subseteq Conns
    BY DEF Typed, TypeOK
  <2> QED BY <1>1, <1>2, <1>3, <1>4, <2>2, <2>3, <2>4 DEF Stages
<1>7. Unique'
  BY AloneUnique
<1>8. OwnInRoster'
  BY <1>4 DEF OwnInRoster
<1>9. Wires'
  <2>1. Wire(c, chan[net[c]])'
    <3>1. roster'[c] \in SUBSET Ids
      BY DEF Typed, TypeOK
    <3>2. /\ Greetings(<<>>) = {} /\ Dropped(<<>>) = {} /\ Ordered(<<>>, FALSE)
          /\ net'[c] \notin Listed' /\ net'[c] \notin Joined' /\ chan'[net'[c]] = <<>>
      BY EmptyQueue, <1>1, <1>2, <1>3 DEF Joined
    <3> QED BY <3>2 DEF Wire
  <2> QED BY <2>1, OtherWires DEF Wires
<1>10. Counted'
  <2>1. Spent \subseteq Spent'
    <3>1. \A j \in 1 .. used : j \in 1 .. k /\ j # k
      BY <1>2
    <3> QED BY <3>1, <1>1, <1>2, <1>4 DEF Spent
  <2>2. IsFiniteSet(Spent') /\ Cardinality(Spent) \in Nat
    <3>1. k \in Nat
      BY <1>2, ConnsFacts
    <3>2. Spent' \subseteq 1 .. k /\ IsFiniteSet(1 .. k)
      BY <3>1, <1>2, FS_Interval DEF Spent
    <3> QED BY <3>2, Room, FS_Subset
  <2>3. Cardinality(Spent) <= Cardinality(Spent') /\ Cardinality(Spent') \in Nat
    BY <2>1, <2>2, FS_Subset, FS_CardinalityType
  <2>4. player_id_seq' <= Cardinality(Spent')
    BY <1>1, <2>2, <2>3 DEF Counted, Typed, TypeOK
  <2> QED BY <2>4 DEF Counted
<1> QED BY <1>5, <1>6, <1>7, <1>8, <1>9, <1>10

LEMMA StepMainMenuConnect == ASSUME IInv, NEW c \in Clients, main_menu_connect(c) PROVE IInv'
<1> USE DEF IInv, main_menu_connect, serverVars, wireVars
<1>0. /\ used + 1 \in Conns /\ phase[c] = "idle" /\ own[c] = NoPlayer /\ roster[c] \subseteq kept[c]
      /\ used \in Nat
  BY Room DEF Numbers, Stages, Typed, TypeOK
<1>1. Typed'
  <2>1. TypeOK'
    BY <1>0 DEF Typed, TypeOK
  <2>2. joins' \in 0 .. MaxJoins
    BY BoundAssumption DEF Typed
  <2> QED BY <2>1, <2>2 DEF Typed
<1>2. Alone(c)
  BY DEF Alone, Typed, TypeOK
<1>3. net'[c] = used + 1 /\ phase'[c] = "connecting"
  BY DEF Typed, TypeOK
<1>4. used' + Cardinality(CutOff') <= joins' + faults' * Cardinality(Clients)
  <2>1. CutOff' \subseteq CutOff
    <3>1. ~Cut(c)'
      <4>1. chan'[net'[c]] = <<>>
        <5>1. used + 1 > used
          BY <1>0
        <5> QED BY <5>1, <1>0, <1>3 DEF Numbers
      <4>2. Greetings(<<>>) = {}
        BY EmptyQueue
      <4> QED BY <4>1, <4>2, <1>3 DEF Cut
    <3> QED BY <3>1, <1>2, OtherCut DEF CutOff
  <2>2. Cardinality(CutOff) \in Nat /\ Cardinality(CutOff') \in Nat /\ Cardinality(CutOff') <= Cardinality(CutOff)
    BY <2>1, Room, FS_Subset, FS_CardinalityType
  <2> DEFINE f == faults * Cardinality(Clients)
  <2>3. f \in Nat /\ f' = f /\ joins \in Nat /\ used + Cardinality(CutOff) <= joins + f
    BY ConnsFacts DEF Typed, TypeOK, Counted
  <2> HIDE DEF f
  <2>4. used' + Cardinality(CutOff') <= joins' + f'
    BY <2>2, <2>3, <1>0
  <2> QED BY <2>4 DEF f
<1>5. own'[c] = NoPlayer /\ roster'[c] \subseteq kept'[c] /\ used' = used + 1 /\ chan' = chan
  BY <1>0
<1> QED BY <1>0, <1>1, <1>2, <1>3, <1>4, <1>5, StepFresh

LEMMA StepReconnect == ASSUME IInv, NEW c \in Clients, do_reconnect(c) PROVE IInv'
<1> USE DEF IInv, do_reconnect, serverVars, wireVars, ReconnectedOwn
<1>0. /\ net[c] \in Conns /\ net[c] # NoConn /\ net[c] \notin Listed /\ c \in CutOff /\ used \in Nat
  BY DEF Typed, TypeOK, Numbers, Stages, CutOff, Cut
<1>a. used + 1 \in Conns
  BY <1>0, Room
<1>1. Typed'
  <2>1. TypeOK'
    BY <1>0, <1>a DEF Typed, TypeOK
  <2>2. chan' \in [Conns -> Seq(Packets)]
    BY <1>0 DEF Typed
  <2> QED BY <2>1, <2>2 DEF Typed
<1>2. Alone(c)
  <2>1. \A d \in Clients \ {c} : net[d] # NoConn => net[d] \in Conns /\ net[d] # net[c]
    BY DEF Typed, TypeOK, Numbers
  <2> QED BY <2>1 DEF Alone, Typed, TypeOK
<1>3. net'[c] = used + 1 /\ phase'[c] = "connecting" /\ own'[c] = NoPlayer /\ roster'[c] \subseteq kept'[c]
  BY DEF Typed, TypeOK
<1>b. \A k \in Conns : chan'[k] = chan[k] \/ (k = net[c] /\ chan'[k] = <<>>)
  BY <1>0 DEF Typed
<1>4. used' + Cardinality(CutOff') <= joins' + faults' * Cardinality(Clients)
  <2>1. CutOff' \subseteq CutOff \ {c}
    <3>1. ~Cut(c)'
      <4>1. chan'[net'[c]] = <<>>
        <5>1. used + 1 > used
          BY <1>0
        <5> QED BY <5>1, <1>0, <1>a, <1>b, <1>3 DEF Numbers
      <4>2. Greetings(<<>>) = {}
        BY EmptyQueue
      <4> QED BY <4>1, <4>2, <1>3 DEF Cut
    <3> QED BY <3>1, <1>2, OtherCut DEF CutOff
  <2>2. IsFiniteSet(CutOff) /\ Cardinality(CutOff) \in Nat
    BY Room
  <2>3. IsFiniteSet(CutOff \ {c}) /\ Cardinality(CutOff \ {c}) = Cardinality(CutOff) - 1
    BY <1>0, <2>2, FS_RemoveElement
  <2>4. Cardinality(CutOff') \in Nat /\ Cardinality(CutOff') <= Cardinality(CutOff) - 1
    BY <2>1, <2>3, FS_Subset, FS_CardinalityType
  <2> DEFINE f == faults * Cardinality(Clients)
  <2>5. f \in Nat /\ f' = f /\ joins \in Nat /\ used + Cardinality(CutOff) <= joins + f
    BY ConnsFacts DEF Typed, TypeOK, Counted
  <2> HIDE DEF f
  <2>6. used' + Cardinality(CutOff') <= joins' + f'
    BY <2>2, <2>4, <2>5, <1>0
  <2> QED BY <2>6 DEF f
<1>5. used' = used + 1
  OBVIOUS
<1> QED BY <1>0, <1>a, <1>b, <1>1, <1>2, <1>3, <1>4, <1>5, StepFresh

\* a client that read the packet at the head of its channel
LEMMA StepRead ==
  ASSUME IInv, NEW c \in Clients, Typed', Alone(c),
         net[c] \in Conns, net[c] # NoConn, NEW q \in Seq(Packets), q = chan[net[c]], q # <<>>,
         Head(q).type \in {"welcome", "new", "delete"},
         \A k \in Conns : chan'[k] = IF k = net[c] THEN Tail(q) ELSE chan[k],
         phase'[c] = IF Head(q).type = "welcome" THEN "ready" ELSE phase[c],
         own'[c] = IF Head(q).type = "welcome" THEN Head(q).pid ELSE own[c],
         screen[c] # "crashed", screen'[c] # "menu",
         \/ \A p \in Ids : p \in roster'[c] <=>
              Adds(Head(q), p) \/ (p \in roster[c] /\ ~Drops(Head(q), p))
         \/ screen'[c] = "crashed" /\ roster'[c] = roster[c] /\ Head(q).type # "welcome",
         UNCHANGED <<net, kept, backlog, requests, pings, replies, used, joins>>
  PROVE  IInv'
<1> USE DEF IInv
<1> DEFINE h == Head(q)
           t == Tail(q)
           k == net[c]
           ready == phase[c] = "ready"
<1>1. /\ Listed' = Listed /\ Joined' = Joined /\ Players' = Players
      /\ mode' = mode /\ table' = table /\ pidOf' = pidOf
      /\ player_id_seq' = player_id_seq
      /\ backlog' = backlog /\ requests' = requests /\ pings' = pings /\ replies' = replies
      /\ used' = used /\ net' = net /\ kept' = kept
  BY AloneSame DEF Alone
<1>2. \A d \in Clients \ {c} :
        /\ phase'[d] = phase[d] /\ screen'[d] = screen[d]
        /\ roster'[d] = roster[d] /\ own'[d] = own[d]
        /\ net[d] # NoConn => chan'[net[d]] = chan[net[d]]
  BY DEF Alone
<1>3. Wire(c, q) /\ chan'[k] = t /\ t \in Seq(Packets) /\ h \in Packets
  BY DEF Wires
<1>4. /\ Greetings(q) = Greetings(t) \cup (IF h.type = "welcome" THEN {h.pid} ELSE {})
      /\ Dropped(q) = Dropped(t) \cup (IF h.type = "delete" THEN {h.pid} ELSE {})
  BY TailNames
<1>5. /\ Ordered(t, ready \/ h.type = "welcome")
      /\ h.type = "welcome" => ~ready /\ Greetings(t) = {}
      /\ h.type = "new" => ready
  BY <1>3, TailOrdered DEF Wire
<1>6. screen'[c] # "crashed" => After(t, roster'[c]) = After(q, roster[c])
  BY TailAfter
<1>7. k \notin backlog
  BY DEF Stages
<1>8. h.type \in {"welcome", "new", "delete"}
  OBVIOUS
<1>9. h.type = "welcome" => h.pid \in Ids
  BY <1>3 DEF Packets
<1>10. roster[c] \subseteq Ids /\ roster'[c] \subseteq Ids /\ own[c] \in Ids \cup {NoPlayer}
  BY DEF Typed, TypeOK
<1>11. /\ phase'[c] = (IF h.type = "welcome" THEN "ready" ELSE phase[c])
       /\ own'[c] = (IF h.type = "welcome" THEN h.pid ELSE own[c])
       /\ \/ \A p \in Ids : p \in roster'[c] <=> Adds(h, p) \/ (p \in roster[c] /\ ~Drops(h, p))
          \/ screen'[c] = "crashed" /\ roster'[c] = roster[c] /\ h.type # "welcome"
  OBVIOUS
<1>a. phase[c] # "idle" /\ phase'[c] # "idle"
  BY <1>11 DEF Numbers
<1>12. \A j \in Conns : chan[j] = <<>> => chan'[j] = <<>>
  OBVIOUS
<1>13. chan[k] = q /\ q # <<>> /\ k \in Conns
  OBVIOUS
<1> HIDE DEF h, t, k
<1>14. Numbers'
  BY <1>1, <1>2, <1>12, <1>a DEF Numbers
<1>15. Stages'
  <2>1. backlog \subseteq Conns
    BY DEF Typed, TypeOK
  <2>2. \A d \in Clients : phase[d] = "connecting" => net[d] # NoConn
    BY DEF Numbers
  <2>3. \A d \in Clients \ {c} :
       /\ phase'[d] = "connecting" =>
            net[d] \notin backlog \cup Listed \cup requests \cup pings /\ chan'[net[d]] = <<>>
       /\ phase'[d] = "made" => net[d] \notin requests /\ pidOf[net[d]] = NoPlayer
       /\ phase'[d] = "ready" => net[d] \notin backlog
       /\ phase'[d] # "ready" => own'[d] = NoPlayer /\ roster'[d] \subseteq kept[d]
       /\ screen'[d] = "menu" => phase'[d] # "ready"
    BY <1>2, <2>2 DEF Stages
  <2>4. phase[c] # "connecting" /\ phase'[c] # "connecting"
    BY <1>11, <1>13 DEF Stages, k
  <2>5. phase'[c] = "made" => k \notin requests /\ pidOf[k] = NoPlayer
    BY <1>11 DEF Stages, k
  <2>6. phase'[c] # "ready" => own'[c] = NoPlayer /\ roster'[c] \subseteq kept[c]
    <3>1. SUFFICES ASSUME phase'[c] # "ready" PROVE own'[c] = NoPlayer /\ roster'[c] \subseteq kept[c]
      OBVIOUS
    <3>2. h.type = "delete" /\ phase[c] # "ready"
      BY <3>1, <1>5, <1>8, <1>11
    <3>3. roster'[c] \subseteq roster[c] /\ own'[c] = own[c]
      BY <3>2, <1>10, <1>11 DEF Adds
    <3> QED BY <3>2, <3>3 DEF Stages
  <2>7. \A j \in backlog : chan'[j] = <<>> /\ j \notin pings
    BY <1>12, <2>1 DEF Stages
  <2>8. /\ \A j \in Conns : pidOf[j] # NoPlayer => j \in Listed \ requests
        /\ \A j \in replies : j \in pings \ Listed
    BY DEF Stages
  <2> QED BY <1>1, <1>7, <2>3, <2>4, <2>5, <2>6, <2>7, <2>8 DEF Stages, k
<1>16. Unique'
  BY AloneUnique
<1>17. OwnInRoster'
  <2>1. own'[c] # NoPlayer => own'[c] \in roster'[c]
    <3>1. CASE h.type = "welcome"
      BY <3>1, <1>9, <1>11 DEF Adds
    <3>2. CASE h.type # "welcome" /\ roster'[c] = roster[c]
      BY <3>2, <1>11 DEF OwnInRoster
    <3>3. CASE h.type # "welcome" /\ \A p \in Ids : p \in roster'[c] <=> Adds(h, p) \/ (p \in roster[c] /\ ~Drops(h, p))
      <4>1. ~Drops(h, own[c])
        BY <1>3, <1>4 DEF Wire, Drops
      <4>2. own[c] # NoPlayer => own[c] \in roster[c] /\ own[c] \in Ids
        BY <1>10 DEF OwnInRoster
      <4> QED BY <3>3, <4>1, <4>2, <1>11
    <3> QED BY <3>1, <3>2, <3>3, <1>11
  <2> QED BY <2>1, <1>2 DEF OwnInRoster
<1>18. Wires'
  <2>1. Wire(c, chan[net[c]])'
    <3>1. Ordered(t, phase'[c] = "ready")
      <4>1. (phase'[c] = "ready") = (ready \/ h.type = "welcome")
        BY <1>11
      <4> QED BY <4>1, <1>5
    <3>2. Greetings(t) # {} => phase'[c] = "connected"
      BY <1>3, <1>4, <1>5, <1>11 DEF Wire
    <3>3. Dropped(t) \cap (Greetings(t) \cup {own'[c]}) = {}
      BY <1>3, <1>4, <1>11 DEF Wire
    <3>4. k \in Listed => Dropped(t) \subseteq 1 .. player_id_seq
      BY <1>3, <1>4 DEF Wire, k
    <3>5. k \in Listed => IF phase'[c] = "ready" THEN own'[c] = pidOf[k] /\ pidOf[k] # NoPlayer
                          ELSE Greetings(t) = {pidOf[k]} \ {NoPlayer}
      <4>1. SUFFICES ASSUME k \in Listed
            PROVE  IF phase'[c] = "ready" THEN own'[c] = pidOf[k] /\ pidOf[k] # NoPlayer
                   ELSE Greetings(t) = {pidOf[k]} \ {NoPlayer}
        OBVIOUS
      <4>2. IF phase[c] = "ready" THEN own[c] = pidOf[k] /\ pidOf[k] # NoPlayer
            ELSE Greetings(q) = {pidOf[k]} \ {NoPlayer}
        BY <4>1, <1>3 DEF Wire, k
      <4>3. CASE h.type = "welcome"
        <5>1. h.pid \in {pidOf[k]} \ {NoPlayer}
          BY <4>2, <4>3, <1>4, <1>5
        <5> QED BY <5>1, <4>3, <1>11
      <4>4. CASE h.type # "welcome"
        BY <4>2, <4>4, <1>4, <1>11
      <4> QED BY <4>3, <4>4
    <3>6. k \in Joined /\ screen'[c] # "crashed" =>
            Players \subseteq After(t, roster'[c]) /\ After(t, roster'[c]) \subseteq Players \cup kept[c]
      BY <1>3, <1>6, <1>13 DEF Wire, Roster, k
    <3> QED BY <1>1, <1>3, <3>1, <3>2, <3>3, <3>4, <3>5, <3>6 DEF Wire, Roster, k
  <2> QED BY <2>1, OtherWires DEF Wires
<1>19. Counted'
  <2>1. CutOff' \subseteq CutOff
    <3>1. Cut(c)' => Cut(c)
      <4>1. phase'[c] = "ready" \/ Greetings(t) # {} => phase[c] = "ready" \/ Greetings(q) # {}
        BY <1>4, <1>11
      <4> QED BY <4>1, <1>1, <1>3, <1>13 DEF Cut, k
    <3> QED BY <3>1, OtherCut DEF CutOff
  <2>2. Spent \subseteq Spent'
    BY <1>1, <1>2, <1>11 DEF Spent
  <2> QED BY <2>1, <2>2, <1>1, CountKept DEF Alone
<1> QED BY <1>14, <1>15, <1>16, <1>17, <1>18, <1>19

LEMMA Received ==
  ASSUME IInv, NEW c \in Clients, NEW type, Receive(c, type), Taken(c),
         UNCHANGED <<mode, table, pidOf, player_id_seq, net, kept, faults>>,
         \A d \in Clients \ {c} : /\ phase'[d] = phase[d] /\ screen'[d] = screen[d]
                                  /\ roster'[d] = roster[d] /\ own'[d] = own[d]
  PROVE  /\ net[c] \in Conns /\ net[c] # NoConn
         /\ chan[net[c]] \in Seq(Packets) /\ chan[net[c]] # <<>>
         /\ Packet(c) \in Packets /\ Packet(c) = Head(chan[net[c]]) /\ Packet(c).type = type
         /\ \A k \in Conns : chan'[k] = IF k = net[c] THEN Tail(chan[net[c]]) ELSE chan[k]
         /\ chan' \in [Conns -> Seq(Packets)]
         /\ Alone(c)
<1> USE DEF IInv, Receive, Taken
<1>1. net[c] \in Conns /\ net[c] # NoConn
  BY DEF Typed, TypeOK
<1>2. chan[net[c]] \in Seq(Packets) /\ chan[net[c]] # <<>>
  BY <1>1 DEF Typed
<1> DEFINE q == chan[net[c]]
<1>3. Head(q) \in Packets /\ Tail(q) \in Seq(Packets)
  BY <1>2
<1>4. chan \in [Conns -> Seq(Packets)] /\ chan' = [chan EXCEPT ![net[c]] = Tail(q)]
  BY DEF Typed
<1> HIDE DEF q
<1>5. \A k \in Conns : chan'[k] = IF k = net[c] THEN Tail(q) ELSE chan[k]
  BY <1>4
<1>6. chan' \in [Conns -> Seq(Packets)]
  BY <1>3, <1>4
<1>7. Alone(c)
  <2>1. \A d \in Clients \ {c} : net[d] # NoConn => net[d] \in Conns /\ net[d] # net[c]
    BY <1>1 DEF Typed, TypeOK, Numbers
  <2> QED BY <2>1, <1>5 DEF Alone
<1> QED BY <1>1, <1>2, <1>3, <1>5, <1>6, <1>7 DEF Packet, q

LEMMA StepWelcome == ASSUME IInv, NEW c \in Clients, welcome(c) PROVE IInv'
<1> USE DEF IInv, welcome, serverVars
<1>1. /\ net[c] \in Conns /\ net[c] # NoConn
      /\ chan[net[c]] \in Seq(Packets) /\ chan[net[c]] # <<>>
      /\ Packet(c) \in Packets /\ Packet(c) = Head(chan[net[c]]) /\ Packet(c).type = "welcome"
      /\ \A k \in Conns : chan'[k] = IF k = net[c] THEN Tail(chan[net[c]]) ELSE chan[k]
      /\ chan' \in [Conns -> Seq(Packets)]
      /\ Alone(c)
  BY Received DEF Typed, TypeOK
<1>2. Packet(c).pid \in Ids /\ Packet(c).others \subseteq Ids
  BY <1>1 DEF Packets
<1>3. /\ phase'[c] = "ready" /\ own'[c] = Packet(c).pid /\ screen'[c] = "game"
      /\ roster'[c] = roster[c] \cup Packet(c).others \cup {Packet(c).pid}
  BY DEF Typed, TypeOK
<1>4. Typed'
  <2>1. TypeOK'
    BY <1>1, <1>2 DEF Typed, TypeOK
  <2> QED BY <2>1, <1>1 DEF Typed
<1>5. \A p \in Ids : p \in roster'[c] <=> Adds(Packet(c), p) \/ (p \in roster[c] /\ ~Drops(Packet(c), p))
  BY <1>1, <1>2, <1>3 DEF Adds, Drops
<1>6. screen[c] # "crashed"
  BY DEF Receive
<1>7. /\ phase'[c] = (IF Packet(c).type = "welcome" THEN "ready" ELSE phase[c])
      /\ own'[c] = (IF Packet(c).type = "welcome" THEN Packet(c).pid ELSE own[c])
      /\ screen'[c] # "menu"
  BY <1>1, <1>3
<1>8. UNCHANGED <<net, kept, backlog, requests, pings, replies, used, joins>>
  OBVIOUS
<1> HIDE DEF welcome
<1> QED BY <1>1, <1>4, <1>5, <1>6, <1>7, <1>8, StepRead

LEMMA StepNewPlayer == ASSUME IInv, NEW c \in Clients, game_new_player(c) PROVE IInv'
<1> USE DEF IInv, game_new_player, serverVars
<1>1. /\ net[c] \in Conns /\ net[c] # NoConn
      /\ chan[net[c]] \in Seq(Packets) /\ chan[net[c]] # <<>>
      /\ Packet(c) \in Packets /\ Packet(c) = Head(chan[net[c]]) /\ Packet(c).type = "new"
      /\ \A k \in Conns : chan'[k] = IF k = net[c] THEN Tail(chan[net[c]]) ELSE chan[k]
      /\ chan' \in [Conns -> Seq(Packets)]
      /\ Alone(c)
  BY Received DEF Typed, TypeOK
<1>2. Packet(c).pid \in Ids
  BY <1>1 DEF Packets
<1>3. /\ phase' = phase /\ own' = own
      /\ \/ screen'[c] = "game" /\ roster'[c] = roster[c] \cup {Packet(c).pid}
         \/ screen'[c] = "crashed" /\ roster'[c] = roster[c]
  BY DEF Typed, TypeOK
<1>4. Typed'
  <2>1. roster' \in [Clients -> SUBSET Ids] /\ screen' \in [Clients -> {"menu", "game", "crashed"}]
    <3>1. roster \in [Clients -> SUBSET Ids] /\ screen \in [Clients -> {"menu", "game", "crashed"}]
      BY DEF Typed, TypeOK
    <3>2. roster[c] \cup {Packet(c).pid} \in SUBSET Ids
      BY <3>1, <1>2
    <3> QED BY <3>1, <3>2
  <2>2. TypeOK'
    BY <2>1 DEF Typed, TypeOK
  <2> QED BY <2>2, <1>1 DEF Typed
<1>5. \/ \A p \in Ids : p \in roster'[c] <=> Adds(Packet(c), p) \/ (p \in roster[c] /\ ~Drops(Packet(c), p))
      \/ screen'[c] = "crashed" /\ roster'[c] = roster[c] /\ Packet(c).type # "welcome"
  BY <1>1, <1>2, <1>3 DEF Adds, Drops
<1>6. screen[c] # "crashed" /\ screen'[c] # "menu"
  BY <1>3 DEF Receive
<1> QED BY <1>1, <1>3, <1>4, <1>5, <1>6, StepRead

LEMMA StepDeletePlayer == ASSUME IInv, NEW c \in Clients, game_delete_player(c) PROVE IInv'
<1> USE DEF IInv, game_delete_player, serverVars
<1>1. /\ net[c] \in Conns /\ net[c] # NoConn
      /\ chan[net[c]] \in Seq(Packets) /\ chan[net[c]] # <<>>
      /\ Packet(c) \in Packets /\ Packet(c) = Head(chan[net[c]]) /\ Packet(c).type = "delete"
      /\ \A k \in Conns : chan'[k] = IF k = net[c] THEN Tail(chan[net[c]]) ELSE chan[k]
      /\ chan' \in [Conns -> Seq(Packets)]
      /\ Alone(c)
  BY Received DEF Typed, TypeOK
<1>3. /\ phase' = phase /\ own' = own
      /\ \/ screen'[c] = "game" /\ roster'[c] = roster[c] \ {Packet(c).pid}
         \/ screen'[c] = "crashed" /\ roster'[c] = roster[c]
  BY DEF Typed, TypeOK
<1>4. Typed'
  <2>1. roster' \in [Clients -> SUBSET Ids] /\ screen' \in [Clients -> {"menu", "game", "crashed"}]
    <3>1. roster \in [Clients -> SUBSET Ids] /\ screen \in [Clients -> {"menu", "game", "crashed"}]
      BY DEF Typed, TypeOK
    <3>2. roster[c] \ {Packet(c).pid} \in SUBSET Ids
      BY <3>1
    <3> QED BY <3>1, <3>2
  <2>2. TypeOK'
    BY <2>1 DEF Typed, TypeOK
  <2> QED BY <2>2, <1>1 DEF Typed
<1>5. \/ \A p \in Ids : p \in roster'[c] <=> Adds(Packet(c), p) \/ (p \in roster[c] /\ ~Drops(Packet(c), p))
      \/ screen'[c] = "crashed" /\ roster'[c] = roster[c] /\ Packet(c).type # "welcome"
  BY <1>1, <1>3 DEF Adds, Drops
<1>6. screen[c] # "crashed" /\ screen'[c] # "menu"
  BY <1>3 DEF Receive
<1> QED BY <1>1, <1>3, <1>4, <1>5, <1>6, StepRead

-------------------------------------------------------------------------------
(* The steps of the server. *)

\* a fault cuts off no more than everybody
LEMMA CountFault ==
  ASSUME Typed, Counted, faults' = faults + 1, used' = used, joins' = joins
  PROVE  used' + Cardinality(CutOff') <= joins' + faults' * Cardinality(Clients)
<1> DEFINE n == Cardinality(Clients)
           f == faults * n
<1>1. n \in Nat /\ faults \in Nat /\ joins \in Nat /\ used \in Nat
  BY ConnsFacts DEF Typed, TypeOK
<1>2. f \in Nat /\ faults' * n = f + n
  BY <1>1
<1>3. CutOff' \subseteq Clients
  BY DEF CutOff
<1>4. Cardinality(CutOff') \in Nat /\ Cardinality(CutOff') <= n
  BY <1>3, BoundAssumption, FS_Subset, FS_CardinalityType
<1>5. used + Cardinality(CutOff) <= joins + f /\ Cardinality(CutOff) \in Nat
  BY Room DEF Counted
<1> HIDE DEF f, n
<1>6. used' + Cardinality(CutOff') <= joins' + faults' * n
  BY <1>1, <1>2, <1>4, <1>5
<1> QED BY <1>6 DEF n

LEMMA CountCut ==
  ASSUME Typed, Counted, UNCHANGED <<used, joins, faults>>, CutOff' \subseteq CutOff
  PROVE  used' + Cardinality(CutOff') <= joins' + faults' * Cardinality(Clients)
<1>1. Cardinality(CutOff') \in Nat /\ Cardinality(CutOff') <= Cardinality(CutOff) /\ Cardinality(CutOff) \in Nat
  BY Room, FS_Subset, FS_CardinalityType
<1> DEFINE f == faults * Cardinality(Clients)
<1>2. used + Cardinality(CutOff) <= joins + f /\ f \in Nat /\ joins \in Nat /\ used \in Nat /\ f' = f
  BY ConnsFacts DEF Counted, Typed, TypeOK
<1> HIDE DEF f
<1>3. used' + Cardinality(CutOff') <= joins' + f'
  BY <1>1, <1>2
<1> QED BY <1>3 DEF f

LEMMA CountSpent ==
  ASSUME Typed, Counted, used' = used, Spent \subseteq Spent', player_id_seq' \in Nat, player_id_seq' <= player_id_seq
  PROVE  player_id_seq' <= Cardinality(Spent')
<1>1. Spent' \subseteq 1 .. used /\ used \in Nat
  BY DEF Spent, Typed, TypeOK
<1>2. IsFiniteSet(Spent')
  <2>1. IsFiniteSet(1 .. used)
    BY <1>1, FS_Interval
  <2> QED BY <2>1, <1>1, FS_Subset
<1>3. Cardinality(Spent) \in Nat /\ Cardinality(Spent') \in Nat /\ Cardinality(Spent) <= Cardinality(Spent')
  BY <1>2, Room, FS_Subset, FS_CardinalityType
<1>4. player_id_seq <= Cardinality(Spent) /\ player_id_seq \in Nat
  BY DEF Counted, Typed, TypeOK
<1> QED BY <1>3, <1>4

\* the connections a client still has open
Open == {net[c] : c \in Clients}

LEMMA SentType ==
  ASSUME NEW to, NEW m \in Packets, NEW ch \in [Conns -> Seq(Packets)]
  PROVE  Sent(to, m, ch) \in [Conns -> Seq(Packets)]
<1>1. \A k \in Conns : ch[k] \in Seq(Packets) /\ Append(ch[k], m) \in Seq(Packets)
  OBVIOUS
<1> QED BY <1>1 DEF Sent

LEMMA SentTo ==
  ASSUME NEW to, NEW m, NEW ch, NEW k \in Conns
  PROVE  Sent(to, m, ch)[k] = IF k \in to \cap Open THEN Append(ch[k], m) ELSE ch[k]
<1>1. k \in Open <=> \E c \in Clients : net[c] = k
  BY DEF Open
<1> QED BY <1>1 DEF Sent

LEMMA ListedConns == ASSUME Typed PROVE Listed \subseteq Conns /\ Listed = Elems(table) /\ Joined \subseteq Listed
<1>1. \A i \in DOMAIN table : table[i] \in Conns
  BY DEF Typed, TypeOK
<1> QED BY <1>1 DEF Listed, Elems, Joined

LEMMA StepUdp == ASSUME IInv, NEW k \in Conns, server_read_udp_packet(k) PROVE IInv'
<1> USE DEF IInv, server_read_udp_packet, serverVars, clientVars, server_verify_session
<1>1. Typed'
  <2>1. TypeOK'
    BY DEF Typed, TypeOK
  <2> QED BY <2>1 DEF Typed
<1>2. Listed' = Listed
  BY DEF Listed
<1>3. Numbers'
  BY <1>2 DEF Numbers
<1>4. Stages'
  BY <1>2 DEF Stages
<1>5. Unique' /\ OwnInRoster'
  BY DEF Unique, OwnInRoster
<1>6. Wires'
  <2>1. \A d \in Clients : Wire(d, chan[net[d]])' <=> Wire(d, chan[net[d]])
    BY DEF Wire, Roster, Listed, Joined, Players
  <2> QED BY <2>1 DEF Wires
<1>7. Counted'
  <2>1. CutOff' = CutOff /\ Spent' = Spent
    BY DEF CutOff, Cut, Spent, Listed
  <2> QED BY <2>1, <1>1, CountKept
<1> QED BY <1>1, <1>3, <1>4, <1>5, <1>6, <1>7

LEMMA StepAccept == ASSUME IInv, NEW k \in Conns, accept_client(k) PROVE IInv'
<1> USE DEF IInv, accept_client, wireVars, clientVars
<1>1. k \notin Listed /\ Listed = Elems(table) /\ chan[k] = <<>> /\ k \notin pings /\ pidOf[k] = NoPlayer
  BY ListedConns DEF Numbers, Stages
<1>2. table' \in Seq(Conns) /\ Once(table') /\ Listed' = Listed \cup {k}
  <2>1. table \in Seq(Conns) /\ Once(table)
    BY DEF Typed, TypeOK, Numbers
  <2>2. table' \in Seq(Conns) /\ Once(table') /\ Elems(table') = Elems(table) \cup {k}
    BY <1>1, <2>1, AppendFacts
  <2> QED BY <2>2, <1>1 DEF Listed, Elems
<1>3. Joined' = Joined /\ Players' = Players
  <2>1. Joined' = Joined
    BY <1>1, <1>2 DEF Joined
  <2> QED BY <2>1 DEF Players
<1>4. Typed'
  <2>1. TypeOK'
    BY <1>2 DEF Typed, TypeOK
  <2> QED BY <2>1 DEF Typed
<1>5. Numbers'
  <2>1. k <= used
    BY ConnsFacts DEF Numbers, Typed, TypeOK
  <2>2. \A j \in Conns : j > used => j # k
    BY <2>1, ConnsFacts DEF Typed, TypeOK
  <2> QED BY <1>2, <2>2 DEF Numbers
<1>6. Stages'
  BY <1>1, <1>2 DEF Stages
<1>7. Unique' /\ OwnInRoster'
  BY DEF Unique, OwnInRoster
<1>8. Wires'
  <2>1. SUFFICES ASSUME NEW c \in Clients, net[c] # NoConn PROVE Wire(c, chan[net[c]])'
    BY DEF Wires
  <2>2. Wire(c, chan[net[c]]) /\ Roster(c)' = Roster(c)
    BY <2>1 DEF Wires, Roster
  <2>3. CASE net[c] # k
    BY <1>2, <1>3, <2>2, <2>3 DEF Wire
  <2>4. CASE net[c] = k
    <3>1. Greetings(chan[k]) = {} /\ Dropped(chan[k]) = {} /\ phase[c] # "ready"
      BY <1>1, <2>4, EmptyQueue DEF Stages
    <3> QED BY <1>1, <1>2, <1>3, <2>2, <2>4, <3>1 DEF Wire
  <2> QED BY <2>3, <2>4
<1>9. Counted'
  <2>1. CutOff' \subseteq CutOff /\ Spent' = Spent
    BY <1>2 DEF CutOff, Cut, Spent
  <2> QED BY <2>1, <1>4, CountKept
<1> QED BY <1>4, <1>5, <1>6, <1>7, <1>8, <1>9

LEMMA StepConnect == ASSUME IInv, NEW k \in Conns, client_tcp_connect(k) PROVE IInv'
<1> USE DEF IInv, client_tcp_connect, clientVars, broadcast_new_player, NextPlayer
<1> DEFINE pid == player_id_seq + 1
           new == NewPlayer(pid)
           hello == Welcome(pid, Players)
<1>1. /\ k \in Listed /\ k \in requests /\ pidOf[k] = NoPlayer /\ k \notin Joined /\ k <= used /\ k \notin backlog
      /\ Listed \subseteq Conns /\ Joined \subseteq Listed
  <2>1. k <= used
    BY ConnsFacts DEF Numbers, Typed, TypeOK
  <2> QED BY <2>1, ListedConns DEF Stages, Joined, Numbers
<1>2. /\ k \in 1 .. used /\ k \notin Spent /\ used \in Nat
  BY <1>1, ConnsFacts DEF Spent, Typed, TypeOK
<1>3. Spent \cup {k} \subseteq Spent'
  <2>1. \A c \in Clients : net[c] = k => phase[c] = "connected"
    <3>1. SUFFICES ASSUME NEW c \in Clients, net[c] = k PROVE phase[c] = "connected"
      OBVIOUS
    <3>2. k # NoConn
      BY <1>2 DEF NoConn
    <3>3. phase[c] # "idle" /\ phase[c] # "connecting" /\ phase[c] # "made"
      BY <1>1, <3>1, <3>2 DEF Numbers, Stages
    <3>4. Wire(c, chan[net[c]])
      BY <3>1, <3>2 DEF Wires
    <3>5. phase[c] # "ready"
      BY <1>1, <3>1, <3>4 DEF Wire
    <3> QED BY <3>3, <3>5 DEF Typed, TypeOK
  <2> QED BY <2>1, <1>2 DEF Spent
<1>4. pid <= Cardinality(Spent') /\ pid <= used /\ pid \in Nat /\ pid # 0
  <2>1. Cardinality(Spent \cup {k}) = Cardinality(Spent) + 1
    BY <1>2, Room, FS_AddElement
  <2>2. Spent' \subseteq 1 .. used /\ IsFiniteSet(1 .. used) /\ Cardinality(1 .. used) = used
    BY <1>2, FS_Interval DEF Spent
  <2>3. IsFiniteSet(Spent') /\ Cardinality(Spent') <= used /\ Cardinality(Spent') \in Nat
    BY <2>2, FS_Subset, FS_CardinalityType
  <2>4. Cardinality(Spent \cup {k}) <= Cardinality(Spent')
    BY <1>3, <2>3, FS_Subset
  <2>5. Cardinality(Spent) \in Nat /\ player_id_seq \in Nat /\ player_id_seq <= Cardinality(Spent)
    BY Room DEF Counted, Typed, TypeOK
  <2> QED BY <2>1, <2>3, <2>4, <2>5, <1>2
<1>5. pid \in Ids /\ Players \subseteq Ids /\ pid # NoPlayer
  <2>1. pid \in Conns
    BY <1>2, <1>4, Room
  <2>2. Players \subseteq Ids
    BY <1>1 DEF Players, Joined, Typed, TypeOK
  <2> QED BY <2>1, <2>2, <1>4 DEF Ids, NoPlayer
<1>6. /\ new \in Packets /\ new.type = "new" /\ new.pid = pid
      /\ hello \in Packets /\ hello.type = "welcome" /\ hello.pid = pid /\ hello.others = Players
  BY <1>5 DEF Packets, NewPlayer, Welcome
<1>7. chan \in [Conns -> Seq(Packets)] /\ \A j \in Conns : chan[j] \in Seq(Packets)
  BY DEF Typed
<1> DEFINE told == Sent(Joined \ {k}, new, chan)
<1>8. /\ chan' = Sent({k}, hello, told)
      /\ requests' = requests \ {k} /\ player_id_seq' = pid /\ pidOf' = [pidOf EXCEPT ![k] = pid]
      /\ port' = port /\ mode' = mode /\ table' = table /\ backlog' = backlog
      /\ pings' = pings /\ replies' = replies
      /\ used' = used /\ joins' = joins /\ faults' = faults /\ mode = "up"
      /\ net' = net /\ phase' = phase /\ screen' = screen /\ roster' = roster /\ own' = own
      /\ saved' = saved /\ kept' = kept
  OBVIOUS
<1> HIDE DEF pid, new, hello
<1>9. /\ told \in [Conns -> Seq(Packets)]
      /\ \A j \in Conns : told[j] = IF j \in (Joined \ {k}) \cap Open THEN Append(chan[j], new) ELSE chan[j]
  <2> HIDE DEF client_tcp_connect, IInv
  <2>1. new \in Packets /\ chan \in [Conns -> Seq(Packets)]
    BY <1>6, <1>7
  <2>2. told \in [Conns -> Seq(Packets)]
    BY <2>1, SentType
  <2>3. \A j \in Conns : told[j] = IF j \in (Joined \ {k}) \cap Open THEN Append(chan[j], new) ELSE chan[j]
    BY SentTo
  <2> QED BY <2>2, <2>3
<1> DEFINE one == {k}
<1>10. /\ chan' \in [Conns -> Seq(Packets)]
       /\ \A j \in Conns : chan'[j] = IF j \in one \cap Open THEN Append(told[j], hello) ELSE told[j]
  <2> HIDE DEF told, client_tcp_connect, IInv
  <2>1. chan' = Sent(one, hello, told)
    BY <1>8
  <2> HIDE DEF one
  <2>2. Sent(one, hello, told) \in [Conns -> Seq(Packets)]
    BY <1>6, <1>9, SentType
  <2>3. \A j \in Conns : Sent(one, hello, told)[j] = IF j \in one \cap Open THEN Append(told[j], hello) ELSE told[j]
    BY SentTo
  <2> QED BY <2>1, <2>2, <2>3
<1>11. \A j \in Conns : chan'[j] =
         IF j \notin Open THEN chan[j]
         ELSE IF j = k THEN Append(chan[j], hello)
         ELSE IF j \in Joined THEN Append(chan[j], new)
         ELSE chan[j]
  BY <1>1, <1>9, <1>10
<1> HIDE DEF told, client_tcp_connect, IInv
<1>12. IInv
  OBVIOUS
<1> USE DEF IInv
<1>13. Typed'
  <2>1. TypeOK'
    BY <1>4, <1>5, <1>8 DEF Typed, TypeOK, Ids
  <2> QED BY <2>1, <1>8, <1>10, <1>12 DEF Typed
<1>14. /\ Listed' = Listed /\ Joined' = Joined \cup {k} /\ Players' = Players \cup {pid}
       /\ pidOf'[k] = pid /\ \A j \in Conns : j # k => pidOf'[j] = pidOf[j]
  <2>1. pidOf'[k] = pid /\ \A j \in Conns : j # k => pidOf'[j] = pidOf[j]
    BY <1>8, <1>12 DEF Typed, TypeOK
  <2>2. Listed' = Listed
    BY <1>8 DEF Listed
  <2>3. Joined' = Joined \cup {k}
    BY <2>1, <2>2, <1>1, <1>5 DEF Joined
  <2>4. Players' = Players \cup {pid}
    BY <2>1, <2>3, <1>1 DEF Players
  <2> QED BY <2>1, <2>2, <2>3, <2>4
<1>15. Numbers'
  <2>1. \A j \in Conns : j > used => j # k /\ j \notin Joined
    BY <1>1, <1>2, ConnsFacts, <1>12 DEF Numbers
  <2>2. \A j \in Conns : j > used => chan'[j] = <<>>
    BY <2>1, <1>11, <1>12 DEF Numbers
  <2> QED BY <1>8, <1>14, <2>2, <1>12 DEF Numbers
<1>16. Stages'
  <2>1. \A j \in backlog : j \in Conns /\ j \notin Listed
    BY <1>12 DEF Numbers, Typed, TypeOK
  <2>2. \A j \in backlog : chan'[j] = <<>>
    BY <2>1, <1>1, <1>11, <1>12 DEF Stages
  <2>3. \A c \in Clients : phase[c] = "connecting" => net[c] \in Conns /\ net[c] \notin Listed
    BY <1>12 DEF Stages, Numbers, Typed, TypeOK
  <2>4. \A c \in Clients : phase[c] = "connecting" => chan'[net[c]] = <<>>
    BY <2>3, <1>1, <1>11, <1>12 DEF Stages
  <2>5. \A c \in Clients : phase[c] = "made" => net[c] \in Conns /\ net[c] # k
    BY <1>1, <1>12 DEF Stages, Numbers, Typed, TypeOK
  <2> QED BY <1>1, <1>8, <1>14, <2>2, <2>4, <2>5, <1>12 DEF Stages
<1>17. \A j \in Conns : pidOf[j] <= player_id_seq /\ pidOf[j] <= pid /\ pidOf[j] # pid
  <2>1. player_id_seq \in Nat /\ pid = player_id_seq + 1
    BY <1>12 DEF pid, Typed, TypeOK
  <2>2. \A j \in Conns : pidOf[j] \in Ids \cup {NoPlayer}
    BY <1>12 DEF Typed, TypeOK
  <2>3. Ids \subseteq Nat /\ NoPlayer \in Nat
    BY ConnsFacts DEF Ids, NoPlayer
  <2>4. \A j \in Conns : pidOf[j] \in Nat /\ pidOf[j] <= player_id_seq
    BY <2>2, <2>3, <1>12 DEF Unique
  <2> QED BY <2>1, <2>4
<1>18. Unique'
  <2>1. pid <= pid
    BY <1>4
  <2> QED BY <1>8, <1>14, <1>17, <2>1, <1>12 DEF Unique
<1>19. OwnInRoster'
  BY <1>8, <1>12 DEF OwnInRoster
<1>20. Wires'
  <2>1. SUFFICES ASSUME NEW c \in Clients, net[c] # NoConn PROVE Wire(c, chan[net[c]])'
    BY <1>8 DEF Wires
  <2> DEFINE n == net[c]
             q == chan[n]
             r == chan'[n]
  <2>2. n \in Conns /\ q \in Seq(Packets) /\ r \in Seq(Packets) /\ roster[c] \subseteq Ids
    BY <2>1, <1>7, <1>10, <1>12 DEF Typed, TypeOK
  <2>3. Wire(c, q)
    BY <2>1, <1>12 DEF Wires
  <2>4. r = IF n = k THEN Append(q, hello) ELSE IF n \in Joined THEN Append(q, new) ELSE q
    <3>1. n \in Open
      BY DEF Open
    <3> QED BY <3>1, <2>2, <1>11
  <2> HIDE DEF q, r
  <2>5. 1 .. player_id_seq \subseteq 1 .. pid /\ pid \notin 1 .. player_id_seq
    BY <1>12 DEF pid, Typed, TypeOK
  <2>6. /\ Ordered(q, phase[c] = "ready")
        /\ Greetings(q) # {} => phase[c] = "connected"
        /\ Dropped(q) \cap (Greetings(q) \cup {own[c]}) = {}
        /\ n \in Listed => Dropped(q) \subseteq 1..player_id_seq
        /\ n \in Listed /\ phase[c] = "ready" => own[c] = pidOf[n] /\ pidOf[n] # NoPlayer
        /\ n \in Listed /\ phase[c] # "ready" => Greetings(q) = {pidOf[n]} \ {NoPlayer}
        /\ n \in Joined /\ screen[c] # "crashed" =>
             Players \subseteq After(q, roster[c]) /\ After(q, roster[c]) \subseteq Players \cup kept[c]
    BY <2>3 DEF Wire, Roster, q
  <2> DEFINE Goal ==
        /\ Ordered(r, phase[c] = "ready")
        /\ Greetings(r) # {} => phase[c] = "connected"
        /\ Dropped(r) \cap (Greetings(r) \cup {own[c]}) = {}
        /\ n \in Listed => Dropped(r) \subseteq 1..pid
        /\ n \in Listed /\ phase[c] = "ready" => own[c] = pidOf'[n] /\ pidOf'[n] # NoPlayer
        /\ n \in Listed /\ phase[c] # "ready" => Greetings(r) = {pidOf'[n]} \ {NoPlayer}
        /\ n \in Joined' /\ screen[c] # "crashed" =>
             Players' \subseteq After(r, roster[c]) /\ After(r, roster[c]) \subseteq Players' \cup kept[c]
  <2>7. Goal => Wire(c, chan[net[c]])'
    BY <1>8, <1>14 DEF Wire, Roster, r
  <2>8. CASE n # k /\ n \notin Joined
    <3>1. r = q /\ pidOf'[n] = pidOf[n] /\ n \notin Joined'
      BY <2>8, <2>2, <2>4, <1>14
    <3>2. Goal
      BY <2>5, <2>6, <3>1
    <3> QED BY <3>2, <2>7
  <2>9. CASE n # k /\ n \in Joined
    <3>1. r = Append(q, new) /\ pidOf'[n] = pidOf[n] /\ n \in Listed /\ pidOf[n] # NoPlayer
      BY <2>9, <2>2, <2>4, <1>14 DEF Joined
    <3>2. Greetings(r) = Greetings(q) /\ Dropped(r) = Dropped(q)
      <4>1. Greetings(r) = Greetings(q) \cup (IF new.type = "welcome" THEN {new.pid} ELSE {})
        BY <3>1, <2>2, <1>6, AppendNames
      <4>2. Dropped(r) = Dropped(q) \cup (IF new.type = "delete" THEN {new.pid} ELSE {})
        BY <3>1, <2>2, <1>6, AppendNames
      <4> QED BY <4>1, <4>2, <1>6
    <3>3. After(r, roster[c]) = {p \in Ids : Adds(new, p) \/ (p \in After(q, roster[c]) /\ ~Drops(new, p))}
      BY <3>1, <2>2, <1>6, AppendAfter
    <3>4. After(r, roster[c]) = After(q, roster[c]) \cup {pid}
      <4>1. After(q, roster[c]) \subseteq Ids
        BY DEF After
      <4>2. \A p : (Adds(new, p) <=> p = pid) /\ ~Drops(new, p)
        BY <1>6 DEF Adds, Drops
      <4> QED BY <3>3, <4>1, <4>2, <1>5
    <3>5. phase[c] = "ready" \/ Greetings(q) # {}
      BY <2>6, <3>1
    <3>6. Ordered(r, phase[c] = "ready")
      BY <3>1, <3>5, <2>2, <2>6, <1>6, AppendOrdered
    <3>7. n \in Joined /\ Players' = Players \cup {pid}
      BY <2>9, <1>14
    <3>8. Goal
      BY <2>5, <2>6, <3>1, <3>2, <3>4, <3>6, <3>7
    <3> QED BY <3>8, <2>7
  <2>10. CASE n = k
    <3>1. r = Append(q, hello) /\ pidOf'[n] = pid /\ n \in Listed /\ pidOf[n] = NoPlayer
      BY <2>10, <2>2, <2>4, <1>1, <1>14
    <3>2. phase[c] # "ready" /\ Greetings(q) = {} /\ phase[c] # "idle" /\ phase[c] # "connecting" /\ phase[c] # "made"
      <4>1. phase[c] # "ready" /\ Greetings(q) = {}
        BY <2>6, <3>1
      <4>2. phase[c] # "idle" /\ phase[c] # "connecting" /\ phase[c] # "made"
        BY <2>10, <2>1, <1>1, <1>12 DEF Numbers, Stages
      <4> QED BY <4>1, <4>2
    <3>3. phase[c] = "connected" /\ own[c] = NoPlayer /\ roster[c] \subseteq kept[c]
      BY <3>2, <1>12 DEF Typed, TypeOK, Stages
    <3>4. Greetings(r) = {pid} /\ Dropped(r) = Dropped(q)
      <4>1. Greetings(r) = Greetings(q) \cup (IF hello.type = "welcome" THEN {hello.pid} ELSE {})
        BY <3>1, <2>2, <1>6, AppendNames
      <4>2. Dropped(r) = Dropped(q) \cup (IF hello.type = "delete" THEN {hello.pid} ELSE {})
        BY <3>1, <2>2, <1>6, AppendNames
      <4> QED BY <4>1, <4>2, <3>2, <1>6
    <3>5. After(r, roster[c]) = {p \in Ids : Adds(hello, p) \/ (p \in After(q, roster[c]) /\ ~Drops(hello, p))}
      BY <3>1, <2>2, <1>6, AppendAfter
    <3>6. After(q, roster[c]) \subseteq roster[c]
      BY <2>2, <2>6, <3>2, NotGreeted
    <3>7. Players \cup {pid} \subseteq After(r, roster[c]) /\ After(r, roster[c]) \subseteq Players \cup {pid} \cup kept[c]
      <4>1. \A p : (Adds(hello, p) <=> p = pid \/ p \in Players) /\ ~Drops(hello, p)
        BY <1>6 DEF Adds, Drops
      <4> QED BY <3>3, <3>5, <3>6, <4>1, <1>5
    <3>8. Ordered(r, phase[c] = "ready")
      BY <3>1, <3>2, <2>2, <2>6, <1>6, AppendOrdered
    <3>9. pid \notin Dropped(q) /\ Dropped(q) \subseteq 1 .. pid
      BY <2>5, <2>6, <3>1
    <3>10. Players' = Players \cup {pid}
      BY <1>14
    <3>11. Dropped(r) \cap (Greetings(r) \cup {own[c]}) = {}
      BY <2>6, <3>4, <3>9
    <3>12. Goal
      BY <3>1, <3>2, <3>3, <3>4, <3>7, <3>8, <3>9, <3>10, <3>11, <1>5
    <3> QED BY <3>12, <2>7
  <2> QED BY <2>8, <2>9, <2>10
<1>21. Counted'
  <2>1. CutOff' \subseteq CutOff
    <3>1. SUFFICES ASSUME NEW c \in Clients, Cut(c)' PROVE Cut(c)
      BY DEF CutOff
    <3>2. net[c] # NoConn /\ net[c] \in Conns
      BY <3>1, <1>8, <1>12 DEF Cut, Typed, TypeOK
    <3>3. net[c] \notin Listed
      BY <3>1, <1>8, <1>14 DEF Cut
    <3>4. chan'[net[c]] = chan[net[c]]
      BY <3>2, <3>3, <1>1, <1>11
    <3> QED BY <3>1, <3>4, <1>8, <1>14 DEF Cut
  <2>2. used' + Cardinality(CutOff') <= joins' + faults' * Cardinality(Clients)
    BY <2>1, <1>8, <1>12, CountCut
  <2> QED BY <2>2, <1>4, <1>8 DEF Counted
<1> QED BY <1>13, <1>15, <1>16, <1>18, <1>19, <1>20, <1>21

\* what closing a connection does
LEMMA Closed ==
  ASSUME IInv, NEW k \in Conns, NEW ch \in [Conns -> Seq(Packets)], server_close_client(k, ch)
  PROVE  /\ k \in Listed /\ table' \in Seq(Conns) /\ Once(table') /\ Listed' = Listed \ {k}
         /\ pidOf' \in [Conns -> Ids \cup {NoPlayer}]
         /\ pidOf'[k] = NoPlayer /\ \A j \in Conns : j # k => pidOf'[j] = pidOf[j]
         /\ requests' = requests \ {k}
         /\ chan' \in [Conns -> Seq(Packets)]
         /\ pidOf[k] # NoPlayer => DeletePlayer(pidOf[k]) \in Packets
         /\ \A j \in Conns : chan'[j] =
              IF pidOf[k] # NoPlayer /\ j \in (Listed \ {k}) \cap Open
              THEN Append(ch[j], DeletePlayer(pidOf[k])) ELSE ch[j]
<1> USE DEF IInv
<1>1. table \in Seq(Conns) /\ Once(table) /\ pidOf \in [Conns -> Ids \cup {NoPlayer}]
  BY DEF Typed, TypeOK, Numbers
<1>2. PICK i \in DOMAIN table : table[i] = k /\ table' = Without(table, i)
  BY DEF server_close_client
<1>3. k \in Listed /\ table' \in Seq(Conns) /\ Once(table') /\ Listed' = Listed \ {k}
  <2>1. table' \in Seq(Conns) /\ Once(table') /\ Elems(table') = Elems(table) \ {k}
    BY <1>1, <1>2, WithoutFacts
  <2> QED BY <2>1, <1>2 DEF Listed, Elems
<1>4. pidOf' = [pidOf EXCEPT ![k] = NoPlayer] /\ requests' = requests \ {k}
  BY DEF server_close_client
<1>5. pidOf[k] # NoPlayer => DeletePlayer(pidOf[k]) \in Packets
  <2>1. pidOf[k] \in Ids \cup {NoPlayer}
    BY <1>1
  <2> QED BY <2>1 DEF DeletePlayer, Packets
<1> DEFINE m == DeletePlayer(pidOf[k])
           to == Listed \ {k}
<1>6. chan' = IF pidOf[k] = NoPlayer THEN ch ELSE Sent(to, m, ch)
  BY DEF server_close_client, broadcast_delete_player
<1>7. pidOf[k] # NoPlayer => m \in Packets
  BY <1>5
<1> HIDE DEF m, to
<1>8. chan' \in [Conns -> Seq(Packets)]
  <2>1. m \in Packets => Sent(to, m, ch) \in [Conns -> Seq(Packets)]
    BY SentType
  <2> QED BY <2>1, <1>6, <1>7
<1>9. \A j \in Conns : Sent(to, m, ch)[j] = IF j \in to \cap Open THEN Append(ch[j], m) ELSE ch[j]
  BY SentTo
<1>10. \A j \in Conns : chan'[j] =
         IF pidOf[k] # NoPlayer /\ j \in to \cap Open THEN Append(ch[j], m) ELSE ch[j]
  BY <1>6, <1>9
<1>11. pidOf' \in [Conns -> Ids \cup {NoPlayer}] /\ pidOf'[k] = NoPlayer
       /\ \A j \in Conns : j # k => pidOf'[j] = pidOf[j]
  BY <1>1, <1>4
<1> QED BY <1>3, <1>4, <1>5, <1>8, <1>10, <1>11 DEF m, to

\* a connection closed by the server, at the end of its stream or not
LEMMA StepClose ==
  ASSUME IInv, NEW k \in Conns, NEW ch \in [Conns -> Seq(Packets)], server_close_client(k, ch),
         \A j \in Conns : ch[j] = chan[j] \/ (j = k /\ ch[j] = Append(chan[j], Shutdown)),
         UNCHANGED <<port, mode, player_id_seq, backlog, pings, replies, clientVars, used, joins>>,
         faults' \in 0 .. MaxFaults,
         used' + Cardinality(CutOff') <= joins' + faults' * Cardinality(Clients)
  PROVE  IInv'
<1> DEFINE pid == pidOf[k]
           gone == DeletePlayer(pid)
<1>1. /\ k \in Listed /\ table' \in Seq(Conns) /\ Once(table') /\ Listed' = Listed \ {k}
      /\ pidOf' \in [Conns -> Ids \cup {NoPlayer}]
      /\ pidOf'[k] = NoPlayer /\ \A j \in Conns : j # k => pidOf'[j] = pidOf[j]
      /\ requests' = requests \ {k}
      /\ chan' \in [Conns -> Seq(Packets)]
      /\ pid # NoPlayer => gone \in Packets
      /\ \A j \in Conns : chan'[j] =
           IF pid # NoPlayer /\ j \in (Listed \ {k}) \cap Open THEN Append(ch[j], gone) ELSE ch[j]
  BY Closed
<1>2. /\ port' = port /\ mode' = mode /\ player_id_seq' = player_id_seq /\ backlog' = backlog
      /\ pings' = pings /\ replies' = replies /\ used' = used /\ joins' = joins
      /\ net' = net /\ phase' = phase /\ screen' = screen /\ roster' = roster /\ own' = own
      /\ saved' = saved /\ kept' = kept
  BY DEF clientVars
<1>3. gone.type = "delete" /\ gone.pid = pid
  BY DEF DeletePlayer
<1>4. \A j \in Conns : ch[j] = chan[j] \/ (j = k /\ ch[j] = Append(chan[j], Shutdown))
  OBVIOUS
<1>5. used' + Cardinality(CutOff') <= joins' + faults' * Cardinality(Clients) /\ faults' \in 0 .. MaxFaults
  OBVIOUS
<1>6. IInv /\ Listed \subseteq Conns /\ Joined \subseteq Listed /\ k \in Conns
  BY ListedConns DEF IInv
<1> HIDE DEF pid, gone
<1> SUFFICES IInv'
  OBVIOUS
<1> USE DEF IInv
<1>7. Typed'
  <2>1. faults' \in Nat
    BY <1>5, BoundAssumption
  <2>2. TypeOK'
    BY <1>1, <1>2, <1>6, <2>1 DEF Typed, TypeOK
  <2> QED BY <2>2, <1>1, <1>2, <1>5, <1>6 DEF Typed
<1>8. /\ Joined' = Joined \ {k} /\ Players' = Players \ {pid}
      /\ \A j \in Joined \ {k} : pidOf[j] # pid
  <2>1. Joined' = Joined \ {k}
    BY <1>1, <1>6 DEF Joined
  <2>2. \A j \in Joined \ {k} : j \in Conns /\ pidOf[j] # NoPlayer /\ pidOf[j] # pid
    BY <1>6 DEF Joined, Unique, pid
  <2>3. Players' = {pidOf[j] : j \in Joined \ {k}}
    <3>1. \A j \in Joined \ {k} : pidOf'[j] = pidOf[j]
      BY <2>2, <1>1
    <3> QED BY <2>1, <3>1 DEF Players
  <2>4. \A j \in Joined : j = k => pidOf[j] = pid
    BY DEF pid
  <2>5. Players' = Players \ {pid}
    BY <2>2, <2>3, <2>4 DEF Players
  <2> QED BY <2>1, <2>2, <2>5
<1>9. \A j \in Conns : j \notin Listed => chan'[j] = chan[j]
  BY <1>1, <1>4
<1>10. Numbers'
  <2>1. \A j \in Conns : j > used => chan'[j] = <<>>
    BY <1>6, <1>9 DEF Numbers
  <2> QED BY <1>1, <1>2, <1>6, <2>1 DEF Numbers
<1>11. Stages'
  <2>1. \A j \in backlog : j \in Conns /\ j \notin Listed
    BY <1>6 DEF Numbers, Typed, TypeOK
  <2>2. \A j \in backlog : chan'[j] = <<>>
    BY <2>1, <1>6, <1>9 DEF Stages
  <2>3. \A c \in Clients : phase[c] = "connecting" => net[c] \in Conns /\ net[c] \notin Listed
    BY <1>6 DEF Stages, Numbers, Typed, TypeOK
  <2>4. \A c \in Clients : phase[c] = "connecting" => chan'[net[c]] = <<>>
    BY <2>3, <1>6, <1>9 DEF Stages
  <2>5. \A c \in Clients : phase[c] = "made" => net[c] \in Conns
    BY <1>6 DEF Stages, Numbers, Typed, TypeOK
  <2>6. \A j \in Conns : pidOf'[j] # NoPlayer => pidOf[j] # NoPlayer /\ j # k
    BY <1>1
  <2> QED BY <1>1, <1>2, <2>2, <2>4, <2>5, <2>6, <1>6 DEF Stages
<1>12. Unique'
  <2>1. \A j \in Conns : pidOf'[j] # NoPlayer => pidOf'[j] = pidOf[j]
    BY <1>1
  <2>2. NoPlayer <= player_id_seq
    BY <1>6 DEF Typed, TypeOK, NoPlayer
  <2>3. \A j \in Conns : pidOf'[j] <= player_id_seq
    BY <2>1, <2>2, <1>6 DEF Unique
  <2> QED BY <1>2, <2>1, <2>3, <1>6 DEF Unique
<1>13. OwnInRoster'
  BY <1>2, <1>6 DEF OwnInRoster
<1>14. Wires'
  <2>1. SUFFICES ASSUME NEW c \in Clients, net[c] # NoConn PROVE Wire(c, chan[net[c]])'
    BY <1>2 DEF Wires
  <2> DEFINE n == net[c]
             q == chan[n]
             r == chan'[n]
  <2>2. n \in Conns /\ q \in Seq(Packets) /\ r \in Seq(Packets) /\ roster[c] \subseteq Ids /\ n \in Open
    BY <2>1, <1>1, <1>6 DEF Typed, TypeOK, Open
  <2>3. Wire(c, q)
    BY <2>1, <1>6 DEF Wires
  <2>4. \/ n = k /\ (r = q \/ r = Append(q, Shutdown))
        \/ n # k /\ r = (IF pid # NoPlayer /\ n \in Listed THEN Append(q, gone) ELSE q)
    BY <2>2, <1>1, <1>4
  <2> HIDE DEF q, r
  <2>6. /\ Ordered(q, phase[c] = "ready")
        /\ Greetings(q) # {} => phase[c] = "connected"
        /\ Dropped(q) \cap (Greetings(q) \cup {own[c]}) = {}
        /\ n \in Listed => Dropped(q) \subseteq 1..player_id_seq
        /\ n \in Listed /\ phase[c] = "ready" => own[c] = pidOf[n] /\ pidOf[n] # NoPlayer
        /\ n \in Listed /\ phase[c] # "ready" => Greetings(q) = {pidOf[n]} \ {NoPlayer}
        /\ n \in Joined /\ screen[c] # "crashed" =>
             Players \subseteq After(q, roster[c]) /\ After(q, roster[c]) \subseteq Players \cup kept[c]
    BY <2>3 DEF Wire, Roster, q
  <2> DEFINE Goal ==
        /\ Ordered(r, phase[c] = "ready")
        /\ Greetings(r) # {} => phase[c] = "connected"
        /\ Dropped(r) \cap (Greetings(r) \cup {own[c]}) = {}
        /\ n \in Listed' => Dropped(r) \subseteq 1..player_id_seq
        /\ n \in Listed' /\ phase[c] = "ready" => own[c] = pidOf'[n] /\ pidOf'[n] # NoPlayer
        /\ n \in Listed' /\ phase[c] # "ready" => Greetings(r) = {pidOf'[n]} \ {NoPlayer}
        /\ n \in Joined' /\ screen[c] # "crashed" =>
             Players' \subseteq After(r, roster[c]) /\ After(r, roster[c]) \subseteq Players' \cup kept[c]
  <2>7. Goal => Wire(c, chan[net[c]])'
    BY <1>2 DEF Wire, Roster, r
  <2>8. CASE n = k
    <3>1. n \notin Listed' /\ n \notin Joined'
      BY <2>8, <1>1, <1>8
    <3>2. Ordered(r, phase[c] = "ready") /\ Greetings(r) = Greetings(q) /\ Dropped(r) = Dropped(q)
      <4>1. CASE r = q
        BY <4>1, <2>6
      <4>2. CASE r = Append(q, Shutdown)
        <5>1. Shutdown \in Packets /\ Shutdown.type = "shutdown"
          BY DEF Shutdown, Packets
        <5>2. Greetings(r) = Greetings(q) \cup (IF Shutdown.type = "welcome" THEN {Shutdown.pid} ELSE {})
          BY <4>2, <5>1, <2>2, AppendNames
        <5>3. Dropped(r) = Dropped(q) \cup (IF Shutdown.type = "delete" THEN {Shutdown.pid} ELSE {})
          BY <4>2, <5>1, <2>2, AppendNames
        <5>4. Ordered(r, phase[c] = "ready")
          BY <4>2, <5>1, <2>2, <2>6, AppendOrdered
        <5> QED BY <5>1, <5>2, <5>3, <5>4
      <4> QED BY <4>1, <4>2, <2>4, <2>8
    <3>3. Goal
      BY <3>1, <3>2, <2>6
    <3> QED BY <3>3, <2>7
  <2>9. CASE n # k /\ ~(pid # NoPlayer /\ n \in Listed)
    <3>1. r = q /\ pidOf'[n] = pidOf[n] /\ Listed' \subseteq Listed
      BY <2>9, <2>2, <2>4, <1>1
    <3>2. n \in Joined' => n \in Joined /\ Players' = Players
      <4>1. NoPlayer \notin Players
        BY DEF Players, Joined
      <4>2. n \in Joined' => n \in Joined /\ n \in Listed
        BY <1>6, <1>8
      <4>3. n \in Joined' => pid = NoPlayer
        BY <4>2, <2>9
      <4> QED BY <4>1, <4>2, <4>3, <1>8
    <3>3. Goal
      BY <2>6, <3>1, <3>2
    <3> QED BY <3>3, <2>7
  <2>10. CASE n # k /\ pid # NoPlayer /\ n \in Listed
    <3>1. r = Append(q, gone) /\ pidOf'[n] = pidOf[n] /\ gone \in Packets /\ n \in Listed'
      BY <2>10, <2>2, <2>4, <1>1
    <3>2. Greetings(r) = Greetings(q) /\ Dropped(r) = Dropped(q) \cup {pid}
      <4>1. Greetings(r) = Greetings(q) \cup (IF gone.type = "welcome" THEN {gone.pid} ELSE {})
        BY <3>1, <2>2, AppendNames
      <4>2. Dropped(r) = Dropped(q) \cup (IF gone.type = "delete" THEN {gone.pid} ELSE {})
        BY <3>1, <2>2, AppendNames
      <4> QED BY <4>1, <4>2, <1>3
    <3>3. Ordered(r, phase[c] = "ready")
      BY <3>1, <1>3, <2>2, <2>6, AppendOrdered
    <3>4. After(r, roster[c]) = After(q, roster[c]) \ {pid}
      <4>1. After(q, roster[c]) \subseteq Ids
        BY DEF After
      <4>2. \A p : (Drops(gone, p) <=> p = pid) /\ ~Adds(gone, p)
        BY <1>3 DEF Adds, Drops
      <4>3. After(r, roster[c]) = {p \in Ids : Adds(gone, p) \/ (p \in After(q, roster[c]) /\ ~Drops(gone, p))}
        BY <3>1, <2>2, AppendAfter
      <4> QED BY <4>1, <4>2, <4>3
    <3>5. pid \in 1 .. player_id_seq
      <4>1. pid \in Ids /\ pid <= player_id_seq /\ player_id_seq \in Nat
        BY <2>10, <1>6 DEF Unique, pid, Typed, TypeOK
      <4>2. pid \in Nat \ {0}
        BY <4>1, ConnsFacts DEF Ids
      <4> QED BY <4>1, <4>2
    <3>6. pidOf[n] # pid
      BY <2>2, <2>10, <1>6 DEF Unique, pid
    <3>7. pid \notin Greetings(q) \cup {own[c]}
      <4>1. CASE phase[c] = "ready"
        BY <4>1, <2>6, <2>10, <3>6
      <4>2. CASE phase[c] # "ready"
        BY <4>2, <2>6, <2>10, <3>6, <1>6 DEF Stages
      <4> QED BY <4>1, <4>2
    <3>8. n \in Joined' => n \in Joined
      BY <1>8
    <3>9. Players' = Players \ {pid}
      BY <1>8
    <3>10. Dropped(r) \cap (Greetings(r) \cup {own[c]}) = {} /\ (n \in Listed => Dropped(r) \subseteq 1..player_id_seq)
      BY <2>6, <3>2, <3>5, <3>7
    <3>11. Goal
      BY <2>6, <2>10, <3>1, <3>2, <3>3, <3>4, <3>8, <3>9, <3>10
    <3> QED BY <3>11, <2>7
  <2> QED BY <2>8, <2>9, <2>10
<1>15. Counted'
  <2>1. Spent \subseteq Spent'
    BY <1>1, <1>2 DEF Spent
  <2>2. player_id_seq' \in Nat /\ player_id_seq' <= player_id_seq
    BY <1>2, <1>6 DEF Typed, TypeOK
  <2>3. player_id_seq' <= Cardinality(Spent')
    BY <2>1, <2>2, <1>2, <1>6, CountSpent
  <2> QED BY <2>3, <1>5 DEF Counted
<1> QED BY <1>7, <1>10, <1>11, <1>12, <1>13, <1>14, <1>15

LEMMA StepReadEnd == ASSUME IInv, NEW k \in Conns, read_client_end(k) PROVE IInv'
<1> USE DEF IInv, read_client_end
<1>1. chan \in [Conns -> Seq(Packets)] /\ faults \in 0 .. MaxFaults
  BY DEF Typed
<1>2. server_close_client(k, chan) /\ k \in Listed
  OBVIOUS
<1>3. /\ Listed' = Listed \ {k}
      /\ \A j \in Conns : j \notin Listed => chan'[j] = chan[j]
  BY <1>1, <1>2, Closed
<1>4. CutOff' \subseteq CutOff
  <2>1. SUFFICES ASSUME NEW c \in Clients, Cut(c)' PROVE Cut(c)
    BY DEF CutOff
  <2>2. /\ net' = net /\ screen' = screen /\ phase' = phase /\ mode' = mode /\ mode = "up"
    BY DEF clientVars
  <2>3. net[c] # NoConn /\ net[c] \in Conns /\ screen[c] # "crashed"
    BY <2>1, <2>2 DEF Cut, Typed, TypeOK
  <2>4. net[c] # k /\ net[c] \notin Listed
    BY <2>1, <2>2, <2>3, <1>3 DEF Cut
  <2>5. chan'[net[c]] = chan[net[c]]
    BY <2>3, <2>4, <1>3
  <2> QED BY <2>1, <2>2, <2>4, <2>5 DEF Cut
<1>5. UNCHANGED <<port, mode, player_id_seq, backlog, pings, replies, clientVars, used, joins, faults>>
  OBVIOUS
<1>6. used' + Cardinality(CutOff') <= joins' + faults' * Cardinality(Clients)
  BY <1>4, <1>5, CountCut
<1> HIDE DEF IInv, read_client_end
<1> QED BY <1>1, <1>2, <1>5, <1>6, StepClose

LEMMA StepChecks == ASSUME IInv, NEW k \in Conns, server_routine_checks(k) PROVE IInv'
<1> USE DEF IInv, server_routine_checks
<1>1. chan \in [Conns -> Seq(Packets)] /\ faults' \in 0 .. MaxFaults
  BY BoundAssumption DEF Typed
<1>2. server_close_client(k, chan)
  OBVIOUS
<1>3. UNCHANGED <<port, mode, player_id_seq, backlog, pings, replies, clientVars, used, joins>> /\ faults' = faults + 1
  OBVIOUS
<1>4. used' + Cardinality(CutOff') <= joins' + faults' * Cardinality(Clients)
  BY <1>3, CountFault
<1> HIDE DEF IInv, server_routine_checks
<1> QED BY <1>1, <1>2, <1>3, <1>4, StepClose

LEMMA StepSignal == ASSUME IInv, signalfd_read PROVE IInv'
<1> USE DEF IInv, signalfd_read, wireVars, clientVars
<1>1. Typed'
  <2>1. TypeOK'
    BY DEF Typed, TypeOK
  <2>2. faults' \in 0 .. MaxFaults
    BY BoundAssumption DEF Typed
  <2> QED BY <2>1, <2>2 DEF Typed
<1>2. Listed' = Listed /\ mode' # "down"
  BY DEF Listed
<1>3. Numbers' /\ Stages' /\ Unique' /\ OwnInRoster'
  BY <1>2 DEF Numbers, Stages, Unique, OwnInRoster
<1>4. Wires'
  <2>1. \A d \in Clients : Wire(d, chan[net[d]])' <=> Wire(d, chan[net[d]])
    BY DEF Wire, Roster, Listed, Joined, Players
  <2> QED BY <2>1 DEF Wires
<1>5. Counted'
  <2>1. used' + Cardinality(CutOff') <= joins' + faults' * Cardinality(Clients)
    BY CountFault
  <2>2. Spent' = Spent
    BY DEF Spent
  <2> QED BY <2>1, <2>2 DEF Counted
<1> QED BY <1>1, <1>3, <1>4, <1>5

LEMMA StepDies == ASSUME IInv, ServerDies PROVE IInv'
<1> USE DEF IInv, ServerDies, clientVars
<1>0. Listed' = {} /\ Once(table') /\ Joined' = {}
  <2>1. \A i : ~(i \in DOMAIN <<>>)
    OBVIOUS
  <2> QED BY <2>1 DEF Listed, Once, Joined
<1>1. \A j \in Conns : chan'[j] = chan[j] \/ chan'[j] = <<>>
  OBVIOUS
<1>2. chan' \in [Conns -> Seq(Packets)]
  BY DEF Typed
<1>3. Typed'
  <2>1. TypeOK'
    BY DEF Typed, TypeOK
  <2>2. faults' \in 0 .. MaxFaults
    BY BoundAssumption DEF Typed
  <2> QED BY <2>1, <2>2, <1>2 DEF Typed
<1>4. Numbers'
  BY <1>0, <1>1 DEF Numbers
<1>5. Stages'
  <2>1. \A c \in Clients : phase[c] = "connecting" \/ phase[c] = "made" => net[c] \in Conns
    BY DEF Numbers, Typed, TypeOK
  <2>2. \A c \in Clients : phase[c] = "connecting" => chan'[net[c]] = <<>> /\ net[c] \notin pings
    BY <2>1, <1>1 DEF Stages
  <2>3. \A c \in Clients : phase[c] = "made" => pidOf'[net[c]] = NoPlayer
    BY <2>1
  <2> QED BY <1>0, <2>2, <2>3 DEF Stages
<1>6. Unique' /\ OwnInRoster'
  BY DEF Unique, OwnInRoster, NoPlayer, Typed, TypeOK
<1>7. Wires'
  <2>1. SUFFICES ASSUME NEW c \in Clients, net[c] # NoConn PROVE Wire(c, chan[net[c]])'
    BY DEF Wires
  <2>2. net[c] \in Conns /\ Wire(c, chan[net[c]])
    BY <2>1 DEF Wires, Typed, TypeOK
  <2> DEFINE r == chan'[net[c]]
             g == phase[c] = "ready"
  <2>3. r = chan[net[c]] \/ r = <<>>
    BY <2>2, <1>1
  <2>4. /\ Ordered(<<>>, g) /\ Greetings(<<>>) = {} /\ Dropped(<<>>) = {}
    BY EmptyQueue
  <2> HIDE DEF r
  <2>5. /\ Ordered(r, g)
        /\ Greetings(r) # {} => phase[c] = "connected"
        /\ Dropped(r) \cap (Greetings(r) \cup {own[c]}) = {}
    BY <2>2, <2>3, <2>4 DEF Wire
  <2> QED BY <2>5, <1>0 DEF Wire, r
<1>8. Counted'
  <2>1. used' + Cardinality(CutOff') <= joins' + faults' * Cardinality(Clients)
    BY CountFault
  <2>2. Spent \subseteq Spent'
    BY DEF Spent
  <2>3. player_id_seq' <= Cardinality(Spent')
    BY <2>2, CountSpent DEF Typed, TypeOK
  <2> QED BY <2>1, <2>3 DEF Counted
<1> QED BY <1>3, <1>4, <1>5, <1>6, <1>7, <1>8

LEMMA StepInit == ASSUME IInv, server_init PROVE IInv'
<1> USE DEF IInv, server_init, wireVars, clientVars
<1>1. Typed'
  <2>1. TypeOK'
    BY DEF Typed, TypeOK
  <2> QED BY <2>1 DEF Typed
<1>2. Listed' = Listed /\ Listed = {} /\ Joined' = {} /\ \A k \in Conns : pidOf[k] = NoPlayer
  BY DEF Listed, Joined, Numbers, Stages
<1>3. Numbers' /\ Stages' /\ OwnInRoster'
  BY <1>2 DEF Numbers, Stages, OwnInRoster
<1>4. Unique'
  BY <1>2 DEF Unique, NoPlayer
<1>5. Wires'
  <2>1. \A c \in Clients : Wire(c, chan[net[c]]) => Wire(c, chan[net[c]])'
    BY <1>2 DEF Wire
  <2> QED BY <2>1 DEF Wires
<1>6. Counted'
  <2>1. CutOff' \subseteq CutOff
    BY <1>2 DEF CutOff, Cut
  <2>2. used' + Cardinality(CutOff') <= joins' + faults' * Cardinality(Clients)
    BY <2>1, CountCut
  <2>3. Spent \subseteq Spent'
    BY DEF Spent
  <2>4. player_id_seq' <= Cardinality(Spent')
    BY <2>3, CountSpent DEF Typed, TypeOK
  <2> QED BY <2>2, <2>4 DEF Counted
<1> QED BY <1>1, <1>3, <1>4, <1>5, <1>6

LEMMA StepServerCleanup == ASSUME IInv, server_cleanup PROVE IInv'
<1> USE DEF IInv
<1>1. CASE table # <<>>
  <2> DEFINE k == Head(table)
             ch == IF pidOf[k] = NoPlayer THEN chan ELSE Sent({k}, Shutdown, chan)
  <2>1. k \in Conns /\ chan \in [Conns -> Seq(Packets)] /\ table \in Seq(Conns)
    BY <1>1 DEF Typed, TypeOK
  <2>2. server_close_client(k, ch)
    BY <1>1 DEF server_cleanup
  <2>3. /\ UNCHANGED <<port, mode, player_id_seq, backlog, pings, replies, clientVars, used, joins, faults>>
        /\ mode = "stopping"
    BY <1>1 DEF server_cleanup
  <2> HIDE DEF k
  <2> DEFINE one == {k}
  <2>4. Shutdown \in Packets
    BY DEF Shutdown, Packets
  <2> HIDE DEF one
  <2>5. Sent(one, Shutdown, chan) \in [Conns -> Seq(Packets)]
    BY <2>1, <2>4, SentType
  <2>6. \A j \in Conns : Sent(one, Shutdown, chan)[j] =
          IF j \in one \cap Open THEN Append(chan[j], Shutdown) ELSE chan[j]
    BY SentTo
  <2>7. ch = chan \/ ch = Sent(one, Shutdown, chan)
    BY DEF one
  <2>8. /\ ch \in [Conns -> Seq(Packets)]
        /\ \A j \in Conns : ch[j] = chan[j] \/ (j = k /\ ch[j] = Append(chan[j], Shutdown))
    <3>1. \A j : j \in one <=> j = k
      BY DEF one
    <3> HIDE DEF ch
    <3> QED BY <2>1, <2>5, <2>6, <2>7, <3>1
  <2> HIDE DEF ch
  <2>9. /\ pidOf[k] # NoPlayer => DeletePlayer(pidOf[k]) \in Packets
        /\ \A j \in Conns : chan'[j] =
             IF pidOf[k] # NoPlayer /\ j \in (Listed \ {k}) \cap Open
             THEN Append(ch[j], DeletePlayer(pidOf[k])) ELSE ch[j]
    BY <2>1, <2>2, <2>8, Closed
  <2>10. CutOff' \subseteq CutOff
    <3>1. SUFFICES ASSUME NEW c \in Clients, Cut(c)' PROVE Cut(c)
      BY DEF CutOff
    <3>2. /\ net' = net /\ screen' = screen /\ phase' = phase /\ mode = "stopping"
      BY <2>3 DEF clientVars
    <3> DEFINE n == net[c]
    <3>3. n # NoConn /\ n \in Conns /\ screen[c] # "crashed"
      BY <3>1, <3>2 DEF Cut, Typed, TypeOK
    <3>4. Greetings(chan'[n]) = Greetings(chan[n])
      <4>0. chan[n] \in Seq(Packets) /\ ch[n] \in Seq(Packets)
        BY <3>3, <2>1, <2>8
      <4>1. Greetings(ch[n]) = Greetings(chan[n])
        <5>1. CASE ch[n] = chan[n]
          BY <5>1
        <5>2. CASE ch[n] = Append(chan[n], Shutdown)
          <6>1. Greetings(ch[n]) = Greetings(chan[n]) \cup (IF Shutdown.type = "welcome" THEN {Shutdown.pid} ELSE {})
            BY <5>2, <4>0, <2>4, AppendNames
          <6> QED BY <6>1 DEF Shutdown
        <5> QED BY <5>1, <5>2, <3>3, <2>8
      <4> DEFINE m == DeletePlayer(pidOf[k])
      <4>2. \/ chan'[n] = ch[n]
            \/ m \in Packets /\ chan'[n] = Append(ch[n], m)
        BY <2>9, <3>3
      <4>3. m.type = "delete"
        BY DEF DeletePlayer
      <4> HIDE DEF m
      <4>4. CASE m \in Packets /\ chan'[n] = Append(ch[n], m)
        <5>1. Greetings(chan'[n]) = Greetings(ch[n]) \cup (IF m.type = "welcome" THEN {m.pid} ELSE {})
          BY <4>4, <4>0, AppendNames
        <5> QED BY <5>1, <4>1, <4>3
      <4> QED BY <4>1, <4>2, <4>4
    <3> QED BY <3>1, <3>2, <3>3, <3>4 DEF Cut
  <2>11. used' + Cardinality(CutOff') <= joins' + faults' * Cardinality(Clients)
    BY <2>3, <2>10, CountCut
  <2>12. faults' \in 0 .. MaxFaults
    BY <2>3 DEF Typed
  <2> HIDE DEF IInv
  <2> QED BY <2>1, <2>2, <2>3, <2>8, <2>11, <2>12, StepClose
<1>2. CASE table = <<>>
  <2>1. /\ mode' = "down" /\ mode = "stopping" /\ backlog' = {}
        /\ UNCHANGED <<port, table, pidOf, requests, chan, player_id_seq, pings, replies,
                       clientVars, used, joins, faults>>
    BY <1>2 DEF server_cleanup
  <2> USE DEF clientVars
  <2>2. Listed' = Listed /\ Listed = {} /\ Joined' = {}
    <3>1. \A i : ~(i \in DOMAIN <<>>)
      OBVIOUS
    <3> QED BY <3>1, <1>2, <2>1 DEF Listed, Joined
  <2>3. Typed'
    <3>1. TypeOK'
      BY <2>1 DEF Typed, TypeOK
    <3> QED BY <3>1, <2>1 DEF Typed
  <2>4. Numbers' /\ Stages' /\ OwnInRoster' /\ Unique'
    BY <2>1, <2>2 DEF Numbers, Stages, OwnInRoster, Unique
  <2>5. Wires'
    <3>1. \A c \in Clients : Wire(c, chan[net[c]]) => Wire(c, chan[net[c]])'
      BY <2>1, <2>2 DEF Wire
    <3> QED BY <2>1, <3>1 DEF Wires
  <2>6. Counted'
    <3>1. CutOff' \subseteq CutOff /\ Spent' = Spent
      BY <2>1, <2>2 DEF CutOff, Cut, Spent
    <3> QED BY <2>1, <2>3, <3>1, CountKept
  <2> QED BY <2>3, <2>4, <2>5, <2>6
<1> QED BY <1>1, <1>2

LEMMA StepHolds == IInv /\ [Next]_vars => IInv'
<1> SUFFICES ASSUME IInv, [Next]_vars PROVE IInv'
  OBVIOUS
<1>1. CASE UNCHANGED vars
  <2>1. /\ UNCHANGED <<port, mode, table, pidOf, player_id_seq, backlog, requests>>
        /\ UNCHANGED <<chan, pings, replies>>
        /\ UNCHANGED <<screen, net, phase, roster, own, saved, kept>>
        /\ UNCHANGED <<used, joins, faults>>
    BY <1>1 DEF vars, serverVars, wireVars, clientVars
  <2>2. Typed' /\ Numbers' /\ Stages' /\ Unique' /\ OwnInRoster'
    BY <2>1 DEF IInv, Typed, TypeOK, Numbers, Stages, Unique, OwnInRoster, Listed
  <2>3. Wires'
    BY <2>1 DEF IInv, Wires, Wire, Roster, Players, Joined, Listed
  <2>4. Counted'
    BY <2>1 DEF IInv, Counted, CutOff, Cut, Spent, Listed
  <2> QED BY <2>2, <2>3, <2>4 DEF IInv
<1>2. ASSUME NEW c \in Clients, User(c) PROVE IInv'
  BY <1>2, StepMainMenuConnect, StepLeaveGame DEF User
<1>3. ASSUME NEW c \in Clients, Handshake(c) PROVE IInv'
  BY <1>3, StepHandshake
<1>4. ASSUME NEW c \in Clients, ClientStep(c) PROVE IInv'
  BY <1>4, StepWriteConnect, StepTcpError, StepWelcome, StepNewPlayer, StepDeletePlayer,
     StepServerShutdown, StepPing, StepReconnect DEF ClientStep
<1>5. ASSUME NEW k \in Conns, ServerStep(k) PROVE IInv'
  BY <1>5, StepAccept, StepConnect, StepReadEnd, StepUdp DEF ServerStep
<1>6. CASE Faults
  BY <1>6, StepSignal, StepDies, StepChecks DEF Faults
<1>7. CASE server_cleanup \/ server_init
  BY <1>7, StepServerCleanup, StepInit
<1> QED BY <1>1, <1>2, <1>3, <1>4, <1>5, <1>6, <1>7 DEF Next

-------------------------------------------------------------------------------
(***************************************************************************)
(* The invariant holds, whatever is lost, repeated or restarted, for any   *)
(* number of clients, joins and faults.                                    *)
(***************************************************************************)
THEOREM Inductive == Spec => []IInv
<1>1. Init => IInv
  BY InitHolds
<1>2. IInv /\ [Next]_vars => IInv'
  BY StepHolds
<1> QED BY <1>1, <1>2, PTL DEF Spec

(***************************************************************************)
(* Numbers of connections and ids of players stay within their bounds,     *)
(* whatever clients join and reconnect.                                    *)
(***************************************************************************)
THEOREM TypeInvariant == Spec => []TypeOK
<1>1. IInv => TypeOK
  BY DEF IInv, Typed
<1> QED BY <1>1, Inductive, PTL

(***************************************************************************)
(* A client whose player is in the game will have the server's players in  *)
(* its game, and game->player among them: the agreement of rosters.        *)
(***************************************************************************)
THEOREM RosterInvariant == Spec => []RosterAgrees
<1>1. IInv => RosterAgrees
  <2> SUFFICES ASSUME IInv, NEW c \in Clients, net[c] \in Joined, screen[c] # "crashed"
               PROVE  Players \subseteq Roster(c) /\ Roster(c) \subseteq Players \cup kept[c]
    BY DEF RosterAgrees, IInv
  <2>1. Joined \subseteq Conns /\ NoConn \notin Conns
    BY ListedConns, ConnsFacts DEF IInv
  <2>2. Wire(c, chan[net[c]])
    BY <2>1 DEF IInv, Wires
  <2> QED BY <2>2 DEF Wire
<1> QED BY <1>1, Inductive, PTL

-------------------------------------------------------------------------------
(* What crashes a client. *)

\* a step that crashes c
Explained(c) ==
  screen[c] # "crashed" /\ screen'[c] = "crashed" =>
    \/ chan' = chan /\ phase[c] = "made" /\ saved[c] = "freed"
    \/ chan' # chan /\ screen[c] = "menu" /\ Packet(c).type = "delete"

LEMMA ExplainedStep == ASSUME IInv, [Next]_vars, NEW c \in Clients PROVE Explained(c)
<1>0. screen \in [Clients -> {"menu", "game", "crashed"}]
  BY DEF IInv, Typed, TypeOK
<1>1. CASE screen' = screen
  BY <1>1 DEF Explained
<1>2. ASSUME NEW d \in Clients, NEW s, screen' = [screen EXCEPT ![d] = s], s # "crashed" PROVE Explained(c)
  BY <1>2, <1>0 DEF Explained
<1>3. ASSUME NEW d \in Clients, tcp_write_connect(d) PROVE Explained(c)
  BY <1>0, <1>3 DEF tcp_write_connect, wireVars, Explained
<1>4. ASSUME NEW d \in Clients, game_new_player(d) PROVE Explained(c)
  <2>1. screen[d] = "game"
    <3> DEFINE q == chan[net[d]]
    <3>1. /\ net[d] \in Conns /\ net[d] # NoConn /\ q # <<>> /\ Head(q).type = "new" /\ screen[d] # "crashed"
      BY <1>4 DEF game_new_player, Receive, IInv, Typed, TypeOK
    <3>2. q \in Seq(Packets) /\ Ordered(q, phase[d] = "ready")
      BY <3>1 DEF IInv, Typed, Wires, Wire
    <3> HIDE DEF q
    <3>3. phase[d] = "ready"
      BY <3>1, <3>2, TailOrdered
    <3> QED BY <3>1, <3>3, <1>0 DEF IInv, Stages
  <2> QED BY <2>1, <1>1, <1>4 DEF game_new_player
<1>5. ASSUME NEW d \in Clients, game_delete_player(d) PROVE Explained(c)
  <2>1. CASE screen[d] = "game"
    BY <2>1, <1>1, <1>5 DEF game_delete_player
  <2>2. CASE screen[d] # "game"
    <3>1. screen[d] = "menu" /\ screen' = [screen EXCEPT ![d] = "crashed"] /\ Packet(d).type = "delete"
      BY <2>2, <1>0, <1>5 DEF game_delete_player, Receive, Packet
    <3>2. chan' # chan
      <4> DEFINE q == chan[net[d]]
      <4>1. net[d] \in Conns /\ q # <<>> /\ chan' = [chan EXCEPT ![net[d]] = Tail(q)]
        BY <1>5 DEF game_delete_player, Receive, Taken, IInv, Typed, TypeOK
      <4>2. q \in Seq(Packets) /\ chan'[net[d]] = Tail(q)
        BY <4>1 DEF IInv, Typed
      <4>3. Tail(q) # q
        <5> HIDE DEF q
        <5>1. Len(Tail(q)) = Len(q) - 1 /\ Len(q) \in Nat
          BY <4>1, <4>2
        <5> QED BY <5>1
      <4> QED BY <4>2, <4>3
    <3> QED BY <3>1, <3>2, <1>0 DEF Explained
  <2> QED BY <2>1, <2>2
<1>6. ASSUME NEW d \in Clients, User(d) \/ Handshake(d) \/ ClientStep(d) PROVE Explained(c)
  <2>1. CASE main_menu_connect(d) \/ Handshake(d) \/ tcp_error(d) \/ client_net_ping_server(d) \/ do_reconnect(d)
    BY <2>1, <1>1 DEF main_menu_connect, Handshake, tcp_error, client_net_ping_server, do_reconnect, clientVars
  <2>2. CASE LeaveGame(d) \/ game_server_shutdown(d)
    BY <2>2, <1>2 DEF LeaveGame, game_server_shutdown, game_cleanup
  <2>3. CASE welcome(d)
    BY <2>3, <1>2 DEF welcome
  <2> QED BY <1>3, <1>4, <1>5, <1>6, <2>1, <2>2, <2>3 DEF User, ClientStep
<1>7. ASSUME NEW k \in Conns, ServerStep(k) \/ server_routine_checks(k) PROVE Explained(c)
  BY <1>1, <1>7 DEF ServerStep, accept_client, client_tcp_connect, read_client_end,
     server_read_udp_packet, server_routine_checks, clientVars
<1>8. CASE signalfd_read \/ ServerDies \/ server_cleanup \/ server_init
  BY <1>1, <1>8 DEF signalfd_read, ServerDies, server_cleanup, server_init, clientVars
<1>9. CASE UNCHANGED vars
  BY <1>1, <1>9 DEF vars, clientVars
<1> QED BY <1>6, <1>7, <1>8, <1>9 DEF Next, Faults

(***************************************************************************)
(* Only a departure told to a client that is not in the game, and a        *)
(* connect under the freed name, can crash a client: nobody is told of a   *)
(* newcomer before its own welcome.                                        *)
(***************************************************************************)
THEOREM CrashInvariant == Spec => CrashesExplained
<1>1. IInv /\ [Next]_vars =>
        [\A c \in Clients : screen[c] # "crashed" /\ screen'[c] = "crashed" =>
           \/ chan' = chan /\ phase[c] = "made" /\ saved[c] = "freed"
           \/ chan' # chan /\ screen[c] = "menu" /\ Packet(c).type = "delete"]_vars
  BY ExplainedStep DEF Explained
<1> QED BY <1>1, Inductive, PTL DEF CrashesExplained, Spec

===============================================================================
