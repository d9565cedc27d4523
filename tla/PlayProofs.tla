------------------------------ MODULE PlayProofs -------------------------------
(***************************************************************************)
(* What both sides of a game know of each other agrees once the channels   *)
(* are empty, for any set of guns and a run of any length: proofs of the   *)
(* invariants of Play.  The argument is the same for the input, the gun    *)
(* and the modes: what the last segment of its kind on its way says is     *)
(* what its sender has, and if there is none the receiver has it already.  *)
(***************************************************************************)
EXTENDS Play, SequenceTheorems, TLAPS

\* no segment of the channel q is of the kind w
Lacks(q, w) == \A n \in DOMAIN q : q[n].what # w

\* the n-th is the last segment of the kind w
LastOf(q, w, n) == q[n].what = w /\ \A m \in DOMAIN q : m > n => q[m].what # w

\* what the last input, and the last request for w, say
LastFlags(q, flags) == \A n \in DOMAIN q : LastOf(q, "input", n) => q[n].flags = flags
LastOn(q, w, on) == \A n \in DOMAIN q : LastOf(q, w, n) => q[n].on = on

\* the last element
Final(q) == q[Len(q)]

Waiting == [what : {"input", "reload"}] \cup [what : {"gun"}, id : Guns]
Answers == [what : {"gun"}, id : Guns] \cup [what : {"state"}, id : Guns, ammo : Ammo]
Requests == [what : {"bot", "stats"}, on : BOOLEAN]

Games == [chat : BOOLEAN, menu : BOOLEAN, bot : BOOLEAN,
          input : SUBSET Bits, prev : SUBSET Bits]
Owns == [input : SUBSET Bits, gun : Guns, ammo : Ammo, name : Nat]
Servers == [input : SUBSET Bits, next : SUBSET Bits, records : SUBSET SUBSET Bits,
            heard : BOOLEAN, filed : 0 .. 2, gun : Guns, ammo : Ammo,
            bot : BOOLEAN, stats : BOOLEAN, name : Nat]
Reasons == Parted \cup {"unsent"}

\* the types of all that is listed in TypeOK, and of the channels
Typed ==
  /\ game \in Games /\ own \in Owns /\ server \in Servers
  /\ app \in [bot : BOOLEAN, stats : BOOLEAN]
  /\ held \in SUBSET Bits /\ odd \in SUBSET Bits
  /\ unheard \subseteq Reasons /\ lost \subseteq {"bot", "stats", "name"}
  /\ asks \in 0 .. MaxAsks
  /\ pushed \in Seq(Waiting) /\ up \in Seq(Segments) /\ down \in Seq(Answers)
  /\ tcpUp \in Seq(Requests) /\ tcpDown \in Seq(Nat)
  /\ server.bot => server.name >= 1

\* The prediction's input is the one last pushed, the last one on its way is
\* the prediction's, and with none on its way the server has filed it, unless
\* it was parted from it.
InputInv ==
  /\ "unsent" \in unheard \/ own.input = game.prev
  /\ ~Lacks(pushed, "input") => own.input = game.prev
  /\ Lacks(pushed, "input") => LastFlags(up, own.input)
  /\ Lacks(pushed, "input") /\ Lacks(up, "input") =>
       unheard \cap Parted # {} \/ server.next = own.input

\* The last answer on its way names the server's gun; with none, and no
\* change asked for, the client has that gun.
GunInv ==
  /\ down # <<>> => Final(down).id = server.gun
  /\ down = <<>> /\ Lacks(up, "gun") /\ Lacks(pushed, "gun") => own.gun = server.gun

\* The last request on its way asks for what the client shows; the last name
\* is the server's.
BotInv ==
  "bot" \notin lost =>
    /\ LastOn(tcpUp, "bot", game.bot)
    /\ Lacks(tcpUp, "bot") => server.bot = game.bot

StatsInv ==
  "stats" \notin lost =>
    /\ LastOn(tcpUp, "stats", app.stats)
    /\ Lacks(tcpUp, "stats") => server.stats = app.stats

NameInv ==
  /\ "name" \notin lost => server.name = (IF server.bot THEN 1 ELSE 0)
  /\ tcpDown # <<>> => Final(tcpDown) = server.name
  /\ tcpDown = <<>> => own.name = server.name

ModeInv == BotInv /\ StatsInv /\ NameInv

-------------------------------------------------------------------------------
(* Channels. *)

LEMMA Elements ==
  ASSUME NEW S, NEW q \in Seq(S)
  PROVE  /\ Len(q) \in Nat /\ DOMAIN q = 1..Len(q)
         /\ \A n \in DOMAIN q : q[n] \in S
         /\ q = <<>> <=> Len(q) = 0
         /\ q # <<>> => Len(q) \in DOMAIN q
  BY LenProperties, ElementOfSeq, EmptySeq

LEMMA AppendLast ==
  ASSUME NEW S, NEW q \in Seq(S), NEW e \in S, NEW w
  PROVE  /\ Append(q, e) \in Seq(S) /\ Append(q, e) # <<>>
         /\ Final(Append(q, e)) = e
         /\ Lacks(Append(q, e), w) <=> Lacks(q, w) /\ e.what # w
         /\ e.what = w => LastOn(Append(q, e), w, e.on)
         /\ \A on : e.what # w /\ LastOn(q, w, on) => LastOn(Append(q, e), w, on)
  <1> DEFINE r == Append(q, e)
  <1>1. /\ r \in Seq(S) /\ r # <<>> /\ Len(r) = Len(q) + 1 /\ r[Len(q) + 1] = e
        /\ \A i \in 1..Len(q) : r[i] = q[i]
    BY AppendProperties
  <1>2. Len(q) \in Nat /\ DOMAIN q = 1..Len(q) /\ DOMAIN r = 1..(Len(q) + 1)
    BY <1>1, Elements
  <1> HIDE DEF r
  <1>3. Lacks(r, w) <=> Lacks(q, w) /\ e.what # w
    BY <1>1, <1>2 DEF Lacks
  <1>4. e.what = w => LastOn(r, w, e.on)
    BY <1>1, <1>2 DEF LastOn, LastOf
  <1>5. ASSUME NEW on, e.what # w, LastOn(q, w, on) PROVE LastOn(r, w, on)
    BY <1>1, <1>2, <1>5 DEF LastOn, LastOf
  <1>6. Final(r) = e
    BY <1>1 DEF Final
  <1> QED BY <1>1, <1>3, <1>4, <1>5, <1>6 DEF r

LEMMA TailLast ==
  ASSUME NEW S, NEW q \in Seq(S), q # <<>>, NEW w
  PROVE  /\ Head(q) \in S /\ Tail(q) \in Seq(S)
         /\ Tail(q) = <<>> => Final(q) = Head(q)
         /\ Tail(q) # <<>> => Final(q) = Final(Tail(q))
         /\ Lacks(Tail(q), w) /\ Head(q).what # w => Lacks(q, w)
         /\ \A on : LastOn(q, w, on) =>
              /\ LastOn(Tail(q), w, on)
              /\ Lacks(Tail(q), w) /\ Head(q).what = w => Head(q).on = on
         /\ \A flags : LastFlags(q, flags) =>
              /\ LastFlags(Tail(q), flags)
              /\ Lacks(Tail(q), "input") /\ Head(q).what = "input" => Head(q).flags = flags
  <1> DEFINE r == Tail(q)
             h == Head(q)
  <1>1. /\ h \in S /\ r \in Seq(S) /\ Len(r) = Len(q) - 1
        /\ \A i \in 1..Len(r) : r[i] = q[i + 1]
    BY HeadTailProperties
  <1>2. /\ Len(q) \in Nat \ {0} /\ DOMAIN q = 1..Len(q) /\ DOMAIN r = 1..(Len(q) - 1)
        /\ r = <<>> <=> Len(r) = 0
    <2>1. Len(q) \in Nat /\ Len(q) # 0 /\ DOMAIN q = 1..Len(q)
      BY Elements
    <2>2. DOMAIN r = 1..Len(r) /\ (r = <<>> <=> Len(r) = 0)
      BY <1>1, Elements
    <2> QED BY <1>1, <2>1, <2>2
  <1>3. h = q[1]
    BY <1>2
  <1> HIDE DEF r, h
  <1>4. (r = <<>> => Final(q) = h) /\ (r # <<>> => Final(q) = Final(r))
    BY <1>1, <1>2, <1>3 DEF Final
  <1>5. \A n \in DOMAIN q : n = 1 \/ (n - 1 \in DOMAIN r /\ r[n - 1] = q[n])
    BY <1>1, <1>2
  <1>6. Lacks(r, w) /\ h.what # w => Lacks(q, w)
    BY <1>2, <1>3, <1>5 DEF Lacks
  <1>7. \A v : Lacks(r, v) /\ h.what = v => LastOf(q, v, 1)
    BY <1>2, <1>3, <1>5 DEF Lacks, LastOf
  <1>8. ASSUME NEW v, NEW n \in DOMAIN r, LastOf(r, v, n)
        PROVE  n + 1 \in DOMAIN q /\ r[n] = q[n + 1] /\ LastOf(q, v, n + 1)
    <2>1. n \in 1..(Len(q) - 1) /\ r[n].what = v /\ r[n] = q[n + 1] /\ n + 1 \in DOMAIN q
      BY <1>1, <1>2, <1>8 DEF LastOf
    <2>2. ASSUME NEW m \in DOMAIN q, m > n + 1 PROVE q[m].what # v
      BY <2>1, <2>2, <1>2, <1>5, <1>8 DEF LastOf
    <2> QED BY <2>1, <2>2 DEF LastOf
  <1>9. 1 \in DOMAIN q
    BY <1>2
  <1>10. ASSUME NEW on, LastOn(q, w, on)
         PROVE  LastOn(r, w, on) /\ (Lacks(r, w) /\ h.what = w => h.on = on)
    BY <1>3, <1>7, <1>8, <1>9, <1>10 DEF LastOn
  <1>11. ASSUME NEW flags, LastFlags(q, flags)
         PROVE  /\ LastFlags(r, flags)
                /\ Lacks(r, "input") /\ h.what = "input" => h.flags = flags
    BY <1>3, <1>7, <1>8, <1>9, <1>11 DEF LastFlags
  <1> QED BY <1>1, <1>4, <1>6, <1>10, <1>11 DEF r, h

LEMMA ConcatLast ==
  ASSUME NEW S, NEW q \in Seq(S), NEW r \in Seq(S), NEW w
  PROVE  /\ q \o r \in Seq(S)
         /\ Lacks(q \o r, w) <=> Lacks(q, w) /\ Lacks(r, w)
         /\ \A flags : Lacks(r, "input") /\ LastFlags(q, flags) => LastFlags(q \o r, flags)
         /\ \A flags :
              /\ ~Lacks(r, "input")
              /\ \A m \in DOMAIN r : r[m].what = "input" => r[m].flags = flags
              => LastFlags(q \o r, flags)
  <1> DEFINE s == q \o r
  <1>1. /\ s \in Seq(S) /\ Len(s) = Len(q) + Len(r)
        /\ \A i \in 1..(Len(q) + Len(r)) :
             s[i] = IF i <= Len(q) THEN q[i] ELSE r[i - Len(q)]
    BY ConcatProperties
  <1>2. /\ Len(q) \in Nat /\ Len(r) \in Nat
        /\ DOMAIN q = 1..Len(q) /\ DOMAIN r = 1..Len(r)
        /\ DOMAIN s = 1..(Len(q) + Len(r))
    BY <1>1, Elements
  <1> HIDE DEF s
  <1>3. /\ \A i \in DOMAIN q : i \in DOMAIN s /\ s[i] = q[i]
        /\ \A i \in DOMAIN r : Len(q) + i \in DOMAIN s /\ s[Len(q) + i] = r[i]
        /\ \A i \in DOMAIN s : i \in DOMAIN q \/ (i - Len(q) \in DOMAIN r /\ s[i] = r[i - Len(q)])
    BY <1>1, <1>2
  <1>4. Lacks(s, w) <=> Lacks(q, w) /\ Lacks(r, w)
    BY <1>3 DEF Lacks
  <1>5. ASSUME NEW flags, Lacks(r, "input"), LastFlags(q, flags)
        PROVE  LastFlags(s, flags)
    <2> SUFFICES ASSUME NEW n \in DOMAIN s, LastOf(s, "input", n)
                 PROVE  s[n].flags = flags
      BY DEF LastFlags
    <2>1. n \in DOMAIN q /\ s[n] = q[n]
      BY <1>3, <1>5 DEF LastOf, Lacks
    <2>2. LastOf(q, "input", n)
      BY <2>1, <1>3 DEF LastOf
    <2> QED BY <2>1, <2>2, <1>5 DEF LastFlags
  <1>6. ASSUME NEW flags, ~Lacks(r, "input"),
               \A m \in DOMAIN r : r[m].what = "input" => r[m].flags = flags
        PROVE  LastFlags(s, flags)
    <2> SUFFICES ASSUME NEW n \in DOMAIN s, LastOf(s, "input", n)
                 PROVE  s[n].flags = flags
      BY DEF LastFlags
    <2>1. PICK i \in DOMAIN r : r[i].what = "input"
      BY <1>6 DEF Lacks
    <2>2. n \notin DOMAIN q
      BY <2>1, <1>2, <1>3 DEF LastOf
    <2> QED BY <2>2, <1>3, <1>6 DEF LastOf
  <1> QED BY <1>1, <1>4, <1>5, <1>6 DEF s

-------------------------------------------------------------------------------
(* Types. *)

LEMMA TypedTypeOK == Typed => TypeOK
  <1> SUFFICES ASSUME Typed PROVE TypeOK
    OBVIOUS
  <1>1. \A n \in DOMAIN up : up[n] \in Segments
    BY Elements DEF Typed
  <1>2. \A n \in DOMAIN tcpUp : tcpUp[n] \in [what : {"bot", "stats"}, on : BOOLEAN]
    BY Elements DEF Typed, Requests
  <1> QED BY <1>1, <1>2 DEF Typed, TypeOK, Games, Owns, Servers, Reasons

\* the bits in question are bits
LEMMA DifferBits == ASSUME NEW S, NEW T PROVE Differ(S, T) \in SUBSET Bits
  BY DEF Differ

LEMMA AskCounts == ASSUME asks \in 0 .. MaxAsks, Ask PROVE asks' \in 0 .. MaxAsks
  BY MaxAsksAssumption DEF Ask

\* what serializing makes of the segments that wait
LEMMA SerializedEffect ==
  ASSUME NEW q \in Seq(Waiting), NEW input \in SUBSET Bits
  PROVE  /\ Serialized(q, input) \in Seq(Segments)
         /\ \A n \in DOMAIN Serialized(q, input) :
              Serialized(q, input)[n].what = "input" => Serialized(q, input)[n].flags = input
         /\ \A w : Lacks(Serialized(q, input), w) <=> Lacks(q, w)
  <1> DEFINE r == Serialized(q, input)
  <1>1. Len(q) \in Nat /\ DOMAIN q = 1..Len(q) /\ \A n \in DOMAIN q : q[n] \in Waiting
    BY Elements
  <1>2. /\ DOMAIN r = DOMAIN q
        /\ \A n \in DOMAIN q : r[n] = IF q[n].what = "input" THEN [what |-> "input", flags |-> input]
                                      ELSE q[n]
    BY DEF Serialized
  <1>3. r = [n \in 1..Len(q) |-> r[n]]
    BY <1>1 DEF Serialized
  <1> HIDE DEF r
  <1>4. \A n \in DOMAIN q : r[n] \in Segments /\ r[n].what = q[n].what
                           /\ (q[n].what = "input" => r[n].flags = input)
    BY <1>1, <1>2 DEF Waiting, Segments
  <1>5. r \in [1..Len(q) -> Segments]
    BY <1>1, <1>3, <1>4
  <1>6. r \in Seq(Segments)
    BY <1>1, <1>5, SeqDef
  <1>7. \A w : Lacks(r, w) <=> Lacks(q, w)
    BY <1>2, <1>4 DEF Lacks
  <1> QED BY <1>2, <1>4, <1>6, <1>7 DEF r

\* what a key or a button changes
LEMMA KeyEffect ==
  ASSUME Typed, game_handle_key
  PROVE  /\ game' \in Games /\ game'.prev = game.prev /\ game'.bot = game.bot
         /\ held' \in SUBSET Bits /\ odd' \in SUBSET Bits /\ asks' \in 0 .. MaxAsks
         /\ UNCHANGED <<app, own, pushed, net, server, unheard, lost>>
  <1>1. game \in Games /\ held \in SUBSET Bits /\ odd \in SUBSET Bits /\ asks' \in 0 .. MaxAsks
    BY AskCounts DEF Typed, game_handle_key
  <1>2. UNCHANGED <<app, own, pushed, net, server, unheard, lost>>
    BY DEF game_handle_key
  <1>3. CASE \E b \in Bits : Press(b)
    BY <1>1, <1>2, <1>3, DifferBits DEF Press, Pressed, Games
  <1>4. CASE \E b \in Bits : Release(b)
    BY <1>1, <1>2, <1>4, DifferBits DEF Release, Released, Games, Xor, Bits
  <1>5. CASE HoldFire
    BY <1>1, <1>2, <1>5, DifferBits DEF HoldFire, Games, Xor, Bits
  <1>6. CASE Enter \/ Escape
    BY <1>1, <1>2, <1>6 DEF Enter, Escape, Games
  <1> QED BY <1>3, <1>4, <1>5, <1>6 DEF game_handle_key

\* what a frame makes of the input
LEMMA PushEffect ==
  ASSUME Typed, NEW input \in SUBSET Bits
  PROVE  /\ Push(input) \in Seq(Waiting)
         /\ input = game.prev => Push(input) = pushed
         /\ input # game.prev => ~Lacks(Push(input), "input")
         /\ \A w : w # "input" => (Lacks(Push(input), w) <=> Lacks(pushed, w))
  <1> DEFINE e == [what |-> "input"]
  <1>1. pushed \in Seq(Waiting) /\ e \in Waiting /\ e.what = "input"
    BY DEF Typed, Waiting
  <1>2. Push(input) = IF input = game.prev THEN pushed ELSE Append(pushed, e)
    BY DEF Push
  <1> HIDE DEF e
  <1>3. \A w : /\ Append(pushed, e) \in Seq(Waiting)
               /\ Lacks(Append(pushed, e), w) <=> Lacks(pushed, w) /\ e.what # w
    BY <1>1, AppendLast
  <1> QED BY <1>1, <1>2, <1>3

LEMMA TypedInit == Init => Typed
  <1> SUFFICES ASSUME Init PROVE Typed
    OBVIOUS
  <1>1. app \in [bot : BOOLEAN, stats : BOOLEAN]
    BY DEF Init
  <1>2. tcpUp \in Seq(Requests)
    <2>1. [what |-> "bot", on |-> TRUE] \in Requests
      BY DEF Requests
    <2> QED BY <2>1, EmptySeq DEF Init
  <1>3. game \in Games /\ own \in Owns /\ server \in Servers
    BY <1>1, GunsAssumption
       DEF Init, NewGame, OwnPlayer, NewPlayer, Games, Owns, Servers, Ammo
  <1>4. pushed \in Seq(Waiting) /\ up \in Seq(Segments) /\ down \in Seq(Answers)
        /\ tcpDown \in Seq(Nat)
    BY EmptySeq DEF Init
  <1>5. held = {} /\ odd = {} /\ unheard = {} /\ lost = {} /\ asks \in 0 .. MaxAsks
        /\ ~server.bot
    BY MaxAsksAssumption DEF Init, NewPlayer
  <1> QED BY <1>1, <1>2, <1>3, <1>4, <1>5 DEF Typed

\* the client's steps on its gun
LEMMA TypedOwnGun ==
  ASSUME Typed,
         \/ \E id \in Guns : game_handle_num_keys(id)
         \/ coregame_player_reload
         \/ OwnGunUpdate
  PROVE  /\ own' \in Owns /\ own'.input = own.input /\ own'.name = own.name
         /\ pushed' \in Seq(Waiting) /\ asks' \in 0 .. MaxAsks
         /\ UNCHANGED <<held, game, app, net, server, odd, unheard, lost>>
         /\ \A w : w # "gun" /\ w # "reload" => (Lacks(pushed', w) <=> Lacks(pushed, w))
         /\ Lacks(pushed', "gun") => own'.gun = own.gun /\ Lacks(pushed, "gun")
  <1>1. CASE \E id \in Guns : game_handle_num_keys(id)
    <2>1. PICK id \in Guns : game_handle_num_keys(id)
      BY <1>1
    <2> DEFINE e == [what |-> "gun", id |-> id]
    <2>2. e \in Waiting /\ e.what = "gun" /\ pushed \in Seq(Waiting)
      BY DEF Waiting, Typed
    <2>3. own' = [own EXCEPT !.gun = id, !.ammo = "full"] /\ pushed' = Append(pushed, e) /\ Ask
          /\ UNCHANGED <<held, game, app, net, server, odd, unheard, lost>>
      BY <2>1 DEF game_handle_num_keys, Changed
    <2> HIDE DEF e
    <2>4. \A w : Lacks(pushed', w) <=> Lacks(pushed, w) /\ e.what # w
      BY <2>2, <2>3, AppendLast
    <2>5. pushed' \in Seq(Waiting)
      BY <2>2, <2>3, AppendLast
    <2>6. own' \in Owns /\ own'.input = own.input /\ own'.name = own.name
      BY <2>3 DEF Typed, Owns, Ammo
    <2> QED BY <2>2, <2>3, <2>4, <2>5, <2>6, AskCounts DEF Typed
  <1>2. CASE ~\E id \in Guns : game_handle_num_keys(id)
    <2> DEFINE e == [what |-> "reload"]
    <2>1. e \in Waiting /\ e.what = "reload" /\ pushed \in Seq(Waiting)
      BY DEF Waiting, Typed
    <2>2. /\ asks' \in 0 .. MaxAsks
          /\ UNCHANGED <<held, game, app, net, server, odd, unheard, lost>>
      BY <1>2, AskCounts DEF coregame_player_reload, OwnGunUpdate, Typed
    <2>3. /\ \E ammo \in Ammo : own' = [own EXCEPT !.ammo = ammo]
          /\ pushed' = pushed \/ pushed' = Append(pushed, e)
      BY <1>2 DEF coregame_player_reload, OwnGunUpdate, Empty, Ammo
    <2> HIDE DEF e
    <2>4. /\ pushed' \in Seq(Waiting)
          /\ \A w : w # "reload" => (Lacks(pushed', w) <=> Lacks(pushed, w))
      <3>1. CASE pushed' = pushed
        BY <2>1, <3>1
      <3>2. CASE pushed' = Append(pushed, e)
        <4>1. Append(pushed, e) \in Seq(Waiting)
          BY <2>1, AppendLast
        <4>2. \A w : Lacks(Append(pushed, e), w) <=> Lacks(pushed, w) /\ e.what # w
          BY <2>1, AppendLast
        <4> QED BY <2>1, <3>2, <4>1, <4>2
      <3> QED BY <2>3, <3>1, <3>2
    <2>5. own' \in Owns /\ own'.input = own.input /\ own'.name = own.name /\ own'.gun = own.gun
      BY <2>3 DEF Typed, Owns, Ammo
    <2> QED BY <2>2, <2>4, <2>5
  <1> QED BY <1>1, <1>2

-------------------------------------------------------------------------------
(* The client's steps. *)

IInv == Typed /\ InputInv /\ GunInv /\ ModeInv

\* keys change the game's input only
LEMMA StepKey == ASSUME IInv, game_handle_key PROVE IInv'
  <1>1. /\ game' \in Games /\ game'.prev = game.prev /\ game'.bot = game.bot
        /\ held' \in SUBSET Bits /\ odd' \in SUBSET Bits /\ asks' \in 0 .. MaxAsks
        /\ UNCHANGED <<app, own, pushed, net, server, unheard, lost>>
    BY KeyEffect DEF IInv
  <1>2. Typed'
    BY <1>1 DEF IInv, Typed, net
  <1>3. InputInv'
    BY <1>1 DEF IInv, InputInv, net
  <1>4. GunInv'
    BY <1>1 DEF IInv, GunInv, net
  <1>5. ModeInv'
    BY <1>1 DEF IInv, ModeInv, BotInv, StatsInv, NameInv, net
  <1> QED BY <1>2, <1>3, <1>4, <1>5 DEF IInv

\* a gun of the client's choice is on its way to the server
LEMMA StepOwnGun ==
  ASSUME IInv,
         \/ \E id \in Guns : game_handle_num_keys(id)
         \/ coregame_player_reload
         \/ OwnGunUpdate
  PROVE  IInv'
  <1>1. /\ own' \in Owns /\ own'.input = own.input /\ own'.name = own.name
        /\ pushed' \in Seq(Waiting) /\ asks' \in 0 .. MaxAsks
        /\ UNCHANGED <<held, game, app, net, server, odd, unheard, lost>>
    BY TypedOwnGun DEF IInv
  <1>2. /\ Lacks(pushed', "input") <=> Lacks(pushed, "input")
        /\ Lacks(pushed', "gun") => own'.gun = own.gun /\ Lacks(pushed, "gun")
    BY TypedOwnGun DEF IInv
  <1>3. Typed'
    BY <1>1 DEF IInv, Typed, net
  <1>4. InputInv'
    BY <1>1, <1>2 DEF IInv, InputInv, net
  <1>5. GunInv'
    BY <1>1, <1>2 DEF IInv, GunInv, net
  <1>6. ModeInv'
    BY <1>1 DEF IInv, ModeInv, BotInv, StatsInv, NameInv, net
  <1> QED BY <1>3, <1>4, <1>5, <1>6 DEF IInv

\* a request appended for one of the modes is the last of its kind
LEMMA Requested ==
  ASSUME Typed, NEW w \in {"bot", "stats"}, NEW on \in BOOLEAN,
         tcpUp' = Append(tcpUp, [what |-> w, on |-> on])
  PROVE  /\ tcpUp' \in Seq(Requests)
         /\ ~Lacks(tcpUp', w) /\ LastOn(tcpUp', w, on)
         /\ \A v : v # w => /\ Lacks(tcpUp', v) <=> Lacks(tcpUp, v)
                            /\ \A b : LastOn(tcpUp, v, b) => LastOn(tcpUp', v, b)
  <1> DEFINE e == [what |-> w, on |-> on]
  <1>1. e \in Requests /\ e.what = w /\ e.on = on /\ tcpUp \in Seq(Requests)
        /\ tcpUp' = Append(tcpUp, e)
    BY DEF Requests, Typed
  <1> HIDE DEF e
  <1>2. /\ Append(tcpUp, e) \in Seq(Requests)
        /\ \A v : /\ Lacks(Append(tcpUp, e), v) <=> Lacks(tcpUp, v) /\ e.what # v
                  /\ e.what = v => LastOn(Append(tcpUp, e), v, e.on)
                  /\ \A b : e.what # v /\ LastOn(tcpUp, v, b) => LastOn(Append(tcpUp, e), v, b)
    BY <1>1, AppendLast
  <1> QED BY <1>1, <1>2

\* the stats window's switches ask for what they show
LEMMA StepWindow == ASSUME IInv, game_ui_stats_window PROVE IInv'
  <1>1. /\ UNCHANGED <<held, own, pushed, up, down, tcpDown, server, odd, unheard>>
        /\ asks' \in 0 .. MaxAsks
    BY AskCounts DEF game_ui_stats_window, IInv, Typed
  <1>2. CASE game_send_bot_mode
    <2>1. /\ game' \in Games /\ game'.prev = game.prev /\ game'.bot \in BOOLEAN
          /\ tcpUp' = Append(tcpUp, [what |-> "bot", on |-> game'.bot])
          /\ lost' = lost \ {"bot"} /\ app' = app
      BY <1>2 DEF game_send_bot_mode, IInv, Typed, Games
    <2>2. /\ tcpUp' \in Seq(Requests) /\ ~Lacks(tcpUp', "bot") /\ LastOn(tcpUp', "bot", game'.bot)
          /\ Lacks(tcpUp', "stats") <=> Lacks(tcpUp, "stats")
          /\ \A b : LastOn(tcpUp, "stats", b) => LastOn(tcpUp', "stats", b)
      BY <2>1, Requested DEF IInv
    <2>3. Typed'
      BY <1>1, <2>1, <2>2 DEF IInv, Typed
    <2>4. InputInv' /\ GunInv'
      BY <1>1, <2>1 DEF IInv, InputInv, GunInv
    <2>5. BotInv'
      BY <1>1, <2>1, <2>2 DEF IInv, ModeInv, BotInv
    <2>6. StatsInv'
      BY <1>1, <2>1, <2>2 DEF IInv, ModeInv, StatsInv
    <2>7. NameInv'
      BY <1>1, <2>1 DEF IInv, ModeInv, NameInv
    <2> QED BY <2>3, <2>4, <2>5, <2>6, <2>7 DEF IInv, ModeInv
  <1>3. CASE AskForStats
    <2>1. /\ app' \in [bot : BOOLEAN, stats : BOOLEAN] /\ app'.stats \in BOOLEAN
          /\ tcpUp' = Append(tcpUp, [what |-> "stats", on |-> app'.stats])
          /\ lost' = lost \ {"stats"} /\ game' = game
      BY <1>3 DEF AskForStats, IInv, Typed
    <2>2. /\ tcpUp' \in Seq(Requests) /\ ~Lacks(tcpUp', "stats")
          /\ LastOn(tcpUp', "stats", app'.stats)
          /\ Lacks(tcpUp', "bot") <=> Lacks(tcpUp, "bot")
          /\ \A b : LastOn(tcpUp, "bot", b) => LastOn(tcpUp', "bot", b)
      BY <2>1, Requested DEF IInv
    <2>3. Typed'
      BY <1>1, <2>1, <2>2 DEF IInv, Typed
    <2>4. InputInv' /\ GunInv'
      BY <1>1, <2>1 DEF IInv, InputInv, GunInv
    <2>5. BotInv'
      BY <1>1, <2>1, <2>2 DEF IInv, ModeInv, BotInv
    <2>6. StatsInv'
      BY <1>1, <2>1, <2>2 DEF IInv, ModeInv, StatsInv
    <2>7. NameInv'
      BY <1>1, <2>1 DEF IInv, ModeInv, NameInv
    <2> QED BY <2>3, <2>4, <2>5, <2>6, <2>7 DEF IInv, ModeInv
  <1> QED BY <1>2, <1>3 DEF game_ui_stats_window

\* a frame pushes what is new, and sends all that was pushed
LEMMA StepFrame == ASSUME IInv, game_update PROVE IInv'
  <1>1. PICK input \in BotInputs, elapsed \in BOOLEAN :
          /\ IF input = game.input THEN UNCHANGED <<odd, asks>>
             ELSE Ask /\ odd' = odd \cup Differ(input, held)
          /\ game' = [game EXCEPT !.input = input, !.prev = input]
          /\ IF elapsed
             THEN up' = up \o Serialized(Push(input), input) /\ pushed' = <<>>
             ELSE pushed' = Push(input) /\ UNCHANGED up
          /\ IF input = game.prev THEN UNCHANGED <<own, unheard>>
             ELSE /\ own' = [own EXCEPT !.input = input]
                  /\ unheard' = unheard \ {"unsent"}
          /\ UNCHANGED <<held, app, down, tcpUp, tcpDown, server, lost>>
    BY DEF game_update
  <1>2. input \in SUBSET Bits /\ game \in Games /\ own \in Owns /\ Typed
        /\ pushed \in Seq(Waiting) /\ up \in Seq(Segments)
    BY DEF IInv, Typed, BotInputs, Games, Bits
  <1> DEFINE news == Push(input)
             sent == Serialized(news, input)
  <1>3. /\ news \in Seq(Waiting)
        /\ input = game.prev => news = pushed
        /\ input # game.prev => ~Lacks(news, "input")
        /\ Lacks(news, "gun") <=> Lacks(pushed, "gun")
    BY <1>2, PushEffect
  <1> HIDE DEF news
  <1>4. /\ sent \in Seq(Segments)
        /\ \A m \in DOMAIN sent : sent[m].what = "input" => sent[m].flags = input
        /\ Lacks(sent, "input") <=> Lacks(news, "input")
        /\ Lacks(sent, "gun") <=> Lacks(news, "gun")
    BY <1>2, <1>3, SerializedEffect
  <1>5. /\ game' = [game EXCEPT !.input = input, !.prev = input]
        /\ elapsed => up' = up \o sent /\ pushed' = <<>>
        /\ ~elapsed => pushed' = news /\ up' = up
        /\ input = game.prev => own' = own /\ unheard' = unheard
        /\ input # game.prev => own' = [own EXCEPT !.input = input]
                                /\ unheard' = unheard \ {"unsent"}
        /\ UNCHANGED <<held, app, down, tcpUp, tcpDown, server, lost>>
    BY <1>1 DEF news
  <1> HIDE DEF sent
  <1>6. /\ up \o sent \in Seq(Segments)
        /\ Lacks(up \o sent, "input") <=> Lacks(up, "input") /\ Lacks(sent, "input")
        /\ Lacks(up \o sent, "gun") <=> Lacks(up, "gun") /\ Lacks(sent, "gun")
        /\ \A flags : Lacks(sent, "input") /\ LastFlags(up, flags) => LastFlags(up \o sent, flags)
        /\ ~Lacks(sent, "input") => LastFlags(up \o sent, input)
    BY <1>2, <1>4, ConcatLast
  <1>7. Lacks(<<>>, "input") /\ Lacks(<<>>, "gun") /\ <<>> \in Seq(Waiting)
    BY EmptySeq DEF Lacks
  <1>8. /\ game'.prev = input /\ game'.bot = game.bot /\ game' \in Games
        /\ own' \in Owns /\ own'.gun = own.gun /\ own'.name = own.name
        /\ input # game.prev => own'.input = input
    BY <1>2, <1>5 DEF Games, Owns
  <1>9. asks' \in 0 .. MaxAsks /\ odd' \in SUBSET Bits
    BY <1>1, <1>2, AskCounts, DifferBits DEF Typed
  <1>10. Typed'
    <2>1. up' \in Seq(Segments) /\ pushed' \in Seq(Waiting)
      BY <1>2, <1>3, <1>5, <1>6, <1>7
    <2> QED BY <1>2, <1>5, <1>8, <1>9, <2>1 DEF Typed
  <1>11. "unsent" \in unheard \/ own.input = game.prev
    BY DEF IInv, InputInv
  <1>12. ~Lacks(news, "input") => own'.input = input
    BY <1>3, <1>5, <1>8 DEF IInv, InputInv
  <1>13. Lacks(news, "input") => /\ input = game.prev /\ own' = own /\ unheard' = unheard
                                 /\ Lacks(pushed, "input") /\ LastFlags(up, own.input)
    BY <1>3, <1>5 DEF IInv, InputInv
  <1>14. InputInv'
    <2>1. ("unsent" \in unheard \/ own.input = game.prev)'
      BY <1>5, <1>8, <1>11
    <2>2. (~Lacks(pushed, "input") => own.input = game.prev)'
      BY <1>5, <1>7, <1>8, <1>12
    <2>3. Lacks(pushed', "input") => LastFlags(up', own'.input)
      BY <1>4, <1>5, <1>6, <1>12, <1>13
    <2>4. Lacks(pushed', "input") /\ Lacks(up', "input") =>
            unheard' \cap Parted # {} \/ server'.next = own'.input
      <3> SUFFICES ASSUME Lacks(pushed', "input"), Lacks(up', "input")
                   PROVE  unheard' \cap Parted # {} \/ server'.next = own'.input
        OBVIOUS
      <3>1. Lacks(news, "input") /\ Lacks(up, "input")
        BY <1>4, <1>5, <1>6
      <3>2. unheard \cap Parted # {} \/ server.next = own.input
        BY <3>1, <1>13 DEF IInv, InputInv
      <3> QED BY <3>1, <3>2, <1>5, <1>13
    <2> QED BY <2>1, <2>2, <2>3, <2>4 DEF InputInv
  <1>15. GunInv'
    <2>1. Lacks(up', "gun") /\ Lacks(pushed', "gun") => Lacks(up, "gun") /\ Lacks(pushed, "gun")
      BY <1>3, <1>4, <1>5, <1>6
    <2> QED BY <2>1, <1>5, <1>8 DEF IInv, GunInv
  <1>16. ModeInv'
    BY <1>5, <1>8 DEF IInv, ModeInv, BotInv, StatsInv, NameInv
  <1> QED BY <1>10, <1>14, <1>15, <1>16 DEF IInv

-------------------------------------------------------------------------------
(* The server's steps. *)

\* an input arrives: it is taken, or refused and remembered as such
LEMMA StepInput ==
  ASSUME IInv, UdpSegment, Head(up).what = "input"
  PROVE  IInv'
  <1> DEFINE h == Head(up)
             rest == Tail(up)
  <1>1. /\ up # <<>> /\ h.what = "input" /\ up' = rest /\ player_input(h.flags)
        /\ UNCHANGED <<client, down, tcpUp, tcpDown, odd, lost, asks>>
    BY DEF UdpSegment
  <1>2. /\ h \in Segments /\ rest \in Seq(Segments)
        /\ \A flags : LastFlags(up, flags) =>
             LastFlags(rest, flags) /\ (Lacks(rest, "input") => h.flags = flags)
        /\ Lacks(rest, "gun") => Lacks(up, "gun")
    <2>1. up \in Seq(Segments) /\ up # <<>> /\ h.what # "gun"
      BY <1>1 DEF IInv, Typed
    <2> QED BY <1>1, <2>1, TailLast
  <1>3. h.flags \in SUBSET Bits
    BY <1>1, <1>2 DEF Segments
  <1> HIDE DEF h, rest
  <1>4. /\ server' \in Servers /\ unheard' \subseteq Reasons
        /\ server'.gun = server.gun /\ server'.bot = server.bot
        /\ server'.stats = server.stats /\ server'.name = server.name
        /\ unheard' \cap Parted # {} \/ server'.next = h.flags
        /\ "unsent" \in unheard => "unsent" \in unheard'
    <2>1. server \in Servers /\ unheard \subseteq Reasons
      BY DEF IInv, Typed
    <2>2. 0 \in 0 .. 2 /\ server.filed \in 0 .. 2
      BY <2>1 DEF Servers
    <2>3. /\ Parted \subseteq Reasons /\ "refused" \in Parted /\ "refused" \in Reasons
          /\ "unsent" \notin Parted
      BY DEF Parted, Reasons
    <2>4. ASSUME Refused(h.flags)
          PROVE  /\ unheard' \subseteq Reasons
                 /\ unheard' \cap Parted # {} \/ server.next = h.flags
                 /\ "unsent" \in unheard => "unsent" \in unheard'
      BY <2>1, <2>3, <2>4 DEF Refused
    <2>5. CASE Refused(h.flags) /\ server' = server
      BY <2>1, <2>4, <2>5
    <2>6. CASE \E n \in 0 .. 2 : Drops(h.flags, n)
      <3>1. PICK n \in 0 .. 2 : Drops(h.flags, n)
        BY <2>6
      <3>2. /\ server' \in Servers /\ server'.next = server.next
            /\ server'.gun = server.gun /\ server'.bot = server.bot
            /\ server'.stats = server.stats /\ server'.name = server.name
        BY <2>1, <3>1 DEF Drops, Servers
      <3>3. Refused(h.flags)
        BY <3>1 DEF Drops
      <3> QED BY <2>4, <3>2, <3>3
    <2>7. CASE \E n \in 0 .. 2 : n <= 1 /\ Takes(h.flags, n)
      <3>1. PICK n \in 0 .. 2 : n <= 1 /\ Takes(h.flags, n)
        BY <2>7
      <3>2. n + 1 \in 0 .. 2 /\ server.records \cup {h.flags} \in SUBSET SUBSET Bits
        BY <1>3, <2>1, <3>1 DEF Servers
      <3>3. /\ server' \in Servers /\ server'.next = h.flags
            /\ server'.gun = server.gun /\ server'.bot = server.bot
            /\ server'.stats = server.stats /\ server'.name = server.name
        BY <1>3, <2>1, <3>1, <3>2 DEF Takes, Servers
      <3>4. /\ unheard' \subseteq Reasons
            /\ "unsent" \in unheard => "unsent" \in unheard'
        BY <2>1, <2>3, <3>1 DEF Takes
      <3> QED BY <3>3, <3>4
    <2> QED BY <1>1, <2>2, <2>5, <2>6, <2>7 DEF player_input
  <1>5. Typed'
    BY <1>1, <1>2, <1>4 DEF IInv, Typed, client
  <1>6. InputInv'
    <2>1. Lacks(pushed, "input") => LastFlags(up, own.input)
      BY DEF IInv, InputInv
    <2>2. Lacks(pushed, "input") =>
            LastFlags(rest, own.input) /\ (Lacks(rest, "input") => h.flags = own.input)
      BY <1>2, <2>1
    <2> QED BY <1>1, <1>4, <2>2 DEF IInv, InputInv, client
  <1>7. GunInv'
    BY <1>1, <1>2, <1>4 DEF IInv, GunInv, client
  <1>8. ModeInv'
    BY <1>1, <1>4 DEF IInv, ModeInv, BotInv, StatsInv, NameInv, client
  <1> QED BY <1>5, <1>6, <1>7, <1>8 DEF IInv

\* a tick replays what was filed, or remembers why not
LEMMA StepTick == ASSUME IInv, coregame_update PROVE IInv'
  <1>1. PICK input \in server.records, ammo \in Ammo, killed \in BOOLEAN :
          /\ server' = Replayed(input, IF killed THEN {} ELSE server.records, ammo)
          /\ unheard' = IF input = server.next THEN unheard
                        ELSE unheard \cup {IF killed THEN "killed" ELSE "undone"}
          /\ down' = IF ammo = server.ammo THEN down ELSE Append(down, GunState(ammo))
          /\ UNCHANGED asks \/ Ask
          /\ UNCHANGED <<client, up, tcpUp, tcpDown, odd, lost>>
    BY DEF coregame_update
  <1>2. /\ server \in Servers /\ input \in SUBSET Bits /\ server.gun \in Guns
        /\ unheard \subseteq Reasons /\ down \in Seq(Answers) /\ asks \in 0 .. MaxAsks
    BY DEF IInv, Typed, Servers
  <1> DEFINE kept == (IF killed THEN {} ELSE server.records) \cup {input}
             state == GunState(ammo)
  <1>3. kept \in SUBSET SUBSET Bits
    BY <1>2 DEF Servers
  <1>4. server' = [server EXCEPT !.input = input, !.next = input, !.records = kept, !.ammo = ammo]
    BY <1>1 DEF Replayed
  <1> HIDE DEF kept
  <1>5. /\ server' \in Servers /\ server'.next = input /\ server'.gun = server.gun
        /\ server'.bot = server.bot /\ server'.stats = server.stats /\ server'.name = server.name
    BY <1>2, <1>3, <1>4 DEF Servers
  <1>6. /\ unheard' \subseteq Reasons
        /\ unheard \subseteq unheard' /\ ("unsent" \in unheard' => "unsent" \in unheard)
        /\ unheard' \cap Parted # {} \/ input = server.next
    BY <1>1, <1>2 DEF Reasons, Parted
  <1>7. state \in Answers /\ state.id = server.gun
    BY <1>2 DEF GunState, Answers
  <1>8. down' = down \/ down' = Append(down, state)
    BY <1>1
  <1> HIDE DEF state
  <1>9. down' \in Seq(Answers) /\ (down' = down \/ (down' # <<>> /\ Final(down') = state))
    <2>1. /\ Append(down, state) \in Seq(Answers) /\ Append(down, state) # <<>>
          /\ Final(Append(down, state)) = state
      BY <1>2, <1>7, AppendLast
    <2> QED BY <1>2, <1>8, <2>1
  <1>10. asks' \in 0 .. MaxAsks
    BY <1>1, <1>2, AskCounts
  <1>11. Typed'
    BY <1>1, <1>5, <1>6, <1>9, <1>10 DEF IInv, Typed, client
  <1>12. InputInv'
    <2>1. Lacks(pushed, "input") /\ Lacks(up, "input") =>
            unheard' \cap Parted # {} \/ server'.next = own.input
      BY <1>5, <1>6 DEF IInv, InputInv
    <2> QED BY <1>1, <1>6, <2>1 DEF IInv, InputInv, client
  <1>13. GunInv'
    BY <1>1, <1>5, <1>7, <1>9 DEF IInv, GunInv, client
  <1>14. ModeInv'
    BY <1>1, <1>5 DEF IInv, ModeInv, BotInv, StatsInv, NameInv, client
  <1> QED BY <1>11, <1>12, <1>13, <1>14 DEF IInv

\* a gun asked for is answered with the gun the player has then
LEMMA StepGun ==
  ASSUME IInv, UdpSegment, Head(up).what = "gun"
  PROVE  IInv'
  <1> DEFINE h == Head(up)
             rest == Tail(up)
             answer == [what |-> "gun", id |-> server'.gun]
  <1>1. /\ up # <<>> /\ h.what = "gun" /\ up' = rest
        /\ server' = IF CanChange(server, h.id) THEN Changed(server, h.id) ELSE server
        /\ down' = Append(down, answer)
        /\ UNCHANGED <<client, tcpUp, tcpDown, odd, unheard, lost, asks>>
    BY DEF UdpSegment, player_gun_id
  <1>2. up \in Seq(Segments) /\ up # <<>> /\ h.what # "input"
    BY <1>1 DEF IInv, Typed
  <1>3. /\ h \in Segments /\ rest \in Seq(Segments)
        /\ \A flags : LastFlags(up, flags) => LastFlags(rest, flags)
        /\ Lacks(rest, "input") => Lacks(up, "input")
    BY <1>2, TailLast
  <1>4. h.id \in Guns
    BY <1>1, <1>3 DEF Segments
  <1> HIDE DEF h, rest
  <1>5. /\ server' \in Servers /\ server'.next = server.next /\ server'.bot = server.bot
        /\ server'.stats = server.stats /\ server'.name = server.name
    BY <1>1, <1>4 DEF IInv, Typed, Servers, Changed, Ammo
  <1>6. down \in Seq(Answers) /\ answer \in Answers /\ answer.id = server'.gun
    BY <1>5 DEF IInv, Typed, Servers, Answers
  <1> HIDE DEF answer
  <1>7. down' \in Seq(Answers) /\ down' # <<>> /\ Final(down') = answer
    <2>1. /\ Append(down, answer) \in Seq(Answers) /\ Append(down, answer) # <<>>
          /\ Final(Append(down, answer)) = answer
      BY <1>6, AppendLast
    <2> QED BY <1>1, <2>1
  <1>8. Typed'
    BY <1>1, <1>3, <1>5, <1>7 DEF IInv, Typed, client
  <1>9. InputInv'
    BY <1>1, <1>3, <1>5 DEF IInv, InputInv, client
  <1>10. GunInv'
    BY <1>6, <1>7 DEF GunInv
  <1>11. ModeInv'
    BY <1>1, <1>5 DEF IInv, ModeInv, BotInv, StatsInv, NameInv, client
  <1> QED BY <1>8, <1>9, <1>10, <1>11 DEF IInv

\* a reload empties the magazine, and no more
LEMMA StepReload ==
  ASSUME IInv, UdpSegment, Head(up).what = "reload"
  PROVE  IInv'
  <1> DEFINE h == Head(up)
             rest == Tail(up)
  <1>1. /\ up # <<>> /\ h.what = "reload" /\ up' = rest
        /\ server' = [server EXCEPT !.ammo = "none"]
        /\ UNCHANGED <<client, down, tcpUp, tcpDown, odd, unheard, lost, asks>>
    BY DEF UdpSegment, player_reload
  <1>2. up \in Seq(Segments) /\ up # <<>> /\ h.what # "input" /\ h.what # "gun"
    BY <1>1 DEF IInv, Typed
  <1>3. /\ rest \in Seq(Segments)
        /\ \A flags : LastFlags(up, flags) => LastFlags(rest, flags)
        /\ Lacks(rest, "input") => Lacks(up, "input")
        /\ Lacks(rest, "gun") => Lacks(up, "gun")
    BY <1>2, TailLast
  <1> HIDE DEF h, rest
  <1>4. /\ server' \in Servers /\ server'.next = server.next /\ server'.bot = server.bot
        /\ server'.stats = server.stats /\ server'.name = server.name /\ server'.gun = server.gun
    BY <1>1 DEF IInv, Typed, Servers, Ammo
  <1>5. Typed'
    BY <1>1, <1>3, <1>4 DEF IInv, Typed, client
  <1>6. InputInv'
    BY <1>1, <1>3, <1>4 DEF IInv, InputInv, client
  <1>7. GunInv'
    BY <1>1, <1>3, <1>4 DEF IInv, GunInv, client
  <1>8. ModeInv'
    BY <1>1, <1>4 DEF IInv, ModeInv, BotInv, StatsInv, NameInv, client
  <1> QED BY <1>5, <1>6, <1>7, <1>8 DEF IInv

LEMMA StepUdp == ASSUME IInv, UdpSegment PROVE IInv'
  <1>1. up \in Seq(Segments) /\ up # <<>>
    BY DEF IInv, Typed, UdpSegment
  <1>2. Head(up) \in Segments
    BY <1>1, TailLast
  <1>3. Head(up).what \in {"input", "gun", "reload"}
    BY <1>2 DEF Segments
  <1> QED BY <1>3, StepInput, StepGun, StepReload

\* a mode asked for is the server's from then on
LEMMA StepTcp == ASSUME IInv, TcpSegment PROVE IInv'
  <1> DEFINE h == Head(tcpUp)
             rest == Tail(tcpUp)
  <1>1. /\ tcpUp # <<>> /\ tcpUp' = rest
        /\ IF h.what = "bot" THEN bot_mode(h.on) ELSE want_server_stats(h.on)
        /\ UNCHANGED <<client, up, down, odd, unheard, lost, asks>>
    BY DEF TcpSegment
  <1>2. tcpUp \in Seq(Requests) /\ tcpUp # <<>>
    BY <1>1 DEF IInv, Typed
  <1>3. /\ h \in Requests /\ rest \in Seq(Requests)
        /\ \A w : /\ Lacks(rest, w) /\ h.what # w => Lacks(tcpUp, w)
                  /\ \A on : LastOn(tcpUp, w, on) =>
                       LastOn(rest, w, on) /\ (Lacks(rest, w) /\ h.what = w => h.on = on)
    BY <1>2, TailLast
  <1>4. h.what \in {"bot", "stats"} /\ h.on \in BOOLEAN
    BY <1>3 DEF Requests
  <1> HIDE DEF h, rest
  <1>5. server \in Servers /\ tcpDown \in Seq(Nat) /\ (server.bot => server.name >= 1)
    BY DEF IInv, Typed
  <1>6. CASE h.what = "bot"
    <2>1. /\ server' \in Servers /\ server'.next = server.next /\ server'.gun = server.gun
          /\ server'.stats = server.stats /\ server'.bot = h.on
          /\ server'.bot => server'.name >= 1
          /\ \/ server' = server /\ tcpDown' = tcpDown
             \/ /\ tcpDown' = Append(tcpDown, server'.name)
                /\ server'.bot # server.bot
                /\ server'.name = IF server'.bot THEN server.name + 1 ELSE server.name - 1
      <3>1. bot_mode(h.on)
        BY <1>1, <1>6
      <3>2. CASE h.on = server.bot
        BY <1>5, <3>1, <3>2 DEF bot_mode
      <3>3. CASE h.on # server.bot
        <4>1. /\ server' = [server EXCEPT !.bot = h.on,
                              !.name = IF h.on THEN server.name + 1 ELSE server.name - 1]
              /\ tcpDown' = Append(tcpDown, server'.name)
          BY <3>1, <3>3 DEF bot_mode
        <4>2. server.name \in Nat /\ server.bot \in BOOLEAN
          BY <1>5 DEF Servers
        <4>3. (IF h.on THEN server.name + 1 ELSE server.name - 1) \in Nat
          BY <1>4, <1>5, <3>3, <4>2
        <4>4. /\ server' \in Servers /\ server'.next = server.next /\ server'.gun = server.gun
              /\ server'.stats = server.stats /\ server'.bot = h.on
              /\ server'.name = IF h.on THEN server.name + 1 ELSE server.name - 1
          BY <1>4, <1>5, <4>1, <4>3 DEF Servers
        <4>5. h.on => server'.name >= 1
          BY <4>2, <4>4
        <4> QED BY <3>3, <4>1, <4>4, <4>5
      <3> QED BY <3>2, <3>3
    <2>2. tcpDown' \in Seq(Nat) /\ (tcpDown' # tcpDown => tcpDown' # <<>> /\ Final(tcpDown') = server'.name)
      <3>1. server'.name \in Nat
        BY <2>1 DEF Servers
      <3> DEFINE name == server'.name
      <3>2. /\ Append(tcpDown, name) \in Seq(Nat) /\ Append(tcpDown, name) # <<>>
            /\ Final(Append(tcpDown, name)) = name
        BY <1>5, <3>1, AppendLast
      <3> QED BY <1>5, <2>1, <3>2
    <2>3. Typed'
      BY <1>1, <1>3, <2>1, <2>2 DEF IInv, Typed, client
    <2>4. InputInv' /\ GunInv'
      BY <1>1, <2>1 DEF IInv, InputInv, GunInv, client
    <2>5. BotInv'
      BY <1>1, <1>3, <1>6, <2>1 DEF IInv, ModeInv, BotInv, client
    <2>6. StatsInv'
      BY <1>1, <1>3, <1>6, <2>1 DEF IInv, ModeInv, StatsInv, client
    <2>7. NameInv'
      <3>1. "name" \notin lost => server.name = (IF server.bot THEN 1 ELSE 0)
        BY DEF IInv, ModeInv, NameInv
      <3>2. "name" \notin lost' => server'.name = (IF server'.bot THEN 1 ELSE 0)
        BY <1>1, <1>5, <2>1, <3>1 DEF Servers
      <3>3. tcpDown' = tcpDown => server'.name = server.name
        <4>1. Append(tcpDown, server'.name) # tcpDown
          <5> DEFINE name == server'.name
          <5>1. name \in Nat
            BY <2>1 DEF Servers
          <5> HIDE DEF name
          <5>2. Len(Append(tcpDown, name)) = Len(tcpDown) + 1 /\ Len(tcpDown) \in Nat
            BY <1>5, <5>1, AppendProperties, LenProperties
          <5>3. Append(tcpDown, name) # tcpDown
            BY <5>2
          <5> QED BY <5>3 DEF name
        <4> QED BY <2>1, <4>1
      <3> QED BY <1>1, <2>2, <3>2, <3>3 DEF IInv, ModeInv, NameInv, client
    <2> QED BY <2>3, <2>4, <2>5, <2>6, <2>7 DEF IInv, ModeInv
  <1>7. CASE h.what = "stats"
    <2>1. server' = [server EXCEPT !.stats = h.on] /\ tcpDown' = tcpDown
      BY <1>1, <1>7 DEF want_server_stats
    <2>2. /\ server' \in Servers /\ server'.next = server.next /\ server'.gun = server.gun
          /\ server'.stats = h.on /\ server'.bot = server.bot /\ server'.name = server.name
      BY <1>4, <1>5, <2>1 DEF Servers
    <2>3. Typed'
      BY <1>1, <1>3, <2>1, <2>2 DEF IInv, Typed, client
    <2>4. InputInv' /\ GunInv'
      BY <1>1, <2>2 DEF IInv, InputInv, GunInv, client
    <2>5. BotInv'
      BY <1>1, <1>3, <1>7, <2>2 DEF IInv, ModeInv, BotInv, client
    <2>6. StatsInv'
      BY <1>1, <1>3, <1>7, <2>2 DEF IInv, ModeInv, StatsInv, client
    <2>7. NameInv'
      BY <1>1, <2>1, <2>2 DEF IInv, ModeInv, NameInv, client
    <2> QED BY <2>3, <2>4, <2>5, <2>6, <2>7 DEF IInv, ModeInv
  <1> QED BY <1>4, <1>6, <1>7

\* the state of a gun that was fired goes to the client
LEMMA StepServerGun == ASSUME IInv, coregame_gun_update PROVE IInv'
  <1>1. CASE /\ server.ammo = "none"
             /\ server' = [server EXCEPT !.ammo = "full"]
             /\ UNCHANGED <<client, net, odd, unheard, lost, asks>>
    <2>1. /\ server' \in Servers /\ server'.next = server.next /\ server'.bot = server.bot
          /\ server'.stats = server.stats /\ server'.name = server.name /\ server'.gun = server.gun
      BY <1>1 DEF IInv, Typed, Servers, Ammo
    <2>2. Typed' /\ InputInv' /\ GunInv' /\ ModeInv'
      BY <1>1, <2>1 DEF IInv, Typed, InputInv, GunInv, ModeInv, BotInv, StatsInv, NameInv, client, net
    <2> QED BY <2>2 DEF IInv
  <1>2. CASE \E left \in {"some", "none"} :
               /\ Ask
               /\ server' = [server EXCEPT !.ammo = left]
               /\ down' = Append(down, GunState(left))
               /\ UNCHANGED <<client, up, tcpUp, tcpDown, odd, unheard, lost>>
    <2>1. PICK left \in {"some", "none"} :
               /\ Ask
               /\ server' = [server EXCEPT !.ammo = left]
               /\ down' = Append(down, GunState(left))
               /\ UNCHANGED <<client, up, tcpUp, tcpDown, odd, unheard, lost>>
      BY <1>2
    <2> DEFINE state == GunState(left)
    <2>2. state \in Answers /\ state.id = server.gun /\ down \in Seq(Answers)
          /\ down' = Append(down, state)
      BY <2>1 DEF IInv, Typed, Servers, Answers, Ammo, GunState
    <2> HIDE DEF state
    <2>3. down' \in Seq(Answers) /\ down' # <<>> /\ Final(down') = state
      <3>1. /\ Append(down, state) \in Seq(Answers) /\ Append(down, state) # <<>>
            /\ Final(Append(down, state)) = state
        BY <2>2, AppendLast
      <3> QED BY <2>2, <3>1
    <2>4. /\ server' \in Servers /\ server'.next = server.next /\ server'.bot = server.bot
          /\ server'.stats = server.stats /\ server'.name = server.name /\ server'.gun = server.gun
      BY <2>1 DEF IInv, Typed, Servers, Ammo
    <2>5. asks' \in 0 .. MaxAsks
      BY <2>1, AskCounts DEF IInv, Typed
    <2>6. Typed'
      BY <2>1, <2>3, <2>4, <2>5 DEF IInv, Typed, client
    <2>7. InputInv' /\ ModeInv'
      BY <2>1, <2>4 DEF IInv, InputInv, ModeInv, BotInv, StatsInv, NameInv, client
    <2>8. GunInv'
      BY <2>2, <2>3, <2>4 DEF GunInv
    <2> QED BY <2>6, <2>7, <2>8 DEF IInv
  <1> QED BY <1>1, <1>2 DEF coregame_gun_update

-------------------------------------------------------------------------------
(* The client's handlers, and sessions. *)

\* the last answer leaves the client with the server's gun
LEMMA StepAnswer == ASSUME IInv, UdpAnswer PROVE IInv'
  <1> DEFINE h == Head(down)
             rest == Tail(down)
  <1>1. /\ down # <<>> /\ down' = rest
        /\ IF h.what = "gun" THEN game_player_gun_id(h.id) ELSE game_player_gun_state(h.id, h.ammo)
        /\ UNCHANGED <<held, game, app, pushed, up, tcpUp, tcpDown, server, odd, unheard, lost, asks>>
    BY DEF UdpAnswer
  <1>2. /\ h \in Answers /\ rest \in Seq(Answers)
        /\ rest = <<>> => Final(down) = h
        /\ rest # <<>> => Final(down) = Final(rest)
    <2>1. down \in Seq(Answers) /\ down # <<>>
      BY <1>1 DEF IInv, Typed
    <2> QED BY <2>1, TailLast
  <1> HIDE DEF h, rest
  <1>3. h.id \in Guns /\ (h.what # "gun" => h.ammo \in Ammo)
    BY <1>2 DEF Answers
  <1>4. own' \in Owns /\ own'.gun = h.id /\ own'.input = own.input /\ own'.name = own.name
    BY <1>1, <1>3 DEF game_player_gun_id, game_player_gun_state, Changed, IInv, Typed, Owns, Ammo
  <1>5. Typed'
    BY <1>1, <1>2, <1>4 DEF IInv, Typed
  <1>6. InputInv'
    BY <1>1, <1>4 DEF IInv, InputInv
  <1>7. GunInv'
    BY <1>1, <1>2, <1>4 DEF IInv, GunInv
  <1>8. ModeInv'
    BY <1>1, <1>4 DEF IInv, ModeInv, BotInv, StatsInv, NameInv
  <1> QED BY <1>5, <1>6, <1>7, <1>8 DEF IInv

\* the last name leaves the client with the server's
LEMMA StepName == ASSUME IInv, game_username_change PROVE IInv'
  <1> DEFINE name == Head(tcpDown)
             rest == Tail(tcpDown)
  <1>1. /\ tcpDown # <<>> /\ tcpDown' = rest
        /\ own' = [own EXCEPT !.name = name]
        /\ UNCHANGED <<held, game, app, pushed, up, down, tcpUp, server, odd, unheard, lost, asks>>
    BY DEF game_username_change
  <1>2. /\ name \in Nat /\ rest \in Seq(Nat)
        /\ rest = <<>> => Final(tcpDown) = name
        /\ rest # <<>> => Final(tcpDown) = Final(rest)
    <2>1. tcpDown \in Seq(Nat) /\ tcpDown # <<>>
      BY <1>1 DEF IInv, Typed
    <2> QED BY <2>1, TailLast
  <1> HIDE DEF name, rest
  <1>3. own' \in Owns /\ own'.gun = own.gun /\ own'.input = own.input /\ own'.name = name
    BY <1>1, <1>2 DEF IInv, Typed, Owns
  <1>4. Typed'
    BY <1>1, <1>2, <1>3 DEF IInv, Typed
  <1>5. InputInv' /\ GunInv'
    BY <1>1, <1>3 DEF IInv, InputInv, GunInv
  <1>6. BotInv' /\ StatsInv'
    BY <1>1 DEF IInv, ModeInv, BotInv, StatsInv
  <1>7. NameInv'
    BY <1>1, <1>2, <1>3 DEF IInv, ModeInv, NameInv
  <1> QED BY <1>4, <1>5, <1>6, <1>7 DEF IInv, ModeInv

\* what the command line asks for is asked of every new session
LEMMA FirstRequest ==
  ASSUME app.bot \in BOOLEAN, NEW q,
         q = IF app.bot THEN <<[what |-> "bot", on |-> TRUE]>> ELSE <<>>
  PROVE  /\ q \in Seq(Requests)
         /\ LastOn(q, "bot", app.bot) /\ (Lacks(q, "bot") => app.bot = FALSE)
         /\ \A on : LastOn(q, "stats", on)
         /\ Lacks(q, "stats")
  <1>1. CASE app.bot = TRUE
    <2> DEFINE e == [what |-> "bot", on |-> TRUE]
    <2>1. e \in Requests /\ e.what = "bot" /\ e.on = TRUE /\ q = <<e>>
      BY <1>1 DEF Requests
    <2> HIDE DEF e
    <2>2. q \in Seq(Requests) /\ DOMAIN q = {1} /\ q[1] = e
      <3>1. q \in Seq(Requests)
        <4>1. <<e>> = Append(<<>>, e)
          OBVIOUS
        <4>2. Append(<<>>, e) \in Seq(Requests)
          BY <2>1, EmptySeq, AppendProperties
        <4> QED BY <2>1, <4>1, <4>2
      <3>2. Len(q) = 1 /\ q[1] = e
        BY <2>1
      <3> QED BY <3>1, <3>2, Elements
    <2>3. \A on : LastOn(q, "stats", on)
      BY <2>1, <2>2 DEF LastOn, LastOf
    <2> QED BY <1>1, <2>1, <2>2, <2>3 DEF LastOn, LastOf, Lacks
  <1>2. CASE app.bot = FALSE
    <2>1. q = <<>> /\ q \in Seq(Requests) /\ DOMAIN q = {}
      BY <1>2, EmptySeq
    <2> QED BY <1>2, <2>1 DEF LastOn, Lacks
  <1> QED BY <1>1, <1>2

\* an empty channel
LEMMA NoneOnItsWay ==
  /\ Lacks(<<>>, "input") /\ Lacks(<<>>, "gun")
  /\ \A flags : LastFlags(<<>>, flags)
  BY DEF Lacks, LastFlags

\* a game that goes on, or a new one, in a session of its own
LEMMA StepSession == ASSUME IInv, do_reconnect \/ Rejoin PROVE IInv'
  <1>1. PICK name \in Nat :
          /\ NewSession(name)
          /\ (Rejoin /\ name = 0) \/ (do_reconnect /\ name = own.name)
    <2>1. own.name \in Nat /\ 0 \in Nat
      BY DEF IInv, Typed, Owns
    <2> QED BY <2>1 DEF do_reconnect, Rejoin
  <1>2. /\ Ask /\ up' = <<>> /\ down' = <<>> /\ tcpDown' = <<>> /\ pushed' = <<>>
        /\ tcpUp' = IF app.bot THEN <<[what |-> "bot", on |-> TRUE]>> ELSE <<>>
        /\ server' = NewPlayer(name) /\ own' = OwnPlayer(name)
        /\ held' = held /\ app' = app
    BY <1>1 DEF NewSession
  <1>3. app \in [bot : BOOLEAN, stats : BOOLEAN] /\ game \in Games /\ held \in SUBSET Bits
    BY DEF IInv, Typed
  <1>4. /\ tcpUp' \in Seq(Requests) /\ LastOn(tcpUp', "bot", app.bot)
        /\ Lacks(tcpUp', "bot") => app.bot = FALSE
        /\ \A on : LastOn(tcpUp', "stats", on)
        /\ Lacks(tcpUp', "stats")
    BY <1>2, <1>3, FirstRequest
  <1>5. /\ server' \in Servers /\ own' \in Owns
        /\ server'.next = {} /\ own'.input = {} /\ server'.gun = own'.gun
        /\ server'.bot = FALSE /\ server'.stats = FALSE
        /\ server'.name = name /\ own'.name = name
    BY <1>2, GunsAssumption DEF NewPlayer, OwnPlayer, Servers, Owns, Ammo
  <1>6. asks' \in 0 .. MaxAsks
    BY <1>2, AskCounts DEF IInv, Typed
  <1>7. CASE do_reconnect
    <2>1. /\ game' = [game EXCEPT !.input = {}] /\ odd' = Differ({}, held)
          /\ unheard' = IF game.prev = {} THEN {} ELSE {"unsent"}
          /\ lost' = {s \in {"bot", "stats", "name"} :
                        \/ s = "name" /\ own.name > 0
                        \/ s = "bot" /\ game.bot # app.bot
                        \/ s = "stats" /\ app.stats}
      BY <1>7 DEF do_reconnect
    <2>2. /\ game' \in Games /\ game'.prev = game.prev /\ game'.bot = game.bot
      BY <1>3, <2>1 DEF Games
    <2>3. game.bot \in BOOLEAN /\ app.bot \in BOOLEAN /\ app.stats \in BOOLEAN
      BY <1>3 DEF Games
    <2>4. name = own'.name /\ ("name" \notin lost' => name = 0)
      <3>1. name = own.name \/ name = 0
        BY <1>1
      <3> QED BY <1>5, <2>1, <3>1
    <2>5. /\ "bot" \notin lost' => game.bot = app.bot
          /\ "stats" \notin lost' => app.stats = FALSE
          /\ lost' \subseteq {"bot", "stats", "name"} /\ unheard' \subseteq Reasons
      BY <2>1, <2>3 DEF Reasons
    <2>6. Typed'
      BY <1>2, <1>3, <1>4, <1>5, <1>6, <2>1, <2>2, <2>5, DifferBits, EmptySeq DEF Typed
    <2>7. InputInv'
      BY <1>2, <1>5, <2>1, <2>2, NoneOnItsWay DEF InputInv
    <2>8. GunInv'
      BY <1>2, <1>5 DEF GunInv
    <2>9. BotInv'
      BY <1>4, <1>5, <2>2, <2>5 DEF BotInv
    <2>10. StatsInv'
      BY <1>2, <1>4, <1>5, <2>5 DEF StatsInv
    <2>11. NameInv'
      BY <1>2, <1>5, <2>4 DEF NameInv
    <2> QED BY <2>6, <2>7, <2>8, <2>9, <2>10, <2>11 DEF IInv, ModeInv
  <1>8. CASE Rejoin
    <2>1. /\ game' = NewGame /\ odd' = Differ({}, held) /\ unheard' = {}
          /\ lost' = IF app.stats THEN {"stats"} ELSE {}
          /\ server'.name = 0
      <3>1. server' = NewPlayer(0)
        BY <1>8 DEF Rejoin, NewSession
      <3> QED BY <1>8, <3>1 DEF Rejoin, NewPlayer
    <2>2. game' \in Games /\ game'.prev = {} /\ game'.bot = app.bot
      BY <1>3, <2>1 DEF Games, NewGame
    <2>3. /\ "stats" \notin lost' => app.stats = FALSE
          /\ lost' \subseteq {"bot", "stats", "name"}
      BY <1>3, <2>1
    <2>4. Typed'
      BY <1>2, <1>3, <1>4, <1>5, <1>6, <2>1, <2>2, <2>3, DifferBits, EmptySeq DEF Typed
    <2>5. InputInv'
      BY <1>2, <1>5, <2>2, NoneOnItsWay DEF InputInv
    <2>6. GunInv'
      BY <1>2, <1>5 DEF GunInv
    <2>7. BotInv'
      BY <1>4, <1>5, <2>2 DEF BotInv
    <2>8. StatsInv'
      BY <1>2, <1>4, <1>5, <2>3 DEF StatsInv
    <2>9. NameInv'
      BY <1>2, <1>5, <2>1 DEF NameInv
    <2> QED BY <2>4, <2>5, <2>6, <2>7, <2>8, <2>9 DEF IInv, ModeInv
  <1> QED BY <1>7, <1>8

-------------------------------------------------------------------------------
(* The invariants. *)

LEMMA Initially == Init => IInv
  <1> SUFFICES ASSUME Init PROVE IInv
    OBVIOUS
  <1>1. app \in [bot : BOOLEAN, stats : {FALSE}] /\ game = NewGame
        /\ own = OwnPlayer(0) /\ server = NewPlayer(0)
        /\ pushed = <<>> /\ up = <<>> /\ down = <<>> /\ tcpDown = <<>>
        /\ tcpUp = IF app.bot THEN <<[what |-> "bot", on |-> TRUE]>> ELSE <<>>
    BY DEF Init
  <1>2. /\ LastOn(tcpUp, "bot", app.bot) /\ (Lacks(tcpUp, "bot") => app.bot = FALSE)
        /\ LastOn(tcpUp, "stats", app.stats) /\ app.stats = FALSE
    BY <1>1, FirstRequest
  <1>3. InputInv /\ GunInv
    BY <1>1, NoneOnItsWay DEF InputInv, GunInv, OwnPlayer, NewPlayer, NewGame
  <1>4. ModeInv
    BY <1>1, <1>2 DEF ModeInv, BotInv, StatsInv, NameInv, OwnPlayer, NewPlayer, NewGame
  <1> QED BY <1>3, <1>4, TypedInit DEF IInv

LEMMA Stuttering == ASSUME IInv, UNCHANGED vars PROVE IInv'
  <1>1. Typed' /\ InputInv' /\ GunInv' /\ ModeInv'
    BY DEF IInv, Typed, InputInv, GunInv, ModeInv, BotInv, StatsInv, NameInv, vars, client, net
  <1> QED BY <1>1 DEF IInv

LEMMA Invariance == Spec => []IInv
  <1>1. ASSUME IInv, [Next]_vars PROVE IInv'
    <2>1. CASE game_handle_key
      BY <1>1, <2>1, StepKey
    <2>2. CASE (\E id \in Guns : game_handle_num_keys(id)) \/ coregame_player_reload \/ OwnGunUpdate
      BY <1>1, <2>2, StepOwnGun
    <2>3. CASE game_ui_stats_window
      BY <1>1, <2>3, StepWindow
    <2>4. CASE game_update
      BY <1>1, <2>4, StepFrame
    <2>5. CASE UdpSegment
      BY <1>1, <2>5, StepUdp
    <2>6. CASE TcpSegment
      BY <1>1, <2>6, StepTcp
    <2>7. CASE coregame_gun_update
      BY <1>1, <2>7, StepServerGun
    <2>8. CASE UdpAnswer
      BY <1>1, <2>8, StepAnswer
    <2>9. CASE game_username_change
      BY <1>1, <2>9, StepName
    <2>10. CASE do_reconnect \/ Rejoin
      BY <1>1, <2>10, StepSession
    <2>11. CASE coregame_update
      BY <1>1, <2>11, StepTick
    <2>12. CASE UNCHANGED vars
      BY <1>1, <2>12, Stuttering
    <2> QED BY <1>1, <2>1, <2>2, <2>3, <2>4, <2>5, <2>6, <2>7, <2>8, <2>9, <2>10, <2>11, <2>12 DEF Next
  <1> QED BY <1>1, Initially, PTL DEF Spec

(***************************************************************************)
(* Everything keeps its type: no channel carries a segment its receiver    *)
(* does not know (game.c, server_game.c), and a record of the player takes *)
(* at most two changes of input (dirty_count, coregame.c:902).             *)
(***************************************************************************)
THEOREM TypeInvariant == Spec => []TypeOK
  <1>1. IInv => TypeOK
    BY TypedTypeOK DEF IInv
  <1> QED BY <1>1, Invariance, PTL

(***************************************************************************)
(* A bit of the input differs from its key only if the chat, T, a bot's    *)
(* drawing or a new player parted them (game.c:100-141).                   *)
(***************************************************************************)
THEOREM KeysInvariant == Spec => []KeysHeld
  <1>1. Init => KeysHeld
    BY DEF Init, NewGame, KeysHeld, Differ
  <1>2. ASSUME IInv, KeysHeld, [Next]_vars PROVE KeysHeld'
    <2>1. game \in Games /\ held \in SUBSET Bits /\ odd \in SUBSET Bits
      BY <1>2 DEF IInv, Typed
    <2>2. \A b \in Bits : b \notin odd => (b \in game.input <=> b \in held)
      BY <1>2 DEF KeysHeld, Differ
    <2> SUFFICES \A b \in Bits : b \notin odd' => (b \in game'.input <=> b \in held')
      BY DEF KeysHeld, Differ
    <2>3. CASE game_handle_key
      <3>1. CASE \E k \in Bits : Press(k)
        <4>1. PICK k \in Bits : Press(k)
          BY <3>1
        <4>2. held' = held \cup {k}
          BY <4>1 DEF Press
        <4>3. CASE Heard(k)
          BY <2>1, <2>2, <4>1, <4>2, <4>3 DEF Press, Pressed, Games
        <4>4. CASE ~Heard(k)
          BY <2>1, <2>2, <4>1, <4>2, <4>4 DEF Press, Differ
        <4> QED BY <4>3, <4>4
      <3>2. CASE \E k \in Bits : Release(k)
        <4>1. PICK k \in Bits : Release(k)
          BY <3>2
        <4>2. k \in held /\ held' = held \ {k}
          BY <4>1 DEF Release
        <4>3. CASE ~Heard(k)
          <5>1. odd' = odd \cup Differ(game.input, held') /\ game' = game
            BY <4>1, <4>3 DEF Release
          <5> QED BY <5>1 DEF Differ
        <4>4. CASE Heard(k) /\ k = "up"
          <5>1. odd' = odd /\ game'.input = Xor(game.input, k)
            BY <2>1, <4>1, <4>4 DEF Release, Released, Games
          <5> QED BY <2>2, <4>2, <5>1 DEF Xor
        <4>5. CASE Heard(k) /\ k = "shoot"
          <5>1. odd' = odd \ {k} /\ game'.input = game.input \ {k}
            BY <2>1, <4>1, <4>5 DEF Release, Released, Games
          <5> QED BY <2>2, <4>2, <5>1
        <4> QED BY <4>3, <4>4, <4>5 DEF Bits
      <3>3. CASE HoldFire
        BY <3>3 DEF HoldFire, Differ
      <3>4. CASE Enter \/ Escape
        BY <2>1, <2>2, <3>4 DEF Enter, Escape, Games
      <3> QED BY <2>3, <3>1, <3>2, <3>3, <3>4 DEF game_handle_key
    <2>4. CASE game_update
      <3>1. PICK input \in BotInputs :
              /\ IF input = game.input THEN UNCHANGED odd ELSE odd' = odd \cup Differ(input, held)
              /\ game' = [game EXCEPT !.input = input, !.prev = input]
              /\ UNCHANGED held
        BY <2>4 DEF game_update
      <3>2. game'.input = input
        BY <2>1, <3>1 DEF Games
      <3> QED BY <2>2, <3>1, <3>2 DEF Differ
    <2>5. CASE do_reconnect \/ Rejoin
      <3>1. game'.input = {} /\ odd' = Differ({}, held) /\ held' = held
        BY <2>1, <2>5 DEF do_reconnect, Rejoin, NewSession, NewGame, Games
      <3> QED BY <3>1 DEF Differ
    <2>6. CASE game_ui_stats_window
      BY <2>1, <2>2, <2>6 DEF game_ui_stats_window, game_send_bot_mode, AskForStats, Games
    <2>7. CASE \/ \E id \in Guns : game_handle_num_keys(id)
               \/ coregame_player_reload \/ OwnGunUpdate
               \/ UdpSegment \/ TcpSegment \/ coregame_update \/ coregame_gun_update
               \/ UdpAnswer \/ game_username_change
               \/ UNCHANGED vars
      BY <2>2, <2>7 DEF game_handle_num_keys, coregame_player_reload, OwnGunUpdate,
           UdpSegment, TcpSegment, coregame_update, coregame_gun_update, UdpAnswer, game_username_change,
           vars, client
    <2> QED BY <1>2, <2>3, <2>4, <2>5, <2>6, <2>7 DEF Next
  <1> QED BY <1>1, <1>2, Invariance, PTL DEF Spec

(***************************************************************************)
(* With nothing on its way and nothing to be replayed, the server moves    *)
(* the player by the input the client predicts it by (game.c:286), unless  *)
(* it refused that input (coregame.c:885-905), undid it in a rollback      *)
(* (sbsm.c:217-227), lost it in a kill (server_game.c:156) or was never    *)
(* told.                                                                   *)
(***************************************************************************)
THEOREM InputInvariant == Spec => []ServerHearsInput
  <1>1. Lacks(<<>>, "input")
    BY NoneOnItsWay
  <1>2. IInv => ServerHearsInput
    BY <1>1 DEF IInv, InputInv, ServerHearsInput, InputSettled
  <1> QED BY <1>2, Invariance, PTL

(***************************************************************************)
(* With nothing on its way both sides have the same gun in hand, whichever *)
(* changes were refused (server_game.c:339-362).                           *)
(***************************************************************************)
THEOREM GunInvariant == Spec => []GunAgrees
  <1>1. Lacks(<<>>, "gun")
    BY NoneOnItsWay
  <1>2. IInv => GunAgrees
    BY <1>1 DEF IInv, GunInv, GunAgrees
  <1> QED BY <1>2, Invariance, PTL

(***************************************************************************)
(* With nothing on its way the server has the modes the client shows, and  *)
(* the client the server's name of the player (server_game.c:385-420,      *)
(* game_ui.c:464-493), apart from what a lost session took with it.        *)
(***************************************************************************)
THEOREM ModesInvariant == Spec => []ModesAgree
  <1>1. Lacks(<<>>, "bot") /\ Lacks(<<>>, "stats")
    BY DEF Lacks
  <1>2. IInv => ModesAgree
    BY <1>1 DEF IInv, ModeInv, BotInv, StatsInv, NameInv, ModesAgree
  <1> QED BY <1>2, Invariance, PTL
===============================================================================
