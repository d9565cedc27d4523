------------------------------ MODULE SbsmProofs ------------------------------
(***************************************************************************)
(* The snapshot ring of Sbsm is consistent for every ring size, interval,  *)
(* number of players and length of run.                                    *)
(*                                                                         *)
(* The invariants are proved in three layers: types; the ring (which slot  *)
(* has which tick), which owes nothing to players; and what the snapshots  *)
(* hold.  From them, every handler and every step of an update is a step   *)
(* of the log of InputLog, or a stutter.  A fourth layer is told with the  *)
(* history of SbsmTrajectory: players and snapshots are where the inputs   *)
(* filed for every tick could have led.                                    *)
(***************************************************************************)
EXTENDS SbsmLog, SbsmTrajectory, TLAPS

-------------------------------------------------------------------------------
(* Arithmetic of a ring. *)

\* a product with a positive factor is an integer, grows with the other factor,
\* and takes that factor's neighbours to its own
LEMMA Product == ASSUME NEW n \in Nat \ {0}, NEW a \in Int, NEW b \in Int
                 PROVE  /\ n * a \in Int
                        /\ a < b => n * a + n <= n * b
                        /\ n * (a + 1) = n * a + n
                        /\ n * (a - 1) = n * a - n
  <1>1. a < b => n * (b - a) >= n
    BY SMT
  <1>2. n * (b - a) = n * b - n * a
    BY SMT
  <1> QED BY <1>1, <1>2, SMT

\* the quotient is the only one that leaves a remainder below n
LEMMA DivMod == ASSUME NEW n \in Nat \ {0}, NEW q \in Int, NEW r \in 0..(n - 1)
                PROVE  (n * q + r) \div n = q /\ (n * q + r) % n = r
  <1> DEFINE k == n * q + r
             d == k \div n
  <1>1. k \in Int /\ d \in Int /\ k = n * d + (k % n) /\ (k % n) \in 0..(n - 1)
    BY SMT
  <1> HIDE DEF k, d
  <1>2. n * q \in Int /\ n * d \in Int /\ k = n * q + r
    BY <1>1, SMT DEF k
  <1>3. ~ (q < d)
    <2>1. q < d => n * q + n <= n * d BY <1>1, Product
    <2> QED BY <2>1, <1>1, <1>2, SMT
  <1>4. ~ (d < q)
    <2>1. d < q => n * d + n <= n * q BY <1>1, Product
    <2> QED BY <2>1, <1>1, <1>2, SMT
  <1>5. d = q
    BY <1>1, <1>3, <1>4, SMT
  <1>6. k % n = r
    BY <1>1, <1>2, <1>5, SMT
  <1> QED BY <1>5, <1>6 DEF d, k

-------------------------------------------------------------------------------
(* The ring. *)

RingType ==
  /\ seq \in Nat /\ time \in Nat
  /\ presentIdx \in Slots /\ baseIdx \in Slots
  /\ stamp \in [Slots -> Nat]

PresentAtSeq == presentIdx = seq % Size

RingInv == RingType /\ PresentAtSeq /\ TicksInOrder /\ OldestIsBase

\* slots are told apart by how far behind they are, and the next slot is one
\* less behind
LEMMA BehindSlot ==
  ASSUME presentIdx \in Slots, NEW s \in Slots
  PROVE  /\ Behind(s) \in 0..(Size - 1)
         /\ Behind(s) = 0 <=> s = presentIdx
         /\ \A k \in Slots : Behind(k) = Behind(s) => k = s
         /\ NextSlot(s) \in Slots
         /\ s # presentIdx => Behind(NextSlot(s)) = Behind(s) - 1
         /\ Behind(NewPresent) = Size - 1
  BY SizeAssumption, SMT DEF Slots, Behind, NextSlot, NewPresent, Wrap

\* the slot of the tick b ticks ago
LEMMA SlotOfTick ==
  ASSUME RingType, PresentAtSeq, NEW b \in 0..(Size - 1)
  PROVE  /\ (seq - b) % Size \in Slots
         /\ Behind((seq - b) % Size) = b
  <1> DEFINE q == seq \div Size
  <1>1. q \in Int /\ seq = Size * q + presentIdx /\ presentIdx \in 0..(Size - 1)
    BY SizeAssumption, SMT DEF RingType, PresentAtSeq, Slots
  <1> HIDE DEF q
  <1>2. CASE b <= presentIdx
    <2>1. seq - b = Size * q + (presentIdx - b) /\ presentIdx - b \in 0..(Size - 1)
      BY <1>1, <1>2, SizeAssumption, SMT
    <2>2. (seq - b) % Size = presentIdx - b
      BY <1>1, <2>1, DivMod, SizeAssumption
    <2> QED BY <1>1, <1>2, <2>1, <2>2, SizeAssumption, SMT DEF Slots, Behind
  <1>3. CASE ~(b <= presentIdx)
    <2>1. Size * (q - 1) = Size * q - Size /\ Size * q \in Int
      BY <1>1, Product, SizeAssumption
    <2>2. /\ seq - b = Size * (q - 1) + (presentIdx - b + Size)
          /\ presentIdx - b + Size \in 0..(Size - 1)
      BY <1>1, <1>3, <2>1, SizeAssumption, SMT
    <2>3. (seq - b) % Size = presentIdx - b + Size
      BY <1>1, <2>2, DivMod, SizeAssumption
    <2> QED BY <1>1, <1>3, <2>2, <2>3, SizeAssumption, SMT DEF Slots, Behind
  <1> QED BY <1>2, <1>3

\* and back: the slot that far behind the present is the tick's own
LEMMA TickOfSlot ==
  ASSUME RingType, PresentAtSeq, NEW s \in Slots
  PROVE  (seq - Behind(s)) % Size = s
  <1>1. presentIdx \in Slots /\ Behind(s) \in 0..(Size - 1)
    BY BehindSlot DEF RingType
  <1>2. Behind((seq - Behind(s)) % Size) = Behind(s) /\ (seq - Behind(s)) % Size \in Slots
    BY <1>1, SlotOfTick
  <1> QED BY <1>1, <1>2, BehindSlot

\* sbsm_index rounds up to a tick
LEMMA CeilDivTick ==
  ASSUME NEW t \in Int
  PROVE  /\ CeilDiv(t) \in Int
         /\ Interval * CeilDiv(t) \in Int
         /\ t <= Interval * CeilDiv(t)
         /\ Interval * CeilDiv(t) < t + Interval
  <1> DEFINE u == t + Interval - 1
  <1>1. u \in Int /\ u \div Interval \in Int /\ u = Interval * (u \div Interval) + (u % Interval)
        /\ (u % Interval) \in 0..(Interval - 1)
    BY IntervalAssumption, SMT
  <1>2. CeilDiv(t) = u \div Interval
    BY DEF CeilDiv
  <1>3. Interval * (u \div Interval) \in Int
    BY <1>1, IntervalAssumption, SMT
  <1> HIDE DEF u
  <1>4. u = t + Interval - 1
    BY DEF u
  <1> QED BY <1>1, <1>2, <1>3, <1>4, IntervalAssumption, SMT

\* the time of a tick is rounded to that tick
LEMMA CeilDivExact ==
  ASSUME NEW k \in Int
  PROVE  k * Interval \in Int /\ CeilDiv(k * Interval) = k
  <1>1. Interval * k + (Interval - 1) = k * Interval + Interval - 1 /\ k * Interval \in Int
    BY IntervalAssumption, SMT
  <1>2. (Interval * k + (Interval - 1)) \div Interval = k
    BY DivMod, IntervalAssumption
  <1> QED BY <1>1, <1>2 DEF CeilDiv

\* slots reached are stamped with their tick
LEMMA StampOfReached ==
  ASSUME RingInv, NEW s \in Slots, Behind(s) <= seq
  PROVE  stamp[s] = (seq - Behind(s)) * Interval /\ sbsm_index(stamp[s]) = s
  <1>1. seq \in Nat /\ Behind(s) \in 0..(Size - 1)
    BY BehindSlot DEF RingInv, RingType
  <1>2. stamp[s] = (seq - Behind(s)) * Interval
    BY DEF RingInv, TicksInOrder
  <1>3. seq - Behind(s) \in Int
    BY <1>1
  <1>4. CeilDiv(stamp[s]) = seq - Behind(s)
    BY <1>2, <1>3, CeilDivExact
  <1>5. (seq - Behind(s)) % Size = s
    BY TickOfSlot DEF RingInv
  <1> QED BY <1>2, <1>4, <1>5 DEF sbsm_index

\* base and present are slots of the window and have the times of its ends
LEMMA BaseReached ==
  ASSUME RingInv
  PROVE  /\ Behind(baseIdx) <= seq
         /\ Behind(presentIdx) = 0 /\ stamp[presentIdx] = time /\ time = seq * Interval
         /\ stamp[baseIdx] = (seq - Behind(baseIdx)) * Interval
  <1>1. /\ seq \in Nat /\ baseIdx \in Slots /\ presentIdx \in Slots
        /\ time = seq * Interval /\ OldestIsBase
    BY DEF RingInv, RingType, TicksInOrder
  <1>2. Behind(baseIdx) \in 0..(Size - 1) /\ Behind(presentIdx) = 0
    BY <1>1, BehindSlot
  <1>3. Behind(baseIdx) <= seq
    BY <1>1, <1>2, SizeAssumption, SMT DEF OldestIsBase
  <1>4. stamp[baseIdx] = (seq - Behind(baseIdx)) * Interval
    BY <1>1, <1>3, StampOfReached
  <1>5. stamp[presentIdx] = (seq - 0) * Interval
    BY <1>1, <1>2, StampOfReached
  <1> QED BY <1>1, <1>2, <1>3, <1>4, <1>5

\* of two reached slots, the one further behind has the smaller timestamp
LEMMA StampOrder ==
  ASSUME RingInv, NEW s \in Slots, NEW k \in Slots, Behind(s) <= seq, Behind(k) <= seq
  PROVE  stamp[s] < stamp[k] <=> Behind(k) < Behind(s)
  <1> DEFINE a == seq - Behind(s)
             b == seq - Behind(k)
  <1>1. a \in Int /\ b \in Int /\ (Behind(k) < Behind(s) <=> a < b)
    BY BehindSlot, SMT DEF RingInv, RingType
  <1>2. stamp[s] = a * Interval /\ stamp[k] = b * Interval
    BY StampOfReached
  <1> HIDE DEF a, b
  <1>3. a < b => Interval * a + Interval <= Interval * b
    BY <1>1, Product, IntervalAssumption
  <1>4. b < a => Interval * b + Interval <= Interval * a
    BY <1>1, Product, IntervalAssumption
  <1>5. a * Interval = Interval * a /\ b * Interval = Interval * b
        /\ Interval * a \in Int /\ Interval * b \in Int
    BY <1>1, IntervalAssumption, SMT
  <1>6. stamp[s] < stamp[k] <=> a < b
    BY <1>1, <1>2, <1>3, <1>4, <1>5, IntervalAssumption, SMT
  <1> QED BY <1>1, <1>6

\* sbsm_lookup finds a slot of the window, and the right one
LEMMA LookupSlot ==
  ASSUME RingInv, NEW t \in Int
  PROVE  LET s == sbsm_lookup(t)
             u == Clamp(t, stamp[baseIdx], stamp[presentIdx])
         IN  /\ s \in Slots /\ Behind(s) <= Behind(baseIdx) /\ Behind(s) <= seq
             /\ u <= stamp[s] /\ stamp[s] < u + Interval
  <1> DEFINE b == Behind(baseIdx)
             u == Clamp(t, stamp[baseIdx], stamp[presentIdx])
             k == CeilDiv(u)
             s == sbsm_lookup(t)
  <1>1. /\ seq \in Nat /\ b \in 0..(Size - 1) /\ b <= seq
        /\ stamp[baseIdx] = (seq - b) * Interval /\ stamp[presentIdx] = seq * Interval
    BY BehindSlot, BaseReached DEF RingInv, RingType
  <1>2. /\ Interval * (seq - b) = (seq - b) * Interval /\ Interval * seq = seq * Interval
        /\ Interval * (seq - b) \in Int /\ Interval * seq \in Int
    BY <1>1, IntervalAssumption, SMT
  <1>3. s = k % Size
    BY DEF sbsm_lookup, sbsm_index
  <1> HIDE DEF b, s, k
  <1>4. (seq - b) < seq => Interval * (seq - b) + Interval <= Interval * seq
    BY <1>1, Product, IntervalAssumption
  <1>5. Interval * (seq - b) <= Interval * seq
    BY <1>1, <1>2, <1>4, IntervalAssumption, SMT
  <1>6. u \in Int /\ Interval * (seq - b) <= u /\ u <= Interval * seq
    BY <1>1, <1>2, <1>5, SMT DEF Clamp
  <1> HIDE DEF u
  <1>7. k \in Int /\ Interval * k \in Int /\ u <= Interval * k /\ Interval * k < u + Interval
    BY <1>6, CeilDivTick DEF k
  <1>8. ~(k < seq - b)
    <2>1. k < seq - b => Interval * k + Interval <= Interval * (seq - b)
      BY <1>1, <1>7, Product, IntervalAssumption
    <2> QED BY <1>2, <1>6, <1>7, <2>1, IntervalAssumption, SMT
  <1>9. ~(seq < k)
    <2>1. seq < k => Interval * seq + Interval <= Interval * k
      BY <1>1, <1>7, Product, IntervalAssumption
    <2> QED BY <1>2, <1>6, <1>7, <2>1, IntervalAssumption, SMT
  <1>10. seq - k \in 0..(Size - 1) /\ seq - k <= b /\ seq - (seq - k) = k /\ seq - k <= seq
    BY <1>1, <1>7, <1>8, <1>9, SizeAssumption, SMT
  <1>11. s \in Slots /\ Behind(s) = seq - k
    BY <1>3, <1>10, SlotOfTick DEF RingInv
  <1>12. stamp[s] = k * Interval
    BY <1>10, <1>11, StampOfReached
  <1>13. k * Interval = Interval * k
    BY <1>7, IntervalAssumption, SMT
  <1>14. /\ s \in Slots /\ Behind(s) <= b /\ Behind(s) <= seq
         /\ u <= stamp[s] /\ stamp[s] < u + Interval
    BY <1>7, <1>10, <1>11, <1>12, <1>13
  <1> QED BY <1>14 DEF b, s, u
-------------------------------------------------------------------------------
(* Types. *)

\* clamping stays in the integers
LEMMA ClampInt ==
  ASSUME NEW x \in Int, NEW lo \in Int, NEW hi \in Int
  PROVE  Clamp(x, lo, hi) \in Int
  BY DEF Clamp

\* the fields of a player record and their types
LEMMA PlayerFields ==
  ASSUME NEW r \in Player
  PROVE  /\ r.st \in {"absent", "in", "left"} /\ r.pos \in Int /\ r.vel \in Int
         /\ r.input \in Inputs /\ r.input \in Int /\ r.prevPos \in Int /\ r.prevDir \in Inputs
         /\ r.dirty \in BOOLEAN /\ r.last \in Nat
  BY WorldAssumption DEF Player

\* whoever is in the way leaves of a way a part, or all
LEMMA CutShortPart ==
  ASSUME NEW d \in Int
  PROVE  CutShort(d) \subseteq Int /\ d \in CutShort(d)
  BY DEF CutShort

\* every way there may be is an integer
LEMMA AnyWayInt == AnyWay \subseteq Int
  <1> SUFFICES ASSUME NEW d \in AnyWay PROVE d \in Int
    OBVIOUS
  <1>1. PICK input \in Inputs, length \in Lengths \cup {1}, kick \in Kicks \cup {0} :
          d \in CutShort(input * length + kick)
    BY DEF AnyWay
  <1>2. input \in Int /\ length \in Int /\ kick \in Int
    BY WorldAssumption
  <1>3. input * length + kick \in Int
    BY <1>2
  <1> QED BY <1>1, <1>3, CutShortPart

\* simulating a tick keeps a player a player and its input what it was
LEMMA UpdateType ==
  ASSUME NEW r \in Player, NEW b \in BOOLEAN, NEW d \in Int
  PROVE  LET u == coregame_update_player(r, b, d)
         IN  u \in Player /\ u.st = r.st /\ u.last = r.last /\ u.input = r.input
  <1> DEFINE u == coregame_update_player(r, b, d)
             m == MoveTo(r, d)
             marked == r.dirty \/ b \/ r.prevDir # r.input \/ r.prevPos # m
  <1>1. r.pos + d \in Int /\ r.pos \in Int
    BY PlayerFields
  <1>2. m \in Int
    BY <1>1, ClampInt, WorldAssumption DEF MoveTo
  <1>3. m - r.pos \in Int
    BY <1>1, <1>2
  <1>4. marked \in BOOLEAN
    OBVIOUS
  <1>5. u = [r EXCEPT !.pos = m, !.vel = m - r.pos, !.dirty = marked, !.prevPos = m,
                      !.prevDir = r.input]
    BY DEF coregame_update_player
  <1> HIDE DEF u, m, marked
  <1> QED BY <1>2, <1>3, <1>4, <1>5, PlayerFields DEF u, Player

\* sbsm_rewind_player takes the filed input, if there is one
LEMMA TakeInputType ==
  ASSUME NEW r \in Player, NEW s \in Snap \cup {NoSnap}
  PROVE  LET u == TakeInput(s, r)
         IN  /\ u \in Player /\ u.st = r.st /\ u.last = r.last
             /\ s # NoSnap /\ s.dirty => u.input = s.input
  BY DEF TakeInput, Player, Snap

\* a commit leaves nothing dirty on file
LEMMA CommitType ==
  ASSUME NEW r \in Player, NEW s \in Snap \cup {NoSnap}
  PROVE  LET c == sbsm_commit_player(s, r)
         IN  c \in Snap \cup {NoSnap} /\ (c # NoSnap => ~c.dirty)
  BY DEF sbsm_commit_player, Player, Snap

\* a player on file has the snapshot's input after the rollback
LEMMA RollbackType ==
  ASSUME NEW r \in Player, NEW s \in Snap \cup {NoSnap}
  PROVE  LET u == sbsm_rollback_player(s, r)
         IN  /\ u \in Player /\ u.st = r.st /\ u.last = r.last
             /\ s # NoSnap /\ r.st = "in" => u.input = s.input
  <1>1. CASE s = NoSnap \/ r.st # "in"
    BY <1>1 DEF sbsm_rollback_player
  <1>2. CASE s # NoSnap /\ r.st = "in"
    <2>1. s \in Snap /\ s.pos \in Int /\ s.vel \in Int /\ s.input \in Inputs
      BY <1>2 DEF Snap
    <2>2. s.pos - s.vel \in Int
      BY <2>1
    <2>3. sbsm_rollback_player(s, r) = [r EXCEPT !.pos = s.pos - s.vel, !.input = s.input]
      BY <1>2 DEF sbsm_rollback_player
    <2> QED BY <2>1, <2>2, <2>3 DEF Player
  <1> QED BY <1>1, <1>2
-------------------------------------------------------------------------------
(* The ring keeps turning. *)

\* sbsm_create leaves a consistent ring
LEMMA RingInit == Init => RingInv
  <1> SUFFICES ASSUME Init PROVE RingInv
    OBVIOUS
  <1>1. /\ seq = 1 /\ time = Interval /\ presentIdx = Wrap(1) /\ baseIdx = 0
        /\ stamp = [s \in Slots |-> IF s = Wrap(1) THEN Interval ELSE 0]
    BY DEF Init
  <1>2. RingType
    BY <1>1, SizeAssumption, IntervalAssumption, SMT DEF RingType, Slots, Wrap
  <1>3. PresentAtSeq
    <2>1. CASE Size = 1
      <3>1. (Size * 1 + 0) % Size = 0
        BY DivMod, SizeAssumption, <2>1
      <3> QED BY <1>1, <2>1, <3>1, SMT DEF PresentAtSeq, Wrap
    <2>2. CASE Size # 1
      <3>1. (Size * 0 + 1) % Size = 1
        BY DivMod, SizeAssumption, <2>2
      <3> QED BY <1>1, <2>2, <3>1, SizeAssumption, SMT DEF PresentAtSeq, Wrap
    <2> QED BY <2>1, <2>2
  <1>4. TicksInOrder
    <2>1. time = seq * Interval
      BY <1>1, IntervalAssumption, SMT
    <2>2. ASSUME NEW s \in Slots
          PROVE  stamp[s] = IF Behind(s) <= seq THEN (seq - Behind(s)) * Interval ELSE 0
      BY <1>1, SizeAssumption, IntervalAssumption, SMT DEF Slots, Behind, Wrap
    <2> QED BY <2>1, <2>2 DEF TicksInOrder
  <1>5. OldestIsBase
    BY <1>1, SizeAssumption, SMT DEF OldestIsBase, Behind, Wrap
  <1> QED BY <1>2, <1>3, <1>4, <1>5 DEF RingInv

\* the new present is the slot that was furthest behind; every other slot
\* falls behind by one
LEMMA RotateBehind ==
  ASSUME RingInv, sbsm_rotate
  PROVE  /\ NewPresent \in Slots /\ NewBase \in Slots
         /\ presentIdx' = NewPresent /\ baseIdx' = NewBase
         /\ \A s \in Slots : Behind(s)' = IF s = NewPresent THEN 0 ELSE Behind(s) + 1
         /\ Behind(baseIdx)' = IF Behind(baseIdx) = Size - 1 THEN Size - 1 ELSE Behind(baseIdx) + 1
  <1>1. presentIdx \in 0..(Size - 1) /\ baseIdx \in 0..(Size - 1)
    BY DEF RingInv, RingType, Slots
  <1>2. presentIdx' = NewPresent /\ baseIdx' = NewBase
    BY DEF sbsm_rotate
  <1>3. NewPresent = IF presentIdx + 1 >= Size THEN 0 ELSE presentIdx + 1
    BY DEF NewPresent, Wrap
  <1>4. NewPresent \in Slots
    BY <1>1, <1>3, SizeAssumption, SMT DEF Slots
  <1>5. ASSUME NEW s \in Slots
        PROVE  Behind(s)' = IF s = NewPresent THEN 0 ELSE Behind(s) + 1
    <2>1. s \in 0..(Size - 1)
      BY DEF Slots
    <2>2. Behind(s)' = IF s <= NewPresent THEN NewPresent - s ELSE NewPresent - s + Size
      BY <1>2 DEF Behind
    <2> QED BY <1>1, <1>3, <2>1, <2>2, SizeAssumption, SMT DEF Behind
  <1>6. NewBase = IF NewPresent = baseIdx THEN IF baseIdx + 1 >= Size THEN 0 ELSE baseIdx + 1
                  ELSE baseIdx
    BY DEF NewBase, Wrap
  <1>7. NewBase \in Slots
    BY <1>1, <1>6, SizeAssumption, SMT DEF Slots
  <1>8. Behind(baseIdx)' = IF NewBase <= NewPresent THEN NewPresent - NewBase
                           ELSE NewPresent - NewBase + Size
    BY <1>2 DEF Behind
  <1>9. Behind(baseIdx)' = IF Behind(baseIdx) = Size - 1 THEN Size - 1 ELSE Behind(baseIdx) + 1
    BY <1>1, <1>3, <1>6, <1>8, SizeAssumption, SMT DEF Behind
  <1> QED BY <1>2, <1>4, <1>5, <1>7, <1>9

\* sbsm_rotate keeps it consistent: the slot it overwrites is the oldest
LEMMA RingRotate == RingInv /\ sbsm_rotate => RingInv'
  <1> SUFFICES ASSUME RingInv, sbsm_rotate PROVE RingInv'
    OBVIOUS
  <1>1. /\ seq' = seq + 1 /\ time' = time + Interval
        /\ presentIdx' = NewPresent /\ baseIdx' = NewBase
        /\ stamp' = [stamp EXCEPT ![NewPresent] = time + Interval]
    BY DEF sbsm_rotate
  <1>2. /\ seq \in Nat /\ time \in Nat /\ presentIdx \in Slots /\ baseIdx \in Slots
        /\ stamp \in [Slots -> Nat] /\ time = seq * Interval
    BY DEF RingInv, RingType, TicksInOrder
  <1>3. RingType'
    <2>1. time + Interval \in Nat
      BY <1>2, IntervalAssumption
    <2> QED BY <1>1, <1>2, <2>1, RotateBehind DEF RingType
  <1>4. PresentAtSeq'
    <2> DEFINE q == seq \div Size
    <2>1. q \in Int /\ seq = Size * q + presentIdx /\ presentIdx \in 0..(Size - 1)
      BY <1>2, SizeAssumption, SMT DEF RingInv, PresentAtSeq, Slots
    <2> HIDE DEF q
    <2>2. CASE presentIdx + 1 >= Size
      <3>1. Size * (q + 1) = Size * q + Size /\ Size * q \in Int
        BY <2>1, Product, SizeAssumption
      <3>2. seq + 1 = Size * (q + 1) + 0
        BY <2>1, <2>2, <3>1, SizeAssumption, SMT
      <3>3. (Size * (q + 1) + 0) % Size = 0
        BY <2>1, DivMod, SizeAssumption
      <3> QED BY <1>1, <2>2, <3>2, <3>3 DEF PresentAtSeq, NewPresent, Wrap
    <2>3. CASE ~(presentIdx + 1 >= Size)
      <3>1. seq + 1 = Size * q + (presentIdx + 1) /\ presentIdx + 1 \in 0..(Size - 1)
        BY <2>1, <2>3, SizeAssumption, SMT
      <3>2. (Size * q + (presentIdx + 1)) % Size = presentIdx + 1
        BY <2>1, <3>1, DivMod, SizeAssumption
      <3> QED BY <1>1, <2>3, <3>1, <3>2 DEF PresentAtSeq, NewPresent, Wrap
    <2> QED BY <2>2, <2>3
  <1>5. TicksInOrder'
    <2>1. (seq + 1) * Interval = time + Interval /\ (seq + 1 - 0) * Interval = time + Interval
      BY <1>2, IntervalAssumption, SMT
    <2>2. ASSUME NEW s \in Slots
          PROVE  stamp'[s] = IF Behind(s)' <= seq' THEN (seq' - Behind(s)') * Interval ELSE 0
      <3>1. CASE s = NewPresent
        <4>1. Behind(s)' = 0 /\ stamp'[s] = time + Interval
          BY <1>1, <1>2, <3>1, RotateBehind
        <4> QED BY <1>1, <1>2, <2>1, <4>1
      <3>2. CASE s # NewPresent
        <4>1. Behind(s)' = Behind(s) + 1 /\ stamp'[s] = stamp[s] /\ Behind(s) \in Nat
          BY <1>1, <1>2, <3>2, RotateBehind, BehindSlot, SizeAssumption
        <4>2. stamp[s] = IF Behind(s) <= seq THEN (seq - Behind(s)) * Interval ELSE 0
          BY DEF RingInv, TicksInOrder
        <4>3. seq' - Behind(s)' = seq - Behind(s) /\ (Behind(s)' <= seq' <=> Behind(s) <= seq)
          BY <1>1, <1>2, <4>1
        <4> QED BY <4>1, <4>2, <4>3
      <3> QED BY <3>1, <3>2
    <2> QED BY <1>1, <2>1, <2>2 DEF TicksInOrder
  <1>6. OldestIsBase'
    <2>1. OldestIsBase
      BY DEF RingInv
    <2>2. Behind(baseIdx)' = IF Behind(baseIdx) = Size - 1 THEN Size - 1 ELSE Behind(baseIdx) + 1
      BY RotateBehind
    <2>3. Behind(baseIdx) \in 0..(Size - 1)
      BY <1>2, BehindSlot
    <2> QED BY <1>1, <1>2, <2>1, <2>2, <2>3, SizeAssumption, SMT DEF OldestIsBase
  <1> QED BY <1>3, <1>4, <1>5, <1>6 DEF RingInv

\* nothing but sbsm_rotate turns the ring
LEMMA RingStep == [Next]_vars => sbsm_rotate \/ UNCHANGED ringVars
  BY DEF Next, Handlers, Update, vars, ringVars, coregame_add_player, coregame_free_player,
         RefuseInput, FileInput, move_bot, sbsm_rollback, sbsm_rewind, coregame_update

\* what a run of the handlers and the updates is, fair or not
Run == Init /\ [][Next]_vars

\* whatever is called when, the ring stays consistent
LEMMA RingRun == Run => []RingInv
  <1>1. Init => RingInv
    BY RingInit
  <1>2. RingInv /\ [Next]_vars => RingInv'
    <2> SUFFICES ASSUME RingInv, [Next]_vars PROVE RingInv'
      OBVIOUS
    <2>1. CASE sbsm_rotate
      BY <2>1, RingRotate
    <2>2. CASE UNCHANGED ringVars
      BY <2>2 DEF ringVars, RingInv, RingType, PresentAtSeq, TicksInOrder, OldestIsBase, Behind
    <2> QED BY <2>1, <2>2, RingStep
  <1> QED BY <1>1, <1>2, PTL DEF Run

(***************************************************************************)
(* The ring never loses step with the clock: the present is slot seq mod   *)
(* Size and every slot has the time of its tick, for every ring size and   *)
(* tick length (sbsm_create, sbsm_rotate).                                 *)
(***************************************************************************)
THEOREM RingInvariant == Spec => []RingInv
  BY RingRun, PTL DEF Spec, Run

(***************************************************************************)
(* Whatever time a client claims, its input is filed under the first tick  *)
(* at or after that time that the ring still has, for every ring size and  *)
(* tick length (sbsm_lookup).                                              *)
(***************************************************************************)
THEOREM LookupInvariant == Spec => []LookupFindsTick
  <1>1. RingInv => LookupFindsTick
    <2> SUFFICES ASSUME RingInv, NEW t \in 0..(time + Interval)
                 PROVE  LET s == sbsm_lookup(t)
                            u == Clamp(t, stamp[baseIdx], stamp[presentIdx])
                        IN  u <= stamp[s] /\ stamp[s] < u + Interval
      BY DEF LookupFindsTick
    <2> QED BY LookupSlot
  <1> QED BY <1>1, RingInvariant, PTL

-------------------------------------------------------------------------------
(* What the steps of an update do to players and snapshots. *)

Snaps == [Players -> Snap \cup {NoSnap}]

\* what one simulated tick does to the players: whoever has a dirty input on file takes it
LEMMA SimulatedEffect ==
  ASSUME player \in [Players -> Player], NEW f \in Snaps, NEW busy,
         NEW way \in [InGame -> AnyWay], NEW p \in Players
  PROVE  LET sim == Simulated(f, busy, way)
         IN  /\ sim \in [Players -> Player]
             /\ sim[p].st = player[p].st /\ sim[p].last = player[p].last
             /\ player[p].st = "in" /\ f[p] # NoSnap /\ f[p].dirty => sim[p].input = f[p].input
  <1> DEFINE sim == Simulated(f, busy, way)
  <1>1. ASSUME NEW q \in Players
        PROVE  /\ sim[q] \in Player
               /\ sim[q].st = player[q].st /\ sim[q].last = player[q].last
               /\ player[q].st = "in" /\ f[q] # NoSnap /\ f[q].dirty => sim[q].input = f[q].input
    <2> DEFINE took == TakeInput(f[q], player[q])
    <2>1. f[q] \in Snap \cup {NoSnap} /\ player[q] \in Player
      BY DEF Snaps
    <2>2. /\ took \in Player /\ took.st = player[q].st /\ took.last = player[q].last
          /\ f[q] # NoSnap /\ f[q].dirty => took.input = f[q].input
      BY <2>1, TakeInputType
    <2>3. (q \in busy) \in BOOLEAN
      OBVIOUS
    <2> HIDE DEF took
    <2>4. sim[q] = IF player[q].st = "in"
                   THEN coregame_update_player(took, q \in busy, way[q]) ELSE player[q]
      BY DEF Simulated, took
    <2> HIDE DEF sim
    <2>5. CASE player[q].st = "in"
      <3>1. way[q] \in Int
        BY <2>5, AnyWayInt DEF InGame
      <3>2. LET u == coregame_update_player(took, q \in busy, way[q])
            IN  u \in Player /\ u.st = took.st /\ u.last = took.last /\ u.input = took.input
        BY <2>2, <2>3, <3>1, UpdateType
      <3> QED BY <2>2, <2>4, <2>5, <3>2
    <2>6. CASE player[q].st # "in"
      BY <2>1, <2>4, <2>6
    <2> QED BY <2>5, <2>6
  <1>2. sim = [q \in Players |-> sim[q]]
    BY DEF Simulated
  <1> HIDE DEF sim
  <1>3. sim \in [Players -> Player]
    BY <1>1, <1>2
  <1> QED BY <1>1, <1>3 DEF sim

\* commits and deaths leave every player's input and last accepted time alone
LEMMA AfterTickEffect ==
  ASSUME NEW sim \in [Players -> Player], NEW killed, NEW spawn \in [killed -> Spawns],
         NEW p \in Players
  PROVE  LET r == AfterTick(sim, killed, spawn)
         IN  /\ r \in [Players -> Player]
             /\ r[p].st = sim[p].st /\ r[p].last = sim[p].last /\ r[p].input = sim[p].input
  <1> DEFINE r == AfterTick(sim, killed, spawn)
  <1>1. ASSUME NEW q \in Players
        PROVE  /\ r[q] \in Player
               /\ r[q].st = sim[q].st /\ r[q].last = sim[q].last /\ r[q].input = sim[q].input
    <2>1. sim[q] \in Player
      OBVIOUS
    <2>2. r[q] = IF q \in killed THEN [Committed(sim[q]) EXCEPT !.pos = spawn[q]]
                 ELSE IF sim[q].st = "in" THEN Committed(sim[q]) ELSE sim[q]
      BY DEF AfterTick, Respawned
    <2>3. /\ Committed(sim[q]) \in Player
          /\ Committed(sim[q]).st = sim[q].st /\ Committed(sim[q]).last = sim[q].last
          /\ Committed(sim[q]).input = sim[q].input
      BY <2>1 DEF Committed, Player
    <2>4. q \in killed => spawn[q] \in Int
      <3>1. q \in killed => spawn[q] \in Spawns
        OBVIOUS
      <3>2. Spawns \subseteq Int
        BY WorldAssumption
      <3> QED BY <3>1, <3>2
    <2> HIDE DEF r
    <2>5. CASE q \in killed
      <3> DEFINE c == Committed(sim[q])
      <3> HIDE DEF c
      <3>1. c \in Player /\ spawn[q] \in Int /\ r[q] = [c EXCEPT !.pos = spawn[q]]
        BY <2>2, <2>3, <2>4, <2>5 DEF c
      <3>2. r[q] \in Player /\ r[q].st = c.st /\ r[q].last = c.last /\ r[q].input = c.input
        BY <3>1 DEF Player
      <3> QED BY <2>3, <3>2 DEF c
    <2>6. CASE q \notin killed
      BY <2>1, <2>2, <2>3, <2>6
    <2> QED BY <2>5, <2>6
  <1>2. r = [q \in Players |-> r[q]]
    BY DEF AfterTick
  <1> HIDE DEF r
  <1>3. r \in [Players -> Player]
    BY <1>1, <1>2
  <1> QED BY <1>1, <1>3 DEF r

\* after the commits of a tick nobody in game is dirty on file, others are untouched
LEMMA CommitAllEffect ==
  ASSUME NEW sim \in [Players -> Player], NEW f \in Snaps, NEW p \in Players
  PROVE  LET c == CommitAll(f, sim)
         IN  /\ c \in Snaps
             /\ sim[p].st = "in" /\ c[p] # NoSnap => ~c[p].dirty
             /\ sim[p].st # "in" => c[p] = f[p]
  <1> DEFINE c == CommitAll(f, sim)
  <1>1. ASSUME NEW q \in Players
        PROVE  /\ c[q] \in Snap \cup {NoSnap}
               /\ sim[q].st = "in" /\ c[q] # NoSnap => ~c[q].dirty
               /\ sim[q].st # "in" => c[q] = f[q]
    <2>1. sim[q] \in Player /\ f[q] \in Snap \cup {NoSnap}
      BY DEF Snaps
    <2>2. c[q] = IF sim[q].st = "in" THEN sbsm_commit_player(f[q], sim[q]) ELSE f[q]
      BY DEF CommitAll
    <2> HIDE DEF c
    <2>3. /\ sbsm_commit_player(f[q], sim[q]) \in Snap \cup {NoSnap}
          /\ sbsm_commit_player(f[q], sim[q]) # NoSnap
               => ~sbsm_commit_player(f[q], sim[q]).dirty
      BY <2>1, CommitType
    <2> QED BY <2>1, <2>2, <2>3
  <1>2. c = [q \in Players |-> c[q]]
    BY DEF CommitAll
  <1> HIDE DEF c
  <1>3. c \in Snaps
    BY <1>1, <1>2 DEF Snaps
  <1> QED BY <1>1, <1>3 DEF c

\* sbsm_delete_player blanks every slot of those gone and no other snapshot
LEMMA DeleteEffect ==
  ASSUME NEW f \in [Slots -> Snaps], NEW gone
  PROVE  LET d == sbsm_delete_player(f, gone)
         IN  /\ d \in [Slots -> Snaps]
             /\ \A s \in Slots, p \in Players :
                  d[s][p] = IF p \in gone THEN NoSnap ELSE f[s][p]
  BY DEF sbsm_delete_player, Snaps

\* what one turn of sbsm_rewind leaves in players and snapshots
LEMMA RewindEffect ==
  ASSUME TypeOK, NEW busy, NEW killed, NEW spawn \in [killed -> Spawns],
         NEW way \in [InGame -> AnyWay], sbsm_rewind(busy, killed, spawn, way)
  PROVE  /\ player' \in [Players -> Player] /\ pss' \in [Slots -> Snaps]
         /\ cursor' \in Slots
         /\ \A p \in Players :
              /\ player'[p].st = player[p].st /\ player'[p].last = player[p].last
              /\ player[p].st = "in" /\ Dirty(cursor, p) => player'[p].input = pss[cursor][p].input
              /\ pss'[cursor][p] # NoSnap /\ player[p].st = "in" => ~pss'[cursor][p].dirty
              /\ player[p].st # "in" => pss'[cursor][p] \in {NoSnap, pss[cursor][p]}
              /\ p \in killed => \A s \in Slots : pss'[s][p] = NoSnap
              /\ \A s \in Slots : s # cursor =>
                   pss'[s][p] = IF p \in killed THEN NoSnap ELSE pss[s][p]
  <1> DEFINE f == pss[cursor]
             sim == Simulated(f, busy, way)
             c == CommitAll(f, sim)
             g == [pss EXCEPT ![cursor] = c]
  <1>1. /\ player \in [Players -> Player] /\ pss \in [Slots -> Snaps]
        /\ cursor \in Slots /\ presentIdx \in Slots /\ f \in Snaps
    BY DEF TypeOK, Snaps
  <1>2. /\ player' = AfterTick(sim, killed, spawn) /\ pss' = sbsm_delete_player(g, killed)
        /\ cursor' = IF RewindOn THEN NextSlot(cursor) ELSE cursor
    BY DEF sbsm_rewind
  <1>3. ASSUME NEW p \in Players
        PROVE  /\ sim \in [Players -> Player]
               /\ sim[p].st = player[p].st /\ sim[p].last = player[p].last
               /\ player[p].st = "in" /\ f[p] # NoSnap /\ f[p].dirty => sim[p].input = f[p].input
    <2> HIDE DEF f
    <2> QED BY <1>1, SimulatedEffect
  <1>4. sim \in [Players -> Player]
    <2> SUFFICES ASSUME Players = {} PROVE sim \in [Players -> Player]
      BY <1>3
    <2> QED BY DEF Simulated
  <1> HIDE DEF sim, f
  <1>5. ASSUME NEW p \in Players
        PROVE  /\ c \in Snaps
               /\ sim[p].st = "in" /\ c[p] # NoSnap => ~c[p].dirty
               /\ sim[p].st # "in" => c[p] = f[p]
    BY <1>1, <1>4, CommitAllEffect
  <1>6. c \in Snaps
    <2> SUFFICES ASSUME Players = {} PROVE c \in Snaps
      BY <1>5
    <2> QED BY DEF CommitAll, Snaps
  <1> HIDE DEF c
  <1>7. g \in [Slots -> Snaps]
    BY <1>1, <1>6
  <1>8. /\ pss' \in [Slots -> Snaps]
        /\ \A s \in Slots, p \in Players :
             pss'[s][p] = IF p \in killed THEN NoSnap ELSE g[s][p]
    <2> HIDE DEF g
    <2> QED BY <1>2, <1>7, DeleteEffect
  <1>9. g[cursor] = c /\ \A s \in Slots : s # cursor => g[s] = pss[s]
    BY <1>1
  <1> HIDE DEF g
  <1>10. ASSUME NEW p \in Players
         PROVE  /\ player' \in [Players -> Player]
                /\ player'[p].st = sim[p].st /\ player'[p].last = sim[p].last
                /\ player'[p].input = sim[p].input
    BY <1>2, <1>4, AfterTickEffect
  <1>11. player' \in [Players -> Player]
    <2> SUFFICES ASSUME Players = {} PROVE player' \in [Players -> Player]
      BY <1>10
    <2> QED BY <1>2 DEF AfterTick
  <1>12. cursor' \in Slots
    BY <1>1, <1>2, BehindSlot
  <1>13. ASSUME NEW p \in Players
         PROVE  /\ player'[p].st = player[p].st /\ player'[p].last = player[p].last
                /\ player[p].st = "in" /\ Dirty(cursor, p)
                     => player'[p].input = pss[cursor][p].input
                /\ pss'[cursor][p] # NoSnap /\ player[p].st = "in" => ~pss'[cursor][p].dirty
                /\ player[p].st # "in" => pss'[cursor][p] \in {NoSnap, pss[cursor][p]}
                /\ p \in killed => \A s \in Slots : pss'[s][p] = NoSnap
                /\ \A s \in Slots : s # cursor =>
                     pss'[s][p] = IF p \in killed THEN NoSnap ELSE pss[s][p]
    <2>1. /\ player'[p].st = player[p].st /\ player'[p].last = player[p].last
          /\ player[p].st = "in" /\ Dirty(cursor, p)
                     => player'[p].input = pss[cursor][p].input
      BY <1>3, <1>10 DEF f, Dirty
    <2>2. pss'[cursor][p] = IF p \in killed THEN NoSnap ELSE c[p]
      BY <1>1, <1>8, <1>9
    <2>3. ASSUME NEW s \in Slots, s # cursor
          PROVE  pss'[s][p] = IF p \in killed THEN NoSnap ELSE pss[s][p]
      BY <1>8, <1>9, <2>3
    <2>4. /\ pss'[cursor][p] # NoSnap /\ player[p].st = "in" => ~pss'[cursor][p].dirty
          /\ player[p].st # "in" => pss'[cursor][p] \in {NoSnap, pss[cursor][p]}
      BY <1>3, <1>5, <2>2 DEF f
    <2> QED BY <1>8, <2>1, <2>3, <2>4
  <1> QED BY <1>8, <1>11, <1>12, <1>13

\* what sbsm_rotate and the new tick leave in players and snapshots
LEMMA UpdateEffect ==
  ASSUME TypeOK, RingInv, NEW busy, NEW killed, NEW spawn \in [killed -> Spawns],
         NEW way \in [InGame -> AnyWay], coregame_update(busy, killed, spawn, way)
  PROVE  /\ player' \in [Players -> Player] /\ pss' \in [Slots -> Snaps]
         /\ \A p \in Players :
              /\ player'[p].st = player[p].st /\ player'[p].last = player[p].last
              /\ \A s \in Slots :
                   /\ Dirty(s, p)' => \E k \in Slots : Dirty(k, p)
                   /\ player[p].st # "in" =>
                        pss'[s][p] = NoSnap \/ \E k \in Slots : pss'[s][p] = pss[k][p]
                   /\ s # NewPresent /\ s # NewBase => pss'[s][p] \in {NoSnap, pss[s][p]}
  <1> DEFINE f == [p \in Players |-> NoSnap]
             sim == Simulated(f, busy, way)
             r == RotatedPss
             c == CommitAll(r[NewPresent], sim)
             g == [r EXCEPT ![NewPresent] = c]
  <1>1. /\ player \in [Players -> Player] /\ pss \in [Slots -> Snaps] /\ f \in Snaps
        /\ NewPresent \in Slots /\ NewBase \in Slots /\ baseIdx \in Slots
    BY RotateBehind DEF TypeOK, Snaps, coregame_update
  <1>2. player' = AfterTick(sim, killed, spawn) /\ pss' = sbsm_delete_player(g, killed)
    BY DEF coregame_update
  <1>3. /\ r \in [Slots -> Snaps]
        /\ \A p \in Players : r[NewPresent][p] = NoSnap
        /\ \A s \in Slots, p \in Players :
             /\ r[s][p] \in {NoSnap, pss[s][p], pss[baseIdx][p]}
             /\ s # NewPresent /\ s # NewBase => r[s][p] = pss[s][p]
    <2>1. Backfilled \in Snaps
      BY <1>1 DEF Backfilled, Snaps
    <2> QED BY <1>1, <2>1 DEF RotatedPss, Backfilled, Snaps
  <1>4. ASSUME NEW p \in Players
        PROVE  /\ sim \in [Players -> Player]
               /\ sim[p].st = player[p].st /\ sim[p].last = player[p].last
    <2> HIDE DEF f
    <2> QED BY <1>1, SimulatedEffect
  <1>5. sim \in [Players -> Player]
    <2> SUFFICES ASSUME Players = {} PROVE sim \in [Players -> Player]
      BY <1>4
    <2> QED BY DEF Simulated
  <1> HIDE DEF f, sim, r
  <1>6. r[NewPresent] \in Snaps
    BY <1>1, <1>3
  <1>7. ASSUME NEW p \in Players
        PROVE  /\ c \in Snaps
               /\ sim[p].st = "in" /\ c[p] # NoSnap => ~c[p].dirty
               /\ sim[p].st # "in" => c[p] = r[NewPresent][p]
    BY <1>5, <1>6, CommitAllEffect
  <1>8. c \in Snaps
    <2> SUFFICES ASSUME Players = {} PROVE c \in Snaps
      BY <1>7
    <2> QED BY DEF CommitAll, Snaps
  <1> HIDE DEF c
  <1>9. g \in [Slots -> Snaps]
    BY <1>1, <1>3, <1>8
  <1>10. /\ pss' \in [Slots -> Snaps]
         /\ \A s \in Slots, p \in Players :
              pss'[s][p] = IF p \in killed THEN NoSnap ELSE g[s][p]
    <2> HIDE DEF g
    <2> QED BY <1>2, <1>9, DeleteEffect
  <1>11. g[NewPresent] = c /\ \A s \in Slots : s # NewPresent => g[s] = r[s]
    BY <1>1, <1>3
  <1> HIDE DEF g
  <1>12. ASSUME NEW p \in Players
         PROVE  /\ player' \in [Players -> Player]
                /\ player'[p].st = sim[p].st /\ player'[p].last = sim[p].last
    BY <1>2, <1>5, AfterTickEffect
  <1>13. player' \in [Players -> Player]
    <2> SUFFICES ASSUME Players = {} PROVE player' \in [Players -> Player]
      BY <1>12
    <2> QED BY <1>2 DEF AfterTick
  <1>14. ASSUME NEW p \in Players, NEW s \in Slots
         PROVE  /\ Dirty(s, p)' => \E k \in Slots : Dirty(k, p)
                /\ player[p].st # "in" =>
                     pss'[s][p] = NoSnap \/ \E k \in Slots : pss'[s][p] = pss[k][p]
                /\ s # NewPresent /\ s # NewBase => pss'[s][p] \in {NoSnap, pss[s][p]}
    <2>1. Dirty(s, p)' <=> pss'[s][p] # NoSnap /\ pss'[s][p].dirty
      BY DEF Dirty
    <2>2. CASE s = NewPresent
      <3>1. pss'[s][p] = NoSnap \/ pss'[s][p] = c[p]
        BY <1>10, <1>11, <2>2
      <3>2. player[p].st # "in" => pss'[s][p] = NoSnap
        BY <1>3, <1>4, <1>7, <3>1
      <3>3. ~ Dirty(s, p)'
        BY <1>3, <1>4, <1>7, <2>1, <3>1, <3>2
      <3> QED BY <2>2, <3>2, <3>3
    <2>3. CASE s # NewPresent
      <3>1. pss'[s][p] = NoSnap \/ pss'[s][p] = r[s][p]
        BY <1>10, <1>11, <2>3
      <3>2. pss'[s][p] \in {NoSnap, pss[s][p], pss[baseIdx][p]}
        BY <1>3, <3>1
      <3>3. Dirty(s, p)' => Dirty(s, p) \/ Dirty(baseIdx, p)
        BY <2>1, <3>2 DEF Dirty
      <3> QED BY <1>1, <1>3, <2>3, <3>1, <3>2, <3>3
    <2> QED BY <2>2, <2>3
  <1> QED BY <1>4, <1>10, <1>12, <1>13, <1>14

\* what filing an input changes, with the slot it goes to
LEMMA FileEffect ==
  ASSUME TypeOK, RingInv, NEW p \in Players, NEW input \in Inputs, NEW t \in Int,
         FileInput(p, input, t)
  PROVE  \E s \in Slots :
           /\ Behind(s) <= Behind(baseIdx) /\ Behind(s) <= seq
           /\ player[p].st = "in" /\ player[p].last <= stamp[s]
           /\ player' = [player EXCEPT ![p].last = stamp[s]]
           /\ oldest' = OldestOf(s)
           /\ pss' \in [Slots -> Snaps]
           /\ Dirty(s, p)'
           /\ \A k \in Slots, q \in Players :
                /\ (k # s \/ q # p) => pss'[k][q] = pss[k][q]
                /\ Dirty(k, q) => Dirty(k, q)'
           /\ pc = "idle" /\ UNCHANGED <<ringVars, pc, cursor>>
  <1> DEFINE s == sbsm_lookup(t)
             n == [OnFile(s, p) EXCEPT !.input = input, !.dirty = TRUE,
                                       !.count = OnFile(s, p).count + 1]
  <1>1. s \in Slots /\ Behind(s) <= Behind(baseIdx) /\ Behind(s) <= seq
    BY LookupSlot
  <1>2. /\ player[p].st = "in" /\ ~(player[p].last > stamp[s])
        /\ player' = [player EXCEPT ![p].last = stamp[s]] /\ oldest' = OldestOf(s)
        /\ pss' = [pss EXCEPT ![s][p] = n]
        /\ pc = "idle" /\ UNCHANGED <<ringVars, pc, cursor>>
    BY DEF FileInput, LateInput
  <1>3. /\ player[p] \in Player /\ pss \in [Slots -> Snaps]
        /\ pss \in [Slots -> [Players -> Snap \cup {NoSnap}]] /\ stamp \in [Slots -> Nat]
    BY DEF TypeOK, Snaps
  <1> HIDE DEF s
  <1>4. OnFile(s, p) \in Snap
    <2>1. CASE pss[s][p] # NoSnap
      <3>1. pss[s][p] \in Snap \cup {NoSnap}
        BY <1>1, <1>3 DEF Snaps
      <3> QED BY <2>1, <3>1 DEF OnFile
    <2>2. CASE pss[s][p] = NoSnap
      BY <1>3, <2>2, PlayerFields DEF OnFile, Snap
    <2> QED BY <2>1, <2>2
  <1>5. n \in Snap /\ n.dirty
    <2> DEFINE o == OnFile(s, p)
    <2> HIDE DEF o
    <2>1. o \in Snap /\ o.count + 1 \in Nat /\ TRUE \in BOOLEAN
      BY <1>4 DEF Snap, o
    <2>2. n = [o EXCEPT !.input = input, !.dirty = TRUE, !.count = o.count + 1]
      BY DEF o
    <2> HIDE DEF n
    <2> QED BY <2>1, <2>2 DEF Snap
  <1>6. n # NoSnap
    BY <1>5 DEF Snap, NoSnap
  <1> HIDE DEF n
  <1>7. /\ pss' \in [Slots -> Snaps]
        /\ pss'[s][p] = n
        /\ \A k \in Slots, q \in Players : (k # s \/ q # p) => pss'[k][q] = pss[k][q]
    BY <1>1, <1>2, <1>3, <1>5 DEF Snaps
  <1>8. player[p].last <= stamp[s]
    BY <1>1, <1>2, <1>3, PlayerFields
  <1>9. ASSUME NEW k \in Slots, NEW q \in Players, Dirty(k, q)
        PROVE  Dirty(k, q)'
    BY <1>5, <1>6, <1>7, <1>9 DEF Dirty
  <1>10. pss'[s][p] # NoSnap /\ pss'[s][p].dirty
    BY <1>5, <1>6, <1>7
  <1> QED BY <1>1, <1>2, <1>7, <1>8, <1>9, <1>10 DEF Dirty

\* a refused input moves nothing but the last accepted time
LEMMA RefuseEffect ==
  ASSUME TypeOK, RingInv, NEW p \in Players, NEW input \in Inputs, NEW t \in Int,
         RefuseInput(p, input, t)
  PROVE  \E s \in Slots :
           /\ Behind(s) <= seq /\ player[p].last <= stamp[s]
           /\ player' = [player EXCEPT ![p].last = stamp[s]]
           /\ UNCHANGED <<ringVars, pss, oldest, pc, cursor>>
  <1> DEFINE s == sbsm_lookup(t)
  <1>1. s \in Slots /\ Behind(s) <= seq
    BY LookupSlot
  <1>2. /\ ~(player[p].last > stamp[s])
        /\ player' = [player EXCEPT ![p].last = stamp[s]]
        /\ UNCHANGED <<ringVars, pss, oldest, pc, cursor>>
    BY DEF RefuseInput, LateInput
  <1>3. player[p] \in Player /\ stamp \in [Slots -> Nat]
    BY DEF TypeOK
  <1> HIDE DEF s
  <1>4. player[p].last <= stamp[s]
    BY <1>1, <1>2, <1>3, PlayerFields
  <1> QED BY <1>1, <1>2, <1>4

\* what sbsm_rollback leaves in players and snapshots
LEMMA RollbackEffect ==
  ASSUME TypeOK, sbsm_rollback
  PROVE  /\ oldest \in Slots /\ pc = "idle"
         /\ player' \in [Players -> Player] /\ pss' \in [Slots -> Snaps]
         /\ \A p \in Players :
              /\ player'[p].st = player[p].st /\ player'[p].last = player[p].last
              /\ pss[oldest][p] # NoSnap /\ player[p].st = "in"
                   => player'[p].input = pss[oldest][p].input
              /\ pss[oldest][p] = NoSnap => pss'[oldest][p] = NoSnap
              /\ player[p].st = "in" => pss'[oldest][p] = NoSnap \/ ~pss'[oldest][p].dirty
              /\ \A s \in Slots :
                   /\ Dirty(s, p)' => Dirty(s, p)
                   /\ s # oldest => pss'[s][p] = pss[s][p]
  <1>1. /\ oldest \in Slots /\ pc = "idle"
        /\ player' = [p \in Players |-> sbsm_rollback_player(pss[oldest][p], player[p])]
        /\ pss' = [pss EXCEPT ![oldest] =
               [p \in Players |->
                  IF pss[oldest][p] # NoSnap /\ player[p].st = "in"
                  THEN [pss[oldest][p] EXCEPT !.dirty = FALSE]
                  ELSE pss[oldest][p]]]
    BY DEF TypeOK, sbsm_rollback
  <1>2. /\ player \in [Players -> Player]
        /\ pss \in [Slots -> [Players -> Snap \cup {NoSnap}]]
    BY DEF TypeOK
  <1>3. ASSUME NEW p \in Players
        PROVE  /\ player'[p] \in Player
               /\ player'[p].st = player[p].st /\ player'[p].last = player[p].last
               /\ pss[oldest][p] # NoSnap /\ player[p].st = "in"
                    => player'[p].input = pss[oldest][p].input
    <2>1. player[p] \in Player /\ pss[oldest][p] \in Snap \cup {NoSnap}
      BY <1>1, <1>2
    <2>2. player'[p] = sbsm_rollback_player(pss[oldest][p], player[p])
      BY <1>1
    <2> QED BY <2>1, <2>2, RollbackType
  <1>4. player' \in [Players -> Player]
    <2>1. player' = [p \in Players |-> player'[p]]
      BY <1>1
    <2> QED BY <1>3, <2>1
  <1> DEFINE old(p) == pss[oldest][p]
             n == [p \in Players |->
                     IF old(p) # NoSnap /\ player[p].st = "in"
                     THEN [old(p) EXCEPT !.dirty = FALSE] ELSE old(p)]
  <1>5. ASSUME NEW p \in Players
        PROVE  /\ n[p] \in Snap \cup {NoSnap}
               /\ old(p) = NoSnap => n[p] = NoSnap
               /\ player[p].st = "in" => n[p] = NoSnap \/ ~n[p].dirty
               /\ n[p] # NoSnap /\ n[p].dirty => old(p) # NoSnap /\ old(p).dirty
    <2>1. old(p) \in Snap \cup {NoSnap}
      BY <1>1, <1>2
    <2>2. n[p] = IF old(p) # NoSnap /\ player[p].st = "in"
                 THEN [old(p) EXCEPT !.dirty = FALSE] ELSE old(p)
      OBVIOUS
    <2> HIDE DEF n, old
    <2>3. CASE old(p) # NoSnap /\ player[p].st = "in"
      <3>1. old(p) \in Snap /\ n[p] = [old(p) EXCEPT !.dirty = FALSE]
        BY <2>1, <2>2, <2>3
      <3>2. n[p] \in Snap /\ ~n[p].dirty
        BY <3>1 DEF Snap
      <3> QED BY <2>3, <3>2
    <2>4. CASE ~(old(p) # NoSnap /\ player[p].st = "in")
      BY <2>1, <2>2, <2>4
    <2> QED BY <2>3, <2>4
  <1>6. n \in Snaps
    <2>1. n = [p \in Players |-> n[p]]
      OBVIOUS
    <2> HIDE DEF n
    <2> QED BY <1>5, <2>1 DEF Snaps
  <1>7. pss' = [pss EXCEPT ![oldest] = n]
    BY <1>1
  <1> HIDE DEF n
  <1>8. /\ pss' \in [Slots -> Snaps] /\ pss'[oldest] = n
        /\ \A s \in Slots : s # oldest => pss'[s] = pss[s]
    BY <1>1, <1>2, <1>6, <1>7 DEF Snaps
  <1>9. ASSUME NEW p \in Players, NEW s \in Slots
        PROVE  /\ Dirty(s, p)' => Dirty(s, p)
               /\ s # oldest => pss'[s][p] = pss[s][p]
    BY <1>5, <1>8 DEF Dirty
  <1> QED BY <1>1, <1>3, <1>4, <1>5, <1>8, <1>9
\* bots that are put somewhere stay what they are
LEMMA MoveBotEffect ==
  ASSUME player \in [Players -> Player], NEW p, NEW bots, NEW to \in Lo..Hi,
         move_bot(p, bots, to)
  PROVE  /\ player' \in [Players -> Player]
         /\ \A q \in Players :
              /\ player'[q].st = player[q].st /\ player'[q].last = player[q].last
              /\ player'[q].input = player[q].input
              /\ q \notin bots => player'[q] = player[q]
         /\ UNCHANGED <<ringVars, pss, oldest, pc, cursor>>
  <1>1. /\ player' = [q \in Players |->
                        IF q \in bots THEN [player[q] EXCEPT !.pos = to] ELSE player[q]]
        /\ UNCHANGED <<ringVars, pss, oldest, pc, cursor>>
    BY DEF move_bot
  <1>2. to \in Int
    BY WorldAssumption
  <1>3. ASSUME NEW q \in Players
        PROVE  /\ player'[q] \in Player
               /\ player'[q].st = player[q].st /\ player'[q].last = player[q].last
               /\ player'[q].input = player[q].input
               /\ q \notin bots => player'[q] = player[q]
    <2>1. player[q] \in Player
      OBVIOUS
    <2>2. CASE q \in bots
      <3>1. player'[q] = [player[q] EXCEPT !.pos = to]
        BY <1>1, <2>2
      <3> QED BY <1>2, <2>1, <2>2, <3>1 DEF Player
    <2>3. CASE q \notin bots
      BY <1>1, <2>1, <2>3
    <2> QED BY <2>2, <2>3
  <1>4. player' \in [Players -> Player]
    BY <1>1, <1>3
  <1> QED BY <1>1, <1>3, <1>4

-------------------------------------------------------------------------------
(* Type correctness. *)

\* ... and so do the types
LEMMA TypeRun == Run => []TypeOK
  <1>1. Init => TypeOK
    <2> SUFFICES ASSUME Init PROVE TypeOK
      OBVIOUS
    <2>1. RingType
      BY RingInit DEF RingInv
    <2>2. [NewPlayer(0) EXCEPT !.st = "absent"] \in Player
      BY WorldAssumption DEF NewPlayer, Player
    <2>3. player \in [Players -> Player]
      BY <2>2 DEF Init
    <2>4. pss \in [Slots -> [Players -> Snap \cup {NoSnap}]]
      BY DEF Init
    <2>5. 0 \in Slots
      BY SizeAssumption, SMT DEF Slots
    <2> QED BY <2>1, <2>3, <2>4, <2>5 DEF Init, TypeOK, RingType
  <1>2. TypeOK /\ RingInv /\ RingInv' /\ [Next]_vars => TypeOK'
    <2> SUFFICES ASSUME TypeOK, RingInv, RingInv', [Next]_vars
                 PROVE  TypeOK'
      OBVIOUS
    <2> USE DEF Snaps
    <2>1. RingType'
      BY DEF RingInv
    <2>2. ASSUME NEW p \in Players, coregame_add_player(p)
          PROVE  TypeOK'
      <3>1. PICK spawn \in Spawns : player' = [player EXCEPT ![p] = NewPlayer(spawn)]
        BY <2>2 DEF coregame_add_player
      <3>2. NewPlayer(spawn) \in Player
        BY WorldAssumption DEF NewPlayer, Player
      <3> QED BY <2>1, <2>2, <3>1, <3>2 DEF coregame_add_player, TypeOK, RingType
    <2>3. ASSUME NEW p \in Players, coregame_free_player(p)
          PROVE  TypeOK'
      <3>1. pss' = sbsm_delete_player(pss, {p}) /\ pss \in [Slots -> Snaps]
        BY <2>3 DEF coregame_free_player, TypeOK
      <3>2. pss' \in [Slots -> Snaps]
        BY <3>1, DeleteEffect
      <3>3. player' = [player EXCEPT ![p].st = "left"]
        BY <2>3 DEF coregame_free_player
      <3>4. player' \in [Players -> Player]
        BY <3>3 DEF TypeOK, Player
      <3> QED BY <2>1, <2>3, <3>2, <3>4 DEF coregame_free_player, TypeOK, RingType
    <2>4. ASSUME NEW p \in Players, NEW input \in Inputs, NEW t \in 0..(time + Interval),
                 RefuseInput(p, input, t)
          PROVE  TypeOK'
      <3>1. PICK s \in Slots : player' = [player EXCEPT ![p].last = stamp[s]]
        BY <2>4, RefuseEffect
      <3>2. stamp[s] \in Nat
        BY DEF TypeOK
      <3>3. player' \in [Players -> Player]
        BY <3>1, <3>2 DEF TypeOK, Player
      <3> QED BY <2>1, <2>4, <3>3 DEF RefuseInput, TypeOK, RingType
    <2>5. ASSUME NEW p \in Players, NEW input \in Inputs, NEW t \in 0..(time + Interval),
                 FileInput(p, input, t)
          PROVE  TypeOK'
      <3>1. PICK s \in Slots : /\ player' = [player EXCEPT ![p].last = stamp[s]]
                               /\ oldest' = OldestOf(s) /\ pss' \in [Slots -> Snaps]
        BY <2>5, FileEffect
      <3>2. stamp[s] \in Nat
        BY DEF TypeOK
      <3>3. player' \in [Players -> Player]
        BY <3>1, <3>2 DEF TypeOK, Player
      <3>4. oldest' \in Slots \cup {NoSlot}
        BY <3>1 DEF OldestOf, TypeOK
      <3>5. sent' \in Nat
        BY <2>5 DEF FileInput, TypeOK
      <3> QED BY <2>1, <2>5, <3>1, <3>3, <3>4, <3>5 DEF FileInput, TypeOK, RingType
    <2>6. ASSUME sbsm_rollback PROVE TypeOK'
      <3>1. sbsm_index(stamp[oldest]) \in Slots
        <4>1. oldest \in Slots
          BY <2>6, RollbackEffect
        <4>2. stamp[oldest] \in Int
          BY <4>1 DEF TypeOK
        <4>3. CeilDiv(stamp[oldest]) \in Int
          BY <4>2, CeilDivTick
        <4> QED BY <4>3, SizeAssumption, SMT DEF sbsm_index, Slots
      <3> QED BY <2>1, <2>6, <3>1, RollbackEffect DEF sbsm_rollback, TypeOK, RingType, NoSlot
    <2>7. ASSUME NEW busy, NEW killed, NEW spawn \in [killed -> Spawns],
                 NEW way \in [InGame -> AnyWay], sbsm_rewind(busy, killed, spawn, way)
          PROVE  TypeOK'
      BY <2>1, <2>7, RewindEffect DEF sbsm_rewind, TypeOK, RingType
    <2>8. ASSUME NEW busy, NEW killed, NEW spawn \in [killed -> Spawns],
                 NEW way \in [InGame -> AnyWay], coregame_update(busy, killed, spawn, way)
          PROVE  TypeOK'
      BY <2>1, <2>8, UpdateEffect DEF coregame_update, TypeOK, RingType
    <2>9. ASSUME NEW p \in Players, NEW bots, NEW to \in Lo..Hi, move_bot(p, bots, to)
          PROVE  TypeOK'
      <3>1. player' \in [Players -> Player] /\ UNCHANGED <<ringVars, pss, oldest, pc, cursor>>
        BY <2>9, MoveBotEffect DEF TypeOK
      <3>2. sent' \in Nat
        BY <2>9 DEF move_bot, TypeOK
      <3> QED BY <2>1, <3>1, <3>2 DEF TypeOK, RingType
    <2>10. CASE UNCHANGED vars
      BY <2>10 DEF vars, TypeOK
    <2> QED BY <2>2, <2>3, <2>4, <2>5, <2>6, <2>7, <2>8, <2>9, <2>10
            DEF Next, Handlers, Update
  <1> QED BY <1>1, <1>2, RingRun, PTL DEF Run

(***************************************************************************)
(* The ring's indices stay inside the ring and what is on file stays a     *)
(* snapshot, for every size of ring and however many players come and go.  *)
(***************************************************************************)
THEOREM TypeInvariant == Spec => []TypeOK
  BY TypeRun, PTL DEF Spec, Run
-------------------------------------------------------------------------------
(* What the snapshots hold. *)

\* rollbacks start, and rewinds go on, at a slot of the window
CursorReached ==
  /\ oldest # NoSlot => Behind(oldest) <= Behind(baseIdx)
  /\ pc # "idle" => Behind(cursor) <= Behind(baseIdx)

\* PendingCovered is inductive only for slots that a lookup can find, and
\* InputOrder only while nothing filed is left behind a rewind
FiledInv == CursorReached /\ UnreachedBlank /\ PendingCovered /\ InputOrder /\ GoneForgotten

Known == TypeOK /\ RingInv

\* when the ring turns, no filed input is waiting
LEMMA RotateWhenClean ==
  ASSUME PendingCovered, NEW busy, NEW killed, NEW spawn, NEW way, coregame_update(busy, killed, spawn, way)
  PROVE  \A s \in Slots, p \in Players : ~Dirty(s, p)
  BY DEF PendingCovered, coregame_update

\* while the ring stands still the claims about slots and times stay as they are
LEMMA RingStands ==
  ASSUME UNCHANGED ringVars
  PROVE  \A s : Behind(s)' = Behind(s)
  BY DEF ringVars, Behind

\* FiledInv holds of a new ring
LEMMA FiledInit == Init => FiledInv
  <1> SUFFICES ASSUME Init PROVE FiledInv
    OBVIOUS
  <1>1. \A s \in Slots, p \in Players : pss[s][p] = NoSnap
    BY DEF Init
  <1>2. oldest = NoSlot /\ pc = "idle"
    BY DEF Init
  <1>3. presentIdx \in Slots /\ stamp \in [Slots -> Nat]
    BY RingInit DEF RingInv, RingType
  <1>4. \A p \in Players : player[p].last = 0
    BY DEF Init, NewPlayer
  <1>5. \A p \in Players : player[p].last <= stamp[presentIdx]
    BY <1>3, <1>4
  <1> QED BY <1>1, <1>2, <1>5
          DEF FiledInv, CursorReached, UnreachedBlank, PendingCovered, InputOrder, GoneForgotten, Dirty

\* ... is kept by coregame_add_player
LEMMA FiledJoin ==
  ASSUME Known, FiledInv, NEW p \in Players, coregame_add_player(p)
  PROVE  FiledInv'
  <1>1. PICK spawn \in Spawns : player' = [player EXCEPT ![p] = NewPlayer(spawn)]
    BY DEF coregame_add_player
  <1>2. /\ player \in [Players -> Player] /\ player[p].st = "absent"
        /\ UNCHANGED <<ringVars, pss, oldest, pc, cursor>>
    BY DEF coregame_add_player, Known, TypeOK
  <1>3. \A s \in Slots, q \in Players : Dirty(s, q)' <=> Dirty(s, q)
    BY <1>2 DEF Dirty
  <1>4. \A s \in Slots : pss[s][p] = NoSnap
    BY <1>2 DEF FiledInv, GoneForgotten, InGame
  <1>5. CursorReached' /\ UnreachedBlank' /\ PendingCovered'
    BY <1>2, <1>3, RingStands
    DEF FiledInv, CursorReached, UnreachedBlank, PendingCovered, ringVars
  <1>6. InputOrder'
    <2>1. ASSUME NEW q \in Players
          PROVE  /\ player'[q].last <= stamp[presentIdx]
                 /\ \A s \in Slots : Dirty(s, q) => stamp[s] <= player'[q].last
      <3>1. CASE q = p
        <4>1. player'[q].last = 0
          BY <1>1, <1>2, <3>1 DEF NewPlayer
        <4>2. stamp[presentIdx] \in Nat
          BY DEF Known, TypeOK
        <4> QED BY <1>4, <3>1, <4>1, <4>2 DEF Dirty
      <3>2. CASE q # p
        BY <1>1, <1>2, <3>2 DEF FiledInv, InputOrder
      <3> QED BY <3>1, <3>2
    <2> QED BY <1>2, <1>3, <2>1 DEF InputOrder, ringVars
  <1>7. GoneForgotten'
    <2>1. \A q \in Players : player'[q].st # "in" => player[q].st # "in"
      BY <1>1, <1>2 DEF NewPlayer
    <2> QED BY <1>2, <2>1 DEF FiledInv, GoneForgotten, InGame
  <1> QED BY <1>5, <1>6, <1>7 DEF FiledInv

\* ... by coregame_free_player
LEMMA FiledLeave ==
  ASSUME Known, FiledInv, NEW p \in Players, coregame_free_player(p)
  PROVE  FiledInv'
  <1>1. /\ pss' = sbsm_delete_player(pss, {p}) /\ pss \in [Slots -> Snaps]
        /\ player \in [Players -> Player] /\ player' = [player EXCEPT ![p].st = "left"]
        /\ UNCHANGED <<ringVars, oldest, pc, cursor>>
    BY DEF coregame_free_player, Known, TypeOK, Snaps
  <1>2. \A s \in Slots, q \in Players : pss'[s][q] = IF q = p THEN NoSnap ELSE pss[s][q]
    BY <1>1, DeleteEffect
  <1>3. \A q \in Players : player'[q].last = player[q].last
                           /\ (q # p => player'[q].st = player[q].st)
    BY <1>1 DEF Player
  <1>4. \A s \in Slots, q \in Players : Dirty(s, q)' => Dirty(s, q)
    BY <1>2 DEF Dirty
  <1>5. CursorReached'
    BY <1>1, RingStands DEF FiledInv, CursorReached, ringVars
  <1>6. UnreachedBlank'
    <2>1. \A s \in Slots : Behind(s)' > seq' => Behind(s) > seq
      BY <1>1, RingStands DEF ringVars
    <2> QED BY <1>2, <2>1 DEF FiledInv, UnreachedBlank
  <1>7. PendingCovered'
    BY <1>1, <1>4, RingStands DEF FiledInv, PendingCovered
  <1>8. InputOrder'
    BY <1>1, <1>3, <1>4 DEF FiledInv, InputOrder, ringVars
  <1>9. GoneForgotten'
    BY <1>2, <1>3 DEF FiledInv, GoneForgotten, InGame
  <1> QED BY <1>5, <1>6, <1>7, <1>8, <1>9 DEF FiledInv

\* ... by an input that is refused
LEMMA FiledRefuse ==
  ASSUME Known, FiledInv, NEW p \in Players, NEW input \in Inputs, NEW t \in Int,
         RefuseInput(p, input, t)
  PROVE  FiledInv'
  <1>1. PICK k \in Slots :
           /\ Behind(k) <= seq /\ player[p].last <= stamp[k]
           /\ player' = [player EXCEPT ![p].last = stamp[k]]
           /\ UNCHANGED <<ringVars, pss, oldest, pc, cursor>>
    BY RefuseEffect DEF Known
  <1>2. /\ player \in [Players -> Player] /\ stamp \in [Slots -> Nat]
        /\ \A q \in Players : player'[q].st = player[q].st
        /\ player'[p].last = stamp[k]
        /\ \A q \in Players : q # p => player'[q].last = player[q].last
    BY <1>1 DEF Known, TypeOK, Player
  <1>3. \A s \in Slots, q \in Players : Dirty(s, q)' <=> Dirty(s, q)
    BY <1>1 DEF Dirty
  <1>4. CursorReached' /\ UnreachedBlank' /\ PendingCovered'
    BY <1>1, <1>3, RingStands
    DEF FiledInv, CursorReached, UnreachedBlank, PendingCovered, ringVars
  <1>5. stamp[k] <= stamp[presentIdx]
    <2>1. presentIdx \in Slots /\ Behind(presentIdx) = 0 /\ 0 <= seq
          /\ Behind(k) \in 0..(Size - 1)
      BY BehindSlot DEF Known, TypeOK
    <2>2. ~ (stamp[presentIdx] < stamp[k])
      BY <1>1, <2>1, StampOrder DEF Known
    <2> QED BY <1>2, <2>1, <2>2
  <1>6. InputOrder'
    <2>1. ASSUME NEW q \in Players
          PROVE  /\ player'[q].last <= stamp[presentIdx]
                 /\ \A s \in Slots : Dirty(s, q) => stamp[s] <= player'[q].last
      <3>1. CASE q = p
        <4>1. \A s \in Slots : Dirty(s, p) => stamp[s] <= player[p].last
          BY DEF FiledInv, InputOrder
        <4>2. player[p].last \in Nat
          BY <1>2, PlayerFields
        <4> QED BY <1>1, <1>2, <1>5, <3>1, <4>1, <4>2
      <3>2. CASE q # p
        BY <1>2, <3>2 DEF FiledInv, InputOrder
      <3> QED BY <3>1, <3>2
    <2> QED BY <1>1, <1>3, <2>1 DEF InputOrder, ringVars
  <1>7. GoneForgotten'
    BY <1>1, <1>2 DEF FiledInv, GoneForgotten, InGame
  <1> QED BY <1>4, <1>6, <1>7 DEF FiledInv

\* ... by an input that is filed
LEMMA FiledFile ==
  ASSUME Known, FiledInv, NEW p \in Players, NEW input \in Inputs, NEW t \in Int,
         FileInput(p, input, t)
  PROVE  FiledInv'
  <1>1. PICK k \in Slots :
           /\ Behind(k) <= Behind(baseIdx) /\ Behind(k) <= seq
           /\ player[p].st = "in" /\ player[p].last <= stamp[k]
           /\ player' = [player EXCEPT ![p].last = stamp[k]]
           /\ oldest' = OldestOf(k)
           /\ pss' \in [Slots -> Snaps]
           /\ \A s \in Slots, q \in Players :
                /\ (s # k \/ q # p) => pss'[s][q] = pss[s][q]
                /\ Dirty(s, q) => Dirty(s, q)'
           /\ pc = "idle" /\ UNCHANGED <<ringVars, pc, cursor>>
    BY FileEffect DEF Known
  <1>2. /\ player \in [Players -> Player] /\ stamp \in [Slots -> Nat]
        /\ \A q \in Players : player'[q].st = player[q].st
        /\ player'[p].last = stamp[k]
        /\ \A q \in Players : q # p => player'[q].last = player[q].last
    BY <1>1 DEF Known, TypeOK, Player
  <1>3. /\ presentIdx \in Slots /\ baseIdx \in Slots /\ seq \in Nat
        /\ oldest \in Slots \cup {NoSlot} /\ Behind(presentIdx) = 0
        /\ \A s \in Slots : Behind(s) \in 0..(Size - 1)
        /\ Behind(baseIdx) <= seq
    BY BehindSlot, BaseReached DEF Known, TypeOK
  <1>4. \A s \in Slots, q \in Players : Dirty(s, q)' => Dirty(s, q) \/ (s = k /\ q = p)
    BY <1>1 DEF Dirty
  <1>5. PICK o \in Slots :
           /\ oldest' = o /\ o # NoSlot
           /\ Behind(o) <= Behind(baseIdx) /\ Behind(k) <= Behind(o)
           /\ oldest # NoSlot => Behind(oldest) <= Behind(o)
    <2>1. \A s \in Slots : s # NoSlot
      BY DEF Slots, NoSlot
    <2>2. CASE oldest = NoSlot
      BY <1>1, <1>3, <2>1, <2>2 DEF OldestOf
    <2>3. CASE oldest # NoSlot
      <3>1. oldest \in Slots /\ Behind(oldest) <= Behind(baseIdx)
        BY <1>3, <2>3 DEF FiledInv, CursorReached
      <3>2. Behind(oldest) <= seq
        BY <1>3, <3>1
      <3>3. stamp[k] < stamp[oldest] <=> Behind(oldest) < Behind(k)
        BY <1>1, <3>1, <3>2, StampOrder DEF Known
      <3>4. oldest' = IF stamp[k] < stamp[oldest] THEN k ELSE oldest
        BY <1>1, <2>3 DEF OldestOf
      <3> QED BY <1>1, <1>3, <2>1, <3>1, <3>3, <3>4
    <2> QED BY <2>2, <2>3
  <1>6. CursorReached'
    <2>1. Behind(oldest)' = Behind(o) /\ Behind(baseIdx)' = Behind(baseIdx)
      BY <1>1, <1>5 DEF ringVars, Behind
    <2> QED BY <1>1, <1>5, <2>1 DEF CursorReached
  <1>7. UnreachedBlank'
    <2>1. \A s \in Slots : Behind(s)' > seq' => Behind(s) > seq /\ s # k
      <3>1. seq' = seq /\ \A s : Behind(s)' = Behind(s)
        BY <1>1, RingStands DEF ringVars
      <3> QED BY <1>1, <1>3, <3>1
    <2> QED BY <1>1, <2>1 DEF FiledInv, UnreachedBlank
  <1>8. PendingCovered'
    <2>1. ASSUME NEW s \in Slots, NEW q \in Players, Dirty(s, q)'
          PROVE  Behind(s) <= Behind(o)
      <3>1. CASE s = k
        BY <1>5, <3>1
      <3>2. CASE s # k
        <4>1. oldest # NoSlot /\ Behind(s) <= Behind(oldest)
          BY <1>1, <1>4, <2>1, <3>2 DEF FiledInv, PendingCovered
        <4> QED BY <1>3, <1>5, <4>1
      <3> QED BY <3>1, <3>2
    <2>2. Behind(oldest)' = Behind(o) /\ \A s : Behind(s)' = Behind(s)
      BY <1>1, <1>5 DEF ringVars, Behind
    <2> QED BY <1>1, <1>5, <2>1, <2>2 DEF PendingCovered
  <1>9. stamp[k] <= stamp[presentIdx]
    <2>1. ~ (stamp[presentIdx] < stamp[k])
      BY <1>1, <1>3, StampOrder DEF Known
    <2> QED BY <1>2, <1>3, <2>1
  <1>10. InputOrder'
    <2>1. ASSUME NEW q \in Players
          PROVE  /\ player'[q].last <= stamp[presentIdx]
                 /\ \A s \in Slots : Dirty(s, q)' => stamp[s] <= player'[q].last
      <3>1. CASE q = p
        <4>1. \A s \in Slots : Dirty(s, p) => stamp[s] <= player[p].last
          BY DEF FiledInv, InputOrder
        <4>2. player[p].last \in Nat
          BY <1>2, PlayerFields
        <4> QED BY <1>1, <1>2, <1>4, <1>9, <3>1, <4>1, <4>2
      <3>2. CASE q # p
        BY <1>2, <1>4, <3>2 DEF FiledInv, InputOrder
      <3> QED BY <3>1, <3>2
    <2> QED BY <1>1, <2>1 DEF InputOrder, ringVars
  <1>11. GoneForgotten'
    BY <1>1, <1>2 DEF FiledInv, GoneForgotten, InGame
  <1> QED BY <1>6, <1>7, <1>8, <1>10, <1>11 DEF FiledInv
\* no player who left is on file, so whoever is on file takes what is on file
LEMMA OnFileIsIn ==
  ASSUME FiledInv, NEW p \in Players, NEW s \in Slots, pss[s][p] # NoSnap
  PROVE  player[p].st = "in"
  BY DEF FiledInv, GoneForgotten, InGame

\* ... by sbsm_rollback
LEMMA FiledRollback ==
  ASSUME Known, FiledInv, sbsm_rollback
  PROVE  FiledInv'
  <1>1. /\ oldest \in Slots /\ pc = "idle" /\ oldest # NoSlot
        /\ oldest' = NoSlot /\ pc' = "rewind" /\ cursor' = sbsm_index(stamp[oldest])
        /\ UNCHANGED ringVars
        /\ \A p \in Players :
              /\ player'[p].st = player[p].st /\ player'[p].last = player[p].last
              /\ pss[oldest][p] = NoSnap => pss'[oldest][p] = NoSnap
              /\ \A s \in Slots :
                   /\ Dirty(s, p)' => Dirty(s, p)
                   /\ s # oldest => pss'[s][p] = pss[s][p]
    BY RollbackEffect DEF Known, sbsm_rollback
  <1>2. /\ Behind(oldest) <= Behind(baseIdx) /\ Behind(baseIdx) <= seq
        /\ Behind(oldest) \in 0..(Size - 1) /\ Behind(baseIdx) \in 0..(Size - 1)
        /\ seq \in Nat
    BY <1>1, BaseReached, BehindSlot DEF FiledInv, CursorReached, Known, TypeOK
  <1>3. Behind(oldest) <= seq
    BY <1>2
  <1>4. cursor' = oldest
    BY <1>1, <1>3, StampOfReached DEF Known
  <1>5. /\ Behind(cursor)' = Behind(oldest)
        /\ \A s : Behind(s)' = Behind(s)
        /\ Behind(baseIdx)' = Behind(baseIdx)
    BY <1>1, <1>4 DEF ringVars, Behind
  <1>6. CursorReached'
    BY <1>1, <1>2, <1>5 DEF CursorReached
  <1>7. UnreachedBlank'
    <2>1. \A s \in Slots : Behind(s)' > seq' => Behind(s) > seq
      BY <1>1, <1>5 DEF ringVars
    <2> QED BY <1>1, <2>1 DEF FiledInv, UnreachedBlank
  <1>8. PendingCovered'
    <2>1. ASSUME NEW s \in Slots, NEW p \in Players, Dirty(s, p)'
          PROVE  Behind(s) <= Behind(oldest)
      BY <1>1, <2>1 DEF FiledInv, PendingCovered
    <2> QED BY <1>1, <1>5, <2>1 DEF PendingCovered
  <1>9. InputOrder'
    BY <1>1 DEF FiledInv, InputOrder, ringVars
  <1>10. GoneForgotten'
    BY <1>1 DEF FiledInv, GoneForgotten, InGame
  <1> QED BY <1>6, <1>7, <1>8, <1>9, <1>10 DEF FiledInv

\* ... by every turn of sbsm_rewind
LEMMA FiledRewind ==
  ASSUME Known, FiledInv, NEW busy, NEW killed, NEW spawn \in [killed -> Spawns],
         NEW way \in [InGame -> AnyWay], sbsm_rewind(busy, killed, spawn, way)
  PROVE  FiledInv'
  <1>1. /\ cursor \in Slots /\ presentIdx \in Slots /\ baseIdx \in Slots /\ seq \in Nat
        /\ stamp \in [Slots -> Nat] /\ pc = "rewind"
        /\ UNCHANGED <<ringVars, oldest>>
        /\ pc' = IF RewindOn THEN "rewind" ELSE "rotate"
        /\ cursor' = IF RewindOn THEN NextSlot(cursor) ELSE cursor
    BY DEF sbsm_rewind, Known, TypeOK
  <1>2. \A p \in Players :
              /\ player'[p].st = player[p].st /\ player'[p].last = player[p].last
              /\ pss'[cursor][p] # NoSnap /\ player[p].st = "in" => ~pss'[cursor][p].dirty
              /\ player[p].st # "in" => pss'[cursor][p] \in {NoSnap, pss[cursor][p]}
              /\ \A s \in Slots : s # cursor =>
                   pss'[s][p] = IF p \in killed THEN NoSnap ELSE pss[s][p]
    BY RewindEffect DEF Known
  <1>3. /\ oldest = NoSlot /\ Behind(cursor) <= Behind(baseIdx) /\ Behind(baseIdx) <= seq
        /\ \A s \in Slots : Behind(s) \in 0..(Size - 1)
    BY <1>1, BaseReached, BehindSlot
    DEF FiledInv, CursorReached, PendingCovered, Known, TypeOK
  <1>4. RewindOn <=> cursor # presentIdx
    <2>1. ASSUME cursor # presentIdx PROVE stamp[NextSlot(cursor)] <= stamp[presentIdx]
      <3>1. NextSlot(cursor) \in Slots /\ Behind(NextSlot(cursor)) = Behind(cursor) - 1
        BY <1>1, <2>1, BehindSlot
      <3>2. Behind(presentIdx) = 0 /\ Behind(NextSlot(cursor)) <= seq /\ 0 <= seq
            /\ Behind(NextSlot(cursor)) \in 0..(Size - 1)
        BY <1>1, <1>3, <3>1, BehindSlot
      <3>3. ~ (stamp[presentIdx] < stamp[NextSlot(cursor)])
        BY <1>1, <3>1, <3>2, StampOrder DEF Known
      <3> QED BY <1>1, <3>1, <3>3
    <2> QED BY <2>1 DEF RewindOn
  <1>5. \A s : Behind(s)' = Behind(s)
    BY <1>1, RingStands
  <1>6. PICK c \in Slots :
           /\ cursor' = c
           /\ cursor # presentIdx => Behind(c) = Behind(cursor) - 1
           /\ cursor = presentIdx => c = cursor
    BY <1>1, <1>4, BehindSlot
  <1>7. Behind(cursor)' = Behind(c) /\ Behind(baseIdx)' = Behind(baseIdx)
    BY <1>1, <1>6 DEF ringVars, Behind
  <1>8. CursorReached'
    BY <1>1, <1>3, <1>6, <1>7 DEF CursorReached
  <1>9. UnreachedBlank'
    <2>1. \A s \in Slots : Behind(s)' > seq' => Behind(s) > seq
      BY <1>1, <1>5 DEF ringVars
    <2>2. Behind(cursor) <= seq
      BY <1>1, <1>3
    <2>3. \A s \in Slots : Behind(s)' > seq' => s # cursor
      BY <1>1, <1>3, <2>1, <2>2
    <2> QED BY <1>2, <2>1, <2>3 DEF FiledInv, UnreachedBlank
  <1>10. ASSUME NEW s \in Slots, NEW p \in Players, Dirty(s, p)'
         PROVE  Dirty(s, p) /\ s # cursor
    <2>1. s # cursor
      <3>1. player[p].st # "in" => pss[cursor][p] = NoSnap
        BY <1>1 DEF FiledInv, GoneForgotten, InGame
      <3>2. ~(pss'[cursor][p] # NoSnap /\ pss'[cursor][p].dirty)
        BY <1>2, <3>1
      <3> QED BY <1>10, <3>2 DEF Dirty
    <2>2. pss'[s][p] = pss[s][p] \/ pss'[s][p] = NoSnap
      BY <1>2, <2>1
    <2> QED BY <1>10, <2>1, <2>2 DEF Dirty
  <1>11. PendingCovered'
    <2>1. ASSUME NEW s \in Slots, NEW p \in Players, Dirty(s, p)'
          PROVE  pc' = "rewind" /\ Behind(s) <= Behind(c)
      <3>1. Behind(s) <= Behind(cursor) /\ s # cursor
        BY <1>1, <1>10, <2>1 DEF FiledInv, PendingCovered
      <3>2. Behind(s) # Behind(cursor)
        BY <1>1, <3>1, BehindSlot
      <3>3. cursor # presentIdx
        BY <1>1, <1>3, <3>1, <3>2, BehindSlot
      <3> QED BY <1>1, <1>3, <1>4, <1>6, <3>1, <3>2, <3>3
    <2>2. oldest' = NoSlot
      BY <1>1, <1>3
    <2> QED BY <1>5, <1>7, <2>1, <2>2 DEF PendingCovered
  <1>12. InputOrder'
    BY <1>1, <1>2, <1>10 DEF FiledInv, InputOrder, ringVars
  <1>13. GoneForgotten'
    BY <1>1, <1>2 DEF FiledInv, GoneForgotten, InGame
  <1> QED BY <1>8, <1>9, <1>11, <1>12, <1>13 DEF FiledInv

\* ... and by sbsm_rotate with the new tick,
\* which finds nothing filed and clears the slot it reuses
LEMMA FiledUpdate ==
  ASSUME Known, FiledInv, NEW busy, NEW killed, NEW spawn \in [killed -> Spawns],
         NEW way \in [InGame -> AnyWay], coregame_update(busy, killed, spawn, way)
  PROVE  FiledInv'
  <1>1. /\ sbsm_rotate /\ oldest = NoSlot /\ oldest' = NoSlot /\ pc' = "idle"
        /\ seq \in Nat /\ baseIdx \in Slots
    BY DEF coregame_update, FiledInv, PendingCovered, Known, TypeOK
  <1>2. \A p \in Players :
              /\ player'[p].st = player[p].st /\ player'[p].last = player[p].last
              /\ \A s \in Slots :
                   /\ Dirty(s, p)' => \E k \in Slots : Dirty(k, p)
                   /\ player[p].st # "in" =>
                        pss'[s][p] = NoSnap \/ \E k \in Slots : pss'[s][p] = pss[k][p]
                   /\ s # NewPresent /\ s # NewBase => pss'[s][p] \in {NoSnap, pss[s][p]}
    BY UpdateEffect DEF Known
  <1>3. \A s \in Slots, p \in Players : ~Dirty(s, p)'
    BY <1>2, RotateWhenClean DEF FiledInv
  <1>4. /\ NewPresent \in Slots /\ NewBase \in Slots
        /\ presentIdx' = NewPresent /\ baseIdx' = NewBase
        /\ \A s \in Slots : Behind(s)' = IF s = NewPresent THEN 0 ELSE Behind(s) + 1
    BY <1>1, RotateBehind DEF Known
  <1>5. RingInv'
    BY <1>1, RingRotate DEF Known
  <1>6. CursorReached'
    BY <1>1 DEF CursorReached
  <1>7. UnreachedBlank'
    <2>1. seq' = seq + 1
      BY <1>1 DEF sbsm_rotate
    <2>2. ASSUME NEW s \in Slots, Behind(s)' > seq', NEW p \in Players
          PROVE  pss'[s][p] = NoSnap
      <3>1. s # NewPresent /\ Behind(s) > seq
        <4>1. Behind(s) \in 0..(Size - 1)
          BY BehindSlot DEF Known, TypeOK
        <4> QED BY <1>1, <1>4, <2>1, <2>2, <4>1
      <3>2. s # NewBase
        <4>1. Behind(baseIdx)' = IF Behind(baseIdx) = Size - 1 THEN Size - 1
                                 ELSE Behind(baseIdx) + 1
          BY <1>1, RotateBehind DEF Known
        <4>2. Behind(baseIdx) <= seq /\ Behind(baseIdx) \in 0..(Size - 1)
          BY <1>1, BaseReached, BehindSlot DEF Known, TypeOK
        <4>3. Behind(baseIdx)' <= seq'
          BY <1>1, <2>1, <4>1, <4>2, SizeAssumption
        <4>4. s = NewBase => Behind(baseIdx)' = Behind(s)'
          BY <1>4 DEF Behind
        <4>5. Behind(s)' \in Int /\ seq' \in Int
          BY <1>1, <1>4, <2>1, BehindSlot DEF Known, TypeOK
        <4> QED BY <2>2, <4>3, <4>4, <4>5
      <3>3. pss[s][p] = NoSnap
        BY <3>1 DEF FiledInv, UnreachedBlank
      <3> QED BY <1>2, <3>1, <3>2, <3>3
    <2> QED BY <2>2 DEF UnreachedBlank
  <1>8. PendingCovered'
    BY <1>1, <1>3 DEF PendingCovered
  <1>9. InputOrder'
    <2>1. stamp[presentIdx] = time /\ time \in Nat
      BY BaseReached DEF Known, TypeOK
    <2>2. stamp'[presentIdx'] = time + Interval
      BY <1>1, <1>4 DEF sbsm_rotate, Known, TypeOK
    <2>3. ASSUME NEW p \in Players PROVE player'[p].last <= stamp'[presentIdx']
      <3>1. player[p].last <= stamp[presentIdx] /\ player'[p].last = player[p].last
        BY <1>2 DEF FiledInv, InputOrder
      <3>2. player[p].last \in Nat
        BY PlayerFields DEF Known, TypeOK
      <3> QED BY <2>1, <2>2, <3>1, <3>2, IntervalAssumption
    <2> QED BY <1>3, <2>3 DEF InputOrder
  <1>10. GoneForgotten'
    BY <1>2 DEF FiledInv, GoneForgotten, InGame
  <1> QED BY <1>6, <1>7, <1>8, <1>9, <1>10 DEF FiledInv

\* bots that are moved keep what is on file
LEMMA FiledMoveBot ==
  ASSUME Known, FiledInv, NEW p, NEW bots, NEW to \in Lo..Hi, move_bot(p, bots, to)
  PROVE  FiledInv'
  <1>1. /\ \A q \in Players : player'[q].st = player[q].st /\ player'[q].last = player[q].last
        /\ UNCHANGED <<ringVars, pss, oldest, pc, cursor>>
    BY MoveBotEffect DEF Known, TypeOK
  <1>2. \A s \in Slots, q \in Players : Dirty(s, q)' <=> Dirty(s, q)
    BY <1>1 DEF Dirty
  <1>3. CursorReached' /\ UnreachedBlank' /\ PendingCovered'
    BY <1>1, <1>2, RingStands
    DEF FiledInv, CursorReached, UnreachedBlank, PendingCovered, ringVars
  <1>4. InputOrder'
    BY <1>1, <1>2 DEF FiledInv, InputOrder, ringVars
  <1>5. GoneForgotten'
    BY <1>1 DEF FiledInv, GoneForgotten, InGame
  <1> QED BY <1>3, <1>4, <1>5 DEF FiledInv

\* every step keeps FiledInv
LEMMA FiledStep ==
  ASSUME Known, FiledInv, [Next]_vars
  PROVE  FiledInv'
  <1>1. \A t \in 0..(time + Interval) : t \in Int
    OBVIOUS
  <1>2. CASE UNCHANGED vars
    BY <1>2
    DEF vars, FiledInv, CursorReached, UnreachedBlank, PendingCovered, InputOrder, GoneForgotten,
        Dirty, Behind, InGame
  <1> QED BY <1>1, <1>2, FiledJoin, FiledLeave, FiledRefuse, FiledFile, FiledMoveBot,
             FiledRollback, FiledRewind, FiledUpdate
          DEF Next, Handlers, Update

\* ... and what is on file
LEMMA FiledRun == Run => []FiledInv
  <1>1. Init => FiledInv
    BY FiledInit
  <1>2. Known /\ FiledInv /\ [Next]_vars => FiledInv'
    BY FiledStep
  <1>3. TypeOK /\ RingInv => Known
    BY DEF Known
  <1> QED BY <1>1, <1>2, <1>3, TypeRun, RingRun, PTL DEF Run

(***************************************************************************)
(* What the snapshots hold, as one inductive invariant of all handlers and *)
(* of the update: the theorems below are its parts.                        *)
(***************************************************************************)
THEOREM FiledInvariant == Spec => []FiledInv
  BY FiledRun, PTL DEF Spec, Run

(***************************************************************************)
(* The ring holds consecutive ticks for ever: slots are in step with their *)
(* timestamps, the base is the oldest, slots not reached are blank, and a  *)
(* lookup finds the tick of its time.                                      *)
(***************************************************************************)
THEOREM WindowInvariant == Spec => []WindowAligned
  <1>1. RingInv /\ FiledInv /\ LookupFindsTick => WindowAligned
    BY DEF RingInv, FiledInv, WindowAligned
  <1> QED BY <1>1, RingInvariant, FiledInvariant, LookupInvariant, PTL

(***************************************************************************)
(* No filed input is ever behind the rollback or rewind that is to take it *)
(* up, however many players file inputs between two ticks, and a player    *)
(* who left is in no snapshot, rewinds and backfills included.             *)
(***************************************************************************)
THEOREM CoveredInvariant == Spec => []FiledCovered
  <1>1. FiledInv => FiledCovered
    BY DEF FiledInv, FiledCovered
  <1> QED BY <1>1, FiledInvariant, PTL

(***************************************************************************)
(* No filed input is newer than the newest accepted time of its player,    *)
(* which is never ahead of the server.                                     *)
(***************************************************************************)
THEOREM OrderInvariant == Spec => []InputOrder
  <1>1. FiledInv => InputOrder
    BY DEF FiledInv
  <1> QED BY <1>1, FiledInvariant, PTL

(***************************************************************************)
(* No step loses a filed input: it leaves its snapshot by being taken up   *)
(* by its player, or because the player died or left.                      *)
(***************************************************************************)
THEOREM TakenUpStep == Spec => FiledInputTakenUp
  <1>1. Known /\ FiledInv /\ [Next]_vars
          => [\A s \in Slots, p \in Players : Dirty(s, p) /\ ~Dirty(s, p)' => TakenUp(s, p)]_vars
    <2> SUFFICES ASSUME Known, FiledInv, [Next]_vars,
                        NEW s \in Slots, NEW p \in Players, Dirty(s, p), ~Dirty(s, p)'
                 PROVE  TakenUp(s, p)
      OBVIOUS
    <2>1. pss[s][p] # NoSnap /\ player[p].st = "in"
      BY OnFileIsIn DEF Dirty
    <2>2. ASSUME NEW q \in Players, coregame_free_player(q)
          PROVE  TakenUp(s, p)
      <3>1. /\ pss' = sbsm_delete_player(pss, {q}) /\ pss \in [Slots -> Snaps]
        BY <2>2 DEF coregame_free_player, Known, TypeOK, Snaps
      <3>2. \A k \in Slots, r \in Players :
               pss'[k][r] = IF r = q THEN NoSnap ELSE pss[k][r]
        BY <3>1, DeleteEffect
      <3> QED BY <3>2 DEF Dirty, TakenUp
    <2>3. ASSUME NEW q \in Players, NEW input \in Inputs, NEW t \in 0..(time + Interval),
                 FileInput(q, input, t)
          PROVE  TakenUp(s, p)
      <3>1. Dirty(s, p)'
        BY <2>3, FileEffect DEF Known
      <3> QED BY <3>1
    <2>4. CASE sbsm_rollback
      <3>1. s = oldest
        BY <2>4, RollbackEffect DEF Known, Dirty
      <3> QED BY <2>1, <2>4, <3>1, RollbackEffect DEF Known, TakenUp
    <2>5. ASSUME NEW busy, NEW killed, NEW spawn \in [killed -> Spawns],
                 NEW way \in [InGame -> AnyWay], sbsm_rewind(busy, killed, spawn, way)
          PROVE  TakenUp(s, p)
      <3>1. CASE s = cursor
        BY <2>1, <2>5, <3>1, RewindEffect DEF Known, TakenUp
      <3>2. CASE s # cursor
        <4>1. p \in killed
          BY <2>5, <3>2, RewindEffect DEF Known, Dirty
        <4> QED BY <2>5, <4>1, RewindEffect DEF Known, TakenUp
      <3> QED BY <3>1, <3>2
    <2>6. ASSUME NEW busy, NEW killed, NEW spawn, NEW way, coregame_update(busy, killed, spawn, way)
          PROVE  TakenUp(s, p)
      BY <2>6, RotateWhenClean DEF FiledInv
    <2>7. CASE UNCHANGED pss
      BY <2>7 DEF Dirty
    <2> QED BY <2>2, <2>3, <2>4, <2>5, <2>6, <2>7
            DEF Next, Handlers, Update, vars, coregame_add_player, RefuseInput, move_bot
  <1>2. TypeOK /\ RingInv => Known
    BY DEF Known
  <1> QED BY <1>1, <1>2, TypeInvariant, RingInvariant, FiledInvariant, PTL
          DEF Spec, FiledInputTakenUp

-------------------------------------------------------------------------------
(* The ring implements the log of inputs: slots and ticks. *)

\* slots that were reached stand for different ticks, all of them kept
LEMMA TickOfReached ==
  ASSUME Known, NEW s \in Slots, Behind(s) <= seq
  PROVE  /\ Tick(s) \in Log!Kept
         /\ stamp[s] = Tick(s) * Interval
         /\ stamp[s] \div Interval = Tick(s)
  <1>1. /\ seq \in Nat /\ Behind(s) \in 0..(Size - 1) /\ stamp[s] = Tick(s) * Interval
    BY BehindSlot, StampOfReached DEF Known, TypeOK, Tick
  <1>2. Tick(s) \in Nat /\ Tick(s) <= seq /\ Tick(s) > seq - Size
    BY <1>1, SizeAssumption DEF Tick
  <1>3. Interval * Tick(s) + 0 = Tick(s) * Interval
    BY <1>2, IntervalAssumption, SMT
  <1>4. (Interval * Tick(s) + 0) \div Interval = Tick(s)
    <2>1. Tick(s) \in Int /\ 0 \in 0..(Interval - 1)
      BY <1>2, IntervalAssumption
    <2> QED BY <2>1, DivMod, IntervalAssumption
  <1> QED BY <1>1, <1>2, <1>3, <1>4 DEF Log!Kept

\* the tick of a slot is no other slot's
LEMMA TickInjective ==
  ASSUME Known, NEW s \in Slots, NEW k \in Slots, Tick(s) = Tick(k)
  PROVE  s = k
  <1>1. presentIdx \in Slots /\ seq \in Nat
    BY DEF Known, TypeOK
  <1>2. Behind(s) = Behind(k)
    BY <1>1, BehindSlot DEF Tick
  <1> QED BY <1>1, <1>2, BehindSlot

\* a dirty snapshot is in a slot that was reached
LEMMA DirtyReached ==
  ASSUME Known, FiledInv, NEW s \in Slots, NEW p \in Players, Dirty(s, p)
  PROVE  Behind(s) <= seq
  BY BehindSlot DEF Known, TypeOK, FiledInv, UnreachedBlank, Dirty

\* a time that is not after a tick's is of that tick or of an earlier one
LEMMA NewestBelow ==
  ASSUME NEW t \in Nat, NEW k \in Int, t <= k * Interval
  PROVE  t \div Interval \in Int /\ t \div Interval <= k
  <1> DEFINE q == t \div Interval
  <1>1. /\ q \in Int /\ t = Interval * q + (t % Interval)
        /\ (t % Interval) \in 0..(Interval - 1)
    BY IntervalAssumption, SMT
  <1> HIDE DEF q
  <1>2. /\ Interval * q \in Int /\ Interval * k \in Int /\ Interval * k = k * Interval
        /\ k < q => Interval * k + Interval <= Interval * q
    BY <1>1, Product, IntervalAssumption, SMT
  <1>3. q \in Int /\ q <= k
    BY <1>1, <1>2, IntervalAssumption, SMT
  <1> QED BY <1>3 DEF q

\* while the ring stands and the same snapshots are dirty, the log stands
LEMMA FiledSame ==
  ASSUME UNCHANGED ringVars, \A s \in Slots, p \in Players : Dirty(s, p)' <=> Dirty(s, p)
  PROVE  Filed' = Filed
  <1>1. \A s : Tick(s)' = Tick(s)
    BY RingStands DEF Tick, ringVars
  <1>2. ASSUME NEW p \in Players
        PROVE  {k \in Slots : Dirty(k, p)'} = {k \in Slots : Dirty(k, p)}
    OBVIOUS
  <1> QED BY <1>1, <1>2 DEF Filed

-------------------------------------------------------------------------------
(* Every step is one of the log's. *)

\* a new ring is a new log
LEMMA LogInit == Init => Log!Init
  <1> SUFFICES ASSUME Init PROVE Log!Init
    OBVIOUS
  <1>1. seq = 1 /\ pc = "idle"
    BY DEF Init
  <1>2. InGame = {}
    BY DEF Init, InGame, NewPlayer
  <1>3. \A s \in Slots, p \in Players : ~Dirty(s, p)
    BY DEF Init, Dirty
  <1>4. Filed = [p \in Players |-> {}]
    BY <1>3 DEF Filed
  <1>5. Newest = [p \in Players |-> 0]
    <2>1. \A p \in Players : player[p].last = 0
      BY DEF Init, NewPlayer
    <2>2. 0 \div Interval = 0
      BY IntervalAssumption, SMT
    <2> QED BY <2>1, <2>2 DEF Newest
  <1> QED BY <1>1, <1>2, <1>4, <1>5 DEF Log!Init

\* a new player joins the log
LEMMA LogJoin ==
  ASSUME Known, FiledInv, NEW p \in Players, coregame_add_player(p)
  PROVE  Log!Join(p)
  <1>1. /\ pc = "idle" /\ player \in [Players -> Player] /\ player[p].st = "absent"
        /\ UNCHANGED <<ringVars, pss, pc>>
    BY DEF coregame_add_player, Known, TypeOK
  <1>2. PICK spawn \in Spawns : player' = [player EXCEPT ![p] = NewPlayer(spawn)]
    BY DEF coregame_add_player
  <1>3. /\ player'[p].st = "in" /\ player'[p].last = 0
        /\ \A q \in Players : q # p => player'[q] = player[q]
    BY <1>1, <1>2 DEF NewPlayer
  <1>4. p \notin InGame /\ InGame' = InGame \cup {p}
    BY <1>1, <1>3 DEF InGame
  <1>5. Newest' = [Newest EXCEPT ![p] = 0]
    <2>1. 0 \div Interval = 0
      BY IntervalAssumption, SMT
    <2> QED BY <1>3, <2>1 DEF Newest
  <1>6. Filed' = Filed
    BY <1>1, FiledSame DEF Dirty
  <1>7. seq' = seq /\ (pc = "idle") = TRUE /\ (pc = "idle")' = (pc = "idle")
    BY <1>1 DEF ringVars
  <1> QED BY <1>1, <1>4, <1>5, <1>6, <1>7 DEF Log!Join

\* a player who leaves takes its filed inputs along
LEMMA LogLeave ==
  ASSUME Known, FiledInv, NEW p \in Players, coregame_free_player(p)
  PROVE  Log!Leave(p)
  <1>1. /\ pss' = sbsm_delete_player(pss, {p}) /\ pss \in [Slots -> Snaps]
        /\ player \in [Players -> Player] /\ player' = [player EXCEPT ![p].st = "left"]
        /\ pc = "idle" /\ player[p].st = "in" /\ UNCHANGED <<ringVars, pc>>
    BY DEF coregame_free_player, Known, TypeOK, Snaps
  <1>2. \A s \in Slots, q \in Players : pss'[s][q] = IF q = p THEN NoSnap ELSE pss[s][q]
    BY <1>1, DeleteEffect
  <1>3. /\ player'[p].st = "left"
        /\ \A q \in Players : player'[q].last = player[q].last
                              /\ (q # p => player'[q].st = player[q].st)
    BY <1>1 DEF Player
  <1>4. p \in InGame /\ InGame' = InGame \ {p}
    BY <1>1, <1>3 DEF InGame
  <1>5. Newest' = Newest
    BY <1>3 DEF Newest
  <1>6. Filed' = [Filed EXCEPT ![p] = {}]
    <2>1. \A s : Tick(s)' = Tick(s)
      BY <1>1, RingStands DEF Tick, ringVars
    <2>2. {k \in Slots : Dirty(k, p)'} = {}
      BY <1>2 DEF Dirty
    <2>3. ASSUME NEW q \in Players, q # p
          PROVE  {k \in Slots : Dirty(k, q)'} = {k \in Slots : Dirty(k, q)}
      BY <1>2, <2>3 DEF Dirty
    <2> QED BY <2>1, <2>2, <2>3 DEF Filed
  <1>7. seq' = seq /\ (pc = "idle") = TRUE /\ (pc = "idle")' = (pc = "idle")
    BY <1>1 DEF ringVars
  <1> QED BY <1>1, <1>4, <1>5, <1>6, <1>7 DEF Log!Leave

\* what both branches of coregame_set_player_input_t owe the log: the player is
\* heard at a kept tick, no earlier than the last
LEMMA LogHeard ==
  ASSUME Known, NEW p \in Players, NEW s \in Slots, Behind(s) <= seq,
         player[p].st = "in", player[p].last <= stamp[s],
         player' = [player EXCEPT ![p].last = stamp[s]]
  PROVE  /\ Tick(s) \in Log!Kept
         /\ p \in InGame /\ InGame' = InGame
         /\ Newest[p] <= Tick(s)
         /\ Newest' = [Newest EXCEPT ![p] = Tick(s)]
  <1>1. /\ Tick(s) \in Log!Kept /\ stamp[s] = Tick(s) * Interval
        /\ stamp[s] \div Interval = Tick(s)
    BY TickOfReached
  <1>2. player \in [Players -> Player] /\ player[p].last \in Nat /\ seq \in Nat
    BY PlayerFields DEF Known, TypeOK
  <1>3. Tick(s) \in Int
    BY <1>1, <1>2 DEF Log!Kept
  <1>4. Newest[p] <= Tick(s)
    BY <1>1, <1>2, <1>3, NewestBelow DEF Newest
  <1>5. \A q \in Players : /\ player'[q].st = player[q].st
                           /\ player'[q].last = IF q = p THEN stamp[s] ELSE player[q].last
    BY <1>2 DEF Player
  <1>6. p \in InGame /\ InGame' = InGame
    BY <1>5 DEF InGame
  <1>7. Newest' = [Newest EXCEPT ![p] = Tick(s)]
    <2>1. Newest' = [q \in Players |-> player'[q].last \div Interval]
      BY DEF Newest
    <2>2. \A q \in Players : player'[q].last \div Interval
                              = IF q = p THEN Tick(s) ELSE player[q].last \div Interval
      BY <1>1, <1>5
    <2> QED BY <2>1, <2>2 DEF Newest
  <1> QED BY <1>1, <1>4, <1>6, <1>7

\* a refused input is heard, and nothing is filed
LEMMA LogRefuse ==
  ASSUME Known, FiledInv, NEW p \in Players, NEW input \in Inputs, NEW t \in Int,
         RefuseInput(p, input, t)
  PROVE  \E k \in Log!Kept : Log!Hear(p, k)
  <1>1. PICK s \in Slots :
          /\ Behind(s) <= seq /\ player[p].last <= stamp[s]
          /\ player' = [player EXCEPT ![p].last = stamp[s]]
          /\ UNCHANGED <<ringVars, pss, oldest, pc, cursor>>
    BY RefuseEffect DEF Known
  <1>2. player[p].st = "in" /\ pc = "idle"
    BY DEF RefuseInput
  <1>3. /\ Tick(s) \in Log!Kept /\ p \in InGame /\ InGame' = InGame
        /\ Newest[p] <= Tick(s) /\ Newest' = [Newest EXCEPT ![p] = Tick(s)]
    BY <1>1, <1>2, LogHeard
  <1>4. Filed' = Filed
    BY <1>1, FiledSame DEF Dirty
  <1>5. seq' = seq /\ (pc = "idle") = TRUE /\ (pc = "idle")' = (pc = "idle")
    BY <1>1, <1>2 DEF ringVars
  <1>6. Log!Hear(p, Tick(s))
    BY <1>3, <1>4, <1>5 DEF Log!Hear
  <1> QED BY <1>3, <1>6

\* an input filed in a slot is filed under the slot's tick
LEMMA LogFile ==
  ASSUME Known, FiledInv, NEW p \in Players, NEW input \in Inputs, NEW t \in Int,
         FileInput(p, input, t)
  PROVE  \E k \in Log!Kept : Log!Hear(p, k)
  <1>1. PICK s \in Slots :
          /\ Behind(s) <= seq /\ player[p].st = "in" /\ player[p].last <= stamp[s]
          /\ player' = [player EXCEPT ![p].last = stamp[s]]
          /\ Dirty(s, p)'
          /\ \A k \in Slots, q \in Players : (k # s \/ q # p) => pss'[k][q] = pss[k][q]
          /\ pc = "idle" /\ UNCHANGED <<ringVars, pc>>
    BY FileEffect DEF Known
  <1>2. /\ Tick(s) \in Log!Kept /\ p \in InGame /\ InGame' = InGame
        /\ Newest[p] <= Tick(s) /\ Newest' = [Newest EXCEPT ![p] = Tick(s)]
    BY <1>1, LogHeard
  <1>3. Filed' = [Filed EXCEPT ![p] = @ \cup {Tick(s)}]
    <2>1. \A k : Tick(k)' = Tick(k)
      BY <1>1, RingStands DEF Tick, ringVars
    <2>2. {k \in Slots : Dirty(k, p)'} = {k \in Slots : Dirty(k, p)} \cup {s}
      BY <1>1 DEF Dirty
    <2>3. ASSUME NEW q \in Players, q # p
          PROVE  {k \in Slots : Dirty(k, q)'} = {k \in Slots : Dirty(k, q)}
      BY <1>1, <2>3 DEF Dirty
    <2>4. {Tick(k) : k \in {j \in Slots : Dirty(j, p)} \cup {s}}
            = {Tick(k) : k \in {j \in Slots : Dirty(j, p)}} \cup {Tick(s)}
      OBVIOUS
    <2>5. Filed'[p] = Filed[p] \cup {Tick(s)}
      BY <2>1, <2>2, <2>4 DEF Filed
    <2>6. \A q \in Players : q # p => Filed'[q] = Filed[q]
      BY <2>1, <2>3 DEF Filed
    <2>7. Filed' = [q \in Players |-> Filed'[q]] /\ Filed = [q \in Players |-> Filed[q]]
      BY DEF Filed
    <2> HIDE DEF Filed
    <2> QED BY <2>5, <2>6, <2>7
  <1>4. seq' = seq /\ (pc = "idle") = TRUE /\ (pc = "idle")' = (pc = "idle")
    BY <1>1 DEF ringVars
  <1>5. Log!Hear(p, Tick(s))
    BY <1>2, <1>3, <1>4 DEF Log!Hear
  <1> QED BY <1>2, <1>5

\* what sbsm_rollback and a turn of sbsm_rewind owe the log: of the slot replayed
\* nothing stays dirty, and elsewhere only the killed lose anything
LEMMA LogReplayed ==
  ASSUME Known, FiledInv, NEW c \in Slots, Behind(c) <= seq, NEW died,
         UNCHANGED ringVars, pc' # "idle",
         \A p \in Players : player'[p].st = player[p].st /\ player'[p].last = player[p].last,
         \A s \in Slots, p \in Players : Dirty(s, p) => Behind(s) <= Behind(c),
         \A s \in Slots, p \in Players : Dirty(s, p)' <=> Dirty(s, p) /\ s # c /\ p \notin died
  PROVE  Log!Replay(Tick(c), died)
  <1>1. seq \in Nat /\ presentIdx \in Slots
    BY DEF Known, TypeOK
  <1>2. \A s \in Slots : Tick(s)' = Tick(s) /\ Behind(s) \in 0..(Size - 1)
    BY <1>1, RingStands, BehindSlot DEF Tick, ringVars
  <1>3. \A p \in Players : \A j \in Filed[p] : Tick(c) <= j
    BY <1>1, <1>2, SizeAssumption DEF Filed, Tick
  <1>4. ASSUME NEW p \in Players
        PROVE  Filed'[p] = IF p \in died THEN {} ELSE Filed[p] \ {Tick(c)}
    <2>1. Filed'[p] = {Tick(s) : s \in {k \in Slots : Dirty(k, p)'}}
      BY <1>2 DEF Filed
    <2>2. CASE p \in died
      BY <2>1, <2>2
    <2>3. CASE p \notin died
      <3>1. {k \in Slots : Dirty(k, p)'} = {k \in Slots : Dirty(k, p)} \ {c}
        BY <2>3
      <3>2. \A s \in Slots : Tick(s) = Tick(c) => s = c
        BY TickInjective
      <3>3. Filed[p] = {Tick(s) : s \in {k \in Slots : Dirty(k, p)}}
        BY DEF Filed
      <3> QED BY <2>1, <2>3, <3>1, <3>2, <3>3
    <2> QED BY <2>2, <2>3
  <1>5. Filed' = [p \in Players |-> IF p \in died THEN {} ELSE Filed[p] \ {Tick(c)}]
    <2>1. Filed' = [p \in Players |-> Filed'[p]]
      BY DEF Filed
    <2> QED BY <1>4, <2>1
  <1>6. Newest' = Newest /\ InGame' = InGame /\ seq' = seq
    BY DEF Newest, InGame, ringVars
  <1>7. (pc = "idle")' = FALSE
    OBVIOUS
  <1> QED BY <1>3, <1>5, <1>6, <1>7 DEF Log!Replay

\* the rollback takes what was filed under the oldest changed tick
LEMMA LogRollback ==
  ASSUME Known, FiledInv, sbsm_rollback
  PROVE  \E k \in Log!Kept : Log!Replay(k, {})
  <1>1. /\ oldest \in Slots /\ oldest # NoSlot /\ pc' = "rewind" /\ UNCHANGED ringVars
        /\ \A p \in Players :
              /\ player'[p].st = player[p].st /\ player'[p].last = player[p].last
              /\ pss[oldest][p] = NoSnap => pss'[oldest][p] = NoSnap
              /\ player[p].st = "in" => pss'[oldest][p] = NoSnap \/ ~pss'[oldest][p].dirty
              /\ \A s \in Slots : s # oldest => pss'[s][p] = pss[s][p]
    BY RollbackEffect DEF Known, sbsm_rollback
  <1>2. PICK c \in Slots : c = oldest
    BY <1>1
  <1>3. /\ Behind(c) <= Behind(baseIdx) /\ Behind(baseIdx) <= seq /\ seq \in Nat
        /\ Behind(c) \in 0..(Size - 1) /\ Behind(baseIdx) \in 0..(Size - 1)
    BY <1>1, <1>2, BaseReached, BehindSlot DEF FiledInv, CursorReached, Known, TypeOK
  <1>4. Behind(c) <= seq
    BY <1>3
  <1>5. \A s \in Slots, p \in Players : Dirty(s, p) => Behind(s) <= Behind(c)
    BY <1>1, <1>2 DEF FiledInv, PendingCovered, sbsm_rollback
  <1>6. ASSUME NEW s \in Slots, NEW p \in Players
        PROVE  Dirty(s, p)' <=> Dirty(s, p) /\ s # c /\ p \notin {}
    <2>1. CASE s = c
      <3>1. pss[c][p] # NoSnap => player[p].st = "in"
        BY OnFileIsIn
      <3> QED BY <1>1, <1>2, <2>1, <3>1 DEF Dirty
    <2>2. CASE s # c
      BY <1>1, <1>2, <2>2 DEF Dirty
    <2> QED BY <2>1, <2>2
  <1>7. pc' # "idle"
    BY <1>1
  <1>8. Log!Replay(Tick(c), {})
    BY <1>1, <1>4, <1>5, <1>6, <1>7, LogReplayed
  <1>9. Tick(c) \in Log!Kept
    BY <1>4, TickOfReached
  <1> QED BY <1>8, <1>9

\* a turn of the rewind takes what was filed under its tick
LEMMA LogRewind ==
  ASSUME Known, FiledInv, NEW busy, NEW killed, NEW spawn \in [killed -> Spawns],
         NEW way \in [InGame -> AnyWay], sbsm_rewind(busy, killed, spawn, way)
  PROVE  \E k \in Log!Kept : Log!Replay(k, killed)
  <1>1. /\ pc = "rewind" /\ pc' # "idle" /\ UNCHANGED ringVars
        /\ \A p \in Players :
              /\ player'[p].st = player[p].st /\ player'[p].last = player[p].last
              /\ pss'[cursor][p] # NoSnap /\ player[p].st = "in" => ~pss'[cursor][p].dirty
              /\ player[p].st # "in" => pss'[cursor][p] \in {NoSnap, pss[cursor][p]}
              /\ \A s \in Slots : s # cursor =>
                   pss'[s][p] = IF p \in killed THEN NoSnap ELSE pss[s][p]
    <2>1. pc = "rewind" /\ pc' # "idle" /\ UNCHANGED ringVars
      BY DEF sbsm_rewind
    <2> QED BY <2>1, RewindEffect DEF Known
  <1>2. PICK c \in Slots : c = cursor
    BY DEF Known, TypeOK
  <1>3. /\ Behind(c) <= Behind(baseIdx) /\ Behind(baseIdx) <= seq /\ seq \in Nat
        /\ Behind(c) \in 0..(Size - 1) /\ Behind(baseIdx) \in 0..(Size - 1)
    BY <1>1, <1>2, BaseReached, BehindSlot DEF FiledInv, CursorReached, Known, TypeOK
  <1>4. Behind(c) <= seq
    BY <1>3
  <1>5. \A s \in Slots, p \in Players : Dirty(s, p) => Behind(s) <= Behind(c)
    BY <1>1, <1>2 DEF FiledInv, PendingCovered
  <1>6. ASSUME NEW s \in Slots, NEW p \in Players
        PROVE  Dirty(s, p)' <=> Dirty(s, p) /\ s # c /\ p \notin killed
    <2>1. CASE s = c
      <3>1. pss[c][p] # NoSnap => player[p].st = "in"
        BY OnFileIsIn
      <3> QED BY <1>1, <1>2, <2>1, <3>1 DEF Dirty
    <2>2. CASE s # c
      BY <1>1, <1>2, <2>2 DEF Dirty
    <2> QED BY <2>1, <2>2
  <1>7. Log!Replay(Tick(c), killed)
    BY <1>1, <1>4, <1>5, <1>6, LogReplayed
  <1>8. Tick(c) \in Log!Kept
    BY <1>4, TickOfReached
  <1> QED BY <1>7, <1>8

\* the new tick is made with no input waiting, and leaves none
LEMMA LogUpdate ==
  ASSUME Known, FiledInv, NEW busy, NEW killed, NEW spawn \in [killed -> Spawns],
         NEW way \in [InGame -> AnyWay], coregame_update(busy, killed, spawn, way)
  PROVE  Log!Advance
  <1>1. pc' = "idle" /\ seq' = seq + 1
    BY DEF coregame_update, sbsm_rotate
  <1>2. \A s \in Slots, p \in Players : ~Dirty(s, p)
    BY RotateWhenClean DEF FiledInv
  <1>3. \A p \in Players :
          /\ player'[p].st = player[p].st /\ player'[p].last = player[p].last
          /\ \A s \in Slots : ~Dirty(s, p)'
    BY <1>2, UpdateEffect DEF Known
  <1>4. Filed = [p \in Players |-> {}] /\ Filed' = [p \in Players |-> {}]
    BY <1>2, <1>3 DEF Filed
  <1>5. Newest' = Newest /\ InGame' = InGame
    BY <1>3 DEF Newest, InGame
  <1>6. (pc = "idle")' = TRUE
    BY <1>1
  <1> QED BY <1>1, <1>4, <1>5, <1>6 DEF Log!Advance

\* bots that are moved leave the log as it is
LEMMA LogMoveBot ==
  ASSUME Known, NEW p, NEW bots, NEW to \in Lo..Hi, move_bot(p, bots, to)
  PROVE  UNCHANGED Log!vars
  <1>1. /\ \A q \in Players : player'[q].st = player[q].st /\ player'[q].last = player[q].last
        /\ UNCHANGED <<ringVars, pss, oldest, pc, cursor>>
    BY MoveBotEffect DEF Known, TypeOK
  <1>2. Filed' = Filed
    BY <1>1, FiledSame DEF Dirty
  <1>3. InGame' = InGame
    BY <1>1 DEF InGame
  <1>4. Newest' = Newest
    BY <1>1 DEF Newest, ringVars
  <1> QED BY <1>1, <1>2, <1>3, <1>4 DEF Log!vars, ringVars

\* every step of the ring is a step of the log, or leaves it as it is
LEMMA LogStep ==
  ASSUME Known, FiledInv, [Next]_vars
  PROVE  [Log!Next]_(Log!vars)
  <1>1. ASSUME NEW p \in Players, coregame_add_player(p) PROVE Log!Next
    BY <1>1, LogJoin DEF Log!Next
  <1>2. ASSUME NEW p \in Players, coregame_free_player(p) PROVE Log!Next
    BY <1>2, LogLeave DEF Log!Next
  <1>3. ASSUME NEW p \in Players, NEW input \in Inputs, NEW t \in 0..(time + Interval),
               RefuseInput(p, input, t) \/ FileInput(p, input, t)
        PROVE  Log!Next
    <2>1. t \in Int
      OBVIOUS
    <2> QED BY <1>3, <2>1, LogRefuse, LogFile DEF Log!Next
  <1>4. CASE sbsm_rollback
    <2>1. {} \in SUBSET InGame
      OBVIOUS
    <2> QED BY <1>4, <2>1, LogRollback DEF Log!Next
  <1>5. ASSUME NEW busy, NEW killed \in Victims, NEW spawn \in [killed -> Spawns],
               NEW way \in [InGame -> AnyWay], sbsm_rewind(busy, killed, spawn, way)
        PROVE  Log!Next
    <2>1. killed \in SUBSET InGame
      BY DEF Victims
    <2> QED BY <1>5, <2>1, LogRewind DEF Log!Next
  <1>6. ASSUME NEW busy, NEW killed \in Victims, NEW spawn \in [killed -> Spawns],
               NEW way \in [InGame -> AnyWay], coregame_update(busy, killed, spawn, way)
        PROVE  Log!Next
    BY <1>6, LogUpdate DEF Log!Next
  <1>7. ASSUME NEW p, NEW bots, NEW to \in Lo..Hi, move_bot(p, bots, to)
        PROVE  UNCHANGED Log!vars
    BY <1>7, LogMoveBot
  <1>8. CASE UNCHANGED vars
    <2>1. UNCHANGED <<seq, pc, InGame, Filed, Newest>>
      BY <1>8 DEF vars, InGame, Filed, Newest, Tick, Behind, Dirty
    <2> QED BY <2>1 DEF Log!vars
  <1> QED BY <1>1, <1>2, <1>3, <1>4, <1>5, <1>6, <1>7, <1>8 DEF Next, Handlers, Update

(***************************************************************************)
(* The ring implements the log: an input is filed under a tick the log     *)
(* still keeps and never before one its player was heard at, is given up   *)
(* only by being replayed in the order of ticks, or with its player, and   *)
(* no tick is added while one waits.                                       *)
(***************************************************************************)
THEOREM LogImplemented == Spec => ImplementsLog
  <1>1. Init => Log!Init
    BY LogInit
  <1>2. Known /\ FiledInv /\ [Next]_vars => [Log!Next]_(Log!vars)
    BY LogStep
  <1>3. TypeOK /\ RingInv => Known
    BY DEF Known
  <1> QED BY <1>1, <1>2, <1>3, TypeInvariant, RingInvariant, FiledInvariant, PTL
          DEF Spec, ImplementsLog, Log!Spec

-------------------------------------------------------------------------------
(* What a tick, a rollback and a filed input do to where a player is. *)

\* where a way takes a player that stands at x
Stepped(x, d) == Clamp(x + d, Lo, Hi)

LEMMA SteppedType ==
  ASSUME NEW x \in Int, NEW d \in Int
  PROVE  Stepped(x, d) \in Int /\ (x \in Lo..Hi => Stepped(x, 0) = x)
  BY WorldAssumption DEF Stepped, Clamp

\* a simulated tick takes a player in game its way, with the input it then has:
\* the one on file, if it waits to be taken up
LEMMA SimulatedMoves ==
  ASSUME player \in [Players -> Player], NEW f \in Snaps, NEW busy,
         NEW way \in [InGame -> AnyWay], NEW p \in Players, player[p].st = "in"
  PROVE  LET sim == Simulated(f, busy, way)
         IN  /\ sim[p].st = "in"
             /\ sim[p].input = IF f[p] # NoSnap /\ f[p].dirty THEN f[p].input ELSE player[p].input
             /\ sim[p].pos = Stepped(player[p].pos, way[p])
             /\ sim[p].vel = sim[p].pos - player[p].pos
  <1> DEFINE r == player[p]
             u == TakeInput(f[p], r)
             sim == Simulated(f, busy, way)
  <1>1. f[p] \in Snap \cup {NoSnap} /\ r \in Player
    BY DEF Snaps
  <1>2. /\ u.input = IF f[p] # NoSnap /\ f[p].dirty THEN f[p].input ELSE r.input
        /\ u.pos = r.pos /\ u.st = r.st /\ u \in Player
    <2>1. CASE f[p] # NoSnap /\ f[p].dirty
      <3>1. u = [r EXCEPT !.input = f[p].input]
        BY <2>1 DEF TakeInput
      <3>2. f[p].input \in Inputs
        BY <1>1, <2>1 DEF Snap
      <3> HIDE DEF u, r
      <3> QED BY <1>1, <2>1, <3>1, <3>2 DEF Player
    <2>2. CASE ~(f[p] # NoSnap /\ f[p].dirty)
      <3>1. u = r
        BY <2>2 DEF TakeInput
      <3> QED BY <1>1, <2>2, <3>1
    <2> QED BY <2>1, <2>2
  <1> DEFINE m == MoveTo(u, way[p])
             d == u.dirty \/ (p \in busy) \/ u.prevDir # u.input \/ u.prevPos # m
  <1>3. sim[p] = coregame_update_player(u, p \in busy, way[p])
    BY DEF Simulated
  <1>4. sim[p] = [u EXCEPT !.pos = m, !.vel = m - u.pos, !.dirty = d,
                           !.prevPos = m, !.prevDir = u.input]
    <2> HIDE DEF u, sim
    <2> QED BY <1>3 DEF coregame_update_player
  <1>5. m = Stepped(u.pos, way[p])
    BY DEF MoveTo, Stepped
  <1> HIDE DEF u, sim, m, d
  <1>6. /\ sim[p].pos = m /\ sim[p].vel = m - u.pos
        /\ sim[p].input = u.input /\ sim[p].st = u.st
    BY <1>2, <1>4 DEF Player
  <1> QED BY <1>2, <1>5, <1>6 DEF sim

\* cut short or not, a way of an input in a tick of some length is one it may lead
LEMMA WayLeads ==
  ASSUME NEW p \in Players, NEW input, NEW length \in Lengths \cup {1},
         NEW kick \in IF p \in Gunners THEN Kicks \cup {0} ELSE {0},
         input * length + kick \in Int, NEW d \in Ways(input, length, kick)
  PROVE  d \in Leads(p, input)
  <1>1. d \in CutShort(input * length + kick)
    BY CutShortPart DEF Ways
  <1> QED BY <1>1 DEF Leads

\* a death moves its player and nobody else
LEMMA AfterTickMoves ==
  ASSUME NEW sim \in [Players -> Player], NEW killed, NEW spawn \in [killed -> Spawns],
         NEW p \in Players, p \notin killed
  PROVE  LET r == AfterTick(sim, killed, spawn)
         IN  r[p].pos = sim[p].pos /\ r[p].vel = sim[p].vel
  <1>1. AfterTick(sim, killed, spawn)[p] = IF sim[p].st = "in" THEN Committed(sim[p]) ELSE sim[p]
    BY DEF AfterTick
  <1>2. Committed(sim[p]).pos = sim[p].pos /\ Committed(sim[p]).vel = sim[p].vel
    BY DEF Committed, Player
  <1> QED BY <1>1, <1>2

\* what a commit leaves in a snapshot is the player it commits
LEMMA CommitAllMoves ==
  ASSUME NEW sim \in [Players -> Player], NEW f, NEW p \in Players, sim[p].st = "in",
         CommitAll(f, sim)[p] # NoSnap
  PROVE  LET s == CommitAll(f, sim)[p]
         IN  /\ s.pos = sim[p].pos /\ s.vel = sim[p].vel /\ s.input = sim[p].input
             /\ ~s.dirty
  <1>1. CommitAll(f, sim)[p] = sbsm_commit_player(f[p], sim[p])
    BY DEF CommitAll
  <1>2. sim[p].dirty
    BY <1>1 DEF sbsm_commit_player
  <1> QED BY <1>1, <1>2 DEF sbsm_commit_player

\* the input a turn of the rewind at slot s replays p with
InputAt(s, p) == IF Dirty(s, p) THEN pss[s][p].input ELSE player[p].input

\* where a turn of sbsm_rewind leaves a player in game, and what way it may go
LEMMA RewindMoves ==
  ASSUME TypeOK, NEW busy, NEW killed, NEW spawn \in [killed -> Spawns],
         NEW way \in [InGame -> AnyWay], sbsm_rewind(busy, killed, spawn, way),
         NEW p \in Players, player[p].st = "in"
  PROVE  LET i == InputAt(cursor, p)
             x == Stepped(player[p].pos, way[p])
         IN  /\ player'[p].st = "in" /\ player'[p].input = i
             /\ way[p] \in Int /\ way[p] \in Leads(p, i)
             /\ p \notin killed => player'[p].pos = x
             /\ pss'[cursor][p] # NoSnap =>
                  /\ pss'[cursor][p].pos = x
                  /\ pss'[cursor][p].vel = x - player[p].pos
                  /\ pss'[cursor][p].input = i
                  /\ ~pss'[cursor][p].dirty
             /\ p \in killed => \A s \in Slots : pss'[s][p] = NoSnap
             /\ p \notin killed => \A s \in Slots \ {cursor} : pss'[s][p] = pss[s][p]
  <1> DEFINE f == pss[cursor]
             sim == Simulated(f, busy, way)
             c == CommitAll(f, sim)
             g == [pss EXCEPT ![cursor] = c]
             i == InputAt(cursor, p)
             x == Stepped(player[p].pos, way[p])
  <1>1. /\ player \in [Players -> Player] /\ pss \in [Slots -> Snaps]
        /\ cursor \in Slots /\ f \in Snaps /\ p \in InGame /\ i \in Inputs
    <2>1. pss[cursor][p] \in Snap \cup {NoSnap} /\ player[p].input \in Inputs
      BY PlayerFields DEF TypeOK
    <2> QED BY <2>1 DEF TypeOK, Snaps, InGame, InputAt, Dirty, Snap
  <1>2. player' = AfterTick(sim, killed, spawn) /\ pss' = sbsm_delete_player(g, killed)
    BY DEF sbsm_rewind
  <1>3. i = IF f[p] # NoSnap /\ f[p].dirty THEN f[p].input ELSE player[p].input
    BY DEF InputAt, Dirty
  <1>4. /\ sim[p].st = "in" /\ sim[p].input = i /\ sim[p].pos = x
        /\ sim[p].vel = x - player[p].pos
    <2> HIDE DEF f, i
    <2>1. /\ sim[p].st = "in" /\ sim[p].input = i
          /\ sim[p].pos = Stepped(player[p].pos, way[p])
          /\ sim[p].vel = sim[p].pos - player[p].pos
      BY <1>1, <1>3, SimulatedMoves
    <2> HIDE DEF sim
    <2> QED BY <2>1
  <1>5. sim \in [Players -> Player]
    <2> HIDE DEF f
    <2> QED BY <1>1, SimulatedEffect
  <1>0. way[p] \in Int /\ way[p] \in Leads(p, i)
    <2>1. way[p] \in Ways(TakeInput(f[p], player[p]).input, 1, 0) /\ way[p] \in Int
      BY <1>1, AnyWayInt DEF sbsm_rewind
    <2>2. TakeInput(f[p], player[p]).input = i
      <3>1. player[p] \in Player
        BY <1>1
      <3> QED BY <1>3, <3>1 DEF TakeInput, Player
    <2>3. way[p] \in Leads(p, i)
      <3> HIDE DEF f, i
      <3>1. i * 1 + 0 \in Int
        BY <1>1, WorldAssumption
      <3>2. 1 \in Lengths \cup {1} /\ 0 \in (IF p \in Gunners THEN Kicks \cup {0} ELSE {0})
        OBVIOUS
      <3> QED BY <2>1, <2>2, <3>1, <3>2, WayLeads
    <2> QED BY <2>1, <2>3
  <1> HIDE DEF sim, f, i, x
  <1>6. ASSUME NEW q \in Players PROVE c \in Snaps
    BY <1>1, <1>5, CommitAllEffect
  <1>7. c[p] # NoSnap => /\ c[p].pos = x /\ c[p].vel = x - player[p].pos
                         /\ c[p].input = i /\ ~c[p].dirty
    BY <1>4, <1>5, CommitAllMoves
  <1>8. /\ player'[p].st = "in" /\ player'[p].input = i
        /\ p \notin killed => player'[p].pos = x
    <2>1. player'[p].st = sim[p].st /\ player'[p].input = sim[p].input
      BY <1>2, <1>5, AfterTickEffect
    <2>2. p \notin killed => player'[p].pos = sim[p].pos
      BY <1>2, <1>5, AfterTickMoves
    <2> QED BY <1>4, <2>1, <2>2
  <1> HIDE DEF c
  <1>9. /\ g \in [Slots -> Snaps] /\ g[cursor] = c
        /\ \A s \in Slots \ {cursor} : g[s] = pss[s]
    BY <1>1, <1>6
  <1> HIDE DEF g
  <1>10. \A s \in Slots, q \in Players : pss'[s][q] = IF q \in killed THEN NoSnap ELSE g[s][q]
    BY <1>2, <1>9, DeleteEffect
  <1>11. pss'[cursor][p] # NoSnap => pss'[cursor][p] = c[p]
    BY <1>1, <1>9, <1>10
  <1>12. /\ p \in killed => \A s \in Slots : pss'[s][p] = NoSnap
         /\ p \notin killed => \A s \in Slots \ {cursor} : pss'[s][p] = pss[s][p]
    BY <1>9, <1>10
  <1>13. pss'[cursor][p] # NoSnap =>
           /\ pss'[cursor][p].pos = x /\ pss'[cursor][p].vel = x - player[p].pos
           /\ pss'[cursor][p].input = i /\ ~pss'[cursor][p].dirty
    BY <1>7, <1>11
  <1> QED BY <1>8, <1>12, <1>13, <1>0 DEF i, x

\* where sbsm_rollback leaves a player in game
LEMMA RollbackMoves ==
  ASSUME TypeOK, sbsm_rollback, NEW p \in Players, player[p].st = "in"
  PROVE  LET s == pss[oldest][p]
         IN  /\ player'[p].st = "in"
             /\ s = NoSnap => player'[p] = player[p]
             /\ s # NoSnap => player'[p].pos = s.pos - s.vel /\ player'[p].input = s.input
             /\ pss'[oldest][p] = NoSnap \/ ~pss'[oldest][p].dirty
             /\ \A k \in Slots \ {oldest} : pss'[k][p] = pss[k][p]
  <1> DEFINE s == pss[oldest][p]
  <1>1. oldest \in Slots /\ player'[p].st = player[p].st
        /\ (s = NoSnap => pss'[oldest][p] = NoSnap)
        /\ (pss'[oldest][p] = NoSnap \/ ~pss'[oldest][p].dirty)
        /\ \A k \in Slots \ {oldest} : pss'[k][p] = pss[k][p]
    BY RollbackEffect
  <1>2. player'[p] = sbsm_rollback_player(s, player[p])
    BY DEF sbsm_rollback
  <1>3. player[p] \in Player /\ s \in Snap \cup {NoSnap}
    BY <1>1 DEF TypeOK
  <1>4. s = NoSnap => player'[p] = player[p]
    BY <1>2 DEF sbsm_rollback_player
  <1>5. s # NoSnap => player'[p].pos = s.pos - s.vel /\ player'[p].input = s.input
    <2> SUFFICES ASSUME s # NoSnap
                 PROVE  player'[p].pos = s.pos - s.vel /\ player'[p].input = s.input
      OBVIOUS
    <2>1. player'[p] = [player[p] EXCEPT !.pos = s.pos - s.vel, !.input = s.input]
      BY <1>2 DEF sbsm_rollback_player
    <2> HIDE DEF s
    <2> QED BY <1>3, <2>1 DEF Player
  <1> QED BY <1>1, <1>4, <1>5

\* where sbsm_rotate and the new tick leave a player in game, and what way it
\* may go
LEMMA UpdateMoves ==
  ASSUME TypeOK, RingInv, NEW busy \in SUBSET (Gunners \cap InGame), NEW killed,
         NEW spawn \in [killed -> Spawns],
         NEW way \in [InGame -> AnyWay], coregame_update(busy, killed, spawn, way),
         NEW p \in Players, player[p].st = "in"
  PROVE  LET x == Stepped(player[p].pos, way[p])
             s == pss'[NewPresent][p]
         IN  /\ player'[p].st = "in" /\ player'[p].input = player[p].input
             /\ way[p] \in Int /\ way[p] \in Leads(p, player[p].input)
             /\ p \notin killed => /\ player'[p].pos = x
                                   /\ player'[p].vel = x - player[p].pos
             /\ s # NoSnap => /\ s.pos = x /\ s.vel = x - player[p].pos
                              /\ s.input = player[p].input /\ ~s.dirty
             /\ \A k \in Slots \ {NewPresent} : pss'[k][p] # NoSnap =>
                  pss'[k][p] = IF k = NewBase /\ pss[k][p] = NoSnap
                               THEN pss[baseIdx][p] ELSE pss[k][p]
  <1> DEFINE f == [q \in Players |-> NoSnap]
             sim == Simulated(f, busy, way)
             r == RotatedPss
             c == CommitAll(r[NewPresent], sim)
             g == [r EXCEPT ![NewPresent] = c]
             x == Stepped(player[p].pos, way[p])
  <1>1. /\ player \in [Players -> Player] /\ pss \in [Slots -> Snaps] /\ f \in Snaps
        /\ NewPresent \in Slots /\ NewBase \in Slots /\ baseIdx \in Slots
        /\ p \in InGame
    BY RotateBehind DEF TypeOK, Snaps, coregame_update, InGame
  <1>0. way[p] \in Int /\ way[p] \in Leads(p, player[p].input)
    <2>1. PICK length \in coregame_get_delta_time, kick \in Recoils(p, busy) :
            way[p] \in Ways(player[p].input, length, kick)
      BY <1>1 DEF coregame_update
    <2>2. /\ length \in Lengths \cup {1}
          /\ kick \in (IF p \in Gunners THEN Kicks \cup {0} ELSE {0})
      BY DEF coregame_get_delta_time, Recoils
    <2>3. player[p].input \in Int /\ length \in Int /\ kick \in Int
      BY <1>1, <2>2, PlayerFields, WorldAssumption
    <2>4. player[p].input * length + kick \in Int
      BY <2>3
    <2> QED BY <1>1, <2>1, <2>2, <2>4, AnyWayInt, WayLeads
  <1>2. player' = AfterTick(sim, killed, spawn) /\ pss' = sbsm_delete_player(g, killed)
    BY DEF coregame_update
  <1>3. /\ r \in [Slots -> Snaps]
        /\ \A k \in Slots \ {NewPresent} :
             r[k][p] = IF k = NewBase /\ pss[k][p] = NoSnap
                       THEN pss[baseIdx][p] ELSE pss[k][p]
    <2>1. Backfilled \in Snaps
      BY <1>1 DEF Backfilled, Snaps
    <2>2. Backfilled[p] = IF pss[NewBase][p] = NoSnap THEN pss[baseIdx][p] ELSE pss[NewBase][p]
      BY DEF Backfilled
    <2>3. r \in [Slots -> Snaps]
      BY <1>1, <2>1 DEF RotatedPss, Snaps
    <2>4. ASSUME NEW k \in Slots \ {NewPresent}
          PROVE  r[k] = IF k = NewBase THEN Backfilled ELSE pss[k]
      BY DEF RotatedPss
    <2> HIDE DEF r
    <2> QED BY <2>2, <2>3, <2>4
  <1>4. /\ sim[p].st = "in" /\ sim[p].input = player[p].input
        /\ sim[p].pos = Stepped(player[p].pos, way[p])
        /\ sim[p].vel = sim[p].pos - player[p].pos
    <2>1. f[p] = NoSnap
      OBVIOUS
    <2> HIDE DEF f
    <2> QED BY <1>1, <2>1, SimulatedMoves
  <1>5. sim \in [Players -> Player]
    <2> HIDE DEF f
    <2> QED BY <1>1, SimulatedEffect
  <1> HIDE DEF f, sim, r
  <1>6. sim[p].pos = x /\ sim[p].vel = x - player[p].pos
    BY <1>4
  <1> HIDE DEF x
  <1>7. r[NewPresent] \in Snaps
    BY <1>1, <1>3
  <1>8. c \in Snaps
    BY <1>5, <1>7, CommitAllEffect
  <1>9. c[p] # NoSnap => /\ c[p].pos = x /\ c[p].vel = x - player[p].pos
                         /\ c[p].input = player[p].input /\ ~c[p].dirty
    BY <1>4, <1>5, <1>6, CommitAllMoves
  <1>10. /\ player'[p].st = "in" /\ player'[p].input = player[p].input
         /\ p \notin killed => player'[p].pos = x /\ player'[p].vel = x - player[p].pos
    <2>1. player'[p].st = sim[p].st /\ player'[p].input = sim[p].input
      BY <1>2, <1>5, AfterTickEffect
    <2>2. p \notin killed => player'[p].pos = sim[p].pos /\ player'[p].vel = sim[p].vel
      BY <1>2, <1>5, AfterTickMoves
    <2> QED BY <1>4, <1>6, <2>1, <2>2
  <1> HIDE DEF c
  <1>11. /\ g \in [Slots -> Snaps] /\ g[NewPresent] = c
         /\ \A k \in Slots \ {NewPresent} : g[k] = r[k]
    BY <1>1, <1>3, <1>8
  <1> HIDE DEF g
  <1>12. \A k \in Slots : pss'[k][p] = IF p \in killed THEN NoSnap ELSE g[k][p]
    BY <1>2, <1>11, DeleteEffect
  <1>13. pss'[NewPresent][p] # NoSnap => pss'[NewPresent][p] = c[p]
    BY <1>1, <1>11, <1>12
  <1>14. ASSUME NEW k \in Slots \ {NewPresent}, pss'[k][p] # NoSnap
         PROVE  pss'[k][p] = IF k = NewBase /\ pss[k][p] = NoSnap
                             THEN pss[baseIdx][p] ELSE pss[k][p]
    <2>1. pss'[k][p] = r[k][p]
      BY <1>11, <1>12, <1>14
    <2> QED BY <1>3, <2>1
  <1>15. pss'[NewPresent][p] # NoSnap =>
           /\ pss'[NewPresent][p].pos = x /\ pss'[NewPresent][p].vel = x - player[p].pos
           /\ pss'[NewPresent][p].input = player[p].input /\ ~pss'[NewPresent][p].dirty
    BY <1>9, <1>13
  <1> QED BY <1>10, <1>14, <1>15, <1>0 DEF x

\* what filing an input leaves of the player and in its snapshot
LEMMA FileMoves ==
  ASSUME TypeOK, RingInv, NEW p \in Players, NEW input \in Inputs, NEW t \in Int,
         FileInput(p, input, t)
  PROVE  LET s == sbsm_lookup(t)
         IN  /\ s \in Slots /\ Behind(s) <= seq /\ player[p].last <= stamp[s]
             /\ player[p].st = "in" /\ player' = [player EXCEPT ![p].last = stamp[s]]
             /\ pss'[s][p] # NoSnap /\ pss'[s][p].dirty /\ pss'[s][p].input = input
             /\ pss[s][p] # NoSnap => /\ pss'[s][p].pos = pss[s][p].pos
                                      /\ pss'[s][p].vel = pss[s][p].vel
             /\ pss[s][p] = NoSnap => /\ pss'[s][p].pos = player[p].pos
                                      /\ pss'[s][p].vel = player[p].vel
             /\ \A k \in Slots, q \in Players : k # s \/ q # p => pss'[k][q] = pss[k][q]
  <1> DEFINE s == sbsm_lookup(t)
             o == OnFile(s, p)
             n == [o EXCEPT !.input = input, !.dirty = TRUE, !.count = o.count + 1]
  <1>1. s \in Slots /\ Behind(s) <= seq
    BY LookupSlot
  <1>2. /\ player[p].st = "in" /\ ~(player[p].last > stamp[s])
        /\ player' = [player EXCEPT ![p].last = stamp[s]]
        /\ pss' = [pss EXCEPT ![s][p] = n]
    BY DEF FileInput, LateInput
  <1>3. /\ player[p] \in Player /\ pss \in [Slots -> Snaps] /\ stamp \in [Slots -> Nat]
    BY DEF TypeOK, Snaps
  <1> HIDE DEF s
  <1>4. pss[s][p] \in Snap \cup {NoSnap}
    BY <1>1, <1>3 DEF Snaps
  <1>5. /\ pss[s][p] # NoSnap => o \in Snap /\ o = pss[s][p]
        /\ pss[s][p] = NoSnap => o \in Snap /\ o.pos = player[p].pos /\ o.vel = player[p].vel
    <2>1. CASE pss[s][p] # NoSnap
      BY <1>4, <2>1 DEF OnFile
    <2>2. CASE pss[s][p] = NoSnap
      BY <1>3, <2>2, PlayerFields DEF OnFile, Snap
    <2> QED BY <2>1, <2>2
  <1> HIDE DEF o
  <1>6. o \in Snap /\ o.count + 1 \in Nat
    BY <1>5 DEF Snap
  <1>7. n \in Snap /\ n.dirty /\ n.input = input /\ n.pos = o.pos /\ n.vel = o.vel
    BY <1>6 DEF Snap
  <1>8. n # NoSnap
    BY <1>7 DEF Snap, NoSnap
  <1> HIDE DEF n
  <1>9. /\ pss'[s][p] = n
        /\ \A k \in Slots, q \in Players : k # s \/ q # p => pss'[k][q] = pss[k][q]
    BY <1>1, <1>2, <1>3 DEF Snaps
  <1>10. player[p].last <= stamp[s]
    BY <1>1, <1>2, <1>3, PlayerFields
  <1> QED BY <1>1, <1>2, <1>5, <1>7, <1>8, <1>9, <1>10 DEF s

-------------------------------------------------------------------------------
(* What the history says of a player. *)

\* no input of p waits to be taken up, or none for tick k or an earlier one
NoneFiled(p) == \A s \in Slots : ~Dirty(s, p)

Unfiled(p, k) == \A s \in Slots : Dirty(s, p) => k < Tick(s)

\* tick k took p from where the tick before had left it where its input may lead
Led(p, k) ==
  \E d \in Leads(p, done[p][k]) : course[p][k] = Stepped(course[p][k - 1], d)

\* the input waiting in slot s is the latest one for tick k
InForce(s, p, k) ==
  /\ Dirty(s, p) /\ Tick(s) <= k
  /\ \A j \in Slots : Dirty(j, p) => Tick(j) <= Tick(s) \/ k < Tick(j)

\* no replay is about to make the snapshots of slot s anew
Fixed(s) == pc # "rewind" \/ Tick(s) < Tick(cursor)

\* what is on file is what hist has over done
FilingOf(p) ==
  /\ filedAt[p] <= seq /\ applied[p] <= seq
  /\ NoneFiled(p) => applied[p] = filedAt[p]
  /\ \A k \in Ticks : Unfiled(p, k) => hist[p][k] = done[p][k]
  /\ \A s \in Slots : Dirty(s, p) => Tick(s) <= filedAt[p]
  /\ \A s \in Slots, k \in Ticks : InForce(s, p, k) => hist[p][k] = pss[s][p].input
  /\ \A k \in Ticks : filedAt[p] <= k => hist[p][k] = hist[p][MaxSeq]
  /\ \A k \in Ticks : applied[p] <= k => done[p][k] = done[p][MaxSeq]

\* only an input waiting to be taken up is kept with a player of a later tick
TakenOf(p) ==
  \A s \in Slots : pss[s][p] # NoSnap =>
    taken[s][p] <= seq /\ (Fixed(s) /\ ~Dirty(s, p) => taken[s][p] <= Tick(s))

\* a clean player is where the last tick left it, a replay has it where the tick
\* before the next left it, every snapshot where the one before its own did; and
\* every tick that is not to be replayed went the way of its input
PlaceOf(p) ==
  /\ pc # "rewind" => player[p].pos = course[p][seq] /\ player[p].input = done[p][MaxSeq]
  /\ pc = "idle" => player[p].pos - player[p].vel = course[p][seq - 1]
  /\ pc = "rewind" =>
       /\ player[p].pos = course[p][Tick(cursor) - 1]
       /\ \A k \in Ticks : Tick(cursor) <= k /\ k <= seq /\ Unfiled(p, k)
             => player[p].input = done[p][k]
  /\ \A k \in Ticks : k <= seq /\ (pc = "rewind" => k < Tick(cursor)) => Led(p, k)
  /\ \A s \in Slots : Fixed(s) /\ pss[s][p] # NoSnap =>
       /\ pss[s][p].pos - pss[s][p].vel = course[p][taken[s][p] - 1]
       /\ ~Dirty(s, p) /\ applied[p] <= taken[s][p] => pss[s][p].input = done[p][MaxSeq]

\* a kept player has its last input, and so has every snapshot left since
KeptOf(p) ==
  NoneFiled(p) =>
    /\ player[p].input = hist[p][MaxSeq]
    /\ \A s \in Slots : Fixed(s) /\ pss[s][p] # NoSnap /\ applied[p] <= taken[s][p]
         => pss[s][p].input = hist[p][MaxSeq]

TraceOf(p) ==
  FilingOf(p) /\ TakenOf(p) /\ (p \in clean => PlaceOf(p)) /\ (p \in kept => KeptOf(p))

\* of a player who never was in game there is no history
Blank(p) ==
  /\ hist[p] = [k \in Ticks |-> 0] /\ done[p] = [k \in Ticks |-> 0]
  /\ filedAt[p] = 0 /\ applied[p] = 0

Replays == [Players -> [Ticks -> Inputs]]

HistoryType ==
  /\ seq \in Ticks /\ 1 <= seq
  /\ course \in [Players -> [-1..MaxSeq -> Int]]
  /\ hist \in Replays /\ done \in Replays
  /\ filedAt \in [Players -> Nat] /\ applied \in [Players -> Nat]
  /\ taken \in [Slots -> [Players -> Nat]]
  /\ clean \subseteq kept /\ kept \subseteq Players

\* with nothing to roll back, all that was filed has been replayed
AllReplayed == oldest = NoSlot => done = hist /\ applied = filedAt

TraceInv ==
  /\ HistoryType /\ AllReplayed
  /\ \A p \in Players : player[p].st = "absent" => Blank(p)
  /\ \A p \in InGame : TraceOf(p)

\* what the ring is known to be meanwhile
RingKnown == Known /\ FiledInv

-------------------------------------------------------------------------------
\* a snapshot is in a slot of a tick that has been
LEMMA SnapTick ==
  ASSUME RingKnown, NEW s \in Slots, Behind(s) <= seq
  PROVE  Tick(s) \in Nat /\ Tick(s) <= seq /\ TickOf(s) = Tick(s)
  <1>1. seq \in Nat /\ Behind(s) \in 0..(Size - 1)
    BY BehindSlot DEF RingKnown, Known, TypeOK
  <1>2. TickOf(s) = Tick(s)
    BY TickOfReached DEF RingKnown, TickOf
  <1> QED BY <1>1, <1>2 DEF Tick

\* a slot with a snapshot of a player has been reached
LEMMA SnapReached ==
  ASSUME RingKnown, NEW s \in Slots, NEW p \in Players, pss[s][p] # NoSnap
  PROVE  Behind(s) <= seq
  BY BehindSlot DEF RingKnown, Known, TypeOK, FiledInv, UnreachedBlank

\* slots of the same tick are the same, and no tick is ahead of the present
LEMMA TickSlot ==
  ASSUME RingKnown, NEW s \in Slots
  PROVE  /\ Tick(s) \in Int /\ Tick(s) <= seq
         /\ Behind(s) = seq - Tick(s)
         /\ \A k \in Slots : Tick(k) = Tick(s) => k = s
  <1>1. seq \in Nat /\ Behind(s) \in 0..(Size - 1)
    BY BehindSlot DEF RingKnown, Known, TypeOK
  <1>2. \A k \in Slots : Tick(k) = Tick(s) => k = s
    BY TickInjective DEF RingKnown
  <1> QED BY <1>1, <1>2 DEF Tick

\* ticks and the places they left a player at
LEMMA CoursePlaces ==
  ASSUME HistoryType, NEW p \in Players
  PROVE  /\ Ticks \subseteq Nat /\ MaxSeq \in Ticks /\ seq \in Ticks /\ \A k \in Ticks : k <= MaxSeq
         /\ \A k \in Ticks : k \in -1..MaxSeq /\ k - 1 \in -1..MaxSeq
         /\ \A k \in -1..MaxSeq : course[p][k] \in Int
  BY BoundAssumption DEF HistoryType, Ticks

-------------------------------------------------------------------------------
\* a player nothing happens to keeps its history
LEMMA TraceStands ==
  ASSUME NEW p \in Players, TraceOf(p),
         UNCHANGED <<ringVars, pc, cursor>>,
         player'[p].pos = player[p].pos, player'[p].vel = player[p].vel,
         player'[p].input = player[p].input,
         \A s \in Slots : pss'[s][p] = pss[s][p] /\ taken'[s][p] = taken[s][p],
         hist'[p] = hist[p], done'[p] = done[p], course'[p] = course[p],
         filedAt'[p] = filedAt[p], applied'[p] = applied[p],
         p \in clean' => p \in clean, p \in kept' => p \in kept
  PROVE  TraceOf(p)'
  <1>1. /\ \A s : Tick(s)' = Tick(s)
        /\ Tick(cursor)' = Tick(cursor)
        /\ seq' = seq /\ pc' = pc /\ cursor' = cursor
    BY RingStands DEF Tick, ringVars, Behind
  <1>2. \A s \in Slots : Dirty(s, p)' <=> Dirty(s, p)
    BY DEF Dirty
  <1>3. \A s \in Slots : Fixed(s)' <=> Fixed(s)
    BY <1>1 DEF Fixed
  <1>4. /\ NoneFiled(p)' <=> NoneFiled(p)
        /\ \A k : Unfiled(p, k)' <=> Unfiled(p, k)
        /\ \A s \in Slots : \A k : InForce(s, p, k)' <=> InForce(s, p, k)
    BY <1>1, <1>2 DEF NoneFiled, Unfiled, InForce
  <1>5. \A k : Led(p, k)' <=> Led(p, k)
    BY DEF Led, Leads
  <1>6. FilingOf(p)'
    BY <1>1, <1>2, <1>4 DEF TraceOf, FilingOf
  <1>7. TakenOf(p)'
    BY <1>1, <1>2, <1>3 DEF TraceOf, TakenOf
  <1>8. PlaceOf(p) => PlaceOf(p)'
    BY <1>1, <1>2, <1>3, <1>4, <1>5 DEF PlaceOf
  <1>9. KeptOf(p) => KeptOf(p)'
    BY <1>3, <1>4 DEF KeptOf
  <1> QED BY <1>6, <1>7, <1>8, <1>9 DEF TraceOf

-------------------------------------------------------------------------------
(* The history keeps its type, and what has been filed gets replayed. *)

\* a new server has no history
LEMMA TraceInit == TInit => TraceInv
  <1> SUFFICES ASSUME TInit PROVE TraceInv
    OBVIOUS
  <1>1. /\ seq = 1 /\ player = [p \in Players |-> [NewPlayer(0) EXCEPT !.st = "absent"]]
        /\ course = [p \in Players |-> [k \in -1..MaxSeq |-> 0]]
        /\ hist = [p \in Players |-> [k \in Ticks |-> 0]] /\ done = hist
        /\ filedAt = [p \in Players |-> 0] /\ applied = filedAt
        /\ taken = [s \in Slots |-> [p \in Players |-> 0]]
        /\ clean = Players /\ kept = Players
    BY DEF TInit, Init
  <1>2. InGame = {}
    BY <1>1 DEF InGame, NewPlayer
  <1>3. HistoryType
    <2>1. 1 \in Ticks /\ 0 \in Inputs
      BY RunAssumption, BoundAssumption, WorldAssumption DEF Ticks
    <2>2. hist \in Replays
      BY <1>1, <2>1 DEF Replays
    <2> QED BY <1>1, <2>1, <2>2 DEF HistoryType
  <1>4. \A p \in Players : Blank(p)
    BY <1>1 DEF Blank
  <1> QED BY <1>1, <1>2, <1>3, <1>4 DEF TraceInv, AllReplayed

\* the slot a rewind is at has been reached
LEMMA CursorTick ==
  ASSUME RingKnown, pc # "idle"
  PROVE  /\ cursor \in Slots /\ Behind(cursor) <= seq
         /\ Tick(cursor) \in Nat /\ Tick(cursor) <= seq /\ TickOf(cursor) = Tick(cursor)
  <1>1. cursor \in Slots /\ baseIdx \in Slots /\ presentIdx \in Slots /\ seq \in Nat
    BY DEF RingKnown, Known, TypeOK
  <1>2. /\ Behind(cursor) \in 0..(Size - 1) /\ Behind(baseIdx) \in 0..(Size - 1)
        /\ Behind(cursor) <= Behind(baseIdx) /\ Behind(baseIdx) <= seq
    BY <1>1, BehindSlot, BaseReached DEF RingKnown, Known, FiledInv, CursorReached
  <1>3. Behind(cursor) <= seq
    BY <1>1, <1>2
  <1> QED BY <1>1, <1>3, SnapTick

\* and so has the slot of the oldest change
LEMMA OldestTick ==
  ASSUME RingKnown, oldest # NoSlot
  PROVE  /\ oldest \in Slots /\ Behind(oldest) <= seq
         /\ Tick(oldest) \in Nat /\ Tick(oldest) <= seq /\ TickOf(oldest) = Tick(oldest)
  <1>1. oldest \in Slots /\ baseIdx \in Slots /\ presentIdx \in Slots /\ seq \in Nat
    BY DEF RingKnown, Known, TypeOK
  <1>2. /\ Behind(oldest) \in 0..(Size - 1) /\ Behind(baseIdx) \in 0..(Size - 1)
        /\ Behind(oldest) <= Behind(baseIdx) /\ Behind(baseIdx) <= seq
    BY <1>1, BehindSlot, BaseReached DEF RingKnown, Known, FiledInv, CursorReached
  <1>3. Behind(oldest) <= seq
    BY <1>1, <1>2
  <1> QED BY <1>1, <1>3, SnapTick

\* what filing an input changes of the history
LEMMA FileHistory ==
  ASSUME RingKnown, HistoryType, NEW p \in Players, NEW input \in Inputs, NEW t \in Int,
         TFile(p, input, t)
  PROVE  \E s \in Slots :
           /\ s = sbsm_lookup(t) /\ Behind(s) <= seq
           /\ Tick(s) \in Nat /\ Tick(s) <= seq
           /\ \A k \in Ticks : hist'[p][k] = IF k < Tick(s) THEN hist[p][k] ELSE input
           /\ \A q \in Players \ {p} : hist'[q] = hist[q] /\ filedAt'[q] = filedAt[q]
           /\ hist' \in Replays
           /\ filedAt'[p] = Tick(s) /\ filedAt' \in [Players -> Nat]
           /\ taken'[s][p] = IF pss[s][p] = NoSnap THEN seq ELSE taken[s][p]
           /\ \A k \in Slots, q \in Players : k # s \/ q # p => taken'[k][q] = taken[k][q]
           /\ taken' \in [Slots -> [Players -> Nat]]
  <1> DEFINE s == sbsm_lookup(t)
             h == [k \in Ticks |-> IF k < Tick(s) THEN hist[p][k] ELSE input]
  <1>1. s \in Slots /\ Behind(s) <= seq
    BY LookupSlot DEF RingKnown, Known
  <1>2. Tick(s) \in Nat /\ Tick(s) <= seq /\ TickOf(s) = Tick(s)
    BY <1>1, SnapTick
  <1>3. /\ hist' = [hist EXCEPT ![p] = h]
        /\ filedAt' = [filedAt EXCEPT ![p] = Tick(s)]
        /\ taken' = IF pss[s][p] = NoSnap THEN [taken EXCEPT ![s][p] = seq] ELSE taken
    BY <1>2 DEF TFile
  <1>4. /\ hist \in [Players -> [Ticks -> Inputs]] /\ filedAt \in [Players -> Nat]
        /\ taken \in [Slots -> [Players -> Nat]] /\ seq \in Nat
    BY DEF HistoryType, Replays, RingKnown, Known, TypeOK
  <1> HIDE DEF s
  <1>5. /\ h \in [Ticks -> Inputs]
        /\ \A k \in Ticks : h[k] = IF k < Tick(s) THEN hist[p][k] ELSE input
    BY <1>4
  <1> HIDE DEF h
  <1>6. hist' \in Replays /\ hist'[p] = h /\ \A q \in Players \ {p} : hist'[q] = hist[q]
    BY <1>3, <1>4, <1>5 DEF Replays
  <1>7. /\ filedAt' \in [Players -> Nat] /\ filedAt'[p] = Tick(s)
        /\ \A q \in Players \ {p} : filedAt'[q] = filedAt[q]
    BY <1>2, <1>3, <1>4
  <1>8. /\ taken' \in [Slots -> [Players -> Nat]]
        /\ taken'[s][p] = IF pss[s][p] = NoSnap THEN seq ELSE taken[s][p]
        /\ \A k \in Slots, q \in Players : k # s \/ q # p => taken'[k][q] = taken[k][q]
    BY <1>1, <1>3, <1>4
  <1> QED BY <1>1, <1>2, <1>5, <1>6, <1>7, <1>8 DEF s

\* noting where a tick took everybody
LEMMA WentType ==
  ASSUME player' \in [Players -> Player], course \in [Players -> [-1..MaxSeq -> Int]], NEW k
  PROVE  Went(k) \in [Players -> [-1..MaxSeq -> Int]]
  <1> SUFFICES ASSUME NEW p \in Players
               PROVE  [course[p] EXCEPT ![k] = player'[p].pos] \in [-1..MaxSeq -> Int]
    BY DEF Went
  <1>1. player'[p].pos \in Int
    BY PlayerFields
  <1> QED BY <1>1

\* every step keeps the types
LEMMA HistoryStep ==
  ASSUME RingKnown, HistoryType, [TNext]_tvars
  PROVE  HistoryType'
  <1>1. ASSUME NEW p \in Players, TJoin(p) PROVE HistoryType'
    <2>1. PICK spawn \in Spawns : player' = [player EXCEPT ![p] = NewPlayer(spawn)]
      BY <1>1 DEF TJoin, coregame_add_player
    <2>2. player'[p].pos = spawn
      BY <2>1 DEF RingKnown, Known, TypeOK, NewPlayer
    <2>3. player'[p].pos \in Int
      BY <2>2, WorldAssumption
    <2>4. /\ course' = [course EXCEPT ![p] = [k \in -1..MaxSeq |-> player'[p].pos]]
          /\ UNCHANGED <<hist, done, filedAt, applied, taken, clean, kept, seq>>
      BY <1>1 DEF TJoin, coregame_add_player, ringVars
    <2>5. course' \in [Players -> [-1..MaxSeq -> Int]]
      BY <2>3, <2>4 DEF HistoryType
    <2> QED BY <2>4, <2>5 DEF HistoryType
  <1>2. ASSUME NEW p \in Players, TLeave(p) PROVE HistoryType'
    BY <1>2 DEF TLeave, coregame_free_player, ringVars, history, HistoryType
  <1>3. ASSUME NEW p \in Players, NEW input \in Inputs, NEW t \in 0..(time + Interval),
               TRefuse(p, input, t)
        PROVE  HistoryType'
    BY <1>3 DEF TRefuse, RefuseInput, ringVars, history, HistoryType
  <1>4. ASSUME NEW p \in Players, NEW input \in Inputs, NEW t \in 0..(time + Interval),
               TFile(p, input, t)
        PROVE  HistoryType'
    <2>1. /\ hist' \in Replays /\ filedAt' \in [Players -> Nat]
          /\ taken' \in [Slots -> [Players -> Nat]]
      <3>1. t \in Int
        OBVIOUS
      <3> QED BY <1>4, <3>1, FileHistory
    <2>2. kept' = kept \cup {p} /\ UNCHANGED <<course, done, applied, clean, seq>>
      BY <1>4 DEF TFile, FileInput, ringVars
    <2> QED BY <2>1, <2>2 DEF HistoryType
  <1>5. CASE TRollback
    <2>1. /\ clean' = {p \in clean : ~Misplaced(oldest, p)}
          /\ kept' = {p \in kept : ~TakenBack(oldest, p)}
          /\ done' = hist /\ applied' = filedAt
          /\ UNCHANGED <<course, hist, filedAt, taken, seq>>
      BY <1>5 DEF TRollback, sbsm_rollback, ringVars
    <2>2. \A p : TakenBack(oldest, p) => Misplaced(oldest, p)
      BY DEF TakenBack, Misplaced
    <2>3. clean' \subseteq kept' /\ kept' \subseteq Players
      BY <2>1, <2>2 DEF HistoryType
    <2> QED BY <2>1, <2>3 DEF HistoryType
  <1>6. ASSUME NEW busy \in SUBSET (Gunners \cap InGame), NEW killed,
               NEW spawn \in [killed -> Spawns],
               NEW way \in [InGame -> AnyWay], TRewind(busy, killed, spawn, way)
        PROVE  HistoryType'
    <2>1. /\ clean' = clean \ killed
          /\ kept' = kept \ {p \in killed : \E s \in Slots : s # cursor /\ Dirty(s, p)}
          /\ taken' = [taken EXCEPT ![cursor] = [p \in Players |-> TickOf(cursor)]]
          /\ UNCHANGED <<hist, done, filedAt, applied, seq>> /\ pc = "rewind"
          /\ course' = Went(TickOf(cursor))
      BY <1>6 DEF TRewind, sbsm_rewind, ringVars
    <2>2. TickOf(cursor) \in Nat
      BY <2>1, CursorTick
    <2>3. taken' \in [Slots -> [Players -> Nat]]
      BY <2>1, <2>2 DEF HistoryType
    <2>4. player' \in [Players -> Player]
      BY <1>6, RewindEffect DEF TRewind, RingKnown, Known
    <2>5. course' \in [Players -> [-1..MaxSeq -> Int]]
      BY <2>1, <2>4, WentType DEF HistoryType
    <2> QED BY <2>1, <2>3, <2>5 DEF HistoryType
  <1>7. ASSUME NEW busy \in SUBSET (Gunners \cap InGame), NEW killed,
               NEW spawn \in [killed -> Spawns],
               NEW way \in [InGame -> AnyWay], TUpdate(busy, killed, spawn, way)
        PROVE  HistoryType'
    <2>1. /\ clean' = clean \ killed /\ seq < MaxSeq /\ seq' = seq + 1
          /\ UNCHANGED <<hist, done, filedAt, applied, kept>>
          /\ course' = Went(seq + 1)
      BY <1>7 DEF TUpdate, coregame_update, sbsm_rotate
    <2>2. seq \in Ticks /\ seq \in Nat /\ baseIdx \in Slots /\ taken \in [Slots -> [Players -> Nat]]
      BY DEF HistoryType, RingKnown, Known, TypeOK
    <2>3. seq' \in Ticks /\ 1 <= seq' /\ seq + 1 \in Nat
      BY <2>1, <2>2, BoundAssumption DEF Ticks
    <2>4. taken' \in [Slots -> [Players -> Nat]]
      <3>1. taken' =
              [s \in Slots |->
                 IF s = NewPresent THEN [p \in Players |-> seq + 1]
                 ELSE IF s = NewBase
                 THEN [p \in Players |->
                         IF pss[s][p] = NoSnap THEN taken[baseIdx][p] ELSE taken[s][p]]
                 ELSE taken[s]]
        BY <1>7 DEF TUpdate
      <3> QED BY <2>2, <2>3, <3>1
    <2>5. player' \in [Players -> Player]
      BY <1>7, UpdateEffect DEF TUpdate, RingKnown, Known
    <2>6. course' \in [Players -> [-1..MaxSeq -> Int]]
      BY <2>1, <2>5, WentType DEF HistoryType
    <2> QED BY <2>1, <2>3, <2>4, <2>6 DEF HistoryType
  <1>8. ASSUME NEW p \in Players, NEW bots \in SUBSET (InGame \ {p}), NEW to \in Lo..Hi,
               TMoveBot(p, bots, to)
        PROVE  HistoryType'
    <2>1. /\ clean' = clean \ bots
          /\ UNCHANGED <<course, hist, done, filedAt, applied, taken, kept, seq>>
      BY <1>8 DEF TMoveBot, move_bot, ringVars
    <2> QED BY <2>1 DEF HistoryType
  <1>9. CASE UNCHANGED tvars
    BY <1>9 DEF tvars, vars, history, HistoryType
  <1> QED BY <1>1, <1>2, <1>3, <1>4, <1>5, <1>6, <1>7, <1>8, <1>9 DEF TNext

\* with nothing waiting, nothing is filed that was not replayed
LEMMA ReplayedStep ==
  ASSUME RingKnown, HistoryType, AllReplayed, [TNext]_tvars
  PROVE  AllReplayed'
  <1>1. CASE UNCHANGED <<oldest, hist, done, filedAt, applied>>
    BY <1>1 DEF AllReplayed
  <1>2. ASSUME NEW p \in Players, NEW input \in Inputs, NEW t \in 0..(time + Interval),
               TFile(p, input, t)
        PROVE  AllReplayed'
    <2>1. sbsm_lookup(t) \in Slots /\ oldest' = OldestOf(sbsm_lookup(t))
      <3>1. t \in Int
        OBVIOUS
      <3> QED BY <1>2, <3>1, LookupSlot DEF TFile, FileInput, RingKnown, Known
    <2>2. oldest' # NoSlot
      BY <2>1 DEF OldestOf, Slots, NoSlot
    <2> QED BY <2>2 DEF AllReplayed
  <1>3. CASE TRollback
    BY <1>3 DEF TRollback, AllReplayed
  <1>4. ASSUME NEW p, NEW bots, NEW to, TMoveBot(p, bots, to) PROVE AllReplayed'
    BY <1>1, <1>4 DEF TMoveBot, move_bot
  <1>5. ASSUME NEW busy, NEW killed, NEW spawn, NEW way,
               TRewind(busy, killed, spawn, way) \/ TUpdate(busy, killed, spawn, way)
        PROVE  AllReplayed'
    BY <1>1, <1>5 DEF TRewind, TUpdate, sbsm_rewind, coregame_update
  <1>6. ASSUME NEW p, NEW input, NEW t, TJoin(p) \/ TLeave(p) \/ TRefuse(p, input, t)
        PROVE  AllReplayed'
    BY <1>1, <1>6 DEF TJoin, TLeave, TRefuse, coregame_add_player, coregame_free_player,
                      RefuseInput, history
  <1>7. CASE UNCHANGED tvars
    BY <1>1, <1>7 DEF tvars, vars, history
  <1> QED BY <1>2, <1>3, <1>4, <1>5, <1>6, <1>7 DEF TNext

\* whoever has not joined yet has no history
LEMMA BlankStep ==
  ASSUME RingKnown, HistoryType, [TNext]_tvars,
         NEW p \in Players, player[p].st = "absent" => Blank(p), player'[p].st = "absent"
  PROVE  Blank(p)'
  <1>1. CASE player[p].st = "absent" /\ UNCHANGED <<hist, done, filedAt, applied>>
    BY <1>1 DEF Blank
  <1>2. ASSUME NEW q \in Players, TJoin(q) PROVE Blank(p)'
    <2>1. PICK spawn \in Spawns : player' = [player EXCEPT ![q] = NewPlayer(spawn)]
      BY <1>2 DEF TJoin, coregame_add_player
    <2>2. player'[p].st = player[p].st
      BY <2>1 DEF RingKnown, Known, TypeOK, NewPlayer
    <2> QED BY <1>1, <1>2, <2>2 DEF TJoin
  <1>3. ASSUME NEW q \in Players, TLeave(q) PROVE Blank(p)'
    <2>1. player' = [player EXCEPT ![q].st = "left"]
      BY <1>3 DEF TLeave, coregame_free_player
    <2>2. player'[p].st = player[p].st
      BY <2>1 DEF RingKnown, Known, TypeOK, Player
    <2> QED BY <1>1, <1>3, <2>2 DEF TLeave, history
  <1>4. ASSUME NEW q \in Players, NEW input \in Inputs, NEW t \in 0..(time + Interval),
               TRefuse(q, input, t)
        PROVE  Blank(p)'
    <2>1. player' = [player EXCEPT ![q].last = stamp[sbsm_lookup(t)]]
      BY <1>4 DEF TRefuse, RefuseInput
    <2>2. player'[p].st = player[p].st
      BY <2>1 DEF RingKnown, Known, TypeOK, Player
    <2> QED BY <1>1, <1>4, <2>2 DEF TRefuse, history
  <1>5. ASSUME NEW q \in Players, NEW input \in Inputs, NEW t \in 0..(time + Interval),
               TFile(q, input, t)
        PROVE  Blank(p)'
    <2>1. /\ player[q].st = "in"
          /\ player' = [player EXCEPT ![q].last = stamp[sbsm_lookup(t)]]
      BY <1>5 DEF TFile, FileInput
    <2>2. player'[p].st = player[p].st /\ p # q
      BY <2>1 DEF RingKnown, Known, TypeOK, Player
    <2>3. hist'[p] = hist[p] /\ filedAt'[p] = filedAt[p] /\ UNCHANGED <<done, applied>>
      <3>1. t \in Int
        OBVIOUS
      <3> QED BY <1>5, <2>2, <3>1, FileHistory DEF TFile
    <2> QED BY <2>2, <2>3 DEF Blank
  <1>6. CASE TRollback
    <2>1. player'[p].st = player[p].st
      BY <1>6, RollbackEffect DEF TRollback, RingKnown, Known
    <2> QED BY <1>6, <2>1 DEF TRollback, Blank
  <1>7. ASSUME NEW busy, NEW killed, NEW spawn \in [killed -> Spawns],
               NEW way \in [InGame -> AnyWay], TRewind(busy, killed, spawn, way)
        PROVE  Blank(p)'
    <2>1. player'[p].st = player[p].st
      BY <1>7, RewindEffect DEF TRewind, RingKnown, Known
    <2> QED BY <1>1, <1>7, <2>1 DEF TRewind
  <1>8. ASSUME NEW busy, NEW killed, NEW spawn \in [killed -> Spawns],
               NEW way \in [InGame -> AnyWay], TUpdate(busy, killed, spawn, way)
        PROVE  Blank(p)'
    <2>1. player'[p].st = player[p].st
      BY <1>8, UpdateEffect DEF TUpdate, RingKnown, Known
    <2> QED BY <1>1, <1>8, <2>1 DEF TUpdate
  <1>9. ASSUME NEW q \in Players, NEW bots \in SUBSET (InGame \ {q}), NEW to \in Lo..Hi,
               TMoveBot(q, bots, to)
        PROVE  Blank(p)'
    <2>1. player'[p].st = player[p].st
      BY <1>9, MoveBotEffect DEF TMoveBot, RingKnown, Known, TypeOK
    <2> QED BY <1>1, <1>9, <2>1 DEF TMoveBot
  <1>10. CASE UNCHANGED tvars
    BY <1>1, <1>10 DEF tvars, vars, history
  <1> QED BY <1>2, <1>3, <1>4, <1>5, <1>6, <1>7, <1>8, <1>9, <1>10 DEF TNext

-------------------------------------------------------------------------------
(* What the input handlers do to the history of a player. *)

\* a player that joins starts where it was spawned, and nothing is asked of it
LEMMA TraceJoin ==
  ASSUME RingKnown, TraceInv, NEW q \in Players, TJoin(q),
         NEW p \in Players, player'[p].st = "in"
  PROVE  TraceOf(p)'
  <1>1. PICK spawn \in Spawns : player' = [player EXCEPT ![q] = NewPlayer(spawn)]
    BY DEF TJoin, coregame_add_player
  <1>2. /\ pc = "idle" /\ player[q].st = "absent"
        /\ UNCHANGED <<ringVars, pss, oldest, pc, cursor>>
        /\ UNCHANGED <<hist, done, filedAt, applied, taken, clean, kept>>
        /\ course' = [course EXCEPT ![q] = [k \in -1..MaxSeq |-> player'[q].pos]]
    BY DEF TJoin, coregame_add_player
  <1>3. player \in [Players -> Player] /\ course \in [Players -> [-1..MaxSeq -> Int]]
    BY DEF RingKnown, Known, TypeOK, TraceInv, HistoryType
  <1>4. CASE p # q
    <2>1. player'[p] = player[p] /\ course'[p] = course[p]
      BY <1>1, <1>2, <1>3, <1>4
    <2>2. TraceOf(p)
      BY <2>1 DEF TraceInv, InGame
    <2> QED BY <1>2, <2>1, <2>2, TraceStands
  <1>5. CASE p = q
    <2>1. /\ player'[p].pos = spawn /\ player'[p].vel = 0 /\ player'[p].input = 0
          /\ spawn \in Lo..Hi /\ course'[p] = [k \in -1..MaxSeq |-> spawn]
      BY <1>1, <1>2, <1>3, <1>5, WorldAssumption DEF NewPlayer
    <2>2. Blank(p)
      BY <1>2, <1>5 DEF TraceInv
    <2>3. \A s \in Slots : pss'[s][p] = NoSnap /\ ~Dirty(s, p)'
      BY <1>2, <1>5 DEF RingKnown, FiledInv, GoneForgotten, InGame, Dirty
    <2>4. /\ seq' = seq /\ seq \in Ticks /\ seq \in Nat /\ pc' = "idle"
          /\ MaxSeq \in Ticks /\ seq - 1 \in -1..MaxSeq /\ seq \in -1..MaxSeq
      BY <1>2, BoundAssumption DEF ringVars, TraceInv, HistoryType, Ticks
    <2>5. /\ hist'[p] = [k \in Ticks |-> 0] /\ done'[p] = [k \in Ticks |-> 0]
          /\ filedAt'[p] = 0 /\ applied'[p] = 0
      BY <1>2, <2>2 DEF Blank
    <2>6. \A k \in Ticks : Led(p, k)' /\ k \in -1..MaxSeq /\ k - 1 \in -1..MaxSeq
      <3> SUFFICES ASSUME NEW k \in Ticks
                   PROVE  Led(p, k)' /\ k \in -1..MaxSeq /\ k - 1 \in -1..MaxSeq
        OBVIOUS
      <3>1. k \in -1..MaxSeq /\ k - 1 \in -1..MaxSeq
        BY BoundAssumption DEF Ticks
      <3>2. course'[p][k] = spawn /\ course'[p][k - 1] = spawn /\ done'[p][k] = 0
        BY <2>1, <2>5, <3>1
      <3>3. 0 \in Leads(p, 0)
        <4>1. 1 \in Lengths \cup {1} /\ 0 \in (IF p \in Gunners THEN Kicks \cup {0} ELSE {0})
          OBVIOUS
        <4>2. 0 * 1 + 0 = 0 /\ 0 \in CutShort(0)
          BY CutShortPart
        <4> QED BY <4>1, <4>2 DEF Leads
      <3>4. Stepped(spawn, 0) = spawn
        BY <2>1, SteppedType, WorldAssumption
      <3> QED BY <3>1, <3>2, <3>3, <3>4 DEF Led, Leads
    <2>7. FilingOf(p)'
      BY <2>3, <2>4, <2>5 DEF FilingOf, InForce
    <2>8. TakenOf(p)'
      BY <2>3 DEF TakenOf
    <2>9. PlaceOf(p)'
      <3>1. spawn \in Int /\ spawn - 0 = spawn
        BY <2>1, WorldAssumption
      <3> QED BY <2>1, <2>3, <2>4, <2>5, <2>6, <3>1 DEF PlaceOf
    <2>10. KeptOf(p)'
      BY <2>1, <2>3, <2>4, <2>5 DEF KeptOf
    <2> QED BY <2>7, <2>8, <2>9, <2>10 DEF TraceOf
  <1> QED BY <1>4, <1>5

\* a player that leaves takes its snapshots with it, and nobody else's
LEMMA TraceLeave ==
  ASSUME RingKnown, TraceInv, NEW q \in Players, TLeave(q),
         NEW p \in Players, player'[p].st = "in"
  PROVE  TraceOf(p)'
  <1>1. /\ pss' = sbsm_delete_player(pss, {q}) /\ player' = [player EXCEPT ![q].st = "left"]
        /\ UNCHANGED <<ringVars, oldest, pc, cursor>> /\ UNCHANGED history
    BY DEF TLeave, coregame_free_player
  <1>2. player \in [Players -> Player] /\ pss \in [Slots -> Snaps]
    BY DEF RingKnown, Known, TypeOK, Snaps
  <1>3. p # q /\ player'[p] = player[p]
    BY <1>1, <1>2 DEF Player
  <1>4. \A s \in Slots : pss'[s][p] = pss[s][p]
    <2>1. \A s \in Slots, r \in Players : pss'[s][r] = IF r \in {q} THEN NoSnap ELSE pss[s][r]
      BY <1>1, <1>2, DeleteEffect
    <2> QED BY <1>3, <2>1
  <1>5. TraceOf(p)
    BY <1>3 DEF TraceInv, InGame
  <1> QED BY <1>1, <1>3, <1>4, <1>5, TraceStands DEF history

\* an input that is refused moves nobody
LEMMA TraceRefuse ==
  ASSUME RingKnown, TraceInv, NEW q \in Players, NEW input \in Inputs, NEW t \in Int,
         TRefuse(q, input, t), NEW p \in Players, player'[p].st = "in"
  PROVE  TraceOf(p)'
  <1>1. /\ player' = [player EXCEPT ![q].last = stamp[sbsm_lookup(t)]]
        /\ UNCHANGED <<ringVars, pss, oldest, pc, cursor>> /\ UNCHANGED history
    BY DEF TRefuse, RefuseInput
  <1>2. /\ player'[p].st = player[p].st /\ player'[p].pos = player[p].pos
        /\ player'[p].vel = player[p].vel /\ player'[p].input = player[p].input
    BY <1>1 DEF RingKnown, Known, TypeOK, Player
  <1>3. TraceOf(p)
    BY <1>2 DEF TraceInv, InGame
  <1> QED BY <1>1, <1>2, <1>3, TraceStands DEF history

\* a bot that is moved is where no input led it, and nobody else is touched
LEMMA TraceMoveBot ==
  ASSUME RingKnown, TraceInv, NEW q \in Players, NEW bots \in SUBSET (InGame \ {q}),
         NEW to \in Lo..Hi, TMoveBot(q, bots, to), NEW p \in Players, player'[p].st = "in"
  PROVE  TraceOf(p)'
  <1>1. /\ player' = [r \in Players |->
                        IF r \in bots THEN [player[r] EXCEPT !.pos = to] ELSE player[r]]
        /\ UNCHANGED <<ringVars, pss, oldest, pc, cursor>>
        /\ UNCHANGED <<course, hist, done, filedAt, applied, taken, kept>>
        /\ clean' = clean \ bots
    BY DEF TMoveBot, move_bot
  <1>2. player'[p].st = player[p].st /\ player'[p].input = player[p].input
    BY <1>1 DEF RingKnown, Known, TypeOK, Player
  <1>3. TraceOf(p)
    BY <1>2 DEF TraceInv, InGame
  <1>4. CASE p \notin bots
    <2>1. player'[p] = player[p]
      BY <1>1, <1>4
    <2> QED BY <1>1, <1>3, <2>1, TraceStands
  <1>5. CASE p \in bots
    <2>1. /\ \A s : Tick(s)' = Tick(s)
          /\ Tick(cursor)' = Tick(cursor) /\ seq' = seq /\ pc' = pc
      BY <1>1, RingStands DEF Tick, ringVars, Behind
    <2>2. \A s \in Slots : (Dirty(s, p)' <=> Dirty(s, p)) /\ (Fixed(s)' <=> Fixed(s))
      BY <1>1, <2>1 DEF Dirty, Fixed
    <2>3. /\ NoneFiled(p)' <=> NoneFiled(p)
          /\ \A k : Unfiled(p, k)' <=> Unfiled(p, k)
          /\ \A s \in Slots : \A k : InForce(s, p, k)' <=> InForce(s, p, k)
      BY <2>1, <2>2 DEF NoneFiled, Unfiled, InForce
    <2>4. FilingOf(p)' /\ TakenOf(p)'
      BY <1>1, <1>3, <2>1, <2>2, <2>3 DEF TraceOf, FilingOf, TakenOf
    <2>5. KeptOf(p) => KeptOf(p)'
      BY <1>1, <1>2, <2>2, <2>3 DEF KeptOf
    <2> QED BY <1>1, <1>3, <1>5, <2>4, <2>5 DEF TraceOf
  <1> QED BY <1>4, <1>5

\* no input of a player waits in a tick after the one its newest is filed under
LEMMA FiledLast ==
  ASSUME RingKnown, NEW p \in Players, NEW s \in Slots, Behind(s) <= seq,
         player[p].last <= stamp[s], NEW j \in Slots, Dirty(j, p)
  PROVE  Tick(j) <= Tick(s)
  <1>1. Behind(j) <= seq
    BY DirtyReached DEF RingKnown
  <1>2. stamp[j] <= player[p].last
    BY DEF RingKnown, FiledInv, InputOrder
  <1>3. player[p].last \in Nat /\ stamp[j] \in Nat /\ stamp[s] \in Nat
    BY PlayerFields DEF RingKnown, Known, TypeOK
  <1>4. ~ (stamp[s] < stamp[j])
    BY <1>2, <1>3
  <1>5. ~ (Behind(j) < Behind(s))
    BY <1>1, <1>4, StampOrder DEF RingKnown, Known
  <1>6. seq \in Nat /\ Behind(j) \in 0..(Size - 1) /\ Behind(s) \in 0..(Size - 1)
    BY BehindSlot DEF RingKnown, Known, TypeOK
  <1> QED BY <1>5, <1>6 DEF Tick

\* an input that is filed changes what its player is to do from that tick on
LEMMA TraceFile ==
  ASSUME RingKnown, TraceInv, NEW q \in Players, NEW input \in Inputs, NEW t \in Int,
         TFile(q, input, t), NEW p \in Players, player'[p].st = "in"
  PROVE  TraceOf(p)'
  <1>1. FileInput(q, input, t) /\ HistoryType /\ TypeOK /\ RingInv
    BY DEF TFile, TraceInv, RingKnown, Known
  <1>2. PICK s \in Slots :
           /\ s = sbsm_lookup(t) /\ Behind(s) <= seq
           /\ Tick(s) \in Nat /\ Tick(s) <= seq
           /\ \A k \in Ticks : hist'[q][k] = IF k < Tick(s) THEN hist[q][k] ELSE input
           /\ \A r \in Players \ {q} : hist'[r] = hist[r] /\ filedAt'[r] = filedAt[r]
           /\ filedAt'[q] = Tick(s)
           /\ taken'[s][q] = IF pss[s][q] = NoSnap THEN seq ELSE taken[s][q]
           /\ \A k \in Slots, r \in Players : k # s \/ r # q => taken'[k][r] = taken[k][r]
    BY <1>1, FileHistory
  <1>3. /\ player[q].last <= stamp[s]
        /\ player[q].st = "in" /\ player' = [player EXCEPT ![q].last = stamp[s]]
        /\ pss'[s][q] # NoSnap /\ pss'[s][q].dirty /\ pss'[s][q].input = input
        /\ pss[s][q] # NoSnap => /\ pss'[s][q].pos = pss[s][q].pos
                                 /\ pss'[s][q].vel = pss[s][q].vel
        /\ pss[s][q] = NoSnap => /\ pss'[s][q].pos = player[q].pos
                                 /\ pss'[s][q].vel = player[q].vel
        /\ \A k \in Slots, r \in Players : k # s \/ r # q => pss'[k][r] = pss[k][r]
    BY <1>1, <1>2, FileMoves
  <1>4. /\ UNCHANGED <<ringVars, pc, cursor>> /\ pc = "idle"
        /\ UNCHANGED <<course, done, applied, clean>> /\ kept' = kept \cup {q}
    BY DEF TFile, FileInput
  <1>5. /\ player'[p].st = player[p].st /\ player'[p].pos = player[p].pos
        /\ player'[p].vel = player[p].vel /\ player'[p].input = player[p].input
    BY <1>1, <1>3 DEF TypeOK, Player
  <1>6. TraceOf(p)
    BY <1>5 DEF TraceInv, InGame
  <1>7. CASE p # q
    <2>1. /\ \A k \in Slots : pss'[k][p] = pss[k][p] /\ taken'[k][p] = taken[k][p]
          /\ hist'[p] = hist[p] /\ filedAt'[p] = filedAt[p]
      BY <1>2, <1>3, <1>7
    <2>2. p \in kept' => p \in kept
      BY <1>4, <1>7
    <2> QED BY <1>4, <1>5, <1>6, <2>1, <2>2, TraceStands
  <1>8. CASE p = q
    <2>1. \A j \in Slots : Dirty(j, p) => Tick(j) <= Tick(s)
      BY <1>2, <1>3, <1>8, FiledLast
    <2>2. /\ \A j : Tick(j)' = Tick(j)
          /\ seq' = seq /\ pc' = "idle" /\ pc = "idle"
      BY <1>4, RingStands DEF Tick, ringVars
    <2>3. /\ Dirty(s, p)'
          /\ \A j \in Slots : j # s => (Dirty(j, p)' <=> Dirty(j, p))
      BY <1>3, <1>8 DEF Dirty
    <2>4. \A j \in Slots : Dirty(j, p) => Dirty(j, p)'
      BY <2>3
    <2>5. /\ seq \in Nat /\ MaxSeq \in Ticks /\ Ticks \subseteq Nat
          /\ filedAt[p] \in Nat /\ applied[p] \in Nat
          /\ \A j \in Slots : Tick(j) \in Int /\ (Tick(j) = Tick(s) => j = s)
          /\ Tick(s) \in Nat /\ Tick(s) <= MaxSeq
      <3>1. seq \in Ticks /\ filedAt[p] \in Nat /\ applied[p] \in Nat
        BY DEF TraceInv, HistoryType
      <3>2. \A j \in Slots : Tick(j) \in Int /\ (Tick(j) = Tick(s) => j = s)
        BY <1>2, TickSlot
      <3> QED BY <1>2, <3>1, <3>2, BoundAssumption DEF Ticks
    <2>6. /\ filedAt'[p] = Tick(s) /\ applied'[p] = applied[p]
          /\ done'[p] = done[p]
          /\ \A k \in Ticks : hist'[p][k] = IF k < Tick(s) THEN hist[p][k] ELSE input
      BY <1>2, <1>4, <1>8
    <2>7. FilingOf(p)'
      <3>1. FilingOf(p)
        BY <1>6 DEF TraceOf
      <3>2. filedAt'[p] <= seq' /\ applied'[p] <= seq'
        BY <1>2, <2>2, <2>6, <3>1 DEF FilingOf
      <3>3. ~NoneFiled(p)'
        BY <2>3 DEF NoneFiled
      <3>4. ASSUME NEW k \in Ticks, Unfiled(p, k)' PROVE hist'[p][k] = done'[p][k]
        <4>1. k < Tick(s)
          BY <2>2, <2>3, <3>4 DEF Unfiled
        <4>2. Unfiled(p, k)
          BY <2>2, <2>4, <3>4 DEF Unfiled
        <4> QED BY <2>6, <3>1, <4>1, <4>2 DEF FilingOf
      <3>5. ASSUME NEW j \in Slots, Dirty(j, p)' PROVE Tick(j)' <= filedAt'[p]
        BY <2>1, <2>2, <2>3, <2>5, <2>6, <3>5
      <3>6. ASSUME NEW j \in Slots, NEW k \in Ticks, InForce(j, p, k)'
            PROVE  hist'[p][k] = pss'[j][p].input
        <4>1. /\ Dirty(j, p)' /\ Tick(j) <= k
              /\ \A i \in Slots : Dirty(i, p)' => Tick(i) <= Tick(j) \/ k < Tick(i)
          BY <2>2, <3>6 DEF InForce
        <4>2. CASE j = s
          BY <1>3, <1>8, <2>5, <2>6, <4>1, <4>2
        <4>3. CASE j # s
          <5>1. Dirty(j, p) /\ Tick(j) <= Tick(s) /\ Tick(j) # Tick(s)
            BY <2>1, <2>3, <2>5, <4>1, <4>3
          <5>2. k < Tick(s)
            BY <2>3, <2>5, <4>1, <5>1
          <5>3. InForce(j, p, k)
            BY <2>4, <4>1, <5>1 DEF InForce
          <5> QED BY <1>3, <1>8, <2>6, <3>1, <4>3, <5>2, <5>3 DEF FilingOf
        <4> QED BY <4>2, <4>3
      <3>7. \A k \in Ticks : filedAt'[p] <= k => hist'[p][k] = hist'[p][MaxSeq]
        BY <2>5, <2>6
      <3>8. \A k \in Ticks : applied'[p] <= k => done'[p][k] = done'[p][MaxSeq]
        BY <2>6, <3>1 DEF FilingOf
      <3> QED BY <3>2, <3>3, <3>4, <3>5, <3>6, <3>7, <3>8 DEF FilingOf
    <2>8. TakenOf(p)'
      <3>1. ASSUME NEW j \in Slots, pss'[j][p] # NoSnap
            PROVE  taken'[j][p] <= seq /\ (~Dirty(j, p)' => taken'[j][p] <= Tick(j))
        <4>1. CASE j = s
          BY <1>2, <1>6, <1>8, <2>3, <2>5, <4>1 DEF TraceOf, TakenOf
        <4>2. CASE j # s
          <5>1. pss'[j][p] = pss[j][p] /\ taken'[j][p] = taken[j][p]
            BY <1>2, <1>3, <4>2
          <5> QED BY <1>4, <1>6, <2>3, <3>1, <4>2, <5>1 DEF TraceOf, TakenOf, Fixed
        <4> QED BY <4>1, <4>2
      <3> QED BY <2>2, <3>1 DEF TakenOf
    <2>9. PlaceOf(p) => PlaceOf(p)'
      <3> SUFFICES ASSUME PlaceOf(p) PROVE PlaceOf(p)'
        OBVIOUS
      <3>1. course'[p] = course[p] /\ \A k : Led(p, k)' <=> Led(p, k)
        BY <1>4 DEF Led, Leads
      <3>2. /\ player[p].pos = course[p][seq] /\ player[p].input = done[p][MaxSeq]
            /\ player[p].pos - player[p].vel = course[p][seq - 1]
        BY <2>2 DEF PlaceOf
      <3>3. ASSUME NEW j \in Slots, pss'[j][p] # NoSnap
            PROVE  /\ pss'[j][p].pos - pss'[j][p].vel = course[p][taken'[j][p] - 1]
                   /\ ~Dirty(j, p)' /\ applied[p] <= taken'[j][p]
                        => pss'[j][p].input = done[p][MaxSeq]
        <4>1. CASE j = s /\ pss[s][p] = NoSnap
          BY <1>2, <1>3, <1>8, <2>3, <3>2, <4>1
        <4>2. CASE j = s /\ pss[s][p] # NoSnap
          <5>1. pss[s][p].pos - pss[s][p].vel = course[p][taken[s][p] - 1]
            BY <2>2, <4>2 DEF PlaceOf, Fixed
          <5> QED BY <1>2, <1>3, <1>8, <2>3, <4>2, <5>1
        <4>3. CASE j # s
          <5>1. pss'[j][p] = pss[j][p] /\ taken'[j][p] = taken[j][p]
            BY <1>2, <1>3, <4>3
          <5> QED BY <2>2, <2>3, <3>3, <4>3, <5>1 DEF PlaceOf, Fixed
        <4> QED BY <4>1, <4>2, <4>3
      <3> QED BY <1>5, <2>2, <2>6, <3>1, <3>2, <3>3 DEF PlaceOf
    <2>10. KeptOf(p)'
      BY <2>3 DEF KeptOf, NoneFiled
    <2> QED BY <1>4, <1>6, <2>7, <2>8, <2>9, <2>10 DEF TraceOf
  <1> QED BY <1>7, <1>8

-------------------------------------------------------------------------------
(* What a rollback does to the history of a player. *)

\* the oldest change is behind everything filed
LEMMA OldestFirst ==
  ASSUME RingKnown, sbsm_rollback, NEW p \in Players, NEW j \in Slots, Dirty(j, p)
  PROVE  Tick(oldest) <= Tick(j)
  <1>1. pc = "idle" /\ oldest \in Slots
    BY DEF sbsm_rollback, RingKnown, Known, TypeOK
  <1>2. Behind(j) <= Behind(oldest)
    BY <1>1 DEF RingKnown, FiledInv, PendingCovered
  <1>3. /\ seq \in Nat
        /\ Behind(j) \in 0..(Size - 1) /\ Behind(oldest) \in 0..(Size - 1)
    BY <1>1, BehindSlot DEF RingKnown, Known, TypeOK
  <1> QED BY <1>2, <1>3 DEF Tick

\* what a rollback leaves of a player in game, slots told as ticks
RolledBack(p) ==
  /\ pc = "idle" /\ pc' = "rewind" /\ seq' = seq
  /\ oldest \in Slots /\ Tick(oldest) \in Nat /\ Tick(oldest) <= seq
  /\ TickOf(oldest) = Tick(oldest) /\ Tick(cursor)' = Tick(oldest)
  /\ \A s : Tick(s)' = Tick(s)
  /\ \A s \in Slots : Tick(s) \in Int /\ Tick(s) <= seq
  /\ \A s \in Slots : Dirty(s, p)' <=> Dirty(s, p) /\ s # oldest
  /\ \A s \in Slots : Dirty(s, p) => Tick(oldest) <= Tick(s)
  /\ pss[oldest][p] = NoSnap => player'[p] = player[p] /\ pss'[oldest][p] = NoSnap
  /\ pss[oldest][p] # NoSnap =>
       /\ player'[p].pos = pss[oldest][p].pos - pss[oldest][p].vel
       /\ player'[p].input = pss[oldest][p].input
  /\ \A s \in Slots : s # oldest => pss'[s][p] = pss[s][p]
  /\ clean' = {q \in clean : ~Misplaced(oldest, q)}
  /\ kept' = {q \in kept : ~TakenBack(oldest, q)}
  /\ done' = hist /\ applied' = filedAt
  /\ UNCHANGED <<course, hist, filedAt, taken>>

\* ... and sbsm_rollback leaves just that
LEMMA RollbackTrace ==
  ASSUME RingKnown, TRollback, NEW p \in Players, player[p].st = "in"
  PROVE  RolledBack(p)
  <1>1. /\ sbsm_rollback /\ TypeOK
        /\ clean' = {q \in clean : ~Misplaced(oldest, q)}
        /\ kept' = {q \in kept : ~TakenBack(oldest, q)}
        /\ done' = hist /\ applied' = filedAt
        /\ UNCHANGED <<course, hist, filedAt, taken>>
    BY DEF TRollback, RingKnown, Known
  <1>2. /\ pc = "idle" /\ pc' = "rewind" /\ oldest # NoSlot /\ UNCHANGED ringVars
        /\ cursor' = sbsm_index(stamp[oldest])
    BY <1>1 DEF sbsm_rollback
  <1>3. /\ oldest \in Slots /\ Behind(oldest) <= seq
        /\ Tick(oldest) \in Nat /\ Tick(oldest) <= seq /\ TickOf(oldest) = Tick(oldest)
    BY <1>2, OldestTick
  <1>4. cursor' = oldest
    BY <1>2, <1>3, StampOfReached DEF RingKnown, Known
  <1>5. seq' = seq /\ \A s : Tick(s)' = Tick(s)
    BY <1>2, RingStands DEF Tick, ringVars
  <1>6. Tick(cursor)' = Tick(oldest)
    BY <1>2, <1>4 DEF Tick, Behind, ringVars
  <1>7. \A s \in Slots : Tick(s) \in Int /\ Tick(s) <= seq
    BY TickSlot
  <1>8. /\ pss[oldest][p] = NoSnap => player'[p] = player[p] /\ pss'[oldest][p] = NoSnap
        /\ pss[oldest][p] # NoSnap =>
             /\ player'[p].pos = pss[oldest][p].pos - pss[oldest][p].vel
             /\ player'[p].input = pss[oldest][p].input
        /\ pss'[oldest][p] = NoSnap \/ ~pss'[oldest][p].dirty
        /\ \A s \in Slots : s # oldest => pss'[s][p] = pss[s][p]
    BY <1>1, RollbackMoves, RollbackEffect
  <1>9. \A s \in Slots : Dirty(s, p)' <=> Dirty(s, p) /\ s # oldest
    BY <1>8 DEF Dirty
  <1>10. \A s \in Slots : Dirty(s, p) => Tick(oldest) <= Tick(s)
    BY <1>1, OldestFirst
  <1> QED BY <1>1, <1>2, <1>3, <1>5, <1>6, <1>7, <1>8, <1>9, <1>10 DEF RolledBack

\* the input in force in the tick of the oldest change is the one filed for it
LEMMA OldestInForce ==
  ASSUME NEW p \in Players, RolledBack(p), Dirty(oldest, p), NEW k \in Ticks,
         Unfiled(p, k)', Tick(oldest) <= k
  PROVE  InForce(oldest, p, k)
  BY DEF RolledBack, Unfiled, InForce

\* what is on file is as it was, without the oldest tick's
LEMMA RollbackFiling ==
  ASSUME HistoryType, NEW p \in Players, RolledBack(p), FilingOf(p)
  PROVE  FilingOf(p)'
  <1>1. /\ done' = hist /\ applied' = filedAt /\ hist' = hist /\ filedAt' = filedAt
        /\ seq' = seq /\ \A s : Tick(s)' = Tick(s)
        /\ \A s \in Slots : Dirty(s, p)' <=> Dirty(s, p) /\ s # oldest
        /\ \A s \in Slots : s # oldest => pss'[s][p] = pss[s][p]
    BY DEF RolledBack
  <1>2. ASSUME NEW s \in Slots, NEW k \in Ticks, InForce(s, p, k)'
        PROVE  hist[p][k] = pss'[s][p].input
    <2>1. /\ Dirty(s, p) /\ s # oldest /\ Tick(s) <= k
          /\ \A j \in Slots : Dirty(j, p)' => Tick(j) <= Tick(s) \/ k < Tick(j)
      BY <1>1, <1>2 DEF InForce
    <2>2. Tick(oldest) <= Tick(s)
      BY <2>1 DEF RolledBack
    <2>3. InForce(s, p, k)
      BY <1>1, <2>1, <2>2 DEF InForce
    <2> QED BY <1>1, <2>1, <2>3 DEF FilingOf
  <1> QED BY <1>1, <1>2 DEF FilingOf

\* snapshots behind the oldest change are not of it or a later tick
LEMMA RollbackTaken ==
  ASSUME HistoryType, NEW p \in Players, RolledBack(p), TakenOf(p)
  PROVE  /\ TakenOf(p)'
         /\ \A s \in Slots : Fixed(s)' /\ pss'[s][p] # NoSnap =>
              /\ pss'[s][p] = pss[s][p] /\ ~Dirty(s, p) /\ Fixed(s)
              /\ taken[s][p] \in Nat /\ taken[s][p] < Tick(oldest)
  <1>1. \A s : Fixed(s)' <=> Tick(s) < Tick(oldest)
    BY DEF RolledBack, Fixed
  <1>2. /\ \A s \in Slots : Tick(s) \in Int /\ taken[s][p] \in Nat
        /\ Tick(oldest) \in Int /\ pc = "idle" /\ oldest \in Slots
    BY DEF RolledBack, HistoryType
  <1>3. ASSUME NEW s \in Slots, pss'[s][p] # NoSnap PROVE pss[s][p] # NoSnap
    BY <1>3 DEF RolledBack
  <1>4. ASSUME NEW s \in Slots, Fixed(s)', pss'[s][p] # NoSnap
        PROVE  /\ pss'[s][p] = pss[s][p] /\ ~Dirty(s, p) /\ Fixed(s)
               /\ taken[s][p] <= Tick(s) /\ taken[s][p] < Tick(oldest)
    <2>1. Tick(s) < Tick(oldest) /\ s # oldest
      BY <1>1, <1>2, <1>4
    <2>2. ~Dirty(s, p) /\ Fixed(s)
      BY <1>2, <2>1 DEF RolledBack, Fixed
    <2>3. taken[s][p] <= Tick(s)
      BY <1>3, <1>4, <2>2 DEF TakenOf
    <2> QED BY <1>2, <2>1, <2>2, <2>3 DEF RolledBack
  <1>5. ASSUME NEW s \in Slots, pss'[s][p] # NoSnap PROVE taken[s][p] <= seq
    BY <1>3, <1>5 DEF TakenOf
  <1>6. TakenOf(p)'
    BY <1>4, <1>5 DEF TakenOf, RolledBack
  <1> QED BY <1>2, <1>4, <1>6

\* with an input filed at all, no tick before the oldest change is its last
LEMMA FiledBefore ==
  ASSUME HistoryType, NEW p \in Players, RolledBack(p), FilingOf(p),
         filedAt[p] < Tick(oldest)
  PROVE  NoneFiled(p) /\ applied[p] = filedAt[p] /\ hist[p][MaxSeq] = done[p][MaxSeq]
  <1>1. NoneFiled(p)
    <2> SUFFICES ASSUME NEW s \in Slots, Dirty(s, p) PROVE FALSE
      BY DEF NoneFiled
    <2>1. /\ Tick(s) <= filedAt[p] /\ Tick(oldest) <= Tick(s)
          /\ Tick(s) \in Int /\ Tick(oldest) \in Int /\ filedAt[p] \in Nat
      BY DEF FilingOf, RolledBack, HistoryType
    <2> QED BY <2>1
  <1>2. MaxSeq \in Ticks
    BY BoundAssumption DEF Ticks
  <1> QED BY <1>1, <1>2 DEF FilingOf, NoneFiled, Unfiled

\* a player that is kept has its last input when everything is replayed
LEMMA RollbackKept ==
  ASSUME HistoryType, NEW p \in Players, RolledBack(p),
         FilingOf(p), TakenOf(p), KeptOf(p), ~TakenBack(oldest, p)
  PROVE  KeptOf(p)'
  <1> SUFFICES ASSUME NoneFiled(p)' PROVE KeptOf(p)'
    BY DEF KeptOf
  <1>1. /\ oldest \in Slots /\ hist' = hist /\ applied' = filedAt /\ taken' = taken
        /\ Fixed(oldest) /\ pc' = "rewind"
        /\ \A s \in Slots : Dirty(s, p) => s = oldest
        /\ pss[oldest][p] = NoSnap => player'[p] = player[p]
        /\ pss[oldest][p] # NoSnap => player'[p].input = pss[oldest][p].input
    BY DEF RolledBack, NoneFiled, Fixed
  <1>2. player'[p].input = hist[p][MaxSeq]
    <2>1. CASE Dirty(oldest, p)
      <3>1. MaxSeq \in Ticks /\ Tick(oldest) <= MaxSeq
        BY BoundAssumption DEF RolledBack, HistoryType, Ticks
      <3>2. InForce(oldest, p, MaxSeq)
        BY <1>1, <2>1, <3>1 DEF InForce, RolledBack
      <3> QED BY <1>1, <2>1, <3>1, <3>2 DEF FilingOf, Dirty
    <2>2. CASE ~Dirty(oldest, p)
      <3>1. NoneFiled(p)
        BY <1>1, <2>2 DEF NoneFiled
      <3>2. pss[oldest][p] # NoSnap => ~(taken[oldest][p] < applied[p])
        BY <2>2, <3>1 DEF TakenBack, Overtaken, NoneFiled
      <3>3. taken[oldest][p] \in Nat /\ applied[p] \in Nat
        BY <1>1 DEF HistoryType
      <3> QED BY <1>1, <3>1, <3>2, <3>3 DEF KeptOf
    <2> QED BY <2>1, <2>2
  <1>3. ASSUME NEW s \in Slots, Fixed(s)', pss'[s][p] # NoSnap, filedAt[p] <= taken[s][p]
        PROVE  pss'[s][p].input = hist[p][MaxSeq]
    <2>1. /\ pss'[s][p] = pss[s][p] /\ Fixed(s)
          /\ taken[s][p] \in Nat /\ taken[s][p] < Tick(oldest)
      BY <1>3, RollbackTaken
    <2>2. filedAt[p] < Tick(oldest)
      BY <1>3, <2>1 DEF HistoryType, RolledBack
    <2>3. NoneFiled(p) /\ applied[p] = filedAt[p]
      BY <2>2, FiledBefore
    <2> QED BY <1>3, <2>1, <2>3 DEF KeptOf
  <1> QED BY <1>1, <1>2, <1>3 DEF KeptOf

\* a player that is clean is put back to where it was before the oldest change,
\* with an input that leads it on until its next one is due
LEMMA RollbackPlace ==
  ASSUME HistoryType, NEW p \in Players, RolledBack(p),
         FilingOf(p), TakenOf(p), PlaceOf(p), ~Misplaced(oldest, p)
  PROVE  PlaceOf(p)'
  <1> DEFINE T == Tick(oldest)
             o == pss[oldest][p]
             R == course[p]
  <1>1. /\ pc = "idle" /\ pc' = "rewind" /\ seq' = seq /\ Tick(cursor)' = T
        /\ oldest \in Slots /\ Fixed(oldest) /\ TickOf(oldest) = T
        /\ done' = hist /\ applied' = filedAt /\ taken' = taken /\ course' = course
        /\ o = NoSnap => player'[p] = player[p]
        /\ o # NoSnap => player'[p].pos = o.pos - o.vel /\ player'[p].input = o.input
    BY DEF RolledBack, Fixed
  <1>2. /\ T \in Nat /\ T <= seq /\ seq \in Ticks /\ Ticks \subseteq Nat /\ MaxSeq \in Ticks
        /\ \A k \in Ticks : k <= MaxSeq
        /\ applied[p] \in Nat /\ filedAt[p] \in Nat
        /\ \A s \in Slots : taken[s][p] \in Nat
    BY BoundAssumption DEF RolledBack, HistoryType, Ticks
  <1>3. /\ player[p].pos = R[seq] /\ player[p].input = done[p][MaxSeq]
        /\ \A k \in Ticks : k <= seq => Led(p, k)
        /\ \A s \in Slots : Fixed(s) /\ pss[s][p] # NoSnap =>
             /\ pss[s][p].pos - pss[s][p].vel = R[taken[s][p] - 1]
             /\ ~Dirty(s, p) /\ applied[p] <= taken[s][p]
                  => pss[s][p].input = done[p][MaxSeq]
    BY <1>1 DEF PlaceOf
  <1>4. /\ o = NoSnap => R[seq] = R[T - 1] /\ \A k \in T..seq : done[p][k] = done[p][seq]
        /\ o # NoSnap => R[taken[oldest][p] - 1] = R[T - 1]
        /\ o # NoSnap /\ ~Dirty(oldest, p) => applied[p] <= taken[oldest][p]
    <2>1. o = NoSnap => ~Moved(p, T) /\ ~Turned(p, T)
      BY <1>1 DEF Misplaced
    <2>2. o # NoSnap => ~Displaced(oldest, p)
      BY DEF Misplaced
    <2>3. o # NoSnap /\ ~Dirty(oldest, p) => ~(taken[oldest][p] < applied[p])
      BY DEF Misplaced, Overtaken
    <2> QED BY <1>1, <1>2, <2>1, <2>2, <2>3 DEF Moved, Turned, Displaced
  <1>5. \A k \in Ticks : applied[p] <= k => done[p][k] = done[p][MaxSeq]
    BY DEF FilingOf
  <1>6. applied[p] <= seq
    BY DEF FilingOf
  <1> HIDE DEF T, R, o
  <1>7. player'[p].pos = R[T - 1]
    <2>1. CASE o = NoSnap
      BY <1>1, <1>3, <1>4, <2>1
    <2>2. CASE o # NoSnap
      <3>1. o.pos - o.vel = R[taken[oldest][p] - 1]
        BY <1>1, <1>3, <2>2 DEF o
      <3> QED BY <1>1, <1>4, <2>2, <3>1
    <2> QED BY <2>1, <2>2
  <1>8. ASSUME NEW k \in Ticks, T <= k, k <= seq, Unfiled(p, k)'
        PROVE  player'[p].input = hist[p][k]
    <2>1. CASE Dirty(oldest, p)
      <3>1. InForce(oldest, p, k)
        BY <1>8, <2>1, OldestInForce DEF T
      <3>2. hist[p][k] = o.input /\ o # NoSnap
        BY <1>1, <2>1, <3>1 DEF FilingOf, Dirty, o
      <3> QED BY <1>1, <3>2
    <2>2. CASE ~Dirty(oldest, p)
      <3>1. Unfiled(p, k)
        BY <1>8, <2>2 DEF Unfiled, RolledBack
      <3>2. hist[p][k] = done[p][k]
        BY <3>1 DEF FilingOf
      <3>3. CASE o = NoSnap
        <4>1. done[p][k] = done[p][seq] /\ done[p][seq] = done[p][MaxSeq]
          BY <1>2, <1>4, <1>5, <1>6, <1>8, <3>3
        <4> QED BY <1>1, <1>3, <3>2, <3>3, <4>1
      <3>4. CASE o # NoSnap
        <4>1. applied[p] <= taken[oldest][p] /\ taken[oldest][p] <= T
          <5>1. taken[oldest][p] <= T
            BY <1>1, <2>2, <3>4 DEF TakenOf, o, T
          <5> QED BY <1>4, <2>2, <3>4, <5>1
        <4>2. player'[p].input = done[p][MaxSeq]
          BY <1>1, <1>3, <2>2, <3>4, <4>1 DEF o
        <4>3. done[p][k] = done[p][MaxSeq]
          BY <1>1, <1>2, <1>5, <1>8, <4>1
        <4> QED BY <3>2, <4>2, <4>3
      <3> QED BY <3>3, <3>4
    <2> QED BY <2>1, <2>2
  <1>9. ASSUME NEW k \in Ticks, k < T PROVE Led(p, k)'
    <2>1. hist[p][k] = done[p][k]
      <3>1. \A s \in Slots : Dirty(s, p) => k < Tick(s)
        BY <1>2, <1>9 DEF RolledBack, T
      <3> QED BY <3>1 DEF Unfiled, FilingOf
    <2>2. Led(p, k)
      <3>1. k <= seq
        BY <1>2, <1>9
      <3> QED BY <1>3, <3>1
    <2> QED BY <1>1, <2>1, <2>2 DEF Led, Leads
  <1>10. ASSUME NEW s \in Slots, Fixed(s)', pss'[s][p] # NoSnap
         PROVE  /\ pss'[s][p].pos - pss'[s][p].vel = R[taken[s][p] - 1]
                /\ filedAt[p] <= taken[s][p] => pss'[s][p].input = hist[p][MaxSeq]
    <2>1. /\ pss'[s][p] = pss[s][p] /\ ~Dirty(s, p) /\ Fixed(s)
          /\ taken[s][p] \in Nat /\ taken[s][p] < T
      BY <1>10, RollbackTaken DEF T
    <2>2. pss'[s][p].pos - pss'[s][p].vel = R[taken[s][p] - 1]
      BY <1>3, <1>10, <2>1
    <2>3. ASSUME filedAt[p] <= taken[s][p] PROVE pss'[s][p].input = hist[p][MaxSeq]
      <3>1. filedAt[p] < T
        BY <1>2, <2>1, <2>3
      <3>2. applied[p] = filedAt[p] /\ hist[p][MaxSeq] = done[p][MaxSeq]
        BY <3>1, FiledBefore DEF T
      <3> QED BY <1>3, <1>10, <2>1, <2>3, <3>2
    <2> QED BY <2>2, <2>3
  <1> QED BY <1>1, <1>7, <1>8, <1>9, <1>10 DEF PlaceOf, R

\* the rollback as a whole
LEMMA TraceRollback ==
  ASSUME RingKnown, TraceInv, TRollback, NEW p \in Players, player'[p].st = "in"
  PROVE  TraceOf(p)'
  <1>1. player[p].st = "in"
    BY RollbackEffect DEF TRollback, RingKnown, Known
  <1>2. RolledBack(p)
    BY <1>1, RollbackTrace
  <1>3. TraceOf(p) /\ HistoryType
    BY <1>1 DEF TraceInv, InGame
  <1>4. /\ p \in clean' => p \in clean /\ ~Misplaced(oldest, p)
        /\ p \in kept' => p \in kept /\ ~TakenBack(oldest, p)
    BY <1>2 DEF RolledBack
  <1> QED BY <1>2, <1>3, <1>4, RollbackFiling, RollbackTaken, RollbackPlace, RollbackKept
          DEF TraceOf

-------------------------------------------------------------------------------
(* What a turn of the rewind does to the history of a player. *)

\* what a turn of the rewind leaves of a player in game that survives it, slots
\* told as ticks
Rewound(p) ==
  /\ pc = "rewind" /\ seq' = seq /\ cursor \in Slots
  /\ Tick(cursor) \in Nat /\ Tick(cursor) <= seq
  /\ \/ pc' = "rewind" /\ Tick(cursor)' = Tick(cursor) + 1
     \/ pc' = "rotate" /\ Tick(cursor) = seq
  /\ \A s : Tick(s)' = Tick(s)
  /\ \A s \in Slots : Tick(s) \in Int /\ Tick(s) <= seq /\ (Tick(s) = Tick(cursor) => s = cursor)
  /\ \A s \in Slots : Dirty(s, p) => Tick(cursor) <= Tick(s)
  /\ player'[p].input = InputAt(cursor, p)
  /\ hist[p] = done[p] /\ applied[p] = filedAt[p]
  /\ taken'[cursor][p] = Tick(cursor)
  /\ \A s \in Slots : s # cursor => taken'[s][p] = taken[s][p]
  /\ course'[p] = [course[p] EXCEPT ![Tick(cursor)] = player'[p].pos]
  /\ UNCHANGED <<hist, done, filedAt, applied>>

Survived(p) ==
  /\ \A s \in Slots : Dirty(s, p)' <=> Dirty(s, p) /\ s # cursor
  /\ \A s \in Slots : s # cursor => pss'[s][p] = pss[s][p]
  /\ \E d \in Leads(p, InputAt(cursor, p)) : player'[p].pos = Stepped(player[p].pos, d)
  /\ pss'[cursor][p] # NoSnap =>
       /\ pss'[cursor][p].pos - pss'[cursor][p].vel = player[p].pos
       /\ pss'[cursor][p].input = InputAt(cursor, p)

\* ... and a turn of sbsm_rewind leaves just that, and of a player it kills nothing
\* on file
LEMMA RewindTrace ==
  ASSUME RingKnown, TraceInv, NEW busy, NEW killed, NEW spawn \in [killed -> Spawns],
         NEW way \in [InGame -> AnyWay], TRewind(busy, killed, spawn, way),
         NEW p \in Players, player[p].st = "in"
  PROVE  /\ Rewound(p)
         /\ p \notin killed => Survived(p)
         /\ p \in killed => /\ p \notin clean'
                            /\ \A s \in Slots : pss'[s][p] = NoSnap /\ ~Dirty(s, p)'
                            /\ p \in kept' => \A s \in Slots : Dirty(s, p) => s = cursor
         /\ (p \in clean' => p \in clean) /\ (p \in kept' => p \in kept)
  <1>1. /\ sbsm_rewind(busy, killed, spawn, way) /\ TypeOK
        /\ clean' = clean \ killed
        /\ kept' = kept \ {q \in killed : \E s \in Slots : s # cursor /\ Dirty(s, q)}
        /\ taken' = [taken EXCEPT ![cursor] = [q \in Players |-> TickOf(cursor)]]
        /\ course' = Went(TickOf(cursor)) /\ UNCHANGED <<hist, done, filedAt, applied>>
    BY DEF TRewind, RingKnown, Known
  <1>2. /\ pc = "rewind" /\ UNCHANGED <<ringVars, oldest>>
        /\ pc' = IF RewindOn THEN "rewind" ELSE "rotate"
        /\ cursor' = IF RewindOn THEN NextSlot(cursor) ELSE cursor
    BY <1>1 DEF sbsm_rewind
  <1>3. /\ cursor \in Slots /\ Behind(cursor) <= seq /\ Tick(cursor) \in Nat
        /\ Tick(cursor) <= seq /\ TickOf(cursor) = Tick(cursor)
    BY <1>2, CursorTick
  <1>4. /\ presentIdx \in Slots /\ seq \in Nat /\ stamp \in [Slots -> Nat]
        /\ \A s \in Slots : Behind(s) \in 0..(Size - 1)
    BY BehindSlot DEF RingKnown, Known, TypeOK
  <1>5. seq' = seq /\ \A s : Tick(s)' = Tick(s)
    BY <1>2, RingStands DEF Tick, ringVars
  <1>6. \/ pc' = "rewind" /\ Tick(cursor)' = Tick(cursor) + 1
        \/ pc' = "rotate" /\ Tick(cursor) = seq
    <2>1. CASE cursor = presentIdx
      <3>1. Behind(cursor) = 0
        BY <1>3, <1>4, <2>1, BehindSlot
      <3>2. ~RewindOn
        BY <2>1 DEF RewindOn
      <3> QED BY <1>2, <1>4, <3>1, <3>2 DEF Tick
    <2>2. CASE cursor # presentIdx
      <3>1. NextSlot(cursor) \in Slots /\ Behind(NextSlot(cursor)) = Behind(cursor) - 1
        BY <1>3, <1>4, <2>2, BehindSlot
      <3>2. Behind(presentIdx) = 0 /\ 0 <= seq /\ Behind(NextSlot(cursor)) <= seq
            /\ Behind(NextSlot(cursor)) \in 0..(Size - 1)
        BY <1>3, <1>4, <3>1, BehindSlot
      <3>3. ~ (stamp[presentIdx] < stamp[NextSlot(cursor)])
        BY <1>4, <3>1, <3>2, StampOrder DEF RingKnown, Known
      <3>4. RewindOn
        BY <1>4, <2>2, <3>1, <3>3 DEF RewindOn
      <3>5. cursor' = NextSlot(cursor) /\ pc' = "rewind" /\ seq' = seq /\ presentIdx' = presentIdx
        BY <1>2, <3>4 DEF ringVars
      <3>6. Tick(cursor)' = seq - Behind(NextSlot(cursor))
        BY <3>5 DEF Tick, Behind
      <3> QED BY <1>3, <1>4, <3>1, <3>5, <3>6 DEF Tick
    <2> QED BY <2>1, <2>2
  <1>7. \A s \in Slots : Tick(s) \in Int /\ Tick(s) <= seq /\ (Tick(s) = Tick(cursor) => s = cursor)
    BY <1>3, TickSlot
  <1>8. \A s \in Slots : Dirty(s, p) => Tick(cursor) <= Tick(s)
    <2> SUFFICES ASSUME NEW s \in Slots, Dirty(s, p) PROVE Tick(cursor) <= Tick(s)
      OBVIOUS
    <2>1. Behind(s) <= Behind(cursor)
      BY <1>2 DEF RingKnown, FiledInv, PendingCovered
    <2> QED BY <1>3, <1>4, <2>1 DEF Tick
  <1>9. hist = done /\ applied = filedAt
    <2>1. oldest = NoSlot
      BY <1>2 DEF RingKnown, FiledInv, PendingCovered
    <2> QED BY <2>1 DEF TraceInv, AllReplayed
  <1>10. /\ taken'[cursor][p] = Tick(cursor)
         /\ \A s \in Slots : s # cursor => taken'[s][p] = taken[s][p]
         /\ course'[p] = [course[p] EXCEPT ![Tick(cursor)] = player'[p].pos]
    BY <1>1, <1>3 DEF TraceInv, HistoryType, Went
  <1> DEFINE i == InputAt(cursor, p)
             x == Stepped(player[p].pos, way[p])
  <1>ways. way[p] \in Int /\ way[p] \in Leads(p, i)
    BY <1>1, RewindMoves
  <1>11. /\ player'[p].input = i
         /\ p \notin killed => player'[p].pos = x
         /\ pss'[cursor][p] # NoSnap =>
              /\ pss'[cursor][p].pos = x
              /\ pss'[cursor][p].vel = x - player[p].pos
              /\ pss'[cursor][p].input = i
              /\ ~pss'[cursor][p].dirty
         /\ p \in killed => \A s \in Slots : pss'[s][p] = NoSnap
         /\ p \notin killed => \A s \in Slots \ {cursor} : pss'[s][p] = pss[s][p]
    BY <1>1, RewindMoves
  <1>12. player[p].pos \in Int /\ x \in Int
    <2>1. player[p].pos \in Int
      BY <1>1, PlayerFields DEF TypeOK
    <2> QED BY <1>ways, <2>1, SteppedType
  <1> HIDE DEF x, i
  <1>13. pss'[cursor][p] # NoSnap => pss'[cursor][p].pos - pss'[cursor][p].vel = player[p].pos
    BY <1>11, <1>12
  <1>0. \E d \in Leads(p, i) : x = Stepped(player[p].pos, d)
    BY <1>ways DEF x
  <1>14. Rewound(p)
    BY <1>1, <1>2, <1>3, <1>5, <1>6, <1>7, <1>8, <1>9, <1>10, <1>11 DEF Rewound, i
  <1>15. p \notin killed => Survived(p)
    <2> SUFFICES ASSUME p \notin killed PROVE Survived(p)
      OBVIOUS
    <2>1. \A s \in Slots : Dirty(s, p)' <=> Dirty(s, p) /\ s # cursor
      BY <1>11 DEF Dirty
    <2> QED BY <1>11, <1>13, <1>0, <2>1 DEF Survived, i
  <1>16. p \in killed => /\ p \notin clean'
                         /\ \A s \in Slots : pss'[s][p] = NoSnap /\ ~Dirty(s, p)'
                         /\ p \in kept' => \A s \in Slots : Dirty(s, p) => s = cursor
    BY <1>1, <1>11 DEF Dirty
  <1> QED BY <1>1, <1>14, <1>15, <1>16

\* while the rewind passes by, the input it applies last is the last filed
LEMMA RewindInput ==
  ASSUME HistoryType, NEW p \in Players, Rewound(p), FilingOf(p), KeptOf(p),
         \A s \in Slots : Dirty(s, p) => s = cursor
  PROVE  player'[p].input = hist[p][MaxSeq]
  <1>1. player'[p].input = InputAt(cursor, p) /\ cursor \in Slots
    BY DEF Rewound
  <1>2. CASE Dirty(cursor, p)
    <2>1. MaxSeq \in Ticks /\ Tick(cursor) <= MaxSeq
      BY BoundAssumption DEF Rewound, HistoryType, Ticks
    <2>2. InForce(cursor, p, MaxSeq)
      BY <1>2, <2>1 DEF InForce, Rewound
    <2> QED BY <1>1, <1>2, <2>1, <2>2 DEF FilingOf, InputAt
  <1>3. CASE ~Dirty(cursor, p)
    <2>1. NoneFiled(p)
      BY <1>3 DEF NoneFiled
    <2> QED BY <1>1, <1>3, <2>1 DEF KeptOf, InputAt
  <1> QED BY <1>2, <1>3

\* a player killed in the replay has nothing filed any more, and takes nothing
\* with it but its input
LEMMA RewindKilled ==
  ASSUME HistoryType, NEW p \in Players, Rewound(p), FilingOf(p),
         \A s \in Slots : pss'[s][p] = NoSnap /\ ~Dirty(s, p)'
  PROVE  /\ FilingOf(p)' /\ TakenOf(p)'
         /\ KeptOf(p) /\ (\A s \in Slots : Dirty(s, p) => s = cursor) => KeptOf(p)'
  <1>1. /\ seq' = seq /\ hist'[p] = done'[p] /\ hist' = hist /\ done' = done
        /\ filedAt' = filedAt /\ applied' = applied /\ applied'[p] = filedAt'[p]
    BY DEF Rewound
  <1>2. FilingOf(p)'
    <2>1. \A s \in Slots, k \in Ticks : ~InForce(s, p, k)'
      BY DEF InForce
    <2> QED BY <1>1, <2>1 DEF FilingOf
  <1>3. TakenOf(p)'
    BY DEF TakenOf
  <1>4. ASSUME KeptOf(p), \A s \in Slots : Dirty(s, p) => s = cursor
        PROVE  KeptOf(p)'
    <2>1. player'[p].input = hist'[p][MaxSeq]
      BY <1>1, <1>4, RewindInput
    <2> QED BY <2>1 DEF KeptOf
  <1> QED BY <1>2, <1>3, <1>4

\* slots that no replay is to come to are those it is past, with the one it was at
LEMMA RewindFixed ==
  ASSUME NEW p, Rewound(p), NEW s \in Slots, Fixed(s)', s # cursor
  PROVE  Fixed(s) /\ Tick(s) < Tick(cursor)
  <1>1. Tick(s) < Tick(cursor)
    BY DEF Rewound, Fixed
  <1> QED BY <1>1 DEF Fixed

\* what is on file is as it was, without the tick replayed
LEMMA RewindFiling ==
  ASSUME HistoryType, NEW p \in Players, Rewound(p), Survived(p), FilingOf(p)
  PROVE  FilingOf(p)'
  <1>1. /\ seq' = seq /\ hist'[p] = done'[p] /\ hist' = hist /\ done' = done
        /\ filedAt' = filedAt /\ applied' = applied /\ applied'[p] = filedAt'[p]
        /\ \A s : Tick(s)' = Tick(s)
        /\ \A s \in Slots : Dirty(s, p)' <=> Dirty(s, p) /\ s # cursor
        /\ \A s \in Slots : s # cursor => pss'[s][p] = pss[s][p]
    BY DEF Rewound, Survived
  <1>2. ASSUME NEW s \in Slots, NEW k \in Ticks, InForce(s, p, k)'
        PROVE  hist[p][k] = pss'[s][p].input
    <2>1. /\ Dirty(s, p) /\ s # cursor /\ Tick(s) <= k
          /\ \A j \in Slots : Dirty(j, p)' => Tick(j) <= Tick(s) \/ k < Tick(j)
      BY <1>1, <1>2 DEF InForce
    <2>2. Tick(cursor) <= Tick(s)
      BY <2>1 DEF Rewound
    <2>3. InForce(s, p, k)
      BY <1>1, <2>1, <2>2 DEF InForce
    <2> QED BY <1>1, <2>1, <2>3 DEF FilingOf
  <1> QED BY <1>1, <1>2 DEF FilingOf

\* the snapshots past the rewind are of their own tick or an earlier one, the one
\* just made is of its own
LEMMA RewindTaken ==
  ASSUME HistoryType, NEW p \in Players, Rewound(p), Survived(p), TakenOf(p)
  PROVE  TakenOf(p)'
  <1>1. /\ seq' = seq /\ \A s : Tick(s)' = Tick(s)
        /\ \A s \in Slots : Dirty(s, p)' <=> Dirty(s, p) /\ s # cursor
        /\ \A s \in Slots : s # cursor => pss'[s][p] = pss[s][p] /\ taken'[s][p] = taken[s][p]
        /\ taken'[cursor][p] = Tick(cursor) /\ Tick(cursor) <= seq /\ Tick(cursor) \in Nat
    BY DEF Rewound, Survived
  <1>2. ASSUME NEW s \in Slots, pss'[s][p] # NoSnap
        PROVE  taken'[s][p] <= seq /\ (Fixed(s)' /\ ~Dirty(s, p)' => taken'[s][p] <= Tick(s))
    <2>1. CASE s = cursor
      BY <1>1, <2>1
    <2>2. CASE s # cursor
      <3>1. Fixed(s)' => Fixed(s)
        BY <2>2, RewindFixed
      <3> QED BY <1>1, <1>2, <2>2, <3>1 DEF TakenOf
    <2> QED BY <2>1, <2>2
  <1> QED BY <1>1, <1>2 DEF TakenOf

\* a kept player has its last input again once the replay is past all it filed
LEMMA RewindKept ==
  ASSUME HistoryType, NEW p \in Players, Rewound(p), Survived(p),
         FilingOf(p), TakenOf(p), KeptOf(p)
  PROVE  KeptOf(p)'
  <1> SUFFICES ASSUME NoneFiled(p)' PROVE KeptOf(p)'
    BY DEF KeptOf
  <1>1. /\ \A s \in Slots : Dirty(s, p) => s = cursor
        /\ \A s \in Slots : s # cursor => pss'[s][p] = pss[s][p] /\ taken'[s][p] = taken[s][p]
        /\ pss'[cursor][p] # NoSnap => pss'[cursor][p].input = InputAt(cursor, p)
        /\ player'[p].input = InputAt(cursor, p)
        /\ hist' = hist /\ applied' = applied /\ applied[p] = filedAt[p]
    BY DEF Rewound, Survived, NoneFiled
  <1>2. InputAt(cursor, p) = hist[p][MaxSeq]
    BY <1>1, RewindInput
  <1>3. ASSUME NEW s \in Slots, Fixed(s)', pss'[s][p] # NoSnap, applied[p] <= taken'[s][p],
               s # cursor
        PROVE  pss'[s][p].input = hist[p][MaxSeq]
    <2>1. Fixed(s) /\ Tick(s) < Tick(cursor) /\ pss'[s][p] = pss[s][p]
          /\ taken'[s][p] = taken[s][p] /\ ~Dirty(s, p)
      BY <1>1, <1>3, RewindFixed
    <2>2. taken[s][p] <= Tick(s)
      BY <1>3, <2>1 DEF TakenOf
    <2>3. ~Dirty(cursor, p)
      <3>1. Dirty(cursor, p) => Tick(cursor) <= filedAt[p]
        BY DEF FilingOf, Rewound
      <3>2. filedAt[p] <= Tick(s) /\ filedAt[p] \in Nat /\ Tick(s) \in Int /\ Tick(cursor) \in Nat
        BY <1>1, <1>3, <2>1, <2>2 DEF HistoryType, Rewound
      <3> QED BY <2>1, <3>1, <3>2
    <2>4. NoneFiled(p)
      BY <1>1, <2>3 DEF NoneFiled
    <2> QED BY <1>3, <2>1, <2>4 DEF KeptOf
  <1> QED BY <1>1, <1>2, <1>3 DEF KeptOf

\* a clean player is where its inputs led in the tick replayed, with an input that
\* leads it on until its next one is due
LEMMA RewindPlace ==
  ASSUME HistoryType, NEW p \in Players, Rewound(p), Survived(p),
         FilingOf(p), TakenOf(p), PlaceOf(p), KeptOf(p)
  PROVE  PlaceOf(p)'
  <1> DEFINE C == Tick(cursor)
             R == course[p]
             W == course'[p]
             i == InputAt(cursor, p)
  <1>1. /\ pc = "rewind" /\ seq' = seq /\ cursor \in Slots
        /\ \/ pc' = "rewind" /\ Tick(cursor)' = C + 1
           \/ pc' = "rotate" /\ C = seq
        /\ player'[p].input = i
        /\ \E d \in Leads(p, i) : player'[p].pos = Stepped(player[p].pos, d)
        /\ hist[p] = done[p] /\ applied[p] = filedAt[p]
        /\ done' = done /\ applied' = applied
    BY DEF Rewound, Survived
  <1>2. /\ C \in Nat /\ C <= seq /\ seq \in Ticks /\ Ticks \subseteq Nat /\ MaxSeq \in Ticks
        /\ C \in Ticks /\ \A k \in Ticks : k <= MaxSeq
        /\ applied[p] \in Nat /\ filedAt[p] \in Nat
        /\ \A s \in Slots : Tick(s) \in Int /\ taken[s][p] \in Nat
    BY BoundAssumption DEF Rewound, HistoryType, Ticks
  <1>3. /\ W[C] = player'[p].pos
        /\ \A k \in Int : k < C /\ -1 <= k => W[k] = R[k]
    BY <1>2, BoundAssumption DEF Rewound, HistoryType, Ticks
  <1>4. /\ player[p].pos = R[C - 1]
        /\ \A k \in Ticks : C <= k /\ k <= seq /\ Unfiled(p, k) => player[p].input = done[p][k]
        /\ \A k \in Ticks : k <= seq /\ k < C => Led(p, k)
        /\ \A s \in Slots : Fixed(s) /\ pss[s][p] # NoSnap =>
             /\ pss[s][p].pos - pss[s][p].vel = R[taken[s][p] - 1]
             /\ ~Dirty(s, p) /\ applied[p] <= taken[s][p] => pss[s][p].input = done[p][MaxSeq]
    BY <1>1 DEF PlaceOf
  <1>5. /\ \A s \in Slots : Dirty(s, p)' <=> Dirty(s, p) /\ s # cursor
        /\ \A s \in Slots : s # cursor => pss'[s][p] = pss[s][p] /\ taken'[s][p] = taken[s][p]
        /\ taken'[cursor][p] = C
        /\ pss'[cursor][p] # NoSnap =>
             /\ pss'[cursor][p].pos - pss'[cursor][p].vel = player[p].pos
             /\ pss'[cursor][p].input = i
        /\ \A s \in Slots : Dirty(s, p) => C <= Tick(s)
        /\ \A s \in Slots : Tick(s) = C => s = cursor
        /\ \A s : Tick(s)' = Tick(s)
    BY DEF Rewound, Survived
  <1> HIDE DEF C, R, W, i
  <1>6. ASSUME NEW k \in Ticks, C <= k, k <= seq,
               \A s \in Slots : Dirty(s, p) /\ s # cursor => k < Tick(s)
        PROVE  i = done[p][k]
    <2>1. CASE Dirty(cursor, p)
      <3>1. \A s \in Slots : Dirty(s, p) => Tick(s) <= C \/ k < Tick(s)
        BY <1>2, <1>6 DEF C
      <3>2. InForce(cursor, p, k)
        BY <1>6, <2>1, <3>1 DEF InForce, C
      <3>3. hist[p][k] = i
        BY <1>1, <2>1, <3>2 DEF FilingOf, i, InputAt
      <3> QED BY <1>1, <3>3
    <2>2. CASE ~Dirty(cursor, p)
      <3>1. Unfiled(p, k)
        BY <1>6, <2>2 DEF Unfiled
      <3> QED BY <1>4, <1>6, <2>2, <3>1 DEF i, InputAt
    <2> QED BY <2>1, <2>2
  <1>7. ASSUME NEW k \in Ticks, k <= C PROVE Led(p, k)'
    <2>1. CASE k = C
      <3>1. \A s \in Slots : Dirty(s, p) /\ s # cursor => C < Tick(s)
        BY <1>2, <1>5
      <3>2. i = done[p][C]
        BY <1>2, <1>6, <3>1
      <3>3. W[C - 1] = player[p].pos
        BY <1>2, <1>3, <1>4
      <3>4. \E d \in Leads(p, done[p][C]) : W[C] = Stepped(W[C - 1], d)
        BY <1>1, <1>3, <3>2, <3>3
      <3> QED BY <1>1, <2>1, <3>4 DEF Led, Leads, W
    <2>2. CASE k < C
      <3>1. W[k] = R[k] /\ W[k - 1] = R[k - 1] /\ Led(p, k)
        BY <1>2, <1>3, <1>4, <2>2
      <3> QED BY <1>1, <3>1 DEF Led, Leads, W, R
    <2> QED BY <1>2, <1>7, <2>1, <2>2
  <1>8. pc' = "rewind" =>
          /\ player'[p].pos = W[Tick(cursor)' - 1]
          /\ \A k \in Ticks : Tick(cursor)' <= k /\ k <= seq /\ Unfiled(p, k)'
               => player'[p].input = done[p][k]
    <2> SUFFICES ASSUME pc' = "rewind"
                 PROVE  /\ player'[p].pos = W[Tick(cursor)' - 1]
                        /\ \A k \in Ticks : Tick(cursor)' <= k /\ k <= seq /\ Unfiled(p, k)'
                             => player'[p].input = done[p][k]
      OBVIOUS
    <2>1. Tick(cursor)' = C + 1 /\ (C + 1) - 1 = C
      BY <1>1, <1>2
    <2>2. ASSUME NEW k \in Ticks, C + 1 <= k, k <= seq, Unfiled(p, k)'
          PROVE  player'[p].input = done[p][k]
      <3>1. \A s \in Slots : Dirty(s, p) /\ s # cursor => k < Tick(s)
        BY <1>5, <2>2 DEF Unfiled
      <3>2. C <= k
        BY <1>2, <2>2
      <3> QED BY <1>1, <1>6, <2>2, <3>1, <3>2
    <2> QED BY <1>3, <2>1, <2>2
  <1>9. pc' # "rewind" => player'[p].pos = W[seq] /\ player'[p].input = done[p][MaxSeq]
    <2> SUFFICES ASSUME pc' # "rewind"
                 PROVE  player'[p].pos = W[seq] /\ player'[p].input = done[p][MaxSeq]
      OBVIOUS
    <2>1. C = seq
      BY <1>1
    <2>2. \A s \in Slots : Dirty(s, p) => s = cursor
      <3>1. \A s \in Slots : Tick(s) <= seq
        BY DEF Rewound
      <3> QED BY <1>2, <1>5, <2>1, <3>1
    <2>3. player'[p].input = hist[p][MaxSeq]
      BY <2>2, RewindInput
    <2> QED BY <1>1, <1>3, <2>1, <2>3
  <1>10. ASSUME NEW s \in Slots, Fixed(s)', pss'[s][p] # NoSnap
         PROVE  /\ pss'[s][p].pos - pss'[s][p].vel = W[taken'[s][p] - 1]
                /\ ~Dirty(s, p)' /\ applied[p] <= taken'[s][p]
                     => pss'[s][p].input = done[p][MaxSeq]
    <2>1. CASE s # cursor
      <3>1. Fixed(s) /\ pss'[s][p] = pss[s][p] /\ taken'[s][p] = taken[s][p]
            /\ (Dirty(s, p)' <=> Dirty(s, p)) /\ Tick(s) < C
        BY <1>5, <1>10, <2>1, RewindFixed DEF C
      <3>2. taken[s][p] <= Tick(s)
        BY <1>2, <1>5, <1>10, <2>1, <3>1 DEF TakenOf
      <3>3. W[taken[s][p] - 1] = R[taken[s][p] - 1]
        BY <1>2, <1>3, <3>1, <3>2
      <3> QED BY <1>4, <1>10, <3>1, <3>3
    <2>2. CASE s = cursor
      <3>1. pss'[s][p].pos - pss'[s][p].vel = W[taken'[s][p] - 1]
        BY <1>2, <1>3, <1>4, <1>5, <1>10, <2>2
      <3>2. ASSUME applied[p] <= C PROVE i = done[p][MaxSeq]
        <4>1. \A j \in Slots : Dirty(j, p) => j = cursor
          <5>1. \A j \in Slots : Dirty(j, p) => Tick(j) <= filedAt[p]
            BY DEF FilingOf
          <5> QED BY <1>1, <1>2, <1>5, <3>2, <5>1
        <4>2. player'[p].input = hist[p][MaxSeq]
          BY <4>1, RewindInput
        <4> QED BY <1>1, <4>2
      <3> QED BY <1>5, <1>10, <2>2, <3>1, <3>2
    <2> QED BY <2>1, <2>2
  <1>11. ASSUME NEW k \in Ticks, k <= seq, pc' = "rewind" => k < Tick(cursor)' PROVE k <= C
    BY <1>1, <1>2, <1>11
  <1>12. pc' # "idle"
    BY <1>1
  <1> QED BY <1>1, <1>7, <1>8, <1>9, <1>10, <1>11, <1>12 DEF PlaceOf, W

\* the turn as a whole
LEMMA TraceRewind ==
  ASSUME RingKnown, TraceInv, NEW busy, NEW killed, NEW spawn \in [killed -> Spawns],
         NEW way \in [InGame -> AnyWay], TRewind(busy, killed, spawn, way),
         NEW p \in Players, player'[p].st = "in"
  PROVE  TraceOf(p)'
  <1>1. player[p].st = "in"
    BY RewindEffect DEF TRewind, RingKnown, Known
  <1>2. TraceOf(p) /\ HistoryType
    BY <1>1 DEF TraceInv, InGame
  <1>3. p \in clean => p \in kept
    BY <1>2 DEF HistoryType
  <1>4. /\ Rewound(p)
        /\ p \notin killed => Survived(p)
        /\ p \in killed => /\ p \notin clean'
                           /\ \A s \in Slots : pss'[s][p] = NoSnap /\ ~Dirty(s, p)'
                           /\ p \in kept' => \A s \in Slots : Dirty(s, p) => s = cursor
        /\ (p \in clean' => p \in clean) /\ (p \in kept' => p \in kept)
    BY <1>1, RewindTrace
  <1>5. CASE p \in killed
    <2>1. /\ FilingOf(p)' /\ TakenOf(p)'
          /\ KeptOf(p) /\ (\A s \in Slots : Dirty(s, p) => s = cursor) => KeptOf(p)'
      <3>1. FilingOf(p) /\ \A s \in Slots : pss'[s][p] = NoSnap /\ ~Dirty(s, p)'
        BY <1>2, <1>4, <1>5 DEF TraceOf
      <3> QED BY <1>2, <1>4, <3>1, RewindKilled
    <2> QED BY <1>2, <1>4, <1>5, <2>1 DEF TraceOf
  <1>6. CASE p \notin killed
    <2>1. FilingOf(p)' /\ TakenOf(p)'
      BY <1>2, <1>4, <1>6, RewindFiling, RewindTaken DEF TraceOf
    <2>2. p \in kept' => KeptOf(p)'
      BY <1>2, <1>4, <1>6, RewindKept DEF TraceOf
    <2>3. p \in clean' => PlaceOf(p)'
      BY <1>2, <1>3, <1>4, <1>6, RewindPlace DEF TraceOf
    <2> QED BY <2>1, <2>2, <2>3 DEF TraceOf
  <1> QED BY <1>5, <1>6

-------------------------------------------------------------------------------
(* What the new tick does to the history of a player. *)

\* the slot the snapshot of p in slot s comes from when the ring turns
Source(s, p) == IF s = NewBase /\ pss[s][p] = NoSnap THEN baseIdx ELSE s

\* what the new tick leaves of a player in game, slots told as ticks
Ticked(p) ==
  /\ pc # "rewind" /\ pc' = "idle" /\ seq' = seq + 1 /\ seq < MaxSeq
  /\ NewPresent \in Slots
  /\ \A s \in Slots : Tick(s)' = IF s = NewPresent THEN seq + 1 ELSE Tick(s)
  /\ \A s \in Slots : ~Dirty(s, p) /\ ~Dirty(s, p)'
  /\ player'[p].input = player[p].input
  /\ pss'[NewPresent][p] # NoSnap =>
       /\ pss'[NewPresent][p].pos - pss'[NewPresent][p].vel = player[p].pos
       /\ pss'[NewPresent][p].input = player[p].input
  /\ \A s \in Slots : s # NewPresent /\ pss'[s][p] # NoSnap =>
       /\ Source(s, p) \in Slots /\ pss[Source(s, p)][p] # NoSnap
       /\ pss'[s][p] = pss[Source(s, p)][p] /\ taken'[s][p] = taken[Source(s, p)][p]
       /\ Tick(Source(s, p)) <= Tick(s)
  /\ taken'[NewPresent][p] = seq + 1
  /\ hist[p] = done[p] /\ applied[p] = filedAt[p]
  /\ course'[p] = [course[p] EXCEPT ![seq + 1] = player'[p].pos]
  /\ UNCHANGED <<hist, done, filedAt, applied, kept>>
  /\ p \in clean' =>
       /\ p \in clean /\ player'[p].pos - player'[p].vel = player[p].pos
       /\ \E d \in Leads(p, player[p].input) : player'[p].pos = Stepped(player[p].pos, d)

\* ... and coregame_update leaves just that
LEMMA UpdateTrace ==
  ASSUME RingKnown, TraceInv, NEW busy \in SUBSET (Gunners \cap InGame), NEW killed,
         NEW spawn \in [killed -> Spawns],
         NEW way \in [InGame -> AnyWay], TUpdate(busy, killed, spawn, way),
         NEW p \in Players, player[p].st = "in"
  PROVE  Ticked(p)
  <1>1. /\ coregame_update(busy, killed, spawn, way) /\ TypeOK /\ RingInv /\ sbsm_rotate
        /\ clean' = clean \ killed /\ course' = Went(seq + 1)
        /\ UNCHANGED <<hist, done, filedAt, applied, kept>>
    BY DEF TUpdate, RingKnown, Known, coregame_update
  <1>2. /\ pc # "rewind" /\ pc' = "idle" /\ seq' = seq + 1 /\ seq < MaxSeq /\ oldest = NoSlot
    BY <1>1 DEF coregame_update, sbsm_rotate, RingKnown, FiledInv, PendingCovered
  <1>3. /\ NewPresent \in Slots /\ NewBase \in Slots /\ baseIdx \in Slots /\ seq \in Nat
        /\ presentIdx \in Slots
        /\ \A s \in Slots : Behind(s)' = IF s = NewPresent THEN 0 ELSE Behind(s) + 1
        /\ \A s \in Slots : Behind(s) \in 0..(Size - 1)
        /\ Behind(NewPresent) = Size - 1
    BY <1>1, RotateBehind, BehindSlot DEF TypeOK
  <1>4. ASSUME NEW s \in Slots
        PROVE  Tick(s)' = IF s = NewPresent THEN seq + 1 ELSE Tick(s)
    <2>1. Behind(s) \in Int /\ seq \in Int
      BY <1>3
    <2>2. Tick(s)' = (seq + 1) - (IF s = NewPresent THEN 0 ELSE Behind(s) + 1)
      BY <1>2, <1>3 DEF Tick
    <2> QED BY <2>1, <2>2 DEF Tick
  <1>5. \A s \in Slots : ~Dirty(s, p) /\ ~Dirty(s, p)'
    <2>1. \A s \in Slots, q \in Players : ~Dirty(s, q)
      BY <1>1, RotateWhenClean DEF RingKnown, FiledInv
    <2>2. \A s \in Slots : Dirty(s, p)' => \E k \in Slots : Dirty(k, p)
      BY <1>1, UpdateEffect
    <2> QED BY <2>1, <2>2
  <1> DEFINE i == player[p].input
             x == Stepped(player[p].pos, way[p])
  <1>ways. way[p] \in Int /\ way[p] \in Leads(p, i)
    BY <1>1, UpdateMoves
  <1>6. /\ player'[p].input = i
        /\ p \notin killed => /\ player'[p].pos = x
                              /\ player'[p].vel = x - player[p].pos
        /\ pss'[NewPresent][p] # NoSnap =>
             /\ pss'[NewPresent][p].pos = x /\ pss'[NewPresent][p].vel = x - player[p].pos
             /\ pss'[NewPresent][p].input = i
        /\ \A s \in Slots \ {NewPresent} : pss'[s][p] # NoSnap =>
             pss'[s][p] = IF s = NewBase /\ pss[s][p] = NoSnap THEN pss[baseIdx][p]
                          ELSE pss[s][p]
    <2>1. /\ player'[p].input = i
          /\ p \notin killed => player'[p].pos = x /\ player'[p].vel = x - player[p].pos
      BY <1>1, UpdateMoves
    <2>2. pss'[NewPresent][p] # NoSnap =>
            /\ pss'[NewPresent][p].pos = x /\ pss'[NewPresent][p].vel = x - player[p].pos
            /\ pss'[NewPresent][p].input = i
      BY <1>1, UpdateMoves
    <2>3. \A s \in Slots \ {NewPresent} : pss'[s][p] # NoSnap =>
            pss'[s][p] = IF s = NewBase /\ pss[s][p] = NoSnap THEN pss[baseIdx][p]
                         ELSE pss[s][p]
      BY <1>1, UpdateMoves
    <2> QED BY <2>1, <2>2, <2>3
  <1>7. player[p].pos \in Int /\ x \in Int
    <2>1. player[p].pos \in Int
      BY <1>1, PlayerFields DEF TypeOK
    <2> QED BY <1>ways, <2>1, SteppedType
  <1>0. \E d \in Leads(p, i) : x = Stepped(player[p].pos, d)
    BY <1>ways
  <1> HIDE DEF x
  <1>8. /\ pss'[NewPresent][p] # NoSnap =>
             pss'[NewPresent][p].pos - pss'[NewPresent][p].vel = player[p].pos
        /\ p \notin killed => player'[p].pos - player'[p].vel = player[p].pos
    BY <1>6, <1>7
  <1>9. /\ taken'[NewPresent][p] = seq + 1
        /\ \A s \in Slots : s # NewPresent => taken'[s][p] = taken[Source(s, p)][p]
    <2>1. taken' =
            [s \in Slots |->
               IF s = NewPresent THEN [q \in Players |-> seq + 1]
               ELSE IF s = NewBase
               THEN [q \in Players |->
                       IF pss[s][q] = NoSnap THEN taken[baseIdx][q] ELSE taken[s][q]]
               ELSE taken[s]]
      BY DEF TUpdate
    <2> QED BY <1>3, <2>1 DEF Source
  <1>10. ASSUME NEW s \in Slots, s # NewPresent, pss'[s][p] # NoSnap
         PROVE  /\ Source(s, p) \in Slots /\ pss[Source(s, p)][p] # NoSnap
                /\ pss'[s][p] = pss[Source(s, p)][p]
                /\ Tick(Source(s, p)) <= Tick(s)
    <2>1. Source(s, p) \in Slots /\ pss'[s][p] = pss[Source(s, p)][p]
      BY <1>3, <1>6, <1>10 DEF Source
    <2>2. Tick(Source(s, p)) <= Tick(s)
      <3>1. CASE Source(s, p) = s
        BY <1>3, <3>1 DEF Tick
      <3>2. CASE Source(s, p) # s
        <4>1. Source(s, p) = baseIdx /\ s = NewBase /\ NewBase # baseIdx
          BY <3>2 DEF Source
        <4>2. NewPresent = baseIdx
          BY <4>1 DEF NewBase
        <4> QED BY <1>3, <4>1, <4>2 DEF Tick
      <3> QED BY <3>1, <3>2
    <2> QED BY <1>10, <2>1, <2>2
  <1>11. hist = done /\ applied = filedAt
    BY <1>2 DEF TraceInv, AllReplayed
  <1>12. p \in clean' =>
           /\ p \in clean /\ player'[p].pos - player'[p].vel = player[p].pos
           /\ \E d \in Leads(p, i) : player'[p].pos = Stepped(player[p].pos, d)
    BY <1>1, <1>6, <1>8, <1>0
  <1>13. course'[p] = [course[p] EXCEPT ![seq + 1] = player'[p].pos]
    BY <1>1 DEF Went
  <1> QED BY <1>1, <1>2, <1>3, <1>4, <1>5, <1>6, <1>8, <1>9, <1>10, <1>11, <1>12, <1>13
          DEF Ticked

\* nothing is on file, and the new tick files nothing
LEMMA TickFiling ==
  ASSUME HistoryType, NEW p \in Players, Ticked(p), FilingOf(p)
  PROVE  FilingOf(p)'
  <1>1. /\ seq' = seq + 1 /\ seq \in Nat /\ filedAt[p] \in Nat /\ applied[p] \in Nat
        /\ hist' = hist /\ done' = done /\ hist[p] = done[p]
        /\ filedAt' = filedAt /\ applied' = applied /\ applied[p] = filedAt[p]
        /\ \A s \in Slots : ~Dirty(s, p)'
    BY BoundAssumption DEF Ticked, HistoryType, Ticks
  <1>2. \A s \in Slots, k \in Ticks : ~InForce(s, p, k)'
    BY <1>1 DEF InForce
  <1>3. filedAt'[p] <= seq' /\ applied'[p] <= seq'
    BY <1>1 DEF FilingOf
  <1> QED BY <1>1, <1>2, <1>3 DEF FilingOf

\* a base that inherits a snapshot inherits its tick, which is not after its own
LEMMA TickTaken ==
  ASSUME RingKnown, HistoryType, NEW p \in Players, Ticked(p), TakenOf(p)
  PROVE  TakenOf(p)'
  <1> SUFFICES ASSUME NEW s \in Slots, pss'[s][p] # NoSnap
               PROVE  taken'[s][p] <= seq' /\ taken'[s][p] <= Tick(s)'
    BY DEF TakenOf
  <1>1. seq' = seq + 1 /\ seq \in Nat
    BY BoundAssumption DEF Ticked, HistoryType, Ticks
  <1>2. CASE s = NewPresent
    BY <1>1, <1>2 DEF Ticked
  <1>3. CASE s # NewPresent
    <2>1. /\ Source(s, p) \in Slots /\ pss[Source(s, p)][p] # NoSnap
          /\ taken'[s][p] = taken[Source(s, p)][p]
          /\ Tick(Source(s, p)) <= Tick(s) /\ Tick(s)' = Tick(s)
          /\ ~Dirty(Source(s, p), p) /\ Fixed(Source(s, p))
      BY <1>3 DEF Ticked, Fixed
    <2>2. taken[Source(s, p)][p] <= seq /\ taken[Source(s, p)][p] <= Tick(Source(s, p))
      BY <2>1 DEF TakenOf
    <2>3. taken[Source(s, p)][p] \in Nat
      BY <2>1 DEF HistoryType
    <2>4. Tick(Source(s, p)) \in Int /\ Tick(s) \in Int
      BY TickSlot, <2>1
    <2> QED BY <1>1, <2>1, <2>2, <2>3, <2>4
  <1> QED BY <1>2, <1>3

\* a clean player goes a way its last input leads it
LEMMA TickPlace ==
  ASSUME HistoryType, NEW p \in Players, Ticked(p), FilingOf(p), TakenOf(p), PlaceOf(p),
         p \in clean'
  PROVE  PlaceOf(p)'
  <1> DEFINE R == course[p]
             W == course'[p]
  <1>1. /\ pc # "rewind" /\ pc' = "idle" /\ seq' = seq + 1 /\ seq < MaxSeq
        /\ player'[p].input = player[p].input
        /\ \E d \in Leads(p, player[p].input) : player'[p].pos = Stepped(player[p].pos, d)
        /\ player'[p].pos - player'[p].vel = player[p].pos
        /\ done' = done /\ applied' = applied
    BY DEF Ticked
  <1>2. /\ player[p].pos = R[seq] /\ player[p].input = done[p][MaxSeq]
        /\ \A k \in Ticks : k <= seq => Led(p, k)
        /\ \A s \in Slots : Fixed(s) /\ pss[s][p] # NoSnap =>
             /\ pss[s][p].pos - pss[s][p].vel = R[taken[s][p] - 1]
             /\ ~Dirty(s, p) /\ applied[p] <= taken[s][p] => pss[s][p].input = done[p][MaxSeq]
    BY <1>1 DEF PlaceOf
  <1>3. /\ seq \in Nat /\ seq + 1 \in Ticks /\ (seq + 1) - 1 = seq /\ applied[p] <= seq + 1
        /\ Ticks \subseteq Nat /\ seq + 1 \in -1..MaxSeq
    <2>1. seq \in 0..MaxSeq /\ applied[p] \in Nat /\ applied[p] <= seq
      BY DEF HistoryType, Ticks, FilingOf
    <2> QED BY <1>1, <2>1, BoundAssumption DEF Ticks
  <1>4. W[seq + 1] = player'[p].pos /\ \A k \in -1..seq : W[k] = R[k]
    <2>1. \A k \in -1..seq : k \in -1..MaxSeq /\ k # seq + 1
      BY <1>1, <1>3, BoundAssumption
    <2>2. R \in [-1..MaxSeq -> Int] /\ W = [R EXCEPT ![seq + 1] = player'[p].pos]
      BY DEF Ticked, HistoryType
    <2> HIDE DEF R, W
    <2> QED BY <1>3, <2>1, <2>2
  <1> HIDE DEF R, W
  <1>5. ASSUME NEW k \in Ticks, k <= seq + 1 PROVE Led(p, k)'
    <2>1. CASE k = seq + 1
      <3>1. done[p][k] = done[p][MaxSeq]
        BY <1>3, <2>1 DEF FilingOf
      <3>2. W[k - 1] = player[p].pos
        BY <1>2, <1>3, <1>4, <2>1
      <3>3. \E d \in Leads(p, done[p][k]) : W[k] = Stepped(W[k - 1], d)
        BY <1>1, <1>2, <1>4, <2>1, <3>1, <3>2
      <3> QED BY <1>1, <3>3 DEF Led, Leads, W
    <2>2. CASE k <= seq
      <3>1. W[k] = R[k] /\ W[k - 1] = R[k - 1] /\ Led(p, k)
        BY <1>2, <1>3, <1>4, <2>2
      <3> QED BY <1>1, <3>1 DEF Led, Leads, W, R
    <2> QED BY <1>3, <1>5, <2>1, <2>2
  <1>6. /\ player'[p].pos = W[seq + 1] /\ player'[p].input = done[p][MaxSeq]
        /\ player'[p].pos - player'[p].vel = W[(seq + 1) - 1]
    BY <1>1, <1>2, <1>3, <1>4
  <1>7. ASSUME NEW s \in Slots, pss'[s][p] # NoSnap
        PROVE  /\ pss'[s][p].pos - pss'[s][p].vel = W[taken'[s][p] - 1]
               /\ applied[p] <= taken'[s][p] => pss'[s][p].input = done[p][MaxSeq]
    <2>1. CASE s = NewPresent
      <3>1. /\ pss'[s][p].pos - pss'[s][p].vel = player[p].pos
            /\ pss'[s][p].input = player[p].input /\ taken'[s][p] = seq + 1
        BY <1>7, <2>1 DEF Ticked
      <3> QED BY <1>2, <1>3, <1>4, <3>1
    <2>2. CASE s # NewPresent
      <3>1. /\ Source(s, p) \in Slots /\ pss[Source(s, p)][p] # NoSnap
            /\ pss'[s][p] = pss[Source(s, p)][p] /\ taken'[s][p] = taken[Source(s, p)][p]
            /\ ~Dirty(Source(s, p), p) /\ Fixed(Source(s, p))
        BY <1>7, <2>2 DEF Ticked, Fixed
      <3>2. taken[Source(s, p)][p] \in Nat /\ taken[Source(s, p)][p] <= seq
        BY <3>1 DEF HistoryType, TakenOf
      <3>3. W[taken[Source(s, p)][p] - 1] = R[taken[Source(s, p)][p] - 1]
        BY <1>3, <1>4, <3>2
      <3> QED BY <1>2, <3>1, <3>3
    <2> QED BY <2>1, <2>2
  <1> QED BY <1>1, <1>5, <1>6, <1>7 DEF PlaceOf, W

\* a kept player keeps its last input, in the new snapshot too
LEMMA TickKept ==
  ASSUME HistoryType, NEW p \in Players, Ticked(p), KeptOf(p)
  PROVE  KeptOf(p)'
  <1>1. /\ player'[p].input = player[p].input /\ hist' = hist /\ applied' = applied
        /\ NoneFiled(p)
    BY DEF Ticked, NoneFiled
  <1>2. player[p].input = hist[p][MaxSeq]
    BY <1>1 DEF KeptOf
  <1>3. ASSUME NEW s \in Slots, pss'[s][p] # NoSnap, applied[p] <= taken'[s][p]
        PROVE  pss'[s][p].input = hist[p][MaxSeq]
    <2>1. CASE s = NewPresent
      BY <1>2, <1>3, <2>1 DEF Ticked
    <2>2. CASE s # NewPresent
      <3>1. /\ Source(s, p) \in Slots /\ pss[Source(s, p)][p] # NoSnap
            /\ pss'[s][p] = pss[Source(s, p)][p] /\ taken'[s][p] = taken[Source(s, p)][p]
            /\ Fixed(Source(s, p))
        BY <1>3, <2>2 DEF Ticked, Fixed
      <3> QED BY <1>1, <1>3, <3>1 DEF KeptOf
    <2> QED BY <2>1, <2>2
  <1> QED BY <1>1, <1>2, <1>3 DEF KeptOf

\* the new tick as a whole
LEMMA TraceUpdate ==
  ASSUME RingKnown, TraceInv, NEW busy \in SUBSET (Gunners \cap InGame), NEW killed,
         NEW spawn \in [killed -> Spawns],
         NEW way \in [InGame -> AnyWay], TUpdate(busy, killed, spawn, way),
         NEW p \in Players, player'[p].st = "in"
  PROVE  TraceOf(p)'
  <1>1. player[p].st = "in"
    BY UpdateEffect DEF TUpdate, RingKnown, Known
  <1>2. TraceOf(p) /\ HistoryType
    BY <1>1 DEF TraceInv, InGame
  <1>3. Ticked(p)
    BY <1>1, UpdateTrace
  <1>4. kept' = kept /\ (p \in clean' => p \in clean)
    BY <1>3 DEF Ticked
  <1> QED BY <1>2, <1>3, <1>4, TickFiling, TickTaken, TickPlace, TickKept DEF TraceOf

-------------------------------------------------------------------------------
(* The history as a whole. *)

\* every step keeps the history in order
LEMMA TraceStep ==
  ASSUME RingKnown, TraceInv, [TNext]_tvars
  PROVE  TraceInv'
  <1>1. HistoryType' /\ AllReplayed'
    BY HistoryStep, ReplayedStep DEF TraceInv
  <1>2. \A p \in Players : player'[p].st = "absent" => Blank(p)'
    BY BlankStep DEF TraceInv
  <1>3. ASSUME NEW p \in Players, player'[p].st = "in" PROVE TraceOf(p)'
    <2>1. CASE UNCHANGED tvars
      <3>1. /\ UNCHANGED <<ringVars, pc, cursor>> /\ UNCHANGED history
            /\ player' = player /\ pss' = pss
        BY <2>1 DEF tvars, vars, ringVars, history
      <3>2. TraceOf(p)
        BY <1>3, <3>1 DEF TraceInv, InGame
      <3> QED BY <3>1, <3>2, TraceStands DEF history
    <2>2. \A t \in 0..(time + Interval) : t \in Int
      OBVIOUS
    <2> QED BY <1>3, <2>1, <2>2, TraceJoin, TraceLeave, TraceRefuse, TraceFile, TraceMoveBot,
               TraceRollback, TraceRewind, TraceUpdate
            DEF TNext
  <1>4. \A p \in InGame' : p \in Players /\ player'[p].st = "in"
    BY DEF InGame
  <1> QED BY <1>1, <1>2, <1>3, <1>4 DEF TraceInv

\* what a settled server shows is what the history has
LEMMA TraceShows ==
  ASSUME RingKnown, TraceInv
  PROVE  InputsReplayed
  <1> SUFFICES ASSUME Settled, NEW p \in InGame
               PROVE  /\ p \in clean =>
                           /\ player[p].pos = course[p][seq]
                           /\ player[p].input = hist[p][seq]
                           /\ \A k \in 0..seq : \E d \in Leads(p, hist[p][k]) :
                                course[p][k] = Clamp(course[p][k - 1] + d, Lo, Hi)
                      /\ p \in kept => player[p].input = hist[p][MaxSeq]
    BY DEF InputsReplayed, TrajectoryReplayed, FiledInputInForce
  <1>1. TraceOf(p) /\ HistoryType /\ pc = "idle" /\ done = hist
    BY DEF TraceInv, AllReplayed, Settled
  <1>2. NoneFiled(p)
    BY DEF Settled, RingKnown, FiledInv, PendingCovered, NoneFiled, InGame
  <1>3. hist[p][seq] = hist[p][MaxSeq] /\ \A k \in 0..seq : k \in Ticks /\ k <= seq
    BY <1>1, BoundAssumption DEF TraceOf, FilingOf, HistoryType, Ticks
  <1>4. ASSUME p \in clean
        PROVE  /\ player[p].pos = course[p][seq] /\ player[p].input = hist[p][seq]
               /\ \A k \in 0..seq : Led(p, k)
    BY <1>1, <1>3, <1>4 DEF TraceOf, PlaceOf
  <1>5. ASSUME p \in kept PROVE player[p].input = hist[p][MaxSeq]
    BY <1>1, <1>2, <1>5 DEF TraceOf, KeptOf
  <1> QED BY <1>1, <1>4, <1>5 DEF Led, Stepped

\* the history variables only watch: a step of TNext is a step of Next
LEMMA HistoryWatches == (TInit => Init) /\ ([TNext]_tvars => [Next]_vars)
  <1>1. TInit => Init
    BY DEF TInit
  <1>2. ASSUME TNext PROVE Next
    BY <1>2 DEF TNext, Next, Handlers, Update, TJoin, TLeave, TRefuse, TFile, TMoveBot,
                TRollback, TRewind, TUpdate
  <1>3. UNCHANGED tvars => UNCHANGED vars
    BY DEF tvars
  <1> QED BY <1>1, <1>2, <1>3

(***************************************************************************)
(* The ring with its history behaves like the ring: remembering what was   *)
(* filed, and when, forbids nothing and allows nothing.                    *)
(***************************************************************************)
THEOREM HistoryOnly == TSpec => Run
  BY HistoryWatches, PTL DEF TSpec, Run

(***************************************************************************)
(* What the snapshots and players hold, told as where the ticks left the   *)
(* players and where the inputs filed for them may lead: the inductive     *)
(* invariant behind InputsReplayed.                                        *)
(***************************************************************************)
THEOREM TraceInvariant == TSpec => []TraceInv
  <1>1. TypeOK /\ RingInv /\ FiledInv => RingKnown
    BY DEF RingKnown, Known
  <1>2. RingKnown /\ TraceInv /\ [TNext]_tvars => TraceInv'
    BY TraceStep
  <1> QED BY <1>1, <1>2, TraceInit, HistoryOnly, RingRun, TypeRun, FiledRun, PTL DEF TSpec

(***************************************************************************)
(* Whatever the clients send and whenever it arrives, a settled server     *)
(* shows the players where their inputs could have led them, each input    *)
(* counted from the tick it was filed under and the last one in force,     *)
(* whoever was in the way and however long the ticks were -- but for the   *)
(* exceptions named: a death, a bot moved, and a rollback to a snapshot    *)
(* that is not of that tick or has an input the player has replaced.       *)
(***************************************************************************)
THEOREM TrajectoryInvariant == TSpec => []InputsReplayed
  <1>1. TypeOK /\ RingInv /\ FiledInv => RingKnown
    BY DEF RingKnown, Known
  <1>2. RingKnown /\ TraceInv => InputsReplayed
    BY TraceShows
  <1> QED BY <1>1, <1>2, TraceInvariant, HistoryOnly, RingRun, TypeRun, FiledRun, PTL
===============================================================================
