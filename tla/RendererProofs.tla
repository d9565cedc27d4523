---------------------------- MODULE RendererProofs ----------------------------
(***************************************************************************)
(* Proofs about Renderer, for any views, buffers of any size and any order *)
(* of packets, events and frames: what the objects hold, what the lists of *)
(* shaders point to, and what is drawn with which matrices.                *)
(*                                                                         *)
(* The first part is about renderers: what each operation keeps of a sound *)
(* one.  In the second the renderer is inductive with where a frame is:    *)
(* which objects may hold something, which one is bound, and which live.   *)
(***************************************************************************)
EXTENDS Renderer, TLAPS

Matrix == [mvp : View \cup {None}, proj : Windows \cup {None}, scale : Zooms \cup {None}]

Renderers ==
  [current : Bros \cup {None}, live : SUBSET Bros, mvp : SUBSET Bros, proj : SUBSET Bros,
   shown : SUBSET Shown, view : View, queue : [Bros -> Batches], given : [Bros -> Matrix]]

\* the buffers hold what is queued
Room(r) == \A b \in Bros : r.queue[b].count <= Capacity(b)

\* the lists are those of the objects
Lists(r) == r.mvp = r.live \cap MvpShaders /\ r.proj = r.live \cap ProjShaders

\* the shaders have the matrices of the view
Matrices(r) ==
  /\ \A b \in r.live \cap {"default", "line"} : r.given[b].mvp = r.view
  /\ "screen" \in r.live => r.given["screen"].proj = r.view.window
  /\ r.given["laser"].mvp \in {None, r.view}
  /\ "laser" \notin r.live => r.given["laser"].mvp = None
  /\ "laser" \in r.live => r.given["laser"].scale = r.view.zoom \/ r.view.zoom = 1

\* what is queued belongs there, and the view is still that of the queue
Queued(r, lf) ==
  /\ \A b \in Bros : r.queue[b].count = 0 => r.queue[b].items = {}
  /\ \A b \in Bros \ {"bg"} : \A i \in r.queue[b].items : i.under = r.view /\ BroOf(i.kind) = b
  /\ \A i \in r.queue["bg"].items : i.kind = "background" \/ (i.kind = "cell" /\ lf)

\* what DrawnAsQueued allows of the things shown
Fair(s, lf, mvp) ==
  \/ s.bro = BroOf(s.kind) /\ s.place = "right"
  \/ s.bro = "laser" /\ s.kind = "laser" /\ s.place = "blank" /\ mvp = None
  \/ s.bro = "laser" /\ s.kind = "laser" /\ s.place = "unscaled"
  \/ s.bro = "bg" /\ s.kind = "cell" /\ lf

Shows(r, lf) == \A s \in r.shown : Fair(s, lf, r.given["laser"].mvp)

Sound(r, lf) ==
  r \in Renderers /\ Room(r) /\ Lists(r) /\ Matrices(r) /\ Queued(r, lf) /\ Shows(r, lf)

\* only the queue of b, and what is shown, may be another
OnlyQueue(q, r, b) ==
  /\ q.live = r.live /\ q.current = r.current /\ q.view = r.view /\ q.given = r.given
  /\ \A c \in Bros \ {b} : q.queue[c] = r.queue[c]

-------------------------------------------------------------------------------
(* What is queued and drawn. *)

LEMMA CapacityFacts == ASSUME NEW b \in Bros PROVE Capacity(b) \in Nat /\ Capacity(b) >= 8
  BY VerticesAssumption DEF Capacity

LEMMA RendererFields ==
  ASSUME NEW r \in Renderers
  PROVE  /\ r.current \in Bros \cup {None} /\ r.live \in SUBSET Bros /\ r.mvp \in SUBSET Bros
         /\ r.proj \in SUBSET Bros /\ r.shown \in SUBSET Shown /\ r.view \in View
         /\ r.queue \in [Bros -> Batches] /\ r.given \in [Bros -> Matrix]
         /\ \A b \in Bros : r.queue[b] \in Batches /\ r.given[b] \in Matrix
  BY DEF Renderers

LEMMA BatchFields ==
  ASSUME NEW n \in Nat, NEW s \in SUBSET Items
  PROVE  [count |-> n, items |-> s] \in Batches
  BY DEF Batches

LEMMA PlaceType ==
  ASSUME NEW r, NEW b, NEW i
  PROVE  Place(r, b, i) \in {"right", "wrong", "blank", "unscaled"}
  BY DEF Place

\* where an object puts what was queued in it
LEMMA PlaceFair ==
  ASSUME NEW r, NEW lf \in BOOLEAN, Sound(r, lf), NEW b \in r.live \cup {"bg"},
         NEW i \in r.queue[b].items
  PROVE  Fair([kind |-> i.kind, bro |-> b, place |-> Place(r, b, i)], lf, r.given["laser"].mvp)
<1> DEFINE p == Place(r, b, i)
<1>1. /\ r.view \in View /\ r.view # None /\ r.view.window # None /\ b \in Bros
      /\ i \in Items /\ i.kind \in Kinds
  <2>1. r \in Renderers
    BY DEF Sound
  <2>2. r.view \in View /\ b \in Bros /\ r.queue[b] \in Batches
    BY <2>1, RendererFields DEF Bros
  <2>3. i \in Items
    BY <2>2 DEF Batches
  <2> QED BY <2>2, <2>3, NoneAssumption DEF View, Items
<1>2. CASE b = "bg"
  <2>1. p = "right"
    BY <1>2 DEF Place, MvpShaders, ProjShaders
  <2>2. i.kind = "background" \/ (i.kind = "cell" /\ lf)
    BY <1>2 DEF Sound, Queued
  <2> QED BY <1>2, <2>1, <2>2 DEF Fair, BroOf
<1>3. CASE b \in {"default", "line", "screen"}
  <2>1. b \in r.live /\ i.under = r.view /\ BroOf(i.kind) = b
    BY <1>1, <1>3 DEF Sound, Queued
  <2>2. p = "right"
    BY <1>1, <1>3, <2>1 DEF Sound, Matrices, Place, MvpShaders, ProjShaders
  <2> QED BY <2>1, <2>2 DEF Fair
<1>4. CASE b = "laser"
  <2>1. b \in r.live /\ i.under = r.view /\ BroOf(i.kind) = "laser"
    BY <1>1, <1>4 DEF Sound, Queued
  <2>2. i.kind = "laser"
    BY <1>1, <2>1 DEF BroOf, Kinds
  <2>3. \/ p = "blank" /\ r.given["laser"].mvp = None
        \/ p = "right" \/ p = "unscaled"
    BY <1>1, <1>4, <2>1 DEF Sound, Matrices, Place, MvpShaders, ProjShaders
  <2> QED BY <1>4, <2>1, <2>2, <2>3 DEF Fair
<1> QED BY <1>1, <1>2, <1>3, <1>4 DEF Bros

\* a renderer with another queue
LEMMA WithQueue ==
  ASSUME NEW r, NEW lf \in BOOLEAN, Sound(r, lf), NEW q, NEW b \in Bros,
         q.shown \in SUBSET Shown, q.queue[b] \in Batches,
         q = [r EXCEPT !.queue[b] = q.queue[b], !.shown = q.shown],
         q.queue[b].count <= Capacity(b), q.queue[b].count = 0 => q.queue[b].items = {},
         \A i \in q.queue[b].items :
           IF b = "bg" THEN i.kind = "background" \/ (i.kind = "cell" /\ lf)
           ELSE i.under = r.view /\ BroOf(i.kind) = b,
         \A s \in q.shown : Fair(s, lf, r.given["laser"].mvp)
  PROVE  Sound(q, lf) /\ OnlyQueue(q, r, b)
<1>1. r \in Renderers
  BY DEF Sound
<1>2. /\ q.live = r.live /\ q.mvp = r.mvp /\ q.proj = r.proj /\ q.current = r.current
      /\ q.view = r.view /\ q.given = r.given
      /\ \A c \in Bros \ {b} : q.queue[c] = r.queue[c]
  BY <1>1 DEF Renderers
<1>3. q \in Renderers
  <2>1. r.queue \in [Bros -> Batches]
    BY <1>1 DEF Renderers
  <2>2. [r.queue EXCEPT ![b] = q.queue[b]] \in [Bros -> Batches]
    BY <2>1
  <2>3. q = [r EXCEPT !.queue = [r.queue EXCEPT ![b] = q.queue[b]], !.shown = q.shown]
    OBVIOUS
  <2> QED BY <1>1, <2>2, <2>3 DEF Renderers
<1>4. Room(q)
  <2>1. ASSUME NEW c \in Bros PROVE q.queue[c].count <= Capacity(c)
    BY <1>2 DEF Sound, Room
  <2> QED BY <2>1 DEF Room
<1>5. Queued(q, lf)
  <2>1. Queued(r, lf) /\ "bg" \in Bros
    BY DEF Sound, Bros
  <2>2. ASSUME NEW c \in Bros PROVE q.queue[c].count = 0 => q.queue[c].items = {}
    BY <1>2, <2>1 DEF Queued
  <2>3. ASSUME NEW c \in Bros \ {"bg"}, NEW i \in q.queue[c].items
        PROVE  i.under = q.view /\ BroOf(i.kind) = c
    BY <1>2, <2>1, <2>3 DEF Queued
  <2>4. ASSUME NEW i \in q.queue["bg"].items PROVE i.kind = "background" \/ (i.kind = "cell" /\ lf)
    BY <1>2, <2>1, <2>4 DEF Queued
  <2> QED BY <2>2, <2>3, <2>4 DEF Queued
<1>6. Lists(q) /\ Matrices(q) /\ Shows(q, lf)
  BY <1>2 DEF Sound, Lists, Matrices, Shows
<1> QED BY <1>2, <1>3, <1>4, <1>5, <1>6 DEF Sound, OnlyQueue

LEMMA DrawSound ==
  ASSUME NEW r, NEW lf \in BOOLEAN, Sound(r, lf), NEW b \in r.live \cup {"bg"}
  PROVE  LET q == bro_draw_batch(r, b) IN
         Sound(q, lf) /\ OnlyQueue(q, r, b) /\ q.queue[b] = NoBatch
<1> DEFINE q == bro_draw_batch(r, b)
           drawn == {[kind |-> i.kind, bro |-> b, place |-> Place(r, b, i)] : i \in r.queue[b].items}
<1>1. r \in Renderers /\ b \in Bros /\ r.queue[b] \in Batches /\ r.shown \in SUBSET Shown
  BY RendererFields DEF Sound, Bros
<1>2. q = [r EXCEPT !.queue[b] = NoBatch, !.shown = @ \cup drawn]
  BY DEF bro_draw_batch
<1> HIDE DEF drawn, q
<1>3. q.queue = [r.queue EXCEPT ![b] = NoBatch] /\ q.shown = r.shown \cup drawn
  BY <1>1, <1>2 DEF Renderers
<1>4. q.queue[b] = NoBatch
  BY <1>1, <1>3, RendererFields
<1>5. \A i \in r.queue[b].items : i \in Items /\ i.kind \in Kinds
  BY <1>1 DEF Batches, Items
<1>6. drawn \in SUBSET Shown
  <2>1. ASSUME NEW i \in r.queue[b].items
        PROVE  [kind |-> i.kind, bro |-> b, place |-> Place(r, b, i)] \in Shown
    BY <1>1, <1>5, PlaceType DEF Shown
  <2> QED BY <2>1 DEF drawn
<1>7. \A s \in q.shown : Fair(s, lf, r.given["laser"].mvp)
  BY <1>3, PlaceFair DEF drawn, Sound, Shows
<1>8. NoBatch \in Batches /\ NoBatch.count = 0 /\ NoBatch.items = {} /\ 0 <= Capacity(b)
  BY <1>1, CapacityFacts DEF NoBatch, Batches
<1>9. q = [r EXCEPT !.queue[b] = q.queue[b], !.shown = q.shown]
  BY <1>1, <1>2, <1>3, <1>4 DEF Renderers
<1>10. Sound(q, lf) /\ OnlyQueue(q, r, b)
  BY <1>1, <1>3, <1>4, <1>6, <1>7, <1>8, <1>9, WithQueue
<1> QED BY <1>4, <1>10 DEF q

LEMMA QueueSound ==
  ASSUME NEW r, NEW lf \in BOOLEAN, Sound(r, lf), NEW b \in Bros, NEW kind \in Kinds,
         NEW n \in Nat \ {0}, r.queue[b].count + n <= Capacity(b),
         IF b = "bg" THEN kind = "background" \/ (kind = "cell" /\ lf) ELSE BroOf(kind) = b
  PROVE  LET q == Queue(r, b, kind, n) IN Sound(q, lf) /\ OnlyQueue(q, r, b)
<1> DEFINE q == Queue(r, b, kind, n)
           item == [kind |-> kind, under |-> r.view]
           old == r.queue[b]
           new == [count |-> old.count + n, items |-> old.items \cup {item}]
<1>1. r \in Renderers /\ old \in Batches /\ r.shown \in SUBSET Shown /\ r.view \in View
      /\ r.queue \in [Bros -> Batches]
  BY RendererFields DEF Sound
<1>2. old.count \in Nat /\ old.items \in SUBSET Items /\ item \in Items /\ old.count + n # 0
      /\ old.count + n \in Nat
  BY <1>1 DEF Batches, Items
<1>3. new \in Batches /\ new.count = old.count + n /\ new.items = old.items \cup {item}
  BY <1>2 DEF Batches
<1>4. q = [r EXCEPT !.queue[b].count = @ + n, !.queue[b].items = @ \cup {item}]
  BY DEF Queue
<1>5. [[old EXCEPT !.count = @ + n] EXCEPT !.items = @ \cup {item}] = new
  <2>1. old = [count |-> old.count, items |-> old.items]
    BY <1>1 DEF Batches
  <2> HIDE DEF item, old
  <2>2. [old EXCEPT !.count = @ + n] = [count |-> old.count + n, items |-> old.items]
    BY <2>1
  <2>3. [[count |-> old.count + n, items |-> old.items] EXCEPT !.items = @ \cup {item}] = new
    OBVIOUS
  <2> QED BY <2>2, <2>3
<1>6. q = [r EXCEPT !.queue[b] = new]
  BY <1>1, <1>4, <1>5 DEF Renderers
<1>7. q.queue[b] = new /\ q.shown = r.shown
  BY <1>1, <1>6 DEF Renderers
<1>8. q = [r EXCEPT !.queue[b] = q.queue[b], !.shown = q.shown]
  BY <1>1, <1>6, <1>7 DEF Renderers
<1>9. \A i \in new.items :
        IF b = "bg" THEN i.kind = "background" \/ (i.kind = "cell" /\ lf)
        ELSE i.under = r.view /\ BroOf(i.kind) = b
  BY <1>3 DEF Sound, Queued
<1> HIDE DEF q, new, item, old
<1>10. Sound(q, lf) /\ OnlyQueue(q, r, b)
  <2>1. q.queue[b].count <= Capacity(b) /\ (q.queue[b].count = 0 => q.queue[b].items = {})
    BY <1>2, <1>3, <1>7 DEF old
  <2>2. \A s \in q.shown : Fair(s, lf, r.given["laser"].mvp)
    BY <1>7 DEF Sound, Shows
  <2> QED BY <1>1, <1>3, <1>7, <1>8, <1>9, <2>1, <2>2, WithQueue
<1> QED BY <1>10 DEF q

\* n vertices, behind a flush if there is no room
LEMMA FlushQueueSound ==
  ASSUME NEW r, NEW lf \in BOOLEAN, Sound(r, lf), NEW b \in r.live \cup {"bg"}, NEW kind \in Kinds,
         NEW n \in 1 .. 4, NEW full \in BOOLEAN, full \/ r.queue[b].count + n <= Capacity(b),
         IF b = "bg" THEN kind = "background" \/ (kind = "cell" /\ lf) ELSE BroOf(kind) = b
  PROVE  LET q == Queue(IF full THEN bro_draw_batch(r, b) ELSE r, b, kind, n) IN
         Sound(q, lf) /\ OnlyQueue(q, r, b)
<1> DEFINE p == bro_draw_batch(r, b)
<1>1. b \in Bros /\ n \in Nat \ {0} /\ n <= 4 /\ Capacity(b) \in Nat /\ Capacity(b) >= 8
  <2>1. b \in Bros
    BY RendererFields DEF Sound, Bros
  <2> QED BY <2>1, CapacityFacts
<1>2. CASE full
  <2>1. Sound(p, lf) /\ OnlyQueue(p, r, b) /\ p.queue[b] = NoBatch
    BY DrawSound
  <2>2. p.queue[b].count + n <= Capacity(b)
    BY <1>1, <2>1 DEF NoBatch
  <2> HIDE DEF p
  <2>3. LET q == Queue(p, b, kind, n) IN Sound(q, lf) /\ OnlyQueue(q, p, b)
    BY <1>1, <2>1, <2>2, QueueSound
  <2>4. LET q == Queue(p, b, kind, n) IN Sound(q, lf) /\ OnlyQueue(q, r, b)
    BY <2>1, <2>3 DEF OnlyQueue
  <2> QED BY <1>2, <2>4 DEF p
<1>3. CASE ~full
  BY <1>1, <1>3, QueueSound
<1> QED BY <1>2, <1>3

LEMMA BindSound ==
  ASSUME NEW r, NEW lf, Sound(r, lf), NEW b \in Bros
  PROVE  LET q == ren_bind_bro(r, b) IN
         /\ Sound(q, lf) /\ q.current = b /\ q.live = r.live /\ q.view = r.view
         /\ q.queue = r.queue /\ q.shown = r.shown /\ q.given = r.given
<1> DEFINE q == ren_bind_bro(r, b)
<1>1. q \in Renderers /\ q.current = b /\ q.live = r.live /\ q.view = r.view /\ q.mvp = r.mvp
      /\ q.proj = r.proj /\ q.queue = r.queue /\ q.shown = r.shown /\ q.given = r.given
  BY DEF Sound, Renderers, ren_bind_bro
<1> HIDE DEF q
<1>2. Sound(q, lf)
  BY <1>1 DEF Sound, Room, Lists, Matrices, Queued, Shows
<1> QED BY <1>1, <1>2 DEF q

LEMMA RectSound ==
  ASSUME NEW r, NEW lf \in BOOLEAN, Sound(r, lf), NEW b \in r.live \cup {"bg"}, NEW kind \in Kinds,
         IF b = "bg" THEN kind = "background" \/ (kind = "cell" /\ lf) ELSE BroOf(kind) = b
  PROVE  LET q == Rect(r, b, kind) IN Sound(q, lf) /\ OnlyQueue(q, r, b)
<1>1. b \in Bros /\ r.queue[b].count \in Nat /\ Capacity(b) \in Nat
  BY RendererFields, CapacityFacts DEF Sound, Bros, Batches
<1>2. Full(r, b) \in BOOLEAN /\ (Full(r, b) \/ r.queue[b].count + 4 <= Capacity(b))
  BY <1>1 DEF Full
<1>3. LET q == Queue(IF Full(r, b) THEN bro_draw_batch(r, b) ELSE r, b, kind, 4) IN
      Sound(q, lf) /\ OnlyQueue(q, r, b)
  BY <1>2, FlushQueueSound, 4 \in 1 .. 4
<1> QED BY <1>3 DEF Rect

LEMMA LineSound ==
  ASSUME NEW r, NEW lf \in BOOLEAN, Sound(r, lf), "line" \in r.live
  PROVE  LET q == ren_default_draw_line(r) IN Sound(q, lf) /\ OnlyQueue(q, r, "line")
<1> DEFINE full == r.queue["line"].count + 2 >= Capacity("line")
<1>1. "line" \in Bros /\ r.queue["line"].count \in Nat /\ Capacity("line") \in Nat
  BY RendererFields, CapacityFacts DEF Sound, Bros, Batches
<1>2. full \in BOOLEAN /\ (full \/ r.queue["line"].count + 2 <= Capacity("line"))
  BY <1>1
<1> HIDE DEF full
<1>3. "line" \in Kinds /\ BroOf("line") = "line" /\ "line" # "bg"
  BY DEF Kinds, BroOf
<1>4. LET q == Queue(IF full THEN bro_draw_batch(r, "line") ELSE r, "line", "line", 2) IN
      Sound(q, lf) /\ OnlyQueue(q, r, "line")
  BY <1>2, <1>3, FlushQueueSound, 2 \in 1 .. 4
<1> QED BY <1>4 DEF ren_default_draw_line, full

\* to whatever is bound: the default object, or the menu's
LEMMA DrawRectSound ==
  ASSUME NEW r, NEW lf \in BOOLEAN, Sound(r, lf), NEW kind \in Kinds,
         \/ r.current = "default" /\ "default" \in r.live /\ BroOf(kind) = "default"
         \/ r.current = "bg" /\ (kind = "background" \/ (kind = "cell" /\ lf))
  PROVE  LET q == ren_draw_rect(r, kind) IN Sound(q, lf) /\ OnlyQueue(q, r, r.current)
<1>1. CASE r.current = "default"
  <2>1. ren_draw_rect(r, kind) = Rect(r, "default", kind)
    BY <1>1 DEF ren_draw_rect, ren_default_draw_rect
  <2>2. LET q == Rect(r, "default", kind) IN Sound(q, lf) /\ OnlyQueue(q, r, "default")
    BY <1>1, RectSound
  <2> QED BY <1>1, <2>1, <2>2
<1>2. CASE r.current = "bg"
  <2>1. ren_draw_rect(r, kind) = Rect(r, "bg", kind)
    BY <1>2 DEF ren_draw_rect, main_menu_draw_rect, ren_draw_batch, Rect
  <2>2. LET q == Rect(r, "bg", kind) IN Sound(q, lf) /\ OnlyQueue(q, r, "bg")
    BY <1>2, RectSound
  <2> QED BY <1>2, <2>1, <2>2
<1> QED BY <1>1, <1>2

-------------------------------------------------------------------------------
(* Another view, between two frames. *)

Idle(r) == r.shown = {} /\ \A b \in Bros \ {"bg"} : r.queue[b] = NoBatch

LEMMA WithView ==
  ASSUME NEW r, NEW lf, Sound(r, lf), Idle(r), NEW q \in Renderers, Matrices(q),
         q.live = r.live, q.mvp = r.mvp, q.proj = r.proj, q.queue = r.queue, q.shown = r.shown
  PROVE  Sound(q, lf) /\ Idle(q)
<1>1. \A b \in Bros \ {"bg"} : q.queue[b].items = {}
  BY DEF Idle, NoBatch
<1>2. Queued(q, lf)
  BY <1>1 DEF Sound, Queued
<1> QED BY <1>2 DEF Sound, Idle, Room, Lists, Shows

\* what of a sound renderer a new one has before it is given a view
Shaped(r) == r \in Renderers /\ Lists(r) /\ ("laser" \notin r.live => r.given["laser"].mvp = None)

\* who is given the matrix
LEMMA GivenFacts ==
  ASSUME NEW r, Shaped(r), NEW v \in Renderers, v.mvp = r.mvp, v.given = r.given
  PROVE  /\ Given(v) \in [Bros -> Matrix]
         /\ \A b \in r.live \cap {"default", "line"} : Given(v)[b].mvp = v.view
         /\ Given(v)["laser"].mvp \in {None, v.view}
         /\ \A b \in Bros : Given(v)[b].proj = r.given[b].proj /\ Given(v)[b].scale = r.given[b].scale
<1>1. v.view \in View /\ v.given \in [Bros -> Matrix] /\ r.mvp = r.live \cap MvpShaders
      /\ r.live \subseteq Bros /\ r \in Renderers
  BY RendererFields DEF Shaped, Lists
<1>2. ASSUME NEW b \in Bros
      PROVE  /\ Given(v)[b] \in Matrix
             /\ Given(v)[b].mvp = IF b \in r.mvp THEN v.view ELSE r.given[b].mvp
             /\ Given(v)[b].proj = r.given[b].proj /\ Given(v)[b].scale = r.given[b].scale
  <2>1. v.given[b] \in Matrix
    BY <1>1
  <2>2. Given(v)[b] = IF b \in v.mvp THEN [v.given[b] EXCEPT !.mvp = v.view] ELSE v.given[b]
    BY DEF Given
  <2> QED BY <1>1, <2>1, <2>2 DEF Matrix
<1>3. Given(v) \in [Bros -> Matrix]
  BY <1>2 DEF Given
<1>4. {"default", "line", "laser"} = MvpShaders /\ "laser" \in Bros
  BY DEF MvpShaders, Bros
<1>5. "laser" \notin r.mvp => r.given["laser"].mvp = None
  BY <1>1, <1>4 DEF Shaped
<1> QED BY <1>1, <1>2, <1>3, <1>4, <1>5

LEMMA SetViewFields ==
  ASSUME NEW r, Shaped(r), NEW cam \in Cams, NEW zoom \in Zooms
  PROVE  LET q == ren_set_view(r, cam, zoom) IN
         /\ q \in Renderers /\ q.mvp = r.mvp /\ q.live = r.live /\ q.proj = r.proj
         /\ q.queue = r.queue /\ q.shown = r.shown /\ q.current = r.current
         /\ q.view.cam = cam /\ q.view.zoom = zoom /\ q.view.window = r.view.window
         /\ \A b \in r.live \cap {"default", "line"} : q.given[b].mvp = q.view
         /\ q.given["laser"].mvp \in {None, q.view}
         /\ "laser" \notin r.live => q.given["laser"].mvp = None
         /\ \A b \in Bros : q.given[b].proj = r.given[b].proj /\ q.given[b].scale = r.given[b].scale
<1> DEFINE v == [r EXCEPT !.view.cam = cam, !.view.zoom = zoom]
           w == [cam |-> cam, zoom |-> zoom, window |-> r.view.window]
           q == ren_set_view(r, cam, zoom)
<1>1. r \in Renderers /\ r.view \in View
  BY RendererFields DEF Shaped
<1>2. w \in View
  BY <1>1 DEF View
<1>3. v = [r EXCEPT !.view = w]
  <2>1. r.view = [cam |-> r.view.cam, zoom |-> r.view.zoom, window |-> r.view.window]
    BY <1>1 DEF View
  <2>2. [r.view EXCEPT !.cam = cam] = [cam |-> cam, zoom |-> r.view.zoom, window |-> r.view.window]
    BY <2>1
  <2>3. [[cam |-> cam, zoom |-> r.view.zoom, window |-> r.view.window] EXCEPT !.zoom = zoom] = w
    OBVIOUS
  <2> QED BY <1>1, <2>2, <2>3 DEF Renderers
<1>4. /\ v \in Renderers /\ v.view = w /\ v.mvp = r.mvp /\ v.given = r.given /\ v.live = r.live
      /\ v.proj = r.proj /\ v.queue = r.queue /\ v.shown = r.shown /\ v.current = r.current
  BY <1>1, <1>2, <1>3 DEF Renderers
<1> HIDE DEF v
<1>5. /\ Given(v) \in [Bros -> Matrix]
      /\ \A b \in r.live \cap {"default", "line"} : Given(v)[b].mvp = w
      /\ Given(v)["laser"].mvp \in {None, w}
      /\ \A b \in Bros : Given(v)[b].proj = r.given[b].proj /\ Given(v)[b].scale = r.given[b].scale
      /\ "laser" \notin r.live => Given(v)["laser"].mvp = None
  <2>1. "laser" \notin r.live => "laser" \notin v.mvp /\ Given(v)["laser"] = r.given["laser"]
    BY <1>4 DEF Shaped, Lists, Given, Bros
  <2> QED BY <1>4, <2>1, GivenFacts DEF Shaped
<1>6. q = [v EXCEPT !.given = Given(v)]
  BY DEF ren_set_view, v
<1> HIDE DEF q, w
<1>7. /\ q \in Renderers /\ q.view = w /\ q.mvp = r.mvp /\ q.given = Given(v) /\ q.live = r.live
      /\ q.proj = r.proj /\ q.queue = r.queue /\ q.shown = r.shown /\ q.current = r.current
  BY <1>4, <1>5, <1>6 DEF Renderers
<1>8. w.zoom = zoom /\ w.window = r.view.window /\ w.cam = cam
  BY DEF w
<1> QED BY <1>5, <1>7, <1>8 DEF q

\* the camera moves, or the scale is reset
LEMMA SetViewSound ==
  ASSUME NEW r, NEW lf, Sound(r, lf), Idle(r), NEW cam \in Cams, NEW zoom \in Zooms,
         zoom = r.view.zoom \/ zoom = 1
  PROVE  LET q == ren_set_view(r, cam, zoom) IN
         /\ Sound(q, lf) /\ Idle(q) /\ q.live = r.live /\ q.current = r.current /\ q.queue = r.queue
<1> DEFINE q == ren_set_view(r, cam, zoom)
<1>1. /\ q \in Renderers /\ q.mvp = r.mvp /\ q.live = r.live /\ q.proj = r.proj
      /\ q.queue = r.queue /\ q.shown = r.shown /\ q.current = r.current
      /\ q.view.zoom = zoom /\ q.view.window = r.view.window
      /\ \A b \in r.live \cap {"default", "line"} : q.given[b].mvp = q.view
      /\ q.given["laser"].mvp \in {None, q.view}
      /\ "laser" \notin r.live => q.given["laser"].mvp = None
      /\ \A b \in Bros : q.given[b].proj = r.given[b].proj /\ q.given[b].scale = r.given[b].scale
  BY SetViewFields DEF Sound, Shaped, Matrices
<1> HIDE DEF q
<1>2. Matrices(q)
  BY <1>1 DEF Sound, Matrices, Bros
<1>3. Sound(q, lf) /\ Idle(q)
  BY <1>1, <1>2, WithView
<1> QED BY <1>1, <1>3 DEF q

\* the wheel: the laser's shader is told too
LEMMA ZoomedSound ==
  ASSUME NEW r, NEW lf, Sound(r, lf), Idle(r), NEW zoom \in Zooms, NEW given \in BOOLEAN,
         given \/ "laser" \notin r.live
  PROVE  LET v == ren_set_view(r, r.view.cam, zoom)
             q == IF given THEN [v EXCEPT !.given["laser"].scale = zoom] ELSE v IN
         /\ Sound(q, lf) /\ Idle(q) /\ q.live = r.live /\ q.current = r.current /\ q.queue = r.queue
         /\ q.view.zoom = zoom
<1> DEFINE v == ren_set_view(r, r.view.cam, zoom)
           g == [v.given EXCEPT !["laser"].scale = zoom]
           u == [v EXCEPT !.given["laser"].scale = zoom]
           q == IF given THEN u ELSE v
<1>0. r \in Renderers /\ r.view.cam \in Cams
  BY RendererFields DEF Sound, View
<1>1. /\ v \in Renderers /\ v.mvp = r.mvp /\ v.live = r.live /\ v.proj = r.proj
      /\ v.queue = r.queue /\ v.shown = r.shown /\ v.current = r.current
      /\ v.view.zoom = zoom /\ v.view.window = r.view.window
      /\ \A b \in r.live \cap {"default", "line"} : v.given[b].mvp = v.view
      /\ v.given["laser"].mvp \in {None, v.view}
      /\ "laser" \notin r.live => v.given["laser"].mvp = None
      /\ \A b \in Bros : v.given[b].proj = r.given[b].proj
  BY <1>0, SetViewFields DEF Sound, Shaped, Matrices
<1> HIDE DEF v
<1>2. v.given \in [Bros -> Matrix] /\ "laser" \in Bros /\ v.given["laser"] \in Matrix
  BY <1>1, RendererFields DEF Bros
<1>3. /\ g \in [Bros -> Matrix] /\ g["laser"].mvp = v.given["laser"].mvp /\ g["laser"].scale = zoom
      /\ \A b \in Bros \ {"laser"} : g[b] = v.given[b]
  <2>1. [v.given["laser"] EXCEPT !.scale = zoom] \in Matrix
    BY <1>2 DEF Matrix
  <2>2. /\ [v.given["laser"] EXCEPT !.scale = zoom].mvp = v.given["laser"].mvp
        /\ [v.given["laser"] EXCEPT !.scale = zoom].scale = zoom
    BY <1>2 DEF Matrix
  <2>3. g = [v.given EXCEPT !["laser"] = [v.given["laser"] EXCEPT !.scale = zoom]]
    OBVIOUS
  <2> QED BY <1>2, <2>1, <2>2, <2>3
<1>4. u = [v EXCEPT !.given = g]
  OBVIOUS
<1> HIDE DEF g, u
<1>5. /\ u \in Renderers /\ u.mvp = r.mvp /\ u.live = r.live /\ u.proj = r.proj
      /\ u.queue = r.queue /\ u.shown = r.shown /\ u.current = r.current /\ u.view = v.view
      /\ u.given = g
  BY <1>1, <1>3, <1>4 DEF Renderers
<1>6. Matrices(q)
  <2>1. CASE given
    <3>1. Matrices(u)
      BY <1>1, <1>3, <1>5 DEF Sound, Matrices, Bros
    <3> QED BY <2>1, <3>1
  <2>2. CASE ~given
    <3>1. Matrices(v)
      BY <1>1, <2>2 DEF Sound, Matrices, Bros
    <3> QED BY <2>2, <3>1
  <2> QED BY <2>1, <2>2
<1>7. /\ q \in Renderers /\ q.mvp = r.mvp /\ q.live = r.live /\ q.proj = r.proj
      /\ q.queue = r.queue /\ q.shown = r.shown /\ q.current = r.current /\ q.view.zoom = zoom
  BY <1>1, <1>5
<1> HIDE DEF q
<1>8. Sound(q, lf) /\ Idle(q)
  BY <1>6, <1>7, WithView
<1> QED BY <1>7, <1>8 DEF q, u, v

LEMMA ViewportFields ==
  ASSUME NEW r, Shaped(r), NEW window \in Windows
  PROVE  LET q == ren_viewport(r, window) IN
         /\ q \in Renderers /\ q.mvp = r.mvp /\ q.live = r.live /\ q.proj = r.proj
         /\ q.queue = r.queue /\ q.shown = r.shown /\ q.current = r.current
         /\ q.view.cam = r.view.cam /\ q.view.zoom = r.view.zoom /\ q.view.window = window
         /\ \A b \in r.live \cap {"default", "line"} : q.given[b].mvp = q.view
         /\ q.given["laser"].mvp \in {None, q.view}
         /\ "laser" \notin r.live => q.given["laser"].mvp = None
         /\ "screen" \in r.live => q.given["screen"].proj = window
         /\ \A b \in Bros : q.given[b].scale = r.given[b].scale
<1> DEFINE v == [r EXCEPT !.view.window = window]
           w == [cam |-> r.view.cam, zoom |-> r.view.zoom, window |-> window]
           h == [b \in Bros |-> IF b \in r.proj THEN [Given(v)[b] EXCEPT !.proj = window] ELSE Given(v)[b]]
           q == ren_viewport(r, window)
<1>1. r \in Renderers /\ r.view \in View /\ r.live \subseteq Bros
  BY RendererFields DEF Shaped
<1>2. w \in View
  BY <1>1 DEF View
<1>3. v = [r EXCEPT !.view = w]
  <2>1. r.view = [cam |-> r.view.cam, zoom |-> r.view.zoom, window |-> r.view.window]
    BY <1>1 DEF View
  <2>2. [r.view EXCEPT !.window = window] = w
    BY <2>1
  <2> QED BY <1>1, <2>2 DEF Renderers
<1>4. /\ v \in Renderers /\ v.view = w /\ v.mvp = r.mvp /\ v.given = r.given /\ v.live = r.live
      /\ v.proj = r.proj /\ v.queue = r.queue /\ v.shown = r.shown /\ v.current = r.current
  BY <1>1, <1>2, <1>3 DEF Renderers
<1>5. q = [v EXCEPT !.given = h]
  BY DEF ren_viewport
<1> HIDE DEF v
<1>6. /\ Given(v) \in [Bros -> Matrix]
      /\ \A b \in r.live \cap {"default", "line"} : Given(v)[b].mvp = w
      /\ Given(v)["laser"].mvp \in {None, w}
      /\ \A b \in Bros : Given(v)[b].proj = r.given[b].proj /\ Given(v)[b].scale = r.given[b].scale
      /\ "laser" \notin r.live => Given(v)["laser"].mvp = None
  <2>1. "laser" \notin r.live => "laser" \notin v.mvp /\ Given(v)["laser"] = r.given["laser"]
    BY <1>4 DEF Shaped, Lists, Given, Bros
  <2> QED BY <1>4, <2>1, GivenFacts DEF Shaped
<1>7. ASSUME NEW b \in Bros
      PROVE  /\ h[b] \in Matrix /\ h[b].mvp = Given(v)[b].mvp /\ h[b].scale = r.given[b].scale
             /\ b \in r.proj => h[b].proj = window
  <2>1. Given(v)[b] \in Matrix
    BY <1>6
  <2>2. h[b] = IF b \in r.proj THEN [Given(v)[b] EXCEPT !.proj = window] ELSE Given(v)[b]
    OBVIOUS
  <2> HIDE DEF h
  <2> QED BY <1>6, <2>1, <2>2 DEF Matrix
<1>8. h \in [Bros -> Matrix]
  BY <1>7
<1> HIDE DEF q, w, h
<1>9. /\ q \in Renderers /\ q.view = w /\ q.mvp = r.mvp /\ q.given = h /\ q.live = r.live
      /\ q.proj = r.proj /\ q.queue = r.queue /\ q.shown = r.shown /\ q.current = r.current
  BY <1>4, <1>5, <1>8 DEF Renderers
<1>10. w.zoom = r.view.zoom /\ w.window = window /\ w.cam = r.view.cam
  BY DEF w
<1>11. "screen" \in r.live => "screen" \in r.proj
  BY DEF Shaped, Lists, ProjShaders
<1>12. {"default", "line", "screen", "laser"} \subseteq Bros
  BY DEF Bros
<1> QED BY <1>6, <1>7, <1>9, <1>10, <1>11, <1>12 DEF q

\* the window has another size
LEMMA ViewportSound ==
  ASSUME NEW r, NEW lf, Sound(r, lf), Idle(r), NEW window \in Windows
  PROVE  LET q == ren_viewport(r, window) IN
         /\ Sound(q, lf) /\ Idle(q) /\ q.live = r.live /\ q.current = r.current /\ q.queue = r.queue
<1> DEFINE q == ren_viewport(r, window)
<1>1. /\ q \in Renderers /\ q.mvp = r.mvp /\ q.live = r.live /\ q.proj = r.proj
      /\ q.queue = r.queue /\ q.shown = r.shown /\ q.current = r.current
      /\ q.view.zoom = r.view.zoom /\ q.view.window = window
      /\ \A b \in r.live \cap {"default", "line"} : q.given[b].mvp = q.view
      /\ q.given["laser"].mvp \in {None, q.view}
      /\ "laser" \notin r.live => q.given["laser"].mvp = None
      /\ "screen" \in r.live => q.given["screen"].proj = window
      /\ \A b \in Bros : q.given[b].scale = r.given[b].scale
  BY ViewportFields DEF Sound, Shaped, Matrices
<1> HIDE DEF q
<1>2. Matrices(q)
  BY <1>1 DEF Sound, Matrices, Bros
<1>3. Sound(q, lf) /\ Idle(q)
  BY <1>1, <1>2, WithView
<1> QED BY <1>1, <1>3 DEF q

-------------------------------------------------------------------------------
(* Objects made and deleted. *)

LEMMA NewFields ==
  ASSUME NEW r, r \in Renderers, NEW b \in Bros
  PROVE  LET q == ren_new_bro(r, b) IN
         /\ q \in Renderers /\ q.live = r.live \cup {b}
         /\ q.mvp = r.mvp \cup Listed(b, MvpShaders) /\ q.proj = r.proj \cup Listed(b, ProjShaders)
         /\ q.view = r.view /\ q.shown = r.shown /\ q.current = r.current
         /\ q.queue = [r.queue EXCEPT ![b] = NoBatch]
         /\ q.given[b].mvp = None /\ (b = "laser" => q.given[b].scale = r.view.zoom)
         /\ \A c \in Bros \ {b} : q.given[c] = r.given[c]
<1> DEFINE q == ren_new_bro(r, b)
           m == [NotGiven EXCEPT !.scale = IF b = "laser" THEN r.view.zoom ELSE None]
<1>1. r.view.zoom \in Zooms /\ r.queue \in [Bros -> Batches] /\ r.given \in [Bros -> Matrix]
      /\ r.live \subseteq Bros /\ r.mvp \subseteq Bros /\ r.proj \subseteq Bros
  BY RendererFields DEF View
<1>2. m \in Matrix /\ m.mvp = None /\ (b = "laser" => m.scale = r.view.zoom)
  BY <1>1 DEF Matrix, NotGiven
<1>3. NoBatch \in Batches /\ Listed(b, MvpShaders) \subseteq Bros /\ Listed(b, ProjShaders) \subseteq Bros
  BY DEF NoBatch, Batches, Listed
<1>4. q = [r EXCEPT !.live = @ \cup {b}, !.mvp = @ \cup Listed(b, MvpShaders),
                    !.proj = @ \cup Listed(b, ProjShaders), !.queue[b] = NoBatch, !.given[b] = m]
  BY DEF ren_new_bro
<1> HIDE DEF q, m
<1>5. /\ q.live = r.live \cup {b} /\ q.mvp = r.mvp \cup Listed(b, MvpShaders)
      /\ q.proj = r.proj \cup Listed(b, ProjShaders)
      /\ q.view = r.view /\ q.shown = r.shown /\ q.current = r.current
      /\ q.queue = [r.queue EXCEPT ![b] = NoBatch] /\ q.given = [r.given EXCEPT ![b] = m]
  BY <1>4 DEF Renderers
<1>6. q.queue \in [Bros -> Batches] /\ q.given \in [Bros -> Matrix]
  BY <1>1, <1>2, <1>3, <1>5
<1>7. q \in Renderers
  <2>1. q = [current |-> q.current, live |-> q.live, mvp |-> q.mvp, proj |-> q.proj, shown |-> q.shown,
             view |-> q.view, queue |-> q.queue, given |-> q.given]
    BY <1>4 DEF Renderers
  <2>2. q.live \subseteq Bros /\ q.mvp \subseteq Bros /\ q.proj \subseteq Bros
    BY <1>1, <1>3, <1>5
  <2>3. q.current \in Bros \cup {None} /\ q.shown \in SUBSET Shown /\ q.view \in View
    BY <1>5, RendererFields
  <2> QED BY <1>6, <2>1, <2>2, <2>3 DEF Renderers
<1> QED BY <1>1, <1>2, <1>5, <1>7 DEF q

LEMMA DeleteFields ==
  ASSUME NEW r, r \in Renderers, NEW b \in Bros
  PROVE  LET q == ren_delete_bro(r, b) IN
         /\ q \in Renderers /\ q.live = r.live \ {b} /\ q.mvp = r.mvp \ {b} /\ q.proj = r.proj \ {b}
         /\ q.view = r.view /\ q.shown = r.shown /\ q.current = r.current
         /\ q.queue = [r.queue EXCEPT ![b] = NoBatch]
         /\ q.given[b].mvp = None
         /\ \A c \in Bros \ {b} : q.given[c] = r.given[c]
<1> DEFINE q == ren_delete_bro(r, b)
<1>1. /\ r.queue \in [Bros -> Batches] /\ r.given \in [Bros -> Matrix]
      /\ r.live \subseteq Bros /\ r.mvp \subseteq Bros /\ r.proj \subseteq Bros
  BY RendererFields
<1>2. NotGiven \in Matrix /\ NotGiven.mvp = None /\ NoBatch \in Batches
  BY DEF Matrix, NotGiven, NoBatch, Batches
<1>3. q = [r EXCEPT !.live = @ \ {b}, !.mvp = @ \ {b}, !.proj = @ \ {b},
                    !.queue[b] = NoBatch, !.given[b] = NotGiven]
  BY DEF ren_delete_bro
<1> HIDE DEF q
<1>4. /\ q.live = r.live \ {b} /\ q.mvp = r.mvp \ {b} /\ q.proj = r.proj \ {b}
      /\ q.view = r.view /\ q.shown = r.shown /\ q.current = r.current
      /\ q.queue = [r.queue EXCEPT ![b] = NoBatch] /\ q.given = [r.given EXCEPT ![b] = NotGiven]
  BY <1>3 DEF Renderers
<1>5. q.queue \in [Bros -> Batches] /\ q.given \in [Bros -> Matrix]
  BY <1>1, <1>2, <1>4
<1>6. q \in Renderers
  <2>1. q = [current |-> q.current, live |-> q.live, mvp |-> q.mvp, proj |-> q.proj, shown |-> q.shown,
             view |-> q.view, queue |-> q.queue, given |-> q.given]
    BY <1>3 DEF Renderers
  <2>2. q.live \subseteq Bros /\ q.mvp \subseteq Bros /\ q.proj \subseteq Bros
    BY <1>1, <1>4
  <2>3. q.current \in Bros \cup {None} /\ q.shown \in SUBSET Shown /\ q.view \in View
    BY <1>4, RendererFields
  <2> QED BY <1>5, <2>1, <2>2, <2>3 DEF Renderers
<1> QED BY <1>1, <1>2, <1>4, <1>6 DEF q

\* with one queue emptied, and nothing shown
LEMMA WithEmptied ==
  ASSUME NEW r, NEW lf, Sound(r, lf), Idle(r), NEW b \in Bros,
         NEW q \in Renderers, q.view = r.view, q.shown = r.shown,
         q.queue = [r.queue EXCEPT ![b] = NoBatch], Lists(q), Matrices(q)
  PROVE  Sound(q, lf) /\ Idle(q)
<1>1. r.queue \in [Bros -> Batches]
  BY RendererFields DEF Sound
<1>2. /\ NoBatch.count = 0 /\ NoBatch.items = {} /\ Capacity(b) >= 0
      /\ q.queue[b] = NoBatch /\ \A c \in Bros \ {b} : q.queue[c] = r.queue[c]
  BY <1>1, CapacityFacts DEF NoBatch
<1>3. Room(q)
  <2>1. ASSUME NEW c \in Bros PROVE q.queue[c].count <= Capacity(c)
    BY <1>2 DEF Sound, Room
  <2> QED BY <2>1 DEF Room
<1>4. Idle(q)
  BY <1>2 DEF Idle
<1>5. Queued(q, lf)
  <2>1. \A c \in Bros : q.queue[c].count = 0 => q.queue[c].items = {}
    BY <1>2 DEF Sound, Queued
  <2>2. \A c \in Bros \ {"bg"} : q.queue[c].items = {}
    BY <1>4 DEF Idle, NoBatch
  <2>3. \A i \in q.queue["bg"].items : i.kind = "background" \/ (i.kind = "cell" /\ lf)
    BY <1>2 DEF Sound, Queued, Bros
  <2> QED BY <2>1, <2>2, <2>3 DEF Queued
<1> QED BY <1>3, <1>4, <1>5 DEF Sound, Shows, Idle

LEMMA NewSound ==
  ASSUME NEW r, NEW lf, Sound(r, lf), Idle(r), NEW b \in {"bg", "laser"}
  PROVE  LET q == ren_new_bro(r, b) IN
         /\ Sound(q, lf) /\ Idle(q) /\ q.live = r.live \cup {b} /\ q.current = r.current
         /\ q.queue = [r.queue EXCEPT ![b] = NoBatch] /\ q.view = r.view
<1> DEFINE q == ren_new_bro(r, b)
<1>1. b \in Bros /\ r \in Renderers
  BY DEF Bros, Sound
<1>2. /\ q \in Renderers /\ q.live = r.live \cup {b}
      /\ q.mvp = r.mvp \cup Listed(b, MvpShaders) /\ q.proj = r.proj \cup Listed(b, ProjShaders)
      /\ q.view = r.view /\ q.shown = r.shown /\ q.current = r.current
      /\ q.queue = [r.queue EXCEPT ![b] = NoBatch]
      /\ q.given[b].mvp = None /\ (b = "laser" => q.given[b].scale = r.view.zoom)
      /\ \A c \in Bros \ {b} : q.given[c] = r.given[c]
  BY <1>1, NewFields
<1> HIDE DEF q
<1>3. Lists(q)
  BY <1>2 DEF Sound, Lists, Listed, MvpShaders, ProjShaders
<1>4. Matrices(q)
  BY <1>1, <1>2 DEF Sound, Matrices, Bros
<1>5. Sound(q, lf) /\ Idle(q)
  BY <1>1, <1>2, <1>3, <1>4, WithEmptied
<1> QED BY <1>2, <1>5 DEF q

LEMMA DeleteSound ==
  ASSUME NEW r, NEW lf, Sound(r, lf), Idle(r), NEW b \in {"bg", "laser"}
  PROVE  LET q == ren_delete_bro(r, b) IN
         /\ Sound(q, lf) /\ Idle(q) /\ q.live = r.live \ {b} /\ q.current = r.current
         /\ q.queue = [r.queue EXCEPT ![b] = NoBatch]
<1> DEFINE q == ren_delete_bro(r, b)
<1>1. b \in Bros /\ r \in Renderers
  BY DEF Bros, Sound
<1>2. /\ q \in Renderers /\ q.live = r.live \ {b} /\ q.mvp = r.mvp \ {b} /\ q.proj = r.proj \ {b}
      /\ q.view = r.view /\ q.shown = r.shown /\ q.current = r.current
      /\ q.queue = [r.queue EXCEPT ![b] = NoBatch] /\ q.given[b].mvp = None
      /\ \A c \in Bros \ {b} : q.given[c] = r.given[c]
  BY <1>1, DeleteFields
<1> HIDE DEF q
<1>3. Lists(q)
  BY <1>2 DEF Sound, Lists
<1>4. Matrices(q)
  BY <1>1, <1>2 DEF Sound, Matrices, Bros
<1>5. Sound(q, lf) /\ Idle(q)
  BY <1>1, <1>2, <1>3, <1>4, WithEmptied
<1> QED BY <1>2, <1>5 DEF q

\* the renderer of a client that begins, headless or not
LEMMA BlankFacts ==
  /\ Blank \in Renderers /\ Blank.live = {} /\ Blank.mvp = {} /\ Blank.proj = {} /\ Blank.shown = {}
  /\ Blank.queue = [b \in Bros |-> NoBatch] /\ Blank.view \in View
  /\ \A b \in Bros : Blank.given[b].mvp = None
<1>1. (CHOOSE w \in Windows : TRUE) \in Windows /\ Origin \in Cams /\ 1 \in Zooms
  BY ViewAssumption
<1>2. NoBatch \in Batches /\ NotGiven \in Matrix /\ NotGiven.mvp = None
  BY DEF NoBatch, Batches, NotGiven, Matrix
<1>3. Blank.view \in View
  BY <1>1 DEF Blank, View
<1>4. Blank.queue = [b \in Bros |-> NoBatch] /\ Blank.given = [b \in Bros |-> NotGiven]
  BY DEF Blank
<1>5. Blank.live = {} /\ Blank.mvp = {} /\ Blank.proj = {} /\ Blank.shown = {} /\ Blank.current = None
  BY DEF Blank
<1>6. Blank = [current |-> Blank.current, live |-> Blank.live, mvp |-> Blank.mvp, proj |-> Blank.proj,
               shown |-> Blank.shown, view |-> Blank.view, queue |-> Blank.queue, given |-> Blank.given]
  BY DEF Blank
<1>7. Blank.queue \in [Bros -> Batches] /\ Blank.given \in [Bros -> Matrix]
  BY <1>2, <1>4
<1>8. Blank \in Renderers
  BY <1>3, <1>5, <1>6, <1>7 DEF Renderers
<1> QED BY <1>2, <1>3, <1>4, <1>5, <1>8

LEMMA BlankSound == Sound(Blank, FALSE) /\ Idle(Blank)
<1>1. \A b \in Bros : Blank.queue[b] = NoBatch
  BY BlankFacts
<1>2. \A b \in Bros : NoBatch.count = 0 /\ NoBatch.items = {} /\ 0 <= Capacity(b)
  BY CapacityFacts DEF NoBatch
<1>3. Room(Blank) /\ Queued(Blank, FALSE) /\ "bg" \in Bros /\ "laser" \in Bros
  BY <1>1, <1>2 DEF Room, Queued, Bros
<1> QED BY <1>1, <1>3, BlankFacts DEF Sound, Idle, Lists, Matrices, Shows

LEMMA OpenGLSound ==
  LET q == ren_set_view(ren_viewport(ren_init(Blank), Blank.view.window), Origin, 1) IN
  /\ Sound(q, FALSE) /\ Idle(q) /\ q.live = {"default", "line", "screen"} /\ q.current = "default"
  /\ \A b \in Bros : q.queue[b] = NoBatch
<1> DEFINE d == ren_new_bro(Blank, "default")
           l == ren_new_bro(d, "line")
           s == ren_new_bro(l, "screen")
           i == ren_bind_bro(s, "default")
           v == ren_viewport(i, Blank.view.window)
           q == ren_set_view(v, Origin, 1)
<1>0. "default" \in Bros /\ "line" \in Bros /\ "screen" \in Bros /\ "laser" \in Bros /\ "bg" \in Bros
  BY DEF Bros
<1>1. /\ d \in Renderers /\ d.live = {"default"}
      /\ d.mvp = Listed("default", MvpShaders) /\ d.proj = Listed("default", ProjShaders)
      /\ d.shown = {} /\ d.view = Blank.view /\ \A b \in Bros : d.queue[b] = NoBatch
      /\ d.given["laser"].mvp = None
  <2>0. Blank \in Renderers
    BY BlankFacts
  <2>1. /\ d \in Renderers /\ d.live = Blank.live \cup {"default"}
        /\ d.mvp = Blank.mvp \cup Listed("default", MvpShaders)
        /\ d.proj = Blank.proj \cup Listed("default", ProjShaders)
        /\ d.shown = Blank.shown /\ d.view = Blank.view
        /\ d.queue = [Blank.queue EXCEPT !["default"] = NoBatch]
        /\ \A c \in Bros \ {"default"} : d.given[c] = Blank.given[c]
    BY <1>0, <2>0, NewFields
  <2>2. Blank.queue \in [Bros -> {NoBatch}] /\ Blank.given["laser"].mvp = None
    BY <1>0, BlankFacts
  <2> QED BY <1>0, <2>1, <2>2, BlankFacts
<1> HIDE DEF d
<1>2. /\ l \in Renderers /\ l.live = {"default", "line"}
      /\ l.mvp = d.mvp \cup Listed("line", MvpShaders) /\ l.proj = d.proj \cup Listed("line", ProjShaders)
      /\ l.shown = {} /\ l.view = Blank.view /\ \A b \in Bros : l.queue[b] = NoBatch
      /\ l.given["laser"].mvp = None
  BY <1>0, <1>1, NewFields, RendererFields
<1> HIDE DEF l
<1>3. /\ s \in Renderers /\ s.live = {"default", "line", "screen"}
      /\ s.mvp = l.mvp \cup Listed("screen", MvpShaders) /\ s.proj = l.proj \cup Listed("screen", ProjShaders)
      /\ s.shown = {} /\ s.view = Blank.view /\ \A b \in Bros : s.queue[b] = NoBatch
      /\ s.given["laser"].mvp = None
  BY <1>0, <1>2, NewFields, RendererFields
<1> HIDE DEF s
<1>4. Lists(s)
  BY <1>1, <1>2, <1>3 DEF Lists, Listed, MvpShaders, ProjShaders
<1>5. /\ i \in Renderers /\ i.live = s.live /\ i.mvp = s.mvp /\ i.proj = s.proj /\ i.shown = {}
      /\ i.view = Blank.view /\ i.queue = s.queue /\ i.given = s.given /\ i.current = "default"
  BY <1>0, <1>3 DEF ren_bind_bro, Renderers
<1>6. Shaped(i)
  BY <1>3, <1>4, <1>5 DEF Shaped, Lists
<1>7. Blank.view.window \in Windows /\ Origin \in Cams /\ 1 \in Zooms
  BY BlankFacts, ViewAssumption DEF View
<1> HIDE DEF i
<1>8. /\ v \in Renderers /\ v.mvp = i.mvp /\ v.live = i.live /\ v.proj = i.proj /\ v.queue = i.queue
      /\ v.shown = {} /\ v.current = "default" /\ v.view.window = Blank.view.window
      /\ v.given["laser"].mvp = None
      /\ v.given["screen"].proj = v.view.window
  BY <1>3, <1>5, <1>6, <1>7, ViewportFields
<1> HIDE DEF v
<1>9. Shaped(v)
  BY <1>6, <1>8 DEF Shaped, Lists
<1>10. /\ q \in Renderers /\ q.mvp = v.mvp /\ q.live = v.live /\ q.proj = v.proj
       /\ q.queue = v.queue /\ q.shown = {} /\ q.current = "default"
       /\ q.view.window = v.view.window
       /\ \A b \in v.live \cap {"default", "line"} : q.given[b].mvp = q.view
       /\ q.given["laser"].mvp = None
       /\ \A b \in Bros : q.given[b].proj = v.given[b].proj
  BY <1>3, <1>5, <1>7, <1>8, <1>9, SetViewFields
<1> HIDE DEF q
<1>11. q.live = {"default", "line", "screen"} /\ \A b \in Bros : q.queue[b] = NoBatch
  BY <1>3, <1>5, <1>8, <1>10
<1>12. Matrices(q)
  BY <1>0, <1>8, <1>10, <1>11 DEF Matrices
<1>13. Room(q) /\ Queued(q, FALSE)
  <2>1. \A b \in Bros : NoBatch.count = 0 /\ NoBatch.items = {} /\ 0 <= Capacity(b)
    BY CapacityFacts DEF NoBatch
  <2> QED BY <1>0, <1>11, <2>1 DEF Room, Queued
<1>14. Sound(q, FALSE) /\ Idle(q)
  BY <1>8, <1>9, <1>10, <1>11, <1>12, <1>13 DEF Sound, Idle, Shaped, Lists, Shows
<1>15. ren_set_view(ren_viewport(ren_init(Blank), Blank.view.window), Origin, 1) = q
  BY DEF ren_init, q, v, i, s, l, d
<1> QED BY <1>10, <1>11, <1>14, <1>15

-------------------------------------------------------------------------------
(* States of the client. *)

\* the objects there are: the application's own, and one each of menu and game
Objects(ini) ==
  IF headless THEN {}
  ELSE {"default", "line", "screen"} \cup (IF "menu" \in ini THEN {"bg"} ELSE {})
         \cup (IF "game" \in ini THEN {"laser"} ELSE {})

LEMMA ExitedSound ==
  ASSUME NEW r, NEW lf, Sound(r, lf), Idle(r)
  PROVE  LET q == Exited(r) IN
         /\ Sound(q, lf) /\ Idle(q) /\ q.live = r.live /\ q.queue = r.queue
         /\ q.current = IF state = "menu" /\ ~headless THEN "default" ELSE r.current
<1>1. CASE state = "menu" /\ ~headless
  <2>1. Exited(r) = ren_bind_bro(r, "default") /\ "default" \in Bros
    BY <1>1 DEF Exited, main_menu_exit, Bros
  <2> QED BY <1>1, <2>1, BindSound DEF Idle
<1>2. CASE ~(state = "menu" /\ ~headless)
  BY <1>2 DEF Exited, main_menu_exit
<1> QED BY <1>1, <1>2

LEMMA StateInitSound ==
  ASSUME NEW r, NEW lf, Sound(r, lf), Idle(r), r.live = Objects(inited), NEW to \in States
  PROVE  LET q == StateInit(r, to) IN
         /\ Sound(q, lf) /\ Idle(q) /\ q.live = Objects(inited \cup {to}) /\ q.current = r.current
         /\ q.queue["bg"] \in {r.queue["bg"], NoBatch}
<1>0. r.queue \in [Bros -> Batches] /\ "bg" \in Bros
  BY RendererFields DEF Sound, Bros
<1>1. CASE to \in inited \/ headless \/ to = "editor"
  <2>1. StateInit(r, to) = r
    BY <1>1 DEF StateInit, NewBro, States
  <2>2. Objects(inited \cup {to}) = Objects(inited)
    BY <1>1 DEF Objects
  <2> QED BY <2>1, <2>2
<1>2. ASSUME to \notin inited, ~headless, NEW b \in {"bg", "laser"}, NEW s \in {"menu", "game"},
             to = s, s = "menu" <=> b = "bg"
      PROVE  LET q == StateInit(r, to) IN
             /\ Sound(q, lf) /\ Idle(q) /\ q.live = Objects(inited \cup {to}) /\ q.current = r.current
             /\ q.queue["bg"] \in {r.queue["bg"], NoBatch}
  <2>1. StateInit(r, to) = ren_new_bro(r, b)
    BY <1>2 DEF StateInit, NewBro
  <2>2. Objects(inited \cup {to}) = Objects(inited) \cup {b}
    BY <1>2 DEF Objects
  <2>3. LET q == ren_new_bro(r, b) IN
         /\ Sound(q, lf) /\ Idle(q) /\ q.live = r.live \cup {b} /\ q.current = r.current
         /\ q.queue = [r.queue EXCEPT ![b] = NoBatch]
    BY NewSound
  <2> QED BY <1>0, <2>1, <2>2, <2>3
<1>3. CASE to = "menu" /\ to \notin inited /\ ~headless
  BY <1>3, <1>2
<1>4. CASE to = "game" /\ to \notin inited /\ ~headless
  BY <1>4, <1>2
<1> QED BY <1>1, <1>3, <1>4 DEF States

LEMMA EnteredSound ==
  ASSUME NEW r, NEW lf, Sound(r, lf), Idle(r), NEW to \in States
  PROVE  LET q == Entered(r, to) IN
         /\ Sound(q, lf) /\ Idle(q) /\ q.live = r.live /\ q.queue = r.queue
         /\ q.current = IF to = "menu" /\ ~headless THEN "bg" ELSE r.current
<1>1. CASE to = "menu" /\ ~headless
  <2> DEFINE b == ren_bind_bro(r, "bg")
  <2>1. Entered(r, to) = ren_set_view(b, Origin, 1) /\ "bg" \in Bros
    BY <1>1 DEF Entered, main_menu_enter, Bros
  <2>2. Sound(b, lf) /\ Idle(b) /\ b.live = r.live /\ b.queue = r.queue /\ b.current = "bg"
    BY <2>1, BindSound DEF Idle
  <2> HIDE DEF b
  <2>3. Origin \in Cams /\ 1 \in Zooms
    BY ViewAssumption
  <2> QED BY <1>1, <2>1, <2>2, <2>3, SetViewSound
<1>2. CASE ~(to = "menu" /\ ~headless)
  BY <1>2 DEF Entered, main_menu_enter
<1> QED BY <1>1, <1>2

\* a switch makes what the new state needs, and binds the menu's object for the menu alone
LEMMA SwitchSound ==
  ASSUME NEW r, NEW lf, Sound(r, lf), Idle(r), r.live = Objects(inited), NEW to \in States
  PROVE  LET q == waapp_state_switch(r, to) IN
         /\ Sound(q, lf) /\ Idle(q) /\ q.live = Objects(inited \cup {to})
         /\ q.queue["bg"] \in {r.queue["bg"], NoBatch}
         /\ q.current = IF headless THEN r.current ELSE IF to = "menu" THEN "bg"
                        ELSE IF state = "menu" THEN "default" ELSE r.current
<1> DEFINE x == Exited(r)
           i == StateInit(x, to)
           e == Entered(i, to)
<1>1. /\ Sound(x, lf) /\ Idle(x) /\ x.live = r.live /\ x.queue = r.queue
      /\ x.current = IF state = "menu" /\ ~headless THEN "default" ELSE r.current
  BY ExitedSound
<1> HIDE DEF x
<1>2. /\ Sound(i, lf) /\ Idle(i) /\ i.live = Objects(inited \cup {to}) /\ i.current = x.current
      /\ i.queue["bg"] \in {r.queue["bg"], NoBatch}
  BY <1>1, StateInitSound
<1> HIDE DEF i
<1>3. /\ Sound(e, lf) /\ Idle(e) /\ e.live = i.live /\ e.queue = i.queue
      /\ e.current = IF to = "menu" /\ ~headless THEN "bg" ELSE i.current
  BY <1>2, EnteredSound
<1>4. waapp_state_switch(r, to) = e
  BY DEF waapp_state_switch, e, i, x
<1> HIDE DEF e
<1> QED BY <1>1, <1>2, <1>3, <1>4

-------------------------------------------------------------------------------
(* The inductive invariant. *)

Typed ==
  /\ headless \in BOOLEAN /\ pending \in BOOLEAN /\ lock_cam \in BOOLEAN
  /\ map \in BOOLEAN /\ left \in BOOLEAN
  /\ state \in States /\ prev \in States \cup {"none"} /\ inited \subseteq States
  /\ player \in {"none", "new", "own", "lost"}
  /\ pc \in Parts /\ crashed \in {"no", "gl", "player"}
  /\ ren \in Renderers /\ Room(ren) /\ Shows(ren, left)

Crashes ==
  /\ crashed = "gl" => headless
  /\ crashed = "player" => lock_cam /\ player \in {"none", "lost"}

\* a switch never leads to the state that was left last, so what is cleaned up is not in use
Manager == state \in inited /\ prev # state

\* the menu's object is bound in the menu alone
Bound ==
  /\ ~headless => ren.current = "default" \/ (ren.current = "bg" /\ state = "menu")
  /\ state = "editor" => ren.current = "default" /\ ren.queue["bg"] = NoBatch

EditorParts == {"editor map", "grid", "editor end"}

\* where a frame is, and which objects may hold something then
Stage ==
  /\ headless => pc \in {"idle", "end"} /\ state # "editor"
  /\ pc = "idle" => Idle(ren)
  /\ pc = "end" => \A b \in Bros \ {"bg"} : ren.queue[b] = NoBatch
  /\ pc \in {"map", "bullets", "players"} => ren.current = "default" /\ "game" \in inited
  /\ pc = "players" => ren.queue["laser"] = NoBatch
  /\ pc \in EditorParts =>
       /\ ren.queue["laser"] = NoBatch /\ ren.queue["screen"] = NoBatch
       /\ ren.current = "bg" => ren.queue["default"] = NoBatch /\ (pc # "editor end" => left)

Runs ==
  /\ crashed = "no" /\ Sound(ren, left) /\ ren.live = Objects(inited)
  /\ ren.queue["bg"] = NoBatch \/ left
  /\ Manager /\ Bound /\ Stage

IInv == Typed /\ Crashes /\ (pc # "down" => Runs)

LEMMA InitHolds == Init => IInv
<1> SUFFICES ASSUME Init PROVE IInv
  OBVIOUS
<1>1. /\ headless \in BOOLEAN /\ state = "menu" /\ prev = "none" /\ pending = FALSE /\ inited = {"menu"}
      /\ player = "none" /\ lock_cam = TRUE /\ map = FALSE /\ left = FALSE
      /\ pc = "idle" /\ crashed = "no"
  BY DEF Init
<1>2. /\ Sound(ren, FALSE) /\ Idle(ren) /\ ren.live = Objects({"menu"})
      /\ ren.queue["bg"] = NoBatch /\ (~headless => ren.current = "bg")
  <2>1. CASE headless
    <3>1. ren = Blank
      BY <2>1 DEF Init, main_menu_enter, NewBro, waapp_opengl_init
    <3>2. Blank.live = {} /\ Blank.queue["bg"] = NoBatch
      BY BlankFacts DEF Bros
    <3> QED BY <2>1, <3>1, <3>2, BlankSound DEF Objects
  <2>2. CASE ~headless
    <3> DEFINE o == ren_set_view(ren_viewport(ren_init(Blank), Blank.view.window), Origin, 1)
               b == ren_new_bro(o, "bg")
    <3>1. ren = Entered(b, "menu")
      BY <2>2 DEF Init, NewBro, waapp_opengl_init, Entered
    <3>2. /\ Sound(o, FALSE) /\ Idle(o) /\ o.live = {"default", "line", "screen"}
          /\ \A c \in Bros : o.queue[c] = NoBatch
      BY OpenGLSound
    <3> HIDE DEF o
    <3>3. /\ Sound(b, FALSE) /\ Idle(b) /\ b.live = o.live \cup {"bg"}
          /\ b.queue = [o.queue EXCEPT !["bg"] = NoBatch]
      BY <3>2, NewSound
    <3>4. b.queue["bg"] = NoBatch
      BY <3>2, <3>3, RendererFields DEF Sound, Bros
    <3> HIDE DEF b
    <3>5. /\ Sound(ren, FALSE) /\ Idle(ren) /\ ren.live = b.live /\ ren.queue = b.queue
          /\ ren.current = "bg"
      BY <2>2, <3>1, <3>3, EnteredSound DEF States
    <3> QED BY <2>2, <3>2, <3>3, <3>4, <3>5 DEF Objects
  <2> QED BY <2>1, <2>2
<1>3. Typed
  BY <1>1, <1>2 DEF Typed, States, Parts, Sound
<1>4. Runs
  BY <1>1, <1>2 DEF Runs, Manager, Bound, Stage, EditorParts
<1> QED BY <1>1, <1>3, <1>4 DEF IInv, Crashes

-------------------------------------------------------------------------------
(* Drawing: the steps inside a frame. *)

LEMMA Drawn ==
  ASSUME IInv, pc # "down", UNCHANGED <<headless, stateVars, player, lock_cam, map, left, crashed>>,
         pc' \in Parts \ {"down"}, Sound(ren', left), ren'.live = ren.live,
         ren'.current \in {"default", ren.current},
         ren'.queue["bg"] \in {ren.queue["bg"], NoBatch} \/ (ren.current = "bg" /\ left),
         Stage'
  PROVE  IInv'
<1> USE DEF stateVars
<1>1. Typed' /\ Crashes'
  BY DEF IInv, Typed, Crashes, Sound
<1>2. Runs /\ ren'.live = Objects(inited)'
  BY DEF IInv, Runs, Objects
<1>3. Manager' /\ Bound'
  BY <1>2 DEF Runs, Manager, Bound
<1>4. ren'.queue["bg"] = NoBatch \/ left
  BY <1>2 DEF Runs
<1> QED BY <1>1, <1>2, <1>3, <1>4 DEF IInv, Runs

\* what a step inside a frame starts from
LEMMA InFrame ==
  ASSUME IInv, pc \in Parts \ {"idle", "end", "down"}
  PROVE  /\ Sound(ren, left) /\ ~headless /\ left \in BOOLEAN
         /\ {"default", "line", "screen"} \subseteq ren.live
         /\ pc \in {"map", "bullets", "players"} => "laser" \in ren.live
         /\ Stage /\ ren.current \in {"default", "bg"}
<1>1. Runs
  BY DEF IInv
<1> QED BY <1>1 DEF IInv, Typed, Runs, Stage, Bound, Objects, Parts

LEMMA StepCell == ASSUME IInv, game_render_cell PROVE IInv'
<1>1. /\ pc \in {"map", "editor map"} /\ pc' = pc /\ ren' = ren_draw_rect(ren, "cell")
      /\ UNCHANGED <<headless, stateVars, player, lock_cam, map, left, crashed>>
  BY DEF game_render_cell
<1>2. /\ Sound(ren, left) /\ ~headless /\ left \in BOOLEAN /\ "default" \in ren.live /\ Stage
      /\ ren.current \in {"default", "bg"}
  BY <1>1, InFrame DEF Parts
<1>3. BroOf("cell") = "default" /\ "cell" \in Kinds /\ (ren.current = "bg" => left)
  BY <1>1, <1>2 DEF BroOf, Kinds, Stage, EditorParts
<1>4. LET q == ren_draw_rect(ren, "cell") IN Sound(q, left) /\ OnlyQueue(q, ren, ren.current)
  BY <1>2, <1>3, DrawRectSound
<1>5. /\ Sound(ren', left) /\ ren'.live = ren.live /\ ren'.current = ren.current
      /\ \A b \in Bros \ {ren.current} : ren'.queue[b] = ren.queue[b]
  BY <1>1, <1>4 DEF OnlyQueue
<1>6. Stage'
  BY <1>1, <1>2, <1>5 DEF Stage, EditorParts, stateVars, Bros
<1>7. ren'.queue["bg"] \in {ren.queue["bg"], NoBatch} \/ (ren.current = "bg" /\ left)
  BY <1>3, <1>5 DEF Bros
<1> QED BY <1>1, <1>5, <1>6, <1>7, Drawn DEF Parts

\* the border of the map
LEMMA BorderSound ==
  ASSUME NEW r, NEW lf \in BOOLEAN, Sound(r, lf), "line" \in r.live
  PROVE  LET q == MapBorder(r) IN
         /\ Sound(q, lf) /\ q.live = r.live /\ q.current = "default"
         /\ \A b \in Bros \ {"line"} : q.queue[b] = r.queue[b]
<1> DEFINE l == Rect(r, "line", "line")
<1>1. BroOf("line") = "line" /\ "line" \in Kinds /\ "default" \in Bros
  BY DEF BroOf, Kinds, Bros
<1>2. Sound(l, lf) /\ OnlyQueue(l, r, "line")
  BY <1>1, RectSound
<1>3. MapBorder(r) = ren_bind_bro(l, "default")
  BY DEF MapBorder, ren_default_draw_rect_lines
<1> HIDE DEF l
<1> QED BY <1>1, <1>2, <1>3, BindSound DEF OnlyQueue

LEMMA StepMap == ASSUME IInv, game_render_map PROVE IInv'
<1> DEFINE m == MapBorder(ren)
<1>1. /\ pc = "map" /\ pc' = "bullets" /\ ren' = ren_draw_batch(m)
      /\ UNCHANGED <<headless, stateVars, player, lock_cam, map, left, crashed>>
  BY DEF game_render_map
<1>2. /\ Sound(ren, left) /\ ~headless /\ left \in BOOLEAN /\ {"default", "line"} \subseteq ren.live /\ Stage
  BY <1>1, InFrame DEF Parts
<1>3. /\ Sound(m, left) /\ m.live = ren.live /\ m.current = "default"
      /\ \A b \in Bros \ {"line"} : m.queue[b] = ren.queue[b]
  BY <1>2, BorderSound
<1> HIDE DEF m
<1>4. ren' = bro_draw_batch(m, "default")
  BY <1>1, <1>3 DEF ren_draw_batch
<1>5. Sound(ren', left) /\ OnlyQueue(ren', m, "default")
  BY <1>2, <1>3, <1>4, DrawSound
<1>6. /\ ren'.live = ren.live /\ ren'.current = "default" /\ ren'.queue["bg"] = ren.queue["bg"]
  BY <1>3, <1>5 DEF OnlyQueue, Bros
<1>7. Stage'
  BY <1>1, <1>2, <1>6 DEF Stage, EditorParts, stateVars
<1> QED BY <1>1, <1>5, <1>6, <1>7, Drawn DEF Parts

\* a step of the bullets' part that queues something, but nothing of the menu's
LEMMA StepBullets ==
  ASSUME IInv, game_render_bullets \/ game_render_bullet_debug
  PROVE  IInv'
<1>1. /\ pc = "bullets" /\ pc' = pc
      /\ UNCHANGED <<headless, stateVars, player, lock_cam, map, left, crashed>>
  BY DEF game_render_bullets, game_render_bullet_debug
<1>2. /\ Sound(ren, left) /\ ~headless /\ left \in BOOLEAN /\ Stage
      /\ {"default", "line", "laser"} \subseteq ren.live
  BY <1>1, InFrame DEF Parts
<1>3. /\ BroOf("laser") = "laser" /\ "laser" \in Kinds /\ BroOf("cell") = "default" /\ "cell" \in Kinds
  BY DEF BroOf, Kinds
<1> DEFINE Kept(q) == /\ Sound(q, left) /\ q.live = ren.live /\ q.current = ren.current
                      /\ q.queue["bg"] = ren.queue["bg"]
<1>4. ASSUME ren' = ren_laser_draw_misc(ren, "laser") PROVE Kept(ren')
  <2>1. LET q == Rect(ren, "laser", "laser") IN Sound(q, left) /\ OnlyQueue(q, ren, "laser")
    BY <1>2, <1>3, RectSound
  <2> QED BY <1>4, <2>1 DEF ren_laser_draw_misc, OnlyQueue, Bros
<1>5. ASSUME ren' = ren_default_draw_rect(ren, "cell") PROVE Kept(ren')
  <2>1. LET q == Rect(ren, "default", "cell") IN Sound(q, left) /\ OnlyQueue(q, ren, "default")
    BY <1>2, <1>3, RectSound
  <2> QED BY <1>5, <2>1 DEF ren_default_draw_rect, OnlyQueue, Bros
<1>6. ASSUME ren' = ren_default_draw_line(ren_default_draw_line(ren)) PROVE Kept(ren')
  <2> DEFINE l == ren_default_draw_line(ren)
  <2>1. Sound(l, left) /\ OnlyQueue(l, ren, "line")
    BY <1>2, LineSound
  <2> HIDE DEF l
  <2>2. LET q == ren_default_draw_line(l) IN Sound(q, left) /\ OnlyQueue(q, l, "line")
    BY <1>2, <2>1, LineSound DEF OnlyQueue
  <2>3. ren' = ren_default_draw_line(l)
    BY <1>6 DEF l
  <2> QED BY <2>1, <2>2, <2>3 DEF OnlyQueue, Bros
<1>7. Kept(ren')
  BY <1>4, <1>5, <1>6 DEF game_render_bullets, game_render_bullet_debug
<1>8. Stage'
  BY <1>1, <1>2, <1>7 DEF Stage, EditorParts, stateVars
<1> QED BY <1>1, <1>7, <1>8, Drawn DEF Parts

LEMMA StepBulletsDrawn == ASSUME IInv, BulletsDrawn PROVE IInv'
<1> DEFINE d == bro_draw_batch(ren, "laser")
<1>1. /\ pc = "bullets" /\ pc' = "players" /\ ren' = ren_bind_bro(d, "default")
      /\ UNCHANGED <<headless, stateVars, player, lock_cam, map, left, crashed>>
  BY DEF BulletsDrawn
<1>2. /\ Sound(ren, left) /\ ~headless /\ left \in BOOLEAN /\ Stage /\ "laser" \in ren.live
  BY <1>1, InFrame DEF Parts
<1>3. Sound(d, left) /\ OnlyQueue(d, ren, "laser") /\ d.queue["laser"] = NoBatch
  BY <1>2, DrawSound
<1> HIDE DEF d
<1>4. /\ Sound(ren', left) /\ ren'.live = d.live /\ ren'.current = "default" /\ ren'.queue = d.queue
  BY <1>1, <1>3, BindSound DEF Bros
<1>5. ren'.live = ren.live /\ ren'.queue["bg"] = ren.queue["bg"] /\ ren'.queue["laser"] = NoBatch
  BY <1>3, <1>4 DEF OnlyQueue, Bros
<1>6. Stage'
  BY <1>1, <1>2, <1>4, <1>5 DEF Stage, EditorParts, stateVars
<1> QED BY <1>1, <1>4, <1>5, <1>6, Drawn DEF Parts

LEMMA StepPlayers == ASSUME IInv, game_render_players PROVE IInv'
<1>1. /\ pc = "players" /\ pc' = pc
      /\ UNCHANGED <<headless, stateVars, player, lock_cam, map, left, crashed>>
      /\ \/ ren' = ren_default_draw_rect(ren, "bar")
         \/ ren' = ren_draw_rect(ren, "body") \/ ren' = ren_draw_rect(ren, "cell")
  BY DEF game_render_players, game_render_player
<1>2. /\ Sound(ren, left) /\ ~headless /\ left \in BOOLEAN /\ Stage /\ "default" \in ren.live
      /\ ren.current = "default"
  BY <1>1, InFrame DEF Parts, Stage
<1>3. /\ BroOf("bar") = "default" /\ BroOf("body") = "default" /\ BroOf("cell") = "default"
      /\ {"bar", "body", "cell"} \subseteq Kinds
  BY DEF BroOf, Kinds
<1>4. Sound(ren', left) /\ OnlyQueue(ren', ren, "default")
  <2>1. LET q == Rect(ren, "default", "bar") IN Sound(q, left) /\ OnlyQueue(q, ren, "default")
    BY <1>2, <1>3, RectSound
  <2>2. LET q == ren_draw_rect(ren, "body") IN Sound(q, left) /\ OnlyQueue(q, ren, ren.current)
    BY <1>2, <1>3, DrawRectSound
  <2>3. LET q == ren_draw_rect(ren, "cell") IN Sound(q, left) /\ OnlyQueue(q, ren, ren.current)
    BY <1>2, <1>3, DrawRectSound
  <2> QED BY <1>1, <1>2, <2>1, <2>2, <2>3 DEF ren_default_draw_rect
<1>5. /\ ren'.live = ren.live /\ ren'.current = ren.current /\ ren'.queue["bg"] = ren.queue["bg"]
      /\ ren'.queue["laser"] = ren.queue["laser"]
  BY <1>4 DEF OnlyQueue, Bros
<1>6. Stage'
  BY <1>1, <1>2, <1>5 DEF Stage, EditorParts, stateVars
<1> QED BY <1>1, <1>4, <1>5, <1>6, Drawn DEF Parts

\* the end of the game's frame flushes every object it drew with
LEMMA StepDraw == ASSUME IInv, game_draw PROVE IInv'
<1> DEFINE d == bro_draw_batch(ren, "default")
           l == bro_draw_batch(d, "line")
           h == Rect(l, "screen", "hud")
           i == Rect(h, "screen", "hud")
           s == bro_draw_batch(i, "screen")
<1>1. /\ pc = "players" /\ pc' = "end"
      /\ UNCHANGED <<headless, stateVars, player, lock_cam, map, left, crashed>>
  BY DEF game_draw
<1>2. /\ Sound(ren, left) /\ ~headless /\ left \in BOOLEAN /\ Stage
      /\ {"default", "line", "screen"} \subseteq ren.live
      /\ ren.current = "default" /\ ren.queue["laser"] = NoBatch
  BY <1>1, InFrame DEF Parts, Stage
<1>3. ren' = s
  BY <1>2 DEF game_draw, game_render_screen_ui, ren_draw_batch, ren_screen_draw_rect
<1>4. BroOf("hud") = "screen" /\ "hud" \in Kinds
  BY DEF BroOf, Kinds
<1>5. Sound(d, left) /\ OnlyQueue(d, ren, "default") /\ d.queue["default"] = NoBatch
  BY <1>2, DrawSound
<1> HIDE DEF d
<1>6. Sound(l, left) /\ OnlyQueue(l, d, "line") /\ l.queue["line"] = NoBatch
  <2>1. "line" \in d.live
    BY <1>2, <1>5 DEF OnlyQueue
  <2> QED BY <1>2, <1>5, <2>1, DrawSound
<1>7. "screen" \in l.live
  BY <1>2, <1>5, <1>6 DEF OnlyQueue
<1> HIDE DEF l
<1>8. Sound(h, left) /\ OnlyQueue(h, l, "screen")
  BY <1>2, <1>4, <1>6, <1>7, RectSound
<1>9. "screen" \in h.live
  BY <1>7, <1>8 DEF OnlyQueue
<1> HIDE DEF h
<1>10. Sound(i, left) /\ OnlyQueue(i, h, "screen")
  BY <1>2, <1>4, <1>8, <1>9, RectSound
<1>11. "screen" \in i.live
  BY <1>9, <1>10 DEF OnlyQueue
<1> HIDE DEF i
<1>12. Sound(s, left) /\ OnlyQueue(s, i, "screen") /\ s.queue["screen"] = NoBatch
  BY <1>2, <1>10, <1>11, DrawSound
<1> HIDE DEF s
<1>13. /\ s.live = ren.live /\ s.current = "default" /\ s.queue["bg"] = ren.queue["bg"]
       /\ \A b \in Bros \ {"bg"} : s.queue[b] = NoBatch
  BY <1>2, <1>5, <1>6, <1>8, <1>10, <1>12 DEF OnlyQueue, Bros
<1>14. Stage'
  BY <1>1, <1>2, <1>3, <1>13 DEF Stage, EditorParts, stateVars
<1> QED BY <1>1, <1>3, <1>12, <1>13, <1>14, Drawn DEF Parts

LEMMA StepEditorMap == ASSUME IInv, EditorMap PROVE IInv'
<1>1. /\ pc = "editor map" /\ pc' = "grid" /\ ren' = ren
      /\ UNCHANGED <<headless, stateVars, player, lock_cam, map, left, crashed>>
  BY DEF EditorMap
<1>2. Sound(ren, left) /\ ~headless /\ Stage
  BY <1>1, InFrame DEF Parts
<1>3. Stage'
  BY <1>1, <1>2 DEF Stage, EditorParts, stateVars
<1> QED BY <1>1, <1>2, <1>3, Drawn DEF Parts

LEMMA StepGrid == ASSUME IInv, game_render_grid PROVE IInv'
<1>1. /\ pc = "grid" /\ pc' = pc /\ ren' = ren_default_draw_line(ren)
      /\ UNCHANGED <<headless, stateVars, player, lock_cam, map, left, crashed>>
  BY DEF game_render_grid
<1>2. Sound(ren, left) /\ left \in BOOLEAN /\ ~headless /\ Stage /\ "line" \in ren.live
  BY <1>1, InFrame DEF Parts
<1>3. LET q == ren_default_draw_line(ren) IN Sound(q, left) /\ OnlyQueue(q, ren, "line")
  BY <1>2, LineSound
<1>4. /\ Sound(ren', left) /\ ren'.live = ren.live /\ ren'.current = ren.current
      /\ \A b \in {"bg", "default", "laser", "screen"} : ren'.queue[b] = ren.queue[b]
  BY <1>1, <1>3 DEF OnlyQueue, Bros
<1>5. Stage'
  BY <1>1, <1>2, <1>4 DEF Stage, EditorParts, stateVars
<1> QED BY <1>1, <1>4, <1>5, Drawn DEF Parts

LEMMA StepGridDrawn == ASSUME IInv, GridDrawn PROVE IInv'
<1>1. /\ pc = "grid" /\ pc' = "editor end" /\ ren' = MapBorder(ren)
      /\ UNCHANGED <<headless, stateVars, player, lock_cam, map, left, crashed>>
  BY DEF GridDrawn
<1>2. Sound(ren, left) /\ left \in BOOLEAN /\ ~headless /\ Stage /\ "line" \in ren.live
  BY <1>1, InFrame DEF Parts
<1>3. LET q == MapBorder(ren) IN
        /\ Sound(q, left) /\ q.live = ren.live /\ q.current = "default"
        /\ \A b \in Bros \ {"line"} : q.queue[b] = ren.queue[b]
  BY <1>2, BorderSound
<1>4. /\ Sound(ren', left) /\ ren'.live = ren.live /\ ren'.current = "default"
      /\ \A b \in {"bg", "default", "laser", "screen"} : ren'.queue[b] = ren.queue[b]
  BY <1>1, <1>3 DEF Bros
<1>5. Stage'
  BY <1>1, <1>2, <1>4 DEF Stage, EditorParts, stateVars
<1> QED BY <1>1, <1>4, <1>5, Drawn DEF Parts

\* the editor's flush: what is bound, then the lines
LEMMA StepEditorDrawn == ASSUME IInv, EditorDrawn PROVE IInv'
<1> DEFINE d == bro_draw_batch(ren, ren.current)
           b == ren_bind_bro(d, "line")
           l == bro_draw_batch(b, "line")
           e == ren_bind_bro(l, "default")
<1>1. /\ pc = "editor end" /\ pc' = "end" /\ ren' = EditorFlush(ren)
      /\ UNCHANGED <<headless, stateVars, player, lock_cam, map, left, crashed>>
  BY DEF EditorDrawn
<1>2. /\ Sound(ren, left) /\ left \in BOOLEAN /\ ~headless /\ Stage
      /\ {"default", "line"} \subseteq ren.live /\ ren.current \in {"default", "bg"}
      /\ ren.queue["laser"] = NoBatch /\ ren.queue["screen"] = NoBatch
      /\ ren.current = "bg" => ren.queue["default"] = NoBatch
  BY <1>1, InFrame DEF Parts, Stage, EditorParts
<1>3. Sound(d, left) /\ OnlyQueue(d, ren, ren.current) /\ d.queue[ren.current] = NoBatch
  BY <1>2, DrawSound
<1>4. EditorFlush(ren) = e
  <2>1. b.current = "line"
    BY <1>3, BindSound DEF Bros
  <2> QED BY <2>1 DEF EditorFlush, ren_draw_batch
<1> HIDE DEF d
<1>5. Sound(b, left) /\ b.live = d.live /\ b.queue = d.queue
  BY <1>3, BindSound DEF Bros
<1>6. "line" \in b.live
  BY <1>2, <1>3, <1>5 DEF OnlyQueue
<1> HIDE DEF b
<1>7. Sound(l, left) /\ OnlyQueue(l, b, "line") /\ l.queue["line"] = NoBatch
  BY <1>2, <1>5, <1>6, DrawSound
<1> HIDE DEF l
<1>8. Sound(e, left) /\ e.live = l.live /\ e.queue = l.queue /\ e.current = "default"
  BY <1>7, BindSound DEF Bros
<1> HIDE DEF e
<1>9. /\ e.live = ren.live /\ \A c \in Bros \ {"bg"} : e.queue[c] = NoBatch
      /\ e.queue["bg"] \in {ren.queue["bg"], NoBatch}
  BY <1>2, <1>3, <1>5, <1>7, <1>8 DEF OnlyQueue, Bros
<1>10. ren' = e
  BY <1>1, <1>4
<1>11. Stage'
  BY <1>1, <1>2, <1>9, <1>10 DEF Stage, EditorParts, stateVars
<1> QED BY <1>1, <1>8, <1>9, <1>10, <1>11, Drawn DEF Parts

-------------------------------------------------------------------------------
(* Between two frames. *)

LEMMA AtIdle ==
  ASSUME IInv, pc = "idle"
  PROVE  /\ Sound(ren, left) /\ Idle(ren) /\ ren.live = Objects(inited) /\ ren \in Renderers
         /\ ren.queue["bg"] = NoBatch \/ left
         /\ Manager /\ Bound /\ Typed /\ crashed = "no" /\ left \in BOOLEAN
         /\ headless => state # "editor"
  BY DEF IInv, Runs, Stage, Typed

\* packets and events move the camera at most, and a camera without its player ends the program
LEMMA Viewed ==
  ASSUME IInv, pc = "idle", UNCHANGED <<headless, stateVars, map, left>>,
         lock_cam' \in BOOLEAN, player' \in {"none", "new", "own", "lost"},
         Sound(ren', left), Idle(ren'), ren'.live = ren.live,
         ren'.current = ren.current, ren'.queue = ren.queue,
         \/ UNCHANGED <<pc, crashed>>
         \/ pc' = "down" /\ crashed' = "player" /\ lock_cam' /\ player' \in {"none", "lost"}
  PROVE  IInv'
<1> USE DEF stateVars
<1>1. /\ ren.queue["bg"] = NoBatch \/ left
      /\ Manager /\ Bound /\ Typed /\ crashed = "no" /\ (headless => state # "editor")
      /\ ren.live = Objects(inited)
  BY AtIdle
<1>2. Typed'
  BY <1>1 DEF Typed, Sound, Parts
<1>3. Crashes'
  BY <1>1 DEF Crashes
<1>4. pc' # "down" => Runs'
  BY <1>1 DEF Runs, Manager, Bound, Stage, EditorParts, Objects
<1> QED BY <1>2, <1>3, <1>4 DEF IInv

LEMMA LockCamSound ==
  ASSUME NEW r, Sound(r, left), Idle(r), LockCam(r)
  PROVE  /\ Sound(ren', left) /\ Idle(ren') /\ ren'.live = r.live /\ ren'.current = r.current
         /\ ren'.queue = r.queue
         /\ \/ UNCHANGED <<pc, crashed>>
            \/ pc' = "down" /\ crashed' = "player" /\ player \notin {"new", "own"}
<1>1. CASE player \in {"new", "own"}
  <2>1. PICK cam \in Cams : ren' = ren_set_view(r, cam, r.view.zoom)
    BY <1>1 DEF LockCam
  <2>2. r.view.zoom \in Zooms
    BY RendererFields DEF Sound, View
  <2>3. LET q == ren_set_view(r, cam, r.view.zoom) IN
         /\ Sound(q, left) /\ Idle(q) /\ q.live = r.live /\ q.current = r.current /\ q.queue = r.queue
    BY <2>2, SetViewSound
  <2> QED BY <1>1, <2>1, <2>3 DEF LockCam
<1>2. CASE player \notin {"new", "own"}
  BY <1>2 DEF LockCam
<1> QED BY <1>1, <1>2

LEMMA StepPlayerComes == ASSUME IInv, game_new_player \/ do_reconnect PROVE IInv'
<1>1. /\ pc = "idle" /\ UNCHANGED <<headless, stateVars, ren, lock_cam, map, left, pc, crashed>>
      /\ player' \in {"none", "new", "own", "lost"}
  BY DEF game_new_player, do_reconnect
<1>2. lock_cam' \in BOOLEAN
  BY <1>1 DEF IInv, Typed
<1> QED BY <1>1, <1>2, AtIdle, Viewed

LEMMA StepResize == ASSUME IInv, waapp_resize PROVE IInv'
<1>1. PICK window \in Windows :
        LET r == ren_viewport(ren, window) IN
        IF "game" \in inited /\ lock_cam THEN LockCam(r) ELSE ren' = r /\ UNCHANGED <<pc, crashed>>
  BY DEF waapp_resize
<1>2. pc = "idle" /\ UNCHANGED <<headless, stateVars, player, lock_cam, map, left>>
  BY DEF waapp_resize
<1>3. Sound(ren, left) /\ Idle(ren)
      /\ lock_cam \in BOOLEAN /\ player \in {"none", "new", "own", "lost"}
  BY <1>2, AtIdle DEF Typed
<1> DEFINE v == ren_viewport(ren, window)
<1>4. Sound(v, left) /\ Idle(v) /\ v.live = ren.live /\ v.current = ren.current /\ v.queue = ren.queue
  BY <1>3, ViewportSound
<1>5. \/ lock_cam /\ LockCam(v)
      \/ ren' = v /\ UNCHANGED <<pc, crashed>>
  BY <1>1
<1> HIDE DEF v
<1>6. /\ Sound(ren', left) /\ Idle(ren') /\ ren'.live = v.live /\ ren'.current = v.current
      /\ ren'.queue = v.queue
      /\ \/ UNCHANGED <<pc, crashed>>
         \/ pc' = "down" /\ crashed' = "player" /\ lock_cam /\ player \notin {"new", "own"}
  BY <1>4, <1>5, LockCamSound
<1> QED BY <1>2, <1>3, <1>4, <1>6, Viewed

LEMMA StepWheel == ASSUME IInv, game_handle_mouse_wheel PROVE IInv'
<1>1. PICK zoom \in Zooms :
        LET r == Zoomed(ren, zoom) IN
        IF "game" \in inited /\ lock_cam THEN LockCam(r)
        ELSE (\E cam \in Cams : ren' = ren_set_view(r, cam, zoom)) /\ UNCHANGED <<pc, crashed>>
  BY DEF game_handle_mouse_wheel
<1>2. pc = "idle" /\ ~headless /\ UNCHANGED <<headless, stateVars, player, lock_cam, map, left>>
  BY DEF game_handle_mouse_wheel
<1>3. Sound(ren, left) /\ Idle(ren) /\ ren.live = Objects(inited)
      /\ lock_cam \in BOOLEAN /\ player \in {"none", "new", "own", "lost"}
  BY <1>2, AtIdle DEF Typed
<1> DEFINE z == Zoomed(ren, zoom)
           given == "game" \in inited
<1>4. given \in BOOLEAN /\ (given \/ "laser" \notin ren.live)
  BY <1>3 DEF Objects
<1>5. Sound(z, left) /\ Idle(z) /\ z.live = ren.live /\ z.current = ren.current /\ z.queue = ren.queue
      /\ z.view.zoom = zoom
  <2>1. z = LET v == ren_set_view(ren, ren.view.cam, zoom) IN
            IF given THEN [v EXCEPT !.given["laser"].scale = zoom] ELSE v
    BY DEF Zoomed
  <2> HIDE DEF z, given
  <2> QED BY <1>3, <1>4, <2>1, ZoomedSound
<1>6. \/ lock_cam /\ LockCam(z)
      \/ (\E cam \in Cams : ren' = ren_set_view(z, cam, zoom)) /\ UNCHANGED <<pc, crashed>>
  BY <1>1
<1> HIDE DEF z, given
<1>7. ASSUME NEW cam \in Cams, ren' = ren_set_view(z, cam, zoom)
      PROVE  /\ Sound(ren', left) /\ Idle(ren') /\ ren'.live = z.live /\ ren'.current = z.current
             /\ ren'.queue = z.queue
  <2>1. LET q == ren_set_view(z, cam, zoom) IN
         /\ Sound(q, left) /\ Idle(q) /\ q.live = z.live /\ q.current = z.current /\ q.queue = z.queue
    BY <1>5, SetViewSound
  <2> QED BY <1>7, <2>1
<1>8. /\ Sound(ren', left) /\ Idle(ren') /\ ren'.live = z.live /\ ren'.current = z.current
      /\ ren'.queue = z.queue
      /\ \/ UNCHANGED <<pc, crashed>>
         \/ pc' = "down" /\ crashed' = "player" /\ lock_cam /\ player \notin {"new", "own"}
  BY <1>5, <1>6, <1>7, LockCamSound
<1> QED BY <1>2, <1>3, <1>5, <1>8, Viewed

LEMMA StepKey == ASSUME IInv, game_handle_key PROVE IInv'
<1>1. /\ pc = "idle" /\ UNCHANGED <<headless, stateVars, player, map, left>> /\ lock_cam' = ~lock_cam
      /\ IF lock_cam THEN UNCHANGED <<ren, pc, crashed>> ELSE LockCam(ren)
  BY DEF game_handle_key
<1>2. Sound(ren, left) /\ Idle(ren)
      /\ lock_cam \in BOOLEAN /\ player \in {"none", "new", "own", "lost"}
  BY <1>1, AtIdle DEF Typed
<1>3. /\ Sound(ren', left) /\ Idle(ren') /\ ren'.live = ren.live /\ ren'.current = ren.current
      /\ ren'.queue = ren.queue
      /\ \/ UNCHANGED <<pc, crashed>>
         \/ pc' = "down" /\ crashed' = "player" /\ ~lock_cam /\ player \notin {"new", "own"}
  BY <1>1, <1>2, LockCamSound
<1> QED BY <1>1, <1>2, <1>3, Viewed

-------------------------------------------------------------------------------
(* Switches, and the beginnings of frames. *)

LEMMA Changed ==
  ASSUME IInv, pc # "down", headless' = headless, crashed' = crashed,
         pending' \in BOOLEAN, lock_cam' \in BOOLEAN, map' \in BOOLEAN, left' \in BOOLEAN,
         player' \in {"none", "new", "own", "lost"},
         state' \in States, prev' \in States \cup {"none"}, inited' \subseteq States,
         pc' \in Parts \ {"down"},
         Sound(ren', left'), ren'.live = Objects(inited'), ren'.queue["bg"] = NoBatch \/ left',
         Manager', Bound', Stage'
  PROVE  IInv'
<1>1. Typed /\ crashed = "no"
  BY DEF IInv, Runs
<1>2. Typed' /\ Crashes'
  BY <1>1 DEF Typed, Crashes, Sound
<1>3. Runs'
  BY <1>1 DEF Runs, Objects
<1> QED BY <1>2, <1>3 DEF IInv

\* nothing shown, and no cell in the menu's object, or the flag
LEMMA Flagged ==
  ASSUME NEW r, NEW lf, NEW lf2, Sound(r, lf), r.shown = {}, lf2 \/ r.queue["bg"].items = {}
  PROVE  Sound(r, lf2)
  BY DEF Sound, Queued, Shows

LEMMA StepSwitch == ASSUME IInv, udp_info \/ game_server_shutdown PROVE IInv'
<1>1. PICK to \in {"game", "menu"} :
        /\ pc = "idle" /\ state # to /\ ren' = waapp_state_switch(ren, to) /\ SwitchTo(to)
        /\ UNCHANGED <<headless, map, left, pc, crashed>>
        /\ \/ UNCHANGED <<player, lock_cam>>
           \/ player' = "none" /\ lock_cam' = TRUE
  BY DEF udp_info, game_server_shutdown
<1>2. /\ Sound(ren, left) /\ Idle(ren) /\ ren.live = Objects(inited)
      /\ ren.queue["bg"] = NoBatch \/ left
      /\ Manager /\ Bound /\ Typed
  BY <1>1, AtIdle
<1>3. LET q == waapp_state_switch(ren, to) IN
         /\ Sound(q, left) /\ Idle(q) /\ q.live = Objects(inited \cup {to})
         /\ q.queue["bg"] \in {ren.queue["bg"], NoBatch}
         /\ q.current = IF headless THEN ren.current ELSE IF to = "menu" THEN "bg"
                        ELSE IF state = "menu" THEN "default" ELSE ren.current
  BY <1>2, SwitchSound DEF States
<1>4. /\ Sound(ren', left) /\ Idle(ren') /\ ren'.live = Objects(inited \cup {to})
      /\ ren'.queue["bg"] \in {ren.queue["bg"], NoBatch}
      /\ ren'.current = IF headless THEN ren.current ELSE IF to = "menu" THEN "bg"
                        ELSE IF state = "menu" THEN "default" ELSE ren.current
  BY <1>1, <1>3
<1>5. /\ state' = to /\ prev' = state /\ inited' = inited \cup {to} /\ pending' \in BOOLEAN
      /\ state' \in States /\ prev' \in States /\ inited' \subseteq States
  BY <1>1, <1>2 DEF SwitchTo, Typed, States
<1>6. Manager' /\ Bound'
  BY <1>1, <1>2, <1>4, <1>5 DEF Manager, Bound
<1>7. Stage'
  BY <1>1, <1>4, <1>5 DEF Stage, EditorParts
<1>8. /\ lock_cam' \in BOOLEAN /\ player' \in {"none", "new", "own", "lost"} /\ map' \in BOOLEAN
      /\ left' \in BOOLEAN
  BY <1>1, <1>2 DEF Typed
<1> QED BY <1>1, <1>2, <1>4, <1>5, <1>6, <1>7, <1>8, Changed DEF Parts

\* the menu's background, after what the editor left
LEMMA BackgroundSound ==
  ASSUME NEW r, NEW lf \in BOOLEAN, Sound(r, lf)
  PROVE  LET q == mm_bg_update(r) IN
         /\ Sound(q, lf) /\ q.live = r.live /\ q.current = "default" /\ q.queue["bg"] = NoBatch
         /\ \A b \in Bros \ {"bg"} : q.queue[b] = r.queue[b]
<1> DEFINE b == ren_bind_bro(r, "bg")
           d == ren_draw_rect(b, "background")
           e == bro_draw_batch(d, "bg")
           f == ren_bind_bro(e, "default")
<1>0. "bg" \in Bros /\ "default" \in Bros /\ "background" \in Kinds
  BY DEF Bros, Kinds
<1>1. Sound(b, lf) /\ b.live = r.live /\ b.queue = r.queue /\ b.current = "bg"
  BY <1>0, BindSound
<1> HIDE DEF b
<1>2. Sound(d, lf) /\ OnlyQueue(d, b, b.current)
  BY <1>0, <1>1, DrawRectSound
<1>3. d.current = "bg" /\ OnlyQueue(d, b, "bg")
  BY <1>1, <1>2 DEF OnlyQueue
<1> HIDE DEF d
<1>4. Sound(e, lf) /\ OnlyQueue(e, d, "bg") /\ e.queue["bg"] = NoBatch
  BY <1>2, DrawSound
<1>5. mm_bg_update(r) = f
  BY <1>3 DEF mm_bg_update, ren_draw_batch, b, d
<1> HIDE DEF e
<1>6. Sound(f, lf) /\ f.live = e.live /\ f.current = "default" /\ f.queue = e.queue
  BY <1>0, <1>4, BindSound
<1> HIDE DEF f
<1> QED BY <1>1, <1>3, <1>4, <1>5, <1>6 DEF OnlyQueue

LEMMA StepMenu == ASSUME IInv, main_menu_update PROVE IInv'
<1> DEFINE r == IF headless THEN ren ELSE mm_bg_update(ren)
<1>1. /\ pc = "idle" /\ state = "menu" /\ pc' = "end"
      /\ \/ ren' = r /\ UNCHANGED stateVars
         \/ ~headless /\ ren' = waapp_state_switch(r, "editor") /\ SwitchTo("editor")
      /\ left' = (ren.queue["bg"].count > 0) /\ map' = (map /\ "editor" \in inited')
      /\ UNCHANGED <<headless, player, lock_cam, crashed>>
  BY DEF main_menu_update
<1>2. /\ Sound(ren, left) /\ Idle(ren) /\ ren.live = Objects(inited)
      /\ ren.queue["bg"] = NoBatch \/ left
      /\ Manager /\ Bound /\ Typed
  BY <1>1, AtIdle
<1>3. left' \in BOOLEAN /\ (left' \/ ren.queue["bg"].items = {}) /\ (~left' => ren.queue["bg"] = NoBatch)
  <2>1. ren.queue["bg"] \in Batches
    BY <1>2, RendererFields DEF Sound, Bros
  <2>2. /\ ren.queue["bg"].count \in Nat
        /\ ren.queue["bg"] = [count |-> ren.queue["bg"].count, items |-> ren.queue["bg"].items]
        /\ ren.queue["bg"].count = 0 => ren.queue["bg"].items = {}
    BY <1>2, <2>1 DEF Batches, Sound, Queued, Bros
  <2>3. left' <=> ren.queue["bg"].count > 0
    BY <1>1
  <2>4. left' \in BOOLEAN
    BY <1>1
  <2>5. left' \/ ren.queue["bg"].count = 0
    BY <2>2, <2>3
  <2> QED BY <2>2, <2>4, <2>5 DEF NoBatch
<1>4. Sound(ren, left')
  BY <1>2, <1>3, Flagged DEF Idle
<1>5. /\ Sound(r, left') /\ r.live = ren.live
      /\ ~headless => r.current = "default" /\ r.queue["bg"] = NoBatch
      /\ headless => r = ren
      /\ \A b \in Bros \ {"bg"} : r.queue[b] = NoBatch
  <2>1. LET q == mm_bg_update(ren) IN
         /\ Sound(q, left') /\ q.live = ren.live /\ q.current = "default" /\ q.queue["bg"] = NoBatch
         /\ \A b \in Bros \ {"bg"} : q.queue[b] = ren.queue[b]
    BY <1>3, <1>4, BackgroundSound
  <2> QED BY <1>2, <1>4, <2>1 DEF Idle
<1> HIDE DEF r
<1>6. CASE ren' = r /\ UNCHANGED stateVars
  <2>1. Manager' /\ Bound' /\ Stage'
    BY <1>1, <1>2, <1>5, <1>6 DEF Manager, Bound, Stage, EditorParts, stateVars
  <2>2. ren'.queue["bg"] = NoBatch \/ left'
    BY <1>3, <1>5, <1>6
  <2>3. /\ pending' \in BOOLEAN /\ lock_cam' \in BOOLEAN /\ map' \in BOOLEAN
        /\ player' \in {"none", "new", "own", "lost"}
        /\ state' \in States /\ prev' \in States \cup {"none"} /\ inited' \subseteq States
        /\ inited' = inited
    BY <1>1, <1>2, <1>6 DEF Typed, stateVars
  <2> QED BY <1>1, <1>2, <1>3, <1>5, <1>6, <2>1, <2>2, <2>3, Changed DEF Parts
<1>7. CASE ~headless /\ ren' = waapp_state_switch(r, "editor") /\ SwitchTo("editor")
  <2>1. ren' = ren_bind_bro(r, "default") /\ "default" \in Bros
    BY <1>1, <1>7 DEF waapp_state_switch, Exited, main_menu_exit, StateInit, Entered, Bros
  <2>2. /\ Sound(ren', left') /\ ren'.live = r.live /\ ren'.queue = r.queue /\ ren'.current = "default"
    BY <1>5, <2>1, BindSound
  <2>3. /\ state' = "editor" /\ prev' = "menu" /\ inited' = inited \cup {"editor"}
        /\ pending' \in BOOLEAN /\ lock_cam' \in BOOLEAN /\ map' \in BOOLEAN
        /\ player' \in {"none", "new", "own", "lost"}
        /\ state' \in States /\ prev' \in States \cup {"none"} /\ inited' \subseteq States
    BY <1>1, <1>2, <1>7 DEF Typed, SwitchTo, States
  <2>4. Objects(inited') = Objects(inited)
    BY <2>3 DEF Objects
  <2>5. Manager' /\ Bound' /\ Stage'
    BY <1>1, <1>2, <1>5, <1>7, <2>2, <2>3 DEF Manager, Bound, Stage, EditorParts
  <2> QED BY <1>1, <1>2, <1>3, <1>5, <1>7, <2>2, <2>3, <2>4, <2>5, Changed DEF Parts
<1> QED BY <1>1, <1>6, <1>7

\* the camera, moved between two frames
LEMMA MovedSound ==
  ASSUME NEW r, NEW lf, Sound(r, lf), Idle(r), NEW cam \in Cams
  PROVE  LET q == Moved(r, cam) IN
         /\ Sound(q, lf) /\ Idle(q) /\ q.live = r.live /\ q.current = r.current /\ q.queue = r.queue
<1>1. r.view.zoom \in Zooms
  BY RendererFields DEF Sound, View
<1> QED BY <1>1, SetViewSound DEF Moved

LEMMA MoveCamSound ==
  ASSUME NEW r, NEW lf, Sound(r, lf), Idle(r), game_move_cam(r), lock_cam \in BOOLEAN
  PROVE  /\ Sound(ren', lf) /\ Idle(ren') /\ ren'.live = r.live /\ ren'.current = r.current
         /\ ren'.queue = r.queue /\ lock_cam' \in BOOLEAN
<1>1. CASE ren' = r /\ UNCHANGED lock_cam
  BY <1>1
<1>2. ASSUME NEW cam \in Cams, ren' = Moved(r, cam), lock_cam' = (lock_cam /\ "game" \notin inited)
      PROVE  /\ Sound(ren', lf) /\ Idle(ren') /\ ren'.live = r.live /\ ren'.current = r.current
             /\ ren'.queue = r.queue /\ lock_cam' \in BOOLEAN
  <2>1. LET q == Moved(r, cam) IN
         /\ Sound(q, lf) /\ Idle(q) /\ q.live = r.live /\ q.current = r.current /\ q.queue = r.queue
    BY MovedSound
  <2> QED BY <1>2, <2>1
<1> QED BY <1>1, <1>2 DEF game_move_cam

LEMMA StepGame == ASSUME IInv, game_update PROVE IInv'
<1>1. PICK menu \in IF player \in {"new", "own"} /\ ~headless THEN BOOLEAN ELSE {FALSE} :
       /\ IF menu THEN SwitchTo("menu") ELSE UNCHANGED stateVars
       /\ LET r == IF menu THEN waapp_state_switch(ren, "menu") ELSE ren
              d == IF headless THEN r ELSE ren_bind_bro(r, "default") IN
          \/ player # "new" /\ game_move_cam(d)
          \/ player \in {"new", "own"} /\ lock_cam /\ \E cam \in Cams : game_move_cam(Moved(d, cam))
          \/ player = "new" /\ ~lock_cam /\ game_move_cam(d)
  BY DEF game_update
<1>2. /\ pc = "idle" /\ state = "game"
      /\ player' = IF player = "new" THEN "own" ELSE player
      /\ pc' = IF headless THEN "end" ELSE "map"
      /\ UNCHANGED <<headless, map, left, crashed>>
  BY DEF game_update
<1>3. /\ Sound(ren, left) /\ Idle(ren) /\ ren.live = Objects(inited)
      /\ ren.queue["bg"] = NoBatch \/ left
      /\ Manager /\ Bound /\ Typed /\ menu \in BOOLEAN /\ (menu => ~headless)
  BY <1>1, <1>2, AtIdle
<1> DEFINE r == IF menu THEN waapp_state_switch(ren, "menu") ELSE ren
           d == IF headless THEN r ELSE ren_bind_bro(r, "default")
<1>4. /\ Sound(r, left) /\ Idle(r) /\ r.live = Objects(inited')
      /\ r.queue["bg"] \in {ren.queue["bg"], NoBatch} /\ (headless => r.current = ren.current)
  <2>1. LET q == waapp_state_switch(ren, "menu") IN
         /\ Sound(q, left) /\ Idle(q) /\ q.live = Objects(inited \cup {"menu"})
         /\ q.queue["bg"] \in {ren.queue["bg"], NoBatch}
    BY <1>3, SwitchSound DEF States
  <2>2. inited' = IF menu THEN inited \cup {"menu"} ELSE inited
    BY <1>1 DEF SwitchTo, stateVars
  <2> QED BY <1>3, <2>1, <2>2
<1>5. \/ player # "new" /\ game_move_cam(d)
      \/ player \in {"new", "own"} /\ lock_cam /\ \E cam \in Cams : game_move_cam(Moved(d, cam))
      \/ player = "new" /\ ~lock_cam /\ game_move_cam(d)
  BY <1>1
<1> HIDE DEF r
<1>6. /\ Sound(d, left) /\ Idle(d) /\ d.live = r.live /\ d.queue = r.queue
      /\ ~headless => d.current = "default"
  BY <1>4, BindSound DEF Idle, Bros
<1> HIDE DEF d
<1>7. /\ Sound(ren', left) /\ Idle(ren') /\ ren'.live = d.live /\ ren'.current = d.current
      /\ ren'.queue = d.queue /\ lock_cam' \in BOOLEAN
  <2>1. lock_cam \in BOOLEAN
    BY <1>3 DEF Typed
  <2>2. ASSUME NEW cam \in Cams, game_move_cam(Moved(d, cam))
        PROVE  /\ Sound(ren', left) /\ Idle(ren') /\ ren'.live = d.live /\ ren'.current = d.current
               /\ ren'.queue = d.queue /\ lock_cam' \in BOOLEAN
    <3> DEFINE m == Moved(d, cam)
    <3>1. Sound(m, left) /\ Idle(m) /\ m.live = d.live /\ m.current = d.current /\ m.queue = d.queue
      BY <1>6, MovedSound
    <3>2. game_move_cam(m)
      BY <2>2
    <3> HIDE DEF m
    <3> QED BY <2>1, <3>1, <3>2, MoveCamSound
  <2>3. CASE game_move_cam(d)
    BY <1>6, <2>1, <2>3, MoveCamSound
  <2> QED BY <1>5, <2>2, <2>3
<1>8. /\ state' \in {"menu", "game"} /\ (state' = "menu" \/ state' = state) /\ state' \in inited'
      /\ prev' # state' /\ prev' \in States \cup {"none"} /\ inited' \subseteq States
      /\ pending' \in BOOLEAN /\ "game" \in inited' /\ state' \in States
  <2>0. /\ state \in inited /\ prev # state /\ state \in States /\ prev \in States \cup {"none"}
        /\ inited \subseteq States /\ pending \in BOOLEAN
    BY <1>3 DEF Typed, Manager
  <2>1. CASE menu
    <3>1. /\ state' = "menu" /\ prev' = state /\ pending' = (pending \/ state = "game")
          /\ inited' = inited \cup {"menu"}
      BY <1>1, <2>1 DEF SwitchTo
    <3> QED BY <1>2, <2>0, <3>1 DEF States
  <2>2. CASE ~menu
    <3>1. UNCHANGED <<state, prev, pending, inited>>
      BY <1>1, <2>2 DEF stateVars
    <3> QED BY <1>2, <2>0, <3>1
  <2> QED BY <2>1, <2>2
<1>9. Manager' /\ Bound'
  BY <1>2, <1>6, <1>7, <1>8 DEF Manager, Bound
<1>10. Stage'
  BY <1>2, <1>7, <1>8, <1>6, <1>3 DEF Stage, EditorParts, Idle
<1>11. /\ player' \in {"none", "new", "own", "lost"} /\ map' \in BOOLEAN /\ left' \in BOOLEAN
  BY <1>2, <1>3 DEF Typed
<1>12. ren'.live = Objects(inited') /\ (ren'.queue["bg"] = NoBatch \/ left')
  BY <1>2, <1>3, <1>4, <1>6, <1>7
<1>13. Sound(ren', left') /\ pc' \in Parts \ {"down"} /\ pc # "down"
  BY <1>2, <1>7 DEF Parts
<1> QED BY <1>2, <1>7, <1>8, <1>9, <1>10, <1>11, <1>12, <1>13, Changed

\* the editor: it looks on, moves the camera, or goes back to the menu
LEMMA StepEditor == ASSUME IInv, map_editor_update PROVE IInv'
<1>1. PICK cam \in Cams :
       LET r == IF cam = ren.view.cam THEN ren ELSE Moved(ren, cam) IN
       /\ lock_cam' \in {lock_cam, lock_cam /\ "game" \notin inited}
       /\ IF map THEN map_editor_ui(r) /\ pc' = IF map' THEN "editor map" ELSE "editor end"
          ELSE MapList(r) /\ left' = FALSE /\ pc' = "editor end"
  BY DEF map_editor_update
<1>2. pc = "idle" /\ state = "editor" /\ UNCHANGED <<headless, player, crashed>>
  BY DEF map_editor_update
<1>3. /\ Sound(ren, left) /\ Idle(ren) /\ ren.live = Objects(inited)
      /\ Manager /\ Bound /\ Typed /\ ~headless
      /\ ren.current = "default" /\ ren.queue["bg"] = NoBatch
  BY <1>2, AtIdle DEF Bound
<1> DEFINE r == IF cam = ren.view.cam THEN ren ELSE Moved(ren, cam)
<1>4. Sound(r, left) /\ Idle(r) /\ r.live = ren.live /\ r.current = "default" /\ r.queue["bg"] = NoBatch
  <2>1. LET q == Moved(ren, cam) IN
         /\ Sound(q, left) /\ Idle(q) /\ q.live = ren.live /\ q.current = ren.current /\ q.queue = ren.queue
    BY <1>3, MovedSound
  <2> QED BY <1>3, <2>1
<1>5. IF map THEN map_editor_ui(r) /\ pc' = IF map' THEN "editor map" ELSE "editor end"
      ELSE MapList(r) /\ left' = FALSE /\ pc' = "editor end"
  BY <1>1
<1>a. lock_cam' \in BOOLEAN /\ map \in BOOLEAN
  BY <1>1, <1>3 DEF Typed
<1> HIDE DEF r
\* the flag says nothing as long as the menu's object is empty
<1>6. ASSUME NEW lf PROVE Sound(r, lf)
  BY <1>4, Flagged DEF Idle, NoBatch
<1>7. Origin \in Cams /\ r.view.zoom \in Zooms
  BY <1>4, RendererFields, ViewAssumption DEF Sound, View
\* in the editor still
<1>8. ASSUME UNCHANGED stateVars, left' = FALSE, map' \in BOOLEAN,
             ren' = r \/ ren' = ren_set_view(r, Origin, r.view.zoom)
      PROVE  IInv'
  <2>1. /\ Sound(ren', FALSE) /\ Idle(ren') /\ ren'.live = r.live /\ ren'.current = r.current
        /\ ren'.queue["bg"] = NoBatch
    <3>1. LET q == ren_set_view(r, Origin, r.view.zoom) IN
           /\ Sound(q, FALSE) /\ Idle(q) /\ q.live = r.live /\ q.current = r.current /\ q.queue = r.queue
      BY <1>4, <1>6, <1>7, SetViewSound
    <3> QED BY <1>4, <1>6, <1>8, <3>1
  <2>2. pc' \in {"editor map", "editor end"}
    BY <1>5
  <2>3. /\ state' \in States /\ prev' \in States \cup {"none"} /\ inited' \subseteq States
        /\ pending' \in BOOLEAN /\ player' \in {"none", "new", "own", "lost"} /\ inited' = inited
    BY <1>2, <1>3, <1>8 DEF Typed, stateVars
  <2>4. Manager' /\ Bound'
    BY <1>3, <1>4, <1>8, <2>1 DEF Manager, Bound, stateVars
  <2>5. Stage'
    BY <1>2, <1>3, <1>4, <2>1, <2>2 DEF Stage, EditorParts, Idle, Bros
  <2> QED BY <1>a, <1>2, <1>3, <1>4, <1>8, <2>1, <2>2, <2>3, <2>4, <2>5, Changed DEF Parts
\* back in the menu, with the frame still to draw
<1>9. ASSUME ren' = waapp_state_switch(r, "menu"), SwitchTo("menu"), map' = map, left' = map
      PROVE  IInv'
  <2>1. LET q == waapp_state_switch(r, "menu") IN
         /\ Sound(q, left') /\ Idle(q) /\ q.live = Objects(inited \cup {"menu"})
         /\ q.queue["bg"] \in {r.queue["bg"], NoBatch}
         /\ q.current = IF headless THEN r.current ELSE "bg"
    BY <1>3, <1>4, <1>6, SwitchSound DEF States
  <2>2. /\ Sound(ren', left') /\ Idle(ren') /\ ren'.live = Objects(inited \cup {"menu"})
        /\ ren'.queue["bg"] = NoBatch /\ ren'.current = "bg"
    BY <1>3, <1>4, <1>9, <2>1
  <2>3. pc' = IF map THEN "editor map" ELSE "editor end"
    BY <1>5, <1>9
  <2>4. /\ state' = "menu" /\ prev' = "editor" /\ inited' = inited \cup {"menu"} /\ inited' \subseteq States
        /\ state' \in States /\ prev' \in States /\ pending' \in BOOLEAN
        /\ player' \in {"none", "new", "own", "lost"}
    BY <1>2, <1>3, <1>9 DEF SwitchTo, Typed, States
  <2>5. Manager' /\ Bound'
    BY <2>2, <2>4 DEF Manager, Bound
  <2>6. Stage'
    BY <1>2, <1>3, <1>9, <2>2, <2>3, <2>4 DEF Stage, EditorParts, Idle, Bros
  <2> QED BY <1>a, <1>2, <1>9, <2>2, <2>3, <2>4, <2>5, <2>6, Changed DEF Parts
<1>10. CASE map
  <2>1. map_editor_ui(r)
    BY <1>5, <1>10
  <2>2. CASE left' = FALSE
    <3>1. UNCHANGED stateVars /\ map' \in BOOLEAN /\ (ren' = r \/ ren' = ren_set_view(r, Origin, r.view.zoom))
      BY <1>a, <2>1, <2>2 DEF map_editor_ui
    <3> QED BY <1>8, <2>2, <3>1
  <2>3. CASE left' = TRUE
    <3>1. ren' = waapp_state_switch(r, "menu") /\ SwitchTo("menu") /\ map' = map /\ left' = map
      BY <1>a, <1>10, <2>1, <2>3 DEF map_editor_ui
    <3> QED BY <1>9, <3>1
  <2> QED BY <2>1, <2>2, <2>3 DEF map_editor_ui
<1>11. CASE ~map
  <2>1. MapList(r) /\ left' = FALSE /\ left' = map
    BY <1>a, <1>5, <1>11
  <2> QED BY <1>8, <1>9, <2>1 DEF MapList
<1> QED BY <1>10, <1>11

-------------------------------------------------------------------------------
(* The end of a frame, and of the program. *)

LEMMA NewFrameSound ==
  ASSUME IInv, pc = "end"
  PROVE  /\ Sound(NewFrame, left) /\ Idle(NewFrame) /\ NewFrame.live = ren.live
         /\ NewFrame.current = ren.current /\ NewFrame.queue = ren.queue
<1>1. /\ Sound(ren, left) /\ ren \in Renderers
      /\ \A b \in Bros \ {"bg"} : ren.queue[b] = NoBatch
  BY DEF IInv, Runs, Stage, Sound
<1>2. /\ NewFrame \in Renderers /\ NewFrame.live = ren.live /\ NewFrame.current = ren.current
      /\ NewFrame.queue = ren.queue /\ NewFrame.shown = {} /\ NewFrame.view = ren.view
      /\ NewFrame.given = ren.given /\ NewFrame.mvp = ren.mvp /\ NewFrame.proj = ren.proj
  BY <1>1 DEF NewFrame, Renderers
<1> QED BY <1>1, <1>2 DEF Sound, Idle, Room, Lists, Matrices, Queued, Shows

LEMMA StepUpdate == ASSUME IInv, waapp_state_update PROVE IInv'
<1>1. /\ pc = "end" /\ UNCHANGED <<headless, lock_cam, left>>
  BY DEF waapp_state_update
<1>2. /\ Sound(NewFrame, left) /\ Idle(NewFrame) /\ NewFrame.live = Objects(inited)
      /\ NewFrame.current = ren.current /\ NewFrame.queue = ren.queue
      /\ Typed /\ Runs /\ Crashes
  BY <1>1, NewFrameSound DEF IInv, Runs
<1>3. CASE pending /\ prev = "game" /\ headless
  <2>1. crashed' = "gl" /\ pc' = "down" /\ UNCHANGED <<stateVars, ren, player, map>>
    BY <1>3 DEF waapp_state_update
  <2> QED BY <1>1, <1>2, <1>3, <2>1 DEF IInv, Typed, Crashes, stateVars, Parts
<1>4. CASE ~(pending /\ prev = "game" /\ headless)
  <2>1. /\ pc' = "idle" /\ pending' = FALSE
        /\ ren' = IF pending THEN StateCleanup(NewFrame, prev) ELSE NewFrame
        /\ inited' = IF pending THEN inited \ {prev} ELSE inited
        /\ player' = IF pending /\ prev = "game" THEN "none" ELSE player
        /\ map' = (map /\ "editor" \in inited')
        /\ UNCHANGED <<state, prev, crashed>>
    BY <1>4 DEF waapp_state_update
  <2>2. NewFrame.queue \in [Bros -> Batches] /\ "bg" \in Bros /\ "laser" \in Bros
    BY <1>2, RendererFields DEF Sound, Bros
  <2> DEFINE n == NewFrame
  <2>3. n.queue \in [Bros -> Batches] /\ Sound(n, left) /\ Idle(n) /\ n.live = Objects(inited)
        /\ n.current = ren.current /\ n.queue = ren.queue
    BY <1>2, <2>2
  <2>4. ren' = IF pending THEN StateCleanup(n, prev) ELSE n
    BY <2>1
  <2> HIDE DEF n
  <2>5. /\ Sound(ren', left) /\ Idle(ren') /\ ren'.live = Objects(inited') /\ ren'.current = n.current
        /\ ren'.queue["bg"] \in {n.queue["bg"], NoBatch}
    <3> DEFINE Goal == /\ Sound(ren', left) /\ Idle(ren') /\ ren'.live = Objects(inited')
                       /\ ren'.current = n.current /\ ren'.queue["bg"] \in {n.queue["bg"], NoBatch}
    <3>1. ASSUME ~pending \/ prev \notin {"menu", "game"} PROVE Goal
      <4>1. ren' = n
        BY <2>4, <3>1 DEF StateCleanup
      <4>2. Objects(inited') = Objects(inited)
        BY <2>1, <3>1 DEF Objects
      <4> QED BY <2>3, <4>1, <4>2
    <3>2. ASSUME pending, prev = "menu" PROVE Goal
      <4>1. ren' = ren_delete_bro(n, "bg")
        BY <2>4, <3>2 DEF StateCleanup
      <4>2. Objects(inited') = Objects(inited) \ {"bg"}
        BY <2>1, <3>2 DEF Objects
      <4>3. LET q == ren_delete_bro(n, "bg") IN
             /\ Sound(q, left) /\ Idle(q) /\ q.live = n.live \ {"bg"} /\ q.current = n.current
             /\ q.queue = [n.queue EXCEPT !["bg"] = NoBatch]
        BY <2>3, DeleteSound
      <4> QED BY <2>2, <2>3, <4>1, <4>2, <4>3
    <3>3. ASSUME pending, prev = "game" PROVE Goal
      <4>1. ren' = ren_delete_bro(n, "laser")
        BY <2>4, <3>3 DEF StateCleanup
      <4>2. Objects(inited') = Objects(inited) \ {"laser"}
        BY <2>1, <3>3 DEF Objects
      <4>3. LET q == ren_delete_bro(n, "laser") IN
             /\ Sound(q, left) /\ Idle(q) /\ q.live = n.live \ {"laser"} /\ q.current = n.current
             /\ q.queue = [n.queue EXCEPT !["laser"] = NoBatch]
        BY <2>3, DeleteSound
      <4> QED BY <2>2, <2>3, <4>1, <4>2, <4>3
    <3> QED BY <3>1, <3>2, <3>3
  <2>6. /\ state \in inited' /\ inited' \subseteq States /\ map' \in BOOLEAN
        /\ player' \in {"none", "new", "own", "lost"}
    BY <1>2, <2>1 DEF Typed, Runs, Manager
  <2>7. Manager' /\ Bound'
    BY <1>1, <1>2, <2>1, <2>3, <2>5, <2>6 DEF Runs, Manager, Bound
  <2>8. Stage'
    BY <1>1, <1>2, <2>1, <2>5 DEF Runs, Stage, EditorParts
  <2>9. ren'.queue["bg"] = NoBatch \/ left'
    BY <1>1, <1>2, <2>3, <2>5 DEF Runs
  <2>10. /\ pending' \in BOOLEAN /\ lock_cam' \in BOOLEAN /\ left' \in BOOLEAN
         /\ state' \in States /\ prev' \in States \cup {"none"} /\ Sound(ren', left')
    BY <1>1, <1>2, <2>1, <2>5 DEF Typed
  <2> QED BY <1>1, <2>1, <2>5, <2>6, <2>7, <2>8, <2>9, <2>10, Changed DEF Parts
<1> QED BY <1>3, <1>4

\* what is deleted keeps its room
LEMMA DeleteTyped ==
  ASSUME NEW r, r \in Renderers, Room(r), r.shown = {}, NEW b \in Bros
  PROVE  LET q == ren_delete_bro(r, b) IN q \in Renderers /\ Room(q) /\ q.shown = {}
<1> DEFINE q == ren_delete_bro(r, b)
<1>1. /\ q \in Renderers /\ q.shown = r.shown /\ q.queue = [r.queue EXCEPT ![b] = NoBatch]
  BY DeleteFields
<1>2. r.queue \in [Bros -> Batches]
  BY RendererFields
<1> HIDE DEF q
<1>3. ASSUME NEW c \in Bros PROVE q.queue[c].count <= Capacity(c)
  <2>1. CASE c = b
    BY <1>1, <1>2, <2>1, CapacityFacts DEF NoBatch
  <2>2. CASE c # b
    BY <1>1, <1>2, <2>2 DEF Room
  <2> QED BY <2>1, <2>2
<1> QED BY <1>1, <1>3 DEF Room, q

LEMMA StepCleanup == ASSUME IInv, waapp_cleanup PROVE IInv'
<1>1. /\ pc = "idle" /\ pc' = "down"
      /\ UNCHANGED <<headless, state, prev, pending, player, lock_cam, map, left>>
  BY DEF waapp_cleanup
<1>2. Sound(ren, left) /\ Idle(ren) /\ Typed /\ crashed = "no"
  BY <1>1, AtIdle
<1>3. CASE headless
  <2>1. crashed' = "gl" /\ UNCHANGED <<inited, ren>>
    BY <1>3 DEF waapp_cleanup
  <2> QED BY <1>1, <1>2, <1>3, <2>1 DEF IInv, Typed, Crashes, Parts
<1>4. CASE ~headless
  <2> DEFINE m == IF "menu" \in inited THEN StateCleanup(ren, "menu") ELSE ren
             g == IF "game" \in inited THEN StateCleanup(m, "game") ELSE m
             l == ren_delete_bro(g, "line")
             s == ren_delete_bro(l, "screen")
             d == ren_delete_bro(s, "default")
  <2>1. ren' = d /\ inited' = {} /\ crashed' = crashed
    BY <1>4 DEF waapp_cleanup, ren_del
  <2>2. ren \in Renderers /\ Room(ren) /\ ren.shown = {}
    BY <1>2 DEF Sound, Idle
  <2>3. m \in Renderers /\ Room(m) /\ m.shown = {}
    BY <2>2, DeleteTyped DEF StateCleanup, Bros
  <2> HIDE DEF m
  <2>4. g \in Renderers /\ Room(g) /\ g.shown = {}
    BY <2>3, DeleteTyped DEF StateCleanup, Bros
  <2> HIDE DEF g
  <2>5. l \in Renderers /\ Room(l) /\ l.shown = {}
    BY <2>4, DeleteTyped DEF Bros
  <2> HIDE DEF l
  <2>6. s \in Renderers /\ Room(s) /\ s.shown = {}
    BY <2>5, DeleteTyped DEF Bros
  <2> HIDE DEF s
  <2>7. d \in Renderers /\ Room(d) /\ d.shown = {}
    BY <2>6, DeleteTyped DEF Bros
  <2> HIDE DEF d
  <2>8. Typed' /\ Crashes'
    BY <1>1, <1>2, <2>1, <2>7 DEF Typed, Crashes, Shows, Parts
  <2> QED BY <1>1, <2>8 DEF IInv
<1> QED BY <1>3, <1>4

-------------------------------------------------------------------------------
LEMMA Step == IInv /\ [Next]_vars => IInv'
<1> SUFFICES ASSUME IInv, [Next]_vars PROVE IInv'
  OBVIOUS
<1>1. CASE UNCHANGED vars
  <2>1. UNCHANGED <<headless, state, prev, pending, inited, ren, player, lock_cam, map, left, pc, crashed>>
    BY <1>1 DEF vars, stateVars
  <2>2. Typed' /\ Crashes'
    BY <2>1 DEF IInv, Typed, Crashes
  <2>3. pc # "down" => Runs'
    BY <2>1 DEF IInv, Runs, Manager, Bound, Stage, Objects
  <2> QED BY <2>1, <2>2, <2>3 DEF IInv
<1>2. CASE Next
  BY <1>2, StepSwitch, StepPlayerComes, StepResize, StepWheel, StepKey, StepMenu, StepEditor, StepGame,
     StepCell, StepMap, StepBullets, StepBulletsDrawn, StepPlayers, StepDraw, StepEditorMap, StepGrid,
     StepGridDrawn, StepEditorDrawn, StepUpdate, StepCleanup DEF Next
<1> QED BY <1>1, <1>2

(***************************************************************************)
(* The renderer and the frame: an object holds only what belongs in it,    *)
(* queued under the view its shader has been given, and only in the part   *)
(* of a frame that draws with it; the lists of shaders follow the objects, *)
(* and the objects the states (renderer.c, main_menu.c, game.c,            *)
(* map_editor.c, state.c).                                                 *)
(***************************************************************************)
THEOREM Inductive == Spec => []IInv
BY InitHolds, Step, PTL DEF Spec

(***************************************************************************)
(* No object ever holds more vertices than its buffer has room for: every  *)
(* draw_rect and draw_line flushes in time, for buffers of any size from   *)
(* two rectangles on and with whatever the frames before left (renderer.c, *)
(* main_menu.c).                                                           *)
(***************************************************************************)
THEOREM TypeInvariant == Spec => []TypeOK
<1>1. IInv => TypeOK
  BY RendererFields DEF IInv, Typed, TypeOK, Room
<1> QED BY <1>1, Inductive, PTL

(***************************************************************************)
(* What a frame shows was drawn by the object made for it and under the    *)
(* view it was queued under, but for the named exceptions, whatever moves  *)
(* the camera, the scale and the window (ren_set_view, ren_viewport).      *)
(***************************************************************************)
THEOREM DrawnInvariant == Spec => []DrawnAsQueued
<1>1. IInv => DrawnAsQueued
  <2> SUFFICES ASSUME IInv PROVE DrawnAsQueued
    OBVIOUS
  <2>1. \A s \in ren.shown :
       \/ s.bro = BroOf(s.kind) /\ s.place = "right"
       \/ s.bro = "laser" /\ s.kind = "laser" /\ s.place = "blank" /\ ren.given["laser"].mvp = None
       \/ s.bro = "laser" /\ s.kind = "laser" /\ s.place = "unscaled"
       \/ s.bro = "bg" /\ s.kind = "cell" /\ left
    BY DEF IInv, Typed, Shows, Fair
  <2>2. pc = "idle" => \A b \in Bros : ren.queue[b].count > 0 => b = "bg" /\ left
    BY AtIdle DEF Idle, NoBatch
  <2> QED BY <2>1, <2>2 DEF DrawnAsQueued
<1> QED BY <1>1, Inductive, PTL

(***************************************************************************)
(* The renderer points only to what lives: the bound object and the        *)
(* shaders of the lists, through every switch and cleanup of states; the   *)
(* program ends early only headless, or when a wheel or a resize makes the *)
(* camera follow a player that is not there (ren_delete_bro, state.c).     *)
(***************************************************************************)
THEOREM LiveInvariant == Spec => []LiveOnly
<1>1. IInv => LiveOnly
  <2> SUFFICES ASSUME IInv PROVE LiveOnly
    OBVIOUS
  <2>1. pc # "down" => ren.mvp = ren.live \cap MvpShaders /\ ren.proj = ren.live \cap ProjShaders
    BY DEF IInv, Runs, Sound, Lists
  <2>2. pc # "down" /\ ~headless => ren.current \in ren.live
    BY DEF IInv, Runs, Bound, Manager, Objects
  <2> QED BY <2>1, <2>2 DEF LiveOnly, IInv, Crashes
<1> QED BY <1>1, Inductive, PTL
===============================================================================
