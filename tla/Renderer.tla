-------------------------------- MODULE Renderer --------------------------------
(***************************************************************************)
(* The client's renderer (renderer.c) and the frames the three states of   *)
(* the client draw with it: batch render objects (bro_t) that collect      *)
(* vertices until they are full or flushed, the bound one, the lists of    *)
(* shaders that are given the matrices, and who makes and deletes them.    *)
(*                                                                         *)
(* A frame is one run of waapp_state_update; it draws rectangle after      *)
(* rectangle.  Sizes, colours, textures and positions are left out: what   *)
(* counts is which object a rectangle was queued in, and the view it was   *)
(* queued under (the camera, the scale and the window's size).  A headless *)
(* client has no OpenGL, so each call of it is the end.                    *)
(***************************************************************************)
EXTENDS Naturals

CONSTANTS
  Cams,          \* positions of the camera; Origin is one of them
  Origin,
  Zooms,         \* scales; 1 is one of them
  Windows,       \* sizes of the window
  MaxVertices,   \* vbo.max_count of the objects but the menu's
  None

ASSUME ViewAssumption == Origin \in Cams /\ 1 \in Zooms /\ Windows # {}
ASSUME VerticesAssumption == MaxVertices \in Nat /\ MaxVertices >= 8
ASSUME NoneAssumption == None \notin [cam : Cams, zoom : Zooms, window : Windows] \cup Windows \cup Zooms

States == {"menu", "game", "editor"}
Bros == {"default", "line", "screen", "bg", "laser"}

\* the objects whose shader has the uniform "mvp", or "proj"
MvpShaders == {"default", "line", "laser"}
ProjShaders == {"screen"}

VARIABLES
  headless,    \* app->headless
  state,       \* sm->current
  prev,        \* sm->prev
  pending,     \* sm->cleanup_pending
  inited,      \* states that have data
  ren,         \* the renderer
  player,      \* game->player: none yet, new, own, or lost by a reconnect
  lock_cam,    \* game->lock_cam
  map,         \* whether the editor has a map open
  left,        \* whether the editor was left for the menu with a map to draw
  pc,          \* idle between two frames, or the part of the frame that is drawn
  crashed      \* no, or what was missing: gl or player

stateVars == <<state, prev, pending, inited>>
vars == <<headless, stateVars, ren, player, lock_cam, map, left, pc, crashed>>

-------------------------------------------------------------------------------
(* Operations of the renderer, on its record. *)

View == [cam : Cams, zoom : Zooms, window : Windows]
Kinds == {"cell", "body", "bar", "line", "laser", "hud", "background"}
Items == [kind : Kinds, under : View]

Capacity(b) == IF b = "bg" THEN 8 ELSE MaxVertices

NoBatch == [count |-> 0, items |-> {}]
NotGiven == [mvp |-> None, proj |-> None, scale |-> None]

\* where the shader of b puts an item: blank without a matrix, wrong with an old one
Place(r, b, item) ==
  IF b \in MvpShaders /\ r.given[b].mvp = None THEN "blank"
  ELSE IF \/ b \in MvpShaders /\ r.given[b].mvp # item.under
          \/ b \in ProjShaders /\ r.given[b].proj # item.under.window THEN "wrong"
  ELSE IF b # "laser" \/ r.given[b].scale = item.under.zoom THEN "right"
  ELSE IF item.under.zoom = 1 THEN "unscaled" ELSE "wrong"

bro_draw_batch(r, b) ==
  [r EXCEPT !.queue[b] = NoBatch,
            !.shown = @ \cup {[kind |-> i.kind, bro |-> b, place |-> Place(r, b, i)] : i \in r.queue[b].items}]

ren_bind_bro(r, b) == [r EXCEPT !.current = b]

ren_draw_batch(r) == bro_draw_batch(r, r.current)

\* n vertices of an item, written behind those there are
Queue(r, b, kind, n) ==
  [r EXCEPT !.queue[b].count = @ + n, !.queue[b].items = @ \cup {[kind |-> kind, under |-> r.view]}]

\* mutant: flushed one rectangle too late
Full_Late(r, b) == r.queue[b].count > Capacity(b)

Full(r, b) == r.queue[b].count + 4 > Capacity(b)

\* with a flush first if there is no room
Rect(r, b, kind) == Queue(IF Full(r, b) THEN bro_draw_batch(r, b) ELSE r, b, kind, 4)

ren_default_draw_rect(r, kind) == Rect(r, "default", kind)
ren_default_draw_rect_lines(r, kind) == Rect(r, "line", kind)
ren_screen_draw_rect(r, kind) == Rect(r, "screen", kind)
ren_laser_draw_misc(r, kind) == Rect(r, "laser", kind)

\* the menu's flushes what is bound
main_menu_draw_rect(r, kind) ==
  Queue(IF Full(r, "bg") THEN ren_draw_batch(r) ELSE r, "bg", kind, 4)

\* the object of the lines is never quite filled
ren_default_draw_line(r) ==
  Queue(IF r.queue["line"].count + 2 >= Capacity("line") THEN bro_draw_batch(r, "line") ELSE r, "line", "line", 2)

ren_draw_rect(r, kind) ==
  CASE r.current = "bg" -> main_menu_draw_rect(r, kind)
    [] r.current = "line" -> ren_default_draw_rect_lines(r, kind)
    [] r.current = "screen" -> ren_screen_draw_rect(r, kind)
    [] OTHER -> ren_default_draw_rect(r, kind)

\* the matrix goes to the shaders of the list
Given(r) == [b \in Bros |-> IF b \in r.mvp THEN [r.given[b] EXCEPT !.mvp = r.view] ELSE r.given[b]]

ren_set_view(r, cam, zoom) ==
  LET v == [r EXCEPT !.view.cam = cam, !.view.zoom = zoom] IN [v EXCEPT !.given = Given(v)]

ren_viewport(r, window) ==
  LET v == [r EXCEPT !.view.window = window]
      g == Given(v) IN
  [v EXCEPT !.given = [b \in Bros |-> IF b \in r.proj THEN [g[b] EXCEPT !.proj = window] ELSE g[b]]]

Listed(b, users) == IF b \in users THEN {b} ELSE {}

\* a shader starts without uniforms; the game gives the laser's its scale
ren_new_bro(r, b) ==
  [r EXCEPT !.live = @ \cup {b},
            !.mvp = @ \cup Listed(b, MvpShaders),
            !.proj = @ \cup Listed(b, ProjShaders),
            !.queue[b] = NoBatch,
            !.given[b] = [NotGiven EXCEPT !.scale = IF b = "laser" THEN r.view.zoom ELSE None]]

\* mutant: the list keeps the pointer
ren_delete_bro_Listed(r, b) ==
  [r EXCEPT !.live = @ \ {b}, !.proj = @ \ {b}, !.queue[b] = NoBatch, !.given[b] = NotGiven]

\* nothing is done without the object, as in a headless client
ren_delete_bro(r, b) ==
  [r EXCEPT !.live = @ \ {b}, !.mvp = @ \ {b}, !.proj = @ \ {b},
            !.queue[b] = NoBatch, !.given[b] = NotGiven]

\* the object for one state, if there is OpenGL
NewBro(r, b) == IF headless THEN r ELSE ren_new_bro(r, b)

Blank ==
  [current |-> None, live |-> {}, mvp |-> {}, proj |-> {}, shown |-> {},
   view |-> [cam |-> Origin, zoom |-> 1, window |-> CHOOSE w \in Windows : TRUE],
   queue |-> [b \in Bros |-> NoBatch], given |-> [b \in Bros |-> NotGiven]]

ren_init(r) ==
  ren_bind_bro(ren_new_bro(ren_new_bro(ren_new_bro(r, "default"), "line"), "screen"), "default")

ren_del(r) == ren_delete_bro(ren_delete_bro(ren_delete_bro(r, "line"), "screen"), "default")

waapp_opengl_init(r) ==
  IF headless THEN r ELSE ren_set_view(ren_viewport(ren_init(r), r.view.window), Origin, 1)

-------------------------------------------------------------------------------
(* States of the client. *)

main_menu_exit(r) == IF headless THEN r ELSE ren_bind_bro(r, "default")

main_menu_enter(r) ==
  IF headless THEN r ELSE ren_set_view(ren_bind_bro(r, "bg"), Origin, 1)

Exited(r) == IF state = "menu" THEN main_menu_exit(r) ELSE r

StateInit(r, to) ==
  CASE to = "menu" /\ to \notin inited -> NewBro(r, "bg")
    [] to = "game" /\ to \notin inited -> NewBro(r, "laser")
    [] OTHER -> r

Entered(r, to) == IF to = "menu" THEN main_menu_enter(r) ELSE r

waapp_state_switch(r, to) == Entered(StateInit(Exited(r), to), to)

\* the rest of a switch: the manager's variables, and what the new game starts with
SwitchTo(to) ==
  /\ state' = to /\ prev' = state
  /\ pending' = (pending \/ state = "game")
  /\ inited' = inited \cup {to}

Init ==
  /\ headless \in BOOLEAN
  /\ state = "menu" /\ prev = "none" /\ pending = FALSE /\ inited = {"menu"}
  /\ ren = main_menu_enter(NewBro(waapp_opengl_init(Blank), "bg"))
  /\ player = "none" /\ lock_cam = TRUE /\ map = FALSE /\ left = FALSE
  /\ pc = "idle" /\ crashed = "no"

-------------------------------------------------------------------------------
(* Between two frames: packets and the window's events. *)

\* udp_info: the server has told the client all it needs
udp_info ==
  /\ pc = "idle" /\ state # "game"
  /\ ren' = waapp_state_switch(ren, "game")
  /\ SwitchTo("game")
  /\ IF "game" \in inited THEN UNCHANGED <<player, lock_cam>>
     ELSE player' = "none" /\ lock_cam' = TRUE
  /\ UNCHANGED <<headless, map, left, pc, crashed>>

game_new_player ==
  /\ pc = "idle" /\ state = "game" /\ player \in {"none", "lost"}
  /\ player' = IF player = "none" THEN "new" ELSE "own"
  /\ UNCHANGED <<headless, stateVars, ren, lock_cam, map, left, pc, crashed>>

do_reconnect ==
  /\ pc = "idle" /\ state = "game" /\ player \in {"new", "own"}
  /\ player' = "lost"
  /\ UNCHANGED <<headless, stateVars, ren, lock_cam, map, left, pc, crashed>>

game_server_shutdown ==
  /\ pc = "idle" /\ state # "menu"
  /\ ren' = waapp_state_switch(ren, "menu")
  /\ SwitchTo("menu")
  /\ UNCHANGED <<headless, player, lock_cam, map, left, pc, crashed>>

\* game_lock_cam: the camera follows the client's player, which must be there
LockCam(r) ==
  IF player \in {"new", "own"}
  THEN (\E cam \in Cams : ren' = ren_set_view(r, cam, r.view.zoom)) /\ UNCHANGED <<pc, crashed>>
  ELSE ren' = r /\ crashed' = "player" /\ pc' = "down"

waapp_resize ==
  /\ pc = "idle" /\ ~headless
  /\ \E window \in Windows :
       LET r == ren_viewport(ren, window) IN
       IF "game" \in inited /\ lock_cam THEN LockCam(r) ELSE ren' = r /\ UNCHANGED <<pc, crashed>>
  /\ UNCHANGED <<headless, stateVars, player, lock_cam, map, left>>

Zoomed(r, zoom) ==
  LET v == ren_set_view(r, r.view.cam, zoom) IN
  IF "game" \in inited THEN [v EXCEPT !.given["laser"].scale = zoom] ELSE v

game_handle_mouse_wheel ==
  /\ pc = "idle" /\ ~headless /\ state \in {"game", "editor"}
  /\ \E zoom \in Zooms :
       LET r == Zoomed(ren, zoom) IN
       IF "game" \in inited /\ lock_cam THEN LockCam(r)
       ELSE (\E cam \in Cams : ren' = ren_set_view(r, cam, zoom)) /\ UNCHANGED <<pc, crashed>>
  /\ UNCHANGED <<headless, stateVars, player, lock_cam, map, left>>

\* the space bar, with a player or not: the camera is locked to it, or let go
game_handle_key ==
  /\ pc = "idle" /\ ~headless /\ state = "game"
  /\ lock_cam' = ~lock_cam
  /\ IF lock_cam THEN UNCHANGED <<ren, pc, crashed>> ELSE LockCam(ren)
  /\ UNCHANGED <<headless, stateVars, player, map, left>>

-------------------------------------------------------------------------------
(* The menu's frame. *)

mm_bg_update(r) ==
  ren_bind_bro(ren_draw_batch(ren_draw_rect(ren_bind_bro(r, "bg"), "background")), "default")

\* what the editor left behind is flushed now, if there is any
main_menu_update ==
  /\ pc = "idle" /\ state = "menu" /\ pc' = "end"
  /\ LET r == IF headless THEN ren ELSE mm_bg_update(ren) IN
     \/ ren' = r /\ UNCHANGED stateVars
     \/ ~headless /\ ren' = waapp_state_switch(r, "editor") /\ SwitchTo("editor")
  /\ left' = (ren.queue["bg"].count > 0)
  /\ map' = (map /\ "editor" \in inited')
  /\ UNCHANGED <<headless, player, lock_cam, crashed>>

-------------------------------------------------------------------------------
(* The game's frame. *)

Moved(r, cam) == ren_set_view(r, cam, r.view.zoom)

\* the camera is dragged, or stays
game_move_cam(r) ==
  \/ ren' = r /\ UNCHANGED lock_cam
  \/ ~headless /\ (\E cam \in Cams : ren' = Moved(r, cam))
     /\ lock_cam' = (lock_cam /\ "game" \notin inited)

\* game_ui_update, game_update_logic, and the beginning of game_draw
game_update ==
  /\ pc = "idle" /\ state = "game"
  /\ \E menu \in IF player \in {"new", "own"} /\ ~headless THEN BOOLEAN ELSE {FALSE} :
       /\ IF menu THEN SwitchTo("menu") ELSE UNCHANGED stateVars
       /\ LET r == IF menu THEN waapp_state_switch(ren, "menu") ELSE ren
              d == IF headless THEN r ELSE ren_bind_bro(r, "default") IN
          \/ player # "new" /\ game_move_cam(d)
          \/ player \in {"new", "own"} /\ lock_cam /\ \E cam \in Cams : game_move_cam(Moved(d, cam))
          \/ player = "new" /\ ~lock_cam /\ game_move_cam(d)
  /\ player' = IF player = "new" THEN "own" ELSE player
  /\ pc' = IF headless THEN "end" ELSE "map"
  /\ UNCHANGED <<headless, map, left, crashed>>

\* a cell of the map in sight
game_render_cell ==
  /\ pc \in {"map", "editor map"}
  /\ ren' = ren_draw_rect(ren, "cell")
  /\ UNCHANGED <<headless, stateVars, player, lock_cam, map, left, pc, crashed>>

\* the border, then default_bro again
MapBorder(r) == ren_bind_bro(ren_default_draw_rect_lines(r, "line"), "default")

game_render_map ==
  /\ pc = "map" /\ pc' = "bullets"
  /\ ren' = ren_draw_batch(MapBorder(ren))
  /\ UNCHANGED <<headless, stateVars, player, lock_cam, map, left, crashed>>

\* a bullet in sight; they come with the client's own player
game_render_bullets ==
  /\ pc = "bullets" /\ player # "none"
  /\ ren' = ren_laser_draw_misc(ren, "laser")
  /\ UNCHANGED <<headless, stateVars, player, lock_cam, map, left, pc, crashed>>

\* a cell or the contact point of one that is debugged; the cross is drawn out of sight too
game_render_bullet_debug ==
  /\ pc = "bullets" /\ player # "none"
  /\ \/ ren' = ren_default_draw_rect(ren, "cell")
     \/ ren' = ren_default_draw_line(ren_default_draw_line(ren))
  /\ UNCHANGED <<headless, stateVars, player, lock_cam, map, left, pc, crashed>>

BulletsDrawn ==
  /\ pc = "bullets" /\ pc' = "players"
  /\ ren' = ren_bind_bro(bro_draw_batch(ren, "laser"), "default")
  /\ UNCHANGED <<headless, stateVars, player, lock_cam, map, left, crashed>>

\* a bar of a player, or its tank or gun, in sight
game_render_player(r) == {ren_default_draw_rect(r, "bar"), ren_draw_rect(r, "body")}

\* when debugged, also the cells that list the player, and its body where the server has it
game_render_players ==
  /\ pc = "players"
  /\ ren' \in game_render_player(ren) \cup {ren_draw_rect(ren, "cell")}
  /\ UNCHANGED <<headless, stateVars, player, lock_cam, map, left, pc, crashed>>

game_render_screen_ui(r) ==
  bro_draw_batch(ren_screen_draw_rect(ren_screen_draw_rect(r, "hud"), "hud"), "screen")

game_draw ==
  /\ pc = "players" /\ pc' = "end"
  /\ ren' = game_render_screen_ui(bro_draw_batch(ren_draw_batch(ren), "line"))
  /\ UNCHANGED <<headless, stateVars, player, lock_cam, map, left, crashed>>

-------------------------------------------------------------------------------
(* The editor's frame: a map, with its menu, or the list of maps. *)

\* the map may be discarded; whoever goes back to the menu leaves a frame to draw
map_editor_ui(r) ==
  \/ ren' = r /\ UNCHANGED stateVars /\ map' \in BOOLEAN /\ left' = FALSE
  \/ ren' = ren_set_view(r, Origin, r.view.zoom) /\ UNCHANGED stateVars /\ map' = map /\ left' = FALSE
  \/ ren' = waapp_state_switch(r, "menu") /\ SwitchTo("menu") /\ map' = map /\ left' = TRUE

\* the list: a map is opened, or the window closed
MapList(r) ==
  \/ ren' = r /\ UNCHANGED stateVars /\ map' \in BOOLEAN
  \/ ren' = waapp_state_switch(r, "menu") /\ SwitchTo("menu") /\ map' = map

map_editor_update ==
  /\ pc = "idle" /\ state = "editor"
  /\ \E cam \in Cams :
       LET r == IF cam = ren.view.cam THEN ren ELSE Moved(ren, cam) IN
       /\ lock_cam' \in {lock_cam, lock_cam /\ "game" \notin inited}
       /\ IF map THEN map_editor_ui(r) /\ pc' = IF map' THEN "editor map" ELSE "editor end"
          ELSE MapList(r) /\ left' = FALSE /\ pc' = "editor end"
  /\ UNCHANGED <<headless, player, crashed>>

EditorMap ==
  /\ pc = "editor map" /\ pc' = "grid"
  /\ UNCHANGED <<headless, stateVars, ren, player, lock_cam, map, left, crashed>>

game_render_grid ==
  /\ pc = "grid"
  /\ ren' = ren_default_draw_line(ren)
  /\ UNCHANGED <<headless, stateVars, player, lock_cam, map, left, pc, crashed>>

GridDrawn ==
  /\ pc = "grid" /\ pc' = "editor end"
  /\ ren' = MapBorder(ren)
  /\ UNCHANGED <<headless, stateVars, player, lock_cam, map, left, crashed>>

\* mutant: the lines are left to the next frame
EditorFlush_Lines(r) == ren_bind_bro(ren_draw_batch(r), "default")

EditorFlush(r) ==
  ren_bind_bro(ren_draw_batch(ren_bind_bro(ren_draw_batch(r), "line")), "default")

EditorDrawn ==
  /\ pc = "editor end" /\ pc' = "end"
  /\ ren' = EditorFlush(ren)
  /\ UNCHANGED <<headless, stateVars, player, lock_cam, map, left, crashed>>

-------------------------------------------------------------------------------
(* The end of a frame, and of the program. *)

\* the object of a state goes with it
StateCleanup(r, s) ==
  CASE s = "menu" -> ren_delete_bro(r, "bg")
    [] s = "game" -> ren_delete_bro(r, "laser")
    [] OTHER -> r

NewFrame == [ren EXCEPT !.shown = {}]

\* game_cleanup deletes the game's textures, which a headless client has not
waapp_state_update ==
  /\ pc = "end"
  /\ IF pending /\ prev = "game" /\ headless
     THEN crashed' = "gl" /\ pc' = "down" /\ UNCHANGED <<stateVars, ren, player, map>>
     ELSE /\ pc' = "idle" /\ pending' = FALSE
          /\ ren' = IF pending THEN StateCleanup(NewFrame, prev) ELSE NewFrame
          /\ inited' = IF pending THEN inited \ {prev} ELSE inited
          /\ player' = IF pending /\ prev = "game" THEN "none" ELSE player
          /\ map' = (map /\ "editor" \in inited')
          /\ UNCHANGED <<state, prev, crashed>>
  /\ UNCHANGED <<headless, lock_cam, left>>

\* waapp_cleanup begins with the application's textures
waapp_cleanup ==
  /\ pc = "idle" /\ pc' = "down"
  /\ IF headless THEN crashed' = "gl" /\ UNCHANGED <<inited, ren>>
     ELSE LET menu == IF "menu" \in inited THEN StateCleanup(ren, "menu") ELSE ren
              game == IF "game" \in inited THEN StateCleanup(menu, "game") ELSE menu IN
          /\ ren' = ren_del(game)
          /\ inited' = {} /\ UNCHANGED crashed
  /\ UNCHANGED <<headless, state, prev, pending, player, lock_cam, map, left>>

Next ==
  \/ udp_info \/ game_new_player \/ do_reconnect \/ game_server_shutdown
  \/ waapp_resize \/ game_handle_mouse_wheel \/ game_handle_key
  \/ main_menu_update \/ map_editor_update
  \/ game_update \/ game_render_cell \/ game_render_map \/ game_render_bullets \/ game_render_bullet_debug
  \/ BulletsDrawn \/ game_render_players \/ game_draw
  \/ EditorMap \/ game_render_grid \/ GridDrawn \/ EditorDrawn
  \/ waapp_state_update \/ waapp_cleanup

Spec == Init /\ [][Next]_vars

-------------------------------------------------------------------------------
(* Properties. *)

Parts == {"idle", "map", "bullets", "players", "editor map", "grid", "editor end", "end", "down"}

Batches == [count : Nat, items : SUBSET Items]

Shown == [kind : Kinds, bro : Bros, place : {"right", "wrong", "blank", "unscaled"}]

(***************************************************************************)
(* The variables have their types.  No object holds more vertices than its *)
(* buffer has room for, whatever is drawn, in whatever order, with however *)
(* many rectangles left from an earlier frame: each draw_rect writes at    *)
(* buf + count and trusts the flush before it.                             *)
(***************************************************************************)
TypeOK ==
  /\ headless \in BOOLEAN /\ pending \in BOOLEAN /\ lock_cam \in BOOLEAN
  /\ map \in BOOLEAN /\ left \in BOOLEAN
  /\ state \in States /\ prev \in States \cup {"none"} /\ inited \subseteq States
  /\ player \in {"none", "new", "own", "lost"}
  /\ pc \in Parts /\ crashed \in {"no", "gl", "player"}
  /\ ren.view \in View /\ ren.shown \subseteq Shown
  /\ \A b \in Bros : ren.queue[b] \in Batches /\ ren.queue[b].count <= Capacity(b)

BroOf(kind) ==
  CASE kind \in {"cell", "body", "bar"} -> "default"
    [] kind = "hud" -> "screen"
    [] kind = "background" -> "bg"
    [] OTHER -> kind

(***************************************************************************)
(* What a frame shows is drawn by the object made for it and under the     *)
(* view it was queued under: no flush, made by a full buffer or at the end *)
(* of a frame, uses matrices that changed since, although every packet and *)
(* event may move the camera, the scale or the window.  Between frames     *)
(* nothing is queued.  The exceptions: in the frame in which the editor is *)
(* left with a map open, main_menu_enter binds the menu's background, and  *)
(* the map's cells still to be drawn go there; it sets the scale to 1      *)
(* without telling the laser's shader, and the game may still be drawn;    *)
(* and a laser has no matrix as long as nothing has set the view since the *)
(* game began, as when the camera is unlocked before there is a player.    *)
(***************************************************************************)
DrawnAsQueued ==
  /\ \A s \in ren.shown :
       \/ s.bro = BroOf(s.kind) /\ s.place = "right"
       \/ s.bro = "laser" /\ s.kind = "laser" /\ s.place = "blank" /\ ren.given["laser"].mvp = None
       \/ s.bro = "laser" /\ s.kind = "laser" /\ s.place = "unscaled"
       \/ s.bro = "bg" /\ s.kind = "cell" /\ left
  /\ pc = "idle" => \A b \in Bros : ren.queue[b].count > 0 => b = "bg" /\ left

(***************************************************************************)
(* What the renderer holds pointers to is there: the bound object, and the *)
(* shaders of the lists that are given the matrices, which ren_set_mvp     *)
(* takes to be valid, are those of the objects that live.  The program     *)
(* ends early only where it is headless, in the deletion of a texture, or  *)
(* where the camera is made to follow a player that is not there: by a     *)
(* wheel or a resize, or by the space bar, which locks it (game.c:135).    *)
(***************************************************************************)
LiveOnly ==
  /\ pc # "down" => ren.mvp = ren.live \cap MvpShaders /\ ren.proj = ren.live \cap ProjShaders
  /\ pc # "down" /\ ~headless => ren.current \in ren.live
  /\ crashed = "gl" => headless
  /\ crashed = "player" => lock_cam /\ player \in {"none", "lost"}
===============================================================================
