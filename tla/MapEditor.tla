------------------------------- MODULE MapEditor -------------------------------
(***************************************************************************)
(* The map editor (map_editor.c) and the maps it edits (cg_map.c), on      *)
(* memory and on disk.                                                     *)
(*                                                                         *)
(* The table `maps` lists a header for every map file found when the       *)
(* editor is entered and for every map created since.  A header that was   *)
(* read has the hash of its path without the extension as its key (strtok  *)
(* cut the path), one that was created its id, and the hash of its whole   *)
(* path once it is saved.  Whether ght_insert keeps or replaces the value  *)
(* of a key that is there is not in this repository: `replaces` is either. *)
(*                                                                         *)
(* A map's width, height and grid size are left out (cg_map_resize returns *)
(* at once: nothing sets editor_mode), a file's name is that of its map.   *)
(***************************************************************************)
EXTENDS Naturals, FiniteSets

CONSTANTS
  Names,      \* what a map may be called
  Cells,      \* the positions of a map
  Headers,    \* bound: editor_map_header_t there is memory for
  NoName      \* the empty string

ASSUME NameAssumption == NoName \notin Names
ASSUME CellAssumption == Cells # {}

EMPTY == 0
BLOCK == 1
SPAWN == 2
Types == {EMPTY, BLOCK, SPAWN}

None == [none |-> TRUE]
Absent == [absent |-> TRUE]

ASSUME HeaderAssumption == None \notin Headers

Keys == ({"id"} \X Headers) \cup ({"path", "stem"} \X Names)

VARIABLES
  files,      \* what res/maps/<name>.cgmap holds: cells, none when it is no map
  header,     \* the headers in memory
  maps,       \* editor->maps: which header a key has
  free,       \* editor->maps.free: of a header and its map, or of a header only
  selected,   \* editor->map_selected
  editing,    \* editor->map is set: it is then the map of the selected header
  where,      \* menu, editor, down once the application is left, lost
  replaces,   \* what ght_insert does with a key it has
  saved,      \* history: the cells last reported "Saved!" under a name
  spoiled,    \* history: names whose last save failed and left the file empty
  over        \* history: names a map was saved under while another had them

listVars == <<header, maps, free, selected, editing>>
vars == <<files, listVars, where, replaces, saved, spoiled, over>>

-------------------------------------------------------------------------------
(* Maps. *)

cg_map_new == [type |-> [c \in Cells |-> EMPTY], data |-> [c \in Cells |-> FALSE]]

\* the cells a file lists, the rest empty; contents for all that are not blocks
OnDisk(disk, c) == IF <<c, BLOCK>> \in disk THEN BLOCK
                   ELSE IF <<c, SPAWN>> \in disk THEN SPAWN ELSE EMPTY

cg_map_load_disk(disk) ==
  [type |-> [c \in Cells |-> OnDisk(disk, c)],
   data |-> [c \in Cells |-> OnDisk(disk, c) # BLOCK]]

IsMap(file) == file # Absent /\ file.cells # {}

cg_map_load(file) == IF IsMap(file) THEN cg_map_load_disk(file.cells) ELSE None

\* mutant: their type is lost
cg_map_runtime_disk_size_Blocks(map) == {<<c, BLOCK>> : c \in {d \in Cells : map.type[d] # EMPTY}}

\* what of a map is written: its cells that are not empty
cg_map_runtime_disk_size(map) == {<<c, map.type[c]>> : c \in {d \in Cells : map.type[d] # EMPTY}}

map_editor_set_cell_Keeps(map, c, t) == [map EXCEPT !.type[c] = t]   \* mutant: data not freed

map_editor_set_cell(map, c, t) ==
  IF map.type[c] = t THEN map ELSE [map EXCEPT !.type[c] = t, !.data[c] = t # BLOCK]

-------------------------------------------------------------------------------
(* The table. *)

Listed == {maps[k] : k \in {j \in Keys : maps[j] # None}}
InMemory == {h \in Headers : header[h] # None}
Unused == Headers \ InMemory

\* ght_insert, beside what becomes of the value that was there
Inserted(k, h) == IF maps[k] = None \/ replaces THEN h ELSE maps[k]

\* what maps saved before may hold
MapCells == {disk \in SUBSET (Cells \X {BLOCK, SPAWN}) :
               disk # {} /\ \A c \in Cells : ~({<<c, BLOCK>>, <<c, SPAWN>>} \subseteq disk)}

Init ==
  /\ files \in [Names -> [cells : MapCells] \cup {Absent}]
  /\ saved = [n \in Names |->
       IF files[n] = Absent THEN [c \in Cells |-> EMPTY] ELSE cg_map_load_disk(files[n].cells).type]
  /\ header = [h \in Headers |-> None]
  /\ maps = [k \in Keys |-> None]
  /\ free = "header" /\ selected = None /\ editing = FALSE
  /\ where = "menu"
  /\ replaces \in BOOLEAN
  /\ spoiled = {} /\ over = {}

(***************************************************************************)
(* map_editor_read_header looks a file up by its path and files it under   *)
(* its stem.  What a stem had is kept, or replaced and freed: if that was  *)
(* the header selected, the editor goes on with memory it has not.         *)
(***************************************************************************)
ToRead == {n \in Names : IsMap(files[n]) /\ maps[<<"path", n>>] = None}
ToList == {n \in ToRead : maps[<<"stem", n>>] = None \/ replaces}

Replaced == {h \in Headers : \E n \in ToList : maps[<<"stem", n>>] = h}

HeaderRead(n) == [path |-> n, map |-> None]

map_editor_enter ==
  /\ where = "menu"
  /\ where' = IF selected \in Replaced THEN "lost" ELSE "editor"
  /\ \E at \in [ToList -> Unused] :
       /\ \A m, n \in ToList : at[m] = at[n] => m = n
       /\ maps' = [k \in Keys |->
            IF k[1] = "stem" /\ k[2] \in ToList THEN at[k[2]] ELSE maps[k]]
       /\ header' = [h \in Headers |->
            IF \E n \in ToList : at[n] = h THEN HeaderRead(CHOOSE n \in ToList : at[n] = h)
            ELSE IF h \in Replaced THEN None ELSE header[h]]
  /\ UNCHANGED <<files, free, selected, editing, replaces, saved, spoiled, over>>

-------------------------------------------------------------------------------
(* The list of maps, while none is edited. *)

InList == where = "editor" /\ ~editing

CreateNew ==
  /\ InList
  /\ \E h \in Unused :
       /\ header' = [header EXCEPT ![h] =
            [path |-> NoName, map |-> cg_map_new]]
       /\ maps' = [maps EXCEPT ![<<"id", h>>] = h]
       /\ selected' = h
  /\ editing' = TRUE
  /\ UNCHANGED <<files, free, where, replaces, saved, spoiled, over>>

\* a header that was edited before still has its map
LoadSelected ==
  /\ InList /\ selected # None
  /\ LET s == header[selected]
         map == IF s.map # None THEN s.map
                ELSE IF s.path = NoName THEN None ELSE cg_map_load(files[s.path])
     IN  /\ header' = [header EXCEPT ![selected].map = map]
         /\ editing' = (map # None)
  /\ UNCHANGED <<files, maps, free, selected, where, replaces, saved, spoiled, over>>

\* a row is selected, or no longer: which of its clicks do is left out
Click(h) ==
  /\ InList /\ h \in Listed
  /\ selected' \in {h, None}
  /\ UNCHANGED <<files, header, maps, free, editing, where, replaces, saved, spoiled, over>>

-------------------------------------------------------------------------------
(* The map that is edited. *)

Editing == where = "editor" /\ editing

map_editor_handle_building(c, t) ==
  /\ Editing
  /\ header' = [header EXCEPT ![selected].map = map_editor_set_cell(@, c, t)]
  /\ UNCHANGED <<files, maps, free, selected, editing, where, replaces, saved, spoiled, over>>

(***************************************************************************)
(* It is saved under the name in the editor's field, if there is one.      *)
(* The file is opened, which empties it, before the map is found to have   *)
(* no cells.  The first save of a map gives its header another key, saved  *)
(* or not; a header whose key is taken is kept out of the table.           *)
(***************************************************************************)
Rekeyed_Not(h, n) == maps           \* mutant: a saved header keeps its id

Rekeyed(h, n) ==
  IF header[h].path # NoName THEN maps
  ELSE [maps EXCEPT ![<<"id", h>>] = None, ![<<"path", n>>] = Inserted(<<"path", n>>, h)]

map_editor_save_current(n, opens) ==
  /\ Editing
  /\ LET s == header[selected]
         disk == cg_map_runtime_disk_size(s.map)
     IN  /\ header' = [header EXCEPT ![selected].path = n]
         /\ maps' = Rekeyed(selected, n)
         /\ free' = IF s.path = NoName THEN "plain" ELSE free
         /\ files' = IF opens THEN [files EXCEPT ![n] = [cells |-> disk]] ELSE files
         /\ saved' = IF opens /\ disk # {} THEN [saved EXCEPT ![n] = s.map.type] ELSE saved
         /\ spoiled' = IF ~opens THEN spoiled
                       ELSE IF disk = {} THEN spoiled \cup {n} ELSE spoiled \ {n}
         /\ over' = IF \E h \in Listed \ {selected} : header[h].path = n
                    THEN over \cup {n} ELSE over
  /\ UNCHANGED <<selected, editing, where, replaces>>

\* "Create/Load New Map"
PutAside ==
  /\ Editing
  /\ selected' = None /\ editing' = FALSE
  /\ UNCHANGED <<files, header, maps, free, where, replaces, saved, spoiled, over>>

\* "Discard Current Map": a map that was never saved goes with its header
Discard ==
  /\ Editing
  /\ IF header[selected].path = NoName
     THEN /\ header' = [header EXCEPT ![selected] = None]
          /\ maps' = [maps EXCEPT ![<<"id", selected>>] = None]
     ELSE /\ header' = [header EXCEPT ![selected].map = None]
          /\ UNCHANGED maps
  /\ selected' = None /\ editing' = FALSE
  /\ UNCHANGED <<files, free, where, replaces, saved, spoiled, over>>

\* "Back to Main Menu", or the list closed: the editor keeps what it has
Back ==
  /\ where = "editor" /\ where' = "menu"
  /\ UNCHANGED <<files, listVars, replaces, saved, spoiled, over>>

\* the headers go with their maps, or without them once a map was saved
map_editor_cleanup ==
  /\ where \in {"menu", "editor"} /\ where' = "down"
  /\ header' = [h \in Headers |-> None] /\ maps' = [k \in Keys |-> None]
  /\ selected' = None /\ editing' = FALSE
  /\ UNCHANGED <<files, free, replaces, saved, spoiled, over>>

Next ==
  \/ map_editor_enter
  \/ CreateNew
  \/ LoadSelected
  \/ \E h \in Headers : Click(h)
  \/ \E c \in Cells, t \in Types : map_editor_handle_building(c, t)
  \/ \E n \in Names, opens \in BOOLEAN : map_editor_save_current(n, opens)
  \/ PutAside
  \/ Discard
  \/ Back
  \/ map_editor_cleanup

Spec == Init /\ [][Next]_vars

-------------------------------------------------------------------------------
Map == {m \in [type : [Cells -> Types], data : [Cells -> BOOLEAN]] :
          \A c \in Cells : m.data[c] => m.type[c] # BLOCK}

Header == [path : Names \cup {NoName}, map : Map \cup {None}]

(***************************************************************************)
(* A block has no contents to be freed.  The map that is edited belongs to *)
(* a header that exists, unless the table lost it when it read its file    *)
(* again.                                                                  *)
(***************************************************************************)
TypeOK ==
  /\ files \in [Names -> [cells : SUBSET (Cells \X {BLOCK, SPAWN})] \cup {Absent}]
  /\ header \in [Headers -> Header \cup {None}]
  /\ maps \in [Keys -> Headers \cup {None}]
  /\ free \in {"header", "plain"}
  /\ selected \in Headers \cup {None}
  /\ selected # None /\ where # "lost" => selected \in InMemory
  /\ editing \in BOOLEAN
  /\ editing => selected # None
  /\ editing /\ where # "lost" => header[selected].map # None
  /\ where \in {"menu", "editor", "down", "lost"}
  /\ replaces \in BOOLEAN
  /\ saved \in [Names -> [Cells -> Types]]
  /\ spoiled \subseteq Names /\ over \subseteq Names

(***************************************************************************)
(* To load a file gives the map last "Saved!" there, cell by cell, unless  *)
(* a save that "Failed!" has emptied it since.                             *)
(***************************************************************************)
FilesHoldSaves ==
  \A n \in Names \ spoiled :
    files[n] # Absent => IsMap(files[n]) /\ cg_map_load(files[n]).type = saved[n]

(***************************************************************************)
(* The list does not offer one file twice, each with edits of its own,     *)
(* unless a map was saved over another one's file or under another name    *)
(* than it was read from.                                                  *)
(***************************************************************************)
Renamed(k) == k[1] # "id" /\ header[maps[k]].path # k[2]

ListedOnce ==
  \A j, k \in Keys :
    (j # k /\ maps[j] # None /\ maps[k] # None)
      => \/ header[maps[j]].path = NoName
         \/ header[maps[j]].path # header[maps[k]].path
         \/ header[maps[j]].path \in over
         \/ Renamed(j) \/ Renamed(k)

===============================================================================
