---------------------------- MODULE MapEditorProofs ----------------------------
(***************************************************************************)
(* The editor's files and its list of maps, for any names, any size of a   *)
(* map and any number of headers: proofs of the invariants of MapEditor.   *)
(* That a file holds what was saved rests on the types alone; that no file *)
(* is listed twice, on the keys: a header has one key at most, its id      *)
(* until it has a path and never after.                                    *)
(***************************************************************************)
EXTENDS MapEditor, TLAPS

HeldFile(f, type) == f # Absent => f.cells # {} /\ \A c \in Cells : OnDisk(f.cells, c) = type[c]

Table ==
  /\ Listed \subseteq InMemory
  /\ \A j, k \in Keys : maps[j] # None /\ maps[j] = maps[k] => j = k
  /\ \A h \in Headers : maps[<<"id", h>>] # None =>
       maps[<<"id", h>>] = h /\ header[h].path = NoName
  /\ \A k \in Keys : k[1] # "id" /\ maps[k] # None => header[maps[k]].path # NoName

-------------------------------------------------------------------------------
(* Maps and files. *)

LEMMA Distinct == NoName \notin Names /\ BLOCK # EMPTY /\ SPAWN # EMPTY /\ BLOCK # SPAWN
  BY NameAssumption DEF BLOCK, SPAWN, EMPTY

\* what the disk lists of a cell is one of the types
LEMMA OnDiskType == ASSUME NEW disk, NEW c PROVE OnDisk(disk, c) \in Types
  BY DEF OnDisk, Types

LEMMA NewMap == cg_map_new \in Map
  BY Distinct DEF cg_map_new, Map, Types

LEMMA LoadedMap ==
  ASSUME NEW disk
  PROVE  /\ cg_map_load_disk(disk) \in Map
         /\ cg_map_load_disk(disk).type = [c \in Cells |-> OnDisk(disk, c)]
  <1>1. \A c \in Cells : OnDisk(disk, c) \in Types
    BY OnDiskType
  <1> QED BY <1>1 DEF cg_map_load_disk, Map

LEMMA SetCell ==
  ASSUME NEW map \in Map, NEW c \in Cells, NEW t \in Types
  PROVE  map_editor_set_cell(map, c, t) \in Map
  <1>1. /\ map.type \in [Cells -> Types] /\ map.data \in [Cells -> BOOLEAN]
        /\ map = [type |-> map.type, data |-> map.data]
        /\ \A d \in Cells : map.data[d] => map.type[d] # BLOCK
    BY DEF Map
  <1>2. CASE map.type[c] = t
    BY <1>2 DEF map_editor_set_cell
  <1>3. CASE map.type[c] # t
    <2> DEFINE new == [type |-> [map.type EXCEPT ![c] = t], data |-> [map.data EXCEPT ![c] = (t # BLOCK)]]
    <2>1. map_editor_set_cell(map, c, t) = new
      BY <1>1, <1>3 DEF map_editor_set_cell, Map
    <2>2. new.type \in [Cells -> Types] /\ new.data \in [Cells -> BOOLEAN]
      BY <1>1
    <2>3. \A d \in Cells : new.data[d] => new.type[d] # BLOCK
      BY <1>1
    <2> QED BY <2>1, <2>2, <2>3 DEF Map
  <1> QED BY <1>2, <1>3

\* what is written of a map is read back as the map
LEMMA WrittenRead ==
  ASSUME NEW map \in Map
  PROVE  /\ cg_map_runtime_disk_size(map) \in SUBSET (Cells \X {BLOCK, SPAWN})
         /\ \A c \in Cells : OnDisk(cg_map_runtime_disk_size(map), c) = map.type[c]
  <1> DEFINE disk == cg_map_runtime_disk_size(map)
  <1>1. map.type \in [Cells -> {EMPTY, BLOCK, SPAWN}]
    BY DEF Map, Types
  <1>2. \A c \in Cells, t \in Types : <<c, t>> \in disk <=> map.type[c] = t /\ t # EMPTY
    BY DEF cg_map_runtime_disk_size
  <1>3. disk \in SUBSET (Cells \X {BLOCK, SPAWN})
    BY <1>1 DEF cg_map_runtime_disk_size
  <1> HIDE DEF disk
  <1>4. ASSUME NEW c \in Cells PROVE OnDisk(disk, c) = map.type[c]
    <2>1. map.type[c] \in {EMPTY, BLOCK, SPAWN}
      BY <1>1
    <2>2. <<c, BLOCK>> \in disk <=> map.type[c] = BLOCK
      BY <1>2, Distinct DEF Types
    <2>3. <<c, SPAWN>> \in disk <=> map.type[c] = SPAWN
      BY <1>2, Distinct DEF Types
    <2> QED BY <2>1, <2>2, <2>3 DEF OnDisk
  <1> QED BY <1>3, <1>4 DEF disk

-------------------------------------------------------------------------------
(* Types. *)

FilesTyped ==
  /\ files \in [Names -> [cells : SUBSET (Cells \X {BLOCK, SPAWN})] \cup {Absent}]
  /\ saved \in [Names -> [Cells -> Types]]
  /\ spoiled \subseteq Names /\ over \subseteq Names /\ replaces \in BOOLEAN

ListTyped ==
  /\ header \in [Headers -> Header \cup {None}]
  /\ maps \in [Keys -> Headers \cup {None}]
  /\ free \in {"header", "plain"}
  /\ selected \in Headers \cup {None}
  /\ editing \in BOOLEAN
  /\ where \in {"menu", "editor", "down", "lost"}
  /\ editing => selected # None
  /\ where # "lost" /\ selected # None => header[selected] # None
  /\ where # "lost" /\ editing => header[selected].map # None

IInv == FilesTyped /\ ListTyped /\ Table

LEMMA IInvTypeOK == IInv => TypeOK
  BY DEF IInv, FilesTyped, ListTyped, TypeOK, InMemory

LEMMA HeaderIsSome == \A x \in Header : x # None
  <1> SUFFICES ASSUME NEW x \in Header, x = None PROVE FALSE
    OBVIOUS
  <1>1. DOMAIN x = {"path", "map"}
    BY DEF Header
  <1>2. DOMAIN x = {"none"}
    BY DEF None
  <1> QED BY <1>1, <1>2

LEMMA MapIsSome == \A x \in Map : x # None
  <1> SUFFICES ASSUME NEW x \in Map, x = None PROVE FALSE
    OBVIOUS
  <1>1. DOMAIN x = {"type", "data"}
    BY DEF Map
  <1>2. DOMAIN x = {"none"}
    BY DEF None
  <1> QED BY <1>1, <1>2

LEMMA Initially == Init => IInv
  <1> SUFFICES ASSUME Init PROVE IInv
    OBVIOUS
  <1>1. files \in [Names -> [cells : SUBSET (Cells \X {BLOCK, SPAWN})] \cup {Absent}]
    BY DEF Init, MapCells
  <1>2. saved \in [Names -> [Cells -> Types]]
    <2>1. ASSUME NEW n \in Names
          PROVE  (IF files[n] = Absent THEN [c \in Cells |-> EMPTY]
                  ELSE cg_map_load_disk(files[n].cells).type) \in [Cells -> Types]
      <3>1. [c \in Cells |-> EMPTY] \in [Cells -> Types]
        BY DEF Types
      <3>2. cg_map_load_disk(files[n].cells).type \in [Cells -> Types]
        BY LoadedMap DEF Map
      <3> QED BY <3>1, <3>2
    <2> QED BY <2>1 DEF Init
  <1>3. FilesTyped
    BY <1>1, <1>2 DEF Init, FilesTyped
  <1>4. ListTyped
    BY DEF Init, ListTyped
  <1>5. Table
    BY DEF Init, Table, Listed, Keys
  <1> QED BY <1>3, <1>4, <1>5 DEF IInv

-------------------------------------------------------------------------------
(* The list. *)

\* a header with no path, listed under its id
LEMMA StepCreate == ASSUME IInv, CreateNew PROVE IInv'
  <1>1. PICK h \in Unused :
          /\ header' = [header EXCEPT ![h] = [path |-> NoName, map |-> cg_map_new]]
          /\ maps' = [maps EXCEPT ![<<"id", h>>] = h]
          /\ selected' = h
    BY DEF CreateNew
  <1>2. h \in Headers /\ header[h] = None /\ h # None /\ <<"id", h>> \in Keys
        /\ header \in [Headers -> Header \cup {None}] /\ maps \in [Keys -> Headers \cup {None}]
    BY HeaderAssumption DEF Unused, InMemory, Keys, IInv, ListTyped
  <1>3. [path |-> NoName, map |-> cg_map_new] \in Header /\ cg_map_new # None
    BY NewMap, MapIsSome DEF Header
  <1>4. [path |-> NoName, map |-> cg_map_new] # None
    BY <1>3, HeaderIsSome
  <1>5. \A k \in Keys : maps[k] # h
    BY <1>2 DEF IInv, Table, Listed, InMemory
  <1>6. FilesTyped' /\ ListTyped'
    BY <1>1, <1>2, <1>3, <1>4 DEF IInv, FilesTyped, ListTyped, CreateNew, InList
  <1>7. Table'
    <2>1. Listed' \subseteq InMemory'
      BY <1>1, <1>2, <1>4 DEF IInv, Table, Listed, InMemory
    <2>2. \A j, k \in Keys : maps'[j] # None /\ maps'[j] = maps'[k] => j = k
      BY <1>1, <1>2, <1>5 DEF IInv, Table
    <2>3. \A g \in Headers : maps'[<<"id", g>>] # None =>
            maps'[<<"id", g>>] = g /\ header'[g].path = NoName
      <3> SUFFICES ASSUME NEW g \in Headers, maps'[<<"id", g>>] # None
                   PROVE  maps'[<<"id", g>>] = g /\ header'[g].path = NoName
        OBVIOUS
      <3>1. <<"id", g>> \in Keys
        BY DEF Keys
      <3> QED BY <1>1, <1>2, <3>1 DEF IInv, Table
    <2>4. \A k \in Keys : k[1] # "id" /\ maps'[k] # None => header'[maps'[k]].path # NoName
      BY <1>1, <1>2, <1>5 DEF IInv, Table
    <2> QED BY <2>1, <2>2, <2>3, <2>4 DEF Table
  <1> QED BY <1>6, <1>7 DEF IInv

\* the table stands as long as headers only change their maps
LEMMA TableStands ==
  ASSUME IInv, maps' = maps,
         \A h \in Headers : /\ header'[h] = None <=> header[h] = None
                            /\ header[h] # None => header'[h].path = header[h].path
  PROVE  Table'
  <1>1. maps \in [Keys -> Headers \cup {None}]
    BY DEF IInv, ListTyped
  <1>2. Listed' = Listed /\ InMemory' = InMemory
    BY DEF Listed, InMemory
  <1>3. \A k \in Keys : maps[k] # None => maps[k] \in Headers /\ header[maps[k]] # None
    BY <1>1 DEF IInv, Table, Listed, InMemory
  <1>4. \A h \in Headers : <<"id", h>> \in Keys
    BY DEF Keys
  <1>5. \A h \in Headers : maps[<<"id", h>>] # None =>
          maps[<<"id", h>>] = h /\ header'[h].path = NoName
    <2> SUFFICES ASSUME NEW h \in Headers, maps[<<"id", h>>] # None
                 PROVE  maps[<<"id", h>>] = h /\ header'[h].path = NoName
      OBVIOUS
    <2>1. maps[<<"id", h>>] = h /\ header[h].path = NoName
      BY DEF IInv, Table
    <2>2. header[h] # None
      BY <1>3, <1>4, <2>1
    <2> QED BY <2>1, <2>2
  <1>6. \A k \in Keys : k[1] # "id" /\ maps[k] # None => header'[maps[k]].path # NoName
    BY <1>3 DEF IInv, Table
  <1> QED BY <1>2, <1>5, <1>6 DEF IInv, Table

LEMMA StepLoad == ASSUME IInv, LoadSelected PROVE IInv'
  <1> DEFINE s == header[selected]
             map == IF s.map # None THEN s.map
                    ELSE IF s.path = NoName THEN None ELSE cg_map_load(files[s.path])
  <1>1. /\ where = "editor" /\ selected # None
        /\ header' = [header EXCEPT ![selected].map = map]
        /\ editing' = (map # None)
        /\ UNCHANGED <<files, maps, free, selected, where, replaces, saved, spoiled, over>>
    BY DEF LoadSelected, InList
  <1>2. selected \in Headers /\ s \in Header /\ s # None /\ header \in [Headers -> Header \cup {None}]
    BY <1>1 DEF IInv, ListTyped
  <1>3. map \in Map \cup {None}
    <2>1. s.map \in Map \cup {None}
      BY <1>2 DEF Header
    <2>2. \A file : cg_map_load(file) \in Map \cup {None}
      BY LoadedMap DEF cg_map_load
    <2> QED BY <2>1, <2>2
  <1> HIDE DEF map
  <1>4. [s EXCEPT !.map = map] \in Header /\ [s EXCEPT !.map = map].path = s.path
        /\ [s EXCEPT !.map = map].map = map
    BY <1>2, <1>3 DEF Header
  <1>5. header' = [header EXCEPT ![selected] = [s EXCEPT !.map = map]]
    BY <1>1
  <1> HIDE DEF s
  <1>6. [s EXCEPT !.map = map] # None
    BY <1>4, HeaderIsSome
  <1>7. FilesTyped'
    BY <1>1 DEF IInv, FilesTyped
  <1>8. ListTyped'
    BY <1>1, <1>2, <1>4, <1>5, <1>6 DEF IInv, ListTyped
  <1>9. Table'
    BY <1>1, <1>2, <1>4, <1>5, <1>6, TableStands DEF s
  <1> QED BY <1>7, <1>8, <1>9 DEF IInv

LEMMA StepClick == ASSUME IInv, NEW h \in Headers, Click(h) PROVE IInv'
  <1>1. h \in Listed /\ selected' \in {h, None} /\ where = "editor" /\ ~editing
        /\ UNCHANGED <<files, header, maps, free, editing, where, replaces, saved, spoiled, over>>
    BY DEF Click, InList
  <1>2. header[h] # None
    BY <1>1 DEF IInv, Table, InMemory
  <1>3. FilesTyped' /\ ListTyped'
    BY <1>1, <1>2 DEF IInv, FilesTyped, ListTyped
  <1>4. Table'
    BY <1>1, TableStands
  <1> QED BY <1>3, <1>4 DEF IInv

-------------------------------------------------------------------------------
(* The map that is edited. *)

\* the header of the map that is edited
LEMMA Edited ==
  ASSUME IInv, Editing
  PROVE  /\ selected \in Headers /\ selected # None /\ header[selected] \in Header
         /\ header[selected] # None /\ header[selected].map \in Map
  <1>1. selected \in Headers /\ selected # None /\ header[selected] \in Header
        /\ header[selected] # None /\ header[selected].map # None
    BY DEF IInv, ListTyped, Editing
  <1> QED BY <1>1 DEF Header

LEMMA StepBuild ==
  ASSUME IInv, NEW c \in Cells, NEW t \in Types, map_editor_handle_building(c, t)
  PROVE  IInv'
  <1> DEFINE s == header[selected]
             map == map_editor_set_cell(s.map, c, t)
  <1>1. /\ Editing
        /\ header' = [header EXCEPT ![selected] = [s EXCEPT !.map = map]]
        /\ UNCHANGED <<files, maps, free, selected, editing, where, replaces, saved, spoiled, over>>
    BY DEF map_editor_handle_building
  <1>2. selected \in Headers /\ s \in Header /\ s # None /\ s.map \in Map /\ selected # None
    BY <1>1, Edited
  <1>3. map \in Map /\ map # None
    BY <1>2, SetCell, MapIsSome
  <1> HIDE DEF map
  <1>4. [s EXCEPT !.map = map] \in Header /\ [s EXCEPT !.map = map].path = s.path
        /\ [s EXCEPT !.map = map].map = map
    BY <1>2, <1>3 DEF Header
  <1> HIDE DEF s
  <1>5. [s EXCEPT !.map = map] # None
    BY <1>4, HeaderIsSome
  <1>6. FilesTyped' /\ ListTyped'
    BY <1>1, <1>2, <1>3, <1>4, <1>5 DEF IInv, FilesTyped, ListTyped
  <1>7. Table'
    <2>1. header \in [Headers -> Header \cup {None}]
      BY DEF IInv, ListTyped
    <2> QED BY <1>1, <1>2, <1>4, <1>5, <2>1, TableStands DEF s
  <1> QED BY <1>6, <1>7 DEF IInv

LEMMA StepPutAside == ASSUME IInv, PutAside \/ Back PROVE IInv'
  <1>1. /\ header' = header /\ maps' = maps
        /\ UNCHANGED <<files, free, replaces, saved, spoiled, over>>
    BY DEF PutAside, Back, listVars
  <1>2. FilesTyped'
    BY <1>1 DEF IInv, FilesTyped
  <1>3. /\ where' \in {"menu", "editor"} /\ where = "editor"
        /\ (selected' = None /\ editing' = FALSE) \/ (selected' = selected /\ editing' = editing)
    BY DEF PutAside, Back, listVars, Editing
  <1>4. ListTyped'
    <2>1. CASE selected' = None /\ editing' = FALSE
      BY <1>1, <1>3, <2>1 DEF IInv, ListTyped
    <2>2. CASE selected' = selected /\ editing' = editing
      BY <1>1, <1>3, <2>2 DEF IInv, ListTyped
    <2> QED BY <1>3, <2>1, <2>2
  <1>5. Table'
    BY <1>1, TableStands
  <1> QED BY <1>2, <1>4, <1>5 DEF IInv

LEMMA StepCleanup == ASSUME IInv, map_editor_cleanup PROVE IInv'
  <1>1. /\ header' = [h \in Headers |-> None] /\ maps' = [k \in Keys |-> None]
        /\ selected' = None /\ editing' = FALSE /\ where' = "down"
        /\ UNCHANGED <<files, free, replaces, saved, spoiled, over>>
    BY DEF map_editor_cleanup
  <1>2. FilesTyped' /\ ListTyped'
    BY <1>1 DEF IInv, FilesTyped, ListTyped
  <1>3. Table'
    BY <1>1 DEF Table, Listed, Keys
  <1> QED BY <1>2, <1>3 DEF IInv

\* a map that was never saved goes with its header
LEMMA StepDiscard == ASSUME IInv, Discard PROVE IInv'
  <1>1. /\ Editing /\ selected' = None /\ editing' = FALSE
        /\ UNCHANGED <<files, free, where, replaces, saved, spoiled, over>>
    BY DEF Discard
  <1>2. selected \in Headers /\ header[selected] \in Header /\ header[selected] # None
        /\ header \in [Headers -> Header \cup {None}] /\ maps \in [Keys -> Headers \cup {None}]
    BY <1>1, Edited DEF IInv, ListTyped
  <1>3. FilesTyped'
    BY <1>1 DEF IInv, FilesTyped
  <1>4. CASE header[selected].path = NoName
    <2> DEFINE id == <<"id", selected>>
    <2>1. header' = [header EXCEPT ![selected] = None] /\ maps' = [maps EXCEPT ![id] = None]
      BY <1>4 DEF Discard
    <2>2. id \in Keys /\ \A h \in Headers : <<"id", h>> \in Keys
      BY <1>2 DEF Keys
    <2>3. \A k \in Keys : maps[k] = selected => k = id
      <3> SUFFICES ASSUME NEW k \in Keys, maps[k] = selected PROVE k = id
        OBVIOUS
      <3>1. selected # None
        BY <1>2, HeaderAssumption
      <3>2. k[1] = "id"
        BY <1>4, <3>1 DEF IInv, Table
      <3>3. PICK h \in Headers : k = <<"id", h>>
        BY <3>2 DEF Keys
      <3>4. maps[k] = h
        BY <3>1, <3>3 DEF IInv, Table
      <3> QED BY <3>3, <3>4
    <2>4. \A k \in Keys : maps'[k] # None => maps'[k] = maps[k] /\ maps[k] # selected /\ maps[k] \in Headers
      BY <1>2, <2>1, <2>2, <2>3
    <2>5. \A h \in Headers : h # selected => header'[h] = header[h]
      BY <1>2, <2>1
    <2>6. ListTyped'
      BY <1>1, <1>2, <2>1, <2>2 DEF IInv, ListTyped
    <2>7. Table'
      <3>1. Listed' \subseteq InMemory'
        BY <2>4, <2>5 DEF IInv, Table, Listed, InMemory
      <3>2. \A j, k \in Keys : maps'[j] # None /\ maps'[j] = maps'[k] => j = k
        BY <2>4 DEF IInv, Table
      <3>3. ASSUME NEW h \in Headers, maps'[<<"id", h>>] # None
            PROVE  maps'[<<"id", h>>] = h /\ header'[h].path = NoName
        <4>1. maps'[<<"id", h>>] = maps[<<"id", h>>] /\ maps[<<"id", h>>] # selected
              /\ maps[<<"id", h>>] # None
          BY <2>2, <2>4, <3>3
        <4>2. maps[<<"id", h>>] = h /\ header[h].path = NoName
          BY <4>1 DEF IInv, Table
        <4> QED BY <2>5, <4>1, <4>2
      <3>4. \A k \in Keys : k[1] # "id" /\ maps'[k] # None => header'[maps'[k]].path # NoName
        BY <2>4, <2>5 DEF IInv, Table
      <3> QED BY <3>1, <3>2, <3>3, <3>4 DEF Table
    <2> QED BY <1>3, <2>6, <2>7 DEF IInv
  <1>5. CASE header[selected].path # NoName
    <2> DEFINE s == header[selected]
    <2>1. header' = [header EXCEPT ![selected] = [s EXCEPT !.map = None]] /\ maps' = maps
      BY <1>5 DEF Discard
    <2>2. [s EXCEPT !.map = None] \in Header /\ [s EXCEPT !.map = None].path = s.path /\ s # None
      BY <1>2 DEF Header
    <2> HIDE DEF s
    <2>3. [s EXCEPT !.map = None] # None
      BY <2>2, HeaderIsSome
    <2>4. ListTyped'
      BY <1>1, <1>2, <2>1, <2>2 DEF IInv, ListTyped
    <2>5. Table'
      BY <1>2, <2>1, <2>2, <2>3, TableStands DEF s
    <2> QED BY <1>3, <2>4, <2>5 DEF IInv
  <1> QED BY <1>4, <1>5

\* the first save of a map gives its header another key, or none
LEMMA StepSave ==
  ASSUME IInv, NEW n \in Names, NEW opens \in BOOLEAN, map_editor_save_current(n, opens)
  PROVE  IInv'
  <1> DEFINE s == header[selected]
             disk == cg_map_runtime_disk_size(s.map)
             new == [s EXCEPT !.path = n]
  <1>1. /\ Editing
        /\ header' = [header EXCEPT ![selected] = new]
        /\ maps' = Rekeyed(selected, n)
        /\ free' = IF s.path = NoName THEN "plain" ELSE free
        /\ files' = IF opens THEN [files EXCEPT ![n] = [cells |-> disk]] ELSE files
        /\ saved' = IF opens /\ disk # {} THEN [saved EXCEPT ![n] = s.map.type] ELSE saved
        /\ UNCHANGED <<selected, editing, where, replaces>>
    BY DEF map_editor_save_current
  <1>2. spoiled' \subseteq Names /\ over' \subseteq Names
    <2>1. spoiled \subseteq Names /\ over \subseteq Names
      BY DEF IInv, FilesTyped
    <2>2. spoiled' = spoiled \/ spoiled' = spoiled \cup {n} \/ spoiled' = spoiled \ {n}
      BY DEF map_editor_save_current
    <2>3. over' = over \/ over' = over \cup {n}
      BY DEF map_editor_save_current
    <2> QED BY <2>1, <2>2, <2>3
  <1>3. /\ selected \in Headers /\ s \in Header /\ s # None /\ s.map \in Map /\ selected # None
        /\ header \in [Headers -> Header \cup {None}] /\ maps \in [Keys -> Headers \cup {None}]
    BY <1>1, Edited DEF IInv, ListTyped
  <1>4. new \in Header /\ new.path = n /\ new.map = s.map /\ n # NoName
    BY <1>3, Distinct DEF Header
  <1>5. s.map.type \in [Cells -> Types] /\ disk \in SUBSET (Cells \X {BLOCK, SPAWN}) /\ s.map # None
    BY <1>3, WrittenRead, MapIsSome DEF Map
  <1> HIDE DEF s, disk, new
  <1>6. new # None
    BY <1>4, HeaderIsSome
  <1>7. FilesTyped'
    <2>1. files \in [Names -> [cells : SUBSET (Cells \X {BLOCK, SPAWN})] \cup {Absent}]
          /\ saved \in [Names -> [Cells -> Types]] /\ replaces \in BOOLEAN
      BY DEF IInv, FilesTyped
    <2>2. [cells |-> disk] \in [cells : SUBSET (Cells \X {BLOCK, SPAWN})]
      BY <1>5
    <2>3. files' \in [Names -> [cells : SUBSET (Cells \X {BLOCK, SPAWN})] \cup {Absent}]
      BY <1>1, <2>1, <2>2
    <2>4. saved' \in [Names -> [Cells -> Types]]
      BY <1>1, <1>5, <2>1
    <2> QED BY <1>1, <1>2, <2>1, <2>3, <2>4 DEF FilesTyped
  <1> DEFINE id == <<"id", selected>>
             path == <<"path", n>>
  <1>8. id \in Keys /\ path \in Keys /\ id # path /\ path[1] # "id"
        /\ \A h \in Headers : <<"id", h>> \in Keys
    BY <1>3 DEF Keys
  <1>9. \A k \in Keys : maps[k] = selected /\ s.path = NoName => k = id
    <2> SUFFICES ASSUME NEW k \in Keys, maps[k] = selected, s.path = NoName PROVE k = id
      OBVIOUS
    <2>1. k[1] = "id"
      BY <1>3 DEF IInv, Table, s
    <2>2. PICK h \in Headers : k = <<"id", h>>
      BY <2>1 DEF Keys
    <2>3. maps[k] = h
      BY <1>3, <2>2 DEF IInv, Table
    <2> QED BY <2>2, <2>3
  <1>10. maps' = maps \/ (/\ s.path = NoName
                          /\ maps' = [maps EXCEPT ![id] = None, ![path] = selected]
                          )
         \/ (/\ s.path = NoName /\ maps' = [maps EXCEPT ![id] = None])
    <2>1. CASE s.path # NoName
      BY <1>1, <2>1 DEF Rekeyed, s
    <2>2. CASE s.path = NoName
      <3>1. maps' = [maps EXCEPT ![id] = None, ![path] = Inserted(path, selected)]
        BY <1>1, <2>2 DEF Rekeyed, s
      <3>2. Inserted(path, selected) = selected \/ Inserted(path, selected) = maps[path]
        BY DEF Inserted
      <3>3. [maps EXCEPT ![id] = None, ![path] = maps[path]] = [maps EXCEPT ![id] = None]
        BY <1>3, <1>8
      <3> QED BY <2>2, <3>1, <3>2, <3>3
    <2> QED BY <2>1, <2>2
  <1> HIDE DEF id, path
  <1>11. maps' \in [Keys -> Headers \cup {None}]
    BY <1>3, <1>8, <1>10
  <1>12. ListTyped'
    <2>1. header' \in [Headers -> Header \cup {None}] /\ header'[selected] = new
      BY <1>1, <1>3, <1>4
    <2>2. free' \in {"header", "plain"}
      BY <1>1 DEF IInv, ListTyped
    <2> QED BY <1>1, <1>3, <1>4, <1>5, <1>6, <1>11, <2>1, <2>2 DEF IInv, ListTyped, Editing
  <1>13. \A h \in Headers : header[h] # None => header'[h] # None
    BY <1>1, <1>3, <1>6
  <1>14. \A h \in Headers : h # selected => header'[h] = header[h]
    BY <1>1, <1>3
  <1>15. header'[selected].path # NoName
    BY <1>1, <1>3, <1>4
  <1>16. \A k \in Keys : maps'[k] # None => maps'[k] = maps[k] \/ (k = path /\ maps'[k] = selected /\ s.path = NoName)
    BY <1>3, <1>8, <1>10
  <1>17. s.path = NoName /\ maps' # maps => maps'[id] = None
    BY <1>3, <1>8, <1>10
  <1>18. maps' = maps => s.path # NoName \/ \A k \in Keys : maps[k] # selected
    <2> SUFFICES ASSUME maps' = maps, s.path = NoName, NEW k \in Keys, maps[k] = selected
                 PROVE  FALSE
      OBVIOUS
    <2>1. k = id
      BY <1>9
    <2>2. maps' = [maps EXCEPT ![id] = None, ![path] = Inserted(path, selected)]
      BY <1>1 DEF Rekeyed, s, id, path
    <2>3. maps'[id] = None
      BY <1>3, <1>8, <2>2
    <2> QED BY <1>3, <2>1, <2>3, HeaderAssumption
  <1>19. Table'
    <2>1. Listed' \subseteq InMemory'
      <3>1. \A k \in Keys : maps'[k] # None => maps'[k] \in Headers /\ header'[maps'[k]] # None
        BY <1>3, <1>13, <1>16 DEF IInv, Table, Listed, InMemory, s
      <3> QED BY <3>1 DEF Listed, InMemory
    <2>2. \A j, k \in Keys : maps'[j] # None /\ maps'[j] = maps'[k] => j = k
      <3> SUFFICES ASSUME NEW j \in Keys, NEW k \in Keys, maps'[j] # None, maps'[j] = maps'[k]
                   PROVE  j = k
        OBVIOUS
      <3>1. CASE maps'[j] # selected
        BY <1>16, <3>1 DEF IInv, Table
      <3>2. CASE maps'[j] = selected /\ (s.path # NoName \/ maps' = maps)
        <4>1. maps'[j] = maps[j] /\ maps'[k] = maps[k]
          BY <1>16, <3>2
        <4> QED BY <4>1 DEF IInv, Table
      <3>3. CASE maps'[j] = selected /\ s.path = NoName /\ maps' # maps
        <4>1. j # id /\ k # id
          BY <1>3, <1>17, <3>3, HeaderAssumption
        <4> QED BY <1>9, <1>16, <3>3, <4>1
      <3> QED BY <3>1, <3>2, <3>3
    <2>3. ASSUME NEW h \in Headers, maps'[<<"id", h>>] # None
          PROVE  maps'[<<"id", h>>] = h /\ header'[h].path = NoName
      <3>1. <<"id", h>> \in Keys /\ <<"id", h>> # path
        BY <1>8 DEF path
      <3>2. maps'[<<"id", h>>] = maps[<<"id", h>>]
        BY <1>16, <2>3, <3>1
      <3>3. maps[<<"id", h>>] = h /\ header[h].path = NoName
        BY <2>3, <3>2 DEF IInv, Table
      <3>4. h # selected
        <4> SUFFICES ASSUME h = selected PROVE FALSE
          OBVIOUS
        <4>1. s.path = NoName /\ maps[id] = selected
          BY <3>3 DEF s, id
        <4>2. maps' # maps
          BY <1>8, <1>18, <4>1
        <4>3. maps'[id] = None
          BY <1>17, <4>1, <4>2
        <4> QED BY <2>3, <4>3 DEF id
      <3> QED BY <1>14, <3>2, <3>3, <3>4
    <2>4. ASSUME NEW k \in Keys, k[1] # "id", maps'[k] # None
          PROVE  header'[maps'[k]].path # NoName
      <3>1. CASE maps'[k] = selected
        BY <1>15, <3>1
      <3>2. CASE maps'[k] # selected
        <4>1. maps'[k] = maps[k] /\ maps[k] # None /\ maps[k] \in Headers
          BY <1>3, <1>16, <2>4, <3>2
        <4> QED BY <1>14, <2>4, <3>2, <4>1 DEF IInv, Table
      <3> QED BY <3>1, <3>2
    <2> QED BY <2>1, <2>2, <2>3, <2>4 DEF Table
  <1> QED BY <1>7, <1>12, <1>19 DEF IInv

\* a file is read under its stem
Read(k) == k[1] = "stem" /\ k[2] \in ToList

\* what reading the files does to a key: its own header is new, or nothing
LEMMA EnterEffect ==
  ASSUME IInv, map_editor_enter
  PROVE  /\ header' \in [Headers -> Header \cup {None}] /\ maps' \in [Keys -> Headers \cup {None}]
         /\ \A h \in Headers : header[h] # None /\ h \notin Replaced => header'[h] = header[h]
         /\ \A k \in Keys : Read(k) =>
              /\ maps'[k] \in Unused /\ header'[maps'[k]] # None
              /\ header'[maps'[k]].path = k[2] /\ k[2] \in Names
         /\ \A j, k \in Keys : Read(j) /\ Read(k) /\ maps'[j] = maps'[k] => j = k
         /\ \A k \in Keys : maps'[k] # None /\ ~Read(k) =>
              /\ maps'[k] = maps[k] /\ maps[k] \in Headers /\ header[maps[k]] # None
              /\ header'[maps[k]] = header[maps[k]]
  <1>1. PICK at \in [ToList -> Unused] :
          /\ \A m, n \in ToList : at[m] = at[n] => m = n
          /\ maps' = [k \in Keys |->
               IF k[1] = "stem" /\ k[2] \in ToList THEN at[k[2]] ELSE maps[k]]
          /\ header' = [h \in Headers |->
               IF \E n \in ToList : at[n] = h THEN HeaderRead(CHOOSE n \in ToList : at[n] = h)
               ELSE IF h \in Replaced THEN None ELSE header[h]]
    BY DEF map_editor_enter
  <1>2. /\ header \in [Headers -> Header \cup {None}] /\ maps \in [Keys -> Headers \cup {None}]
        /\ ToList \subseteq Names
    BY DEF IInv, ListTyped, ToList, ToRead
  <1>3. \A n \in ToList : at[n] \in Headers /\ header[at[n]] = None /\ <<"stem", n>> \in Keys
    BY <1>1, <1>2 DEF Unused, InMemory, Keys
  <1>4. ASSUME NEW n \in ToList
        PROVE  header'[at[n]] \in Header /\ header'[at[n]].path = n
    <2> DEFINE m == CHOOSE m \in ToList : at[m] = at[n]
    <2>1. m \in ToList /\ at[m] = at[n]
      OBVIOUS
    <2>2. header'[at[n]] = HeaderRead(m)
      BY <1>1, <1>3
    <2> HIDE DEF m
    <2>3. m = n
      BY <1>1, <2>1
    <2> QED BY <1>2, <2>2, <2>3 DEF HeaderRead, Header
  <1>5. ASSUME NEW h \in Headers, header[h] # None, h \notin Replaced
        PROVE  header'[h] = header[h]
    BY <1>1, <1>3, <1>5
  <1>6. header' \in [Headers -> Header \cup {None}]
    <2>1. ASSUME NEW h \in Headers PROVE header'[h] \in Header \cup {None}
      <3>1. CASE \E n \in ToList : at[n] = h
        BY <1>4, <3>1
      <3>2. CASE ~\E n \in ToList : at[n] = h
        <4>1. header'[h] = IF h \in Replaced THEN None ELSE header[h]
          BY <1>1, <3>2
        <4> QED BY <1>2, <4>1
      <3> QED BY <3>1, <3>2
    <2>2. DOMAIN header' = Headers /\ header' = [h \in Headers |-> header'[h]]
      BY <1>1
    <2> QED BY <2>1, <2>2
  <1>7. maps' \in [Keys -> Headers \cup {None}]
    BY <1>1, <1>2, <1>3
  <1>8. ASSUME NEW k \in Keys, Read(k)
        PROVE  /\ maps'[k] = at[k[2]] /\ maps'[k] \in Unused /\ header'[maps'[k]] # None
               /\ header'[maps'[k]].path = k[2] /\ k[2] \in Names
               /\ k = <<"stem", k[2]>>
    <2>1. maps'[k] = at[k[2]] /\ k[2] \in ToList /\ k = <<"stem", k[2]>>
      BY <1>1, <1>8 DEF Read, Keys
    <2>2. header'[maps'[k]] \in Header /\ header'[maps'[k]].path = k[2]
      BY <1>4, <2>1
    <2> QED BY <1>1, <1>2, <2>1, <2>2, HeaderIsSome
  <1>9. ASSUME NEW k \in Keys, maps'[k] # None, ~Read(k)
        PROVE  /\ maps'[k] = maps[k] /\ maps[k] \in Headers /\ header[maps[k]] # None
               /\ header'[maps[k]] = header[maps[k]]
    <2>1. maps'[k] = maps[k]
      BY <1>1, <1>9 DEF Read
    <2>2. maps[k] \in Headers /\ header[maps[k]] # None
      BY <1>2, <1>9, <2>1 DEF IInv, Table, Listed, InMemory
    <2>3. maps[k] \notin Replaced
      <3> SUFFICES ASSUME maps[k] \in Replaced PROVE FALSE
        OBVIOUS
      <3>1. PICK n \in ToList : maps[<<"stem", n>>] = maps[k]
        BY DEF Replaced
      <3>2. k = <<"stem", n>>
        BY <1>3, <1>9, <2>1, <3>1 DEF IInv, Table
      <3> QED BY <1>9, <3>2 DEF Read
    <2> QED BY <1>5, <2>1, <2>2, <2>3
  <1>10. ASSUME NEW j \in Keys, NEW k \in Keys, Read(j), Read(k), maps'[j] = maps'[k]
         PROVE  j = k
    <2>1. j[2] \in ToList /\ k[2] \in ToList /\ maps'[j] = at[j[2]] /\ maps'[k] = at[k[2]]
      BY <1>8, <1>10 DEF Read
    <2>2. j[2] = k[2]
      BY <1>1, <1>10, <2>1
    <2>3. j = <<"stem", j[2]>> /\ k = <<"stem", k[2]>>
      BY <1>8, <1>10
    <2> QED BY <2>2, <2>3, Zenon
  <1> QED BY <1>5, <1>6, <1>7, <1>8, <1>9, <1>10

\* the files read are listed under their stems, by headers of their own
LEMMA StepEnter == ASSUME IInv, map_editor_enter PROVE IInv'
  <1>1. /\ where = "menu"
        /\ where' = IF selected \in Replaced THEN "lost" ELSE "editor"
        /\ UNCHANGED <<files, free, selected, editing, replaces, saved, spoiled, over>>
    BY DEF map_editor_enter
  <1>2. /\ header' \in [Headers -> Header \cup {None}] /\ maps' \in [Keys -> Headers \cup {None}]
        /\ \A h \in Headers : header[h] # None /\ h \notin Replaced => header'[h] = header[h]
    BY EnterEffect
  <1>3. \A k \in Keys : Read(k) => /\ maps'[k] \in Headers /\ header[maps'[k]] = None
                                   /\ header'[maps'[k]] # None
                                   /\ header'[maps'[k]].path # NoName
    BY EnterEffect, Distinct DEF Unused, InMemory
  <1>4. \A k \in Keys : maps'[k] # None /\ ~Read(k) =>
          /\ maps'[k] = maps[k] /\ maps[k] \in Headers /\ header[maps[k]] # None
          /\ header'[maps[k]] = header[maps[k]]
    BY EnterEffect
  <1>5. FilesTyped'
    BY <1>1 DEF IInv, FilesTyped
  <1>6. ListTyped'
    <2>1. selected \in Headers \cup {None} /\ (selected # None => header[selected] # None)
          /\ (editing => selected # None /\ header[selected].map # None)
      BY <1>1 DEF IInv, ListTyped
    <2>2. where' # "lost" /\ selected # None => header'[selected] = header[selected]
      BY <1>1, <1>2, <2>1
    <2>3. where' \in {"menu", "editor", "down", "lost"} /\ free' \in {"header", "plain"}
          /\ editing' \in BOOLEAN
      BY <1>1 DEF IInv, ListTyped
    <2> QED BY <1>1, <1>2, <2>1, <2>2, <2>3 DEF ListTyped
  <1>7. Table'
    <2>1. Listed' \subseteq InMemory'
      <3>1. \A k \in Keys : maps'[k] # None => maps'[k] \in Headers /\ header'[maps'[k]] # None
        BY <1>3, <1>4
      <3> QED BY <3>1 DEF Listed, InMemory
    <2>2. ASSUME NEW j \in Keys, NEW k \in Keys, maps'[j] # None, maps'[j] = maps'[k]
          PROVE  j = k
      <3>1. CASE ~Read(j) /\ ~Read(k)
        BY <1>4, <2>2, <3>1 DEF IInv, Table
      <3>2. CASE Read(j) /\ Read(k)
        BY <2>2, <3>2, EnterEffect
      <3>3. CASE Read(j) /\ ~Read(k)
        <4>1. header[maps'[j]] = None /\ header[maps'[k]] # None
          BY <1>3, <1>4, <2>2, <3>3
        <4> QED BY <2>2, <4>1
      <3>4. CASE Read(k) /\ ~Read(j)
        <4>1. header[maps'[k]] = None /\ header[maps'[j]] # None
          BY <1>3, <1>4, <2>2, <3>4
        <4> QED BY <2>2, <4>1
      <3> QED BY <3>1, <3>2, <3>3, <3>4
    <2>3. ASSUME NEW h \in Headers, maps'[<<"id", h>>] # None
          PROVE  maps'[<<"id", h>>] = h /\ header'[h].path = NoName
      <3>1. <<"id", h>> \in Keys /\ ~Read(<<"id", h>>)
        BY DEF Keys, Read
      <3>2. /\ maps'[<<"id", h>>] = maps[<<"id", h>>]
            /\ header'[maps[<<"id", h>>]] = header[maps[<<"id", h>>]]
        BY <1>4, <2>3, <3>1
      <3>3. maps[<<"id", h>>] = h /\ header[h].path = NoName
        BY <2>3, <3>2 DEF IInv, Table
      <3> QED BY <3>2, <3>3
    <2>4. ASSUME NEW k \in Keys, k[1] # "id", maps'[k] # None
          PROVE  header'[maps'[k]].path # NoName
      BY <1>3, <1>4, <2>4 DEF IInv, Table
    <2> QED BY <2>1, <2>2, <2>3, <2>4 DEF Table
  <1> QED BY <1>5, <1>6, <1>7 DEF IInv

-------------------------------------------------------------------------------
(* The invariants. *)

LEMMA Stuttering == ASSUME IInv, UNCHANGED vars PROVE IInv'
  <1>1. FilesTyped' /\ ListTyped'
    BY DEF IInv, FilesTyped, ListTyped, vars, listVars
  <1>2. Table'
    BY TableStands DEF vars, listVars
  <1> QED BY <1>1, <1>2 DEF IInv

LEMMA Invariance == Spec => []IInv
  <1>1. ASSUME IInv, [Next]_vars PROVE IInv'
    BY <1>1, StepEnter, StepCreate, StepLoad, StepClick, StepBuild, StepSave, StepPutAside,
       StepDiscard, StepCleanup, Stuttering DEF Next
  <1> QED BY <1>1, Initially, PTL DEF Spec

(***************************************************************************)
(* Headers, maps and files have their types, a block has no contents to be *)
(* freed (cg_map.c:431-457), and the map that is edited belongs to a       *)
(* header in memory (map_editor.c:152-191).                                *)
(***************************************************************************)
THEOREM TypeInvariant == Spec => []TypeOK
  BY Invariance, IInvTypeOK, PTL

(***************************************************************************)
(* To load a file gives, cell by cell, the map last "Saved!" under its     *)
(* name (cg_map.c:196-257, 399-417), for maps of any size.                 *)
(***************************************************************************)
THEOREM FilesInvariant == Spec => []FilesHoldSaves
  <1>1. Init => FilesHoldSaves
    <2> SUFFICES ASSUME Init, NEW n \in Names, files[n] # Absent
                 PROVE  IsMap(files[n]) /\ cg_map_load(files[n]).type = saved[n]
      BY DEF FilesHoldSaves
    <2>1. files[n].cells # {} /\ saved[n] = cg_map_load_disk(files[n].cells).type
      BY DEF Init, MapCells
    <2> QED BY <2>1 DEF IsMap, cg_map_load
  <1>2. ASSUME IInv, FilesHoldSaves, [Next]_vars PROVE FilesHoldSaves'
    <2>1. CASE UNCHANGED <<files, saved, spoiled>>
      BY <1>2, <2>1 DEF FilesHoldSaves
    <2>2. ASSUME NEW n \in Names, NEW opens \in BOOLEAN, map_editor_save_current(n, opens)
          PROVE  FilesHoldSaves'
      <3> DEFINE map == header[selected].map
                 disk == cg_map_runtime_disk_size(map)
      <3>1. map \in Map
        BY <1>2, <2>2, Edited DEF map_editor_save_current
      <3>2. /\ files' = IF opens THEN [files EXCEPT ![n] = [cells |-> disk]] ELSE files
            /\ saved' = IF opens /\ disk # {} THEN [saved EXCEPT ![n] = map.type] ELSE saved
            /\ spoiled' = IF ~opens THEN spoiled
                          ELSE IF disk = {} THEN spoiled \cup {n} ELSE spoiled \ {n}
        BY <2>2 DEF map_editor_save_current
      <3>3. /\ files \in [Names -> [cells : SUBSET (Cells \X {BLOCK, SPAWN})] \cup {Absent}]
            /\ saved \in [Names -> [Cells -> Types]]
        BY <1>2 DEF IInv, FilesTyped
      <3>4. \A c \in Cells : OnDisk(disk, c) = map.type[c]
        BY <3>1, WrittenRead
      <3>5. map.type = [c \in Cells |-> map.type[c]]
        BY <3>1 DEF Map
      <3>6. cg_map_load_disk(disk).type = map.type
        BY <3>4, <3>5, LoadedMap
      <3> HIDE DEF map, disk
      <3> SUFFICES ASSUME NEW m \in Names, m \notin spoiled', files'[m] # Absent
                   PROVE  IsMap(files'[m]) /\ cg_map_load(files'[m]).type = saved'[m]
        BY DEF FilesHoldSaves
      <3>7. CASE opens /\ m = n
        <4>1. disk # {} /\ files'[m] = [cells |-> disk] /\ saved'[m] = map.type
          BY <3>2, <3>3, <3>7
        <4>2. IsMap(files'[m]) /\ cg_map_load(files'[m]) = cg_map_load_disk(disk)
          BY <4>1 DEF IsMap, cg_map_load
        <4> QED BY <3>6, <4>1, <4>2
      <3>8. CASE ~opens \/ m # n
        <4>1. files'[m] = files[m] /\ saved'[m] = saved[m] /\ m \notin spoiled
          BY <3>2, <3>3, <3>8
        <4> QED BY <1>2, <4>1 DEF FilesHoldSaves
      <3> QED BY <3>7, <3>8
    <2> QED BY <1>2, <2>1, <2>2 DEF Next, vars, map_editor_enter, CreateNew, LoadSelected, Click,
         map_editor_handle_building, PutAside, Discard, Back, map_editor_cleanup
  <1> QED BY <1>1, <1>2, Invariance, PTL DEF Spec

\* what the others' keys stand for when the list does not change
LEMMA OthersStand ==
  ASSUME IInv, ListedOnce,
         \A k \in Keys : maps'[k] # None =>
           \/ maps'[k] = maps[k] /\ header'[maps[k]].path = header[maps[k]].path
           \/ header'[maps'[k]].path = NoName,
         over \subseteq over'
  PROVE  ListedOnce'
  <1> SUFFICES ASSUME NEW j \in Keys, NEW k \in Keys, j # k, maps'[j] # None, maps'[k] # None,
                      header'[maps'[j]].path # NoName, header'[maps'[k]].path # NoName
               PROVE  \/ header'[maps'[j]].path # header'[maps'[k]].path
                      \/ header'[maps'[j]].path \in over'
                      \/ Renamed(j)' \/ Renamed(k)'
    BY DEF ListedOnce
  <1>1. /\ maps'[j] = maps[j] /\ header'[maps[j]].path = header[maps[j]].path
        /\ maps'[k] = maps[k] /\ header'[maps[k]].path = header[maps[k]].path
    OBVIOUS
  <1>2. \/ header[maps[j]].path # header[maps[k]].path
        \/ header[maps[j]].path \in over
        \/ Renamed(j) \/ Renamed(k)
    BY <1>1 DEF ListedOnce
  <1> QED BY <1>1, <1>2 DEF Renamed

(***************************************************************************)
(* No file is listed twice, by stem, path or id (map_editor.c:22, 47, 176, *)
(* 195-262), unless a map was saved over another's file or under another   *)
(* name than it was read from.                                             *)
(***************************************************************************)
THEOREM ListInvariant == Spec => []ListedOnce
  <1>1. Init => ListedOnce
    BY DEF Init, ListedOnce
  <1>2. ASSUME IInv, ListedOnce, [Next]_vars PROVE ListedOnce'
    <2> USE <1>2
    <2>1. /\ header \in [Headers -> Header \cup {None}] /\ maps \in [Keys -> Headers \cup {None}]
          /\ \A k \in Keys : maps[k] # None => maps[k] \in Headers /\ header[maps[k]] # None
      BY DEF IInv, ListTyped, Table, Listed, InMemory
    <2>2. CASE map_editor_enter
      <3> SUFFICES ASSUME NEW j \in Keys, NEW k \in Keys, j # k, maps'[j] # None, maps'[k] # None,
                          header'[maps'[j]].path = header'[maps'[k]].path,
                          header'[maps'[j]].path # NoName,
                          header'[maps'[j]].path \notin over',
                          ~Renamed(j)', ~Renamed(k)'
                   PROVE  FALSE
        BY DEF ListedOnce
      <3>1. CASE ~Read(j) /\ ~Read(k)
        <4>1. /\ maps'[j] = maps[j] /\ header'[maps[j]] = header[maps[j]]
              /\ maps'[k] = maps[k] /\ header'[maps[k]] = header[maps[k]]
          BY <2>2, <3>1, EnterEffect
        <4>2. over' = over
          BY <2>2 DEF map_editor_enter
        <4> QED BY <4>1, <4>2 DEF ListedOnce, Renamed
      <3>2. ASSUME NEW i \in Keys, NEW l \in Keys, i # l, Read(i), maps'[l] # None,
                   header'[maps'[i]].path = header'[maps'[l]].path, ~Renamed(l)'
            PROVE  FALSE
        <4>1. header'[maps'[i]].path = i[2] /\ i[2] \in ToList /\ i[2] \in Names /\ i[1] = "stem"
          BY <2>2, <3>2, EnterEffect DEF Read
        <4>2. CASE Read(l)
          <5>1. header'[maps'[l]].path = l[2] /\ l[1] = "stem"
            BY <2>2, <3>2, <4>2, EnterEffect DEF Read
          <5>2. i[2] = l[2]
            BY <3>2, <4>1, <5>1
          <5>3. i = <<i[1], i[2]>> /\ l = <<l[1], l[2]>>
            BY DEF Keys
          <5> QED BY <3>2, <4>1, <5>1, <5>2, <5>3, Zenon
        <4>3. CASE ~Read(l)
          <5>1. /\ maps'[l] = maps[l] /\ header'[maps[l]] = header[maps[l]]
                /\ maps[l] # None
            BY <2>2, <3>2, <4>3, EnterEffect
          <5>2. l[1] # "id"
            <6> SUFFICES ASSUME l[1] = "id" PROVE FALSE
              OBVIOUS
            <6>1. PICK h \in Headers : l = <<"id", h>>
              BY DEF Keys
            <6>2. header[maps[l]].path = NoName
              BY <5>1, <6>1 DEF IInv, Table
            <6> QED BY <3>2, <4>1, <5>1, <6>2, Distinct
          <5>3. l[2] = i[2]
            BY <3>2, <4>1, <5>1, <5>2 DEF Renamed
          <5>4. l = <<"path", i[2]>>
            BY <3>2, <4>1, <4>3, <5>2, <5>3 DEF Keys, Read
          <5> QED BY <4>1, <5>1, <5>4 DEF ToList, ToRead
        <4> QED BY <4>2, <4>3
      <3> QED BY <3>1, <3>2
    <2>3. CASE CreateNew
      <3>1. PICK h \in Unused :
              /\ header' = [header EXCEPT ![h] = [path |-> NoName, map |-> cg_map_new]]
              /\ maps' = [maps EXCEPT ![<<"id", h>>] = h] /\ over' = over
        BY <2>3 DEF CreateNew
      <3>2. h \in Headers /\ header[h] = None /\ <<"id", h>> \in Keys
        BY <2>1, <3>1 DEF Unused, InMemory, Keys
      <3>3. \A k \in Keys : maps'[k] # None =>
              \/ maps'[k] = maps[k] /\ header'[maps[k]].path = header[maps[k]].path
              \/ header'[maps'[k]].path = NoName
        BY <2>1, <3>1, <3>2
      <3> QED BY <3>1, <3>3, OthersStand
    <2>4. CASE \/ LoadSelected \/ \E h \in Headers : Click(h)
               \/ \E c \in Cells, t \in Types : map_editor_handle_building(c, t)
               \/ PutAside \/ Back \/ map_editor_cleanup \/ Discard \/ UNCHANGED vars
      <3>1. /\ over' = over
            /\ \A k \in Keys : maps'[k] # None =>
                 maps'[k] = maps[k] /\ header'[maps[k]].path = header[maps[k]].path
        <4>1. CASE LoadSelected
          BY <2>1, <4>1 DEF LoadSelected, Header
        <4>2. CASE \E c \in Cells, t \in Types : map_editor_handle_building(c, t)
          BY <2>1, <4>2 DEF map_editor_handle_building, Header
        <4>3. CASE Discard
          <5>1. selected \in Headers /\ header[selected] \in Header
            BY <4>3, Edited DEF Discard
          <5>2. CASE header[selected].path = NoName
            <6>1. /\ header' = [header EXCEPT ![selected] = None] /\ over' = over
                  /\ maps' = [maps EXCEPT ![<<"id", selected>>] = None]
              BY <4>3, <5>2 DEF Discard
            <6>2. \A k \in Keys : maps[k] = selected => k = <<"id", selected>>
              <7> SUFFICES ASSUME NEW k \in Keys, maps[k] = selected
                           PROVE  k = <<"id", selected>>
                OBVIOUS
              <7>1. k[1] = "id" /\ maps[k] # None
                BY <5>1, <5>2, HeaderAssumption DEF IInv, Table
              <7>2. PICK h \in Headers : k = <<"id", h>>
                BY <7>1 DEF Keys
              <7> QED BY <7>1, <7>2 DEF IInv, Table
            <6> QED BY <2>1, <5>1, <6>1, <6>2
          <5>3. CASE header[selected].path # NoName
            BY <2>1, <4>3, <5>1, <5>3 DEF Discard, Header
          <5> QED BY <5>2, <5>3
        <4>4. CASE map_editor_cleanup
          BY <4>4 DEF map_editor_cleanup
        <4>5. CASE (\E h \in Headers : Click(h)) \/ PutAside \/ Back \/ UNCHANGED vars
          BY <4>5 DEF Click, PutAside, Back, vars, listVars
        <4> QED BY <2>4, <4>1, <4>2, <4>3, <4>4, <4>5
      <3> QED BY <3>1, OthersStand
    <2>5. ASSUME NEW n \in Names, NEW opens \in BOOLEAN, map_editor_save_current(n, opens)
          PROVE  ListedOnce'
      <3> DEFINE new == [header[selected] EXCEPT !.path = n]
      <3>1. /\ selected \in Headers /\ header[selected] \in Header /\ selected # None
        BY <2>5, Edited DEF map_editor_save_current
      <3>2. /\ header' = [header EXCEPT ![selected] = new] /\ maps' = Rekeyed(selected, n)
            /\ over' = IF \E h \in Listed \ {selected} : header[h].path = n
                       THEN over \cup {n} ELSE over
        BY <2>5 DEF map_editor_save_current
      <3>3. new.path = n
        BY <3>1 DEF Header
      <3> HIDE DEF new
      <3>4. header'[selected].path = n /\ \A h \in Headers : h # selected => header'[h] = header[h]
        BY <2>1, <3>1, <3>2, <3>3
      <3>5. \A k \in Keys : maps'[k] # None => maps'[k] = selected \/ maps'[k] = maps[k]
        BY <2>1, <3>2 DEF Rekeyed, Inserted, Keys
      <3>6. \A j, k \in Keys : maps'[j] # None /\ maps'[j] = maps'[k] => j = k
        BY <2>5, StepSave DEF IInv, Table
      <3> SUFFICES ASSUME NEW j \in Keys, NEW k \in Keys, j # k, maps'[j] # None, maps'[k] # None,
                          header'[maps'[j]].path # NoName,
                          header'[maps'[j]].path = header'[maps'[k]].path,
                          header'[maps'[j]].path \notin over',
                          ~Renamed(j)', ~Renamed(k)'
                   PROVE  FALSE
        BY DEF ListedOnce
      <3>7. ASSUME NEW l \in Keys, maps'[l] # None, maps'[l] # selected
            PROVE  /\ maps'[l] = maps[l] /\ header'[maps[l]] = header[maps[l]]
                   /\ maps[l] \in Listed \ {selected}
        BY <2>1, <3>4, <3>5, <3>7 DEF Listed
      <3>8. CASE maps'[j] # selected /\ maps'[k] # selected
        <4>1. over \subseteq over'
          BY <3>2
        <4>2. maps'[j] = maps[j] /\ header'[maps[j]] = header[maps[j]]
              /\ maps'[k] = maps[k] /\ header'[maps[k]] = header[maps[k]]
          BY <3>7, <3>8
        <4> QED BY <4>1, <4>2 DEF ListedOnce, Renamed
      <3>9. CASE maps'[j] = selected
        <4>1. maps'[k] # selected
          BY <3>6, <3>9
        <4>2. maps[k] \in Listed \ {selected} /\ header[maps[k]].path = n
          BY <3>4, <3>7, <3>9, <4>1
        <4> QED BY <3>2, <3>4, <3>9, <4>2
      <3>10. CASE maps'[k] = selected
        <4>1. maps'[j] # selected
          BY <3>6, <3>10
        <4>2. maps[j] \in Listed \ {selected} /\ header[maps[j]].path = n
          BY <3>4, <3>7, <3>10, <4>1
        <4> QED BY <3>2, <3>4, <3>10, <4>2
      <3> QED BY <3>8, <3>9, <3>10
    <2> QED BY <1>2, <2>2, <2>3, <2>4, <2>5 DEF Next
  <1> QED BY <1>1, <1>2, Invariance, PTL DEF Spec
===============================================================================
