-------------------------------- MODULE Host --------------------------------
(***************************************************************************)
(* The parts of a host that work beside the device registry: the stores of *)
(* names, flags and orders, the front panel, the cache of previews, the    *)
(* gallery, the listing of slots, the photos and the map of a mission, and *)
(* the reading of its KMZ file.                                            *)
(*                                                                         *)
(* No two of them share a variable of the program, except for what one     *)
(* reads of the world (a store, the device) and which its module therefore *)
(* lets change at any time.  So no step of one can change what another may *)
(* do, and a behaviour of all of them is one of each, interleaved: it is   *)
(* enough to let one part of the host move while the others rest in one    *)
(* initial state.                                                          *)
(***************************************************************************)
EXTENDS SidecarStore, FrontPanel, PreviewCache, Gallery, SlotList, ShotImages, MapFrame,
        KmzMission

VARIABLE active    \* the part that moves

Parts == {"stores", "panel", "previews", "gallery", "list", "shots", "map", "kmz"}

\* The initial state of a part at rest, where it has several; the panel is one of
\* a host that has none.
StoresRest ==
  \/ active = "stores"
  \/ key = [p \in Procs |-> CHOOSE k \in Keys : TRUE]
PanelRest ==
  \/ active = "panel" /\ PanelInit
  \/ /\ active # "panel" /\ world = CHOOSE w \in Worlds : TRUE
     /\ idleOff = CHOOSE t \in IdleOffs : TRUE
     /\ PanelAt("closed")
GalleryRest ==
  \/ active = "gallery"
  \/ source = "camera" /\ shown = [w \in Watchers |-> [on |-> 0, items |-> <<>>]]
ListRest == active = "list" \/ link = "adb"
MapRest ==
  \/ active = "map"
  \/ picture = "mission" /\ points = <<>> /\ skew = 0
KmzRest == active = "kmz" \/ archive = PlaceholderKMZ

HostInit ==
  /\ active \in Parts
  /\ StoresRest /\ Init
  /\ PanelRest
  /\ CacheInit
  /\ GalleryRest /\ GalleryInit
  /\ ListRest /\ SlotListInit
  /\ ShotInit
  /\ MapRest /\ FrameInit
  /\ KmzRest /\ KmzInit

hostVars ==
  <<active, vars, panelVars, cacheAll, galleryVars, listVars, imageVars, frameVars, kmzVars>>

StoresMove ==
  /\ active = "stores" /\ Next
  /\ UNCHANGED <<active, panelVars, cacheAll, galleryVars, listVars, imageVars, frameVars, kmzVars>>
PanelMoves ==
  /\ active = "panel" /\ PanelNext
  /\ UNCHANGED <<active, vars, cacheAll, galleryVars, listVars, imageVars, frameVars, kmzVars>>
PreviewsMove ==
  /\ active = "previews" /\ CacheNext
  /\ UNCHANGED <<active, vars, panelVars, galleryVars, listVars, imageVars, frameVars, kmzVars>>
GalleryMoves ==
  /\ active = "gallery" /\ GalleryNext
  /\ UNCHANGED <<active, vars, panelVars, cacheAll, listVars, imageVars, frameVars, kmzVars>>
ListMoves ==
  /\ active = "list" /\ SlotListNext
  /\ UNCHANGED <<active, vars, panelVars, cacheAll, galleryVars, imageVars, frameVars, kmzVars>>
ShotsMove ==
  /\ active = "shots" /\ ShotNext
  /\ UNCHANGED <<active, vars, panelVars, cacheAll, galleryVars, listVars, frameVars, kmzVars>>
MapMoves ==
  /\ active = "map" /\ FrameNext
  /\ UNCHANGED <<active, vars, panelVars, cacheAll, galleryVars, listVars, imageVars, kmzVars>>
KmzMoves ==
  /\ active = "kmz" /\ KmzNext
  /\ UNCHANGED <<active, vars, panelVars, cacheAll, galleryVars, listVars, imageVars, frameVars>>

HostNext ==
  StoresMove \/ PanelMoves \/ PreviewsMove \/ GalleryMoves \/ ListMoves \/ ShotsMove
  \/ MapMoves \/ KmzMoves

\* The panel's goroutines are the only ones something must come of; those of a
\* host without a panel are never enabled.
HostSpec == HostInit /\ [][HostNext]_hostVars /\ PanelFairness

\* The types of all parts.
HostTypeOK ==
  /\ active \in Parts
  /\ TypeOK /\ PanelTypeOK /\ CacheTypeOK /\ GalleryTypeOK /\ SlotListTypeOK /\ ShotTypeOK
  /\ FrameTypeOK /\ KmzTypeOK

=============================================================================
