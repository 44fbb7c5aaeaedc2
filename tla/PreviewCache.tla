---------------------------- MODULE PreviewCache ----------------------------
(***************************************************************************)
(* The video previews of a camera that is reached over MTP                 *)
(* (api/handlers_media.go, server.go): the .LRF proxy of a clip is pulled  *)
(* off the camera into a directory of the daemon's temporary files on the  *)
(* first request and is served from there.                                 *)
(*                                                                         *)
(* Object IDs do not survive a reconnection, so that a proxy is known by   *)
(* the connection it was pulled over.  The daemon empties the cache when   *)
(* it starts, and removes the directory of a device when an event names    *)
(* the device as disconnected.  The events of the MTP poller name the USB  *)
(* address and never match; those of adb do, for a phone with USB          *)
(* debugging.  Requests of several clients, plugging, the registry, the    *)
(* event pump and crashes interleave at every file operation.              *)
(***************************************************************************)
EXTENDS Naturals

CONSTANTS
  Viewers,    \* requests for a preview
  Objects,    \* object IDs of videos with a proxy
  MaxPlugs,   \* bound: connections
  MaxCrashes  \* bound: crashes of the daemon

ASSUME CacheAssumption ==
  Objects # {} /\ MaxPlugs \in Nat \ {0} /\ MaxCrashes \in Nat

VARIABLES
  plugged,    \* the camera is connected
  conn,       \* the latest connection; an ID means something else in each
  opened,     \* the connection of the registry's controller, 0 without one
  ended,      \* the last connection whose end is announced and not yet handled
  running,    \* the daemon runs
  run,        \* which run of the daemon it is
  folder,     \* the device's directory in the cache exists
  cached,     \* cached[o]: the file at dst
  part,       \* part[v]: the temporary file of a request
  view,       \* view[v]: the request: [pc, object, over, got]
  purging,    \* the connection whose end is being handled, 0: none
  doomed,     \* the names that RemoveAll has listed and not yet removed
  purged      \* history: the last connection whose end has been handled

deviceVars == <<plugged, conn, opened, ended>>
cacheVars == <<folder, cached, part>>
purgeVars == <<purging, doomed, purged>>
cacheAll == <<deviceVars, cacheVars, purgeVars, running, run, view>>

NoFileAt == [over |-> 0, run |-> 0, whole |-> FALSE]
Proxies == [over : 0..MaxPlugs, run : 0..MaxCrashes + 1, whole : BOOLEAN]
\* A temporary file that has been opened and not yet filled is empty.
Opened == [NoFileAt EXCEPT !.run = run]
AtRest(o) == [pc |-> "idle", object |-> o, over |-> 0, got |-> NoFileAt]
First == CHOOSE o \in Objects : TRUE

Names == ({"dst"} \X Objects) \cup ({"part"} \X Viewers)
Pulling == {"pull", "read", "rename"}

CacheTypeOK ==
  /\ plugged \in BOOLEAN /\ conn \in 1..MaxPlugs /\ opened \in 0..conn
  /\ ended \in 0..conn /\ purging \in 0..conn /\ purged \in 0..conn
  /\ doomed \subseteq Names
  /\ running \in BOOLEAN /\ run \in 1..MaxCrashes + 1 /\ folder \in BOOLEAN
  /\ cached \in [Objects -> Proxies] /\ part \in [Viewers -> Proxies]
  /\ view \in [Viewers -> [pc : {"idle", "mkdir", "create", "open", "served"} \cup Pulling,
                           object : Objects, over : 0..MaxPlugs, got : Proxies]]
  \* The temporary files of a run are those of the requests in progress.
  /\ \A v \in Viewers : running /\ part[v] # NoFileAt => view[v].pc \in Pulling
  /\ ~folder => \A o \in Objects : cached[o] = NoFileAt

CacheInit ==
  /\ plugged = TRUE /\ conn = 1 /\ opened = 0 /\ ended = 0
  /\ running = TRUE /\ run = 1 /\ folder = FALSE
  /\ cached = [o \in Objects |-> NoFileAt] /\ part = [v \in Viewers |-> NoFileAt]
  /\ view = [v \in Viewers |-> AtRest(First)]
  /\ purging = 0 /\ doomed = {} /\ purged = 0

Moves(v, pc) == view[v].pc = pc /\ running

-----------------------------------------------------------------------------
(* The camera, the registry and the daemon.                                 *)

\* adb names the phone as disconnected, to a daemon that runs.
Unplug ==
  /\ plugged /\ plugged' = FALSE
  /\ ended' = IF running THEN conn ELSE ended
  /\ UNCHANGED <<conn, opened, cacheVars, running, run, view, purgeVars>>

Plug ==
  /\ ~plugged /\ conn < MaxPlugs
  /\ plugged' = TRUE /\ conn' = conn + 1
  /\ UNCHANGED <<opened, ended, cacheVars, running, run, view, purgeVars>>

\* Refresh opens the camera and forgets one that has gone.
RefreshCamera ==
  /\ running /\ opened' = (IF plugged THEN conn ELSE 0) /\ opened' # opened
  /\ UNCHANGED <<plugged, conn, ended, cacheVars, running, run, view, purgeVars>>

\* pumpDeviceEvents handles device.disconnected.  os.RemoveAll lists the directory
\* and removes the names one by one; what is renamed or created meanwhile stays,
\* and then so does the directory.
HasFile(n) == IF n[1] = "dst" THEN cached[n[2]] # NoFileAt ELSE part[n[2]] # NoFileAt
StartPurge ==
  /\ running /\ ended # 0 /\ purging = 0
  /\ purging' = ended /\ ended' = 0 /\ doomed' = {n \in Names : HasFile(n)}
  /\ UNCHANGED <<plugged, conn, opened, cacheVars, running, run, view, purged>>
Unlink(n) ==
  /\ running /\ n \in doomed /\ doomed' = doomed \ {n}
  /\ IF n[1] = "dst" THEN cached' = [cached EXCEPT ![n[2]] = NoFileAt] /\ UNCHANGED part
     ELSE part' = [part EXCEPT ![n[2]] = NoFileAt] /\ UNCHANGED cached
  /\ UNCHANGED <<deviceVars, folder, running, run, view, purging, purged>>
EndPurge ==
  /\ running /\ purging # 0 /\ doomed = {}
  /\ folder' = (folder /\ \E n \in Names : HasFile(n))
  /\ purged' = purging /\ purging' = 0
  /\ UNCHANGED <<deviceVars, cached, part, doomed, running, run, view>>

\* A crash loses the requests, the handles and the events; not the files.
CrashDaemon ==
  /\ running /\ run <= MaxCrashes
  /\ running' = FALSE /\ opened' = 0 /\ ended' = 0 /\ purging' = 0 /\ doomed' = {}
  /\ view' = [v \in Viewers |-> AtRest(First)]
  /\ UNCHANGED <<plugged, conn, cacheVars, run, purged>>

\* Run starts with a clean media cache.
BugKeepsCache ==
  /\ ~running /\ running' = TRUE /\ run' = run + 1
  /\ UNCHANGED <<deviceVars, cacheVars, view, purgeVars>>
RunServer ==
  /\ ~running /\ running' = TRUE /\ run' = run + 1
  /\ cached' = [o \in Objects |-> NoFileAt] /\ part' = [v \in Viewers |-> NoFileAt]
  /\ folder' = FALSE
  /\ UNCHANGED <<deviceVars, view, purgeVars>>

-----------------------------------------------------------------------------
(* A request: handleMediaPreview, cachedVideoPreview, serveMediaFile.       *)

Goes(v, pc) == view' = [view EXCEPT ![v].pc = pc]
Ends(v) == view' = [view EXCEPT ![v] = AtRest(First)]

\* The camera has no local file; a copy that is there is served.
StatCached(v, o) ==
  /\ Moves(v, "idle")
  /\ view' = [view EXCEPT ![v].object = o,
                          ![v].pc = IF cached[o] # NoFileAt THEN "open" ELSE "mkdir"]
  /\ UNCHANGED <<deviceVars, cacheVars, running, run, purgeVars>>

MkdirAll(v) ==
  /\ Moves(v, "mkdir")
  /\ Goes(v, "create") /\ folder' = TRUE
  /\ UNCHANGED <<deviceVars, cached, part, running, run, purgeVars>>

\* The temporary file is made in the directory it will stay in.
CreateTemp(v) ==
  /\ Moves(v, "create")
  /\ IF folder THEN part' = [part EXCEPT ![v] = Opened] /\ Goes(v, "pull")
     ELSE UNCHANGED part /\ Ends(v)
  /\ UNCHANGED <<deviceVars, folder, cached, running, run, purgeVars>>

\* The registry looks the controller up, and without one answers an error.
LookupCamera(v) ==
  /\ Moves(v, "pull")
  /\ IF opened # 0
     THEN view' = [view EXCEPT ![v].pc = "read", ![v].over = opened] /\ UNCHANGED part
     ELSE Ends(v) /\ part' = [part EXCEPT ![v] = NoFileAt]
  /\ UNCHANGED <<deviceVars, folder, cached, running, run, purgeVars>>

\* What GetObjectTo writes goes to the open file, whether it still has a name or not.
Filled(v, whole) ==
  IF part[v] = NoFileAt THEN part
  ELSE [part EXCEPT ![v] = [over |-> view[v].over, run |-> run, whole |-> whole]]

ReadProxy(v) ==
  /\ Moves(v, "read") /\ plugged /\ view[v].over = conn
  /\ part' = Filled(v, TRUE) /\ Goes(v, "rename")
  /\ UNCHANGED <<deviceVars, folder, cached, running, run, purgeVars>>

\* The camera goes in the middle, or the disk is full: what there is is removed.
BugKeepsPart(v) ==
  /\ Moves(v, "read")
  /\ part' = Filled(v, FALSE) /\ Goes(v, "rename")
  /\ UNCHANGED <<deviceVars, folder, cached, running, run, purgeVars>>
ReadFails(v) ==
  /\ Moves(v, "read")
  /\ part' = [part EXCEPT ![v] = NoFileAt] /\ Ends(v)
  /\ UNCHANGED <<deviceVars, folder, cached, running, run, purgeVars>>

\* Rename fails when the directory has been removed with the temporary file.
BugCopies(v) ==
  /\ Moves(v, "rename")
  /\ folder' = TRUE /\ part' = [part EXCEPT ![v] = NoFileAt] /\ Goes(v, "open")
  /\ cached' = [cached EXCEPT ![view[v].object] =
                  [over |-> view[v].over, run |-> run, whole |-> TRUE]]
  /\ UNCHANGED <<deviceVars, running, run, purgeVars>>
RenamePart(v) ==
  /\ Moves(v, "rename")
  /\ part' = [part EXCEPT ![v] = NoFileAt]
  /\ IF part[v] = NoFileAt THEN Ends(v) /\ UNCHANGED cached
     ELSE Goes(v, "open") /\ cached' = [cached EXCEPT ![view[v].object] = part[v]]
  /\ UNCHANGED <<deviceVars, folder, running, run, purgeVars>>

\* serveMediaFile opens the path it has been given; by now it may be gone.
ServeFile(v) ==
  /\ Moves(v, "open")
  /\ IF cached[view[v].object] = NoFileAt THEN Ends(v)
     ELSE view' = [view EXCEPT ![v].pc = "served", ![v].got = cached[view[v].object]]
  /\ UNCHANGED <<deviceVars, cacheVars, running, run, purgeVars>>

Served(v) ==
  /\ Moves(v, "served") /\ Ends(v)
  /\ UNCHANGED <<deviceVars, cacheVars, running, run, purgeVars>>

CacheNext ==
  \/ Unplug \/ Plug \/ RefreshCamera \/ StartPurge \/ EndPurge \/ CrashDaemon \/ RunServer
  \/ \E n \in Names : Unlink(n)
  \/ \E v \in Viewers :
       \/ \E o \in Objects : StatCached(v, o)
       \/ MkdirAll(v) \/ CreateTemp(v) \/ LookupCamera(v) \/ ReadProxy(v) \/ ReadFails(v)
       \/ RenamePart(v) \/ ServeFile(v) \/ Served(v)

CacheSpec == CacheInit /\ [][CacheNext]_cacheAll

-----------------------------------------------------------------------------
(* Properties.                                                              *)

\* What a client gets is a whole proxy that this run of the daemon pulled,
\* whatever pulls failed, overlapped or were cut off by a crash
\* (handlers_media.go:162-163, server.go:76-80).
ServedWhole ==
  \A v \in Viewers : view[v].pc = "served" => view[v].got.whole /\ view[v].got.run = run

\* Once the end of a connection has been handled, no pull that was in progress
\* puts a file of that connection back: its temporary file went with the others
\* (handlers_media.go:149-152).
PurgedStaysPurged ==
  [][\A o \in Objects :
       cached'[o] \notin {cached[o], NoFileAt} => cached'[o].over > purged]_cacheAll

=============================================================================
