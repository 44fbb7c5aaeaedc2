------------------------- MODULE PreviewCacheProofs -------------------------
(***************************************************************************)
(* Proofs about PreviewCache, for every number of requests, objects,       *)
(* connections and crashes: what is served is whole and of this run, and   *)
(* nothing of a connection comes back once its end has been handled.       *)
(***************************************************************************)
EXTENDS PreviewCache, TLAPS

-----------------------------------------------------------------------------
(* Types.                                                                   *)

Views ==
  [pc : {"idle", "mkdir", "create", "open", "served"} \cup Pulling,
   object : Objects, over : 0..MaxPlugs, got : Proxies]

\* CacheTypeOK in parts: the camera and the purge; the files; the requests.
DevicePart ==
  /\ plugged \in BOOLEAN /\ conn \in 1..MaxPlugs /\ opened \in 0..conn
  /\ ended \in 0..conn /\ purging \in 0..conn /\ purged \in 0..conn
  /\ doomed \subseteq Names
  /\ running \in BOOLEAN /\ run \in 1..MaxCrashes + 1
  /\ ~running => run <= MaxCrashes
FilePart ==
  /\ folder \in BOOLEAN
  /\ cached \in [Objects -> Proxies] /\ part \in [Viewers -> Proxies]
ViewPart == view \in [Viewers -> Views]
InProgress ==
  /\ \A v \in Viewers : running /\ part[v] # NoFileAt => view[v].pc \in Pulling
  /\ ~running => \A v \in Viewers : view[v].pc = "idle"

\* The directory is there as long as a file is in it.
FolderHolds == (\E n \in Names : HasFile(n)) => folder

CacheTyped == DevicePart /\ FilePart /\ ViewPart /\ InProgress /\ FolderHolds

LEMMA NoFileType == NoFileAt \in Proxies /\ ~NoFileAt.whole /\ NoFileAt.run = 0
  BY CacheAssumption DEF NoFileAt, Proxies

LEMMA OpenedType ==
  ASSUME run \in 1..MaxCrashes + 1
  PROVE  Opened \in Proxies /\ Opened # NoFileAt /\ Opened.run = run
  <1>1. run \in 0..MaxCrashes + 1 /\ run # 0
    BY CacheAssumption
  <1>2. Opened \in Proxies /\ Opened.run = run
    BY <1>1, NoFileType DEF Opened, Proxies
  <1> QED
    BY <1>1, <1>2, NoFileType

LEMMA RestType == \A o \in Objects : AtRest(o) \in Views /\ AtRest(o).pc = "idle"
  BY CacheAssumption, NoFileType DEF AtRest, Views

LEMMA FirstType == First \in Objects
  BY CacheAssumption DEF First

\* A name of the directory is a proxy or a temporary file.
LEMMA HasFileCases ==
  (\E n \in Names : HasFile(n)) <=>
    (\E o \in Objects : cached[o] # NoFileAt) \/ (\E v \in Viewers : part[v] # NoFileAt)
  <1>1. ASSUME NEW o \in Objects, cached[o] # NoFileAt PROVE \E n \in Names : HasFile(n)
    <2>1. <<"dst", o>> \in Names /\ HasFile(<<"dst", o>>)
      BY <1>1 DEF Names, HasFile
    <2> QED
      BY <2>1
  <1>2. ASSUME NEW v \in Viewers, part[v] # NoFileAt PROVE \E n \in Names : HasFile(n)
    <2>1. <<"part", v>> \in Names /\ HasFile(<<"part", v>>)
      BY <1>2 DEF Names, HasFile
    <2> QED
      BY <2>1
  <1>3. ASSUME NEW n \in Names, HasFile(n)
        PROVE  (\E o \in Objects : cached[o] # NoFileAt) \/ (\E v \in Viewers : part[v] # NoFileAt)
    BY <1>3 DEF Names, HasFile
  <1> QED
    BY <1>1, <1>2, <1>3

\* The same after a step.
FilesHeld ==
  (\E o \in Objects : cached[o] # NoFileAt) \/ (\E v \in Viewers : part[v] # NoFileAt)
LEMMA HeldFolder == FolderHolds <=> (FilesHeld => folder)
  BY HasFileCases DEF FolderHolds, FilesHeld

\* The camera, the registry and the purge.
LEMMA DeviceType == ASSUME CacheTyped, CacheNext PROVE DevicePart'
  <1> USE CacheAssumption DEF CacheTyped, DevicePart
  <1>1. ASSUME Unplug PROVE DevicePart'
    <2>1. conn \in 0..conn
      OBVIOUS
    <2> QED
      BY <1>1, <2>1 DEF Unplug, purgeVars
  <1>2. ASSUME Plug PROVE DevicePart'
    BY <1>2 DEF Plug, purgeVars
  <1>3. ASSUME RefreshCamera PROVE DevicePart'
    BY <1>3 DEF RefreshCamera, purgeVars
  <1>4. ASSUME StartPurge PROVE DevicePart'
    BY <1>4 DEF StartPurge, purgeVars
  <1>5. ASSUME NEW n \in Names, Unlink(n) PROVE DevicePart'
    BY <1>5 DEF Unlink, deviceVars
  <1>6. ASSUME EndPurge PROVE DevicePart'
    BY <1>6 DEF EndPurge, deviceVars
  <1>7. ASSUME CrashDaemon PROVE DevicePart'
    <2>1. 0 \in 0..conn /\ run \in 1..MaxCrashes + 1
      OBVIOUS
    <2> QED
      BY <1>7, <2>1 DEF CrashDaemon
  <1>8. ASSUME RunServer PROVE DevicePart'
    BY <1>8 DEF RunServer, deviceVars, purgeVars
  <1>9. ASSUME NEW v \in Viewers,
               \/ \E o \in Objects : StatCached(v, o)
               \/ MkdirAll(v) \/ CreateTemp(v) \/ LookupCamera(v) \/ ReadProxy(v)
               \/ ReadFails(v) \/ RenamePart(v) \/ ServeFile(v) \/ Served(v)
        PROVE  DevicePart'
    BY <1>9
    DEF StatCached, MkdirAll, CreateTemp, LookupCamera, ReadProxy, ReadFails, RenamePart,
        ServeFile, Served, deviceVars, purgeVars
  <1> QED
    BY <1>1, <1>2, <1>3, <1>4, <1>5, <1>6, <1>7, <1>8, <1>9 DEF CacheNext

LEMMA FilledType ==
  ASSUME CacheTyped, NEW v \in Viewers, NEW whole \in BOOLEAN
  PROVE  Filled(v, whole) \in [Viewers -> Proxies]
  <1>1. view[v].over \in 0..MaxPlugs
    BY DEF CacheTyped, ViewPart, Views
  <1>2. run \in 0..MaxCrashes + 1
    BY CacheAssumption DEF CacheTyped, DevicePart
  <1>3. [over |-> view[v].over, run |-> run, whole |-> whole] \in Proxies
    BY <1>1, <1>2 DEF Proxies
  <1> QED
    BY <1>3 DEF Filled, CacheTyped, FilePart

\* The files.
LEMMA FileType == ASSUME CacheTyped, CacheNext PROVE FilePart'
  <1> USE NoFileType DEF CacheTyped, FilePart
  <1>1. ASSUME NEW n \in Names, Unlink(n) PROVE FilePart'
    BY <1>1 DEF Unlink
  <1>2. ASSUME EndPurge PROVE FilePart'
    BY <1>2 DEF EndPurge
  <1>3. ASSUME RunServer PROVE FilePart'
    BY <1>3 DEF RunServer
  <1>4. ASSUME NEW v \in Viewers, MkdirAll(v) PROVE FilePart'
    BY <1>4 DEF MkdirAll
  <1>5. ASSUME NEW v \in Viewers, CreateTemp(v) PROVE FilePart'
    BY <1>5, OpenedType DEF CreateTemp, DevicePart
  <1>6. ASSUME NEW v \in Viewers, LookupCamera(v) PROVE FilePart'
    BY <1>6 DEF LookupCamera
  <1>7. ASSUME NEW v \in Viewers, ReadProxy(v) PROVE FilePart'
    BY <1>7, FilledType DEF ReadProxy
  <1>8. ASSUME NEW v \in Viewers, ReadFails(v) PROVE FilePart'
    BY <1>8 DEF ReadFails
  <1>9. ASSUME NEW v \in Viewers, RenamePart(v) PROVE FilePart'
    BY <1>9 DEF RenamePart
  <1>10. ASSUME NEW v \in Viewers, (\E o \in Objects : StatCached(v, o)) \/ ServeFile(v) \/ Served(v)
         PROVE  FilePart'
    BY <1>10 DEF StatCached, ServeFile, Served, cacheVars
  <1>11. ASSUME Unplug \/ Plug \/ RefreshCamera \/ StartPurge \/ CrashDaemon PROVE FilePart'
    BY <1>11 DEF Unplug, Plug, RefreshCamera, StartPurge, CrashDaemon, cacheVars
  <1> QED
    BY <1>1, <1>2, <1>3, <1>4, <1>5, <1>6, <1>7, <1>8, <1>9, <1>10, <1>11 DEF CacheNext

\* The requests.
LEMMA ViewType == ASSUME CacheTyped, CacheNext PROVE ViewPart'
  <1> USE DEF CacheTyped, ViewPart
  <1>0. \A v \in Viewers : view[v] \in Views
    OBVIOUS
  <1>e. ASSUME NEW v \in Viewers, Ends(v) PROVE ViewPart'
    BY <1>e, RestType, FirstType DEF Ends
  <1>g. ASSUME NEW v \in Viewers, NEW pc \in {"create", "pull", "rename", "open"}, Goes(v, pc)
        PROVE  ViewPart'
    BY <1>g DEF Goes, Views, Pulling
  <1>1. ASSUME NEW v \in Viewers, NEW o \in Objects, StatCached(v, o) PROVE ViewPart'
    BY <1>1 DEF StatCached, Views
  <1>2. ASSUME NEW v \in Viewers, MkdirAll(v) \/ CreateTemp(v) \/ ReadProxy(v) \/ ReadFails(v)
                                  \/ RenamePart(v) \/ Served(v)
        PROVE ViewPart'
    BY <1>2, <1>e, <1>g DEF MkdirAll, CreateTemp, ReadProxy, ReadFails, RenamePart, Served
  <1>3. ASSUME NEW v \in Viewers, LookupCamera(v) PROVE ViewPart'
    <2>1. opened \in 0..MaxPlugs
      BY CacheAssumption DEF DevicePart
    <2>2. CASE view' = [view EXCEPT ![v].pc = "read", ![v].over = opened]
      BY <2>1, <2>2 DEF Views, Pulling
    <2> QED
      BY <1>3, <1>e, <2>2 DEF LookupCamera
  <1>4. ASSUME NEW v \in Viewers, ServeFile(v) PROVE ViewPart'
    <2>1. cached[view[v].object] \in Proxies
      BY DEF FilePart, Views
    <2>2. CASE view' = [view EXCEPT ![v].pc = "served", ![v].got = cached[view[v].object]]
      BY <2>1, <2>2 DEF Views
    <2> QED
      BY <1>4, <1>e, <2>2 DEF ServeFile
  <1>5. ASSUME CrashDaemon PROVE ViewPart'
    BY <1>5, RestType, FirstType DEF CrashDaemon
  <1>6. ASSUME \/ Unplug \/ Plug \/ RefreshCamera \/ StartPurge \/ EndPurge \/ RunServer
               \/ \E n \in Names : Unlink(n)
        PROVE  ViewPart'
    BY <1>6 DEF Unplug, Plug, RefreshCamera, StartPurge, EndPurge, RunServer, Unlink
  <1> QED
    BY <1>1, <1>2, <1>3, <1>4, <1>5, <1>6 DEF CacheNext

LEMMA HeldFolderNext == (FolderHolds <=> (FilesHeld => folder))'
  BY HeldFolder, PTL

\* A read fills the file it has, or none.
LEMMA FilledNames ==
  ASSUME CacheTyped, NEW v \in Viewers, NEW whole \in BOOLEAN
  PROVE  \A u \in Viewers : Filled(v, whole)[u] # NoFileAt <=> part[u] # NoFileAt
  <1>1. [over |-> view[v].over, run |-> run, whole |-> whole].run # 0
    BY CacheAssumption DEF CacheTyped, DevicePart
  <1> QED
    BY <1>1, NoFileType DEF Filled, CacheTyped, FilePart

\* A temporary file of this run is that of a request in progress, and in the directory.
LEMMA ProgressStep == ASSUME CacheTyped, CacheNext PROVE InProgress' /\ (FilesHeld' => folder')
  <1> USE NoFileType DEF CacheTyped, InProgress, FilePart, FilesHeld
  <1>f. FilesHeld => folder
    BY HeldFolder
  <1>p. \A v \in Viewers : view[v] \in Views
    BY DEF ViewPart
  <1>1. ASSUME NEW v \in Viewers, NEW o \in Objects, StatCached(v, o)
        PROVE  InProgress' /\ (FilesHeld' => folder')
    BY <1>1, <1>f, <1>p DEF StatCached, Moves, ViewPart, Views, Pulling, cacheVars
  <1>2. ASSUME NEW v \in Viewers, MkdirAll(v) PROVE InProgress' /\ (FilesHeld' => folder')
    BY <1>2, <1>p DEF MkdirAll, Moves, Goes, ViewPart, Views, Pulling
  <1>3. ASSUME NEW v \in Viewers, CreateTemp(v) PROVE InProgress' /\ (FilesHeld' => folder')
    BY <1>3, <1>f, <1>p DEF CreateTemp, Moves, Goes, Ends, ViewPart, Views, Pulling
  <1>4. ASSUME NEW v \in Viewers, LookupCamera(v) PROVE InProgress' /\ (FilesHeld' => folder')
    BY <1>4, <1>f, <1>p DEF LookupCamera, Moves, Ends, ViewPart, Views, Pulling
  <1>5. ASSUME NEW v \in Viewers, ReadProxy(v) PROVE InProgress' /\ (FilesHeld' => folder')
    BY <1>5, <1>f, <1>p, FilledNames DEF ReadProxy, Moves, Goes, ViewPart, Views, Pulling
  <1>6. ASSUME NEW v \in Viewers, ReadFails(v) PROVE InProgress' /\ (FilesHeld' => folder')
    BY <1>6, <1>f, <1>p DEF ReadFails, Moves, Ends, ViewPart, Views, Pulling
  <1>7. ASSUME NEW v \in Viewers, RenamePart(v) PROVE InProgress' /\ (FilesHeld' => folder')
    BY <1>7, <1>f, <1>p DEF RenamePart, Moves, Goes, Ends, ViewPart, Views, Pulling
  <1>8. ASSUME NEW v \in Viewers, ServeFile(v) \/ Served(v)
        PROVE  InProgress' /\ (FilesHeld' => folder')
    BY <1>8, <1>f, <1>p DEF ServeFile, Served, Moves, Ends, ViewPart, Views, Pulling, cacheVars
  <1>9. ASSUME NEW n \in Names, Unlink(n) PROVE InProgress' /\ (FilesHeld' => folder')
    BY <1>9, <1>f DEF Unlink, Names
  <1>10. ASSUME EndPurge PROVE InProgress' /\ (FilesHeld' => folder')
    BY <1>10, <1>f, HasFileCases DEF EndPurge
  <1>11. ASSUME Unplug \/ Plug \/ RefreshCamera \/ StartPurge
         PROVE  InProgress' /\ (FilesHeld' => folder')
    BY <1>11, <1>f DEF Unplug, Plug, RefreshCamera, StartPurge, cacheVars
  <1>13. ASSUME CrashDaemon PROVE InProgress' /\ (FilesHeld' => folder')
    BY <1>13, <1>f, RestType, FirstType DEF CrashDaemon, cacheVars
  <1>12. ASSUME RunServer PROVE InProgress' /\ (FilesHeld' => folder')
    BY <1>12 DEF RunServer
  <1> QED
    BY <1>1, <1>2, <1>3, <1>4, <1>5, <1>6, <1>7, <1>8, <1>9, <1>10, <1>11, <1>12,
       <1>13
    DEF CacheNext

LEMMA CacheTypedStep == CacheTyped /\ [CacheNext]_cacheAll => CacheTyped'
  <1> SUFFICES ASSUME CacheTyped, [CacheNext]_cacheAll PROVE CacheTyped'
    OBVIOUS
  <1>1. CASE UNCHANGED cacheAll
    <2>1. FolderHolds'
      BY <1>1, HeldFolder, HeldFolderNext
      DEF CacheTyped, FilesHeld, cacheAll, deviceVars, cacheVars, purgeVars
    <2> QED
      BY <1>1, <2>1
      DEF CacheTyped, DevicePart, FilePart, ViewPart, InProgress, cacheAll, deviceVars,
          cacheVars, purgeVars
  <1>2. CASE CacheNext
    BY <1>2, DeviceType, FileType, ViewType, ProgressStep, HeldFolderNext DEF CacheTyped
  <1> QED
    BY <1>1, <1>2

LEMMA CacheTypedInit == CacheInit => CacheTyped
  <1> SUFFICES ASSUME CacheInit PROVE CacheTyped
    OBVIOUS
  <1>1. DevicePart
    BY CacheAssumption DEF CacheInit, DevicePart
  <1>2. FilePart /\ InProgress /\ (FilesHeld => folder)
    BY NoFileType DEF CacheInit, FilePart, InProgress, FilesHeld
  <1>3. ViewPart
    BY FirstType, RestType DEF CacheInit, ViewPart
  <1> QED
    BY <1>1, <1>2, <1>3, HeldFolder DEF CacheTyped

LEMMA CacheTypedGives == CacheTyped => CacheTypeOK
  <1> SUFFICES ASSUME CacheTyped PROVE CacheTypeOK
    OBVIOUS
  <1>1. ~folder => \A o \in Objects : cached[o] = NoFileAt
    BY HeldFolder DEF CacheTyped, FilesHeld
  <1> QED
    BY <1>1 DEF CacheTyped, CacheTypeOK, DevicePart, FilePart, ViewPart, InProgress, Views

\* The variables keep their types, a temporary file is that of a request in
\* progress, and a directory that is gone has taken every proxy with it.
THEOREM CacheTypes == CacheSpec => []CacheTypeOK
  BY CacheTypedInit, CacheTypedStep, CacheTypedGives, PTL DEF CacheSpec

-----------------------------------------------------------------------------
(* What is served.                                                          *)

Good(f) == f.whole /\ f.run = run

\* While the daemon runs, what is under its final name is whole and was pulled by
\* this run; so is what a request is about to give that name, or is serving.
OnlyGood ==
  running =>
    /\ \A o \in Objects : cached[o] # NoFileAt => Good(cached[o])
    /\ \A v \in Viewers :
         /\ view[v].pc = "rename" /\ part[v] # NoFileAt => Good(part[v])
         /\ view[v].pc = "served" => Good(view[v].got)

LEMMA OnlyGoodStep == OnlyGood /\ CacheTyped /\ [CacheNext]_cacheAll => OnlyGood'
  <1> SUFFICES ASSUME OnlyGood, CacheTyped, [CacheNext]_cacheAll PROVE OnlyGood'
    OBVIOUS
  <1> USE NoFileType DEF OnlyGood, Good, CacheTyped, FilePart
  <1>p. \A v \in Viewers : view[v] \in Views
    BY DEF ViewPart
  <1>1. CASE UNCHANGED cacheAll
    BY <1>1 DEF cacheAll, cacheVars
  <1>2. ASSUME NEW v \in Viewers, NEW o \in Objects, StatCached(v, o) PROVE OnlyGood'
    BY <1>2, <1>p DEF StatCached, Moves, cacheVars, ViewPart, Views
  <1>3. ASSUME NEW v \in Viewers, MkdirAll(v) PROVE OnlyGood'
    BY <1>3, <1>p DEF MkdirAll, Moves, Goes, ViewPart, Views
  <1>4. ASSUME NEW v \in Viewers, CreateTemp(v) PROVE OnlyGood'
    BY <1>4, <1>p DEF CreateTemp, Moves, Goes, Ends, AtRest, ViewPart, Views
  <1>13. ASSUME NEW v \in Viewers, LookupCamera(v) PROVE OnlyGood'
    <2>1. CASE opened # 0
      <3>1. \A u \in Viewers : view'[u].pc = view[u].pc \/ (u = v /\ view'[u].pc = "read")
        BY <1>13, <1>p, <2>1 DEF LookupCamera, ViewPart, Views
      <3>2. \A u \in Viewers : view'[u].got = view[u].got
        BY <1>13, <1>p, <2>1 DEF LookupCamera, ViewPart, Views
      <3> QED
        BY <1>13, <2>1, <3>1, <3>2 DEF LookupCamera
    <2>2. CASE opened = 0
      BY <1>13, <1>p, <2>2 DEF LookupCamera, Ends, AtRest, ViewPart, Views
    <2> QED
      BY <2>1, <2>2
  <1>14. ASSUME NEW v \in Viewers, ReadFails(v) PROVE OnlyGood'
    BY <1>14, <1>p DEF ReadFails, Moves, Ends, AtRest, ViewPart, Views
  <1>5. ASSUME NEW v \in Viewers, ReadProxy(v) PROVE OnlyGood'
    BY <1>5, <1>p DEF ReadProxy, Filled, Moves, Goes, ViewPart, Views
  <1>6. ASSUME NEW v \in Viewers, RenamePart(v) PROVE OnlyGood'
    BY <1>6, <1>p DEF RenamePart, Moves, Goes, Ends, AtRest, ViewPart, Views
  <1>7. ASSUME NEW v \in Viewers, ServeFile(v) PROVE OnlyGood'
    BY <1>7, <1>p DEF ServeFile, Moves, Ends, AtRest, cacheVars, ViewPart, Views
  <1>8. ASSUME NEW v \in Viewers, Served(v) PROVE OnlyGood'
    BY <1>8, <1>p DEF Served, Moves, Ends, AtRest, cacheVars, ViewPart, Views
  <1>9. ASSUME NEW n \in Names, Unlink(n) PROVE OnlyGood'
    BY <1>9 DEF Unlink, Names
  <1>10. CASE EndPurge
    BY <1>10 DEF EndPurge
  <1>11. CASE Unplug \/ Plug \/ RefreshCamera \/ StartPurge \/ CrashDaemon
    BY <1>11 DEF Unplug, Plug, RefreshCamera, StartPurge, CrashDaemon, cacheVars
  <1>12. CASE RunServer
    <2>1. \A v \in Viewers : view[v].pc # "served"
      BY <1>12 DEF RunServer, InProgress
    <2> QED
      BY <1>12, <2>1 DEF RunServer
  <1> QED
    BY <1>1, <1>2, <1>3, <1>4, <1>5, <1>6, <1>7, <1>8, <1>9, <1>10, <1>11, <1>12,
       <1>13, <1>14
    DEF CacheNext

\* What a client gets is a whole proxy that this run of the daemon pulled, whatever
\* pulls failed, overlapped or were cut off by a crash (handlers_media.go:162-163,
\* server.go:76-80).
THEOREM PreviewsWhole == CacheSpec => []ServedWhole
  <1>1. CacheInit => OnlyGood
    BY NoFileType DEF CacheInit, OnlyGood, AtRest
  <1>2. OnlyGood /\ CacheTyped => ServedWhole
    BY DEF OnlyGood, Good, ServedWhole, CacheTyped, InProgress
  <1> QED
    BY <1>1, <1>2, CacheTypedInit, CacheTypedStep, OnlyGoodStep, PTL DEF CacheSpec

-----------------------------------------------------------------------------
(* What comes back.                                                         *)

\* The connection that is over, at each stage of its being handled.
Gone(c) == c <= conn /\ (c = conn => ~plugged)
Behind == (ended # 0 => Gone(ended)) /\ (purging # 0 => Gone(purging)) /\ (purged # 0 => Gone(purged))

\* A file that is about to get its final name is of a later connection than the
\* last one that was handled; and than the one being handled, unless it is going.
Ahead ==
  \A v \in Viewers : view[v].pc = "rename" /\ part[v] # NoFileAt =>
    /\ part[v].over > purged
    /\ purging # 0 => part[v].over > purging \/ <<"part", v>> \in doomed

LEMMA BehindStep == Behind /\ CacheTyped /\ [CacheNext]_cacheAll => Behind'
  <1> SUFFICES ASSUME Behind, CacheTyped, [CacheNext]_cacheAll PROVE Behind'
    OBVIOUS
  <1> USE CacheAssumption DEF Behind, Gone, CacheTyped, DevicePart
  <1>1. CASE UNCHANGED <<deviceVars, purgeVars>>
    BY <1>1 DEF deviceVars, purgeVars
  <1>2. CASE Unplug
    BY <1>2 DEF Unplug, purgeVars
  <1>3. CASE Plug
    BY <1>3 DEF Plug, purgeVars
  <1>4. CASE StartPurge
    BY <1>4 DEF StartPurge
  <1>5. CASE EndPurge
    BY <1>5 DEF EndPurge, deviceVars
  <1>6. CASE RefreshCamera
    BY <1>6 DEF RefreshCamera, purgeVars
  <1>7. CASE CrashDaemon
    BY <1>7 DEF CrashDaemon
  <1>8. ASSUME NEW n \in Names, Unlink(n) PROVE Behind'
    BY <1>8 DEF Unlink, deviceVars
  <1> QED
    BY <1>1, <1>2, <1>3, <1>4, <1>5, <1>6, <1>7, <1>8
    DEF CacheNext, RunServer, StatCached, MkdirAll, CreateTemp, LookupCamera, ReadProxy,
        ReadFails, RenamePart, ServeFile, Served, cacheAll

LEMMA AheadStep == Ahead /\ Behind /\ CacheTyped /\ [CacheNext]_cacheAll => Ahead'
  <1> SUFFICES ASSUME Ahead, Behind, CacheTyped, [CacheNext]_cacheAll,
                      NEW u \in Viewers, view'[u].pc = "rename", part'[u] # NoFileAt
               PROVE  /\ part'[u].over > purged'
                      /\ purging' # 0 => part'[u].over > purging' \/ <<"part", u>> \in doomed'
    BY DEF Ahead
  <1> USE CacheAssumption DEF CacheTyped, DevicePart
  <1>p. \A v \in Viewers : view[v] \in Views /\ view[v].over \in Nat
    BY DEF ViewPart, Views
  <1>n. <<"part", u>> \in Names
    BY DEF Names
  <1>k. ASSUME view[u].pc = "rename", part'[u] = part[u], UNCHANGED purgeVars
        PROVE  /\ part'[u].over > purged'
               /\ purging' # 0 => part'[u].over > purging' \/ <<"part", u>> \in doomed'
    BY <1>k DEF Ahead, purgeVars
  <1>1. CASE UNCHANGED cacheAll
    BY <1>1, <1>k DEF cacheAll, cacheVars
  <1>2. CASE Unplug \/ Plug \/ RefreshCamera
    BY <1>2, <1>k DEF Unplug, Plug, RefreshCamera, cacheVars
  <1>3. CASE StartPurge
    BY <1>3, <1>n DEF StartPurge, HasFile, Ahead, cacheVars
  <1>4. ASSUME NEW n \in Names, Unlink(n)
        PROVE  /\ part'[u].over > purged'
               /\ purging' # 0 => part'[u].over > purging' \/ <<"part", u>> \in doomed'
    BY <1>4 DEF Unlink, Ahead, FilePart, Names
  <1>5. CASE EndPurge
    BY <1>5 DEF EndPurge, Ahead
  <1>6. CASE CrashDaemon
    BY <1>6, RestType, FirstType DEF CrashDaemon
  <1>7. CASE RunServer
    BY <1>7 DEF RunServer
  <1>8. ASSUME NEW v \in Viewers, ReadProxy(v)
        PROVE  /\ part'[u].over > purged'
               /\ purging' # 0 => part'[u].over > purging' \/ <<"part", u>> \in doomed'
    <2>1. CASE u = v
      <3>1. part'[u].over = conn
        BY <1>8, <2>1 DEF ReadProxy, Filled, FilePart
      <3>2. conn > purged /\ (purging # 0 => conn > purging)
        BY <1>8 DEF ReadProxy, Behind, Gone
      <3> QED
        BY <1>8, <3>1, <3>2 DEF ReadProxy, purgeVars
    <2>2. CASE u # v
      BY <1>8, <1>k, <2>2, <1>p DEF ReadProxy, Goes, Filled, FilePart, ViewPart
    <2> QED
      BY <2>1, <2>2
  <1>9. ASSUME NEW v \in Viewers, NEW o \in Objects, StatCached(v, o)
        PROVE  view[u].pc = "rename" /\ part'[u] = part[u] /\ UNCHANGED purgeVars
    BY <1>9, <1>p DEF StatCached, ViewPart, Views, cacheVars
  <1>10. ASSUME NEW v \in Viewers,
                MkdirAll(v) \/ CreateTemp(v) \/ LookupCamera(v) \/ ReadFails(v)
         PROVE  view[u].pc = "rename" /\ part'[u] = part[u] /\ UNCHANGED purgeVars
    BY <1>10, <1>p
    DEF MkdirAll, CreateTemp, LookupCamera, ReadFails, Goes, Ends, AtRest, ViewPart, Views,
        FilePart
  <1>11. ASSUME NEW v \in Viewers, RenamePart(v) \/ ServeFile(v) \/ Served(v)
         PROVE  view[u].pc = "rename" /\ part'[u] = part[u] /\ UNCHANGED purgeVars
    BY <1>11, <1>p
    DEF RenamePart, ServeFile, Served, Goes, Ends, AtRest, ViewPart, Views, FilePart, cacheVars
  <1> QED
    BY <1>k, <1>1, <1>2, <1>3, <1>4, <1>5, <1>6, <1>7, <1>8, <1>9, <1>10, <1>11 DEF CacheNext

LEMMA PurgedStep ==
  ASSUME Ahead, CacheTyped, [CacheNext]_cacheAll, NEW o \in Objects,
         cached'[o] \notin {cached[o], NoFileAt}
  PROVE  cached'[o].over > purged
  <1>1. PICK v \in Viewers : RenamePart(v)
    BY DEF CacheNext, Unplug, Plug, RefreshCamera, StartPurge, Unlink, EndPurge, CrashDaemon,
           RunServer, StatCached, MkdirAll, CreateTemp, LookupCamera, ReadProxy, ReadFails,
           ServeFile, Served, cacheAll, cacheVars, CacheTyped, FilePart
  <1>2. view[v].pc = "rename" /\ part[v] # NoFileAt /\ cached'[o] = part[v]
    BY <1>1 DEF RenamePart, Moves, CacheTyped, FilePart
  <1> QED
    BY <1>2 DEF Ahead

\* Once the end of a connection has been handled, no pull that was in progress puts
\* a file of that connection back: its temporary file went with the others, or it
\* could not be filled (handlers_media.go:149-152).
THEOREM PurgesLast == CacheSpec => PurgedStaysPurged
  <1>1. CacheInit => Behind /\ Ahead
    BY DEF CacheInit, Behind, Ahead, AtRest
  <1>2. Ahead /\ CacheTyped /\ [CacheNext]_cacheAll =>
          [\A o \in Objects :
             cached'[o] \notin {cached[o], NoFileAt} => cached'[o].over > purged]_cacheAll
    BY PurgedStep
  <1> QED
    BY <1>1, <1>2, CacheTypedInit, CacheTypedStep, BehindStep, AheadStep, PTL
    DEF CacheSpec, PurgedStaysPurged

=============================================================================
