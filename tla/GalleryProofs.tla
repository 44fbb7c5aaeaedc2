---------------------------- MODULE GalleryProofs ----------------------------
(***************************************************************************)
(* Proofs about Gallery, for every set of files and every number of        *)
(* browsers: an item of a listing stays that item however often the index  *)
(* is rebuilt before it is asked for, and ffmpeg decodes a video once.     *)
(***************************************************************************)
EXTENDS Gallery, TLAPS, FiniteSetTheorems

-----------------------------------------------------------------------------
(* Listings.                                                                *)

\* What the ID of an item means on this visit: of a camera the object, of a card the
\* place in the listing of all its files, which is exact as long as no walk left one
\* out.
Means(exact, id, f) ==
  /\ id \in Nat /\ f \in MediaFiles
  /\ source = "camera" => id = f.object[visit]
  /\ exact /\ source = "volume" => f = NewestFirst(stored)[id]

LEMMA PlaceType ==
  ASSUME NEW files \in SUBSET MediaFiles, NEW f
  PROVE  Place(files, f) \in Nat
<1> DEFINE earlier == {g \in Media(files) : Before(g, f)}
<1>1. earlier \subseteq MediaFiles
  BY DEF Media
<1>2. Cardinality(earlier) \in Nat
  BY <1>1, GalleryAssumption, FS_Subset, FS_CardinalityType
<1> QED
  BY <1>2 DEF Place

LEMMA NewestType ==
  ASSUME NEW files \in SUBSET MediaFiles, NEW i \in DOMAIN NewestFirst(files)
  PROVE  i \in Nat /\ NewestFirst(files)[i] \in Media(files) /\ NewestFirst(files)[i] \in MediaFiles
<1>1. i \in {Place(files, f) : f \in Media(files)}
  BY DEF NewestFirst
<1>2. PICK f \in Media(files) : Place(files, f) = i
  BY <1>1
<1>3. NewestFirst(files)[i] = CHOOSE g \in Media(files) : Place(files, g) = i
  BY <1>1 DEF NewestFirst
<1>4. NewestFirst(files)[i] \in Media(files)
  BY <1>2, <1>3
<1> QED
  BY <1>2, <1>4, PlaceType DEF Media

\* Two items of one ID are one file.
LEMMA MeansOne ==
  ASSUME NEW exact, source = "camera" \/ (source = "volume" /\ exact), visit \in Visits,
         NEW id, NEW f, NEW g, Means(exact, id, f), Means(exact, id, g)
  PROVE  f = g
BY GalleryAssumption DEF Means

\* The items of a listing mean what their IDs say, of a card if the listing is
\* of all files or of none.
LEMMA ItemsMean ==
  ASSUME source \in {"volume", "camera"}, visit \in Visits, NEW files \in SUBSET MediaFiles,
         NEW exact, exact => source = "camera" \/ files = stored \/ files = {},
         NEW i \in DOMAIN Items(files)
  PROVE  Means(exact, Items(files)[i].id, Items(files)[i].file)
<1> DEFINE list == NewestFirst(files)
<1>1. i \in DOMAIN list /\ Items(files)[i].file = list[i] /\ Items(files)[i].id = MediaID(list, i)
  BY DEF Items
<1>2. i \in Nat /\ list[i] \in MediaFiles /\ list[i] \in Media(files)
  BY <1>1, NewestType
<1>3. list[i].object[visit] \in Nat
  BY <1>2, GalleryAssumption DEF MediaFile
<1>4. files # {}
  BY <1>2 DEF Media
<1> QED
  BY <1>1, <1>2, <1>3, <1>4 DEF Means, MediaID

\* An entry of an index: its file, and a clip of that name in that folder.
EntryMeans(exact, id, entry) ==
  /\ Means(exact, id, entry.file)
  /\ entry.proxy # NoMedia =>
       entry.proxy \in MediaFiles /\ entry.proxy.kind = "lrf" /\ SameClip(entry.proxy, entry.file)

LEMMA IndexMeans ==
  ASSUME source \in {"volume", "camera"}, visit \in Visits, NEW files \in SUBSET MediaFiles,
         NEW exact, exact => source = "camera" \/ files = stored \/ files = {},
         NEW id \in DOMAIN IndexOf(files)
  PROVE  EntryMeans(exact, id, IndexOf(files)[id])
<1> DEFINE items == Items(files)
<1> DEFINE ids == {items[i].id : i \in DOMAIN items}
<1> DEFINE file(x) == items[CHOOSE i \in DOMAIN items : items[i].id = x].file
<1> DEFINE proxy(x) == IF ProxiesOf(files, file(x)) = {} THEN NoMedia
                       ELSE CHOOSE g \in ProxiesOf(files, file(x)) : TRUE
<1>1. IndexOf(files) = [x \in ids |-> [file |-> file(x), proxy |-> proxy(x)]]
  BY DEF IndexOf
<1>2. id \in ids
  BY <1>1
<1>3. PICK i \in DOMAIN items : i = (CHOOSE j \in DOMAIN items : items[j].id = id) /\ items[i].id = id
  BY <1>2
<1>4. Means(exact, id, file(id))
  BY <1>3, ItemsMean
<1>5. IndexOf(files)[id] = [file |-> file(id), proxy |-> proxy(id)]
  BY <1>1, <1>2
<1> HIDE DEF file
<1>6. proxy(id) # NoMedia =>
        proxy(id) \in MediaFiles /\ proxy(id).kind = "lrf" /\ SameClip(proxy(id), file(id))
  BY DEF ProxiesOf, ProxyKey, SameClip
<1> HIDE DEF proxy
<1> QED
  BY <1>4, <1>5, <1>6 DEF EntryMeans

-----------------------------------------------------------------------------
(* Types.                                                                   *)

PosterSteps == {"cached", "acquire", "recheck", "extract", "store", "release"}

\* GalleryTypeOK in parts: the storage, the poster cache and what a listing and the
\* index hold; the requests; and that a request is at a poster only of a video.
StoragePart ==
  /\ source \in {"volume", "camera"} /\ visit \in Visits /\ pulled \in BOOLEAN
  /\ stored \subseteq MediaFiles /\ unread \in 0..MaxUnread
PosterPart ==
  /\ posters \in [Videos -> {"none", "poster", "failed"}]
  /\ sem \subseteq Watchers
  /\ decoded \in [Videos -> 0..2]
\* An item that was listed on this visit means what its ID says.
AskedHolds(on, id, f) ==
  id \in Nat /\ f \in MediaFiles /\ (on = visit => Means(unread = 0, id, f))
ScreenHolds(p) ==
  /\ p.on \in 0..visit
  /\ \A i \in DOMAIN p.items : AskedHolds(p.on, p.items[i].id, p.items[i].file)
ShownPart ==
  /\ DOMAIN shown = Watchers
  /\ \A w \in Watchers : ScreenHolds(shown[w])
IndexSound == \A id \in DOMAIN index : EntryMeans(unread = 0, id, index[id])
IndexPart == index # NoMedia \/ (\E w \in Watchers : req[w].pc = "resolve") => IndexSound
AskedPart ==
  \A w \in Watchers :
    req[w].pc # "rest" => AskedHolds(req[w].listed, req[w].id, req[w].wanted)
VideoPart == \A w \in Watchers : req[w].pc \in PosterSteps => req[w].file \in Videos

RequestPart == req \in [Watchers -> Requests]

GalleryInv ==
  /\ StoragePart /\ PosterPart /\ RequestPart
  /\ ShownPart /\ IndexPart /\ AskedPart /\ VideoPart

LEMMA RestingType == Resting \in Requests /\ Resting.pc = "rest" /\ Resting.file = NoMedia
BY GalleryAssumption DEF Resting, Requests, Steps, Visits

\* What a request's step does to the requests.
LEMMA ReplyEffect ==
  ASSUME RequestPart, NEW w \in Watchers, Reply(w)
  PROVE  /\ RequestPart' /\ req'[w] = Resting
         /\ \A v \in Watchers \ {w} : req'[v] = req[v]
BY RestingType DEF RequestPart, Reply

LEMMA ToEffect ==
  ASSUME RequestPart, NEW w \in Watchers, NEW pc \in Steps, To(w, pc)
  PROVE  /\ RequestPart' /\ req'[w].pc = pc
         /\ req'[w].op = req[w].op /\ req'[w].id = req[w].id
         /\ req'[w].wanted = req[w].wanted /\ req'[w].listed = req[w].listed
         /\ req'[w].file = req[w].file
         /\ \A v \in Watchers \ {w} : req'[v] = req[v]
<1> DEFINE r == [req[w] EXCEPT !.pc = pc]
<1>1. req[w] \in Requests /\ req \in [Watchers -> Requests]
  BY DEF RequestPart
<1>2. r \in Requests /\ r.pc = pc /\ r.op = req[w].op /\ r.id = req[w].id
      /\ r.wanted = req[w].wanted /\ r.listed = req[w].listed /\ r.file = req[w].file
  BY <1>1 DEF Requests
<1>3. req' = [req EXCEPT ![w] = r]
  BY DEF To
<1> HIDE DEF r
<1> QED
  BY <1>1, <1>2, <1>3 DEF RequestPart

\* A walk of nothing or of everything, unless it left a folder out.
LEMMA WalkMeans ==
  ASSUME StoragePart, NEW bad \in WalkErrors, Walked(bad)
  PROVE  /\ unread' \in 0..MaxUnread /\ unread \in Nat /\ (unread' = 0 => unread = 0)
         /\ Seen(bad) \in SUBSET MediaFiles
         /\ unread' = 0 =>
              source = "camera" \/ Seen(bad) = stored \/ Seen(bad) = {}
<1>1. unread \in Nat /\ MaxUnread \in Nat
  BY GalleryAssumption DEF StoragePart
<1>2. CASE bad = {}
  BY <1>1, <1>2 DEF StoragePart, Walked, Seen
<1>3. CASE bad # {}
  <2>1. unread < MaxUnread
    BY <1>3 DEF WalkErrors
  <2> QED
    BY <1>1, <1>3, <2>1 DEF StoragePart, Walked, Seen
<1> QED
  BY <1>2, <1>3

\* What was meant is meant: on one visit the device stays what it is, a card keeps its
\* files, and the count of walks that left something out only grows.
Stays ==
  /\ source' = source /\ visit' = visit /\ (unread' = 0 => unread = 0)
  /\ source = "volume" => stored' = stored

LEMMA StillMeans ==
  ASSUME Stays, NEW id, NEW f, Means(unread = 0, id, f)
  PROVE  Means(unread = 0, id, f)'
BY DEF Stays, Means

LEMMA StillAsked ==
  ASSUME Stays, NEW on, NEW id, NEW f, AskedHolds(on, id, f)
  PROVE  AskedHolds(on, id, f)'
BY StillMeans DEF AskedHolds, Stays

LEMMA StillHolds ==
  ASSUME Stays, NEW p, ScreenHolds(p)
  PROVE  ScreenHolds(p)'
BY StillAsked DEF ScreenHolds, Stays

LEMMA StillEntryMeans ==
  ASSUME Stays, NEW id, NEW e,
         EntryMeans(unread = 0, id, e)
  PROVE  EntryMeans(unread = 0, id, e)'
BY StillMeans DEF EntryMeans, SameClip

\* A step of one request that leaves the listings and the index alone.
LEMMA RequestMoves ==
  ASSUME GalleryInv, UNCHANGED <<source, visit, stored, pulled, unread, index, shown>>, PosterPart',
         NEW w \in Watchers, RequestPart', \A v \in Watchers \ {w} : req'[v] = req[v],
         req'[w].pc # "rest" => AskedHolds(req'[w].listed, req'[w].id, req'[w].wanted),
         req'[w].pc \in PosterSteps => req'[w].file \in Videos,
         req'[w].pc = "resolve" => index # NoMedia
  PROVE  GalleryInv'
<1>1. StoragePart'
  BY DEF GalleryInv, StoragePart
<1>s. Stays
  BY DEF Stays
<1>2. ShownPart'
  BY <1>s, StillHolds DEF GalleryInv, ShownPart
<1>3. IndexPart'
  <2>1. ASSUME IndexSound PROVE IndexSound'
    BY <1>s, <2>1, StillEntryMeans DEF IndexSound
  <2>2. (\E v \in Watchers : req'[v].pc = "resolve")
          => index # NoMedia \/ \E v \in Watchers : req[v].pc = "resolve"
    OBVIOUS
  <2> QED
    BY <2>1, <2>2 DEF GalleryInv, IndexPart
<1>4. AskedPart'
  <2>1. ASSUME NEW v \in Watchers \ {w}, req[v].pc # "rest"
        PROVE  AskedHolds(req[v].listed, req[v].id, req[v].wanted)'
    <3>1. PICK on, id, f : on = req[v].listed /\ id = req[v].id /\ f = req[v].wanted
      OBVIOUS
    <3>2. AskedHolds(on, id, f)'
      BY <1>s, <2>1, <3>1, StillAsked DEF GalleryInv, AskedPart
    <3> QED
      BY <3>1, <3>2
  <2>2. req'[w].pc # "rest" => AskedHolds(req[w].listed, req[w].id, req[w].wanted)'
    BY DEF AskedHolds, Means
  <2> QED
    BY <2>1, <2>2 DEF AskedPart
<1>5. VideoPart'
  <2>1. ASSUME NEW v \in Watchers, req'[v].pc \in PosterSteps PROVE req'[v].file \in Videos
    BY <2>1 DEF GalleryInv, VideoPart
  <2> QED
    BY <2>1 DEF VideoPart, Videos
<1> QED
  BY <1>1, <1>2, <1>3, <1>4, <1>5 DEF GalleryInv

LEMMA StutterInv ==
  ASSUME GalleryInv, UNCHANGED galleryVars
  PROVE  GalleryInv'
BY DEF GalleryInv, galleryVars, StoragePart, PosterPart, RequestPart, ShownPart, ScreenHolds,
       IndexPart, IndexSound, EntryMeans, AskedPart, AskedHolds, Means, SameClip, VideoPart, Videos

\* Requests that do not move.
LEMMA StillReqs ==
  ASSUME GalleryInv, Stays, UNCHANGED req
  PROVE  AskedPart'
<1>1. ASSUME NEW v \in Watchers, req[v].pc # "rest"
      PROVE  AskedHolds(req[v].listed, req[v].id, req[v].wanted)'
  <2>1. PICK on, id, f : on = req[v].listed /\ id = req[v].id /\ f = req[v].wanted
    OBVIOUS
  <2>2. AskedHolds(on, id, f)'
    BY <1>1, <2>1, StillAsked DEF GalleryInv, AskedPart
  <2> QED
    BY <2>1, <2>2
<1> QED
  BY <1>1 DEF AskedPart

\* The same of a step that only sends the request on, or ends it.
LEMMA OnlyMoves ==
  ASSUME GalleryInv, UNCHANGED <<source, visit, stored, pulled, unread, index, shown>>, PosterPart',
         NEW w \in Watchers, req[w].pc # "rest",
         \/ Reply(w)
         \/ \E pc \in Steps : To(w, pc) /\ (pc = "resolve" => index # NoMedia)
              /\ (pc \in PosterSteps => req[w].pc \in PosterSteps)
  PROVE  GalleryInv'
<1>1. CASE Reply(w)
  <2>1. RequestPart' /\ req'[w].pc = "rest" /\ \A v \in Watchers \ {w} : req'[v] = req[v]
    BY <1>1, ReplyEffect, RestingType DEF GalleryInv
  <2> QED
    BY <2>1, RequestMoves DEF PosterSteps
<1>2. ASSUME NEW pc \in Steps, To(w, pc), pc = "resolve" => index # NoMedia,
             pc \in PosterSteps => req[w].pc \in PosterSteps
      PROVE  GalleryInv'
  <2>1. /\ RequestPart' /\ req'[w].pc = pc
        /\ req'[w].id = req[w].id /\ req'[w].wanted = req[w].wanted
        /\ req'[w].listed = req[w].listed /\ req'[w].file = req[w].file
        /\ \A v \in Watchers \ {w} : req'[v] = req[v]
    BY <1>2, ToEffect DEF GalleryInv
  <2>2. AskedHolds(req[w].listed, req[w].id, req[w].wanted)
    BY DEF GalleryInv, AskedPart
  <2>3. pc \in PosterSteps => req[w].file \in Videos
    BY <1>2 DEF GalleryInv, VideoPart
  <2> QED
    BY <1>2, <2>1, <2>2, <2>3, RequestMoves
<1> QED
  BY <1>1, <1>2

LEMMA ListMediaInv ==
  ASSUME GalleryInv, NEW w \in Watchers, ListMedia(w)
  PROVE  GalleryInv'
<1>1. UNCHANGED <<source, visit, stored, pulled, req, posters, sem, decoded>>
  BY DEF ListMedia
<1>2. CASE UNCHANGED <<unread, index, shown>>
  <2>1. UNCHANGED <<source, visit, stored, pulled, unread, index, shown, req, posters, sem, decoded>>
    BY <1>1, <1>2
  <2> QED
    BY <2>1, StutterInv DEF galleryVars
<1>3. ASSUME NEW bad \in WalkErrors, Walked(bad), index' = IndexOf(Seen(bad)),
             shown' = [shown EXCEPT ![w] = Screen(Items(Seen(bad)))]
      PROVE  GalleryInv'
  <2> DEFINE files == Seen(bad)
  <2> DEFINE screen == Screen(Items(files))
  <2>1. /\ unread' \in 0..MaxUnread /\ (unread' = 0 => unread = 0)
        /\ files \in SUBSET MediaFiles
        /\ unread' = 0 => source = "camera" \/ files = stored \/ files = {}
    BY <1>3, WalkMeans DEF GalleryInv
  <2>2. StoragePart' /\ PosterPart' /\ RequestPart' /\ VideoPart' /\ Stays
    BY <1>1, <2>1 DEF GalleryInv, StoragePart, PosterPart, RequestPart, VideoPart, Stays
  <2>3. AskedPart'
    BY <1>1, <2>2, StillReqs
  <2>4. source \in {"volume", "camera"} /\ visit \in Visits /\ visit \in 0..visit
    BY GalleryAssumption DEF GalleryInv, StoragePart, Visits
  <2>5. \A i \in DOMAIN Items(files) : Means(unread' = 0, Items(files)[i].id, Items(files)[i].file)
    BY <2>1, <2>4, ItemsMean
  <2>6. \A id \in DOMAIN IndexOf(files) : EntryMeans(unread' = 0, id, IndexOf(files)[id])
    BY <2>1, <2>4, IndexMeans
  <2>7. IndexSound'
    <3> DEFINE built == IndexOf(files)
    <3>1. index' = built
      BY <1>3
    <3>2. \A id \in DOMAIN built : EntryMeans(unread' = 0, id, built[id])
      BY <2>6
    <3> HIDE DEF built, files
    <3> QED
      BY <1>1, <3>2, <3>1 DEF IndexSound, EntryMeans, Means, SameClip
  <2>8. PICK p : p = screen
    OBVIOUS
  <2>9. ScreenHolds(p)'
    <3> DEFINE items == Items(files)
    <3>1. p.on = visit' /\ p.items = items
      BY <1>1, <2>8 DEF Screen
    <3>2. \A i \in DOMAIN items : Means(unread' = 0, items[i].id, items[i].file)
      BY <2>5
    <3> HIDE DEF items
    <3>3. ASSUME NEW i \in DOMAIN p.items PROVE AskedHolds(p.on, p.items[i].id, p.items[i].file)'
      <4>1. PICK on, id, f : on = p.on /\ id = p.items[i].id /\ f = p.items[i].file
        OBVIOUS
      <4>2. Means(unread' = 0, id, f)
        BY <3>1, <3>2, <4>1
      <4>3. Means(unread = 0, id, f)'
        BY <1>1, <4>2 DEF Means
      <4>4. id \in Nat /\ f \in MediaFiles
        BY <4>2 DEF Means
      <4> QED
        BY <4>1, <4>3, <4>4 DEF AskedHolds
    <3> QED
      BY <1>1, <2>4, <3>1, <3>3 DEF ScreenHolds
  <2>10. ShownPart'
    <3>1. DOMAIN shown = Watchers /\ \A v \in Watchers : ScreenHolds(shown[v])
      BY DEF GalleryInv, ShownPart
    <3>2. shown' = [shown EXCEPT ![w] = p]
      BY <1>3, <2>8
    <3>3. /\ DOMAIN shown' = Watchers /\ shown'[w] = p
          /\ \A v \in Watchers \ {w} : shown'[v] = shown[v]
      BY <3>1, <3>2
    <3>4. ASSUME NEW v \in Watchers \ {w} PROVE ScreenHolds(shown[v])'
      <4>1. PICK q : q = shown[v]
        OBVIOUS
      <4>2. ScreenHolds(q)'
        BY <2>2, <3>1, <4>1, StillHolds
      <4> QED
        BY <3>3, <4>1, <4>2
    <3>5. ScreenHolds(shown[w])'
      BY <2>9, <3>3
    <3> QED
      BY <3>3, <3>4, <3>5 DEF ShownPart
  <2> QED
    BY <2>2, <2>3, <2>7, <2>10 DEF GalleryInv, IndexPart
<1> QED
  BY <1>2, <1>3 DEF ListMedia

LEMMA AskMediaInv ==
  ASSUME GalleryInv, NEW w \in Watchers, AskMedia(w)
  PROVE  GalleryInv' /\ req'[w].file = NoMedia /\ \A v \in Watchers \ {w} : req'[v] = req[v]
<1>1. PICK i \in DOMAIN shown[w].items : \E op \in Offers(shown[w].items[i]) :
        req' = [req EXCEPT ![w] = [Resting EXCEPT !.pc = "ensure", !.op = op,
                                      !.id = shown[w].items[i].id,
                                      !.wanted = shown[w].items[i].file, !.listed = shown[w].on]]
  BY DEF AskMedia
<1> DEFINE item == shown[w].items[i]
<1> DEFINE on == shown[w].on
<1>2. PICK op \in Offers(item) :
        req' = [req EXCEPT ![w] = [Resting EXCEPT !.pc = "ensure", !.op = op,
                                      !.id = item.id, !.wanted = item.file, !.listed = on]]
  BY <1>1
<1> DEFINE r == [Resting EXCEPT !.pc = "ensure", !.op = op, !.id = item.id, !.wanted = item.file,
                                !.listed = on]
<1>3. AskedHolds(on, item.id, item.file) /\ on \in Visits
  BY GalleryAssumption DEF GalleryInv, ShownPart, ScreenHolds, StoragePart, Visits
<1>4. op \in {"thumbnail", "preview", "download"}
  BY DEF Offers
<1> HIDE DEF item, on
<1>5. /\ r \in Requests /\ r.pc = "ensure" /\ r.id = item.id /\ r.wanted = item.file
      /\ r.listed = on /\ r.file = NoMedia
  BY <1>3, <1>4 DEF Resting, Requests, Steps, AskedHolds
<1>6. req' = [req EXCEPT ![w] = r] /\ req \in [Watchers -> Requests]
  BY <1>2 DEF GalleryInv, RequestPart
<1> HIDE DEF r
<1>7. RequestPart' /\ req'[w] = r /\ \A v \in Watchers \ {w} : req'[v] = req[v]
  BY <1>5, <1>6 DEF RequestPart
<1>8. UNCHANGED <<source, visit, stored, pulled, unread, index, shown>> /\ PosterPart'
  BY DEF AskMedia, GalleryInv, PosterPart
<1> QED
  BY <1>3, <1>5, <1>7, <1>8, RequestMoves DEF PosterSteps

LEMMA EnsureIndexInv ==
  ASSUME GalleryInv, NEW w \in Watchers, EnsureIndex(w)
  PROVE  GalleryInv'
<1>1. UNCHANGED <<source, visit, stored, pulled, shown, posters, sem, decoded>> /\ req[w].pc = "ensure"
  BY DEF EnsureIndex
<1>2. PosterPart'
  BY <1>1 DEF GalleryInv, PosterPart
<1>3. ASSUME UNCHANGED <<index, unread>>, Reply(w) \/ (index # NoMedia /\ To(w, "resolve"))
      PROVE  GalleryInv'
  BY <1>1, <1>2, <1>3, OnlyMoves DEF Steps, PosterSteps
<1>4. ASSUME NEW bad \in WalkErrors, Walked(bad), To(w, "resolve"), index' = IndexOf(Seen(bad))
      PROVE  GalleryInv'
  <2>1. /\ unread' \in 0..MaxUnread /\ (unread' = 0 => unread = 0)
        /\ Seen(bad) \in SUBSET MediaFiles
        /\ unread' = 0 => source = "camera" \/ Seen(bad) = stored \/ Seen(bad) = {}
    BY <1>4, WalkMeans DEF GalleryInv
  <2>2. /\ RequestPart' /\ req'[w].pc = "resolve" /\ req'[w].listed = req[w].listed
        /\ req'[w].id = req[w].id /\ req'[w].wanted = req[w].wanted
        /\ \A v \in Watchers \ {w} : req'[v] = req[v]
    BY <1>4, ToEffect DEF GalleryInv, Steps
  <2>3. StoragePart' /\ VideoPart' /\ Stays
    BY <1>1, <2>1, <2>2 DEF GalleryInv, StoragePart, VideoPart, PosterSteps, Videos, Stays
  <2>4. AskedPart'
    <3>1. ASSUME NEW v \in Watchers, req[v].pc # "rest"
          PROVE  AskedHolds(req[v].listed, req[v].id, req[v].wanted)'
      <4>1. PICK on, id, f : on = req[v].listed /\ id = req[v].id /\ f = req[v].wanted
        OBVIOUS
      <4>2. AskedHolds(on, id, f)'
        BY <2>3, <3>1, <4>1, StillAsked DEF GalleryInv, AskedPart
      <4>3. req'[v].listed = on /\ req'[v].id = id /\ req'[v].wanted = f
        BY <2>2, <4>1
      <4> QED
        BY <4>2, <4>3
    <3>2. \A v \in Watchers : req'[v].pc # "rest" => req[v].pc # "rest"
      BY <1>1, <2>2
    <3> QED
      BY <3>1, <3>2 DEF AskedPart
  <2>5. ShownPart'
    BY <1>1, <2>3, StillHolds DEF GalleryInv, ShownPart
  <2>6. IndexPart'
    <3> DEFINE built == IndexOf(Seen(bad))
    <3>1. source \in {"volume", "camera"} /\ visit \in Visits
      BY DEF GalleryInv, StoragePart
    <3>2. \A id \in DOMAIN built : EntryMeans(unread' = 0, id, built[id])
      BY <2>1, <3>1, IndexMeans
    <3>3. index' = built
      BY <1>4
    <3> HIDE DEF built
    <3>4. IndexSound'
      BY <1>1, <3>2, <3>3 DEF IndexSound, EntryMeans, Means, SameClip
    <3> QED
      BY <3>4 DEF IndexPart
  <2> QED
    BY <1>2, <2>2, <2>3, <2>4, <2>5, <2>6 DEF GalleryInv
<1>5. CASE index # NoMedia
  BY <1>3, <1>5 DEF EnsureIndex
<1>6. CASE index = NoMedia
  BY <1>3, <1>4, <1>6 DEF EnsureIndex
<1> QED
  BY <1>5, <1>6

\* What is chosen for a request is what it wants, or the clip beside it.
LEMMA ResolveEffect ==
  ASSUME GalleryInv, NEW w \in Watchers, Resolve(w)
  PROVE  /\ RequestPart' /\ \A v \in Watchers \ {w} : req'[v] = req[v]
         /\ req[w].pc = "resolve"
         /\ \/ req'[w] = Resting
            \/ /\ req'[w].pc \in {"cached", "open"}
               /\ req'[w].op = req[w].op /\ req'[w].id = req[w].id /\ req'[w].wanted = req[w].wanted
               /\ req'[w].pc = "cached" => req'[w].file \in Videos
               /\ req'[w].listed = req[w].listed
               /\ req[w].listed = visit /\ (source = "camera" \/ unread = 0) =>
                    \/ req'[w].file = req[w].wanted
                    \/ /\ req[w].op = "preview" /\ req'[w].file.kind = "lrf"
                       /\ SameClip(req'[w].file, req[w].wanted)
<1>1. req \in [Watchers -> Requests] /\ req[w] \in Requests /\ req[w].pc = "resolve"
  BY DEF GalleryInv, RequestPart, Resolve
<1>2. CASE Missing(w)
  <2>1. Reply(w)
    BY <1>2 DEF Resolve
  <2> QED
    BY <1>1, <2>1, ReplyEffect DEF GalleryInv
<1>3. CASE ~Missing(w)
  <2> DEFINE e == index[req[w].id]
  <2> DEFINE f == Chosen(req[w].op, e)
  <2> DEFINE pc == IF source = "volume" /\ req[w].op = "thumbnail" /\ f.kind = "video"
                   THEN "cached" ELSE "open"
  <2> DEFINE r == [req[w] EXCEPT !.pc = pc, !.file = f]
  <2>1. req' = [req EXCEPT ![w].pc = pc, ![w].file = f]
    BY <1>3 DEF Resolve
  <2>2. req' = [req EXCEPT ![w] = r]
    BY <2>1
  <2>3. req[w].id \in DOMAIN index /\ f # NoMedia
    BY <1>3 DEF Missing
  <2>4. EntryMeans(unread = 0, req[w].id, e)
    BY <1>1, <2>3 DEF GalleryInv, IndexPart, IndexSound
  <2>5. f = e.file \/ (req[w].op = "preview" /\ f = e.proxy /\ e.proxy # NoMedia)
    BY <2>3 DEF Chosen
  <2>6. f \in MediaFiles
    BY <2>4, <2>5 DEF EntryMeans, Means
  <2>7. ASSUME req[w].listed = visit, source = "camera" \/ unread = 0 PROVE e.file = req[w].wanted
    <3>1. Means(unread = 0, req[w].id, req[w].wanted)
      BY <1>1, <2>7 DEF GalleryInv, AskedPart, AskedHolds
    <3>2. source \in {"camera", "volume"} /\ visit \in Visits
      BY DEF GalleryInv, StoragePart
    <3>3. Means(unread = 0, req[w].id, e.file)
      BY <2>4 DEF EntryMeans
    <3> DEFINE g == e.file
    <3> HIDE DEF e, f, pc, g
    <3>4. Means(unread = 0, req[w].id, g)
      BY <3>3 DEF g
    <3>5. ASSUME source = "camera" \/ (source = "volume" /\ unread = 0) PROVE g = req[w].wanted
      BY <3>1, <3>2, <3>4, <3>5, MeansOne
    <3> QED
      BY <2>7, <3>2, <3>5 DEF g
  <2>8. req[w].listed = visit /\ (source = "camera" \/ unread = 0) =>
          \/ f = req[w].wanted
          \/ req[w].op = "preview" /\ f.kind = "lrf" /\ SameClip(f, req[w].wanted)
    BY <2>4, <2>5, <2>7 DEF EntryMeans
  <2>9. pc \in {"cached", "open"} /\ (pc = "cached" => f \in Videos)
    BY <2>6 DEF Videos
  <2> HIDE DEF e, f, pc
  <2>10. r \in Requests /\ r.pc = pc /\ r.file = f /\ r.op = req[w].op /\ r.id = req[w].id
         /\ r.wanted = req[w].wanted /\ r.listed = req[w].listed
    BY <1>1, <2>6, <2>9 DEF Requests, Steps
  <2> HIDE DEF r
  <2>11. RequestPart' /\ req'[w] = r /\ \A v \in Watchers \ {w} : req'[v] = req[v]
    BY <1>1, <2>2, <2>10 DEF RequestPart
  <2> QED
    BY <1>1, <2>8, <2>9, <2>10, <2>11
<1> QED
  BY <1>2, <1>3

LEMMA ResolveInv ==
  ASSUME GalleryInv, NEW w \in Watchers, Resolve(w)
  PROVE  GalleryInv'
<1>1. UNCHANGED <<source, visit, stored, pulled, unread, index, shown>> /\ PosterPart'
  BY DEF Resolve, GalleryInv, PosterPart
<1>2. AskedHolds(req[w].listed, req[w].id, req[w].wanted)
  BY ResolveEffect DEF GalleryInv, AskedPart
<1> QED
  BY <1>1, <1>2, ResolveEffect, RequestMoves, RestingType DEF PosterSteps

\* The steps of videoPoster.
PosterMoves(w) ==
  \/ CachedPoster(w) \/ AcquirePoster(w) \/ RecheckPoster(w) \/ ExtractPoster(w)
  \/ StorePoster(w) \/ ReleasePoster(w)

LEMMA PosterStep ==
  ASSUME GalleryInv, NEW w \in Watchers, PosterMoves(w)
  PROVE  /\ GalleryInv'
         /\ req'[w] = Resting \/ (req'[w].file = req[w].file /\ req'[w].op = req[w].op
                                   /\ req'[w].wanted = req[w].wanted
                                   /\ req'[w].listed = req[w].listed)
         /\ \A v \in Watchers \ {w} : req'[v] = req[v]
<1> DEFINE Kept == /\ req'[w] = Resting \/ (req'[w].file = req[w].file /\ req'[w].op = req[w].op
                                             /\ req'[w].wanted = req[w].wanted
                                             /\ req'[w].listed = req[w].listed)
                   /\ \A v \in Watchers \ {w} : req'[v] = req[v]
<1>1. /\ UNCHANGED <<source, visit, stored, pulled, unread, index, shown>>
      /\ req[w].pc \in PosterSteps /\ req[w].file \in Videos
      /\ RequestPart /\ PosterPart
  BY DEF PosterMoves, CachedPoster, AcquirePoster, RecheckPoster, ExtractPoster, NoFFmpeg, Decode,
         StorePoster, ReleasePoster, PosterSteps, GalleryInv, VideoPart
\* The steps that only move the request.
<1>2. ASSUME PosterPart', Reply(w) \/ \E pc \in PosterSteps : To(w, pc) PROVE GalleryInv' /\ Kept
  <2>1. PosterSteps \subseteq Steps /\ "resolve" \notin PosterSteps /\ "rest" \notin PosterSteps
    BY DEF PosterSteps, Steps
  <2>2. Kept
    BY <1>1, <1>2, <2>1, ReplyEffect, ToEffect
  <2>3. GalleryInv'
    BY <1>1, <1>2, <2>1, OnlyMoves
  <2> QED
    BY <2>2, <2>3
<1>3. CASE CachedPoster(w) \/ RecheckPoster(w)
  <2>1. PosterPart'
    BY <1>1, <1>3 DEF CachedPoster, RecheckPoster, PosterPart
  <2>2. Reply(w) \/ \E pc \in PosterSteps : To(w, pc)
    BY <1>3 DEF CachedPoster, RecheckPoster, FromCache, PosterSteps
  <2> QED
    BY <1>2, <2>1, <2>2
<1>4. CASE AcquirePoster(w) \/ ReleasePoster(w)
  <2>1. PosterPart'
    BY <1>1, <1>4 DEF AcquirePoster, ReleasePoster, PosterPart
  <2>2. Reply(w) \/ \E pc \in PosterSteps : To(w, pc)
    BY <1>4 DEF AcquirePoster, ReleasePoster, PosterSteps
  <2> QED
    BY <1>2, <2>1, <2>2
<1>5. CASE StorePoster(w)
  <2>1. PosterPart'
    BY <1>1, <1>5 DEF StorePoster, PosterPart
  <2>2. \E pc \in PosterSteps : To(w, pc)
    BY <1>5 DEF StorePoster, PosterSteps
  <2> QED
    BY <1>2, <2>1, <2>2
<1>6. CASE ExtractPoster(w) /\ NoFFmpeg(w)
  <2>1. PosterPart'
    BY <1>1, <1>6 DEF ExtractPoster, NoFFmpeg, PosterPart
  <2>2. \E pc \in PosterSteps : To(w, pc)
    BY <1>6 DEF NoFFmpeg, PosterSteps
  <2> QED
    BY <1>2, <2>1, <2>2
<1>7. CASE ExtractPoster(w) /\ Decode(w)
  <2>1. PosterPart'
    BY <1>1, <1>7 DEF ExtractPoster, Decode, PosterPart
  <2>2. PICK made \in {FALSE, ~pulled} : req' = [req EXCEPT ![w].pc = "store", ![w].made = made]
    BY <1>7 DEF Decode
  <2> DEFINE r == [req[w] EXCEPT !.pc = "store", !.made = made]
  <2>3. made \in BOOLEAN
    BY DEF GalleryInv, StoragePart
  <2>4. req' = [req EXCEPT ![w] = r] /\ req \in [Watchers -> Requests] /\ req[w] \in Requests
    BY <1>1, <2>2 DEF RequestPart
  <2>5. r \in Requests /\ r.pc = "store" /\ r.file = req[w].file /\ r.op = req[w].op
        /\ r.id = req[w].id /\ r.wanted = req[w].wanted /\ r.listed = req[w].listed
    BY <2>3, <2>4 DEF Requests, Steps
  <2> HIDE DEF r
  <2>6. RequestPart' /\ req'[w] = r /\ \A v \in Watchers \ {w} : req'[v] = req[v]
    BY <2>4, <2>5 DEF RequestPart
  <2>7. AskedHolds(req[w].listed, req[w].id, req[w].wanted)
    BY <1>1 DEF GalleryInv, AskedPart, PosterSteps
  <2> QED
    BY <1>1, <2>1, <2>5, <2>6, <2>7, RequestMoves
<1> QED
  BY <1>3, <1>4, <1>5, <1>6, <1>7 DEF PosterMoves, ExtractPoster

LEMMA OpenStep ==
  ASSUME GalleryInv, NEW w \in Watchers, Open(w)
  PROVE  GalleryInv' /\ req'[w] = Resting /\ \A v \in Watchers \ {w} : req'[v] = req[v]
<1>1. UNCHANGED <<source, visit, stored, pulled, unread, index, shown>> /\ PosterPart'
      /\ req[w].pc # "rest" /\ Reply(w)
  BY DEF Open, GalleryInv, PosterPart
<1> QED
  BY <1>1, OnlyMoves, ReplyEffect DEF GalleryInv

LEMMA WorldStep ==
  ASSUME GalleryInv, Record \/ Pull \/ UNCHANGED galleryVars
  PROVE  GalleryInv' /\ Stays /\ UNCHANGED <<req, posters, sem, decoded>>
<1>1. UNCHANGED <<source, visit, unread, index, shown, req, posters, sem, decoded>>
  BY DEF Record, Pull, galleryVars
<1>2. StoragePart'
  BY GalleryAssumption DEF GalleryInv, StoragePart, Record, Pull, galleryVars
<1>3. PosterPart' /\ RequestPart' /\ VideoPart' /\ Stays
  BY <1>1 DEF GalleryInv, PosterPart, RequestPart, VideoPart, Stays, Record, Pull, galleryVars
<1>4. ShownPart' /\ AskedPart'
  BY <1>1, <1>3, StillHolds, StillReqs DEF GalleryInv, ShownPart
<1>5. IndexPart'
  BY <1>1, <1>3, StillEntryMeans DEF GalleryInv, IndexPart, IndexSound
<1> QED
  BY <1>1, <1>2, <1>3, <1>4, <1>5 DEF GalleryInv

\* The device is back: a new record, and pages of an earlier visit.
LEMMA ReturnStep ==
  ASSUME GalleryInv, Return
  PROVE  /\ GalleryInv' /\ \A w \in Watchers : req'[w] = Resting
         /\ sem' = {} /\ \A f \in Videos : decoded'[f] = 0
<1>1. req' = [w \in Watchers |-> Resting] /\ index' = NoMedia /\ sem' = {}
      /\ decoded' = [f \in Videos |-> 0] /\ posters' = [f \in Videos |-> "none"]
      /\ UNCHANGED <<source, shown>>
  BY DEF Return
<1>2. visit \in Nat /\ visit' = visit + 1 /\ visit' \in Visits
  BY GalleryAssumption DEF Return, GalleryInv, StoragePart, Visits
<1>3. StoragePart'
  <2>1. stored' \subseteq MediaFiles /\ pulled' \in BOOLEAN
    BY GalleryAssumption DEF Return
  <2>2. unread' = 0 /\ MaxUnread \in Nat
    BY GalleryAssumption DEF Return
  <2>3. unread' \in 0..MaxUnread
    BY <2>2
  <2> QED
    BY <1>1, <1>2, <2>1, <2>3 DEF GalleryInv, StoragePart
<1>4. PosterPart' /\ RequestPart'
  BY <1>1, RestingType DEF PosterPart, RequestPart, Videos
<1>5. \A w \in Watchers : req'[w] = Resting
  BY <1>1
<1>6. IndexPart' /\ AskedPart' /\ VideoPart'
  BY <1>1, <1>5, RestingType DEF IndexPart, AskedPart, VideoPart, PosterSteps
<1>7. ShownPart'
  <2>1. ASSUME NEW p, ScreenHolds(p) PROVE ScreenHolds(p)'
    <3>1. p.on \in 0..visit /\ p.on \in 0..visit' /\ p.on # visit'
      BY <1>2, <2>1 DEF ScreenHolds
    <3> QED
      BY <2>1, <3>1 DEF ScreenHolds, AskedHolds
  <2> QED
    BY <1>1, <2>1 DEF GalleryInv, ShownPart
<1> QED
  BY <1>1, <1>3, <1>4, <1>5, <1>6, <1>7 DEF GalleryInv

LEMMA GallerySteps ==
  ASSUME [GalleryNext]_galleryVars
  PROVE  \/ Record \/ Pull \/ UNCHANGED galleryVars \/ Return
         \/ \E w \in Watchers :
              \/ ListMedia(w) \/ AskMedia(w) \/ EnsureIndex(w) \/ Resolve(w) \/ Open(w)
              \/ PosterMoves(w)
BY DEF GalleryNext, ServeMedia, PosterMoves

LEMMA GalleryInvStep == GalleryInv /\ [GalleryNext]_galleryVars => GalleryInv'
BY GallerySteps, WorldStep, ReturnStep, ListMediaInv, AskMediaInv, EnsureIndexInv, ResolveInv,
   OpenStep, PosterStep

LEMMA GalleryInvInit == GalleryInit => GalleryInv
<1> SUFFICES ASSUME GalleryInit PROVE GalleryInv
  OBVIOUS
<1>1. StoragePart /\ PosterPart
  <2>1. stored \subseteq MediaFiles
    BY DEF GalleryInit
  <2>i. /\ source \in {"volume", "camera"} /\ visit = 0 /\ pulled = FALSE /\ unread = 0
        /\ MaxUnread \in Nat /\ MaxReturns \in Nat
    BY GalleryAssumption DEF GalleryInit
  <2>u. unread \in 0..MaxUnread /\ visit \in Visits
    BY <2>i DEF Visits
  <2>2. StoragePart
    BY <2>1, <2>i, <2>u, Zenon DEF StoragePart
  <2>3. PosterPart
    BY DEF GalleryInit, PosterPart
  <2> QED
    BY <2>2, <2>3
<1>2. /\ RequestPart /\ \A w \in Watchers : req[w].pc = "rest"
      /\ index = NoMedia
  BY RestingType DEF GalleryInit, RequestPart
<1>3. IndexPart /\ AskedPart /\ VideoPart
  BY <1>2 DEF IndexPart, AskedPart, VideoPart, PosterSteps
<1>4. ShownPart
  <2>1. PICK items : /\ shown = [w \in Watchers |-> Screen(items)]
                     /\ items = <<>> \/ items = Items(stored)
    BY DEF GalleryInit
  <2>2. \A i \in DOMAIN items : Means(unread = 0, items[i].id, items[i].file)
    <3>1. CASE items = <<>>
      BY <3>1
    <3>2. CASE items = Items(stored)
      BY <1>1, <3>2, ItemsMean DEF StoragePart
    <3> QED
      BY <2>1, <3>1, <3>2
  <2>3. visit = 0
    BY DEF GalleryInit
  <2>4. ScreenHolds(Screen(items))
    <3>1. Screen(items).on = visit /\ Screen(items).items = items
      BY DEF Screen
    <3> QED
      BY <2>2, <2>3, <3>1 DEF ScreenHolds, AskedHolds, Means
  <2> QED
    BY <2>1, <2>4 DEF ShownPart
<1> QED
  BY <1>1, <1>2, <1>3, <1>4 DEF GalleryInv

\* The variables have their types.
THEOREM GalleryTypes == GallerySpec => []GalleryTypeOK
<1>1. GalleryInv => GalleryTypeOK
  BY DEF GalleryInv, GalleryTypeOK, StoragePart, PosterPart, RequestPart, IndexPart, IndexSound,
         EntryMeans, Means
<1> QED
  BY <1>1, GalleryInvInit, GalleryInvStep, PTL DEF GallerySpec

-----------------------------------------------------------------------------
(* What is served, and what is decoded.                                     *)

\* What is sent for an item of a listing of this connection is that item or the proxy
\* clip beside it, whoever lists again before the request is resolved and whatever a
\* walk leaves out (scanMediaLocked, pathFor, mediaEntry, PreviewFilePath).
THEOREM IDsResolveAsListed == GallerySpec => []IdsKeepMeaning
<1>1. GalleryInit => IdsKeepMeaning
  <2> SUFFICES ASSUME GalleryInit, NEW w \in Watchers PROVE req[w].file = NoMedia
    BY DEF IdsKeepMeaning
  <2> QED
    BY RestingType DEF GalleryInit
<1>2. GalleryInv /\ IdsKeepMeaning /\ [GalleryNext]_galleryVars => IdsKeepMeaning'
  <2> SUFFICES ASSUME GalleryInv, IdsKeepMeaning, [GalleryNext]_galleryVars,
                      (source = "camera" \/ unread = 0)', NEW v \in Watchers,
                      (req[v].listed = visit)'
               PROVE  (\/ req[v].file \in {NoMedia, req[v].wanted}
                       \/ req[v].op = "preview" /\ req[v].file.kind = "lrf"
                          /\ SameClip(req[v].file, req[v].wanted))'
    BY DEF IdsKeepMeaning
  <2> DEFINE Sent(r) == \/ r.file \in {NoMedia, r.wanted}
                        \/ r.op = "preview" /\ r.file.kind = "lrf" /\ SameClip(r.file, r.wanted)
  <2> DEFINE Right(r) == r.listed = visit => Sent(r)
  <2>1. SUFFICES Sent(req'[v])
    BY DEF SameClip
  <2>4. Sent(Resting)
    BY RestingType
  <2>r. CASE Return
    BY <2>4, <2>r, ReturnStep
  <2> SUFFICES ASSUME ~Return PROVE Sent(req'[v])
    BY <2>r
  <2>2. (source = "camera" \/ unread = 0) /\ visit' = visit
    <3>1. \A bad \in WalkErrors : Walked(bad) /\ unread' = 0 => unread = 0
      BY WalkMeans DEF GalleryInv
    <3>2. source' = source /\ visit' = visit
          /\ (unread' = unread \/ \E bad \in WalkErrors : Walked(bad))
      BY GallerySteps DEF Record, Pull, galleryVars, ListMedia, AskMedia, EnsureIndex, Resolve,
         Open, PosterMoves, CachedPoster, AcquirePoster, RecheckPoster, ExtractPoster,
         StorePoster, ReleasePoster
    <3> QED
      BY <3>1, <3>2
  <2>s. SUFFICES Right(req'[v])
    BY <2>2
  <2>3. Right(req[v])
    BY <2>2 DEF IdsKeepMeaning
  <2>5. ASSUME UNCHANGED req PROVE Right(req'[v])
    BY <2>3, <2>5
  <2>6. ASSUME NEW w \in Watchers, AskMedia(w) PROVE Right(req'[v])
    BY <2>3, <2>6, AskMediaInv
  <2>7. ASSUME NEW w \in Watchers, EnsureIndex(w) PROVE Right(req'[v])
    <3>1. Reply(w) \/ To(w, "resolve")
      BY <2>7 DEF EnsureIndex
    <3> QED
      BY <2>3, <2>4, <3>1, ReplyEffect, ToEffect DEF GalleryInv, Steps
  <2>8. ASSUME NEW w \in Watchers, Resolve(w) PROVE Right(req'[v])
    BY <2>2, <2>3, <2>4, <2>8, ResolveEffect
  <2>9. ASSUME NEW w \in Watchers, Open(w) \/ PosterMoves(w) PROVE Right(req'[v])
    BY <2>3, <2>4, <2>9, OpenStep, PosterStep
  <2> HIDE DEF Right, Sent
  <2> QED
    BY <2>5, <2>6, <2>7, <2>8, <2>9, GallerySteps DEF Record, Pull, galleryVars, ListMedia
<1> QED
  BY <1>1, <1>2, GalleryInvInit, GalleryInvStep, PTL DEF GallerySpec

\* The place of posterSem is held by the requests that are at it, and by one at most.
Holding == {"recheck", "extract", "store", "release"}
OneHolds ==
  /\ sem = {w \in Watchers : req[w].pc \in Holding}
  /\ \A v, w \in sem : v = w

\* A video that ffmpeg is about to decode has no poster; and one it has decoded has
\* a poster, or will have when the request that decoded it stores it.
Fresh == \A w \in Watchers : req[w].pc = "extract" => posters[req[w].file] = "none"
Counted ==
  \A f \in Videos :
    \/ decoded[f] = 0
    \/ decoded[f] = 1 /\ (posters[f] # "none"
                          \/ \E w \in Watchers : req[w].pc = "store" /\ req[w].file = f)

DecodesOnce == OneHolds /\ Fresh /\ Counted

\* A step that neither stores nor counts, and moves no request to or from a poster.
LEMMA AwayFromPosters ==
  ASSUME GalleryInv, DecodesOnce, UNCHANGED <<posters, sem, decoded>>,
         \A w \in Watchers :
           req'[w] = req[w] \/ (req[w].pc \notin Holding /\ req'[w].pc \notin Holding)
  PROVE  DecodesOnce'
<1>1. \A w \in Watchers : req'[w].pc \in Holding <=> req[w].pc \in Holding
  OBVIOUS
<1>2. OneHolds'
  BY <1>1 DEF DecodesOnce, OneHolds
<1>3. "extract" \in Holding /\ "store" \in Holding
  BY DEF Holding
<1>4. Fresh'
  BY <1>3 DEF DecodesOnce, Fresh
<1>5. Counted'
  BY <1>3 DEF DecodesOnce, Counted, Videos
<1> QED
  BY <1>2, <1>4, <1>5 DEF DecodesOnce

\* The steps of the request that holds the place, or takes it.
LEMMA PosterOnceStep ==
  ASSUME GalleryInv, DecodesOnce, NEW w \in Watchers, PosterMoves(w)
  PROVE  DecodesOnce'
<1>0. /\ req \in [Watchers -> Requests] /\ req[w].file \in Videos
      /\ posters \in [Videos -> {"none", "poster", "failed"}]
      /\ decoded \in [Videos -> 0..2]
      /\ \A v \in Watchers \ {w} : req'[v] = req[v]
  BY PosterStep DEF GalleryInv, RequestPart, PosterPart, VideoPart, PosterMoves, CachedPoster,
     AcquirePoster, RecheckPoster, ExtractPoster, StorePoster, ReleasePoster, PosterSteps
<1>1. CASE CachedPoster(w)
  <2>1. req[w].pc = "cached" /\ UNCHANGED <<posters, sem, decoded>>
        /\ (Reply(w) \/ To(w, "acquire"))
    BY <1>1 DEF CachedPoster, FromCache
  <2>2. req'[w].pc \in {"rest", "acquire"}
    BY <2>1, ReplyEffect, ToEffect, RestingType DEF GalleryInv, Steps
  <2> QED
    BY <1>0, <2>1, <2>2, AwayFromPosters DEF Holding
<1>2. CASE AcquirePoster(w)
  <2>1. sem = {} /\ sem' = {w} /\ UNCHANGED <<posters, decoded>> /\ req[w].pc = "acquire"
        /\ To(w, "recheck")
    BY <1>2 DEF AcquirePoster
  <2>2. req'[w].pc = "recheck"
    BY <2>1, ToEffect DEF GalleryInv, Steps
  <2>3. OneHolds'
    BY <1>0, <2>1, <2>2 DEF DecodesOnce, OneHolds, Holding
  <2>4. Fresh'
    BY <1>0, <2>1, <2>2 DEF DecodesOnce, Fresh
  <2>5. Counted'
    BY <1>0, <2>1, <2>2 DEF DecodesOnce, Counted, Videos
  <2> QED
    BY <2>3, <2>4, <2>5 DEF DecodesOnce
\* The steps under the place: nobody else is there.
<1>h. ASSUME req[w].pc \in Holding PROVE \A v \in Watchers \ {w} : req[v].pc \notin Holding
  BY <1>h DEF DecodesOnce, OneHolds
<1>o. ASSUME req[w].pc \in Holding, sem' = sem, req'[w].pc \in Holding PROVE OneHolds'
  BY <1>0, <1>o DEF DecodesOnce, OneHolds
<1>3. CASE RecheckPoster(w)
  <2>1. /\ req[w].pc = "recheck" /\ UNCHANGED <<posters, sem, decoded>>
        /\ \/ To(w, "release")
           \/ To(w, "extract") /\ posters[req[w].file] = "none"
    BY <1>3 DEF RecheckPoster
  <2>2. /\ req'[w].file = req[w].file
        /\ \/ req'[w].pc = "release"
           \/ req'[w].pc = "extract" /\ posters[req[w].file] = "none"
    BY <2>1, ToEffect DEF GalleryInv, Steps
  <2>3. OneHolds'
    BY <1>o, <2>1, <2>2 DEF Holding
  <2>4. Fresh'
    BY <1>0, <2>1, <2>2 DEF DecodesOnce, Fresh
  <2>5. Counted'
    BY <1>0, <2>1, <2>2 DEF DecodesOnce, Counted, Videos
  <2> QED
    BY <2>3, <2>4, <2>5 DEF DecodesOnce
<1>4. CASE ExtractPoster(w) /\ NoFFmpeg(w)
  <2>1. req[w].pc = "extract" /\ UNCHANGED <<posters, sem, decoded>> /\ To(w, "release")
    BY <1>4 DEF ExtractPoster, NoFFmpeg
  <2>2. req'[w].pc = "release"
    BY <2>1, ToEffect DEF GalleryInv, Steps
  <2>3. OneHolds'
    BY <1>o, <2>1, <2>2 DEF Holding
  <2>4. Fresh'
    BY <1>0, <2>1, <2>2 DEF DecodesOnce, Fresh
  <2>5. Counted'
    BY <1>0, <2>1, <2>2 DEF DecodesOnce, Counted, Videos
  <2> QED
    BY <2>3, <2>4, <2>5 DEF DecodesOnce
<1>5. CASE ExtractPoster(w) /\ Decode(w)
  <2> DEFINE f == req[w].file
  <2>1. req[w].pc = "extract" /\ UNCHANGED <<posters, sem>>
        /\ decoded' = [decoded EXCEPT ![f] = IF @ = 2 THEN 2 ELSE @ + 1]
    BY <1>5 DEF ExtractPoster, Decode
  <2>2. req'[w].pc = "store" /\ req'[w].file = f
    <3>1. PICK made : req' = [req EXCEPT ![w].pc = "store", ![w].made = made]
      BY <1>5 DEF Decode
    <3> DEFINE r == [req[w] EXCEPT !.pc = "store", !.made = made]
    <3>2. req' = [req EXCEPT ![w] = r]
      BY <3>1
    <3>3. r.pc = "store" /\ r.file = f
      BY <1>0 DEF Requests
    <3> HIDE DEF r, f
    <3> QED
      BY <1>0, <3>2, <3>3
  <2>3. OneHolds'
    BY <1>o, <2>1, <2>2 DEF Holding
  <2>4. Fresh'
    BY <1>0, <2>1, <2>2 DEF DecodesOnce, Fresh
  <2>5. decoded[f] = 0
    <3>1. posters[f] = "none" /\ f \in Videos
      BY <1>0, <2>1 DEF DecodesOnce, Fresh
    <3>2. \A v \in Watchers : req[v].pc # "store"
      BY <1>h, <2>1 DEF Holding
    <3> QED
      BY <3>1, <3>2 DEF DecodesOnce, Counted
  <2>6. decoded'[f] = 1 /\ \A g \in Videos \ {f} : decoded'[g] = decoded[g]
    BY <1>0, <2>1, <2>5
  <2> HIDE DEF f
  <2>7. Counted'
    BY <1>0, <2>1, <2>2, <2>6 DEF DecodesOnce, Counted, Videos
  <2> QED
    BY <2>3, <2>4, <2>7 DEF DecodesOnce
<1>6. CASE StorePoster(w)
  <2> DEFINE f == req[w].file
  <2>1. /\ req[w].pc = "store" /\ UNCHANGED <<sem, decoded>> /\ To(w, "release")
        /\ posters' = [posters EXCEPT ![f] = IF req[w].made THEN "poster" ELSE "failed"]
    BY <1>6 DEF StorePoster
  <2>2. req'[w].pc = "release"
    BY <2>1, ToEffect DEF GalleryInv, Steps
  <2>3. posters'[f] # "none" /\ \A g \in Videos \ {f} : posters'[g] = posters[g]
    BY <1>0, <2>1
  <2>4. OneHolds'
    BY <1>o, <2>1, <2>2 DEF Holding
  <2>5. Fresh'
    <3>1. \A v \in Watchers : req'[v].pc # "extract"
      BY <1>0, <1>h, <2>1, <2>2 DEF Holding
    <3> QED
      BY <3>1 DEF Fresh
  <2>6. Counted'
    <3>1. ASSUME NEW g \in Videos, g # f, decoded[g] # 0
          PROVE  decoded[g] = 1 /\ (posters'[g] # "none"
                   \/ \E v \in Watchers : req'[v].pc = "store" /\ req'[v].file = g)
      BY <1>0, <2>3, <3>1 DEF DecodesOnce, Counted
    <3>2. decoded[f] = 0 \/ decoded[f] = 1
      BY <1>0 DEF DecodesOnce, Counted
    <3> HIDE DEF f
    <3> QED
      BY <2>1, <2>3, <3>1, <3>2 DEF Counted, Videos
  <2> QED
    BY <2>4, <2>5, <2>6 DEF DecodesOnce
<1>7. CASE ReleasePoster(w)
  <2>1. /\ req[w].pc = "release" /\ sem' = sem \ {w} /\ UNCHANGED <<posters, decoded>>
        /\ Reply(w)
    BY <1>7 DEF ReleasePoster
  <2>2. req'[w].pc = "rest"
    BY <2>1, ReplyEffect, RestingType DEF GalleryInv
  <2>3. OneHolds'
    BY <1>0, <2>1, <2>2 DEF DecodesOnce, OneHolds, Holding
  <2>4. Fresh'
    BY <1>0, <2>1, <2>2 DEF DecodesOnce, Fresh
  <2>5. Counted'
    BY <1>0, <2>1, <2>2 DEF DecodesOnce, Counted, Videos
  <2> QED
    BY <2>3, <2>4, <2>5 DEF DecodesOnce
<1> QED
  BY <1>1, <1>2, <1>3, <1>4, <1>5, <1>6, <1>7 DEF PosterMoves, ExtractPoster

LEMMA DecodesOnceStep ==
  ASSUME GalleryInv, DecodesOnce, [GalleryNext]_galleryVars
  PROVE  DecodesOnce'
<1>1. CASE Record \/ Pull \/ UNCHANGED galleryVars
  BY <1>1, WorldStep, AwayFromPosters
<1>r. CASE Return
  <2>1. /\ \A w \in Watchers : req'[w].pc = "rest"
        /\ sem' = {} /\ \A f \in Videos : decoded'[f] = 0
    BY <1>r, ReturnStep, RestingType
  <2> QED
    BY <2>1 DEF DecodesOnce, OneHolds, Fresh, Counted, Holding, Videos
<1>2. ASSUME NEW w \in Watchers, ListMedia(w) PROVE DecodesOnce'
  BY <1>2, AwayFromPosters DEF ListMedia
<1>3. ASSUME NEW w \in Watchers, AskMedia(w) PROVE DecodesOnce'
  <2>1. req[w].pc = "rest" /\ UNCHANGED <<posters, sem, decoded>>
    BY <1>3 DEF AskMedia
  <2>2. req'[w].pc = "ensure"
    BY <1>3 DEF AskMedia, GalleryInv, RequestPart, Resting
  <2> QED
    BY <1>3, <2>1, <2>2, AskMediaInv, AwayFromPosters DEF Holding
<1>4. ASSUME NEW w \in Watchers, EnsureIndex(w) PROVE DecodesOnce'
  <2>1. req[w].pc = "ensure" /\ UNCHANGED <<posters, sem, decoded>>
        /\ (Reply(w) \/ To(w, "resolve"))
    BY <1>4 DEF EnsureIndex
  <2>2. req'[w].pc \in {"rest", "resolve"} /\ \A v \in Watchers \ {w} : req'[v] = req[v]
    BY <2>1, ReplyEffect, ToEffect, RestingType DEF GalleryInv, Steps
  <2> QED
    BY <2>1, <2>2, AwayFromPosters DEF Holding
<1>5. ASSUME NEW w \in Watchers, Resolve(w) PROVE DecodesOnce'
  <2>1. UNCHANGED <<posters, sem, decoded>>
    BY <1>5 DEF Resolve
  <2> QED
    BY <1>5, <2>1, ResolveEffect, RestingType, AwayFromPosters DEF Holding
<1>6. ASSUME NEW w \in Watchers, Open(w) PROVE DecodesOnce'
  <2>1. UNCHANGED <<posters, sem, decoded>> /\ req[w].pc = "open"
    BY <1>6 DEF Open
  <2> QED
    BY <1>6, <2>1, OpenStep, RestingType, AwayFromPosters DEF Holding
<1> QED
  BY <1>1, <1>r, <1>2, <1>3, <1>4, <1>5, <1>6, PosterOnceStep, GallerySteps

\* ffmpeg decodes a video at most once in the life of the record, however many
\* requests meet at it, and no way out of videoPoster keeps the place of posterSem.
THEOREM DecodedOnce == GallerySpec => []PosterOnce
<1>1. GalleryInit => DecodesOnce
  <2> SUFFICES ASSUME GalleryInit PROVE DecodesOnce
    OBVIOUS
  <2>1. (\A w \in Watchers : req[w].pc = "rest") /\ sem = {} /\ \A f \in Videos : decoded[f] = 0
    BY RestingType DEF GalleryInit
  <2> QED
    BY <2>1 DEF DecodesOnce, OneHolds, Fresh, Counted, Holding
<1>2. DecodesOnce => PosterOnce
  BY DEF DecodesOnce, OneHolds, Counted, PosterOnce, Holding
<1>3. GalleryInv /\ DecodesOnce /\ [GalleryNext]_galleryVars => GalleryInv' /\ DecodesOnce'
  BY GalleryInvStep, DecodesOnceStep
<1> QED
  BY <1>1, <1>2, <1>3, GalleryInvInit, PTL DEF GallerySpec

=============================================================================
