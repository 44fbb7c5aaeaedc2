------------------------------ MODULE Gallery ------------------------------
(* The media gallery of one device: a card in a reader ("volume",            *)
(* internal/device/massstorage_controller.go) or a camera spoken to over MTP *)
(* ("camera", internal/device/mtp_controller.go), with the registry's        *)
(* wrappers (detector.go:702-772) and the handlers (handlers_media.go).      *)
(*                                                                           *)
(* A listing walks the storage and rebuilds the index the other requests     *)
(* resolve their IDs in. The card numbers its files by their place in the    *)
(* listing; the camera uses the MTP object IDs, which do not survive a       *)
(* reconnect (handlers_media.go:149-152). Posters of videos on a card are    *)
(* made by ffmpeg, one at a time, and kept, failures included.               *)
EXTENDS Naturals, FiniteSets, Sequences

CONSTANTS
    Watchers,      \* browsers looking at the gallery
    MediaFiles,    \* the files the storage may hold: see MediaFile
    Recorded,      \* those of them a camera takes while it is connected, and
                   \* that are taken or deleted while the device is away
    MaxUnread,     \* how many walks of a connection meet a folder they cannot read
    MaxReturns,    \* how often the device comes back
    NoMedia        \* no file, no index

(* A file: its MTP object ID on each connection, its place in the walk, its  *)
(* folder, its name without the extension, what the extension makes it, and  *)
(* when it was taken.                                                        *)
Visits == 0..MaxReturns

MediaFile(f) ==
    /\ f.object \in [Visits -> Nat]
    /\ {f.walk, f.taken} \subseteq Nat
    /\ f.kind \in {"photo", "video", "lrf", ""}

ASSUME GalleryAssumption ==
    /\ IsFiniteSet(MediaFiles)
    /\ \A f \in MediaFiles : MediaFile(f)
    /\ \A f, g \in MediaFiles : f.walk = g.walk => f = g
    /\ \A f, g \in MediaFiles : \A n \in Visits : f.object[n] = g.object[n] => f = g
    /\ Recorded \subseteq MediaFiles
    /\ MaxUnread \in Nat /\ MaxReturns \in Nat

VARIABLES
    source,      \* which of the two controllers this is
    visit,        \* the connection: how often the device has come back
    stored,      \* the files on the storage
    pulled,      \* the card or the camera is gone
    unread,      \* walks of this connection that met an unreadable folder
    index,       \* mediaByID and lrfByVideo: id -> [file, proxy]
    shown,       \* what each browser was last listed: items, and on which connection
    req,         \* what each browser is asking for
    posters,     \* posterCache, by video
    sem,         \* posterSem: the requests that hold its one place
    decoded      \* history: times ffmpeg was run on a video, up to 2

galleryVars ==
    <<source, visit, stored, pulled, unread, index, shown, req, posters, sem, decoded>>

-----------------------------------------------------------------------------
(* The index.                                                                *)

Videos == {f \in MediaFiles : f.kind = "video"}
Folders == {f.folder : f \in MediaFiles}

(* The proxy clip of a video is the .LRF of its name in its own folder.      *)
SameClip(f, g) == f.folder = g.folder /\ f.stem = g.stem
BugSameClip(f, g) == f.stem = g.stem
ProxyKey(f, g) == SameClip(f, g)

ProxiesOf(files, f) ==
    {g \in files : f.kind = "video" /\ g.kind = "lrf" /\ ProxyKey(f, g)}

Media(files) == {f \in files : f.kind \in {"photo", "video"}}

(* Newest first; the sort is stable, so equal times stay in walk order. The  *)
(* place of an item is one more than the number of items that come before it.*)
Before(f, g) == f.taken > g.taken \/ (f.taken = g.taken /\ f.walk < g.walk)

Place(files, f) == 1 + Cardinality({g \in Media(files) : Before(g, f)})

NewestFirst(files) ==
    [i \in {Place(files, f) : f \in Media(files)} |->
        CHOOSE f \in Media(files) : Place(files, f) = i]

BugPlaceIsID(list, i) == i
MediaID(list, i) == IF source = "volume" THEN i ELSE list[i].object[visit]

(* scanLocked / scanMediaLocked: the listing, and the index behind it.       *)
Items(files) ==
    LET list == NewestFirst(files)
    IN  [i \in DOMAIN list |-> [id |-> MediaID(list, i), file |-> list[i]]]

IndexOf(files) ==
    LET items == Items(files)
    IN  [id \in {items[i].id : i \in DOMAIN items} |->
            LET f == items[CHOOSE i \in DOMAIN items : items[i].id = id].file
            IN  [file |-> f,
                 proxy |-> IF ProxiesOf(files, f) = {} THEN NoMedia
                           ELSE CHOOSE g \in ProxiesOf(files, f) : TRUE]]

(* What a walk meets: an entry that cannot be read is skipped, by WalkDir    *)
(* on a card, and on a camera because libmtp answers an empty listing without*)
(* an error (internal/mtp/client_linux.go:197-200); so the device that is    *)
(* gone lists as empty, until a Refresh has dropped its record and closed its*)
(* handle: from then on every request is refused.                            *)
WalkErrors == IF unread < MaxUnread THEN SUBSET Folders ELSE {{}}
Seen(bad) == IF pulled THEN {} ELSE {f \in stored : f.folder \notin bad}
Refused == pulled
Walked(bad) == unread' = unread + (IF bad = {} THEN 0 ELSE 1)

-----------------------------------------------------------------------------
(* Requests. A resting browser is Resting.                                   *)

Resting == [pc |-> "rest", op |-> "", id |-> 0, wanted |-> NoMedia, listed |-> 0,
            file |-> NoMedia, made |-> FALSE]

Steps == {"rest", "ensure", "resolve", "open", "cached", "acquire",
          "recheck", "extract", "store", "release"}

Requests ==
    [pc : Steps, op : {"", "thumbnail", "preview", "download"}, id : Nat,
     wanted : MediaFiles \cup {NoMedia}, listed : Visits,
     file : MediaFiles \cup {NoMedia}, made : BOOLEAN]

Screen(items) == [on |-> visit, items |-> items]

GalleryInit ==
    /\ source \in {"volume", "camera"}
    /\ stored = IF source = "volume" THEN MediaFiles ELSE MediaFiles \ Recorded
    /\ visit = 0 /\ pulled = FALSE /\ unread = 0
    /\ index = NoMedia
    /\ \/ shown = [w \in Watchers |-> Screen(<<>>)]
       \/ shown = [w \in Watchers |-> Screen(Items(stored))]  \* before a restart
    /\ req = [w \in Watchers |-> Resting]
    /\ posters = [f \in Videos |-> "none"]
    /\ sem = {}
    /\ decoded = [f \in Videos |-> 0]

(* The storage itself: a file is taken, the card or the camera is pulled.    *)
Record ==
    /\ source = "camera" /\ ~pulled
    /\ \E f \in Recorded \ stored : stored' = stored \cup {f}
    /\ UNCHANGED <<source, visit, pulled, unread, index, shown, req, posters, sem, decoded>>

Pull ==
    /\ ~pulled
    /\ pulled' = TRUE
    /\ UNCHANGED <<source, visit, stored, unread, index, shown, req, posters, sem, decoded>>

(* It is back, with other files perhaps, after a Refresh that missed it: the *)
(* record and the controller are new ones, with no index and no posters. What*)
(* the old controller still serves it serves from a closed handle, or from   *)
(* the paths it has found: no more is said of it. The pages are as they were.*)
Return ==
    /\ pulled /\ visit < MaxReturns
    /\ visit' = visit + 1 /\ pulled' = FALSE /\ unread' = 0
    /\ \E files \in SUBSET Recorded : stored' = (MediaFiles \ Recorded) \cup files
    /\ index' = NoMedia
    /\ req' = [w \in Watchers |-> Resting]
    /\ posters' = [f \in Videos |-> "none"]
    /\ sem' = {}
    /\ decoded' = [f \in Videos |-> 0]
    /\ UNCHANGED <<source, shown>>

(* GET /media: the whole scan runs under the index's lock. An item that is   *)
(* open in the lightbox stays on the page when the listing fails.            *)
ListMedia(w) ==
    /\ req[w].pc = "rest"
    /\ \/ Refused /\ UNCHANGED <<unread, index, shown>>
       \/ \E bad \in WalkErrors :
            /\ Walked(bad)
            /\ index' = IndexOf(Seen(bad))
            /\ shown' = [shown EXCEPT ![w] = Screen(Items(Seen(bad)))]
    /\ UNCHANGED <<source, visit, stored, pulled, req, posters, sem, decoded>>

(* GET /media/{id}, .../thumbnail, .../preview for an item of the listing on *)
(* the screen; the registry looks the device up first.                       *)
Offers(item) ==
    {"thumbnail", "download"} \cup
    (IF item.file.kind = "video" THEN {"preview"} ELSE {})

AskMedia(w) ==
    /\ req[w].pc = "rest"
    /\ \E i \in DOMAIN shown[w].items : \E op \in Offers(shown[w].items[i]) :
        req' = [req EXCEPT ![w] = [Resting EXCEPT !.pc = "ensure", !.op = op,
                                      !.id = shown[w].items[i].id,
                                      !.wanted = shown[w].items[i].file,
                                      !.listed = shown[w].on]]
    /\ UNCHANGED <<source, visit, stored, pulled, unread, index, shown, posters, sem, decoded>>

Reply(w) == req' = [req EXCEPT ![w] = Resting]
To(w, pc) == req' = [req EXCEPT ![w].pc = pc]

(* ensureIndex / ensureMediaIndex, in a critical section of its own.         *)
EnsureIndex(w) ==
    /\ req[w].pc = "ensure"
    /\ IF index # NoMedia
       THEN To(w, "resolve") /\ UNCHANGED <<index, unread>>
       ELSE \/ Refused /\ Reply(w) /\ UNCHANGED <<index, unread>>
            \/ \E bad \in WalkErrors :
                /\ Walked(bad)
                /\ To(w, "resolve") /\ index' = IndexOf(Seen(bad))
    /\ UNCHANGED <<source, visit, stored, pulled, shown, posters, sem, decoded>>

(* pathFor / mediaEntry / PreviewFilePath: the ID against the index of now.  *)
Chosen(op, entry) ==
    IF op # "preview" THEN entry.file
    ELSE IF entry.proxy # NoMedia THEN entry.proxy
    ELSE IF source = "volume" THEN entry.file ELSE NoMedia

Missing(w) ==
    \/ req[w].id \notin DOMAIN index
    \/ Chosen(req[w].op, index[req[w].id]) = NoMedia
    \/ req[w].op = "preview" /\ index[req[w].id].file.kind # "video"

Resolve(w) ==
    /\ req[w].pc = "resolve"
    /\ IF Missing(w)
       THEN Reply(w)
       ELSE LET f == Chosen(req[w].op, index[req[w].id])
                poster == source = "volume" /\ req[w].op = "thumbnail" /\ f.kind = "video"
            IN  req' = [req EXCEPT ![w].pc = IF poster THEN "cached" ELSE "open",
                                   ![w].file = f]
    /\ UNCHANGED <<source, visit, stored, pulled, unread, index, shown, posters, sem, decoded>>

(* The file is opened and sent, or a thumbnail is looked for (the device's   *)
(* own or the one inside a photo), or a pulled card fails the read: whichever*)
(* it is, the request is over.                                               *)
Open(w) ==
    /\ req[w].pc = "open"
    /\ Reply(w)
    /\ UNCHANGED <<source, visit, stored, pulled, unread, index, shown, posters, sem, decoded>>

-----------------------------------------------------------------------------
(* videoPoster.                                                              *)

FromCache(w, next) ==
    IF posters[req[w].file] = "none" THEN To(w, next) ELSE Reply(w)

CachedPoster(w) ==
    /\ req[w].pc = "cached"
    /\ FromCache(w, "acquire")
    /\ UNCHANGED <<source, visit, stored, pulled, unread, index, shown, posters, sem, decoded>>

AcquirePoster(w) ==
    /\ req[w].pc = "acquire" /\ sem = {}
    /\ sem' = {w}
    /\ To(w, "recheck")
    /\ UNCHANGED <<source, visit, stored, pulled, unread, index, shown, posters, decoded>>

(* Another request may have made it while this one waited.                   *)
BugNoRecheck(w) ==
    /\ req[w].pc = "recheck"
    /\ To(w, "extract")
    /\ UNCHANGED <<source, visit, stored, pulled, unread, index, shown, posters, sem, decoded>>

RecheckPoster(w) ==
    /\ req[w].pc = "recheck"
    /\ IF posters[req[w].file] = "none"
       THEN To(w, "extract")
       ELSE To(w, "release")
    /\ UNCHANGED <<source, visit, stored, pulled, unread, index, shown, posters, sem, decoded>>

(* extractPoster: ffmpeg is not installed (yet), which is not kept; or it    *)
(* makes one frame; or it fails (a clip it cannot read, the 45 s limit, a    *)
(* card that is out).                                                        *)
NoFFmpeg(w) ==
    /\ To(w, "release")
    /\ UNCHANGED decoded

Decode(w) ==
    /\ decoded' = [decoded EXCEPT ![req[w].file] = IF @ = 2 THEN 2 ELSE @ + 1]
    /\ \E made \in {FALSE, ~pulled} :
        req' = [req EXCEPT ![w].pc = "store", ![w].made = made]

ExtractPoster(w) ==
    /\ req[w].pc = "extract"
    /\ NoFFmpeg(w) \/ Decode(w)
    /\ UNCHANGED <<source, visit, stored, pulled, unread, index, shown, posters, sem>>

(* A failure is kept as a nil poster.                                        *)
BugKeepsNoFailure(w) ==
    /\ req[w].pc = "store"
    /\ posters' = [posters EXCEPT ![req[w].file] =
                      IF req[w].made THEN "poster" ELSE @]
    /\ To(w, "release")
    /\ UNCHANGED <<source, visit, stored, pulled, unread, index, shown, sem, decoded>>

StorePoster(w) ==
    /\ req[w].pc = "store"
    /\ posters' = [posters EXCEPT ![req[w].file] =
                      IF req[w].made THEN "poster" ELSE "failed"]
    /\ To(w, "release")
    /\ UNCHANGED <<source, visit, stored, pulled, unread, index, shown, sem, decoded>>

(* The deferred receive gives the place back on every path out.              *)
BugHoldsOnFailure(w) ==
    /\ req[w].pc = "release"
    /\ sem' = IF req[w].made THEN sem \ {w} ELSE sem
    /\ Reply(w)
    /\ UNCHANGED <<source, visit, stored, pulled, unread, index, shown, posters, decoded>>

ReleasePoster(w) ==
    /\ req[w].pc = "release"
    /\ sem' = sem \ {w}
    /\ Reply(w)
    /\ UNCHANGED <<source, visit, stored, pulled, unread, index, shown, posters, decoded>>

-----------------------------------------------------------------------------

ServeMedia(w) ==
    \/ EnsureIndex(w) \/ Resolve(w) \/ Open(w)
    \/ CachedPoster(w) \/ RecheckPoster(w) \/ ExtractPoster(w)
    \/ StorePoster(w) \/ ReleasePoster(w)

GalleryNext ==
    \/ Record \/ Pull \/ Return
    \/ \E w \in Watchers :
        ListMedia(w) \/ AskMedia(w) \/ ServeMedia(w) \/ AcquirePoster(w)

GallerySpec == GalleryInit /\ [][GalleryNext]_galleryVars

-----------------------------------------------------------------------------

GalleryTypeOK ==
    /\ source \in {"volume", "camera"} /\ visit \in Visits /\ pulled \in BOOLEAN
    /\ stored \subseteq MediaFiles /\ unread \in 0..MaxUnread
    /\ index # NoMedia =>
        \A id \in DOMAIN index :
            index[id].file \in MediaFiles /\ index[id].proxy \in MediaFiles \cup {NoMedia}
    /\ req \in [Watchers -> Requests]
    /\ posters \in [Videos -> {"none", "poster", "failed"}]
    /\ sem \subseteq Watchers
    /\ decoded \in [Videos -> 0..2]

(* What is sent for an item that was listed on this connection is that item, *)
(* however often the gallery was listed again, by whomever and with whatever *)
(* folders left out, before the request was served: the file itself, or a    *)
(* clip of the same name in the same folder; or nothing is sent. On a card   *)
(* this needs every walk of the connection to have read every folder: its IDs*)
(* are places in the listing, and a folder that is skipped moves them. Of an *)
(* item that an earlier connection listed nothing is said: its ID may mean   *)
(* another file now.                                                         *)
IdsKeepMeaning ==
    source = "camera" \/ unread = 0 =>
        \A w \in Watchers : req[w].listed = visit =>
            \/ req[w].file \in {NoMedia, req[w].wanted}
            \/ req[w].op = "preview" /\ req[w].file.kind = "lrf"
               /\ SameClip(req[w].file, req[w].wanted)

(* ffmpeg decodes a video at most once in the life of the record, whether it *)
(* succeeded or not and however many requests met; and the one place of      *)
(* posterSem is held by exactly the request that is at it, so no way out of  *)
(* videoPoster keeps it (massstorage_controller.go:272-277).                 *)
PosterOnce ==
    /\ \A f \in Videos : decoded[f] <= 1
    /\ sem = {w \in Watchers :
                req[w].pc \in {"recheck", "extract", "store", "release"}}
=============================================================================
