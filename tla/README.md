# Verification of kam-transfer

`kam-transfer` is a daemon that pushes waypoint missions to DJI controllers and
browses the media of cameras and drones. It talks to them over MTP (libmtp, the
path of the DJI RC 2), over ADB and over USB Mass Storage (card readers), and
serves an HTTP API, a WebSocket and a web UI. This directory holds TLA+
specifications of it, their TLC configurations and machine-checked proofs.

Run inside this directory, for example:

    tlc -workers 2 -config slots.cfg MCSlotTransfer.tla
    tlapm SlotTransferProofs.tla

## 1. The system

Paths are relative to `src/`.

| part | state it keeps | operations | hard because |
|---|---|---|---|
| device registry, `internal/device/detector.go` | `devices`, `openMTP`, `mtpControllers`, `msVolumes` under one RW mutex | `Refresh`, `List`, `Lookup`, slot operations, `Watch` | `Refresh` works on two transports under the lock; classify walks, handle closes and API requests run beside it without the lock |
| MTP controller, `mtp_controller.go` | verdict of the classify walk, the folders it found | `classify`, `ListSlots`, `WriteKMZ`, `WritePreview`, `ReadKMZ`, `ClearSlot`, `WriteWaypointImages`, media | each operation is many libmtp calls; the mutex is released between any two |
| libmtp handles, `internal/mtp` | the open `LIBMTP_mtpdevice_t` | open, close, ping, list, get, put, delete | one process claims a device; a handle dies with its connection, a closed one is nil |
| ADB, `internal/adb`, `detector.go` 1171-1297 | adb-server connection | list, watch, push, shell | the watcher dies with the server; a push spools to a file of the host and then writes over the remote KMZ, and the error of closing it is dropped |
| Mass Storage, `internal/blockdev`, `massstorage_controller.go`, `probe.go` | mounts, media index | scan, mount, unmount, list | cards come and go; mounts outlive a crash; media IDs are renumbered |
| per-slot stores, `internal/names`, `slotorder`, `managed` | map in memory and a JSON file | get, set, flush | memory changes first, the flush may fail |
| API server, `internal/api` | WebSocket subscribers, media cache, transfer counter | handlers, `pumpDeviceEvents`, `keepDevicesFresh`, `broadcast` | concurrent requests on the same slot, slow clients |
| web UI, `internal/api/web/static/app.js` | selected device and slot | loads and transfers | answers arrive out of order |
| front panel, `internal/display` | page, backlight, idle clock, last activity | event, ticker and button loop; the button poller | a second reader of `Watch`; button events wait and are dropped; a draw reads the daemon's state first and paints later |
| media, `massstorage_controller.go`, `mtp_controller.go`, `poster.go`, `handlers_media.go` | index of each device, posters and their semaphore, cache of pulled previews | list, thumbnail, preview, download, purge | IDs outlive the listing that gave them; pulls overlap purges, reconnects and crashes; a failure is remembered |
| preview, `internal/preview` | none that outlives a call | tiles, markers, fallback | rounding and edges; a fetch that fails half way |
| KMZ, `internal/kmz` | none that outlives a call | extract, rewrite, placeholder | several entries may hold the mission; XML is read token by token |
| command line, configuration, library | none that outlives a call | | |

How they interact: HTTP handlers call the registry, which refreshes, looks a
controller up under the read lock, and uses it after the lock is released. The
controller calls libmtp under `Device.mu`, one call at a time. Background walks
report on the registry's event bus; `Watch` merges that bus, two pollers and
the adb watcher into a channel; the API server and the front panel read one
such channel each; the server broadcasts to WebSocket clients, which fetch the
device list again.

What makes each part correct:

- registry: maps agree with each other and with what is plugged in; no handle
  leaks, is closed twice or used after its close; the verdict on a device is
  right though it was computed without a lock; a request always ends.
- slot operations: a mission is never lost without someone being told; an
  answer is true of mission, name and preview; a failure never pretends.
- events: told in turns, not lost where it matters, to everyone who listens, and
  shut down without a panic.
- stores: what a caller was told is saved is what the next run loads, whatever
  crashed or failed; the file can always be loaded.
- slot listing: every slot, with a name and flag it had while the listing ran, in
  one saved order; a picture that is not older than the listing.
- photos of a mission: a folder that says what the mission says, or no index.
- media: an ID keeps meaning the file it was listed for; what is served is whole
  and of this connection's run; a video is decoded once.
- front panel: nobody acts on a screen that was not drawn; changes light it; it ends
  up showing the last change, and dark when nothing happens; closing it ends.
- pictures of a mission: of one piece, with every waypoint on it.
- mission files: the waypoints of the entry that counts, each with its actions.

The hazards, each at its line, are listed in `PROJECT.json`.

## 2. Modules

| module | models | kind |
|---|---|---|
| `MassStorage` | volumes, their records, our mounts | part of `Registry` |
| `Registry` | `Refresh`, handles, classify walks, close goroutines, requests, crash and restart | detailed |
| `MCRegistry` | constants for TLC | instance |
| `MCRegistryScenes` | the scenes of run `registry_mixed` | instance |
| `RegistryProofs` | proofs about `Registry` | proofs |
| `SlotPromise` | what slot operations promise a client | abstract |
| `SlotTransfer` | transfer, clear, preview regeneration, one libmtp call per action | implements `SlotPromise` |
| `MCSlotTransfer` | constants for TLC | instance |
| `SlotTransferProofs` | proofs about `SlotTransfer`, and the refinement | proofs |
| `Events` | `Watch`, bus, pump, broadcast, WebSocket handler, the pages' lists | detailed |
| `MCEvents` | constants for TLC | instance |
| `MCEventsScenes` | the scenes of run `events` | instance |
| `EventsProofs` | proofs about `Events` | proofs |
| `SidecarStore` | the three per-slot stores: map, temporary file, rename | detailed |
| `MCSidecarStore` | constants for TLC | instance |
| `SidecarStoreProofs` | proofs about `SidecarStore` | proofs |
| `FrontPanel` | the screen loop and the button poller | part of `Host` |
| `FrontPanelProofs` | proofs about `FrontPanel` | proofs |
| `PreviewCache` | the files of pulled previews, their requests and their purge | part of `Host` |
| `PreviewCacheProofs` | proofs about `PreviewCache` | proofs |
| `Gallery` | listings, media IDs, requests for media, posters | part of `Host` |
| `GalleryProofs` | proofs about `Gallery` | proofs |
| `SlotList` | a listing of slots amid changes, and the page that shows it | part of `Host` |
| `ShotImages` | the `image/` folder of a slot under overlapping requests | part of `Host` |
| `MapFrame` | zoom, tiles, markers and fallback of a picture | part of `Host` |
| `KmzMission` | reading a mission out of a KMZ file | part of `Host` |
| `Host` | those seven and `SidecarStore` | composition |
| `MCHost` | constants for TLC | instance |
| `HostProofs` | proofs about `ShotImages`, `KmzMission`, `SlotList` and `MapFrame`, and about the parts together | proofs |

Operators whose name starts with `Bug` are plausible mistakes in the definition
below them. They are used by nothing; putting one in the place of that definition
makes a property fail, which shows that the property sees the code.

### Registry and MassStorage

State variables carry the names of the Go fields. A `Refresh` holds `lock` and
is cut where it can block on USB: `RefreshBegin` (lock, ADB devices),
`RefreshList` (the raw MTP list), one `Visit...` per raw device (keep, stale,
open, open fails), `RefreshSweep` (drop what was not seen, hide ADB shadows) and
`RefreshScan` (block devices). `CloseStale(h)` is the goroutine that closes a
dropped handle. `Walk...(h)` is `classify`, one action per libmtp call
(`WalkPreview` is the search for `map_preview`, whose result the verdict does not
depend on), with the daemon's death when `lookupPath` dereferences a closed device
(`WalkCrash`). Each of these calls may fail (`CallFails`), bounded by `MaxFaults`
while the connection lives: `listDir` and `listStorages` then answer an empty list
and no error, and the walk goes on as if nothing were there. `missed` is a history
field: a call of this walk failed. Only a handle that is closed refuses a call with
an error (`CallRefused`). `Request...(r)` is an API request: refresh, lookup, start
the walk if nobody has (`awaitLocate`), wait for it, use the controller. `Plug`,
`Unplug`, `ADBChange`, `InsertVolume`, `EjectVolume` are the environment; a device
gets a new USB number at every plug. Abstracted: folder contents to three marks
(`android`, `waypoint`, `dcim`) per storage; what a request does with its controller
to one action (module `SlotTransfer` has the calls).

A device may be on both transports: `ADBSerials` and `MTPSerials` say under which
serials, `Hardware` which of them are one device. An MTP entry overwrites an ADB one
of the same serial (`Serving`), and any open MTP device hides every ADB entry that
is not authorized, as in the code. The comments say otherwise of both: see run
`registry_unauthorized` and "Seen while reading" below.

`FastReplug` says whether a device may be back before a `Refresh` saw it gone.
With it the code breaks `CacheCoherent` (run `registry_replug`). All other
properties of the registry are checked without it; `HandlesSafe` and `DevicesServed` are proved
with and without it.

### SlotTransfer and SlotPromise

`pc[r]` is the next libmtp call of request `r`: look the KMZ up, delete it, put
the new one, save the name, then the preview's lookup, delete and put; a
regeneration gets the KMZ instead of replacing it. Objects are named by the
request that put them, because MTP allows two objects with one name. `Fails(r)`
is a call that fails on a live connection (bounded by `MaxFaults`) or on a cut
one: a request holds the handle it started with, so a reconnect does not help
it. A failed listing is an empty one, as in `listDir`; a failed put may leave
part of the object. The refresh and lookup at a request's start and the folder
lookup are one action, `Start`: before the KMZ lookup they change nothing here.
The Go temporary files and buffers are left out, as is the placeholder's
position. The `image/` folder has its own module, `ShotImages`.

`SlotPromise` sees only the readable missions of a slot, which requests stored
theirs, and the answers. The refinement mapping takes the whole KMZ objects of a
slot as its missions, the whole objects of requests as stored, and `pc` as the
answer. `TakeAway` is a delete, `Store` a put, `Succeed` and `GiveUp` the answer;
preview calls are stutters. It says that an error answer means the
mission did not get there (so a retry is right), that success means it did, and
that nobody but an unanswered writer takes a mission away.

### Events

Every goroutine of a `Watch` is a name in `alive[w]`: the adb watcher, the two
pollers, the bus drainer. `Tick` is a scan and its diff, `Tell` one send of it,
`TakeBus` and `PassOn` the two halves of the drainer, `Leave` a goroutine's exit
on `ctx.Done`, `CloseOut` the `wg.Wait` and close. `Read(API)` is one round of
`pumpDeviceEvents` with `broadcast`, `Read` of another watcher one of the front
panel's loop; both watch anew (`Rewatch`) when the channel closes early. `Deliver`
is one write to a WebSocket, `CloseSub` the handler's deferred close. `adbLog` holds
what the adb server reported and the watcher has not told. Ended adb connections
tell nothing that was pending.

A page of the web UI is `shut`, `loading` its first list, or `wired`. `OpenPage`
begins the first `loadDevices`, which `app.js` awaits before it opens the WebSocket
(1320-1321): `Subscribe` comes after that answer was rendered, and again after a lost
connection, then without any load (1270). An event, or a click on refresh
(`Refresh`), only begins another load; `asked[p]` are those under way, `Respond` is
the server's answer to one of them and `Render` the page showing it, in any order.
History: `owed` are the pages whose newest answer is older than an event that was
broadcast since, `late` those that subscribed while owed, `turned` those that
rendered an older answer over a newer one. The code does nothing for late and turned
pages, which may stay stale until the next event (see "Seen while reading");
`ClientsFollow` and `ClientsSeeKinds` are about the others. Left out: a click on
refresh before the first load begins, a tab that is closed.

### SidecarStore

`names`, `slotorder` and `managed` have the same code for different values, so
one module stands for each of them; a key is a (device, slot) pair or, for the
order, a device. `mem[p]` is the map of process `p`, `file` and `tmp` the
sidecar and its temporary file. `Set` takes the lock and changes the map,
`OpenTmp`, `Write` and `Rename` are the three operations of `flushLocked`, `Fail`
is an error of any of them (the map keeps the change, as in the code), `Stop` a
crash or the end of a command at any point, `Start` is `New`. `fd[p]` follows the
name of the file that `p` has open, because a rename by another process moves the
file under it. `told` is a history variable: what the last `Set` of a key was
told, and `Unknown` while it runs and after an error, when the code promises
neither the old value nor the new one. A disk that loses written data at a power
cut is outside the model; the code does not call fsync.

The stores are independent of each other and of the registry's state:
`SlotTransfer` uses the promise of a store (a name is saved or the call fails)
in its action `SetName`, and `SlotList` reads what they hold.

### FrontPanel

Two goroutines. `Press`, `LongPress`, `Release`, `Emit` and `PollerStops` are
`pollButtons`; `held` is the debounced state of each key and `out` the event that
`emit` is about to queue. `loop` says where the screen loop is: at its `select`,
before or after the snapshot of a draw, in the shutdown, closing or closed. Each
case of the `select` is an action (`Tick`, `RegistryEvent`, `Resubscribe`, the
four button cases, `ContextDone`), and every draw is `Sample` and then `Paint`,
because the daemon's state (`world`) may change between them. `sigInit`,
`lastSig`, `idle`, `screenOn` and `page` are the loop's variables; `panel` is what
the board shows. Time is counted in ticks. Hardware calls succeed, except that the
board may not take a picture (`Blit`), which the code only logs: it then shows what
it did before. What a page looks like is left out. `drawn` is a history variable: since
it was last lit, the screen was not drawn, was drawn in vain every time, or was
painted.

### PreviewCache

One camera. `opened` is the connection of the registry's controller, `cached` and
`part` the files at `dst` and the temporary ones, each with the connection and
the run of the daemon that wrote it. A request is `StatCached`, `MkdirAll`,
`CreateTemp`, `LookupCamera`, `ReadProxy`, `RenamePart`, `ServeFile`: one file
operation each, so that `StartPurge`, `Unlink` and `EndPurge` (`os.RemoveAll`,
name by name), a reconnect and `CrashDaemon` fall between any two. `RunServer`
empties the cache, as the server's start does.

### Gallery

`source` is a card or a camera; both controllers have the same outline and differ
in what an ID is: the place in the listing, or the object ID. A folder that cannot be
read is left out by both: `WalkDir` skips it, and libmtp lists it as empty without an
error, so that a listing may be partial and still replace the index. When the device
is gone, a listing is empty until a `Refresh` has noticed, and refused from then on.
`Pull` and `Return` take the device away and bring it back (`visit` counts the
connections) with a new controller, without index or posters, with other object IDs
and perhaps other files, while the pages still show what they showed; what the old
controller's requests would still have served is left out, and so are the thumbnails
a browser keeps for 300 s. `ListMedia` and `EnsureIndex` run in
the critical sections of the code; `AskMedia` asks for an item of a listing on
the screen, also one of before a restart. `CachedPoster` to `ReleasePoster` are
`videoPoster`. How a file is opened and sent, and EXIF thumbnails, are one action,
`Open`. `decoded` counts runs of ffmpeg.

### SlotList

`at` is the next step of one listing: a folder of the device (`ListWaypointDir`,
`ListPreviewDir`, `StatKMZ`, `StatPreview`), a slot of a store (`ApplySavedName`,
`ApplyManaged`), the order (`ApplyOrder`), the answer (`RenderSlots`, with the
pictures that the browser has cached under their `?v=` stamp). Each listing of a
folder over MTP may be missed: it is an empty one without an error, and the answer
without slots (`ListFails` is an error, of adb or of a device that is gone). `PutFile`,
`RemoveFile` and `SaveOf` change everything meanwhile. Stamps are whole seconds: a
write has that of the write before or a later one, and `pic` tells the pictures apart
that the stamps do not. An order may name a slot twice, or one that is gone. History:
`since` is what the stores held since the listing began, `at.all` that it met the
waypoint folder, `hasty` the slots of which a preview was put in the very second a
page had loaded its predecessor.

### ShotImages

The steps of `WriteWaypointImages` and of the end of `ClearSlot`, one libmtp call
each, for any mix of pushes, transfers and clears. Files are named by the request
that put them, as in `SlotTransfer`, whose KMZ steps are the one action
`ReplaceKMZ` here. Deletions and listings that fail are not noticed (`Slip`), as
in the code. `alone` is a history variable: nothing else was at work.

### MapFrame and KmzMission

Functions of one input, written as the loops they are. `MapFrame` counts in
integers, 40 units to the pixel of the deepest zoom, and keeps what decides about
holes and edges: padding, `chooseZoom`, the floor of tile numbers, the truncation
of `int(dx)`, the fallback when a tile fails. The Mercator projection enters as
the skew it gives to the middle of a box. `KmzMission` keeps of a document the
coordinates and actions with the Placemark each is in, and whether the XML breaks
off.

### Host

The parts share no variable of the program: what one reads of the world (a store,
the device) its module lets change at any time. A behaviour of all is therefore
one of each, interleaved, and what holds of each alone holds of all. `active`
chooses, in the initial state, the part that moves; the others rest in one state,
so that the states to check are the sum of those of the parts and not the product.

## 3. Runs

| run | instance | shows |
|---|---|---|
| `registry` | one controller with two storages, two plugs, one fault (of a Refresh or of a listing of the walk), one request | map coherence, handle ownership, verdicts under all interleavings, crash included |
| `registry_mixed` | the same controller with one plug and one fault, fairness, and one of: a request; adb, under the same serial and another; a card inserted twice | the maps converge, on the right kind unless the listing that failed was the walk's; requests are answered; what is served matches the handles, shadows are hidden, mounts and records agree, cards are forgotten |
| `registry_replug` | as `registry`, with `FastReplug` | **fails**: the cached controller is the dead connection's |
| `registry_crash` | as `registry` | **fails**: a close races a walk, the daemon dies |
| `registry_unauthorized` | a phone on MTP, a controller that waits for approval on adb | **fails**: the controller is not listed |
| `slots` | transfer, clear, regeneration on one slot, one cut, one fault | losses are never silent, answers are true, requests end, `SlotPromise` is kept |
| `slots_disconnect` | transfer and clear, one cut | **fails**: a slot can be left without a mission |
| `events` | one watcher, capacities 1, and one of: three devices, adb-server restart, shutdown; a page, a card and a connection that is lost; a page and a controller that is classified | turns, no send on a closed channel, views follow, shutdown ends; a page follows devices and kinds, whatever its full channel dropped, unless it was late or an old answer came last |
| `events_refreshed` | API and front panel | **fails**: `device.refreshed` goes to one of them |
| `events_adb` | adb-server restart | **fails**: the pump never watches anew |
| `host` | the parts beside the registry, see below | see below |
| `stores_cli` | the daemon and a command, two Sets | **fails**: a Set undoes what another process saved |

What `host` checks, part by part; the action and liveness properties are marked:

| part | property | says |
|---|---|---|
| stores | `FileReadable` | the sidecar file is always one that `New` loads |
| | `AnswersSurvive` | it holds what the last Set of each key was told it saved |
| panel | `NotBlind` (action) | no page is flipped and no shutdown begun on a screen that was not drawn since it was lit |
| | `ChangesLight` (action) | the loop takes note of a change only by lighting the screen |
| | `PanelSettles` (liveness) | when nothing happens any more, the panel shows the last change, and goes dark if it is told to |
| | `CloseEnds` (liveness) | closing the board always ends |
| previews | `ServedWhole` | a client gets a whole file that this run pulled |
| | `PurgedStaysPurged` (action) | a pull in progress puts nothing back of a connection whose end was handled |
| gallery | `IdsKeepMeaning` | what is sent is the item of the listing of this connection it was asked from |
| | `PosterOnce` | a video is decoded once, and the semaphore is held by the request that is at it |
| slot list | `ListingTrue` | every slot, none twice that the order names once, with what the stores held since the listing began, in one order; or none |
| | `ThumbnailFresh` (action) | over MTP the picture is not older than the one the listing met |
| photos | `FolderOfMission` | an undisturbed request leaves the folder as its answer says |
| map | `PictureWhole` | tiles without a hole and every waypoint on it, or no tile at all |
| KMZ | `MissionRead` | the first entry that decides, with all its waypoints and their own actions |

Five of them say where the code stops short. `IdsKeepMeaning` holds on a card
only if every walk read every folder: a folder that is skipped renumbers the rest;
and it says nothing of what an earlier connection listed. `ListingTrue` admits an
answer without slots when the waypoint folder could not be listed.
`ThumbnailFresh` is of MTP only, for the ADB listing leaves the picture's time out of
the stamp, and not of a preview put in the second its predecessor was loaded in.
`NotBlind` admits a press on a screen whose pictures the board did not take.
`FolderOfMission` is of requests that were alone: two pushes that
overlap leave two indexes.

Runs that fail are the findings in `PROJECT.json`: each checks one sentence of
the repository's docs or comments against what the code does.

`registry_mixed` and `events` choose in the initial state a scene, which restricts
only what nobody schedules: plugs, cards, adb, clicks, connections, the arrival of
requests (`InScene`). No fair action is restricted, so that liveness means what it
says in `Registry` and `Events`.

Bounds, and why they are enough:

- `MaxAddr` 2 bounds the addresses the kernel hands out, so the plugs of all devices
  together: one full life of a handle and a successor. Four handles leave one for a
  failed ping and reopen of each.
- `MaxFaults` 1 and `MaxCuts` 1: the properties that speak of failure need one
  at any point; the proofs cover every number.
- Slots: one slot, because requests on different slots share no variable but the
  connection; three requests, one of each kind. In `slots` the transfer has both
  a name and a preview, the longest path. `slots_disconnect` has no
  regeneration, which writes no mission.
- Events: capacity 1 instead of 16 (channels) and 64 (bus), so that every
  channel does fill up; two device changes suffice to fill them and to bring a
  device and take it away. With one MTP device the bus cannot overflow where a page
  is: `ClientsSeeKinds` says nothing about more than 64 classifications that nobody
  drains, which `emit` drops by design.
- Pages: one, since pages share nothing but the server; two loads at once, the least
  that can be answered in turns; two connections beside a card, so that the second
  follows a lost one, and one beside a controller; a click on refresh only while
  nothing is being loaded. A page has one source of events, because what reaches it
  has passed the pump, and what the pump learns is checked without a page.
- Stores: three Sets let a failed change be saved along with a later one and then
  be replaced; two stops let a crash during a Set be followed by one after a
  restart. The proofs cover every number.
- Panel: a key that flips (A), one that darkens (B) and one with a long press (Y; X
  does what A does); idle after one tick or never; channels of capacity one
  instead of 8 and 16, so that they do fill up; two inputs (a press, a change of
  the daemon, a picture that fails), the least that lets a press meet a change.
- Previews: two requests of one object, two connections, one crash: a pull of an
  old connection against one of the new. The second request is what a purge or a
  rename can be caught between.
- Gallery: two browsers; four files in two folders, a video with a proxy and a clip
  of its name elsewhere, a photo taken while connected or away; one walk that meets
  an unreadable folder; the device comes back once, with two object IDs swapped.
- Slot list: two slots, a folder that is no slot between them, orders that name a slot
  twice or one that is gone, two changes or missed folders (`MaxChanges`), in any
  order with the listing.
- Photos: two requests, missions of one and of two waypoints, so that leftovers
  show, and one call that fails unnoticed.
- Map: every mission of up to two waypoints on five places in each direction,
  among them the edge of the world and neighbours, three zooms, small tiles and a
  picture that is not square.
- KMZ: every archive of three entries from seven documents.
- `registry_mixed` has one plug of the one device that has an MTP serial: a second
  connection is the subject of `registry`, and here a restart brings another handle.

No run uses symmetry. `CHECK_DEADLOCK FALSE` is set where the system really
stops: all slot requests answered, the daemon shut down, a picture or a mission done,
or the bounds of stores and photos used up.

Fairness:

- Registry: `keepDevicesFresh` refreshes every five seconds, so `Refresh` is
  weakly fair; goroutines run; a request gets the lock although others take it
  in between (strong fairness, Go's RWMutex does not starve); systemd restarts
  (`Restart=on-failure`). None for users or for the arrival of requests.
- SlotTransfer: a request's goroutine runs on, libmtp calls return. None for the
  start of a request, the cable or the crash.
- Events: tickers tick; a goroutine blocked in a send gets its turn when the
  channel is read again and again (strong fairness: Go serves blocked senders in
  order, and a `select` picks among ready cases at random). A page's loads are
  answered, or fail, and are rendered. None for devices, users, connections or the
  end of the daemon. `done` is not assumed to come.
- Panel: the ticker fires, the end of the context is seen, both goroutines run on,
  hardware calls return. None for keys, events or the daemon. Nothing in the other
  parts of `Host` is assumed to happen.

## 4. Proofs

Every safety property that a passing run checks, invariant or action property, is
also a theorem. TLC finds it true of a small instance; the theorem says it for every
value of the constants that satisfies the named assumptions below.

| theorem | property | where |
|---|---|---|
| `HandlesSafe`, `RegistryTypes` | `TypeOK /\ RegisteredOpen` | RegistryProofs |
| `CoherentWithoutFastReplug`, `NoHandleLeaks` | `CacheCoherent` and `HandlesOwned` when `~FastReplug` | |
| `DevicesServed` | `DevicesMatchHandles` | |
| `NoShadowServed` | `ShadowsHidden` | |
| `NoMountOrphaned` | `MountsOwned` | |
| `VerdictsRight` | `VerdictCorrect` | |
| `TypesHold` | `TypeOK`: also that no call is made on an empty lookup | SlotTransferProofs |
| `LossIsNeverSilent` | `NoSilentLoss` | |
| `PromiseKept` | `Spec => KeepsPromise`, the refinement | |
| `AnswersAreTrue` | `AnswersTrue` (action) | |
| `EventTypes` | `TypeOK` | EventsProofs |
| `NoPanic` | `NoSendAfterClose` | |
| `ToldInTurns` | `InTurns` (action) | |
| `StoreTypes` | `SidecarStore`'s `TypeOK`, for any set of processes | SidecarStoreProofs |
| `SidecarReadable`, `SidecarDurable` | `FileReadable`, `AnswersSurvive`, for one process | |
| `PanelTypes` | `PanelTypeOK` | FrontPanelProofs |
| `NobodyActsBlind` | `NotBlind` (action) | |
| `ChangeIsSeen` | `ChangesLight` (action) | |
| `CacheTypes` | `CacheTypeOK` | PreviewCacheProofs |
| `PreviewsWhole` | `ServedWhole` | |
| `PurgesLast` | `PurgedStaysPurged` (action) | |
| `GalleryTypes` | `GalleryTypeOK` | GalleryProofs |
| `IDsResolveAsListed` | `IdsKeepMeaning` | |
| `DecodedOnce` | `PosterOnce` | |
| `ShotTypes`, `FolderTrue` | `ShotTypeOK`, `FolderOfMission` | HostProofs |
| `KmzTypes`, `MissionTrue` | `KmzTypeOK`, `MissionRead` | |
| `SlotListTypes`, `ListedTrue` | `SlotListTypeOK`, `ListingTrue` | |
| `NoStaleThumbnail` | `ThumbnailFresh` (action) | |
| `FrameTypes`, `PictureOfOnePiece` | `FrameTypeOK`, `PictureWhole` | |
| `HostTypes` | `HostTypeOK` | |
| `HostKeepsPromises` | all of the safety properties of the run `host` at once | |

Assumptions: one named `...Assumption` per module with constants (`FrameAssumption`
is `MapFrame`'s, and so on). They say what the constants are: sets, functions,
distinct model values, natural bounds. These say more, and why the code justifies it:

- `EventsAssumption`: no ID is of two transports. A bus address, a volume ID and an
  ADB serial have different forms.
- `GalleryAssumption`: the files of a storage are finitely many, and no two have one
  object ID on one connection or one place in a walk.
- `SlotListAssumption`: a device lists a folder name once. Orders are any lists of
  names, with repetitions and names of no slot.
- `KmzAssumption`: XML elements nest, so that the tokens of one Placemark are together.
- `FrameAssumption`: the margins fit into the picture, and 15 % of a point's box is
  whole units.

### Registry

- `HandlesSafe`: `RegisteredOpen` is inductive with the types, once one knows
  that a handle is registered under its own serial only and that every handle that is served,
  cached or used was opened (`NamesUsed`, `Opened`); those conjuncts are part of it.
- `CoherentWithoutFastReplug` adds `ConnectionCurrent`: an open, registered
  handle whose device is plugged in has its present address. Without it a step
  that opens a device could replace a registered handle
  (`NothingReplaced` is the lemma that it cannot).
- `DevicesServed` needs `MapRebuilt`: while a Refresh runs, what it has put into
  `devices` is right for the devices visited and empty for the pending ones; and
  no two devices have one address (`PortsDistinct`), so that visiting one does
  not disturb another.
- `NoShadowServed` is about the serials of one device (`Hardware`). `Hidden` says it
  of the time after the sweep as well as of the time between two Refreshes, since the scan that follows the sweep does not touch
  the ADB entries.
- `NoMountOrphaned`: `MountsMatch` is the same statement at all times. It survives a
  crash because a start unmounts what it finds (`cleanMassStorageDir`).
- `VerdictsRight`: the verdict of a walk whose connection lives names no folder the
  device does not have, is no error, and is the right one unless a call of that very
  walk failed (`missed`). `WalksSound` says what a walk has found out at each of its
  calls, provided its connection is alive: `Claim`, that what it remembers is there;
  `Behind`, that it passed no controller tree and forgot no DCIM folder unless a call
  failed. That a connection once dead
  stays dead comes from `AddressesOnce`.

### Slot operations

- `LossIsNeverSilent`: `NoSilentLoss` is not inductive, because a request that
  already succeeded may have its mission deleted by another. `LossExplained`
  names the culprit: a slot without a whole mission has a writer that is about
  to put one, or was not answered with success. `OpFits` ties the program
  counter to the operation, so that who deletes is a writer.
- `PromiseKept` adds `WholeFits`: a mission is whole exactly if its writer is
  past its put, and before the put no object is its own. Each action is then
  one lemma: `DeleteRefines` (`TakeAway`, a stutter or `GiveUp`), `PutRefines`
  (`Store` or `GiveUp`), `CrashRefines` (`Die`), `OtherRefines` (an answer or a
  stutter).
- `AnswersAreTrue`: `CalmInv` is about each slot that nothing has disturbed. One
  request at most is at work on it, `OnTrack` says for each of its calls what it has
  found and left by then, and between two requests the slot has one whole mission
  and one preview at most. A slot leaves this invariant as soon as requests overlap,
  a call fails, the cable is pulled or the daemon dies, and does not come back to it.

### Events

- `NoPanic`: a channel is closed only when `alive[w]` is empty, and the pollers and
  the drainer leave only when `done` (`Watching`); subscribers are removed before
  their channel is closed (`SubsOpen`). By the way it shows that a reader never has
  to watch anew (`NeverAnew`): only the adb watcher may leave early, and the channel
  stays open without it, which is the finding of run `events_adb`.
- `ToldInTurns`: the invariant is about a whole channel, not its first event.
  `Caught(w)`: what waits in the channel leads, event by event and each in its turn,
  from what the reader knows to what the goroutines of the watch believe: a poller
  the devices of its last scan that it has told, the adb watcher the state its log
  starts from; and the log leads from there to what the server says. A chain of
  events is an existentially quantified function (`Leads`, `Says`), which a send
  extends at its end and a read shortens at its front, so that no induction is
  needed.

### Stores

- `SidecarReadable` and `SidecarDurable` need to know where a Set stands: the
  temporary file is empty before its write and the map in memory before its
  rename, and the key it is about is not promised (`Progress`); and that the map
  in memory of a running process has every promised value, so that the next
  rename brings them along, with failed changes of other keys or without
  (`Serves`). Both are false of two processes, as run `stores_cli` shows; the
  theorems assume one.

### Panel

- `PanelTypes` contains `DarkIsDark`: whenever the loop waits and `screenOn` is
  false, backlight and LED are off. `NobodyActsBlind` adds `LitIsDrawn`: a lit screen
  that waits has been drawn, with success or not. `ChangeIsSeen` follows from the types in one step,
  because a draw that takes note of a change cannot find the idle clock run out.

### Media

- `PreviewsWhole`: `OnlyGood` says of a running daemon that whatever has its final
  name, is about to get it or is being served is whole and of this run. A crash
  makes it vacuous and the emptying of the cache at the next start makes it true.
- `PurgesLast`: `Ahead` says that a file about to get its final name is of a later
  connection than the last purged one, and than the one being purged unless the
  purge still has it on its list; `Behind`, that only connections that are over
  are purged.
- `IDsResolveAsListed`: `Means` says what an ID of this connection is: the object, or
  the place in the listing of all files, which is exact while no walk left a folder
  out. Rows on a
  screen, requests and the index all hold IDs that mean what they were given for,
  so a listing and an index need not be of the same walk.
- `DecodedOnce`: the semaphore is held by exactly the requests between its acquire
  and its release, and by one (`OneHolds`); a request about to run ffmpeg has seen
  that there is no poster (`Fresh`), and a video that was decoded has one, or will
  when the holder stores it (`Counted`).

### Slots as they are shown, photos, missions

- `FolderTrue`: for each step of a request that is alone, what the folder holds so
  far (`FolderAt`): every file that must go is on its list of what to delete; then
  the photos put so far and no others, without an index; then the index with them.
- `MissionTrue`: `PlacePart` says that every entry before the one being read decides
  nothing, and `ReadSoFar` that the waypoints so far are those of the tokens so
  far, in order, each with the actions between it and the next. At the end of the
  entry, that is the promise.
- `ListedTrue`: `RowsPart` says that the rows are the slots in the device's order, or
  none if the waypoint folder was missed (`AsListed`), until they are sorted, and
  `StorePart` that what is in them has been in the stores since the listing began.
  `ReorderFacts` is about `ApplyOrder` as an operator, for orders with repetitions: it
  loses no row, makes none up, and of two rows of the result says which order they
  follow.
- `NoStaleThumbnail`: `NotStale` is about every picture a browser may have kept under
  a stamp, shown or not, of a slot that is not `hasty`: the stamp is not later than the
  second of its last load, so that a newer preview is of a later second than the stamp;
  `RowFresh` about the rows of a listing over MTP, whose stamp covers the picture that
  was met.

### Pictures

`PictureOfOnePiece` has a short invariant (`FrameInv`: a tile under the canvas is on it
or still to come, unless the ground is dark) and rests on integer arithmetic, for any
sizes and places:

- `ColumnCovered`: a column of pixels falls on a tile of the range, or, if `int(dx)`
  has rounded that tile's left edge towards zero, on the next one, which is in the
  range unless the column is the last. This is why the property excepts that one.
- `TilesAre`: the numbering row after row meets every tile of the range (`DivMod`).
- `MarkedOnMap`: the padding of a box that fits is at least what the projection moves
  its middle by, so that its waypoints stay on the picture. `MarkedOnDark`: a part of
  a span goes to the same part of the room inside the margins (`ScaledIn`).
- `Extremes`, `LargestOf` and `SmallestOf` say that `Min` and `Max` are what their names
  say, and `PowerPositive` that a zoom has a unit.

### Together

`HostParts` maps a step of the host to a step or a stutter of each part, so that a
behaviour of the host is one of every part; `HostPanel` does it for the panel, which
rests in a state that is not its first. `HostTypes` and `HostKeepsPromises` follow from
the theorems of the parts.

### Only model-checked

Liveness, since the prover has no rule for fairness and `ENABLED`: `Settles`,
both `RequestsAnswered`, `VolumesSettle`, `ViewsFollow`,
`ClientsFollow`, `ClientsSeeKinds`, `WatchesEnd`, `PanelSettles`, `CloseEnds`.

Induction over data is out of the prover's reach, too. Instead of it a proof takes
the least counterexample (`LeastOf`, from the well-foundedness of the naturals, for
`Bounded`), or the invariant follows the steps of the loop (`ReadSoFar`, `Caught`).
No module uses a `RECURSIVE` operator.

## 5. Not modelled

- I/O that keeps no state: the drivers of the front panel, the inside of USB and
  libmtp, the drawing of pages and pictures, the battery's chip, EXIF.
- The ADB push: a spool file of the host, then one sync transfer over the remote
  KMZ. Nothing comes between its steps that the daemon could react to.
- Authentication, CORS, logging, validation of requests, the configuration and the
  flags of the command line: no state. A command that stores something is the
  second process of `stores_cli`.
- Duration: time only orders steps. Five and two second intervals are fairness;
  the panel counts ticks.

Seen while reading, without a run:

Registry and events

- "If a device shows up on both transports [...] ADB wins" (`detector.go:162-165`):
  the MTP loop assigns `r.devices[id]` unconditionally (231, 236, 253), so that MTP
  wins. `DevicesMatchHandles` says what the code does.
- `classify` "returns an error only for genuine I/O failures" and calls a device
  unknown that "is simply neither" (`mtp_controller.go:159-161`). It cannot see an I/O
  failure of an open device, which is an empty listing (`client_linux.go:198-200`), so
  that one failed listing leaves a controller unknown, or a camera, until it is
  plugged again. `VerdictCorrect` and `Settles` except such walks (`missed`).
- "so the UI updates without polling" (`README.md:15`): a device that comes or goes
  between a page's first answer and its subscription, or while its connection is
  down, is missing from the list, or stays on it, until the next event
  (`app.js:1270`, 1320-1321). `ClientsFollow` excepts these pages (`late`).
- "the WebSocket handler re-runs loadDevices" (`app.js:346`), but does not wait for
  the load under way (1267): the older of two answers may be rendered last and stay.
  The same properties except these pages (`turned`).
- `device.authorized` cannot be produced: `translateStateChange` tests for
  "device" first (`detector.go:1035`, 1041).
- `NewRegistry`'s comment speaks of zero devices "until the user starts adb", but
  without an adb server at the start `adbClient` stays nil until a restart.
- `Snapshot` "performs no I/O" (`detector.go:813-817`), but `adbController.Info`
  makes RPCs, under the registry lock.
- The `NewRegistry` of a command runs `cleanMassStorageDir` (`detector.go:141`) and
  unmounts the volumes of a daemon that runs beside it.

Slots

- "return all GUID-named slots" (`docs/API.md:109`): a failed listing of the waypoint
  folder is an empty one without an error, answered 200 with no slots
  (`client_linux.go:198`, `mtp_controller.go:277`). `ListingTrue` admits it.
- "Cache-bust on lastModified so re-uploads visibly refresh" (`app.js:420`): the times
  are whole seconds (`client_linux.go:237`), so that a preview put in the second in
  which the page loaded the one before it is not seen. `ThumbnailFresh` excepts it
  (`hasty`).
- A transfer without `previewMetadata` leaves the previous mission's preview, one
  without `pushWaypointImages` its photos; two pushes that overlap leave two
  indexes in `image/`.
- A write over ADB answers success even if the device's end rejected it, because
  the error of the close is dropped (`adb/sync.go`).
- `RegeneratePreview` uses `r.names` without the nil check that the other slot
  operations make (`detector.go:583`).
- A saved order that names a slot twice lists it twice (`ListingTrue` admits it).
- The ADB listing leaves the preview's time out of `LastModified`, so that a
  browser keeps an old thumbnail.
- The thumbnails of a gallery are kept by the browser for 300 s under IDs that mean
  other files after a reconnect (`handlers_media.go:53-56`).
- Two overlapping `loadSlots` render in the order of their answers, also under
  another device than the one that is selected by then (`app.js:387`).
- `RewriteForGUID` is said to replace GUIDs inside the archive (`kmz.go:72-77`,
  `docs/DEVELOPMENT.md:12`); its pattern is anchored at both ends (`kmz.go:20`), so
  that it replaces none that is embedded.
- An action of a Placemark whose coordinates do not parse goes to the waypoint
  before it.

Media and pictures

- The purge of the media cache at `device.disconnected` uses the event's bus ID,
  the cache directory another ID for MTP devices (`server.go:147`,
  `handlers_media.go:149-152`): it never matches.
- A download whose device goes ends as a complete answer with status 200
  (`handlers_media.go:140`).
- A poster that failed once is never tried again while the card is in.
- A mission across the antimeridian, or whose frame leaves the map, gets the dark
  picture.

Front panel

- "so you never trigger a page flip or shutdown blind" (`display.go:225-226`): a
  picture the board does not take is only logged (188-190), and the next press acts
  on a screen that shows something else, or nothing. `NotBlind` excepts it (`drawn`).
- The documentation says that X rescans devices (`docs/CONFIGURATION.md:75`,
  `docs/INSTALLATION.md:131`); it flips the page.
- After a poweroff that is refused the loop returns, and the panel stays dark until
  the daemon is restarted; the farewell has said by then that power may be cut.
- A battery read that fails leaves the last reading in place.
- The poweroff of the web UI runs under the context of the request, which ends
  with the answer, so that it may be cancelled before it runs
  (`handlers.go:103-107`).

## 6. Plan

Done, in this order: `Registry` with `MassStorage`, the slot operations with their
promise, the events, the per-slot stores, the parts that `Host` composes; and a
theorem for every safety property that a run checks.

Next, most important first:

1. What the theorems leave aside: which calls `SlotTransfer` makes when requests
   overlap on a slot, so that the wrong preview a regeneration may leave is stated
   as exactly as the mission is; the insertion a mount is of (`MassStorage`).
2. The web UI's overlapping loads of slots and media: the selection against late
   answers (the device list's are in `Events`).
3. The invariants the liveness properties rest on (who can be blocked on whom), as
   theorems, so that only the fairness argument itself is left to TLC.
