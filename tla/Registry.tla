------------------------------ MODULE Registry ------------------------------
(***************************************************************************)
(* The device registry (internal/device/detector.go) and the life of an    *)
(* MTP handle: Refresh, which holds the registry lock while it lists both  *)
(* transports, pings, opens and closes devices; the background goroutines  *)
(* that classify a device and close stale handles without that lock; and   *)
(* the API requests that refresh, look a controller up and use it after    *)
(* the lock is released.                                                   *)
(*                                                                         *)
(* A Refresh is cut at every call that can block on USB, so that plugging, *)
(* the walks, the pending closes and the requests interleave with it.      *)
(* A single libmtp call is one step: Device.mu serialises them.            *)
(***************************************************************************)
EXTENDS MassStorage, Sequences

CONSTANTS
  Serials,      \* device serials: ADB serials and MTP identifiers after Open
  ADBSerials,   \* those that can show up at the adb server
  MTPSerials,   \* those that can be plugged in as an MTP device
  Hardware,     \* Hardware[s]: the physical device that has the serial s
  Layout,       \* Layout[s]: the storages of s, each a set of folder marks
  Handles,      \* open libmtp handles (mtp.Device structs that were opened)
  Requests,     \* concurrent API requests
  Ticker,       \* keepDevicesFresh
  Free,         \* the registry lock is free
  NoHandle,
  MaxAddr,      \* bound: USB device numbers the kernel hands out
  MaxFaults,    \* bound: transient USB failures (list, ping, open, a walk's call)
  FastReplug    \* may a device come back before a Refresh saw it gone?

Marks == {"android", "waypoint", "dcim"}

ASSUME RegistryAssumption ==
  /\ Serials # {}
  /\ ADBSerials \subseteq Serials
  /\ MTPSerials \subseteq Serials
  /\ Layout \in [Serials -> Seq(SUBSET Marks)]
  /\ NoHandle \notin Handles
  /\ Ticker \notin Requests
  /\ Free \notin Requests \cup {Ticker}
  /\ MaxAddr \in Nat
  /\ MaxFaults \in Nat
  /\ FastReplug \in BOOLEAN

VARIABLES
  port,       \* port[s]: the USB address s is plugged in at, 0 if unplugged
  addr,       \* the last address the kernel handed out
  adb,        \* adb[s]: the state the adb server reports
  faults,     \* transient failures so far
  up,         \* the daemon is running
  lock,       \* who holds Registry.mu for writing
  phase,      \* how far the Refresh under the lock has come
  pending,    \* the raw MTP devices it has still to visit
  seen,       \* the identifiers it has touched
  devices,    \* Registry.devices, ADB and MTP entries
  devVolumes, \* Registry.devices, Mass Storage entries
  openMTP,    \* Registry.openMTP
  ctrl,       \* Registry.mtpControllers: a controller is named by its handle
  handle,     \* the mtp.Device structs
  walk,       \* walk[h]: the classify walk of the controller made for h
  closing,    \* handles whose Close goroutine has not run yet
  req         \* the API requests

envVars  == <<port, addr, adb, faults>>
refVars  == <<lock, phase, pending, seen>>
mapVars  == <<devices, devVolumes, openMTP, ctrl>>
devVars  == <<handle, walk, closing>>
vars == <<volVars, envVars, up, refVars, mapVars, devVars, req>>

-----------------------------------------------------------------------------
(* Types.                                                                   *)

Addr == 0..MaxAddr
RawDevice == [serial: Serials, addr: 1..MaxAddr]
Device == [serial: Serials, addr: Addr, st: {"unused", "open", "closed"}]
Unused == [serial |-> CHOOSE s \in Serials : TRUE, addr |-> 0, st |-> "unused"]

Kinds == {"none", "controller", "camera", "unknown"}
\* missed is history: a listing of the walk failed and came back empty.
Walk == [pc: {"none", "storages", "children", "lookup", "preview", "done"}, at: Nat,
         dcim: BOOLEAN, kind: Kinds, err: BOOLEAN, missed: BOOLEAN]
NoWalk == [pc |-> "none", at |-> 0, dcim |-> FALSE, kind |-> "none", err |-> FALSE,
           missed |-> FALSE]
Located(h) == walk[h].pc = "done"

Entry == [via: {"none", "adb", "mtp"}, ctl: Handles \cup {NoHandle}, authorized: BOOLEAN]
NoEntry == [via |-> "none", ctl |-> NoHandle, authorized |-> FALSE]
ADBEntry(state) == [via |-> "adb", ctl |-> NoHandle, authorized |-> state = "device"]
MTPEntry(c) == [via |-> "mtp", ctl |-> c, authorized |-> TRUE]

Request == [pc: {"idle", "refresh", "lookup", "await", "io"},
            serial: Serials, ctl: Handles \cup {NoHandle}]
IdleRequest == [pc |-> "idle", serial |-> CHOOSE s \in Serials : TRUE, ctl |-> NoHandle]

EnvTypeOK ==
  /\ port \in [Serials -> Addr] /\ addr \in Addr
  /\ adb \in [Serials -> {"absent", "unauthorized", "device"}]
  /\ faults \in 0..MaxFaults
RefTypeOK ==
  /\ lock \in Requests \cup {Ticker, Free}
  /\ phase \in {"idle", "list", "visit", "scan"}
  /\ pending \subseteq RawDevice /\ seen \subseteq Serials
MapTypeOK ==
  /\ devices \in [Serials -> Entry] /\ devVolumes \subseteq Volumes
  /\ openMTP \in [Serials -> Handles \cup {NoHandle}]
  /\ ctrl \in [Serials -> Handles \cup {NoHandle}]
\* A walk is at a storage its device has.
WalksFit ==
  \A h \in Handles :
    IF handle[h].st = "unused" THEN walk[h] = NoWalk
    ELSE walk[h].at <= Len(Layout[handle[h].serial])
DevTypeOK ==
  /\ handle \in [Handles -> Device] /\ walk \in [Handles -> Walk]
  /\ closing \subseteq Handles
  /\ WalksFit

TypeOK ==
  /\ VolTypeOK /\ EnvTypeOK /\ RefTypeOK /\ MapTypeOK /\ DevTypeOK
  /\ up \in BOOLEAN
  /\ req \in [Requests -> Request]

-----------------------------------------------------------------------------
(* A fresh daemon: NewRegistry.                                             *)

DaemonInit ==
  /\ lock = Free /\ phase = "idle" /\ pending = {} /\ seen = {}
  /\ devices = [s \in Serials |-> NoEntry] /\ devVolumes = {}
  /\ openMTP = [s \in Serials |-> NoHandle] /\ ctrl = [s \in Serials |-> NoHandle]
  /\ handle = [h \in Handles |-> Unused] /\ walk = [h \in Handles |-> NoWalk]
  /\ closing = {}
  /\ req = [r \in Requests |-> IdleRequest]

Init ==
  /\ VolInit
  /\ port = [s \in Serials |-> 0] /\ addr = 0
  /\ adb = [s \in Serials |-> "absent"]
  /\ faults = 0
  /\ up = TRUE
  /\ DaemonInit

-----------------------------------------------------------------------------
(* The user, the kernel and the adb server.                                 *)

Plug(s) ==
  /\ s \in MTPSerials
  /\ port[s] = 0 /\ addr < MaxAddr
  /\ FastReplug \/ openMTP[s] = NoHandle
  /\ addr' = addr + 1
  /\ port' = [port EXCEPT ![s] = addr + 1]
  /\ UNCHANGED <<volVars, adb, faults, up, refVars, mapVars, devVars, req>>

Unplug(s) ==
  /\ port[s] # 0
  /\ port' = [port EXCEPT ![s] = 0]
  /\ UNCHANGED <<volVars, addr, adb, faults, up, refVars, mapVars, devVars, req>>

ADBChange(s) ==
  /\ \E state \in {"absent", "unauthorized", "device"} \ {adb[s]} :
       adb' = [adb EXCEPT ![s] = state]
  /\ UNCHANGED <<volVars, port, addr, faults, up, refVars, mapVars, devVars, req>>

InsertVolume(v) ==
  /\ Insert(v)
  /\ UNCHANGED <<envVars, up, refVars, mapVars, devVars, req>>

EjectVolume(v) ==
  /\ Eject(v)
  /\ UNCHANGED <<envVars, up, refVars, mapVars, devVars, req>>

Fault == faults < MaxFaults /\ faults' = faults + 1

-----------------------------------------------------------------------------
(* libmtp, one call at a time.                                              *)

\* The connection h was opened on is still there.
Alive(h) == port[handle[h].serial] = handle[h].addr

\* usbfs lets one file descriptor claim the interface of an address.
Claimed(a) == \E h \in Handles : handle[h].st = "open" /\ handle[h].addr = a

BugNoClose(h) == handle' = handle
Close(h) == handle' = [handle EXCEPT ![h].st = "closed"]

-----------------------------------------------------------------------------
(* Refresh.                                                                 *)

\* Who calls Refresh: keepDevicesFresh on its own, a request when it must.
BugNoTicker(a) == a \in Requests /\ req[a].pc = "refresh"
MayRefresh(a) == a = Ticker \/ (a \in Requests /\ req[a].pc = "refresh")

\* Take the lock, empty the device map and list the adb server.  A failing
\* list (the MTP open path kills the server) leaves no ADB entry.
RefreshBegin(a) ==
  /\ up /\ lock = Free /\ MayRefresh(a)
  /\ lock' = a /\ phase' = "list"
  /\ devVolumes' = {}
  /\ \/ devices' = [s \in Serials |->
          IF adb[s] = "absent" THEN NoEntry ELSE ADBEntry(adb[s])]
     \/ devices' = [s \in Serials |-> NoEntry]
  /\ UNCHANGED <<volVars, envVars, up, pending, seen, openMTP, ctrl, devVars, req>>

Plugged == {s \in Serials : port[s] # 0}

\* mtpClient.List.  An error is only logged: the Refresh goes on with no device.
RefreshList ==
  /\ up /\ phase = "list"
  /\ \/ /\ pending' = {[serial |-> s, addr |-> port[s]] : s \in Plugged}
        /\ UNCHANGED faults
     \/ /\ pending' = {}
        /\ Fault
  /\ seen' = {} /\ phase' = "visit"
  /\ UNCHANGED <<volVars, port, addr, adb, up, lock, mapVars, devVars, req>>

\* findOpenByBusDev: the serials whose open handle is at the address of md.
OpenAt(md) == {s \in Serials : openMTP[s] # NoHandle /\ handle[openMTP[s]].addr = md.addr}

\* controllerFor(d) with d.Identifier = s: the cached controller or a new one,
\* whose walk starts at once.
KickedOff == [NoWalk EXCEPT !.pc = "storages"]
Controller(s, h) == IF ctrl[s] # NoHandle THEN ctrl[s] ELSE h
ControllerFor(s, h) ==
  /\ ctrl' = [ctrl EXCEPT ![s] = Controller(s, h)]
  /\ walk' = IF ctrl[s] # NoHandle THEN walk
             ELSE [walk EXCEPT ![h] = KickedOff]

\* isLocating.
Locating(c) == walk[c].pc \in {"storages", "children", "lookup", "preview"}

\* The deletes in pairs: what is left of the two maps without the serials gone.
BugKeepHandle(gone) == openMTP
HandlesWithout(gone) == [s \in Serials |-> IF s \in gone THEN NoHandle ELSE openMTP[s]]
BugKeepController(gone) == ctrl
ControllersWithout(gone) == [s \in Serials |-> IF s \in gone THEN NoHandle ELSE ctrl[s]]

BugADBStays(s, c) == IF devices[s].via = "adb" THEN devices ELSE [devices EXCEPT ![s] = MTPEntry(c)]
\* r.devices[s] = c: an ADB entry of the same serial is overwritten.
Serving(s, c) == [devices EXCEPT ![s] = MTPEntry(c)]

\* The existing handle is kept: its walk is still running, or it answers.
VisitKeep(md, s) ==
  /\ up /\ phase = "visit"
  /\ s \in OpenAt(md)
  /\ \/ ctrl[s] # NoHandle /\ Locating(ctrl[s])
     \/ Alive(openMTP[s])
  /\ seen' = seen \cup {s}
  /\ devices' = Serving(s, Controller(s, openMTP[s]))
  /\ ControllerFor(s, openMTP[s])
  /\ pending' = pending \ {md}
  /\ UNCHANGED <<volVars, envVars, up, lock, phase, devVolumes, openMTP, handle, closing, req>>

\* Ping fails: the handle is closed and forgotten here and now.  md stays to be
\* visited, and is then opened anew.
VisitStale(md, s) ==
  /\ up /\ phase = "visit"
  /\ s \in OpenAt(md)
  /\ ctrl[s] = NoHandle \/ ~Locating(ctrl[s])
  /\ IF Alive(openMTP[s]) THEN Fault ELSE UNCHANGED faults
  /\ Close(openMTP[s])
  /\ openMTP' = HandlesWithout({s})
  /\ ctrl' = ControllersWithout({s})
  /\ UNCHANGED <<volVars, port, addr, adb, up, refVars, devices, devVolumes, walk, closing, req>>

\* Open succeeds: md gets its PTP serial and replaces whatever handle the map
\* held for that serial; the cached controller of the serial stays.
VisitOpen(md) ==
  /\ up /\ phase = "visit"
  /\ OpenAt(md) = {}
  /\ port[md.serial] = md.addr /\ ~Claimed(md.addr)
  /\ \E h \in Handles : handle[h].st = "unused"
  /\ LET h == CHOOSE x \in Handles : handle[x].st = "unused"
         s == md.serial
     IN /\ handle' = [handle EXCEPT ![h] = [serial |-> s, addr |-> md.addr, st |-> "open"]]
        /\ seen' = seen \cup {s}
        /\ openMTP' = [openMTP EXCEPT ![s] = h]
        /\ devices' = Serving(s, Controller(s, h))
        /\ ControllerFor(s, h)
  /\ pending' = pending \ {md}
  /\ UNCHANGED <<volVars, envVars, up, lock, phase, devVolumes, closing, req>>

\* Open fails: the device is gone, still claimed by a handle that is being
\* closed, or busy (a fault).
VisitOpenFails(md) ==
  /\ up /\ phase = "visit"
  /\ OpenAt(md) = {}
  /\ IF port[md.serial] = md.addr /\ ~Claimed(md.addr) THEN Fault ELSE UNCHANGED faults
  /\ pending' = pending \ {md}
  /\ UNCHANGED <<volVars, port, addr, adb, up, lock, phase, seen, mapVars, devVars, req>>

\* What the sweep removes, and the ADB entries the dedup pass then hides.
BugNoSweep == {}
Unseen == {s \in Serials : openMTP[s] # NoHandle /\ s \notin seen}
BugSameSerial(open) ==
  {s \in Serials : open[s] # NoHandle /\ devices[s].via = "adb" /\ ~devices[s].authorized}
Shadows(open) ==
  IF \E s \in Serials : open[s] # NoHandle
  THEN {s \in Serials : devices[s].via = "adb" /\ ~devices[s].authorized}
  ELSE {}

\* Hand every unseen handle to a Close goroutine, drop it and its controller
\* from the maps, then hide the ADB shadows.
RefreshSweep ==
  /\ up /\ phase = "visit" /\ pending = {}
  /\ closing' = closing \cup {openMTP[s] : s \in Unseen}
  /\ openMTP' = HandlesWithout(Unseen)
  /\ ctrl' = ControllersWithout(Unseen)
  /\ devices' = [s \in Serials |-> IF s \in Shadows(openMTP') THEN NoEntry ELSE devices[s]]
  /\ phase' = "scan"
  /\ UNCHANGED <<volVars, envVars, up, lock, pending, seen, devVolumes, handle, walk, req>>

\* scanMassStorage and the unlock.
RefreshScan ==
  /\ up /\ phase = "scan"
  /\ \/ /\ \E failing \in SUBSET (NewVolumes \ AutoMounted) :
             /\ ScanMassStorage(failing)
             /\ IF failing = {} THEN UNCHANGED faults ELSE Fault
        /\ devVolumes' = Registered(msVolumes')
     \/ /\ ScanFails
        /\ Volumes # {} /\ Fault
        /\ UNCHANGED devVolumes
  /\ phase' = "idle" /\ lock' = Free /\ seen' = {}
  /\ req' = IF lock \in Requests THEN [req EXCEPT ![lock].pc = "lookup"] ELSE req
  /\ UNCHANGED <<port, addr, adb, up, pending, devices, openMTP, ctrl, devVars>>

\* A Close goroutine gets the device mutex.
CloseStale(h) ==
  /\ up /\ h \in closing
  /\ Close(h)
  /\ closing' = closing \ {h}
  /\ UNCHANGED <<volVars, envVars, up, refVars, mapVars, walk, req>>

-----------------------------------------------------------------------------
(* classify, in the goroutine kickoffLocate started.                        *)

Storages(h) == Layout[handle[h].serial]
Open(h) == handle[h].st = "open"

BugFirstStorageOnly(h) == walk[h].at = 1
BugPastTheEnd(h) == walk[h].at > Len(Storages(h))
LastStorage(h) == walk[h].at = Len(Storages(h))

BugFinishUnclosed(h, kind, err, missed) ==
  walk' = IF err THEN walk
          ELSE [walk EXCEPT ![h] =
                 [NoWalk EXCEPT !.pc = "done", !.kind = kind, !.missed = missed]]
\* runLocate: the verdict or the error is kept and locateDone closed.
Finish(h, kind, err, missed) ==
  walk' = [walk EXCEPT ![h] =
            [NoWalk EXCEPT !.pc = "done", !.kind = kind, !.err = err, !.missed = missed]]

\* On to the next storage, or to the verdict after the last one: dcim says
\* whether a DCIM folder was seen on the way.
Advance(h, dcim, missed) ==
  IF LastStorage(h)
  THEN Finish(h, IF dcim THEN "camera" ELSE "unknown", FALSE, missed)
  ELSE walk' = [walk EXCEPT ![h] =
                 [pc |-> "children", at |-> walk[h].at + 1, dcim |-> dcim, kind |-> "none",
                  err |-> FALSE, missed |-> missed]]

\* A libmtp call on the open handle h fails: its device is gone, or it is a
\* transient failure.  A listing that fails is an empty one without an error.
CallFails(h) == Open(h) /\ (IF Alive(h) THEN Fault ELSE UNCHANGED faults)
CallSucceeds(h) == Open(h) /\ Alive(h) /\ UNCHANGED faults
\* ListDir of a handle that was closed under the walk is its only error.
CallRefused(h) == ~Open(h) /\ Finish(h, "none", TRUE, walk[h].missed) /\ UNCHANGED faults

\* ListDir(nil).  A device that is gone has the storages it listed before, or none.
WalkStorages(h) ==
  /\ up /\ walk[h].pc = "storages"
  /\ \/ CallRefused(h)
     \/ Open(h) /\ Advance(h, FALSE, FALSE) /\ UNCHANGED faults
     \/ CallFails(h) /\ Finish(h, "unknown", FALSE, TRUE)
  /\ UNCHANGED <<volVars, port, addr, adb, up, refVars, mapVars, handle, closing, req>>

\* ListDir of the current storage.
Children(h) == Storages(h)[walk[h].at]

SeenDCIM(h) == walk[h].dcim \/ "dcim" \in Children(h)

WalkChildren(h) ==
  /\ up /\ walk[h].pc = "children"
  /\ \/ CallRefused(h)
     \/ /\ CallSucceeds(h)
        /\ IF "android" \in Children(h)
           THEN walk' = [walk EXCEPT ![h] = [@ EXCEPT !.pc = "lookup", !.dcim = SeenDCIM(h)]]
           ELSE Advance(h, SeenDCIM(h), walk[h].missed)
     \/ CallFails(h) /\ Advance(h, walk[h].dcim, TRUE)
  /\ UNCHANGED <<volVars, port, addr, adb, up, refVars, mapVars, handle, closing, req>>

\* LookupPath of the waypoint tree, on a handle that is still open.  A listing
\* on the path that fails is "not found" as well.
WalkLookup(h) ==
  /\ up /\ walk[h].pc = "lookup"
  /\ \/ /\ CallSucceeds(h)
        /\ IF "waypoint" \in Children(h)
           THEN walk' = [walk EXCEPT ![h].pc = "preview"]
           ELSE Advance(h, walk[h].dcim, walk[h].missed)
     \/ CallFails(h) /\ Advance(h, walk[h].dcim, TRUE)
  /\ UNCHANGED <<volVars, port, addr, adb, up, refVars, mapVars, handle, closing, req>>

\* findChild of map_preview: one more listing, whose error is ignored.  What it
\* finds is where module SlotTransfer looks for previews, nothing here.
WalkPreview(h) ==
  /\ up /\ walk[h].pc = "preview"
  /\ Finish(h, "controller", FALSE, walk[h].missed)
  /\ UNCHANGED <<volVars, envVars, up, refVars, mapVars, handle, closing, req>>

\* LookupPath on a closed handle: listStorages dereferences the nil device and
\* the process dies.
WalkCrash(h) ==
  /\ up /\ walk[h].pc = "lookup" /\ ~Open(h)
  /\ up' = FALSE
  /\ UNCHANGED <<volVars, envVars, refVars, mapVars, devVars, req>>

-----------------------------------------------------------------------------
(* API requests.                                                            *)

\* A request for s: most refresh first, the read-only ones look up directly.
RequestStart(r, s) ==
  /\ up /\ req[r].pc = "idle"
  /\ \E pc \in {"refresh", "lookup"} :
       req' = [req EXCEPT ![r] = [pc |-> pc, serial |-> s, ctl |-> NoHandle]]
  /\ UNCHANGED <<volVars, envVars, up, refVars, mapVars, devVars>>

\* Lookup, under the read lock: the controller the request keeps using after it.
\* An unknown device, or one on ADB, ends the request here.
RequestLookup(r) ==
  /\ up /\ req[r].pc = "lookup" /\ lock = Free
  /\ LET e == devices[req[r].serial]
     IN req' = [req EXCEPT ![r] =
                 IF e.via = "mtp" THEN [@ EXCEPT !.pc = "await", !.ctl = e.ctl] ELSE IdleRequest]
  /\ UNCHANGED <<volVars, envVars, up, refVars, mapVars, devVars>>

\* awaitLocate: start the walk if nobody did, wait for its end; its error ends
\* the request.
RequestAwait(r) ==
  /\ up /\ req[r].pc = "await"
  /\ LET c == req[r].ctl
     IN IF walk[c].pc = "none"
        THEN walk' = [walk EXCEPT ![c] = KickedOff] /\ UNCHANGED req
        ELSE /\ Located(c)
             /\ req' = [req EXCEPT ![r] = IF walk[c].err THEN IdleRequest ELSE [@ EXCEPT !.pc = "io"]]
             /\ UNCHANGED walk
  /\ UNCHANGED <<volVars, envVars, up, refVars, mapVars, handle, closing>>

\* The device calls of the request; a closed handle or a dead device fails them.
RequestIO(r) ==
  /\ up /\ req[r].pc = "io"
  /\ req' = [req EXCEPT ![r] = IdleRequest]
  /\ UNCHANGED <<volVars, envVars, up, refVars, mapVars, devVars>>

-----------------------------------------------------------------------------
\* systemd restarts the crashed daemon.
Restart ==
  /\ ~up /\ up' = TRUE
  /\ lock' = Free /\ phase' = "idle" /\ pending' = {} /\ seen' = {}
  /\ devices' = [s \in Serials |-> NoEntry] /\ devVolumes' = {}
  /\ openMTP' = [s \in Serials |-> NoHandle] /\ ctrl' = [s \in Serials |-> NoHandle]
  /\ handle' = [h \in Handles |-> Unused] /\ walk' = [h \in Handles |-> NoWalk]
  /\ closing' = {}
  /\ req' = [r \in Requests |-> IdleRequest]
  /\ VolRestart
  /\ UNCHANGED envVars

Environment ==
  \/ \E s \in Serials : Plug(s) \/ Unplug(s)
  \/ \E s \in ADBSerials : ADBChange(s)
  \/ \E v \in Volumes : InsertVolume(v) \/ EjectVolume(v)

Visit ==
  \E md \in pending :
    \/ \E s \in Serials : VisitKeep(md, s) \/ VisitStale(md, s)
    \/ VisitOpen(md) \/ VisitOpenFails(md)

Refresh ==
  \/ \E a \in Requests \cup {Ticker} : RefreshBegin(a)
  \/ RefreshList \/ Visit \/ RefreshSweep \/ RefreshScan

Classify(h) ==
  \/ WalkStorages(h) \/ WalkChildren(h) \/ WalkLookup(h) \/ WalkPreview(h)
  \/ WalkCrash(h)

Daemon ==
  \/ Refresh
  \/ \E h \in Handles : CloseStale(h) \/ Classify(h)
  \/ \E r \in Requests :
       \/ \E s \in Serials : RequestStart(r, s)
       \/ RequestLookup(r) \/ RequestAwait(r) \/ RequestIO(r)

Next == Environment \/ Daemon \/ Restart

Spec == Init /\ [][Next]_vars

\* keepDevicesFresh refreshes every five seconds whatever happens, goroutines
\* run, the read lock is granted between two writers, and systemd restarts.
\* Nothing is assumed of the user, nor of when requests arrive.
Fairness ==
  /\ WF_vars(Refresh)
  /\ \A h \in Handles : WF_vars(CloseStale(h)) /\ WF_vars(Classify(h))
  /\ \A r \in Requests :
       /\ SF_vars(RequestLookup(r))
       /\ SF_vars(RefreshBegin(r))
       /\ WF_vars(RequestAwait(r) \/ RequestIO(r))
  /\ WF_vars(Restart)

FairSpec == Spec /\ Fairness

-----------------------------------------------------------------------------
(* Properties.                                                              *)

\* The two maps the registry keeps per connection never disagree: a cached
\* controller is the one made for the handle that is registered (the field
\* comments of Registry.mtpControllers, and Refresh's deletes in pairs).
CacheCoherent == \A s \in Serials : ctrl[s] = openMTP[s]

\* No handle leaks: every open libmtp handle is registered under its serial or
\* has a Close coming, never neither and never both.
HandlesOwned ==
  \A h \in Handles :
    Open(h) => ((openMTP[handle[h].serial] = h) # (h \in closing))

\* What List and Lookup serve between two Refreshes is exactly what is open:
\* one MTP entry per registered handle, with the cached controller, be the
\* serial listed by adb or not.  That is what lines 236 and 253 do; the comment
\* of Refresh (detector.go:162-165) has ADB win for a device on both transports.
DevicesMatchHandles ==
  lock = Free =>
    \A s \in Serials :
      /\ devices[s].via = "mtp" <=> openMTP[s] # NoHandle
      /\ devices[s].via = "mtp" => devices[s].ctl = ctrl[s]

\* A registered handle is open, belongs to the serial it is registered under
\* and has no Close coming, whatever failed, was unplugged or came back too
\* fast; and a Close goroutine finds its handle open, so none is closed twice.
RegisteredOpen ==
  /\ \A s \in Serials : openMTP[s] # NoHandle =>
       /\ Open(openMTP[s]) /\ openMTP[s] \notin closing
       /\ handle[openMTP[s]].serial = s
  /\ \A h \in closing : Open(h)

\* The kind classify must find: a controller tree on any storage wins over a
\* DCIM folder on any storage.
KindOf(s) ==
  IF \E i \in DOMAIN Layout[s] : {"android", "waypoint"} \subseteq Layout[s][i] THEN "controller"
  ELSE IF \E i \in DOMAIN Layout[s] : "dcim" \in Layout[s][i] THEN "camera" ELSE "unknown"

\* A walk whose connection is still the current one, though it ran without the
\* registry lock over several calls that may fail, never ends in an error,
\* never claims a folder its device does not have, and gave the right verdict
\* when no call of it failed.  After a failed one a controller may be a camera or
\* "simply neither" (mtp_controller.go:159-161) for the rest of its connection.
VerdictCorrect ==
  \A h \in Handles : Located(h) /\ Open(h) /\ Alive(h) =>
    LET s == handle[h].serial
        Has(marks) == \E i \in DOMAIN Layout[s] : marks \subseteq Layout[s][i]
    IN /\ ~walk[h].err /\ walk[h].kind # "none"
       /\ walk[h].kind = "controller" => Has({"android", "waypoint"})
       /\ walk[h].kind = "camera" => Has({"dcim"})
       /\ walk[h].kind = KindOf(s) \/ walk[h].missed

\* While an MTP device is open, its own ADB shadow, the unauthorized entry of
\* the same hardware under whatever serial, is not served beside it
\* (detector.go:276-278).  Other devices' entries: OnlyShadowsHidden.
ShadowsHidden ==
  lock = Free =>
    \A s, t \in Serials :
      openMTP[s] # NoHandle /\ Hardware[t] = Hardware[s] /\ devices[t].via = "adb" =>
        devices[t].authorized

\* The dedup pass hides an ADB entry as the shadow of "whichever MTP entry has
\* the same hardware" (detector.go:192-197): another device's entry, which the
\* user still has to authorize, stays listed.
OnlyShadowsHidden ==
  [][phase = "visit" =>
       \A t \in Serials : devices[t].via = "adb" /\ devices'[t].via = "none" =>
         \E s \in Serials : openMTP'[s] # NoHandle /\ Hardware[s] = Hardware[t]]_vars

\* Between two Refreshes the mounts below massStorageDir are exactly those of
\* the volumes the registry remembers having mounted: none is orphaned by an
\* eject, a failed probe or a crash (Registry.massStorageDir's comment).
MountsOwned ==
  lock = Free /\ up => \A v \in Volumes :
    mounts[v] # 0 <=> msVolumes[v].known /\ msVolumes[v].mountedByUs

\* Once the user stops plugging and faults stop, every device is registered on
\* its current connection and classified, rightly unless a call of the walk of
\* this very connection failed, and nothing else is registered.
Settled(s) ==
  IF port[s] = 0 THEN openMTP[s] = NoHandle
  ELSE LET c == ctrl[s]
       IN /\ c # NoHandle /\ Open(c) /\ Alive(c) /\ Located(c)
          /\ walk[c].kind = KindOf(s) \/ walk[c].missed
Settles == <>[](\A s \in Serials : Settled(s))

\* Once cards stay put and faults stop, every card that was pulled is
\* unmounted and forgotten, so that the next insertion is probed afresh.
VolumesSettle ==
  <>[](\A v \in Volumes : ~vol[v].here => mounts[v] = 0 /\ ~msVolumes[v].known)

\* Every request is answered: it gets the lock, the walk it awaits ends.
RequestsAnswered == \A r \in Requests : req[r].pc # "idle" ~> req[r].pc = "idle"

\* "the goroutine has exclusive ownership" (detector.go:259-263): no libmtp
\* call is made on a handle a Close goroutine released.
NoUseAfterClose == up

=============================================================================
