------------------------------- MODULE Events -------------------------------
(***************************************************************************)
(* Hotplug events, from the bus to the browser: every Registry.Watch runs  *)
(* its own pollers and its own adb watcher into its own channel, but drains *)
(* one event bus with all the others; the API server pumps its channel to  *)
(* the WebSocket subscribers, and the front panel reads another.           *)
(*                                                                         *)
(* A goroutine advances by one channel operation or one scan at a time.    *)
(* A page of the web UI asks for the devices when it is opened, listens    *)
(* only after that answer, and asks anew at every event; its requests are  *)
(* answered and rendered each on its own.                                  *)
(***************************************************************************)
EXTENDS Naturals, Sequences, FiniteSets, SequencesExt

CONSTANTS
  MTPIds,      \* "usb:<bus>-<dev>", new at every plug
  BlockIds,    \* volume IDs
  Serials,     \* ADB serials
  Watchers,    \* the callers of Registry.Watch
  API,         \* the API server's pump, one of them
  Clients,     \* WebSocket connections, each used once
  Pages,       \* tabs of the web UI
  NoClient,
  NoEvent,
  NoAnswer,
  Awaited,
  OutCap,      \* capacity of a Watch channel
  BusCap,      \* capacity of Registry.eventBus
  SubCap,      \* capacity of a subscriber's channel
  MaxChanges,  \* bound: devices that come, go or change state
  MaxFetches,  \* bound: requests of one page under way
  ADBRestarts, \* may the adb server be restarted?
  MayStop      \* may the daemon be stopped?

\* A bus address, a volume ID and an ADB serial have different forms.
ASSUME EventsAssumption ==
  /\ MTPIds \cap BlockIds = {}
  /\ Serials \cap (MTPIds \cup BlockIds) = {}
  /\ API \in Watchers
  /\ OutCap \in Nat \ {0} /\ BusCap \in Nat \ {0} /\ SubCap \in Nat \ {0}
  /\ MaxChanges \in Nat /\ MaxFetches \in Nat \ {0}
  /\ NoClient \notin Clients
  /\ ADBRestarts \in BOOLEAN /\ MayStop \in BOOLEAN

VARIABLES
  numbered,    \* MTPIds the kernel has handed out
  present,     \* what a scan of the USB bus and of the block devices lists
  adb,         \* adb[s]: the state the adb server reports
  classified,  \* MTP devices whose classification ended
  changes,
  done,        \* the daemon's context is cancelled
  alive,       \* alive[w]: the goroutines of this Watch that still run
  poll,        \* poll[w][src]: last scan, and what is still to be told of it
  adbLog,      \* adbLog[w]: changes of state the adb watcher of w has yet to tell
  held,        \* held[w]: the event w took off the bus and has to pass on
  out,         \* out[w]: the channel Watch returned
  closed,      \* closed[w]: it is closed
  eventBus,
  view,        \* view[w]: what the reader of out[w] was told is connected
  subs,        \* Server.subs
  chan,        \* chan[c]: the state of the subscriber's channel
  queue,       \* queue[c]: what is in it
  link,        \* link[c]: the client's end of the connection
  page,        \* page[p]: shut, before its first list, or wired for events
  socket,      \* socket[p]: the connection p opened last
  asked,       \* asked[p]: loadDevices under way, in the order p began them
  shown,       \* shown[p]: the answer p rendered last
  blinked,     \* history: came and went, or went and came, unseen by a scan of API's
  owed,        \* history: pages whose newest answer is older than an event broadcast since
  late,        \* history: pages that connected while owed
  turned       \* history: pages that rendered an older answer over a newer one

worldVars == <<numbered, present, blinked, adb, classified, changes, done>>
watchVars == <<alive, poll, adbLog, held, out, closed, eventBus>>
subVars   == <<subs, chan, queue, link>>
pageVars  == <<page, socket, asked, shown, owed, late, turned>>
vars == <<worldVars, watchVars, view, subVars, pageVars>>

Sources == {"mtp", "block"}
Goroutines == {"adb", "mtp", "block", "bus"}
Ids(src) == IF src = "mtp" THEN MTPIds ELSE BlockIds
Scanned == MTPIds \cup BlockIds
Known == Scanned \cup Serials
States == {"absent", "offline", "unauthorized", "device"}

Event == [type: {"connected", "disconnected", "refreshed", "unauthorized",
                 "authorized", "statechange"}, id: Known]
Ev(type, id) == [type |-> type, id |-> id]

\* DeviceStateChangedEvent of goadb.
StateChange == [id: Serials, was: States, is: States]

Online == {s \in Serials : adb[s] = "device"}

\* What GET /api/devices answers about what was not found by adb: what is there,
\* and which kinds are known.
Answer == [there: SUBSET Scanned, kinds: SUBSET MTPIds]
Devices == [there |-> present, kinds |-> present \cap classified]

\* A loadDevices under way: the answer it got (Awaited; NoAnswer if it failed),
\* and whether one begun after it was rendered already.
Fetch == [got: Answer \cup {Awaited, NoAnswer}, old: BOOLEAN]
NewFetch == [got |-> Awaited, old |-> FALSE]

WorldTypeOK ==
  /\ numbered \subseteq MTPIds /\ present \subseteq Scanned /\ blinked \subseteq Scanned
  /\ adb \in [Serials -> States]
  /\ classified \subseteq MTPIds /\ changes \in 0..MaxChanges /\ done \in BOOLEAN
GoroutineTypeOK ==
  /\ alive \in [Watchers -> SUBSET Goroutines]
  /\ closed \in [Watchers -> BOOLEAN]
\* A poller finds only its own kind of device, and tells of what it found, or of
\* what it found no more.
PollTypeOK ==
  /\ poll \in [Watchers -> [Sources ->
       [prev: SUBSET Scanned, gone: SUBSET Scanned, new: SUBSET Scanned]]]
  /\ \A w \in Watchers, src \in Sources :
       /\ poll[w][src].prev \cup poll[w][src].gone \subseteq Ids(src)
       /\ poll[w][src].new \subseteq poll[w][src].prev
       /\ poll[w][src].gone \cap poll[w][src].prev = {}
ChannelTypeOK ==
  /\ adbLog \in [Watchers -> Seq(StateChange)]
  /\ held \in [Watchers -> Event \cup {NoEvent}]
  /\ out \in [Watchers -> Seq(Event)] /\ \A w \in Watchers : Len(out[w]) <= OutCap
  /\ eventBus \in Seq(Event) /\ Len(eventBus) <= BusCap
  /\ view \in [Watchers -> SUBSET Known]
SubTypeOK ==
  /\ subs \subseteq Clients /\ chan \in [Clients -> {"none", "open", "closed"}]
  /\ queue \in [Clients -> Seq(Event)] /\ \A c \in Clients : Len(queue[c]) <= SubCap
  /\ link \in [Clients -> {"none", "up", "down"}]
PageTypeOK ==
  /\ page \in [Pages -> {"shut", "loading", "wired"}]
  /\ socket \in [Pages -> Clients \cup {NoClient}]
  /\ asked \in [Pages -> Seq(Fetch)] /\ \A p \in Pages : Len(asked[p]) <= MaxFetches
  /\ shown \in [Pages -> Answer \cup {NoAnswer}]
  /\ owed \subseteq Pages /\ late \subseteq Pages /\ turned \subseteq Pages
TypeOK ==
  WorldTypeOK /\ GoroutineTypeOK /\ PollTypeOK /\ ChannelTypeOK /\ SubTypeOK /\ PageTypeOK

Fresh == [prev |-> {}, gone |-> {}, new |-> {}]

Init ==
  /\ numbered = {} /\ present = {} /\ blinked = {} /\ adb = [s \in Serials |-> "absent"]
  /\ classified = {} /\ changes = 0 /\ done = FALSE
  /\ alive = [w \in Watchers |-> Goroutines]
  /\ poll = [w \in Watchers |-> [src \in Sources |-> Fresh]]
  /\ adbLog = [w \in Watchers |-> <<>>]
  /\ held = [w \in Watchers |-> NoEvent]
  /\ out = [w \in Watchers |-> <<>>] /\ closed = [w \in Watchers |-> FALSE]
  /\ eventBus = <<>>
  /\ view = [w \in Watchers |-> {}]
  /\ subs = {} /\ chan = [c \in Clients |-> "none"]
  /\ queue = [c \in Clients |-> <<>>] /\ link = [c \in Clients |-> "none"]
  /\ page = [p \in Pages |-> "shut"] /\ socket = [p \in Pages |-> NoClient]
  /\ asked = [p \in Pages |-> <<>>] /\ shown = [p \in Pages |-> NoAnswer]
  /\ owed = {} /\ late = {} /\ turned = {}

-----------------------------------------------------------------------------
(* The world.                                                               *)

Change == ~done /\ changes < MaxChanges /\ changes' = changes + 1

LastScan == UNION {poll[API][src].prev : src \in Sources}

\* A device or a card comes.  A replugged MTP device gets a new number.
Appear(id) ==
  /\ Change /\ id \in Scanned \ present
  /\ id \notin numbered /\ numbered' = numbered \cup ({id} \cap MTPIds)
  /\ present' = present \cup {id}
  /\ blinked' = IF id \in LastScan THEN blinked \cup {id} ELSE blinked
  /\ UNCHANGED <<adb, classified, done, watchVars, view, subVars, pageVars>>

Disappear(id) ==
  /\ Change /\ id \in present
  /\ present' = present \ {id}
  /\ blinked' = IF id \in LastScan THEN blinked ELSE blinked \cup {id}
  /\ UNCHANGED <<numbered, adb, classified, done, watchVars, view, subVars, pageVars>>

\* The adb server reports every change to every watcher, in order.
ADBChange(s) ==
  /\ Change
  /\ \E state \in States \ {adb[s]} :
       /\ adb' = [adb EXCEPT ![s] = state]
       /\ adbLog' = [w \in Watchers |-> IF "adb" \in alive[w]
            THEN Append(adbLog[w], [id |-> s, was |-> adb[s], is |-> state]) ELSE adbLog[w]]
  /\ UNCHANGED <<numbered, present, blinked, classified, done, alive, poll, held, out, closed,
                 eventBus, view, subVars, pageVars>>

\* onLocated: the walk of an MTP device ended, and emit puts the news on the
\* bus, or drops it when the bus is full.
Classified(id) ==
  /\ ~done /\ id \in (present \cap MTPIds) \ classified
  /\ classified' = classified \cup {id}
  /\ eventBus' = IF Len(eventBus) < BusCap THEN Append(eventBus, Ev("refreshed", id))
                 ELSE eventBus
  /\ UNCHANGED <<numbered, present, blinked, adb, changes, done, alive, poll, adbLog, held, out, closed,
                 view, subVars, pageVars>>

\* The adb server is restarted: every adb watcher errors out, with what it had
\* not told yet.
ADBRestart ==
  /\ ADBRestarts /\ ~done /\ \E w \in Watchers : "adb" \in alive[w]
  /\ alive' = [w \in Watchers |-> alive[w] \ {"adb"}]
  /\ adbLog' = [w \in Watchers |-> <<>>]
  /\ UNCHANGED <<worldVars, poll, held, out, closed, eventBus, view, subVars, pageVars>>

Cancel ==
  /\ MayStop /\ ~done /\ done' = TRUE
  /\ UNCHANGED <<numbered, present, blinked, adb, classified, changes, watchVars, view, subVars, pageVars>>

-----------------------------------------------------------------------------
(* Registry.Watch.                                                          *)

Runs(w, g) == g \in alive[w]
BugSendOrDrop(w, e) ==
  out' = IF Len(out[w]) < OutCap THEN [out EXCEPT ![w] = Append(@, e)] ELSE out
Send(w, e) == Len(out[w]) < OutCap /\ out' = [out EXCEPT ![w] = Append(@, e)]

\* translateStateChange.
TranslateStateChange(previous, current) ==
  IF current = "device" /\ previous # "device" THEN "connected"
  ELSE IF current # "device" /\ previous = "device" THEN "disconnected"
  ELSE IF current = "unauthorized" THEN "unauthorized"
  ELSE IF current = "device" /\ previous = "unauthorized" THEN "authorized"
  ELSE "statechange"

\* The adb watcher tells the next change of state.
WatchADB(w) ==
  /\ Runs(w, "adb") /\ adbLog[w] # <<>>
  /\ LET ev == Head(adbLog[w])
     IN Send(w, Ev(TranslateStateChange(ev.was, ev.is), ev.id))
  /\ adbLog' = [adbLog EXCEPT ![w] = Tail(@)]
  /\ UNCHANGED <<worldVars, alive, poll, held, closed, eventBus, view, subVars, pageVars>>

\* A tick: scan, and diff against the scan before.  A scan that fails changes
\* nothing.
BugOverlapping(p) == TRUE
AllTold(p) == p.gone = {} /\ p.new = {}
BugKeepGone(prev, curr) == [prev |-> prev \cup curr, gone |-> prev \ curr, new |-> curr \ prev]
Diff(prev, curr) == [prev |-> curr, gone |-> prev \ curr, new |-> curr \ prev]
Tick(w, src) ==
  /\ Runs(w, src) /\ AllTold(poll[w][src])
  /\ poll' = [poll EXCEPT ![w][src] = Diff(@.prev, present \cap Ids(src))]
  /\ UNCHANGED <<worldVars, alive, adbLog, held, out, closed, eventBus, view, subVars, pageVars>>

\* Tell one device that went, or, once these are told, one that came.
ToTell(p) == IF p.gone # {} THEN p.gone ELSE p.new
Tell(w, src, id) ==
  /\ Runs(w, src) /\ id \in ToTell(poll[w][src])
  /\ Send(w, Ev(IF id \in poll[w][src].gone THEN "disconnected" ELSE "connected", id))
  /\ poll' = [poll EXCEPT ![w][src].gone = @ \ {id}, ![w][src].new = @ \ {id}]
  /\ UNCHANGED <<worldVars, alive, adbLog, held, closed, eventBus, view, subVars, pageVars>>

\* The bus drainer takes an event off the bus, whoever else drains it ...
TakeBus(w) ==
  /\ Runs(w, "bus") /\ held[w] = NoEvent /\ eventBus # <<>>
  /\ held' = [held EXCEPT ![w] = Head(eventBus)]
  /\ eventBus' = Tail(eventBus)
  /\ UNCHANGED <<worldVars, alive, poll, adbLog, out, closed, view, subVars, pageVars>>

\* ... and passes it on.
PassOn(w) ==
  /\ Runs(w, "bus") /\ held[w] # NoEvent
  /\ Send(w, held[w])
  /\ held' = [held EXCEPT ![w] = NoEvent]
  /\ UNCHANGED <<worldVars, alive, poll, adbLog, closed, eventBus, view, subVars, pageVars>>

\* ctx is done: a goroutine leaves, out of a send it is blocked in if need be.
BugDeafDrainer(w, g) ==
  /\ done /\ Runs(w, g) /\ g # "bus"
  /\ alive' = [alive EXCEPT ![w] = @ \ {g}]
  /\ UNCHANGED <<worldVars, poll, adbLog, held, out, closed, eventBus, view, subVars, pageVars>>
Leave(w, g) ==
  /\ done /\ Runs(w, g)
  /\ alive' = [alive EXCEPT ![w] = @ \ {g}]
  /\ UNCHANGED <<worldVars, poll, adbLog, held, out, closed, eventBus, view, subVars, pageVars>>

\* wg.Wait, then close(out).
BugNoWait(w) == done
AllLeft(w) == alive[w] = {}
CloseOut(w) ==
  /\ ~closed[w] /\ AllLeft(w)
  /\ closed' = [closed EXCEPT ![w] = TRUE]
  /\ UNCHANGED <<worldVars, alive, poll, adbLog, held, out, eventBus, view, subVars, pageVars>>

-----------------------------------------------------------------------------
(* The readers.                                                             *)

Heard(w, e) ==
  view' = [view EXCEPT ![w] =
    IF e.type = "connected" THEN @ \cup {e.id}
    ELSE IF e.type = "disconnected" THEN @ \ {e.id} ELSE @]

\* Server.broadcast: a subscriber whose channel is full misses the event.
HasRoom(c) == Len(queue[c]) < SubCap
BugHotplugOnly(e) ==
  queue' = [c \in Clients |->
    IF c \in subs /\ HasRoom(c) /\ e.type # "refreshed" THEN Append(queue[c], e) ELSE queue[c]]
BugOnlyConnected(e) ==
  queue' = [c \in Clients |->
    IF c \in subs /\ HasRoom(c) /\ e.type = "connected" THEN Append(queue[c], e) ELSE queue[c]]
Broadcast(e) ==
  queue' = [c \in Clients |->
    IF c \in subs /\ HasRoom(c) THEN Append(queue[c], e) ELSE queue[c]]

\* Watch anew: goroutines that know of nothing, an adb watcher that is told of
\* every device.
Rewatch(w) ==
  /\ alive' = [alive EXCEPT ![w] = Goroutines]
  /\ poll' = [poll EXCEPT ![w] = [src \in Sources |-> Fresh]]
  /\ \E list \in SetToSeqs({s \in Serials : adb[s] # "absent"}) :
       adbLog' = [adbLog EXCEPT ![w] =
         [i \in DOMAIN list |-> [id |-> list[i], was |-> "absent", is |-> adb[list[i]]]]]
  /\ closed' = [closed EXCEPT ![w] = FALSE]
  /\ UNCHANGED <<worldVars, held, out, eventBus, view, subVars, pageVars>>

\* The next event is read: pumpDeviceEvents passes it to the subscribers, the
\* front panel (display.Controller.loop) redraws.  A reader whose channel was
\* closed before ctx was done watches anew.
Read(w) ==
  IF out[w] = <<>> THEN closed[w] /\ ~done /\ Rewatch(w)
  ELSE /\ out' = [out EXCEPT ![w] = Tail(@)]
       /\ Heard(w, Head(out[w]))
       /\ IF w = API THEN Broadcast(Head(out[w])) /\ owed' = Pages ELSE UNCHANGED <<queue, owed>>
       /\ UNCHANGED <<worldVars, alive, poll, adbLog, held, closed, eventBus, subs, chan, link,
                      page, socket, asked, shown, late, turned>>

-----------------------------------------------------------------------------
(* handleEvents, and the page at the other end (app.js).                    *)

\* loadDevices begins: GET /api/devices is sent.
Ask(p) == Len(asked[p]) < MaxFetches /\ asked' = [asked EXCEPT ![p] = Append(@, NewFetch)]

\* The tab is opened: it asks for the devices before it listens to events.
OpenPage(p) ==
  /\ page[p] = "shut" /\ page' = [page EXCEPT ![p] = "loading"]
  /\ Ask(p)
  /\ UNCHANGED <<worldVars, watchVars, view, subVars, socket, shown, owed, late, turned>>

\* The user clicks on refresh.
Refresh(p) ==
  /\ page[p] # "shut" /\ Ask(p)
  /\ UNCHANGED <<worldVars, watchVars, view, subVars, page, socket, shown, owed, late, turned>>

\* The request is answered, or fails.
Newest(p, i) == i = Len(asked[p]) /\ ~asked[p][i].old
Respond(p, i) ==
  /\ i \in DOMAIN asked[p] /\ asked[p][i].got = Awaited
  /\ \/ asked' = [asked EXCEPT ![p][i].got = Devices]
        /\ owed' = IF Newest(p, i) THEN owed \ {p} ELSE owed
     \/ asked' = [asked EXCEPT ![p][i].got = NoAnswer] /\ UNCHANGED owed
  /\ UNCHANGED <<worldVars, watchVars, view, subVars, page, socket, shown, late, turned>>

\* The page renders the answer it has got, whichever it asked for first.  The
\* first list of all is awaited: then the page is wired for events.
Overtaken(p, i) ==
  [k \in DOMAIN asked[p] |-> [got |-> asked[p][k].got, old |-> asked[p][k].old \/ k < i]]
Wired(p, i) == IF i = 1 THEN "wired" ELSE page[p]
Render(p, i) ==
  /\ i \in DOMAIN asked[p] /\ asked[p][i].got # Awaited
  /\ shown' = [shown EXCEPT ![p] = asked[p][i].got]
  /\ turned' = IF asked[p][i].old THEN turned \cup {p} ELSE turned \ {p}
  /\ asked' = [asked EXCEPT ![p] = RemoveAt(Overtaken(p, i), i)]
  /\ page' = [page EXCEPT ![p] = Wired(p, i)]
  /\ UNCHANGED <<worldVars, watchVars, view, subVars, socket, owed, late>>

\* wireEvents: the page connects, at first or two seconds after its connection was
\* lost, and handleEvents subscribes it.  Nothing is asked for.
Severed(p) == socket[p] # NoClient => link[socket[p]] = "down"
Subscribe(p, c) ==
  /\ page[p] = "wired" /\ Severed(p) /\ link[c] = "none" /\ ~done
  /\ socket' = [socket EXCEPT ![p] = c] /\ link' = [link EXCEPT ![c] = "up"]
  /\ subs' = subs \cup {c} /\ chan' = [chan EXCEPT ![c] = "open"]
  /\ late' = IF p \in owed THEN late \cup {p} ELSE late \ {p}
  /\ UNCHANGED <<worldVars, watchVars, view, queue, page, asked, shown, owed, turned>>

\* The connection is lost.
HangUp(c) ==
  /\ link[c] = "up"
  /\ link' = [link EXCEPT ![c] = "down"]
  /\ UNCHANGED <<worldVars, watchVars, view, subs, chan, queue, pageVars>>

\* The next event is written to the client, which begins to load the devices.
\* A write to a client that is gone ends the handler: it unsubscribes.
Deliver(c) ==
  /\ c \in subs /\ queue[c] # <<>>
  /\ queue' = [queue EXCEPT ![c] = Tail(@)]
  /\ IF link[c] = "up"
     THEN (\E p \in Pages : socket[p] = c /\ Ask(p)) /\ UNCHANGED subs
     ELSE subs' = subs \ {c} /\ UNCHANGED asked
  /\ UNCHANGED <<worldVars, watchVars, view, chan, link, page, socket, shown, owed, late, turned>>

\* The deferred close of the subscriber's channel, after its removal.
Unsubscribed(c) == chan[c] = "open" /\ c \notin subs
CloseSub(c) ==
  /\ Unsubscribed(c)
  /\ chan' = [chan EXCEPT ![c] = "closed"]
  /\ UNCHANGED <<worldVars, watchVars, view, subs, queue, link, pageVars>>

-----------------------------------------------------------------------------

World ==
  \/ \E id \in Scanned : Appear(id) \/ Disappear(id)
  \/ \E s \in Serials : ADBChange(s)
  \/ \E id \in MTPIds : Classified(id)
  \/ ADBRestart \/ Cancel
  \/ \E c \in Clients : HangUp(c)
  \/ \E p \in Pages : OpenPage(p) \/ Refresh(p) \/ \E c \in Clients : Subscribe(p, c)

Poll(w, src) == Tick(w, src) \/ \E id \in Scanned : Tell(w, src, id)
Bus(w) == TakeBus(w) \/ PassOn(w)
Stop(w) == CloseOut(w) \/ \E g \in Goroutines : Leave(w, g)
Load(p) == \E i \in 1..MaxFetches : Respond(p, i) \/ Render(p, i)

Next ==
  \/ World
  \/ \E w \in Watchers :
       \/ WatchADB(w)
       \/ \E src \in Sources : Poll(w, src)
       \/ Bus(w) \/ Stop(w) \/ Read(w)
  \/ \E c \in Clients : Deliver(c) \/ CloseSub(c)
  \/ \E p \in Pages : Load(p)

Spec == Init /\ [][Next]_vars

\* Goroutines run and tickers tick; a select with two ready cases takes each of
\* them in time.  Nothing is assumed of devices and clients.
Fairness ==
  /\ \A w \in Watchers :
       /\ SF_vars(WatchADB(w))
       /\ \A src \in Sources : SF_vars(Poll(w, src))
       /\ SF_vars(Bus(w)) /\ WF_vars(Stop(w)) /\ WF_vars(Read(w))
  /\ \A c \in Clients : SF_vars(Deliver(c)) /\ WF_vars(CloseSub(c))
  /\ \A p \in Pages : WF_vars(Load(p))

FairSpec == Spec /\ Fairness

-----------------------------------------------------------------------------
(* Properties.                                                              *)

\* A reader of Watch is told of a device strictly in turns, that it came and
\* that it went, whatever was pulled or inserted while the poller was blocked,
\* and in a replug the new number never before the old one went.
InTurns ==
  [][\A w \in Watchers :
       out[w] # <<>> /\ out'[w] = Tail(out[w]) =>
         LET e == Head(out[w])
         IN /\ e.type = "connected" => e.id \notin view[w]
            /\ e.type = "disconnected" => e.id \in view[w]]_vars

\* No goroutine of a Watch can send on the channel once it is closed, and
\* broadcast finds only open channels among the subscribers: a send on a closed
\* channel panics.
NoSendAfterClose ==
  /\ \A w \in Watchers : closed[w] => alive[w] = {}
  /\ \A c \in subs : chan[c] = "open"

\* What w should have been told: everything but what it cannot know of for want
\* of an adb watcher.
UpToDate(w) ==
  LET told == IF "adb" \in alive[w] THEN Known ELSE Scanned
  IN view[w] \cap told = (present \cup Online) \cap told

\* Once devices stop changing, every reader of Watch knows exactly which are
\* there, though channels fill up and events share one channel.
ViewsFollow == <>[](done \/ \A w \in Watchers : UpToDate(w))

Listens(p) == socket[p] # NoClient /\ link[socket[p]] = "up"
\* p's list is about the devices that are there, as far as a poller could tell.
Follows(p) == shown[p] # NoAnswer => shown[p].there \ blinked = present \ blinked

\* Once devices stop changing, a page that listens has rendered a list made after
\* the last change a poller could see (or says that it could not get one), whatever
\* broadcast dropped at its full channel: unless it was told of something between
\* its newest list and its subscription, or an older answer came last.
ClientsFollow ==
  <>[](done \/ \A p \in Pages : Listens(p) => p \in late \cup turned \/ Follows(p))

\* When the daemon stops, every Watch channel is closed though its goroutines
\* were blocked in sends, and the readers' loops end.
WatchesEnd == done ~> \A w \in Watchers : closed[w]

\* "device.refreshed so the UI updates without polling" (README.md:15): under the
\* same conditions a page that listens learns the kind of a device that was classified.
ClientsSeeKinds ==
  <>[](done \/ \A p \in Pages : Listens(p) =>
        \/ p \in late \cup turned \/ shown[p] = NoAnswer
        \/ present \cap classified \subseteq shown[p].kinds)

\* "Backs off and retries if the underlying goadb watcher dies (e.g.
\* adb-server restart)" (server.go:136-138): the pump gets adb events again.
PumpRecovers == <>[](done \/ "adb" \in alive[API])

=============================================================================
