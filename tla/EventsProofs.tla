---------------------------- MODULE EventsProofs ----------------------------
(***************************************************************************)
(* Proofs about Events, for any number of devices, watchers and clients    *)
(* and every capacity of the channels: nothing is sent on a closed         *)
(* channel, and whatever waits in a Watch channel is told in turns.        *)
(***************************************************************************)
EXTENDS Events, TLAPS

-----------------------------------------------------------------------------
(* Who runs.  Until the daemon stops a Watch never ends: of its goroutines  *)
(* only the adb watcher may leave, and so its channel is never closed.      *)

Watching ==
  \A w \in Watchers :
    /\ ~done => {"mtp", "block", "bus"} \subseteq alive[w]
    /\ closed[w] => alive[w] = {}

LEMMA NeverAnew ==
  ASSUME Watching, NEW w \in Watchers, Read(w)
  PROVE  out[w] # <<>>
  BY DEF Watching, Read

\* A read takes the first event, and tells the subscribers when it is API's.
Reads(w) ==
  /\ out[w] # <<>>
  /\ out' = [out EXCEPT ![w] = Tail(@)]
  /\ Heard(w, Head(out[w]))
  /\ IF w = API THEN Broadcast(Head(out[w])) /\ owed' = Pages ELSE UNCHANGED <<queue, owed>>
  /\ UNCHANGED <<worldVars, alive, poll, adbLog, held, closed, eventBus, subs, chan, link,
                 page, socket, asked, shown, late, turned>>

LEMMA ReadReads ==
  ASSUME Watching, NEW w \in Watchers, Read(w)
  PROVE  Reads(w)
  BY NeverAnew DEF Read, Reads

\* What a connection sees, and what a page does of its own.
Client(c) == HangUp(c) \/ Deliver(c) \/ CloseSub(c) \/ \E p \in Pages : Subscribe(p, c)
Loads(p) == OpenPage(p) \/ Refresh(p) \/ Load(p)

LEMMA LoadsKeep ==
  ASSUME NEW p \in Pages, Loads(p)
  PROVE  UNCHANGED <<worldVars, watchVars, view, subVars>>
  BY DEF Loads, Load, OpenPage, Refresh, Respond, Render

\* The actions, each for one actor.
OneStep ==
  \/ \E id \in Scanned : Appear(id) \/ Disappear(id)
  \/ \E s \in Serials : ADBChange(s)
  \/ \E id \in MTPIds : Classified(id)
  \/ ADBRestart \/ Cancel
  \/ \E c \in Clients : Client(c)
  \/ \E p \in Pages : Loads(p)
  \/ \E w \in Watchers : WatchADB(w) \/ TakeBus(w) \/ PassOn(w) \/ CloseOut(w) \/ Reads(w)
  \/ \E w \in Watchers, src \in Sources : Tick(w, src)
  \/ \E w \in Watchers, src \in Sources, id \in Scanned : Tell(w, src, id)
  \/ \E w \in Watchers, g \in Goroutines : Leave(w, g)

LEMMA StepCases == ASSUME Watching, Next PROVE OneStep
  <1>1. ASSUME World PROVE OneStep
    BY <1>1 DEF World, OneStep, Client, Loads
  <1>2. ASSUME NEW w \in Watchers, Read(w) PROVE OneStep
    BY <1>2, ReadReads DEF OneStep
  <1>3. ASSUME NEW w \in Watchers, WatchADB(w) \/ Bus(w) \/ Stop(w) PROVE OneStep
    BY <1>3 DEF Bus, Stop, OneStep
  <1>4. ASSUME NEW w \in Watchers, NEW src \in Sources, Poll(w, src) PROVE OneStep
    BY <1>4 DEF Poll, OneStep
  <1>5. ASSUME NEW c \in Clients, Deliver(c) \/ CloseSub(c) PROVE OneStep
    BY <1>5 DEF OneStep, Client
  <1>6. ASSUME NEW p \in Pages, Load(p) PROVE OneStep
    BY <1>6 DEF OneStep, Loads
  <1> QED
    BY <1>1, <1>2, <1>3, <1>4, <1>5, <1>6 DEF Next

LEMMA WatchingStep ==
  ASSUME Watching, alive \in [Watchers -> SUBSET Goroutines], closed \in [Watchers -> BOOLEAN],
         [Next]_vars
  PROVE  Watching'
  <1> USE DEF Watching
  <1>1. ASSUME NEW w \in Watchers, CloseOut(w) PROVE Watching'
    BY <1>1 DEF CloseOut, AllLeft, worldVars
  <1>2. ASSUME NEW w \in Watchers, NEW g \in Goroutines, Leave(w, g) PROVE Watching'
    BY <1>2 DEF Leave, Runs, worldVars
  <1>3. ASSUME ADBRestart PROVE Watching'
    BY <1>3 DEF ADBRestart, worldVars
  <1>4. ASSUME Cancel PROVE Watching'
    BY <1>4 DEF Cancel, watchVars
  <1>5. ASSUME UNCHANGED <<done, alive, closed>> PROVE Watching'
    BY <1>5
  <1>6. ASSUME OneStep PROVE Watching'
    <2>1. ASSUME NEW id \in Scanned, Appear(id) \/ Disappear(id) PROVE UNCHANGED <<done, alive, closed>>
      BY <2>1 DEF Appear, Disappear, Change, watchVars
    <2>2. ASSUME NEW s \in Serials, ADBChange(s) PROVE UNCHANGED <<done, alive, closed>>
      BY <2>2 DEF ADBChange, Change
    <2>3. ASSUME NEW id \in MTPIds, Classified(id) PROVE UNCHANGED <<done, alive, closed>>
      BY <2>3 DEF Classified
    <2>4. ASSUME NEW c \in Clients, Client(c)
          PROVE  UNCHANGED <<done, alive, closed>>
      BY <2>4 DEF Client, Subscribe, HangUp, Deliver, CloseSub, worldVars, watchVars
    <2>5. ASSUME NEW w \in Watchers, WatchADB(w) \/ TakeBus(w) \/ PassOn(w) \/ Reads(w)
          PROVE  UNCHANGED <<done, alive, closed>>
      BY <2>5 DEF WatchADB, TakeBus, PassOn, Reads, worldVars
    <2>6. ASSUME NEW w \in Watchers, NEW src \in Sources,
                 Tick(w, src) \/ \E id \in Scanned : Tell(w, src, id)
          PROVE  UNCHANGED <<done, alive, closed>>
      BY <2>6 DEF Tick, Tell, worldVars
    <2>p. ASSUME NEW p \in Pages, Loads(p) PROVE UNCHANGED <<done, alive, closed>>
      BY <2>p, LoadsKeep DEF worldVars, watchVars
    <2> QED
      BY <2>p, <1>1, <1>2, <1>3, <1>4, <1>5, <1>6, <2>1, <2>2, <2>3, <2>4, <2>5, <2>6 DEF OneStep
  <1>7. ASSUME UNCHANGED vars PROVE Watching'
    BY <1>5, <1>7 DEF vars, worldVars, watchVars
  <1> QED
    BY <1>6, <1>7, StepCases

-----------------------------------------------------------------------------
(* Types.                                                                   *)

LEMMA SendType ==
  ASSUME ChannelTypeOK, NEW w \in Watchers, NEW e \in Event, Send(w, e)
  PROVE  out' \in [Watchers -> Seq(Event)] /\ \A x \in Watchers : Len(out'[x]) <= OutCap
  BY EventsAssumption DEF ChannelTypeOK, Send

LEMMA EvType ==
  ASSUME NEW id \in Known,
         NEW type \in {"connected", "disconnected", "refreshed", "unauthorized",
                       "authorized", "statechange"}
  PROVE  Ev(type, id) \in Event /\ Ev(type, id).type = type /\ Ev(type, id).id = id
  BY DEF Ev, Event

LEMMA TranslateType ==
  ASSUME NEW was, NEW is
  PROVE  TranslateStateChange(was, is)
           \in {"connected", "disconnected", "unauthorized", "authorized", "statechange"}
  BY DEF TranslateStateChange

LEMMA IdTypes == \A src \in Sources : Ids(src) \subseteq Scanned /\ Ids(src) \subseteq Known
  BY DEF Sources, Ids, Scanned, Known

LEMMA DevicesType == ASSUME WorldTypeOK PROVE Devices \in Answer
  BY DEF WorldTypeOK, Devices, Answer

LEMMA WorldTypeStep == ASSUME WorldTypeOK, OneStep PROVE WorldTypeOK'
  <1> USE EventsAssumption DEF WorldTypeOK
  <1>0. ASSUME UNCHANGED worldVars PROVE WorldTypeOK'
    BY <1>0 DEF worldVars
  <1>1. ASSUME NEW id \in Scanned, Appear(id) \/ Disappear(id) PROVE WorldTypeOK'
    BY <1>1 DEF Appear, Disappear, Change
  <1>2. ASSUME NEW s \in Serials, ADBChange(s) PROVE WorldTypeOK'
    BY <1>2 DEF ADBChange, Change
  <1>3. ASSUME NEW id \in MTPIds, Classified(id) PROVE WorldTypeOK'
    BY <1>3 DEF Classified
  <1>4. ASSUME ADBRestart \/ Cancel PROVE WorldTypeOK'
    BY <1>4 DEF ADBRestart, Cancel, worldVars
  <1>5. ASSUME NEW c \in Clients, Client(c)
        PROVE  WorldTypeOK'
    BY <1>5, <1>0 DEF Client, Subscribe, HangUp, Deliver, CloseSub
  <1>6. ASSUME NEW w \in Watchers, WatchADB(w) \/ TakeBus(w) \/ PassOn(w) \/ CloseOut(w) \/ Reads(w)
        PROVE  WorldTypeOK'
    BY <1>6, <1>0 DEF WatchADB, TakeBus, PassOn, CloseOut, Reads
  <1>7. ASSUME NEW w \in Watchers, NEW src \in Sources,
               Tick(w, src) \/ \E id \in Scanned : Tell(w, src, id)
        PROVE  WorldTypeOK'
    BY <1>7, <1>0 DEF Tick, Tell
  <1>8. ASSUME NEW w \in Watchers, NEW g \in Goroutines, Leave(w, g) PROVE WorldTypeOK'
    BY <1>8, <1>0 DEF Leave
  <1>p. ASSUME NEW p \in Pages, Loads(p) PROVE WorldTypeOK'
    BY <1>p, LoadsKeep, <1>0
  <1> QED
    BY <1>1, <1>p, <1>2, <1>3, <1>4, <1>5, <1>6, <1>7, <1>8 DEF OneStep

LEMMA GoroutineTypeStep == ASSUME GoroutineTypeOK, OneStep PROVE GoroutineTypeOK'
  <1> USE DEF GoroutineTypeOK
  <1>0. ASSUME UNCHANGED <<alive, closed>> PROVE GoroutineTypeOK'
    BY <1>0
  <1>1. ASSUME NEW id \in Scanned, Appear(id) \/ Disappear(id) PROVE GoroutineTypeOK'
    BY <1>1 DEF Appear, Disappear, watchVars
  <1>2. ASSUME NEW s \in Serials, ADBChange(s) PROVE GoroutineTypeOK'
    BY <1>2, <1>0 DEF ADBChange
  <1>3. ASSUME NEW id \in MTPIds, Classified(id) PROVE GoroutineTypeOK'
    BY <1>3, <1>0 DEF Classified
  <1>4. ASSUME ADBRestart PROVE GoroutineTypeOK'
    BY <1>4 DEF ADBRestart
  <1>5. ASSUME NEW c \in Clients, Client(c) \/ Cancel
        PROVE  GoroutineTypeOK'
    BY <1>5, <1>0 DEF Client, Subscribe, HangUp, Deliver, CloseSub, Cancel, watchVars
  <1>c. ASSUME Cancel PROVE GoroutineTypeOK'
    BY <1>c, <1>0 DEF Cancel, watchVars
  <1>6. ASSUME NEW w \in Watchers, WatchADB(w) \/ TakeBus(w) \/ PassOn(w) \/ Reads(w)
        PROVE  GoroutineTypeOK'
    BY <1>6, <1>0 DEF WatchADB, TakeBus, PassOn, Reads
  <1>7. ASSUME NEW w \in Watchers, NEW src \in Sources,
               Tick(w, src) \/ \E id \in Scanned : Tell(w, src, id)
        PROVE  GoroutineTypeOK'
    BY <1>7, <1>0 DEF Tick, Tell
  <1>8. ASSUME NEW w \in Watchers, CloseOut(w) \/ \E g \in Goroutines : Leave(w, g)
        PROVE  GoroutineTypeOK'
    BY <1>8 DEF CloseOut, Leave
  <1>p. ASSUME NEW p \in Pages, Loads(p) PROVE GoroutineTypeOK'
    BY <1>p, LoadsKeep, <1>0 DEF watchVars
  <1> QED
    BY <1>1, <1>p, <1>2, <1>3, <1>4, <1>5, <1>c, <1>6, <1>7, <1>8 DEF OneStep

LEMMA PollTypeStep == ASSUME PollTypeOK, OneStep PROVE PollTypeOK'
  <1> USE DEF PollTypeOK
  <1>0. ASSUME UNCHANGED poll PROVE PollTypeOK'
    BY <1>0
  <1>1. ASSUME NEW id \in Scanned, Appear(id) \/ Disappear(id) PROVE PollTypeOK'
    BY <1>1, <1>0 DEF Appear, Disappear, watchVars
  <1>2. ASSUME NEW s \in Serials, ADBChange(s) PROVE PollTypeOK'
    BY <1>2, <1>0 DEF ADBChange
  <1>3. ASSUME NEW id \in MTPIds, Classified(id) PROVE PollTypeOK'
    BY <1>3, <1>0 DEF Classified
  <1>4. ASSUME ADBRestart \/ Cancel PROVE PollTypeOK'
    BY <1>4, <1>0 DEF ADBRestart, Cancel, watchVars
  <1>5. ASSUME NEW c \in Clients, Client(c)
        PROVE  PollTypeOK'
    BY <1>5, <1>0 DEF Client, Subscribe, HangUp, Deliver, CloseSub, watchVars
  <1>6. ASSUME NEW w \in Watchers, WatchADB(w) \/ TakeBus(w) \/ PassOn(w) \/ CloseOut(w) \/ Reads(w)
        PROVE  PollTypeOK'
    BY <1>6, <1>0 DEF WatchADB, TakeBus, PassOn, CloseOut, Reads
  <1>7. ASSUME NEW w \in Watchers, NEW g \in Goroutines, Leave(w, g) PROVE PollTypeOK'
    BY <1>7, <1>0 DEF Leave
  <1>8. ASSUME NEW w \in Watchers, NEW src \in Sources, Tick(w, src) PROVE PollTypeOK'
    <2> DEFINE p == Diff(poll[w][src].prev, present \cap Ids(src))
    <2>1. p \in [prev: SUBSET Scanned, gone: SUBSET Scanned, new: SUBSET Scanned]
      BY IdTypes DEF Diff
    <2>2. p.prev \cup p.gone \subseteq Ids(src) /\ p.new \subseteq p.prev /\ p.gone \cap p.prev = {}
      BY DEF Diff
    <2>3. poll' = [poll EXCEPT ![w][src] = p]
      BY <1>8 DEF Tick
    <2> QED
      BY <2>1, <2>2, <2>3
  <1>9. ASSUME NEW w \in Watchers, NEW src \in Sources, NEW id \in Scanned, Tell(w, src, id)
        PROVE  PollTypeOK'
    <2>1. poll' = [poll EXCEPT ![w][src].gone = @ \ {id}, ![w][src].new = @ \ {id}]
      BY <1>9 DEF Tell
    <2> DEFINE p == [poll[w][src] EXCEPT !.gone = @ \ {id}, !.new = @ \ {id}]
    <2>0. poll[w][src] \in [prev: SUBSET Scanned, gone: SUBSET Scanned, new: SUBSET Scanned]
      OBVIOUS
    <2>2. p \in [prev: SUBSET Scanned, gone: SUBSET Scanned, new: SUBSET Scanned]
      BY <2>0
    <2>3. /\ p.prev = poll[w][src].prev
          /\ p.gone = poll[w][src].gone \ {id} /\ p.new = poll[w][src].new \ {id}
      OBVIOUS
    <2>4. poll' = [poll EXCEPT ![w][src] = p]
      BY <2>1
    <2> HIDE DEF p
    <2> QED
      BY <2>2, <2>3, <2>4
  <1>p. ASSUME NEW p \in Pages, Loads(p) PROVE PollTypeOK'
    BY <1>p, LoadsKeep, <1>0 DEF watchVars
  <1> QED
    BY <1>1, <1>p, <1>2, <1>3, <1>4, <1>5, <1>6, <1>7, <1>8, <1>9 DEF OneStep

LEMMA ChannelTypeStep ==
  ASSUME WorldTypeOK, PollTypeOK, ChannelTypeOK, OneStep PROVE ChannelTypeOK'
  <1> USE EventsAssumption DEF ChannelTypeOK
  <1>0. ASSUME UNCHANGED <<adbLog, held, out, eventBus, view>> PROVE ChannelTypeOK'
    BY <1>0
  <1>1. ASSUME NEW id \in Scanned, Appear(id) \/ Disappear(id) PROVE ChannelTypeOK'
    BY <1>1, <1>0 DEF Appear, Disappear, watchVars
  <1>2. ASSUME NEW s \in Serials, ADBChange(s) PROVE ChannelTypeOK'
    <2>1. PICK state \in States \ {adb[s]} :
            adbLog' = [w \in Watchers |-> IF "adb" \in alive[w]
              THEN Append(adbLog[w], [id |-> s, was |-> adb[s], is |-> state]) ELSE adbLog[w]]
      BY <1>2 DEF ADBChange
    <2>2. adb[s] \in States
      BY DEF WorldTypeOK
    <2>3. [id |-> s, was |-> adb[s], is |-> state] \in StateChange
      BY <2>2 DEF StateChange
    <2>4. \A w \in Watchers : Append(adbLog[w], [id |-> s, was |-> adb[s], is |-> state]) \in Seq(StateChange)
      BY <2>3
    <2>5. adbLog' \in [Watchers -> Seq(StateChange)]
      BY <2>1, <2>4
    <2> QED
      BY <1>2, <2>5 DEF ADBChange
  <1>3. ASSUME NEW id \in MTPIds, Classified(id) PROVE ChannelTypeOK'
    <2>1. Ev("refreshed", id) \in Event
      BY EvType DEF Known, Scanned
    <2>2. eventBus' \in Seq(Event) /\ Len(eventBus') <= BusCap
      BY <1>3, <2>1 DEF Classified
    <2> QED
      BY <1>3, <2>2 DEF Classified
  <1>4. ASSUME ADBRestart PROVE ChannelTypeOK'
    <2>1. adbLog' \in [Watchers -> Seq(StateChange)]
      BY <1>4 DEF ADBRestart
    <2> QED
      BY <1>4, <2>1 DEF ADBRestart
  <1>c. ASSUME Cancel PROVE ChannelTypeOK'
    BY <1>c, <1>0 DEF Cancel, watchVars
  <1>5. ASSUME NEW c \in Clients, Client(c)
        PROVE  ChannelTypeOK'
    BY <1>5, <1>0 DEF Client, Subscribe, HangUp, Deliver, CloseSub, watchVars
  <1>6. ASSUME NEW w \in Watchers, WatchADB(w) PROVE ChannelTypeOK'
    <2> DEFINE ev == Head(adbLog[w])
    <2>0. adbLog[w] \in Seq(StateChange) /\ adbLog[w] # <<>>
      BY <1>6 DEF WatchADB
    <2>1. ev \in StateChange
      BY <2>0
    <2>2. Ev(TranslateStateChange(ev.was, ev.is), ev.id) \in Event
      <3>1. ev.id \in Known
        BY <2>1 DEF Known, StateChange
      <3>2. TranslateStateChange(ev.was, ev.is)
              \in {"connected", "disconnected", "unauthorized", "authorized", "statechange"}
        BY TranslateType
      <3> HIDE DEF ev
      <3> QED
        BY <3>1, <3>2, EvType
    <2>3. Send(w, Ev(TranslateStateChange(ev.was, ev.is), ev.id))
      BY <1>6 DEF WatchADB
    <2>4. out' \in [Watchers -> Seq(Event)] /\ \A x \in Watchers : Len(out'[x]) <= OutCap
      BY <2>2, <2>3, SendType
    <2>5. Tail(adbLog[w]) \in Seq(StateChange)
      BY <2>0
    <2>6. adbLog' \in [Watchers -> Seq(StateChange)]
      BY <1>6, <2>5 DEF WatchADB
    <2> QED
      BY <1>6, <2>4, <2>6 DEF WatchADB
  <1>7. ASSUME NEW w \in Watchers, TakeBus(w) PROVE ChannelTypeOK'
    <2>1. Head(eventBus) \in Event /\ Tail(eventBus) \in Seq(Event) /\ Len(Tail(eventBus)) <= BusCap
      BY <1>7 DEF TakeBus
    <2> QED
      BY <1>7, <2>1 DEF TakeBus
  <1>8. ASSUME NEW w \in Watchers, PassOn(w) PROVE ChannelTypeOK'
    <2>1. held[w] \in Event /\ Send(w, held[w])
      BY <1>8 DEF PassOn
    <2>2. out' \in [Watchers -> Seq(Event)] /\ \A x \in Watchers : Len(out'[x]) <= OutCap
      BY <2>1, SendType
    <2> QED
      BY <1>8, <2>2 DEF PassOn
  <1>9. ASSUME NEW w \in Watchers, CloseOut(w) \/ \E g \in Goroutines : Leave(w, g)
        PROVE  ChannelTypeOK'
    BY <1>9, <1>0 DEF CloseOut, Leave
  <1>10. ASSUME NEW w \in Watchers, Reads(w) PROVE ChannelTypeOK'
    <2>1. out' \in [Watchers -> Seq(Event)] /\ \A x \in Watchers : Len(out'[x]) <= OutCap
      BY <1>10 DEF Reads
    <2>2. Head(out[w]) \in Event
      BY <1>10 DEF Reads
    <2>3. view' \in [Watchers -> SUBSET Known]
      BY <1>10, <2>2 DEF Reads, Heard, Event
    <2> QED
      BY <1>10, <2>1, <2>3 DEF Reads
  <1>11. ASSUME NEW w \in Watchers, NEW src \in Sources, Tick(w, src) PROVE ChannelTypeOK'
    BY <1>11, <1>0 DEF Tick
  <1>12. ASSUME NEW w \in Watchers, NEW src \in Sources, NEW id \in Scanned, Tell(w, src, id)
         PROVE  ChannelTypeOK'
    <2>1. PICK e \in Event : Send(w, e)
      BY <1>12, EvType DEF Tell, Known
    <2>2. out' \in [Watchers -> Seq(Event)] /\ \A x \in Watchers : Len(out'[x]) <= OutCap
      BY <2>1, SendType
    <2> QED
      BY <1>12, <2>2 DEF Tell
  <1>p. ASSUME NEW p \in Pages, Loads(p) PROVE ChannelTypeOK'
    BY <1>p, LoadsKeep, <1>0 DEF watchVars
  <1> QED
    BY <1>1, <1>p, <1>2, <1>3, <1>4, <1>c, <1>5, <1>6, <1>7, <1>8, <1>9, <1>10, <1>11, <1>12 DEF OneStep

LEMMA SubTypeStep ==
  ASSUME WorldTypeOK, ChannelTypeOK, SubTypeOK, OneStep PROVE SubTypeOK'
  <1> USE EventsAssumption DEF SubTypeOK
  <1>0. ASSUME UNCHANGED <<subs, chan, queue, link>> PROVE SubTypeOK'
    BY <1>0
  <1>1. ASSUME NEW id \in Scanned, Appear(id) \/ Disappear(id) PROVE SubTypeOK'
    BY <1>1, <1>0 DEF Appear, Disappear, subVars
  <1>2. ASSUME NEW s \in Serials, ADBChange(s) PROVE SubTypeOK'
    BY <1>2, <1>0 DEF ADBChange, subVars
  <1>3. ASSUME NEW id \in MTPIds, Classified(id) PROVE SubTypeOK'
    BY <1>3, <1>0 DEF Classified, subVars
  <1>4. ASSUME ADBRestart \/ Cancel PROVE SubTypeOK'
    BY <1>4, <1>0 DEF ADBRestart, Cancel, subVars
  <1>5. ASSUME NEW c \in Clients, NEW p \in Pages, Subscribe(p, c) PROVE SubTypeOK'
    BY <1>5 DEF Subscribe
  <1>6. ASSUME NEW c \in Clients, HangUp(c) \/ CloseSub(c) PROVE SubTypeOK'
    BY <1>6 DEF HangUp, CloseSub
  <1>7. ASSUME NEW c \in Clients, Deliver(c) PROVE SubTypeOK'
    <2>1. queue' \in [Clients -> Seq(Event)] /\ \A d \in Clients : Len(queue'[d]) <= SubCap
      BY <1>7 DEF Deliver
    <2> QED
      BY <1>7, <2>1 DEF Deliver
  <1>8. ASSUME NEW w \in Watchers, WatchADB(w) \/ TakeBus(w) \/ PassOn(w) \/ CloseOut(w)
        PROVE  SubTypeOK'
    BY <1>8, <1>0 DEF WatchADB, TakeBus, PassOn, CloseOut, subVars
  <1>9. ASSUME NEW w \in Watchers, Reads(w) PROVE SubTypeOK'
    <2>1. Head(out[w]) \in Event
      BY <1>9 DEF Reads, ChannelTypeOK
    <2>2. ASSUME Broadcast(Head(out[w]))
          PROVE  queue' \in [Clients -> Seq(Event)] /\ \A d \in Clients : Len(queue'[d]) <= SubCap
      BY <2>1, <2>2 DEF Broadcast, HasRoom
    <2> QED
      BY <1>9, <2>2 DEF Reads
  <1>10. ASSUME NEW w \in Watchers, NEW src \in Sources,
               Tick(w, src) \/ \E id \in Scanned : Tell(w, src, id)
        PROVE  SubTypeOK'
    BY <1>10, <1>0 DEF Tick, Tell, subVars
  <1>11. ASSUME NEW w \in Watchers, NEW g \in Goroutines, Leave(w, g) PROVE SubTypeOK'
    BY <1>11, <1>0 DEF Leave, subVars
  <1>p. ASSUME NEW p \in Pages, Loads(p) PROVE SubTypeOK'
    BY <1>p, LoadsKeep, <1>0 DEF subVars
  <1> QED
    BY <1>1, <1>p, <1>2, <1>3, <1>4, <1>5, <1>6, <1>7, <1>8, <1>9, <1>10, <1>11 DEF OneStep, Client

LEMMA PageTypeStep ==
  ASSUME WorldTypeOK, PageTypeOK, OneStep PROVE PageTypeOK'
  <1> USE EventsAssumption DEF PageTypeOK
  <1>0. ASSUME UNCHANGED <<page, socket, asked, shown, late, turned>>, owed' \subseteq Pages
        PROVE  PageTypeOK'
    BY <1>0
  <1>1. ASSUME NEW id \in Scanned, Appear(id) \/ Disappear(id) PROVE PageTypeOK'
    BY <1>1, <1>0 DEF Appear, Disappear, pageVars
  <1>2. ASSUME NEW s \in Serials, ADBChange(s) PROVE PageTypeOK'
    BY <1>2, <1>0 DEF ADBChange, pageVars
  <1>3. ASSUME NEW id \in MTPIds, Classified(id) PROVE PageTypeOK'
    BY <1>3, <1>0 DEF Classified, pageVars
  <1>4. ASSUME ADBRestart \/ Cancel PROVE PageTypeOK'
    BY <1>4, <1>0 DEF ADBRestart, Cancel, pageVars
  <1>5. ASSUME NEW w \in Watchers, WatchADB(w) \/ TakeBus(w) \/ PassOn(w) \/ CloseOut(w) \/ Reads(w)
        PROVE  PageTypeOK'
    BY <1>5, <1>0 DEF WatchADB, TakeBus, PassOn, CloseOut, Reads, pageVars
  <1>6. ASSUME NEW w \in Watchers, NEW src \in Sources,
               Tick(w, src) \/ \E id \in Scanned : Tell(w, src, id)
        PROVE  PageTypeOK'
    BY <1>6, <1>0 DEF Tick, Tell, pageVars
  <1>7. ASSUME NEW w \in Watchers, NEW g \in Goroutines, Leave(w, g) PROVE PageTypeOK'
    BY <1>7, <1>0 DEF Leave, pageVars
  <1>8. ASSUME NEW p \in Pages, Ask(p)
        PROVE  asked' \in [Pages -> Seq(Fetch)] /\ \A q \in Pages : Len(asked'[q]) <= MaxFetches
    <2>1. NewFetch \in Fetch
      BY DEF NewFetch, Fetch
    <2>2. asked[p] \in Seq(Fetch)
      OBVIOUS
    <2>3. Append(asked[p], NewFetch) \in Seq(Fetch) /\ Len(Append(asked[p], NewFetch)) = Len(asked[p]) + 1
      BY <2>1, <2>2
    <2>4. Len(asked[p]) \in Nat
      BY <2>2
    <2> QED
      BY <1>8, <2>3, <2>4 DEF Ask
  <1>9. ASSUME NEW c \in Clients, HangUp(c) \/ CloseSub(c) PROVE PageTypeOK'
    BY <1>9, <1>0 DEF HangUp, CloseSub, pageVars
  <1>10. ASSUME NEW c \in Clients, Deliver(c) PROVE PageTypeOK'
    BY <1>10, <1>8 DEF Deliver
  <1>11. ASSUME NEW c \in Clients, NEW p \in Pages, Subscribe(p, c) PROVE PageTypeOK'
    BY <1>11 DEF Subscribe
  <1>12. ASSUME NEW p \in Pages, OpenPage(p) \/ Refresh(p) PROVE PageTypeOK'
    BY <1>12, <1>8 DEF OpenPage, Refresh
  <1>13. ASSUME NEW p \in Pages, NEW i \in 1..MaxFetches, Respond(p, i) PROVE PageTypeOK'
    <2>1. asked[p] \in Seq(Fetch) /\ i \in DOMAIN asked[p] /\ asked[p][i] \in Fetch
      BY <1>13 DEF Respond
    <2>2. PICK a \in Answer \cup {NoAnswer} : asked' = [asked EXCEPT ![p][i].got = a]
      BY <1>13, DevicesType DEF Respond
    <2> DEFINE f == [asked[p][i] EXCEPT !.got = a]
               s == [asked[p] EXCEPT ![i] = f]
    <2>3. f \in Fetch
      BY <2>1 DEF Fetch
    <2>4. asked' = [asked EXCEPT ![p] = s]
      BY <2>1, <2>2
    <2> HIDE DEF f
    <2>5. s \in Seq(Fetch) /\ Len(s) = Len(asked[p])
      BY <2>1, <2>3
    <2> HIDE DEF s
    <2>6. asked' \in [Pages -> Seq(Fetch)] /\ \A q \in Pages : Len(asked'[q]) <= MaxFetches
      BY <2>4, <2>5
    <2> QED
      BY <1>13, <2>6 DEF Respond
  <1>14. ASSUME NEW p \in Pages, NEW i \in 1..MaxFetches, Render(p, i) PROVE PageTypeOK'
    <2>0. asked[p] \in Seq(Fetch)
      OBVIOUS
    <2>1. i \in DOMAIN asked[p] /\ i \in 1..Len(asked[p])
      BY <1>14, <2>0 DEF Render
    <2>2. \A k \in 1..Len(asked[p]) : asked[p][k] \in Fetch
      BY <2>0
    <2>3. asked[p][i].got \in Answer \cup {NoAnswer}
      BY <1>14, <2>1, <2>2 DEF Fetch, Render
    <2> DEFINE s == Overtaken(p, i)
               t == RemoveAt(s, i)
    <2>4. \A k \in 1..Len(asked[p]) :
            [got |-> asked[p][k].got, old |-> asked[p][k].old \/ k < i] \in Fetch
      <3> TAKE k \in 1..Len(asked[p])
      <3>1. asked[p][k].got \in Answer \cup {Awaited, NoAnswer}
        BY <2>2 DEF Fetch
      <3>2. (asked[p][k].old \/ k < i) \in BOOLEAN
        OBVIOUS
      <3> QED
        BY <3>1, <3>2 DEF Fetch
    <2>5. s \in Seq(Fetch) /\ Len(s) = Len(asked[p])
      <3>1. DOMAIN asked[p] = 1..Len(asked[p])
        BY <2>0
      <3>2. s = [k \in 1..Len(asked[p]) |->
                  [got |-> asked[p][k].got, old |-> asked[p][k].old \/ k < i]]
        BY <3>1 DEF Overtaken
      <3>3. Len(asked[p]) \in Nat
        BY <2>0
      <3> DEFINE g(k) == [got |-> asked[p][k].got, old |-> asked[p][k].old \/ k < i]
      <3>4. \A k \in 1..Len(asked[p]) : g(k) \in Fetch
        BY <2>4
      <3>5. s = [k \in 1..Len(asked[p]) |-> g(k)]
        BY <3>2
      <3> HIDE DEF g, s
      <3> QED
        BY <3>3, <3>4, <3>5
    <2>6. asked' = [asked EXCEPT ![p] = t]
      BY <1>14 DEF Render
    <2> HIDE DEF s
    <2>7. t \in Seq(Fetch) /\ Len(t) <= Len(asked[p])
      <3>1. i \in Nat /\ 1 <= i /\ i <= Len(s) /\ Len(s) \in Nat
        BY <2>1, <2>5
      <3>2. SubSeq(s, 1, i - 1) \in Seq(Fetch) /\ Len(SubSeq(s, 1, i - 1)) = i - 1
        BY <2>5, <3>1
      <3>3. SubSeq(s, i + 1, Len(s)) \in Seq(Fetch) /\ Len(SubSeq(s, i + 1, Len(s))) = Len(s) - i
        BY <2>5, <3>1
      <3>4. t = SubSeq(s, 1, i - 1) \o SubSeq(s, i + 1, Len(s))
        BY DEF RemoveAt
      <3>5. t \in Seq(Fetch) /\ Len(t) = (i - 1) + (Len(s) - i)
        <4>1. ASSUME NEW x \in Seq(Fetch), NEW y \in Seq(Fetch)
              PROVE  x \o y \in Seq(Fetch) /\ Len(x \o y) = Len(x) + Len(y)
          OBVIOUS
        <4> QED
          BY <3>2, <3>3, <3>4, <4>1
      <3> QED
        BY <2>5, <3>1, <3>5
    <2> HIDE DEF t
    <2>8. asked' \in [Pages -> Seq(Fetch)] /\ \A q \in Pages : Len(asked'[q]) <= MaxFetches
      <3>1. Len(asked[p]) \in Nat /\ Len(t) \in Nat /\ Len(asked[p]) <= MaxFetches
        BY <2>0, <2>7
      <3> QED
        BY <2>6, <2>7, <3>1
    <2>9. shown' \in [Pages -> Answer \cup {NoAnswer}] /\ turned' \subseteq Pages
      BY <1>14, <2>3 DEF Render
    <2>10. page' \in [Pages -> {"shut", "loading", "wired"}]
      BY <1>14 DEF Render, Wired
    <2> QED
      BY <1>14, <2>8, <2>9, <2>10 DEF Render
  <1> QED
    BY <1>1, <1>2, <1>3, <1>4, <1>5, <1>6, <1>7, <1>9, <1>10, <1>11, <1>12, <1>13, <1>14
    DEF OneStep, Client, Loads, Load

LEMMA EventsInit == ASSUME Init PROVE TypeOK /\ Watching
  <1> USE EventsAssumption DEF Init
  <1>1. WorldTypeOK
    <2>1. adb \in [Serials -> States]
      BY DEF States
    <2>2. changes \in 0..MaxChanges
      OBVIOUS
    <2> QED
      BY <2>1, <2>2 DEF WorldTypeOK
  <1>2. GoroutineTypeOK /\ Watching
    BY DEF GoroutineTypeOK, Watching, Goroutines
  <1>3. PollTypeOK
    BY DEF PollTypeOK, Fresh
  <1>4. ChannelTypeOK
    BY DEF ChannelTypeOK
  <1>5. SubTypeOK
    BY DEF SubTypeOK
  <1>6. PageTypeOK
    BY DEF PageTypeOK
  <1> QED
    BY <1>1, <1>2, <1>3, <1>4, <1>5, <1>6 DEF TypeOK

LEMMA EventsStep == ASSUME TypeOK, Watching, [Next]_vars PROVE TypeOK' /\ Watching'
  <1> USE DEF TypeOK
  <1>1. Watching'
    BY WatchingStep DEF GoroutineTypeOK
  <1>2. CASE Next
    BY <1>1, <1>2, StepCases, WorldTypeStep, GoroutineTypeStep, PollTypeStep, ChannelTypeStep,
       SubTypeStep, PageTypeStep
  <1>3. CASE UNCHANGED vars
    <2>1. UNCHANGED <<worldVars, watchVars, subVars, view, pageVars>>
      BY <1>3 DEF vars
    <2>2. WorldTypeOK' /\ GoroutineTypeOK'
      BY <2>1 DEF WorldTypeOK, GoroutineTypeOK, worldVars, watchVars
    <2>3. PollTypeOK' /\ ChannelTypeOK' /\ SubTypeOK' /\ PageTypeOK'
      BY <2>1 DEF PollTypeOK, ChannelTypeOK, SubTypeOK, PageTypeOK, watchVars, subVars, pageVars
    <2> QED
      BY <1>1, <2>2, <2>3
  <1> QED
    BY <1>2, <1>3

\* Every variable of the event pipeline keeps its type whatever comes, goes or
\* blocks: no channel holds more than its capacity, and a poller tells a device
\* either gone or new, never both.
THEOREM EventTypes == Spec => []TypeOK
  <1>1. Init => TypeOK /\ Watching
    BY EventsInit
  <1>2. TypeOK /\ Watching /\ [Next]_vars => (TypeOK /\ Watching)'
    BY EventsStep
  <1> QED
    BY <1>1, <1>2, PTL DEF Spec

-----------------------------------------------------------------------------
(* Closed channels.                                                         *)

SubsOpen == \A c \in subs : chan[c] = "open"

LEMMA SubsOpenStep == ASSUME SubTypeOK, SubsOpen, OneStep PROVE SubsOpen'
  <1> USE DEF SubTypeOK, SubsOpen
  <1>0. ASSUME UNCHANGED <<subs, chan>> PROVE SubsOpen'
    BY <1>0
  <1>1. ASSUME NEW id \in Scanned, Appear(id) \/ Disappear(id) PROVE SubsOpen'
    BY <1>1, <1>0 DEF Appear, Disappear, subVars
  <1>2. ASSUME NEW s \in Serials, ADBChange(s) PROVE SubsOpen'
    BY <1>2, <1>0 DEF ADBChange, subVars
  <1>3. ASSUME NEW id \in MTPIds, Classified(id) PROVE SubsOpen'
    BY <1>3, <1>0 DEF Classified, subVars
  <1>4. ASSUME ADBRestart \/ Cancel PROVE SubsOpen'
    BY <1>4, <1>0 DEF ADBRestart, Cancel, subVars
  <1>5. ASSUME NEW c \in Clients, CloseSub(c) \/ \E p \in Pages : Subscribe(p, c) PROVE SubsOpen'
    BY <1>5 DEF Subscribe, CloseSub, Unsubscribed
  <1>6. ASSUME NEW c \in Clients, HangUp(c) \/ Deliver(c) PROVE SubsOpen'
    BY <1>6 DEF HangUp, Deliver
  <1>7. ASSUME NEW w \in Watchers, WatchADB(w) \/ TakeBus(w) \/ PassOn(w) \/ CloseOut(w) \/ Reads(w)
        PROVE  SubsOpen'
    BY <1>7, <1>0 DEF WatchADB, TakeBus, PassOn, CloseOut, Reads, subVars
  <1>8. ASSUME NEW w \in Watchers, NEW src \in Sources,
               Tick(w, src) \/ \E id \in Scanned : Tell(w, src, id)
        PROVE  SubsOpen'
    BY <1>8, <1>0 DEF Tick, Tell, subVars
  <1>9. ASSUME NEW w \in Watchers, NEW g \in Goroutines, Leave(w, g) PROVE SubsOpen'
    BY <1>9, <1>0 DEF Leave, subVars
  <1>p. ASSUME NEW p \in Pages, Loads(p) PROVE SubsOpen'
    BY <1>p, LoadsKeep, <1>0 DEF subVars
  <1> QED
    BY <1>1, <1>p, <1>2, <1>3, <1>4, <1>5, <1>6, <1>7, <1>8, <1>9 DEF OneStep, Client

\* However many watchers and subscribers there are and in whatever order they
\* leave, a Watch channel is closed only once no goroutine can send on it, and
\* broadcast meets no closed channel: no send panics.
THEOREM NoPanic == Spec => []NoSendAfterClose
  <1>1. Init => TypeOK /\ Watching /\ SubsOpen
    BY EventsInit DEF Init, SubsOpen
  <1>2. TypeOK /\ Watching /\ SubsOpen /\ [Next]_vars => (TypeOK /\ Watching /\ SubsOpen)'
    <2>1. ASSUME TypeOK, Watching, SubsOpen, [Next]_vars PROVE SubsOpen'
      BY <2>1, SubsOpenStep, StepCases DEF TypeOK, SubsOpen, vars, subVars
    <2> QED
      BY <2>1, EventsStep
  <1>3. TypeOK /\ Watching /\ SubsOpen => NoSendAfterClose
    BY DEF Watching, SubsOpen, NoSendAfterClose
  <1> QED
    BY <1>1, <1>2, <1>3, PTL DEF Spec

-----------------------------------------------------------------------------
(* What a reader knows after the events that wait for it.                   *)

After(known, e) ==
  IF e.type = "connected" THEN known \cup {e.id}
  ELSE IF e.type = "disconnected" THEN known \ {e.id} ELSE known
InTurn(known, e) ==
  (e.type = "connected" => e.id \notin known) /\ (e.type = "disconnected" => e.id \in known)

\* story[i] is what it knows after i of the events.
Story(story, first, events) ==
  /\ story[0] = first
  /\ \A i \in 1..Len(events) :
       InTurn(story[i-1], events[i]) /\ story[i] = After(story[i-1], events[i])
Leads(first, events, last) ==
  \E story \in [0..Len(events) -> SUBSET Known] :
    Story(story, first, events) /\ story[Len(events)] = last

LEMMA AfterType ==
  ASSUME NEW known \in SUBSET Known, NEW e \in Event PROVE After(known, e) \in SUBSET Known
  BY DEF After, Event

LEMMA LeadsNowhere == ASSUME NEW first \in SUBSET Known PROVE Leads(first, <<>>, first)
  <1> DEFINE story == [i \in 0..0 |-> first]
  <1>1. story \in [0..Len(<<>>) -> SUBSET Known] /\ story[0] = first
    OBVIOUS
  <1>2. Story(story, first, <<>>)
    BY <1>1 DEF Story
  <1> QED
    BY <1>1, <1>2 DEF Leads

\* One more event in the channel.
LEMMA LeadsFurther ==
  ASSUME NEW first, NEW events \in Seq(Event), NEW last, NEW e \in Event,
         Leads(first, events, last), InTurn(last, e)
  PROVE  Leads(first, Append(events, e), After(last, e))
  <1> DEFINE n == Len(events)
  <1> DEFINE longer == Append(events, e)
  <1>1. PICK story \in [0..n -> SUBSET Known] : Story(story, first, events) /\ story[n] = last
    BY DEF Leads
  <1> DEFINE told == [i \in 0..n+1 |-> IF i = n + 1 THEN After(last, e) ELSE story[i]]
  <1>2. n \in Nat /\ Len(longer) = n + 1 /\ longer[n+1] = e /\ \A i \in 1..n : longer[i] = events[i]
    OBVIOUS
  <1>3. last \in SUBSET Known
    BY <1>1, <1>2
  <1>4. told \in [0..n+1 -> SUBSET Known]
    BY <1>1, <1>2, <1>3, AfterType
  <1>5. told[0] = first
    BY <1>1, <1>2 DEF Story
  <1>6. ASSUME NEW i \in 1..n+1
        PROVE  InTurn(told[i-1], longer[i]) /\ told[i] = After(told[i-1], longer[i])
    <2>1. CASE i = n + 1
      <3>1. told[n+1] = After(last, e) /\ told[n+1-1] = last
        BY <1>1, <1>2
      <3> QED
        BY <2>1, <3>1, <1>2
    <2>2. CASE i # n + 1
      <3>1. i \in 1..n /\ i - 1 \in 0..n+1 /\ i - 1 # n + 1
        BY <1>2, <2>2
      <3>2. told[i] = story[i] /\ told[i-1] = story[i-1] /\ longer[i] = events[i]
        BY <1>2, <3>1
      <3> QED
        BY <1>1, <3>1, <3>2 DEF Story
    <2> QED
      BY <2>1, <2>2
  <1>7. told[n+1] = After(last, e)
    BY <1>2
  <1> HIDE DEF told, longer
  <1>8. Story(told, first, longer)
    BY <1>2, <1>4, <1>5, <1>6 DEF Story
  <1>9. Leads(first, longer, After(last, e))
    BY <1>2, <1>4, <1>7, <1>8 DEF Leads
  <1> QED
    BY <1>9 DEF longer

\* The first event is read.
LEMMA LeadsOn ==
  ASSUME NEW first, NEW events \in Seq(Event), NEW last, events # <<>>,
         Leads(first, events, last)
  PROVE  /\ InTurn(first, Head(events))
         /\ Leads(After(first, Head(events)), Tail(events), last)
  <1> DEFINE n == Len(events)
  <1> DEFINE rest == Tail(events)
  <1>1. PICK story \in [0..n -> SUBSET Known] : Story(story, first, events) /\ story[n] = last
    BY DEF Leads
  <1> DEFINE told == [i \in 0..n-1 |-> story[i+1]]
  <1>2. /\ n \in Nat \ {0} /\ Len(rest) = n - 1 /\ events[1] = Head(events)
        /\ \A i \in 1..n-1 : rest[i] = events[i+1]
    OBVIOUS
  <1>3. InTurn(first, Head(events)) /\ story[1] = After(first, Head(events))
    <2>1. 1 \in 1..n /\ 1 - 1 = 0
      BY <1>2
    <2> QED
      BY <1>1, <1>2, <2>1 DEF Story
  <1>4. told \in [0..n-1 -> SUBSET Known] /\ told[0] = story[1] /\ told[n-1] = last
    BY <1>1, <1>2
  <1>5. ASSUME NEW i \in 1..n-1
        PROVE  InTurn(told[i-1], rest[i]) /\ told[i] = After(told[i-1], rest[i])
    <2>1. i + 1 \in 1..n /\ i + 1 - 1 = i /\ i - 1 \in 0..n-1 /\ i \in 0..n-1 /\ i - 1 + 1 = i
      BY <1>2
    <2>2. told[i] = story[i+1] /\ told[i-1] = story[i] /\ rest[i] = events[i+1]
      BY <1>2, <2>1
    <2>3. InTurn(story[i], events[i+1]) /\ story[i+1] = After(story[i], events[i+1])
      BY <1>1, <2>1 DEF Story
    <2> QED
      BY <2>2, <2>3
  <1> HIDE DEF told, rest
  <1>6. Story(told, After(first, Head(events)), rest)
    BY <1>2, <1>3, <1>4, <1>5 DEF Story
  <1>7. Leads(After(first, Head(events)), rest, last)
    BY <1>2, <1>4, <1>6 DEF Leads
  <1> QED
    BY <1>3, <1>7 DEF rest

-----------------------------------------------------------------------------
(* What the adb server said, of which a watcher has a part still to tell.   *)

Reports == [Serials -> States]
Makes(change, before, after) ==
  before[change.id] = change.was /\ after = [before EXCEPT ![change.id] = change.is]

\* states[i] is what the server reported after i of the changes.
History(states, first, log) ==
  /\ states[0] = first
  /\ \A i \in 1..Len(log) : Makes(log[i], states[i-1], states[i])
Says(first, log, last) ==
  \E states \in [0..Len(log) -> Reports] : History(states, first, log) /\ states[Len(log)] = last

LEMMA NothingSaid == ASSUME NEW first \in Reports PROVE Says(first, <<>>, first)
  <1> DEFINE states == [i \in 0..0 |-> first]
  <1>1. states \in [0..Len(<<>>) -> Reports] /\ states[0] = first
    OBVIOUS
  <1>2. History(states, first, <<>>)
    BY <1>1 DEF History
  <1> QED
    BY <1>1, <1>2 DEF Says

\* One more change.
LEMMA MoreSaid ==
  ASSUME NEW first, NEW log \in Seq(StateChange), NEW last, NEW next \in Reports,
         NEW change \in StateChange, Says(first, log, last), Makes(change, last, next)
  PROVE  Says(first, Append(log, change), next)
  <1> DEFINE n == Len(log)
  <1> DEFINE longer == Append(log, change)
  <1>1. PICK states \in [0..n -> Reports] : History(states, first, log) /\ states[n] = last
    BY DEF Says
  <1> DEFINE said == [i \in 0..n+1 |-> IF i = n + 1 THEN next ELSE states[i]]
  <1>2. n \in Nat /\ Len(longer) = n + 1 /\ longer[n+1] = change /\ \A i \in 1..n : longer[i] = log[i]
    OBVIOUS
  <1>3. said \in [0..n+1 -> Reports] /\ said[0] = first /\ said[n+1] = next
    BY <1>1, <1>2 DEF History
  <1>4. ASSUME NEW i \in 1..n+1 PROVE Makes(longer[i], said[i-1], said[i])
    <2>1. CASE i = n + 1
      <3>1. said[n+1] = next /\ said[n+1-1] = last
        BY <1>1, <1>2
      <3> QED
        BY <2>1, <3>1, <1>2
    <2>2. CASE i # n + 1
      <3>1. i \in 1..n /\ i - 1 \in 0..n+1 /\ i - 1 # n + 1
        BY <1>2, <2>2
      <3>2. said[i] = states[i] /\ said[i-1] = states[i-1] /\ longer[i] = log[i]
        BY <1>2, <3>1
      <3> QED
        BY <1>1, <3>1, <3>2 DEF History
    <2> QED
      BY <2>1, <2>2
  <1> HIDE DEF said, longer
  <1>5. History(said, first, longer)
    BY <1>2, <1>3, <1>4 DEF History
  <1>6. Says(first, longer, next)
    BY <1>2, <1>3, <1>5 DEF Says
  <1> QED
    BY <1>6 DEF longer

\* The first change is told.
LEMMA SaidOn ==
  ASSUME NEW first, NEW log \in Seq(StateChange), NEW last, log # <<>>, Says(first, log, last)
  PROVE  \E next \in Reports : Makes(Head(log), first, next) /\ Says(next, Tail(log), last)
  <1> DEFINE n == Len(log)
  <1> DEFINE rest == Tail(log)
  <1>1. PICK states \in [0..n -> Reports] : History(states, first, log) /\ states[n] = last
    BY DEF Says
  <1> DEFINE said == [i \in 0..n-1 |-> states[i+1]]
  <1>2. /\ n \in Nat \ {0} /\ Len(rest) = n - 1 /\ log[1] = Head(log)
        /\ \A i \in 1..n-1 : rest[i] = log[i+1]
    OBVIOUS
  <1>3. Makes(Head(log), first, states[1]) /\ states[1] \in Reports
    <2>1. 1 \in 1..n /\ 1 - 1 = 0 /\ 1 \in 0..n
      BY <1>2
    <2> QED
      BY <1>1, <1>2, <2>1 DEF History
  <1>4. said \in [0..n-1 -> Reports] /\ said[0] = states[1] /\ said[n-1] = last
    BY <1>1, <1>2
  <1>5. ASSUME NEW i \in 1..n-1 PROVE Makes(rest[i], said[i-1], said[i])
    <2>1. i + 1 \in 1..n /\ i + 1 - 1 = i /\ i - 1 \in 0..n-1 /\ i \in 0..n-1 /\ i - 1 + 1 = i
      BY <1>2
    <2>2. said[i] = states[i+1] /\ said[i-1] = states[i] /\ rest[i] = log[i+1]
      BY <1>2, <2>1
    <2>3. Makes(log[i+1], states[i], states[i+1])
      BY <1>1, <2>1 DEF History
    <2> QED
      BY <2>2, <2>3
  <1> HIDE DEF said, rest
  <1>6. History(said, states[1], rest)
    BY <1>2, <1>4, <1>5 DEF History
  <1>7. Says(states[1], rest, last)
    BY <1>2, <1>4, <1>6 DEF Says
  <1> QED
    BY <1>3, <1>7 DEF rest

-----------------------------------------------------------------------------
(* What a reader will know once everything on its way was told: the devices *)
(* its pollers have told of, and the serials its adb watcher told are       *)
(* online.                                                                  *)

Told(p) == (p.prev \ p.new) \cup p.gone
Reported(states) == {s \in Serials : states[s] = "device"}
Believed(w, states) ==
  Told(poll[w]["mtp"]) \cup Told(poll[w]["block"]) \cup Reported(states)

Caught(w) ==
  \E states, latest \in Reports :
    /\ Leads(view[w], out[w], Believed(w, states))
    /\ Says(states, adbLog[w], latest)
    /\ "adb" \in alive[w] => latest = adb

\* The bus carries no event about coming or going.
BusRefreshes ==
  /\ \A i \in 1..Len(eventBus) : eventBus[i].type = "refreshed"
  /\ \A w \in Watchers : held[w] # NoEvent => held[w].type = "refreshed"

Telling == BusRefreshes /\ \A w \in Watchers : Caught(w)

LEMMA CaughtInTurns ==
  ASSUME ChannelTypeOK, Telling
  PROVE  \A w \in Watchers : out[w] # <<>> => InTurn(view[w], Head(out[w]))
  <1> SUFFICES ASSUME NEW w \in Watchers, out[w] # <<>> PROVE InTurn(view[w], Head(out[w]))
    OBVIOUS
  <1>1. PICK last : Leads(view[w], out[w], last)
    BY DEF Telling, Caught
  <1>2. out[w] \in Seq(Event)
    BY DEF ChannelTypeOK
  <1> QED
    BY <1>1, <1>2, LeadsOn

LEMMA BelievedType ==
  ASSUME PollTypeOK, NEW w \in Watchers, NEW states \in Reports
  PROVE  Believed(w, states) \in SUBSET Known
  <1>1. \A src \in Sources : Told(poll[w][src]) \subseteq Known
    BY IdTypes DEF PollTypeOK, Told
  <1> QED
    BY <1>1 DEF Sources, Believed, Reported, Known

\* The three kinds of identifiers do not meet.
LEMMA Apart ==
  ASSUME PollTypeOK, NEW w \in Watchers, NEW src \in Sources, NEW other \in Sources, src # other
  PROVE  /\ Ids(src) \cap Told(poll[w][other]) = {}
         /\ Ids(src) \cap Serials = {}
         /\ Serials \cap Told(poll[w][src]) = {}
  BY EventsAssumption DEF PollTypeOK, Sources, Ids, Told

-----------------------------------------------------------------------------
(* Each action keeps Telling.                                               *)

LEMMA CaughtKept ==
  ASSUME NEW w \in Watchers, Caught(w), UNCHANGED <<view[w], out[w], poll[w], adbLog[w]>>,
         "adb" \in alive'[w] => "adb" \in alive[w] /\ adb' = adb
  PROVE  Caught(w)'
  <1>1. PICK states \in Reports, latest \in Reports :
          /\ Leads(view[w], out[w], Believed(w, states))
          /\ Says(states, adbLog[w], latest)
          /\ "adb" \in alive[w] => latest = adb
    BY DEF Caught
  <1>2. Believed(w, states)' = Believed(w, states)
    BY DEF Believed
  <1>3. /\ Leads(view'[w], out'[w], Believed(w, states)')
        /\ Says(states, adbLog'[w], latest)
    BY <1>1, <1>2
  <1> QED
    BY <1>1, <1>3 DEF Caught

LEMMA AllKept ==
  ASSUME \A w \in Watchers : Caught(w), UNCHANGED <<view, out, poll, adbLog, adb>>,
         \A w \in Watchers : alive'[w] \subseteq alive[w]
  PROVE  \A w \in Watchers : Caught(w)'
  <1> SUFFICES ASSUME NEW w \in Watchers PROVE Caught(w)'
    OBVIOUS
  <1>1. Caught(w)
    OBVIOUS
  <1>2. UNCHANGED <<view[w], out[w], poll[w], adbLog[w]>>
    OBVIOUS
  <1>3. "adb" \in alive'[w] => "adb" \in alive[w] /\ adb' = adb
    OBVIOUS
  <1> QED
    BY <1>1, <1>2, <1>3, CaughtKept

\* Only the channel of w moves.
LEMMA OthersKept ==
  ASSUME ChannelTypeOK, PollTypeOK, NEW w \in Watchers, \A x \in Watchers : Caught(x),
         UNCHANGED <<adb, alive>>,
         \A x \in Watchers \ {w} : UNCHANGED <<view[x], out[x], poll[x], adbLog[x]>>
  PROVE  \A x \in Watchers \ {w} : Caught(x)'
  <1> SUFFICES ASSUME NEW x \in Watchers \ {w} PROVE Caught(x)'
    OBVIOUS
  <1>1. Caught(x) /\ UNCHANGED <<view[x], out[x], poll[x], adbLog[x]>>
    OBVIOUS
  <1>2. "adb" \in alive'[x] => "adb" \in alive[x] /\ adb' = adb
    OBVIOUS
  <1> QED
    BY <1>1, <1>2, CaughtKept

LEMMA ChangeCaught ==
  ASSUME TypeOK, \A w \in Watchers : Caught(w), NEW s \in Serials, ADBChange(s)
  PROVE  \A w \in Watchers : Caught(w)'
  <1> SUFFICES ASSUME NEW w \in Watchers PROVE Caught(w)'
    OBVIOUS
  <1> DEFINE change(state) == [id |-> s, was |-> adb[s], is |-> state]
  <1>1. PICK state \in States \ {adb[s]} :
          /\ adb' = [adb EXCEPT ![s] = state]
          /\ adbLog' = [x \in Watchers |->
               IF "adb" \in alive[x] THEN Append(adbLog[x], change(state)) ELSE adbLog[x]]
    BY DEF ADBChange
  <1>2. PICK states \in Reports, latest \in Reports :
          /\ Leads(view[w], out[w], Believed(w, states))
          /\ Says(states, adbLog[w], latest)
          /\ "adb" \in alive[w] => latest = adb
    BY DEF Caught
  <1>3. UNCHANGED <<view, out, poll, alive>>
    BY DEF ADBChange
  <1>4. adb' \in Reports /\ change(state) \in StateChange /\ Makes(change(state), adb, adb')
    BY <1>1 DEF TypeOK, WorldTypeOK, Reports, StateChange, Makes
  <1>5. Believed(w, states)' = Believed(w, states)
    BY <1>3 DEF Believed
  <1>6. CASE "adb" \in alive[w]
    <2>1. adbLog'[w] = Append(adbLog[w], change(state)) /\ adbLog[w] \in Seq(StateChange)
      BY <1>1, <1>6 DEF TypeOK, ChannelTypeOK
    <2>2. Says(states, adbLog'[w], adb')
      BY <1>2, <1>4, <1>6, <2>1, MoreSaid
    <2> QED
      BY <1>2, <1>3, <1>4, <1>5, <2>2 DEF Caught
  <1>7. CASE "adb" \notin alive[w]
    BY <1>1, <1>2, <1>3, <1>5, <1>7 DEF Caught
  <1> QED
    BY <1>6, <1>7

LEMMA RestartCaught ==
  ASSUME TypeOK, \A w \in Watchers : Caught(w), ADBRestart
  PROVE  \A w \in Watchers : Caught(w)'
  <1> SUFFICES ASSUME NEW w \in Watchers PROVE Caught(w)'
    OBVIOUS
  <1>1. PICK states \in Reports : Leads(view[w], out[w], Believed(w, states))
    BY DEF Caught
  <1>2. UNCHANGED <<view, out, poll>> /\ adbLog'[w] = <<>> /\ "adb" \notin alive'[w]
    BY DEF ADBRestart
  <1>3. Believed(w, states)' = Believed(w, states)
    BY <1>2 DEF Believed
  <1>4. Says(states, <<>>, states)
    BY NothingSaid
  <1> QED
    BY <1>1, <1>2, <1>3, <1>4 DEF Caught

\* A watcher sends one event, and knows more by just that.
LEMMA SentCaught ==
  ASSUME TypeOK, NEW w \in Watchers, NEW e \in Event, Send(w, e), UNCHANGED <<view, alive, adb>>,
         NEW states \in Reports, NEW next \in Reports, NEW latest \in Reports,
         Leads(view[w], out[w], Believed(w, states)),
         InTurn(Believed(w, states), e), Believed(w, next)' = After(Believed(w, states), e),
         Says(next, adbLog'[w], latest), "adb" \in alive[w] => latest = adb
  PROVE  Caught(w)'
  <1>1. out[w] \in Seq(Event) /\ out'[w] = Append(out[w], e)
    BY DEF TypeOK, ChannelTypeOK, Send
  <1>2. Leads(view[w], out'[w], Believed(w, next)')
    BY <1>1, LeadsFurther
  <1> QED
    BY <1>2 DEF Caught

LEMMA SentOthers ==
  ASSUME TypeOK, NEW w \in Watchers, NEW e, Send(w, e)
  PROVE  \A x \in Watchers \ {w} : out'[x] = out[x]
  BY DEF TypeOK, ChannelTypeOK, Send

LEMMA WatchADBCaught ==
  ASSUME TypeOK, \A w \in Watchers : Caught(w), NEW w \in Watchers, WatchADB(w)
  PROVE  \A x \in Watchers : Caught(x)'
  <1> DEFINE ev == Head(adbLog[w])
  <1> DEFINE e == Ev(TranslateStateChange(ev.was, ev.is), ev.id)
  <1>1. PICK states \in Reports, latest \in Reports :
          /\ Leads(view[w], out[w], Believed(w, states))
          /\ Says(states, adbLog[w], latest)
          /\ "adb" \in alive[w] => latest = adb
    BY DEF Caught
  <1>2. /\ adbLog \in [Watchers -> Seq(StateChange)]
        /\ adbLog[w] \in Seq(StateChange) /\ adbLog[w] # <<>>
        /\ adbLog' = [adbLog EXCEPT ![w] = Tail(@)] /\ Send(w, e)
        /\ UNCHANGED <<view, alive, adb, poll>>
    BY DEF WatchADB, TypeOK, ChannelTypeOK, worldVars
  <1>3. PICK next \in Reports : Makes(ev, states, next) /\ Says(next, Tail(adbLog[w]), latest)
    BY <1>1, <1>2, SaidOn
  <1>4. ev \in StateChange
    BY <1>2
  <1> HIDE DEF ev
  <1>5. /\ ev.id \in Serials /\ states[ev.id] = ev.was
        /\ next = [states EXCEPT ![ev.id] = ev.is] /\ states \in [Serials -> States]
    BY <1>3, <1>4 DEF StateChange, Makes, Reports
  <1>6. e \in Event /\ e.id = ev.id /\ e.type = TranslateStateChange(ev.was, ev.is)
    BY <1>5, TranslateType, EvType DEF Known
  <1> HIDE DEF e
  <1>7. ev.id \notin Told(poll[w]["mtp"]) \cup Told(poll[w]["block"])
    BY <1>5, Apart DEF Sources, TypeOK
  <1>8. Believed(w, next)' = Told(poll[w]["mtp"]) \cup Told(poll[w]["block"]) \cup Reported(next)
    BY <1>2 DEF Believed
  <1>9. InTurn(Believed(w, states), e)
    BY <1>5, <1>6, <1>7 DEF InTurn, Believed, Reported, TranslateStateChange
  <1>10. Believed(w, next)' = After(Believed(w, states), e)
    <2>1. CASE ev.is = "device" /\ ev.was # "device"
      <3>1. Reported(next) = Reported(states) \cup {ev.id} /\ e.type = "connected"
        BY <1>5, <1>6, <2>1 DEF Reported, TranslateStateChange
      <3> QED
        BY <1>6, <1>8, <3>1 DEF After, Believed
    <2>2. CASE ev.is # "device" /\ ev.was = "device"
      <3>1. Reported(next) = Reported(states) \ {ev.id} /\ e.type = "disconnected"
        BY <1>5, <1>6, <2>2 DEF Reported, TranslateStateChange
      <3> QED
        BY <1>6, <1>7, <1>8, <3>1 DEF After, Believed
    <2>3. CASE (ev.is = "device") <=> (ev.was = "device")
      <3>1. Reported(next) = Reported(states)
        BY <1>5, <2>3 DEF Reported
      <3>2. e.type # "connected" /\ e.type # "disconnected"
        BY <1>6, <2>3 DEF TranslateStateChange
      <3> QED
        BY <1>8, <3>1, <3>2 DEF After, Believed
    <2> QED
      BY <2>1, <2>2, <2>3
  <1>11. adbLog'[w] = Tail(adbLog[w]) /\ \A x \in Watchers \ {w} : adbLog'[x] = adbLog[x]
    BY <1>2
  <1>12. Caught(w)'
    BY <1>1, <1>2, <1>3, <1>6, <1>9, <1>10, <1>11, SentCaught
  <1>13. \A x \in Watchers \ {w} : UNCHANGED <<view[x], out[x], poll[x], adbLog[x]>>
    BY <1>2, <1>11, SentOthers
  <1>14. \A x \in Watchers \ {w} : Caught(x)'
    BY <1>2, <1>13, OthersKept DEF TypeOK
  <1> QED
    BY <1>12, <1>14

LEMMA PassOnCaught ==
  ASSUME TypeOK, Telling, NEW w \in Watchers, PassOn(w)
  PROVE  \A x \in Watchers : Caught(x)'
  <1>1. PICK states \in Reports, latest \in Reports :
          /\ Leads(view[w], out[w], Believed(w, states))
          /\ Says(states, adbLog[w], latest)
          /\ "adb" \in alive[w] => latest = adb
    BY DEF Telling, Caught
  <1>2. /\ held[w] \in Event /\ held[w].type = "refreshed" /\ Send(w, held[w])
        /\ UNCHANGED <<view, alive, adb, poll, adbLog>>
    BY DEF PassOn, TypeOK, ChannelTypeOK, Telling, BusRefreshes, worldVars
  <1>3. InTurn(Believed(w, states), held[w]) /\ Believed(w, states)' = After(Believed(w, states), held[w])
    BY <1>2 DEF InTurn, After, Believed
  <1>4. Caught(w)'
    BY <1>1, <1>2, <1>3, SentCaught
  <1>5. \A x \in Watchers \ {w} : UNCHANGED <<view[x], out[x], poll[x], adbLog[x]>>
    BY <1>2, SentOthers
  <1>6. \A x \in Watchers \ {w} : Caught(x)'
    BY <1>2, <1>5, OthersKept DEF TypeOK, Telling
  <1> QED
    BY <1>4, <1>6

LEMMA TickCaught ==
  ASSUME TypeOK, \A w \in Watchers : Caught(w), NEW w \in Watchers, NEW src \in Sources, Tick(w, src)
  PROVE  \A x \in Watchers : Caught(x)'
  <1> DEFINE p == Diff(poll[w][src].prev, present \cap Ids(src))
  <1>1. /\ poll' = [poll EXCEPT ![w][src] = p] /\ AllTold(poll[w][src])
        /\ UNCHANGED <<view, out, alive, adb, adbLog>>
    BY DEF Tick, worldVars
  <1>2. Told(p) = Told(poll[w][src])
    BY <1>1 DEF Diff, Told, AllTold
  <1>3. poll \in [Watchers -> [Sources ->
          [prev: SUBSET Scanned, gone: SUBSET Scanned, new: SUBSET Scanned]]]
    BY DEF TypeOK, PollTypeOK
  <1> HIDE DEF p
  <1>4. \A x \in Watchers, k \in Sources : Told(poll'[x][k]) = Told(poll[x][k])
    BY <1>1, <1>2, <1>3
  <1> SUFFICES ASSUME NEW x \in Watchers PROVE Caught(x)'
    OBVIOUS
  <1>5. PICK states \in Reports, latest \in Reports :
          /\ Leads(view[x], out[x], Believed(x, states))
          /\ Says(states, adbLog[x], latest)
          /\ "adb" \in alive[x] => latest = adb
    BY DEF Caught
  <1>6. Believed(x, states)' = Believed(x, states)
    BY <1>4 DEF Believed, Sources
  <1> QED
    BY <1>1, <1>5, <1>6 DEF Caught

LEMMA TellCaught ==
  ASSUME TypeOK, \A w \in Watchers : Caught(w), NEW w \in Watchers, NEW src \in Sources,
         NEW id \in Scanned, Tell(w, src, id)
  PROVE  \A x \in Watchers : Caught(x)'
  <1> DEFINE p == poll[w][src]
  <1> DEFINE q == [p EXCEPT !.gone = @ \ {id}, !.new = @ \ {id}]
  <1> DEFINE e == Ev(IF id \in p.gone THEN "disconnected" ELSE "connected", id)
  <1>1. PICK states \in Reports, latest \in Reports :
          /\ Leads(view[w], out[w], Believed(w, states))
          /\ Says(states, adbLog[w], latest)
          /\ "adb" \in alive[w] => latest = adb
    BY DEF Caught
  <1>2. /\ id \in ToTell(p) /\ Send(w, e)
        /\ poll' = [poll EXCEPT ![w][src].gone = @ \ {id}, ![w][src].new = @ \ {id}]
        /\ UNCHANGED <<view, alive, adb, adbLog>>
    BY DEF Tell, worldVars
  <1>3. /\ poll \in [Watchers -> [Sources ->
             [prev: SUBSET Scanned, gone: SUBSET Scanned, new: SUBSET Scanned]]]
        /\ p \in [prev: SUBSET Scanned, gone: SUBSET Scanned, new: SUBSET Scanned]
        /\ p.prev \cup p.gone \subseteq Ids(src) /\ p.new \subseteq p.prev /\ p.gone \cap p.prev = {}
    BY DEF TypeOK, PollTypeOK
  <1>4. e \in Event /\ e.id = id /\ e.type = IF id \in p.gone THEN "disconnected" ELSE "connected"
    BY EvType DEF Known
  <1>5. q.prev = p.prev /\ q.gone = p.gone \ {id} /\ q.new = p.new \ {id}
    BY <1>3
  <1>6. poll' = [poll EXCEPT ![w][src] = q]
    BY <1>2
  <1> HIDE DEF q, e
  <1>7. poll'[w][src] = q /\ \A k \in Sources \ {src} : poll'[w][k] = poll[w][k]
    BY <1>3, <1>6
  <1>8. \A x \in Watchers \ {w} : poll'[x] = poll[x]
    BY <1>3, <1>6
  <1> HIDE DEF p
  <1>9. id \in Ids(src) /\ (id \in p.gone \/ (p.gone = {} /\ id \in p.new))
    BY <1>2, <1>3 DEF ToTell
  <1>10. /\ id \in Told(p) <=> id \in p.gone
         /\ Told(q) = IF id \in p.gone THEN Told(p) \ {id} ELSE Told(p) \cup {id}
    BY <1>3, <1>5, <1>9 DEF Told
  <1>11. PICK other \in Sources : other # src
    BY DEF Sources
  <1>12. id \notin Told(poll[w][other]) /\ id \notin Reported(states)
    BY <1>9, <1>11, Apart DEF Reported, TypeOK
  <1>13. /\ Believed(w, states) = Told(p) \cup Told(poll[w][other]) \cup Reported(states)
         /\ Believed(w, states)' = Told(q) \cup Told(poll[w][other]) \cup Reported(states)
    BY <1>7, <1>11 DEF Sources, Believed, p
  <1>14. InTurn(Believed(w, states), e)
    BY <1>4, <1>10, <1>12, <1>13 DEF InTurn
  <1>15. Believed(w, states)' = After(Believed(w, states), e)
    BY <1>4, <1>10, <1>12, <1>13 DEF After
  <1>16. Says(states, adbLog'[w], latest)
    BY <1>1, <1>2
  <1>17. Caught(w)'
    BY <1>1, <1>2, <1>4, <1>14, <1>15, <1>16, SentCaught
  <1>18. \A x \in Watchers \ {w} : UNCHANGED <<view[x], out[x], poll[x], adbLog[x]>>
    BY <1>2, <1>8, SentOthers
  <1>19. \A x \in Watchers \ {w} : Caught(x)'
    BY <1>2, <1>18, OthersKept DEF TypeOK
  <1> QED
    BY <1>17, <1>19

LEMMA ReadsCaught ==
  ASSUME TypeOK, \A w \in Watchers : Caught(w), NEW w \in Watchers, Reads(w)
  PROVE  \A x \in Watchers : Caught(x)'
  <1> DEFINE e == Head(out[w])
  <1>1. PICK states \in Reports, latest \in Reports :
          /\ Leads(view[w], out[w], Believed(w, states))
          /\ Says(states, adbLog[w], latest)
          /\ "adb" \in alive[w] => latest = adb
    BY DEF Caught
  <1>2. /\ out[w] \in Seq(Event) /\ out[w] # <<>> /\ out' = [out EXCEPT ![w] = Tail(@)]
        /\ Heard(w, e) /\ UNCHANGED <<alive, adb, poll, adbLog>>
        /\ out \in [Watchers -> Seq(Event)] /\ view \in [Watchers -> SUBSET Known]
    BY DEF Reads, TypeOK, ChannelTypeOK, worldVars
  <1>3. Leads(After(view[w], e), Tail(out[w]), Believed(w, states))
    BY <1>1, <1>2, LeadsOn
  <1> HIDE DEF e
  <1>4. view'[w] = After(view[w], e) /\ \A x \in Watchers \ {w} : view'[x] = view[x]
    BY <1>2 DEF Heard, After
  <1>5. out'[w] = Tail(out[w]) /\ \A x \in Watchers \ {w} : out'[x] = out[x]
    BY <1>2
  <1>6. Believed(w, states)' = Believed(w, states)
    BY <1>2 DEF Believed
  <1>7. /\ Leads(view'[w], out'[w], Believed(w, states)')
        /\ Says(states, adbLog'[w], latest) /\ ("adb" \in alive'[w] => latest = adb')
    BY <1>1, <1>2, <1>3, <1>4, <1>5, <1>6
  <1>8. Caught(w)'
    BY <1>7 DEF Caught
  <1>9. \A x \in Watchers \ {w} : UNCHANGED <<view[x], out[x], poll[x], adbLog[x]>>
    BY <1>2, <1>4, <1>5
  <1>10. \A x \in Watchers \ {w} : Caught(x)'
    BY <1>2, <1>9, OthersKept DEF TypeOK
  <1> QED
    BY <1>8, <1>10

LEMMA CaughtStep ==
  ASSUME TypeOK, Telling, OneStep
  PROVE  \A w \in Watchers : Caught(w)'
  <1>0. \A w \in Watchers : Caught(w)
    BY DEF Telling
  <1>1. ASSUME NEW id \in Scanned, Appear(id) \/ Disappear(id) PROVE \A w \in Watchers : Caught(w)'
    BY <1>0, <1>1, AllKept DEF Appear, Disappear, watchVars
  <1>2. ASSUME NEW s \in Serials, ADBChange(s) PROVE \A w \in Watchers : Caught(w)'
    BY <1>0, <1>2, ChangeCaught
  <1>3. ASSUME NEW id \in MTPIds, Classified(id) PROVE \A w \in Watchers : Caught(w)'
    BY <1>0, <1>3, AllKept DEF Classified
  <1>4. ASSUME ADBRestart PROVE \A w \in Watchers : Caught(w)'
    BY <1>0, <1>4, RestartCaught
  <1>5. ASSUME Cancel PROVE \A w \in Watchers : Caught(w)'
    BY <1>0, <1>5, AllKept DEF Cancel, watchVars
  <1>6. ASSUME NEW c \in Clients, Client(c)
        PROVE  \A w \in Watchers : Caught(w)'
    BY <1>0, <1>6, AllKept DEF Client, Subscribe, HangUp, Deliver, CloseSub, worldVars, watchVars
  <1>7. ASSUME NEW w \in Watchers, TakeBus(w) \/ CloseOut(w) PROVE \A x \in Watchers : Caught(x)'
    BY <1>0, <1>7, AllKept DEF TakeBus, CloseOut, worldVars
  <1>8. ASSUME NEW w \in Watchers, NEW g \in Goroutines, Leave(w, g)
        PROVE  \A x \in Watchers : Caught(x)'
    <2>1. \A x \in Watchers : alive'[x] \subseteq alive[x]
      BY <1>8 DEF Leave, TypeOK, GoroutineTypeOK
    <2> QED
      BY <1>0, <1>8, <2>1, AllKept DEF Leave, worldVars
  <1>9. ASSUME NEW w \in Watchers, WatchADB(w) PROVE \A x \in Watchers : Caught(x)'
    BY <1>0, <1>9, WatchADBCaught
  <1>10. ASSUME NEW w \in Watchers, PassOn(w) PROVE \A x \in Watchers : Caught(x)'
    BY <1>10, PassOnCaught
  <1>11. ASSUME NEW w \in Watchers, NEW src \in Sources, Tick(w, src)
         PROVE  \A x \in Watchers : Caught(x)'
    BY <1>0, <1>11, TickCaught
  <1>12. ASSUME NEW w \in Watchers, NEW src \in Sources, NEW id \in Scanned, Tell(w, src, id)
         PROVE  \A x \in Watchers : Caught(x)'
    BY <1>0, <1>12, TellCaught
  <1>13. ASSUME NEW w \in Watchers, Reads(w) PROVE \A x \in Watchers : Caught(x)'
    BY <1>0, <1>13, ReadsCaught
  <1>p. ASSUME NEW p \in Pages, Loads(p) PROVE \A w \in Watchers : Caught(w)'
    BY <1>p, LoadsKeep, <1>0, AllKept DEF worldVars, watchVars
  <1> QED
    BY <1>1, <1>p, <1>2, <1>3, <1>4, <1>5, <1>6, <1>7, <1>8, <1>9, <1>10, <1>11, <1>12, <1>13 DEF OneStep

LEMMA BusStep == ASSUME TypeOK, BusRefreshes, OneStep PROVE BusRefreshes'
  <1> USE DEF BusRefreshes
  <1>t. eventBus \in Seq(Event) /\ held \in [Watchers -> Event \cup {NoEvent}]
    BY DEF TypeOK, ChannelTypeOK
  <1>0. ASSUME UNCHANGED <<held, eventBus>> PROVE BusRefreshes'
    BY <1>0
  <1>1. ASSUME NEW id \in Scanned, Appear(id) \/ Disappear(id) PROVE BusRefreshes'
    BY <1>1, <1>0 DEF Appear, Disappear, watchVars
  <1>2. ASSUME NEW s \in Serials, ADBChange(s) PROVE BusRefreshes'
    BY <1>2, <1>0 DEF ADBChange
  <1>3. ASSUME NEW id \in MTPIds, Classified(id) PROVE BusRefreshes'
    <2>1. Ev("refreshed", id) \in Event /\ Ev("refreshed", id).type = "refreshed"
      BY EvType DEF Known, Scanned
    <2>2. \A i \in 1..Len(eventBus') : eventBus'[i].type = "refreshed"
      BY <1>t, <1>3, <2>1 DEF Classified
    <2> QED
      BY <1>3, <2>2 DEF Classified
  <1>4. ASSUME ADBRestart \/ Cancel PROVE BusRefreshes'
    BY <1>4, <1>0 DEF ADBRestart, Cancel, watchVars
  <1>5. ASSUME NEW c \in Clients, Client(c)
        PROVE  BusRefreshes'
    BY <1>5, <1>0 DEF Client, Subscribe, HangUp, Deliver, CloseSub, watchVars
  <1>6. ASSUME NEW w \in Watchers, WatchADB(w) \/ CloseOut(w) \/ Reads(w) PROVE BusRefreshes'
    BY <1>6, <1>0 DEF WatchADB, CloseOut, Reads
  <1>7. ASSUME NEW w \in Watchers, TakeBus(w) PROVE BusRefreshes'
    <2>1. /\ Head(eventBus).type = "refreshed"
          /\ \A i \in 1..Len(Tail(eventBus)) : Tail(eventBus)[i].type = "refreshed"
      BY <1>t, <1>7 DEF TakeBus
    <2> QED
      BY <1>t, <1>7, <2>1 DEF TakeBus
  <1>8. ASSUME NEW w \in Watchers, PassOn(w) PROVE BusRefreshes'
    BY <1>t, <1>8 DEF PassOn
  <1>9. ASSUME NEW w \in Watchers, NEW src \in Sources,
               Tick(w, src) \/ \E id \in Scanned : Tell(w, src, id)
        PROVE  BusRefreshes'
    BY <1>9, <1>0 DEF Tick, Tell
  <1>10. ASSUME NEW w \in Watchers, NEW g \in Goroutines, Leave(w, g) PROVE BusRefreshes'
    BY <1>10, <1>0 DEF Leave
  <1>p. ASSUME NEW p \in Pages, Loads(p) PROVE BusRefreshes'
    BY <1>p, LoadsKeep, <1>0 DEF watchVars
  <1> QED
    BY <1>1, <1>p, <1>2, <1>3, <1>4, <1>5, <1>6, <1>7, <1>8, <1>9, <1>10 DEF OneStep

LEMMA TellingStep == ASSUME TypeOK, Watching, Telling, [Next]_vars PROVE Telling'
  <1>1. CASE Next
    BY <1>1, StepCases, CaughtStep, BusStep DEF Telling
  <1>2. CASE UNCHANGED vars
    <2>1. UNCHANGED <<view, out, poll, adbLog, adb, alive, held, eventBus>>
      BY <1>2 DEF vars, worldVars, watchVars
    <2> QED
      BY <2>1, AllKept DEF Telling, BusRefreshes
  <1> QED
    BY <1>1, <1>2

LEMMA TellingInit == ASSUME Init PROVE Telling
  <1>1. BusRefreshes
    BY DEF Init, BusRefreshes
  <1>2. ASSUME NEW w \in Watchers PROVE Caught(w)
    <2>1. adb \in Reports /\ view[w] = {} /\ out[w] = <<>> /\ adbLog[w] = <<>>
      BY DEF Init, Reports, States
    <2>2. \A src \in Sources : Told(poll[w][src]) = {}
      BY DEF Init, Fresh, Told
    <2>3. Reported(adb) = {}
      BY DEF Init, Reported
    <2>4. Believed(w, adb) = {}
      BY <2>2, <2>3 DEF Believed, Sources
    <2>5. Leads({}, <<>>, {}) /\ Says(adb, <<>>, adb)
      BY <2>1, LeadsNowhere, NothingSaid
    <2> QED
      BY <2>1, <2>4, <2>5 DEF Caught
  <1> QED
    BY <1>1, <1>2 DEF Telling

\* Every reader of Watch hears of a device that it came and that it went
\* strictly in turns, for every number of devices and every capacity, however
\* long a goroutine was blocked in a send and whatever was pulled, inserted or
\* restarted meanwhile: what waits in its channel leads from what it knows to
\* what its pollers and its adb watcher believe (Caught).
THEOREM ToldInTurns == Spec => InTurns
  <1>1. Init => TypeOK /\ Watching /\ Telling
    BY EventsInit, TellingInit
  <1>2. TypeOK /\ Watching /\ Telling /\ [Next]_vars => (TypeOK /\ Watching /\ Telling)'
    BY EventsStep, TellingStep
  <1>3. TypeOK /\ Telling =>
          [\A w \in Watchers :
             out[w] # <<>> /\ out'[w] = Tail(out[w]) =>
               LET e == Head(out[w])
               IN /\ e.type = "connected" => e.id \notin view[w]
                  /\ e.type = "disconnected" => e.id \in view[w]]_vars
    BY CaughtInTurns DEF InTurn, TypeOK
  <1> QED
    BY <1>1, <1>2, <1>3, PTL DEF Spec, InTurns
=============================================================================
