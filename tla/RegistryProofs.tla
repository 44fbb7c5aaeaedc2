--------------------------- MODULE RegistryProofs ---------------------------
(***************************************************************************)
(* Theorems of module Registry, for every set of devices, handles,         *)
(* requests and volumes and every bound.                                   *)
(***************************************************************************)
EXTENDS Registry, TLAPS

-----------------------------------------------------------------------------
(* Type correctness.  TypeOK alone is not inductive: that the walk Refresh *)
(* starts for a registered handle fits the device needs RegisteredOpen.    *)

\* A fresh daemon's variables have their types.
LEMMA InitTypeOK == Init => TypeOK
<1> USE RegistryAssumption, VolumeAssumption
<1> SUFFICES ASSUME Init PROVE TypeOK
  OBVIOUS
<1> DEFINE s0 == CHOOSE s \in Serials : TRUE
<1>0. s0 \in Serials
  OBVIOUS
<1> HIDE DEF s0
<1>1. VolTypeOK
  BY DEF Init, VolInit, VolTypeOK, VolState, MSVolume, NoMSVolume
<1>2. EnvTypeOK /\ up \in BOOLEAN
  BY DEF Init, EnvTypeOK, Addr
<1>3. RefTypeOK
  BY DEF Init, DaemonInit, RefTypeOK
<1>4. MapTypeOK
  BY DEF Init, DaemonInit, NoEntry, Entry, MapTypeOK
<1>6. Unused \in Device /\ Unused.serial \in Serials
  BY <1>0 DEF Unused, Device, Addr, s0
<1>7. handle \in [Handles -> Device]
  BY <1>6 DEF Init, DaemonInit
<1>8. /\ walk \in [Handles -> Walk] /\ closing \subseteq Handles
      /\ \A h \in Handles : walk[h] = NoWalk /\ handle[h].st = "unused"
  BY <1>6 DEF Unused, Init, DaemonInit, NoWalk, Walk, Kinds
<1>9. IdleRequest \in Request
  BY <1>0 DEF IdleRequest, Request, s0
<1>10. req \in [Requests -> Request]
  BY <1>9 DEF Init, DaemonInit
<1> QED
  BY <1>1, <1>2, <1>3, <1>4, <1>7, <1>8, <1>10 DEF TypeOK, DevTypeOK, WalksFit

\* A group of variables that does not change keeps its types.
LEMMA Frames ==
  ASSUME TypeOK
  PROVE  /\ UNCHANGED volVars => VolTypeOK'
         /\ UNCHANGED envVars => EnvTypeOK'
         /\ UNCHANGED refVars => RefTypeOK'
         /\ UNCHANGED mapVars => MapTypeOK'
         /\ UNCHANGED devVars => DevTypeOK'
         /\ UNCHANGED up => (up \in BOOLEAN)'
         /\ UNCHANGED req => (req \in [Requests -> Request])'
         /\ UNCHANGED <<port, addr, adb>> /\ (UNCHANGED faults \/ Fault) => EnvTypeOK'
<1>1. /\ UNCHANGED volVars => VolTypeOK'
      /\ UNCHANGED envVars => EnvTypeOK'
      /\ UNCHANGED refVars => RefTypeOK'
  BY DEF TypeOK, VolTypeOK, volVars, EnvTypeOK, envVars, RefTypeOK, refVars
<1>2. /\ UNCHANGED mapVars => MapTypeOK'
      /\ UNCHANGED devVars => DevTypeOK'
  BY DEF TypeOK, MapTypeOK, mapVars, DevTypeOK, devVars, WalksFit
<1>3. UNCHANGED <<port, addr, adb>> /\ (UNCHANGED faults \/ Fault) => EnvTypeOK'
  BY RegistryAssumption DEF TypeOK, EnvTypeOK, Fault
<1> QED
  BY <1>1, <1>2, <1>3 DEF TypeOK

\* The user, the kernel and the adb server keep the types.
LEMMA EnvironmentTypeOK ==
  ASSUME TypeOK, Environment
  PROVE  TypeOK'
<1> USE Frames, RegistryAssumption, VolumeAssumption
<1>1. ASSUME NEW s \in Serials, Plug(s) \/ Unplug(s) \/ ADBChange(s) PROVE TypeOK'
  <2>1. ASSUME Plug(s) PROVE EnvTypeOK'
    <3>1. addr + 1 \in Addr /\ addr' = addr + 1 /\ port' = [port EXCEPT ![s] = addr + 1]
      BY <2>1 DEF Plug, TypeOK, EnvTypeOK, Addr
    <3> QED
      BY <2>1, <3>1 DEF Plug, TypeOK, EnvTypeOK
  <2>2. ASSUME Unplug(s) PROVE EnvTypeOK'
    BY <2>2 DEF Unplug, TypeOK, EnvTypeOK, Addr
  <2>3. ASSUME ADBChange(s) PROVE EnvTypeOK'
    BY <2>3 DEF ADBChange, TypeOK, EnvTypeOK
  <2>4. EnvTypeOK'
    BY <1>1, <2>1, <2>2, <2>3
  <2> QED
    BY <1>1, <2>4 DEF Plug, Unplug, ADBChange, TypeOK
<1>2. ASSUME NEW v \in Volumes, InsertVolume(v) \/ EjectVolume(v) PROVE TypeOK'
  <2>1. vol[v].gen \in 0..MaxInserts /\ vol[v].here \in BOOLEAN
    BY DEF TypeOK, VolTypeOK, VolState
  <2>2. ASSUME InsertVolume(v) PROVE VolTypeOK'
    <3>1. /\ vol' = [vol EXCEPT ![v] = [here |-> TRUE, gen |-> vol[v].gen + 1]]
          /\ vol[v].gen + 1 \in 0..MaxInserts /\ UNCHANGED <<msVolumes, mounts>>
      BY <2>1, <2>2 DEF InsertVolume, Insert
    <3> QED
      BY <3>1 DEF TypeOK, VolTypeOK, VolState
  <2>3. ASSUME EjectVolume(v) PROVE VolTypeOK'
    <3>1. vol' \in [Volumes -> VolState] /\ UNCHANGED <<msVolumes, mounts>>
      BY <2>3 DEF EjectVolume, Eject, TypeOK, VolTypeOK, VolState
    <3> QED
      BY <2>1, <3>1 DEF TypeOK, VolTypeOK, VolState
  <2>4. VolTypeOK'
    BY <1>2, <2>2, <2>3
  <2> QED
    BY <1>2, <2>4 DEF InsertVolume, EjectVolume, TypeOK
<1> QED
  BY <1>1, <1>2, RegistryAssumption DEF Environment, RegistryAssumption

\* Every entry and controller a Refresh stores has its type.
LEMMA ControllerType ==
  ASSUME TypeOK, NEW s \in Serials, NEW h \in Handles
  PROVE  Controller(s, h) \in Handles /\ MTPEntry(Controller(s, h)) \in Entry
BY DEF TypeOK, MapTypeOK, Controller, MTPEntry, Entry

\* controllerFor keeps the types of the cache and of the walks, and starts at
\* most the walk of the handle it is given.
LEMMA ControllerForType ==
  ASSUME TypeOK, NEW s \in Serials, NEW h \in Handles, ControllerFor(s, h)
  PROVE  /\ ctrl' \in [Serials -> Handles \cup {NoHandle}]
         /\ walk' \in [Handles -> Walk]
         /\ \A x \in Handles \ {h} : walk'[x] = walk[x]
         /\ walk'[h] = walk[h] \/ walk'[h].at = 0
<1>1. KickedOff \in Walk /\ KickedOff.at = 0
  BY DEF KickedOff, NoWalk, Walk, Kinds
<1> QED
  BY <1>1, ControllerType DEF TypeOK, MapTypeOK, DevTypeOK, ControllerFor

\* Closing a handle keeps the types.
LEMMA CloseType ==
  ASSUME TypeOK, NEW h \in Handles, Open(h), Close(h), UNCHANGED walk, closing' \subseteq Handles
  PROVE  DevTypeOK'
<1>1. handle' \in [Handles -> Device]
  BY DEF Close, TypeOK, DevTypeOK, Device
<1>2. \A x \in Handles : /\ handle'[x].serial = handle[x].serial
                         /\ x # h => handle'[x].st = handle[x].st
                         /\ x = h => handle'[x].st = "closed" /\ handle[x].st = "open"
  BY DEF Close, Open, TypeOK, DevTypeOK, Device
<1> QED
  BY <1>1, <1>2 DEF TypeOK, DevTypeOK, WalksFit

\* The steps of Refresh keep the types.
LEMMA RefreshTypeOK ==
  ASSUME TypeOK, RegisteredOpen, Refresh
  PROVE  TypeOK'
<1> USE Frames, RegistryAssumption, VolumeAssumption
<1>0. /\ \A s \in Serials : Len(Layout[s]) \in Nat
      /\ \A h \in Handles : handle[h].serial \in Serials /\ walk[h].at \in Nat
      /\ \A s \in Serials : openMTP[s] # NoHandle => openMTP[s] \in Handles /\ Open(openMTP[s])
  BY DEF TypeOK, DevTypeOK, MapTypeOK, Device, Walk, RegisteredOpen
<1>1. ASSUME NEW a \in Requests \cup {Ticker}, RefreshBegin(a) PROVE TypeOK'
  <2>1. NoEntry \in Entry /\ \A s \in Serials : ADBEntry(adb[s]) \in Entry
    BY DEF NoEntry, ADBEntry, Entry
  <2>2. MapTypeOK'
    BY <1>1, <2>1 DEF RefreshBegin, TypeOK, MapTypeOK
  <2>3. RefTypeOK'
    BY <1>1 DEF RefreshBegin, TypeOK, RefTypeOK
  <2> QED
    BY <1>1, <2>2, <2>3 DEF TypeOK, RefreshBegin
<1>2. CASE RefreshList
  <2>1. RefTypeOK'
    BY <1>2 DEF RefreshList, TypeOK, RefTypeOK, EnvTypeOK, Plugged, RawDevice, Addr
  <2> QED
    BY <1>2, <2>1 DEF RefreshList, TypeOK
<1>3. ASSUME NEW md \in pending, NEW s \in Serials, VisitKeep(md, s) PROVE TypeOK'
  <2>1. openMTP[s] \in Handles /\ handle[openMTP[s]].st = "open"
    BY <1>0, <1>3 DEF VisitKeep, OpenAt, Open
  <2>2. /\ ctrl' \in [Serials -> Handles \cup {NoHandle}]
        /\ walk' \in [Handles -> Walk]
        /\ \A x \in Handles \ {openMTP[s]} : walk'[x] = walk[x]
        /\ walk'[openMTP[s]] = walk[openMTP[s]] \/ walk'[openMTP[s]].at = 0
    BY <1>3, <2>1, ControllerForType DEF VisitKeep
  <2>3. MapTypeOK'
    BY <1>3, <2>1, <2>2, ControllerType DEF TypeOK, MapTypeOK, VisitKeep, Serving
  <2>4. handle' = handle /\ closing' = closing
    BY <1>3 DEF VisitKeep
  <2>5. WalksFit'
    <3> SUFFICES ASSUME NEW x \in Handles
                 PROVE  IF handle[x].st = "unused" THEN walk'[x] = NoWalk
                        ELSE walk'[x].at <= Len(Layout[handle[x].serial])
      BY <2>4 DEF WalksFit
    <3>1. IF handle[x].st = "unused" THEN walk[x] = NoWalk
          ELSE walk[x].at <= Len(Layout[handle[x].serial])
      BY DEF TypeOK, DevTypeOK, WalksFit
    <3>2. CASE walk'[x] = walk[x]
      BY <3>1, <3>2
    <3>3. CASE x = openMTP[s] /\ walk'[x].at = 0
      BY <1>0, <2>1, <3>3
    <3> QED
      BY <2>2, <3>2, <3>3
  <2>6. RefTypeOK'
    BY <1>3 DEF VisitKeep, TypeOK, RefTypeOK
  <2> QED
    BY <1>3, <2>2, <2>3, <2>4, <2>5, <2>6 DEF VisitKeep, TypeOK, DevTypeOK
<1>4. ASSUME NEW md \in pending, NEW s \in Serials, VisitStale(md, s) PROVE TypeOK'
  <2>1. DevTypeOK'
    BY <1>0, <1>4, CloseType DEF VisitStale, OpenAt, TypeOK, DevTypeOK
  <2>2. MapTypeOK'
    BY <1>4 DEF VisitStale, HandlesWithout, ControllersWithout, TypeOK, MapTypeOK
  <2> QED
    BY <1>4, <2>1, <2>2 DEF VisitStale, TypeOK
<1>5. ASSUME NEW md \in pending, VisitOpen(md) PROVE TypeOK'
  <2> DEFINE h == CHOOSE x \in Handles : handle[x].st = "unused"
             s == md.serial
  <2>1. /\ h \in Handles /\ handle[h].st = "unused" /\ walk[h].at = 0
        /\ s \in Serials /\ md.addr \in Addr
    BY <1>5 DEF TypeOK, RefTypeOK, DevTypeOK, WalksFit, VisitOpen, RawDevice, NoWalk, Addr
  <2>2. /\ handle' = [handle EXCEPT ![h] = [serial |-> s, addr |-> md.addr, st |-> "open"]]
        /\ seen' = seen \cup {s} /\ openMTP' = [openMTP EXCEPT ![s] = h]
        /\ devices' = [devices EXCEPT ![s] = MTPEntry(Controller(s, h))]
        /\ ControllerFor(s, h)
    BY <1>5 DEF VisitOpen, Serving
  <2> HIDE DEF h, s
  <2>3. /\ ctrl' \in [Serials -> Handles \cup {NoHandle}]
        /\ walk' \in [Handles -> Walk]
        /\ \A x \in Handles \ {h} : walk'[x] = walk[x]
        /\ walk'[h].at = 0
    BY <2>1, <2>2, ControllerForType
  <2>4. MapTypeOK'
    <3>1. MTPEntry(Controller(s, h)) \in Entry
      BY <2>1, ControllerType
    <3>2. UNCHANGED devVolumes
      BY <1>5 DEF VisitOpen
    <3> QED
      BY <2>1, <2>2, <2>3, <3>1, <3>2 DEF TypeOK, MapTypeOK
  <2>5. handle' \in [Handles -> Device]
    BY <2>1, <2>2 DEF TypeOK, DevTypeOK, Device
  <2>6. WalksFit'
    <3>1. \A x \in Handles \ {h} : handle'[x] = handle[x]
      BY <2>1, <2>2 DEF TypeOK, DevTypeOK
    <3>2. handle'[h].st = "open" /\ handle'[h].serial = s
      BY <2>1, <2>2 DEF TypeOK, DevTypeOK
    <3> QED
      BY <1>0, <2>1, <2>3, <3>1, <3>2 DEF TypeOK, DevTypeOK, WalksFit
  <2>7. RefTypeOK'
    BY <1>5, <2>1, <2>2 DEF VisitOpen, TypeOK, RefTypeOK
  <2> QED
    BY <1>5, <2>3, <2>4, <2>5, <2>6, <2>7 DEF VisitOpen, TypeOK, DevTypeOK
<1>6. ASSUME NEW md \in pending, VisitOpenFails(md) PROVE TypeOK'
  <2>1. RefTypeOK'
    BY <1>6 DEF VisitOpenFails, TypeOK, RefTypeOK
  <2> QED
    BY <1>6, <2>1 DEF VisitOpenFails, TypeOK
<1>7. CASE RefreshSweep
  <2>1. NoEntry \in Entry
    BY DEF NoEntry, Entry
  <2>2. MapTypeOK'
    BY <1>7, <2>1 DEF RefreshSweep, HandlesWithout, ControllersWithout, TypeOK, MapTypeOK
  <2>3. closing' \subseteq Handles /\ UNCHANGED <<handle, walk>>
    BY <1>0, <1>7 DEF RefreshSweep, Unseen, TypeOK, DevTypeOK
  <2>4. DevTypeOK'
    BY <2>3 DEF TypeOK, DevTypeOK, WalksFit
  <2>5. RefTypeOK'
    BY <1>7 DEF RefreshSweep, TypeOK, RefTypeOK
  <2> QED
    BY <1>7, <2>2, <2>4, <2>5 DEF RefreshSweep, TypeOK
<1>8. CASE RefreshScan
  <2>1. VolTypeOK' /\ devVolumes' \subseteq Volumes
    <3>1. CASE ScanFails /\ UNCHANGED devVolumes
      BY <3>1 DEF ScanFails, TypeOK, MapTypeOK
    <3>2. ASSUME NEW failing, ScanMassStorage(failing), devVolumes' = Registered(msVolumes')
          PROVE VolTypeOK' /\ devVolumes' \subseteq Volumes
      <4>1. \A v \in Volumes : vol[v].gen \in 0..MaxInserts
        BY DEF TypeOK, VolTypeOK, VolState
      <4>2. NoMSVolume \in MSVolume /\ \A v \in Volumes : ProbeVolume(v, v \in failing) \in MSVolume
        BY <4>1 DEF NoMSVolume, MSVolume, ProbeVolume
      <4>3. msVolumes' \in [Volumes -> MSVolume]
        BY <3>2, <4>2 DEF ScanMassStorage, TypeOK, VolTypeOK
      <4>4. mounts' \in [Volumes -> 0..MaxInserts]
        BY <3>2, <4>1 DEF ScanMassStorage, TypeOK, VolTypeOK
      <4> QED
        BY <3>2, <4>3, <4>4 DEF ScanMassStorage, Registered, TypeOK, VolTypeOK
    <3> QED
      BY <1>8, <3>1, <3>2 DEF RefreshScan
  <2>2. EnvTypeOK'
    BY <1>8 DEF RefreshScan
  <2>3. RefTypeOK'
    BY <1>8 DEF RefreshScan, TypeOK, RefTypeOK
  <2>4. MapTypeOK'
    BY <1>8, <2>1 DEF RefreshScan, TypeOK, MapTypeOK
  <2>5. (req \in [Requests -> Request])'
    BY <1>8 DEF RefreshScan, TypeOK, Request
  <2> QED
    BY <1>8, <2>1, <2>2, <2>3, <2>4, <2>5 DEF RefreshScan, TypeOK
<1> QED
  BY <1>1, <1>2, <1>3, <1>4, <1>5, <1>6, <1>7, <1>8 DEF Refresh, Visit

\* A walk that ends keeps the types.
LEMMA FinishType ==
  ASSUME TypeOK, NEW h \in Handles, walk[h].pc # "none", NEW kind \in Kinds, NEW err \in BOOLEAN,
         NEW missed \in BOOLEAN, Finish(h, kind, err, missed), UNCHANGED <<handle, closing>>
  PROVE  DevTypeOK'
<1> DEFINE w == [NoWalk EXCEPT !.pc = "done", !.kind = kind, !.err = err, !.missed = missed]
<1>1. w \in Walk /\ w.at = 0
  BY DEF NoWalk, Walk, Kinds
<1>2. handle[h].st # "unused"
  BY DEF TypeOK, DevTypeOK, WalksFit, NoWalk
<1>3. walk' = [walk EXCEPT ![h] = w]
  BY DEF Finish
<1> HIDE DEF w
<1>4. Len(Layout[handle[h].serial]) \in Nat
  BY RegistryAssumption DEF TypeOK, DevTypeOK, Device
<1>5. WalksFit'
  BY <1>1, <1>2, <1>3, <1>4 DEF TypeOK, DevTypeOK, WalksFit
<1> QED
  BY <1>1, <1>3, <1>5 DEF TypeOK, DevTypeOK

\* A walk that goes on to the next storage finds one.
LEMMA AdvanceType ==
  ASSUME TypeOK, NEW h \in Handles, walk[h].pc # "none", NEW dcim \in BOOLEAN,
         NEW missed \in BOOLEAN, Advance(h, dcim, missed), UNCHANGED <<handle, closing>>
  PROVE  DevTypeOK'
<1>1. CASE LastStorage(h)
  BY <1>1, FinishType DEF Advance, Kinds
<1>2. CASE ~LastStorage(h)
  <2>1. /\ handle[h].st # "unused"
        /\ walk[h].at <= Len(Layout[handle[h].serial])
        /\ walk[h] \in Walk
    BY DEF TypeOK, DevTypeOK, WalksFit, NoWalk
  <2>2. Len(Layout[handle[h].serial]) \in Nat /\ walk[h].at \in Nat
    BY <2>1, RegistryAssumption DEF TypeOK, DevTypeOK, Device, Walk
  <2>3. walk[h].at # Len(Layout[handle[h].serial])
    BY <1>2 DEF LastStorage, Storages
  <2> DEFINE w == [pc |-> "children", at |-> walk[h].at + 1, dcim |-> dcim, kind |-> "none",
                   err |-> FALSE, missed |-> missed]
  <2>4. walk' = [walk EXCEPT ![h] = w]
    BY <1>2 DEF Advance
  <2>w. w \in Walk /\ w.at = walk[h].at + 1
    BY <2>1, <2>2 DEF Walk, Kinds
  <2> HIDE DEF w
  <2>5. walk' \in [Handles -> Walk]
    BY <2>w, <2>4 DEF TypeOK, DevTypeOK
  <2>6. /\ walk'[h].at = walk[h].at + 1
        /\ \A x \in Handles \ {h} : walk'[x] = walk[x]
    BY <2>w, <2>4 DEF TypeOK, DevTypeOK
  <2>7. WalksFit'
    BY <2>1, <2>2, <2>3, <2>6 DEF TypeOK, DevTypeOK, WalksFit
  <2> QED
    BY <2>5, <2>7 DEF TypeOK, DevTypeOK
<1> QED
  BY <1>1, <1>2

\* A walk that looks into a storage keeps the types.
LEMMA LookType ==
  ASSUME TypeOK, NEW h \in Handles, walk[h].pc # "none", NEW w \in Walk, w.at = walk[h].at,
         walk' = [walk EXCEPT ![h] = w], UNCHANGED <<handle, closing>>
  PROVE  DevTypeOK'
<1>1. walk' \in [Handles -> Walk]
  BY DEF TypeOK, DevTypeOK
<1>2. \A x \in Handles : walk'[x].at = walk[x].at /\ (x # h => walk'[x] = walk[x])
  BY DEF TypeOK, DevTypeOK
<1>3. handle[h].st # "unused"
  BY DEF TypeOK, DevTypeOK, WalksFit, NoWalk
<1>4. WalksFit'
  BY <1>2, <1>3 DEF TypeOK, DevTypeOK, WalksFit
<1> QED
  BY <1>1, <1>4 DEF TypeOK, DevTypeOK

\* The classify walk keeps the types.
LEMMA ClassifyTypeOK ==
  ASSUME TypeOK, NEW h \in Handles, Classify(h)
  PROVE  TypeOK'
<1> USE Frames
<1>0. /\ walk[h] \in Walk /\ walk \in [Handles -> Walk]
      /\ walk[h].dcim \in BOOLEAN /\ walk[h].missed \in BOOLEAN /\ SeenDCIM(h) \in BOOLEAN
  BY DEF TypeOK, DevTypeOK, Walk, SeenDCIM
<1>a. ASSUME UNCHANGED <<volVars, port, addr, adb, up, refVars, mapVars, req>>,
             UNCHANGED faults \/ Fault, DevTypeOK'
      PROVE  TypeOK'
  BY <1>a DEF TypeOK
<1>b. ASSUME CallRefused(h), walk[h].pc # "none", UNCHANGED <<handle, closing>> PROVE DevTypeOK'
  BY <1>0, <1>b, FinishType DEF CallRefused, Kinds
<1>1. CASE WalkStorages(h)
  <2>1. UNCHANGED <<handle, closing>> /\ walk[h].pc # "none"
    BY <1>1 DEF WalkStorages
  <2>2. ASSUME Advance(h, FALSE, FALSE) PROVE DevTypeOK'
    BY <2>1, <2>2, AdvanceType
  <2>3. ASSUME Finish(h, "unknown", FALSE, TRUE) PROVE DevTypeOK'
    BY <2>1, <2>3, FinishType DEF Kinds
  <2>4. DevTypeOK'
    BY <1>1, <1>b, <2>1, <2>2, <2>3 DEF WalkStorages
  <2>5. UNCHANGED faults \/ Fault
    BY <1>1 DEF WalkStorages, CallRefused, CallFails
  <2> QED
    BY <1>1, <1>a, <2>4, <2>5 DEF WalkStorages
<1>2. CASE WalkChildren(h)
  <2>1. UNCHANGED <<handle, closing>> /\ walk[h].pc # "none"
    BY <1>2 DEF WalkChildren
  <2>2. ASSUME Advance(h, SeenDCIM(h), walk[h].missed) PROVE DevTypeOK'
    BY <1>0, <2>1, <2>2, AdvanceType
  <2>3. ASSUME Advance(h, walk[h].dcim, TRUE) PROVE DevTypeOK'
    BY <1>0, <2>1, <2>3, AdvanceType
  <2>4. ASSUME walk' = [walk EXCEPT ![h] = [@ EXCEPT !.pc = "lookup", !.dcim = SeenDCIM(h)]]
        PROVE  DevTypeOK'
    <3> DEFINE w == [walk[h] EXCEPT !.pc = "lookup", !.dcim = SeenDCIM(h)]
    <3>1. w \in Walk /\ w.at = walk[h].at
      BY <1>0 DEF Walk
    <3>2. walk' = [walk EXCEPT ![h] = w]
      BY <2>4
    <3> HIDE DEF w
    <3> QED
      BY <2>1, <3>1, <3>2, LookType
  <2>5. DevTypeOK'
    BY <1>2, <1>b, <2>1, <2>2, <2>3, <2>4 DEF WalkChildren
  <2>6. UNCHANGED faults \/ Fault
    BY <1>2 DEF WalkChildren, CallRefused, CallSucceeds, CallFails
  <2> QED
    BY <1>2, <1>a, <2>5, <2>6 DEF WalkChildren
<1>3. CASE WalkLookup(h)
  <2>1. UNCHANGED <<handle, closing>> /\ walk[h].pc # "none"
    BY <1>3 DEF WalkLookup
  <2>2. ASSUME Advance(h, walk[h].dcim, walk[h].missed) PROVE DevTypeOK'
    BY <1>0, <2>1, <2>2, AdvanceType
  <2>3. ASSUME Advance(h, walk[h].dcim, TRUE) PROVE DevTypeOK'
    BY <1>0, <2>1, <2>3, AdvanceType
  <2>4. ASSUME walk' = [walk EXCEPT ![h].pc = "preview"] PROVE DevTypeOK'
    <3> DEFINE w == [walk[h] EXCEPT !.pc = "preview"]
    <3>1. w \in Walk /\ w.at = walk[h].at
      BY <1>0 DEF Walk
    <3>2. walk' = [walk EXCEPT ![h] = w]
      BY <2>4
    <3> HIDE DEF w
    <3> QED
      BY <2>1, <3>1, <3>2, LookType
  <2>5. DevTypeOK'
    BY <1>3, <2>2, <2>3, <2>4 DEF WalkLookup
  <2>6. UNCHANGED faults \/ Fault
    BY <1>3 DEF WalkLookup, CallSucceeds, CallFails
  <2> QED
    BY <1>3, <1>a, <2>5, <2>6 DEF WalkLookup
<1>4. CASE WalkPreview(h)
  <2>1. UNCHANGED <<handle, closing>> /\ walk[h].pc # "none" /\ Finish(h, "controller", FALSE, walk[h].missed)
    BY <1>4 DEF WalkPreview
  <2>2. DevTypeOK'
    BY <1>0, <2>1, FinishType DEF Kinds
  <2> QED
    BY <1>4, <2>2 DEF WalkPreview, TypeOK
<1>5. CASE WalkCrash(h)
  BY <1>5 DEF WalkCrash, TypeOK
<1> QED
  BY <1>1, <1>2, <1>3, <1>4, <1>5 DEF Classify

\* What is served, cached or used names a handle that was opened.
Opened == {h \in Handles : handle[h].st # "unused"} \cup {NoHandle}
NamesUsed ==
  /\ \A s \in Serials : devices[s].ctl \in Opened /\ ctrl[s] \in Opened /\ openMTP[s] \in Opened
  /\ \A r \in Requests : req[r].ctl \in Opened

\* An API request keeps the types.
LEMMA RequestTypeOK ==
  ASSUME TypeOK, NamesUsed, NEW r \in Requests,
         \/ \E s \in Serials : RequestStart(r, s)
         \/ RequestLookup(r) \/ RequestAwait(r) \/ RequestIO(r)
  PROVE  TypeOK'
<1>1. IdleRequest \in Request
  BY RegistryAssumption DEF IdleRequest, Request
<1>2. (req \in [Requests -> Request])'
  <2>1. ASSUME NEW s \in Serials, RequestStart(r, s) PROVE (req \in [Requests -> Request])'
    BY <2>1 DEF RequestStart, TypeOK, Request
  <2>2. CASE RequestLookup(r)
    BY <1>1, <2>2 DEF RequestLookup, TypeOK, MapTypeOK, Request, Entry
  <2>3. CASE RequestAwait(r)
    BY <1>1, <2>3 DEF RequestAwait, TypeOK, Request
  <2>4. CASE RequestIO(r)
    BY <1>1, <2>4 DEF RequestIO, TypeOK
  <2> QED
    BY <2>1, <2>2, <2>3, <2>4
<1>3. CASE RequestAwait(r)
  <2> DEFINE c == req[r].ctl
  <2>1. c \in Handles \cup {NoHandle} /\ (c # NoHandle => handle[c].st # "unused")
    BY RegistryAssumption DEF Opened, NamesUsed
  <2>2. /\ walk' = walk \/ walk' = [walk EXCEPT ![c] = KickedOff]
        /\ UNCHANGED <<handle, closing>>
    BY <1>3 DEF RequestAwait
  <2> HIDE DEF c
  <2>3. KickedOff \in Walk /\ KickedOff.at = 0
    BY DEF KickedOff, NoWalk, Walk, Kinds
  <2>4. \A h \in Handles : Len(Layout[handle[h].serial]) \in Nat
    BY RegistryAssumption DEF TypeOK, DevTypeOK, Device
  <2>5. /\ walk' \in [Handles -> Walk]
        /\ \A h \in Handles : walk'[h] = walk[h] \/ (h = c /\ walk'[h].at = 0)
    BY <2>1, <2>2, <2>3, RegistryAssumption DEF TypeOK, DevTypeOK
  <2>6. WalksFit'
    <3> SUFFICES ASSUME NEW h \in Handles
                 PROVE  IF handle[h].st = "unused" THEN walk'[h] = NoWalk
                        ELSE walk'[h].at <= Len(Layout[handle[h].serial])
      BY <2>2 DEF WalksFit
    <3>1. CASE walk'[h] = walk[h]
      BY <3>1 DEF TypeOK, DevTypeOK, WalksFit
    <3>2. CASE h = c /\ walk'[h].at = 0
      BY <2>1, <2>4, <3>2, RegistryAssumption
    <3> QED
      BY <2>5, <3>1, <3>2
  <2>7. DevTypeOK'
    BY <2>2, <2>5, <2>6 DEF TypeOK, DevTypeOK
  <2> QED
    BY <1>2, <1>3, <2>7, Frames DEF RequestAwait, TypeOK
<1> QED
  BY <1>2, <1>3, Frames DEF RequestStart, RequestLookup, RequestIO, TypeOK

\* A restarted daemon's variables have their types.
LEMMA RestartTypeOK ==
  ASSUME TypeOK, Restart
  PROVE  TypeOK'
<1>1. VolTypeOK'
  BY VolumeAssumption DEF Restart, VolRestart, CleanMounts, NoMSVolume, MSVolume, TypeOK, VolTypeOK
<1>2. RefTypeOK' /\ MapTypeOK'
  BY DEF Restart, RefTypeOK, MapTypeOK, NoEntry, Entry
<1>3. Unused \in Device /\ Unused.st = "unused"
  BY RegistryAssumption DEF Unused, Device, Addr
<1>4. NoWalk \in Walk
  BY DEF NoWalk, Walk, Kinds
<1>5. DevTypeOK'
  BY <1>3, <1>4 DEF Restart, DevTypeOK, WalksFit
<1>6. IdleRequest \in Request
  BY RegistryAssumption DEF IdleRequest, Request
<1> QED
  BY <1>1, <1>2, <1>5, <1>6, Frames DEF Restart, TypeOK

\* Every step keeps the types.
LEMMA NextTypeOK ==
  ASSUME TypeOK, RegisteredOpen, NamesUsed, [Next]_vars
  PROVE  TypeOK'
<1>1. ASSUME NEW h \in closing, CloseStale(h) PROVE TypeOK'
  <2>1. h \in Handles /\ Open(h)
    BY DEF RegisteredOpen, TypeOK, DevTypeOK
  <2>2. DevTypeOK'
    BY <1>1, <2>1, CloseType DEF CloseStale, TypeOK, DevTypeOK
  <2> QED
    BY <1>1, <2>2, Frames DEF CloseStale, TypeOK
<1>2. CASE UNCHANGED vars
  BY <1>2, Frames DEF vars, TypeOK, envVars, refVars, mapVars, devVars, volVars
<1>3. \A h \in Handles : CloseStale(h) => h \in closing
  BY DEF CloseStale
<1> QED
  BY <1>1, <1>2, <1>3, EnvironmentTypeOK, RefreshTypeOK, ClassifyTypeOK, RequestTypeOK, RestartTypeOK
  DEF Next, Daemon

-----------------------------------------------------------------------------
(* Handles.                                                                 *)

\* What Close does to a handle, and to no other.
LEMMA CloseEffect ==
  ASSUME TypeOK, NEW h \in Handles, Close(h)
  PROVE  /\ \A x \in Handles : handle'[x].serial = handle[x].serial /\ handle'[x].addr = handle[x].addr
         /\ \A x \in Handles \ {h} : Open(x)' <=> Open(x)
         /\ ~Open(h)'
BY DEF TypeOK, DevTypeOK, Device, Close, Open

\* What VisitOpen does, in the names its proof obligations share.
LEMMA VisitOpenEffect ==
  ASSUME TypeOK, NEW md \in pending, VisitOpen(md)
  PROVE  \E h \in Handles :
           /\ handle[h].st = "unused" /\ md.serial \in Serials
           /\ handle'[h] = [serial |-> md.serial, addr |-> md.addr, st |-> "open"]
           /\ \A x \in Handles \ {h} : handle'[x] = handle[x]
           /\ seen' = seen \cup {md.serial} /\ pending' = pending \ {md}
           /\ openMTP' = [openMTP EXCEPT ![md.serial] = h]
           /\ ctrl' = [ctrl EXCEPT ![md.serial] = Controller(md.serial, h)]
           /\ devices' = [devices EXCEPT ![md.serial] = MTPEntry(Controller(md.serial, h))]
           /\ UNCHANGED <<port, addr, lock, phase, closing>>
<1> DEFINE h == CHOOSE x \in Handles : handle[x].st = "unused"
<1>1. h \in Handles /\ handle[h].st = "unused"
  BY DEF VisitOpen
<1>2. /\ handle' = [handle EXCEPT ![h] = [serial |-> md.serial, addr |-> md.addr, st |-> "open"]]
      /\ seen' = seen \cup {md.serial} /\ pending' = pending \ {md}
      /\ openMTP' = [openMTP EXCEPT ![md.serial] = h]
      /\ ctrl' = [ctrl EXCEPT ![md.serial] = Controller(md.serial, h)]
      /\ devices' = [devices EXCEPT ![md.serial] = MTPEntry(Controller(md.serial, h))]
      /\ UNCHANGED <<port, addr, lock, phase, closing>>
  BY DEF VisitOpen, ControllerFor, Serving, envVars
<1>3. md.serial \in Serials
  BY DEF TypeOK, RefTypeOK, RawDevice
<1> HIDE DEF h
<1> QED
  BY <1>1, <1>2, <1>3 DEF TypeOK, DevTypeOK

\* Every step but those of Refresh, a close and a restart leaves the maps, the
\* handles, the ports, the Refresh in progress and the pending closes alone.
LEMMA QuietSteps ==
  ASSUME [Next]_vars
  PROVE  \/ Refresh \/ Restart
         \/ \E h \in Handles : CloseStale(h)
         \/ \E s \in Serials : (Plug(s) \/ Unplug(s))
         \/ UNCHANGED <<port, addr, lock, phase, pending, seen, devices, openMTP, ctrl, handle, closing>>
<1> DEFINE Quiet == UNCHANGED <<port, addr, lock, phase, pending, seen, devices, openMTP, ctrl, handle, closing>>
<1>1. ASSUME NEW s \in Serials, ADBChange(s) PROVE Quiet
  BY <1>1 DEF ADBChange, refVars, mapVars, devVars
<1>2. ASSUME NEW v \in Volumes, InsertVolume(v) \/ EjectVolume(v) PROVE Quiet
  BY <1>2 DEF InsertVolume, EjectVolume, envVars, refVars, mapVars, devVars
<1>3. ASSUME NEW h \in Handles, Classify(h) PROVE Quiet
  BY <1>3 DEF Classify, WalkStorages, WalkChildren, WalkLookup, WalkPreview, WalkCrash, envVars, refVars, mapVars, devVars
<1>4. ASSUME NEW r \in Requests, RequestLookup(r) \/ RequestAwait(r) \/ RequestIO(r) PROVE Quiet
  BY <1>4 DEF RequestLookup, RequestAwait, RequestIO, envVars, refVars, mapVars, devVars
<1>5. ASSUME NEW r \in Requests, NEW s \in Serials, RequestStart(r, s) PROVE Quiet
  BY <1>5 DEF RequestStart, envVars, refVars, mapVars, devVars
<1>6. CASE UNCHANGED vars
  BY <1>6 DEF vars, envVars, refVars, mapVars, devVars
<1> HIDE DEF Quiet
<1>7. ASSUME Next PROVE \/ Refresh \/ Restart
                        \/ \E h \in Handles : CloseStale(h)
                        \/ \E s \in Serials : (Plug(s) \/ Unplug(s))
                        \/ Quiet
  BY <1>1, <1>2, <1>3, <1>4, <1>5, <1>7, RegistryAssumption DEF Next, Environment, Daemon, RegistryAssumption
<1> QED
  BY <1>6, <1>7 DEF Quiet

\* A handle that was opened is never forgotten but by a restart, which forgets
\* its names as well.
LEMMA NamesUsedStep ==
  ASSUME TypeOK, NamesUsed, [Next]_vars
  PROVE  NamesUsed'
<1>0. /\ openMTP \in [Serials -> Handles \cup {NoHandle}]
      /\ ctrl \in [Serials -> Handles \cup {NoHandle}]
      /\ devices \in [Serials -> Entry] /\ req \in [Requests -> Request]
      /\ handle \in [Handles -> Device] /\ closing \subseteq Handles
      /\ NoHandle \in Opened /\ NoEntry.ctl = NoHandle /\ IdleRequest.ctl = NoHandle
      /\ \A state : ADBEntry(state).ctl = NoHandle
      /\ \A c : MTPEntry(c).ctl = c
  BY DEF TypeOK, MapTypeOK, DevTypeOK, Opened, NoEntry, IdleRequest, ADBEntry, MTPEntry
<1>a. ASSUME handle' = handle PROVE Opened' = Opened
  BY <1>a DEF Opened
<1>b. ASSUME NEW h \in Handles, Close(h) PROVE Opened \subseteq Opened'
  <2>1. \A x \in Handles : handle[x].st # "unused" => handle'[x].st # "unused"
    BY <1>0, <1>b DEF Close, Device
  <2> QED
    BY <2>1 DEF Opened
<1>c. ASSUME Opened \subseteq Opened', UNCHANGED <<devices, ctrl, openMTP, req>> PROVE NamesUsed'
  BY <1>c DEF NamesUsed
<1>1. ASSUME NEW s \in Serials, Plug(s) \/ Unplug(s) \/ ADBChange(s) PROVE NamesUsed'
  BY <1>1, <1>a, <1>c DEF Plug, Unplug, ADBChange, mapVars, devVars
<1>2. ASSUME NEW v \in Volumes, InsertVolume(v) \/ EjectVolume(v) PROVE NamesUsed'
  BY <1>2, <1>a, <1>c DEF InsertVolume, EjectVolume, mapVars, devVars
<1>3. ASSUME NEW a, RefreshBegin(a) PROVE NamesUsed'
  <2>1. handle' = handle /\ UNCHANGED <<ctrl, openMTP, req>>
        /\ \A s \in Serials : devices'[s].ctl = NoHandle
    BY <1>0, <1>3 DEF RefreshBegin, devVars
  <2> QED
    BY <1>0, <1>a, <2>1 DEF NamesUsed
<1>4. CASE RefreshList
  BY <1>4, <1>a, <1>c DEF RefreshList, mapVars, devVars
<1>5. ASSUME NEW md \in pending, NEW s \in Serials, VisitKeep(md, s) PROVE NamesUsed'
  <2>1. Controller(s, openMTP[s]) \in Opened
    BY DEF Controller, NamesUsed
  <2>2. /\ devices' = [devices EXCEPT ![s] = MTPEntry(Controller(s, openMTP[s]))]
        /\ ctrl' = [ctrl EXCEPT ![s] = Controller(s, openMTP[s])]
        /\ UNCHANGED <<openMTP, handle, req>>
    BY <1>5 DEF VisitKeep, ControllerFor, Serving
  <2> DEFINE c == Controller(s, openMTP[s])
  <2> HIDE DEF c
  <2>3. \A t \in Serials :
           /\ (devices'[t].ctl = c \/ devices'[t].ctl = devices[t].ctl)
           /\ (ctrl'[t] = c \/ ctrl'[t] = ctrl[t])
    BY <1>0, <2>2 DEF c
  <2>4. c \in Opened' /\ Opened' = Opened
    BY <1>a, <2>1, <2>2 DEF c
  <2> QED
    BY <2>2, <2>3, <2>4 DEF NamesUsed
<1>6. ASSUME NEW md \in pending, NEW s \in Serials, VisitStale(md, s) PROVE NamesUsed'
  <2>1. openMTP[s] \in Handles
    BY <1>0, <1>6 DEF VisitStale, OpenAt
  <2>2. Opened \subseteq Opened'
    BY <1>6, <1>b, <2>1 DEF VisitStale
  <2> QED
    BY <1>0, <1>6, <2>2 DEF VisitStale, HandlesWithout, ControllersWithout, NamesUsed
<1>7. ASSUME NEW md \in pending, VisitOpen(md) PROVE NamesUsed'
  <2>1. PICK h \in Handles :
          /\ md.serial \in Serials
          /\ handle'[h] = [serial |-> md.serial, addr |-> md.addr, st |-> "open"]
          /\ \A x \in Handles \ {h} : handle'[x] = handle[x]
          /\ openMTP' = [openMTP EXCEPT ![md.serial] = h]
          /\ ctrl' = [ctrl EXCEPT ![md.serial] = Controller(md.serial, h)]
          /\ devices' = [devices EXCEPT ![md.serial] = MTPEntry(Controller(md.serial, h))]
    BY <1>7, VisitOpenEffect
  <2>2. UNCHANGED req
    BY <1>7 DEF VisitOpen
  <2>3. h \in Opened' /\ Opened \subseteq Opened'
    <3>1. handle'[h].st = "open"
      BY <2>1
    <3> QED
      BY <2>1, <3>1 DEF Opened
  <2>4. Controller(md.serial, h) \in Opened \cup {h}
    BY <2>1 DEF Controller, NamesUsed
  <2> DEFINE c == Controller(md.serial, h)
  <2> HIDE DEF c
  <2>5. \A t \in Serials :
           /\ (devices'[t].ctl = c \/ devices'[t].ctl = devices[t].ctl)
           /\ (ctrl'[t] = c \/ ctrl'[t] = ctrl[t])
           /\ (openMTP'[t] = h \/ openMTP'[t] = openMTP[t])
    BY <1>0, <2>1 DEF c
  <2>6. c \in Opened'
    BY <2>3, <2>4 DEF c
  <2> QED
    BY <2>2, <2>3, <2>5, <2>6 DEF NamesUsed
<1>8. ASSUME NEW md \in pending, VisitOpenFails(md) PROVE NamesUsed'
  BY <1>8, <1>a, <1>c DEF VisitOpenFails, mapVars, devVars
<1>9. CASE RefreshSweep
  BY <1>0, <1>9, <1>a DEF RefreshSweep, HandlesWithout, ControllersWithout, NamesUsed
<1>10. CASE RefreshScan
  <2>1. /\ UNCHANGED <<devices, ctrl, openMTP, handle>>
        /\ \A r \in Requests : req'[r].ctl = req[r].ctl
    BY <1>0, <1>10 DEF RefreshScan, devVars, Request
  <2> QED
    BY <1>a, <2>1 DEF NamesUsed
<1>11. ASSUME NEW h \in Handles, CloseStale(h) PROVE NamesUsed'
  BY <1>11, <1>b, <1>c DEF CloseStale, mapVars
<1>12. ASSUME NEW h \in Handles, Classify(h) PROVE NamesUsed'
  BY <1>12, <1>a, <1>c DEF Classify, WalkStorages, WalkChildren, WalkLookup, WalkPreview, WalkCrash, mapVars, devVars
<1>13. ASSUME NEW r \in Requests, (\E s \in Serials : RequestStart(r, s))
                                   \/ RequestLookup(r) \/ RequestAwait(r) \/ RequestIO(r)
       PROVE  NamesUsed'
  <2>1. UNCHANGED <<devices, ctrl, openMTP, handle>>
    BY <1>13 DEF RequestStart, RequestLookup, RequestAwait, RequestIO, mapVars, devVars
  <2>2. \A q \in Requests : req'[q].ctl \in Opened
    <3>0. \A q \in Requests : req[q].ctl \in Opened
      BY DEF NamesUsed
    <3>1. ASSUME NEW s \in Serials, RequestStart(r, s) PROVE \A q \in Requests : req'[q].ctl \in Opened
      BY <1>0, <3>0, <3>1 DEF RequestStart
    <3>2. CASE RequestLookup(r)
      <4> DEFINE e == devices[req[r].serial]
      <4>1. req[r].serial \in Serials
        BY <1>0 DEF Request
      <4>2. e.ctl \in Opened
        BY <4>1 DEF NamesUsed
      <4>3. req' = [req EXCEPT ![r] = IF e.via = "mtp"
                                     THEN [@ EXCEPT !.pc = "await", !.ctl = e.ctl] ELSE IdleRequest]
        BY <3>2 DEF RequestLookup
      <4> HIDE DEF e
      <4>4. req'[r].ctl \in Opened
        BY <1>0, <4>2, <4>3 DEF Request
      <4> QED
        BY <1>0, <3>0, <4>3, <4>4
    <3>3. CASE RequestAwait(r)
      <4>1. req'[r].ctl = req[r].ctl \/ req'[r].ctl = NoHandle
        BY <1>0, <3>3 DEF RequestAwait, Request
      <4>2. \A q \in Requests \ {r} : req'[q] = req[q]
        BY <1>0, <3>3 DEF RequestAwait
      <4> QED
        BY <1>0, <3>0, <4>1, <4>2
    <3>4. CASE RequestIO(r)
      BY <1>0, <3>0, <3>4 DEF RequestIO
    <3> QED
      BY <1>13, <3>1, <3>2, <3>3, <3>4
  <2> QED
    BY <1>a, <2>1, <2>2 DEF NamesUsed
<1>14. CASE Restart
  <2>1. \A s \in Serials : devices'[s].ctl = NoHandle /\ ctrl'[s] = NoHandle /\ openMTP'[s] = NoHandle
    BY <1>0, <1>14 DEF Restart
  <2>2. \A r \in Requests : req'[r].ctl = NoHandle
    BY <1>0, <1>14 DEF Restart
  <2>3. NoHandle \in Opened'
    BY DEF Opened
  <2> QED
    BY <2>1, <2>2, <2>3 DEF NamesUsed
<1>15. CASE UNCHANGED vars
  BY <1>15, <1>a, <1>c DEF vars, mapVars, devVars
<1> QED
  BY <1>1, <1>2, <1>3, <1>4, <1>5, <1>6, <1>7, <1>8, <1>9, <1>10, <1>11, <1>12, <1>13, <1>14, <1>15, RegistryAssumption
  DEF Next, Environment, Daemon, Refresh, Visit, RegistryAssumption

LEMMA InitNamesUsed == Init => NamesUsed
BY DEF Init, DaemonInit, NamesUsed, Opened, NoEntry, IdleRequest

\* Handles are closed only once nothing names them any more.
LEMMA RegisteredOpenStep ==
  ASSUME TypeOK, RegisteredOpen, [Next]_vars
  PROVE  RegisteredOpen'
<1>0. /\ openMTP \in [Serials -> Handles \cup {NoHandle}]
      /\ handle \in [Handles -> Device] /\ closing \subseteq Handles
  BY DEF TypeOK, MapTypeOK, DevTypeOK
<1>1. ASSUME UNCHANGED <<openMTP, handle, closing>> PROVE RegisteredOpen'
  BY <1>1 DEF RegisteredOpen, Open
<1>2. ASSUME NEW md \in pending, NEW s \in Serials, VisitStale(md, s) PROVE RegisteredOpen'
  <2>1. openMTP[s] \in Handles /\ openMTP[s] # NoHandle
    BY <1>0, <1>2 DEF VisitStale, OpenAt
  <2>2. openMTP' = [t \in Serials |-> IF t = s THEN NoHandle ELSE openMTP[t]] /\ UNCHANGED closing
    BY <1>2 DEF VisitStale, HandlesWithout
  <2>3. /\ \A x \in Handles : handle'[x].serial = handle[x].serial
        /\ \A x \in Handles \ {openMTP[s]} : Open(x)' <=> Open(x)
    BY <1>2, <2>1, CloseEffect DEF VisitStale
  <2> QED
    BY <1>0, <2>1, <2>2, <2>3 DEF RegisteredOpen
<1>3. ASSUME NEW md \in pending, VisitOpen(md) PROVE RegisteredOpen'
  <2>1. PICK h \in Handles :
          /\ handle[h].st = "unused" /\ md.serial \in Serials
          /\ handle'[h] = [serial |-> md.serial, addr |-> md.addr, st |-> "open"]
          /\ \A x \in Handles \ {h} : handle'[x] = handle[x]
          /\ openMTP' = [openMTP EXCEPT ![md.serial] = h]
          /\ closing' = closing
    BY <1>3, VisitOpenEffect
  <2>2. h \notin closing
    BY <2>1 DEF RegisteredOpen, Open
  <2> QED
    <3>1. \A x \in Handles : x # h => (Open(x)' <=> Open(x)) /\ handle'[x].serial = handle[x].serial
      BY <2>1 DEF Open
    <3>2. Open(h)' /\ handle'[h].serial = md.serial /\ ~Open(h)
      BY <2>1 DEF Open
    <3>3. /\ openMTP'[md.serial] = h
          /\ \A s \in Serials : s # md.serial => openMTP'[s] = openMTP[s]
      BY <1>0, <2>1
    <3> QED
      BY <1>0, <2>1, <2>2, <3>1, <3>2, <3>3 DEF RegisteredOpen
<1>4. CASE RefreshSweep
  <2>1. /\ closing' = closing \cup {openMTP[s] : s \in Unseen}
        /\ openMTP' = [s \in Serials |-> IF s \in Unseen THEN NoHandle ELSE openMTP[s]]
        /\ handle' = handle
    BY <1>4 DEF RefreshSweep, HandlesWithout
  <2>2. \A s \in Unseen : s \in Serials /\ openMTP[s] # NoHandle
    BY DEF Unseen
  <2> QED
    BY <1>0, <2>1, <2>2 DEF RegisteredOpen, Open
<1>5. ASSUME NEW h \in Handles, CloseStale(h) PROVE RegisteredOpen'
  <2>1. Close(h) /\ h \in closing /\ closing' = closing \ {h} /\ openMTP' = openMTP
    BY <1>5 DEF CloseStale, mapVars
  <2>2. /\ \A x \in Handles : handle'[x].serial = handle[x].serial
        /\ \A x \in Handles \ {h} : Open(x)' <=> Open(x)
    BY <2>1, CloseEffect
  <2> QED
    BY <1>0, <2>1, <2>2 DEF RegisteredOpen
<1>6. CASE Restart
  BY <1>6 DEF Restart, RegisteredOpen
<1>7. ASSUME NEW s \in Serials, Plug(s) \/ Unplug(s) PROVE RegisteredOpen'
  BY <1>1, <1>7 DEF Plug, Unplug, mapVars, devVars
<1>8. CASE Refresh
  <2>1. ASSUME NEW a, RefreshBegin(a) PROVE RegisteredOpen'
    BY <1>1, <2>1 DEF RefreshBegin, devVars
  <2>2. CASE RefreshList \/ RefreshScan
    BY <1>1, <2>2 DEF RefreshList, RefreshScan, mapVars, devVars
  <2>3. ASSUME NEW md \in pending, NEW s \in Serials, VisitKeep(md, s) PROVE RegisteredOpen'
    BY <1>1, <2>3 DEF VisitKeep
  <2>4. ASSUME NEW md \in pending, VisitOpenFails(md) PROVE RegisteredOpen'
    BY <1>1, <2>4 DEF VisitOpenFails, mapVars, devVars
  <2> QED
    BY <1>2, <1>3, <1>4, <1>8, <2>1, <2>2, <2>3, <2>4 DEF Refresh, Visit
<1> QED
  BY <1>1, <1>5, <1>6, <1>7, <1>8, QuietSteps

\* Whatever is plugged, fails or comes back too fast, the variables keep their
\* types, a registered handle is open and nothing is about to close it, and no
\* handle is closed twice.
THEOREM HandlesSafe == Spec => [](TypeOK /\ RegisteredOpen)
<1> DEFINE Inv == TypeOK /\ RegisteredOpen /\ NamesUsed
<1>1. Init => Inv
  BY InitTypeOK, InitNamesUsed DEF Init, DaemonInit, RegisteredOpen
<1>2. Inv /\ [Next]_vars => Inv'
  BY NextTypeOK, NamesUsedStep, RegisteredOpenStep
<1> QED
  BY <1>1, <1>2, PTL DEF Spec

-----------------------------------------------------------------------------
(* The two maps, when a device stays away until a Refresh saw it go.        *)

\* The strengthening of CacheCoherent and HandlesOwned: a registered handle of
\* a device that is plugged in is on the device's current connection.  It is
\* what VisitOpen needs to know that it replaces nothing.
ConnectionCurrent ==
  \A s \in Serials :
    openMTP[s] # NoHandle /\ port[s] # 0 => port[s] = handle[openMTP[s]].addr

Coherent == ConnectionCurrent /\ CacheCoherent /\ HandlesOwned

\* VisitOpen finds no handle registered under the serial it opens.
LEMMA NothingReplaced ==
  ASSUME TypeOK, Coherent, NEW md \in pending, VisitOpen(md)
  PROVE  openMTP[md.serial] = NoHandle /\ ctrl[md.serial] = NoHandle
<1>1. md.serial \in Serials /\ md.addr # 0
  BY DEF TypeOK, RefTypeOK, RawDevice
<1>2. OpenAt(md) = {} /\ port[md.serial] = md.addr
  BY DEF VisitOpen
<1> QED
  BY <1>1, <1>2 DEF OpenAt, Coherent, ConnectionCurrent, CacheCoherent

LEMMA CoherentStep ==
  ASSUME FastReplug = FALSE, TypeOK, RegisteredOpen, Coherent, [Next]_vars
  PROVE  Coherent'
<1>0. /\ openMTP \in [Serials -> Handles \cup {NoHandle}]
      /\ ctrl \in [Serials -> Handles \cup {NoHandle}]
      /\ handle \in [Handles -> Device] /\ closing \subseteq Handles
      /\ port \in [Serials -> Addr]
      /\ \A h \in Handles : handle[h].serial \in Serials
  BY DEF TypeOK, MapTypeOK, DevTypeOK, EnvTypeOK, Device
<1>1. ASSUME UNCHANGED <<port, openMTP, ctrl, handle, closing>> PROVE Coherent'
  BY <1>1 DEF Coherent, ConnectionCurrent, CacheCoherent, HandlesOwned, Open
<1>2. ASSUME NEW s \in Serials, Plug(s) \/ Unplug(s) PROVE Coherent'
  <2>1. /\ UNCHANGED <<openMTP, ctrl, handle, closing>>
        /\ \A t \in Serials \ {s} : port'[t] = port[t]
        /\ port'[s] = 0 \/ openMTP[s] = NoHandle
    BY <1>0, <1>2 DEF Plug, Unplug, mapVars, devVars
  <2> QED
    BY <2>1 DEF Coherent, ConnectionCurrent, CacheCoherent, HandlesOwned, Open
<1>3. ASSUME NEW md \in pending, NEW s \in Serials, VisitKeep(md, s) PROVE Coherent'
  <2>1. UNCHANGED <<port, openMTP, handle, closing>>
    BY <1>3 DEF VisitKeep, envVars
  <2>2. openMTP[s] # NoHandle /\ ctrl[s] = openMTP[s] /\ ctrl' = [ctrl EXCEPT ![s] = Controller(s, openMTP[s])]
    BY <1>3 DEF VisitKeep, OpenAt, ControllerFor, Coherent, CacheCoherent
  <2>3. ctrl' = ctrl
    BY <1>0, <2>2 DEF Controller
  <2> QED
    BY <1>1, <2>1, <2>3
<1>4. ASSUME NEW md \in pending, NEW s \in Serials, VisitStale(md, s) PROVE Coherent'
  <2>1. PICK c \in Handles : c = openMTP[s] /\ handle[c].serial = s
    BY <1>0, <1>4 DEF VisitStale, OpenAt, RegisteredOpen
  <2>2. /\ openMTP' = [t \in Serials |-> IF t = s THEN NoHandle ELSE openMTP[t]]
        /\ ctrl' = [t \in Serials |-> IF t = s THEN NoHandle ELSE ctrl[t]]
        /\ UNCHANGED <<port, closing>>
    BY <1>4 DEF VisitStale, HandlesWithout, ControllersWithout
  <2>3. /\ \A x \in Handles : handle'[x].serial = handle[x].serial /\ handle'[x].addr = handle[x].addr
        /\ \A x \in Handles \ {c} : Open(x)' <=> Open(x)
        /\ ~Open(c)'
    BY <1>4, <2>1, CloseEffect DEF VisitStale
  <2>4. CacheCoherent' /\ ConnectionCurrent'
    BY <1>0, <2>2, <2>3 DEF Coherent, CacheCoherent, ConnectionCurrent
  <2>5. HandlesOwned'
    <3> SUFFICES ASSUME NEW x \in Handles, Open(x)'
                 PROVE  (openMTP'[handle[x].serial] = x) # (x \in closing)
      BY <2>2, <2>3 DEF HandlesOwned
    <3>1. x # c /\ Open(x)
      BY <2>1, <2>3
    <3>2. (openMTP[handle[x].serial] = x) # (x \in closing)
      BY <3>1 DEF Coherent, HandlesOwned
    <3>3. openMTP'[handle[x].serial] = x <=> openMTP[handle[x].serial] = x
      BY <1>0, <2>1, <2>2, <3>1, RegistryAssumption
    <3> QED
      BY <3>2, <3>3
  <2> QED
    BY <2>4, <2>5 DEF Coherent
<1>5. ASSUME NEW md \in pending, VisitOpen(md) PROVE Coherent'
  <2> DEFINE s == md.serial
  <2>1. openMTP[s] = NoHandle /\ ctrl[s] = NoHandle /\ port[s] = md.addr
    BY <1>5, NothingReplaced DEF VisitOpen
  <2>2. PICK h \in Handles :
          /\ handle[h].st = "unused" /\ s \in Serials
          /\ handle'[h] = [serial |-> s, addr |-> md.addr, st |-> "open"]
          /\ \A x \in Handles \ {h} : handle'[x] = handle[x]
          /\ openMTP' = [openMTP EXCEPT ![s] = h]
          /\ ctrl' = [ctrl EXCEPT ![s] = Controller(s, h)]
          /\ UNCHANGED <<port, closing>>
    BY <1>5, VisitOpenEffect
  <2> HIDE DEF s
  <2>3. /\ openMTP'[s] = h /\ ctrl'[s] = h
        /\ \A t \in Serials \ {s} : openMTP'[t] = openMTP[t] /\ ctrl'[t] = ctrl[t]
    BY <1>0, <2>1, <2>2 DEF Controller
  <2>4. \A t \in Serials : openMTP[t] # h /\ h \notin closing
    BY <2>2, RegistryAssumption DEF RegisteredOpen, Open
  <2>5. CacheCoherent'
    BY <2>3 DEF Coherent, CacheCoherent
  <2>6. ConnectionCurrent'
    BY <1>0, <2>1, <2>2, <2>3, <2>4 DEF Coherent, ConnectionCurrent
  <2>7. HandlesOwned'
    <3> SUFFICES ASSUME NEW x \in Handles, Open(x)'
                 PROVE  (openMTP'[handle'[x].serial] = x) # (x \in closing)
      BY <2>2 DEF HandlesOwned
    <3>1. CASE x = h
      BY <2>2, <2>3, <2>4, <3>1
    <3>2. CASE x # h
      <4>1. Open(x) /\ handle'[x].serial = handle[x].serial
        BY <2>2, <3>2 DEF Open
      <4>2. openMTP'[handle[x].serial] = x <=> openMTP[handle[x].serial] = x
        BY <1>0, <2>1, <2>3, <3>2, RegistryAssumption
      <4> QED
        BY <4>1, <4>2 DEF Coherent, HandlesOwned
    <3> QED
      BY <3>1, <3>2
  <2> QED
    BY <2>5, <2>6, <2>7 DEF Coherent
<1>6. CASE RefreshSweep
  <2>1. /\ closing' = closing \cup {openMTP[s] : s \in Unseen}
        /\ openMTP' = [s \in Serials |-> IF s \in Unseen THEN NoHandle ELSE openMTP[s]]
        /\ ctrl' = [s \in Serials |-> IF s \in Unseen THEN NoHandle ELSE ctrl[s]]
        /\ UNCHANGED <<port, handle>>
    BY <1>6 DEF RefreshSweep, HandlesWithout, ControllersWithout, envVars
  <2>2. \A s \in Unseen : s \in Serials /\ openMTP[s] # NoHandle
    BY DEF Unseen
  <2>3. CacheCoherent' /\ ConnectionCurrent'
    BY <1>0, <2>1 DEF Coherent, CacheCoherent, ConnectionCurrent
  <2>4. HandlesOwned'
    <3> SUFFICES ASSUME NEW x \in Handles, Open(x)
                 PROVE  (openMTP'[handle[x].serial] = x) # (x \in closing')
      BY <2>1 DEF HandlesOwned, Open
    <3>1. (openMTP[handle[x].serial] = x) # (x \in closing)
      BY DEF Coherent, HandlesOwned
    <3>2. \A s \in Serials : openMTP[s] = x => handle[x].serial = s
      BY RegistryAssumption DEF RegisteredOpen
    <3>3. CASE openMTP[handle[x].serial] = x /\ handle[x].serial \in Unseen
      BY <1>0, <2>1, <3>3, RegistryAssumption
    <3>4. CASE openMTP[handle[x].serial] = x /\ handle[x].serial \notin Unseen
      BY <1>0, <2>1, <2>2, <3>1, <3>2, <3>4
    <3>5. CASE openMTP[handle[x].serial] # x
      BY <1>0, <2>1, <3>1, <3>5, RegistryAssumption
    <3> QED
      BY <3>3, <3>4, <3>5
  <2> QED
    BY <2>3, <2>4 DEF Coherent
<1>7. ASSUME NEW h \in Handles, CloseStale(h) PROVE Coherent'
  <2>1. /\ Close(h) /\ h \in closing /\ closing' = closing \ {h}
        /\ UNCHANGED <<port, openMTP, ctrl>>
    BY <1>7 DEF CloseStale, mapVars, envVars
  <2>2. /\ \A x \in Handles : handle'[x].serial = handle[x].serial /\ handle'[x].addr = handle[x].addr
        /\ \A x \in Handles \ {h} : Open(x)' <=> Open(x)
        /\ ~Open(h)'
    BY <2>1, CloseEffect
  <2> QED
    <3>1. CacheCoherent' /\ ConnectionCurrent'
      BY <1>0, <2>1, <2>2 DEF Coherent, CacheCoherent, ConnectionCurrent
    <3>2. HandlesOwned'
      BY <2>1, <2>2 DEF Coherent, HandlesOwned
    <3> QED
      BY <3>1, <3>2 DEF Coherent
<1>8. CASE Restart
  BY <1>8 DEF Restart, Coherent, CacheCoherent, ConnectionCurrent, HandlesOwned, Open, Unused
<1>9. CASE Refresh
  <2>1. ASSUME NEW a, RefreshBegin(a) PROVE Coherent'
    BY <1>1, <2>1 DEF RefreshBegin, envVars, devVars
  <2>2. CASE RefreshList \/ RefreshScan
    BY <1>1, <2>2 DEF RefreshList, RefreshScan, mapVars, devVars
  <2>3. ASSUME NEW md \in pending, VisitOpenFails(md) PROVE Coherent'
    BY <1>1, <2>3 DEF VisitOpenFails, mapVars, devVars
  <2> QED
    BY <1>3, <1>4, <1>5, <1>6, <1>9, <2>1, <2>2, <2>3 DEF Refresh, Visit
<1> QED
  BY <1>1, <1>2, <1>7, <1>8, <1>9, QuietSteps

\* Refresh's deletes in pairs work: as long as no device comes back between two
\* Refreshes, the controller cache and the handle map agree and no handle leaks.
THEOREM CoherentWithoutFastReplug ==
  FastReplug = FALSE => (Spec => [](CacheCoherent /\ HandlesOwned))
<1> SUFFICES ASSUME FastReplug = FALSE PROVE Spec => [](CacheCoherent /\ HandlesOwned)
  OBVIOUS
<1> DEFINE Inv == TypeOK /\ RegisteredOpen /\ NamesUsed /\ Coherent
<1>1. Init => Inv
  BY InitTypeOK, InitNamesUsed DEF Init, DaemonInit, RegisteredOpen, Coherent, ConnectionCurrent, CacheCoherent, HandlesOwned, Open, Unused
<1>2. Inv /\ [Next]_vars => Inv'
  BY NextTypeOK, NamesUsedStep, RegisteredOpenStep, CoherentStep
<1>3. Inv => CacheCoherent /\ HandlesOwned
  BY DEF Coherent
<1> QED
  BY <1>1, <1>2, <1>3, PTL DEF Spec

-----------------------------------------------------------------------------
(* The device map that List and Lookup serve.                               *)

\* A device number is given to one device at a time, never twice.
PortsDistinct ==
  /\ \A s \in Serials : port[s] <= addr
  /\ \A s, t \in Serials : port[s] = port[t] /\ port[s] # 0 => s = t

Matches(s) ==
  /\ devices[s].via = "mtp" <=> openMTP[s] # NoHandle
  /\ devices[s].via = "mtp" => devices[s].ctl = ctrl[s]

\* The strengthening of DevicesMatchHandles: how far the device map has been
\* rebuilt.  The devices still to visit are at other addresses than the handles
\* already seen, so that a failing ping never closes a handle already listed.
MapRebuilt ==
  /\ PortsDistinct
  /\ lock = Free <=> phase = "idle"
  /\ phase \in {"idle", "scan"} => \A s \in Serials : Matches(s)
  /\ phase = "list" => \A s \in Serials : devices[s].via # "mtp"
  /\ phase = "visit" =>
       /\ \A s \in Serials : devices[s].via = "mtp" <=> s \in seen
       /\ \A s \in seen : openMTP[s] # NoHandle /\ devices[s].ctl = ctrl[s]
       /\ \A md \in pending, s \in seen : handle[openMTP[s]].addr # md.addr
       /\ \A m, n \in pending : m.addr = n.addr => m = n

LEMMA MapRebuiltStep ==
  ASSUME TypeOK, RegisteredOpen, MapRebuilt, [Next]_vars
  PROVE  MapRebuilt'
<1>0. /\ openMTP \in [Serials -> Handles \cup {NoHandle}]
      /\ ctrl \in [Serials -> Handles \cup {NoHandle}]
      /\ devices \in [Serials -> Entry]
      /\ handle \in [Handles -> Device]
      /\ port \in [Serials -> Addr] /\ addr \in Nat /\ \A s \in Serials : port[s] \in Nat
      /\ seen \subseteq Serials /\ pending \subseteq RawDevice
  BY RegistryAssumption DEF TypeOK, MapTypeOK, DevTypeOK, EnvTypeOK, RefTypeOK, Addr
<1>1. ASSUME UNCHANGED <<port, addr, lock, phase, pending, seen, devices, openMTP, ctrl, handle, closing>>
      PROVE  MapRebuilt'
  BY <1>1 DEF MapRebuilt, PortsDistinct, Matches
<1>2. ASSUME NEW s \in Serials, Plug(s) \/ Unplug(s) PROVE MapRebuilt'
  <2>1. UNCHANGED <<lock, phase, pending, seen, devices, openMTP, ctrl, handle>>
    BY <1>2 DEF Plug, Unplug, refVars, mapVars, devVars
  <2>2. CASE Plug(s)
    <3>1. addr' = addr + 1 /\ port' = [port EXCEPT ![s] = addr + 1]
      BY <2>2 DEF Plug
    <3>2. PortsDistinct'
      BY <1>0, <3>1 DEF MapRebuilt, PortsDistinct
    <3> QED
      BY <2>1, <3>2 DEF MapRebuilt, Matches
  <2>3. CASE Unplug(s)
    <3>1. addr' = addr /\ port' = [port EXCEPT ![s] = 0]
      BY <2>3 DEF Unplug
    <3>2. PortsDistinct'
      BY <1>0, <3>1 DEF MapRebuilt, PortsDistinct
    <3> QED
      BY <2>1, <3>2 DEF MapRebuilt, Matches
  <2> QED
    BY <1>2, <2>2, <2>3
<1>3. ASSUME NEW a \in Requests \cup {Ticker}, RefreshBegin(a) PROVE MapRebuilt'
  <2>1. /\ UNCHANGED <<port, addr>> /\ lock' # Free /\ phase' = "list"
        /\ \A s \in Serials : devices'[s].via # "mtp"
    BY <1>3, RegistryAssumption DEF RefreshBegin, envVars, NoEntry, ADBEntry
  <2> QED
    BY <2>1 DEF MapRebuilt, PortsDistinct
<1>4. CASE RefreshList
  <2>1. /\ UNCHANGED <<port, addr, lock, devices>> /\ phase = "list" /\ phase' = "visit" /\ seen' = {}
        /\ pending' \in {{[serial |-> s, addr |-> port[s]] : s \in Plugged}, {}}
    BY <1>4 DEF RefreshList, mapVars
  <2>2. \A m, n \in pending' : m.addr = n.addr => m = n
    BY <1>0, <2>1 DEF MapRebuilt, PortsDistinct, Plugged
  <2> QED
    BY <2>1, <2>2 DEF MapRebuilt, PortsDistinct
<1>5. ASSUME NEW md \in pending, NEW s \in Serials, VisitKeep(md, s) PROVE MapRebuilt'
  <2>1. /\ UNCHANGED <<port, addr, lock, phase, openMTP, handle>> /\ phase = "visit"
        /\ openMTP[s] # NoHandle /\ handle[openMTP[s]].addr = md.addr
        /\ seen' = seen \cup {s} /\ pending' = pending \ {md}
        /\ devices' = [devices EXCEPT ![s] = MTPEntry(Controller(s, openMTP[s]))]
        /\ ctrl' = [ctrl EXCEPT ![s] = Controller(s, openMTP[s])]
    BY <1>5 DEF VisitKeep, OpenAt, ControllerFor, Serving, envVars
  <2>2. /\ devices'[s].via = "mtp" /\ devices'[s].ctl = ctrl'[s]
        /\ \A t \in Serials \ {s} : devices'[t] = devices[t] /\ ctrl'[t] = ctrl[t]
    BY <1>0, <2>1 DEF MTPEntry
  <2> QED
    BY <1>0, <2>1, <2>2 DEF MapRebuilt, PortsDistinct
<1>6. ASSUME NEW md \in pending, NEW s \in Serials, VisitStale(md, s) PROVE MapRebuilt'
  <2>1. /\ UNCHANGED <<port, addr, lock, phase, pending, seen, devices>> /\ phase = "visit"
        /\ openMTP[s] \in Handles /\ handle[openMTP[s]].addr = md.addr
        /\ openMTP' = [t \in Serials |-> IF t = s THEN NoHandle ELSE openMTP[t]]
        /\ ctrl' = [t \in Serials |-> IF t = s THEN NoHandle ELSE ctrl[t]]
    BY <1>0, <1>6 DEF VisitStale, OpenAt, HandlesWithout, ControllersWithout, refVars
  <2>2. s \notin seen
    BY <2>1 DEF MapRebuilt
  <2>3. \A x \in Handles : handle'[x].addr = handle[x].addr
    BY <1>6, <2>1, CloseEffect DEF VisitStale
  <2>4. \A t \in seen : openMTP'[t] = openMTP[t] /\ ctrl'[t] = ctrl[t] /\ openMTP[t] \in Handles
    BY <1>0, <2>1, <2>2 DEF MapRebuilt
  <2> QED
    BY <1>0, <2>1, <2>3, <2>4 DEF MapRebuilt, PortsDistinct
<1>7. ASSUME NEW md \in pending, VisitOpen(md) PROVE MapRebuilt'
  <2> DEFINE s == md.serial
  <2>1. PICK h \in Handles :
          /\ handle[h].st = "unused" /\ s \in Serials
          /\ handle'[h] = [serial |-> s, addr |-> md.addr, st |-> "open"]
          /\ \A x \in Handles \ {h} : handle'[x] = handle[x]
          /\ seen' = seen \cup {s} /\ pending' = pending \ {md}
          /\ openMTP' = [openMTP EXCEPT ![s] = h]
          /\ ctrl' = [ctrl EXCEPT ![s] = Controller(s, h)]
          /\ devices' = [devices EXCEPT ![s] = MTPEntry(Controller(s, h))]
          /\ UNCHANGED <<port, addr, lock, phase, closing>>
    BY <1>7, VisitOpenEffect
  <2>2. phase = "visit"
    BY <1>7 DEF VisitOpen
  <2> HIDE DEF s
  <2>3. /\ devices'[s].via = "mtp" /\ devices'[s].ctl = ctrl'[s]
        /\ openMTP'[s] = h /\ handle'[h].addr = md.addr /\ h # NoHandle
        /\ \A t \in Serials \ {s} :
             devices'[t] = devices[t] /\ ctrl'[t] = ctrl[t] /\ openMTP'[t] = openMTP[t]
    BY <1>0, <2>1, RegistryAssumption DEF MTPEntry
  <2>4. \A t \in seen \ {s} : openMTP[t] # h /\ openMTP[t] \in Handles
    BY <1>0, <2>1, <2>2, RegistryAssumption DEF MapRebuilt, RegisteredOpen, Open
  <2>5. \A t \in seen \ {s} : handle'[openMTP'[t]].addr = handle[openMTP[t]].addr
    BY <1>0, <2>1, <2>3, <2>4
  <2> QED
    BY <1>0, <2>1, <2>2, <2>3, <2>5 DEF MapRebuilt, PortsDistinct
<1>8. ASSUME NEW md \in pending, VisitOpenFails(md) PROVE MapRebuilt'
  <2>1. /\ UNCHANGED <<port, addr, lock, phase, seen, devices, openMTP, ctrl, handle>>
        /\ phase = "visit" /\ pending' = pending \ {md}
    BY <1>8 DEF VisitOpenFails, mapVars, devVars
  <2> QED
    BY <2>1 DEF MapRebuilt, PortsDistinct
<1>9. CASE RefreshSweep
  <2>1. /\ UNCHANGED <<port, addr, lock, seen>> /\ phase = "visit" /\ phase' = "scan"
        /\ openMTP' = [s \in Serials |-> IF s \in Unseen THEN NoHandle ELSE openMTP[s]]
        /\ ctrl' = [s \in Serials |-> IF s \in Unseen THEN NoHandle ELSE ctrl[s]]
        /\ devices' = [s \in Serials |-> IF s \in Shadows(openMTP') THEN NoEntry ELSE devices[s]]
    BY <1>9 DEF RefreshSweep, HandlesWithout, ControllersWithout, envVars
  <2>2. \A s \in Serials : s \in Shadows(openMTP') => devices[s].via = "adb"
    BY DEF Shadows
  <2>3. ASSUME NEW s \in Serials PROVE Matches(s)'
    <3>1. devices[s].via = "mtp" <=> s \in seen
      BY <2>1 DEF MapRebuilt
    <3>2. s \in seen => openMTP[s] # NoHandle /\ devices[s].ctl = ctrl[s]
      BY <2>1 DEF MapRebuilt
    <3>3. s \in Unseen <=> openMTP[s] # NoHandle /\ s \notin seen
      BY DEF Unseen
    <3>4. CASE s \in seen
      BY <2>1, <2>2, <3>1, <3>2, <3>3, <3>4 DEF Matches
    <3>5. CASE s \notin seen
      <4>1. openMTP'[s] = NoHandle
        BY <2>1, <3>3, <3>5
      <4>2. devices'[s] = devices[s] \/ devices'[s] = NoEntry
        BY <2>1
      <4> QED
        BY <3>1, <3>5, <4>1, <4>2 DEF Matches, NoEntry
    <3> QED
      BY <3>4, <3>5
  <2> QED
    BY <2>1, <2>3 DEF MapRebuilt, PortsDistinct
<1>10. CASE RefreshScan
  <2>1. /\ UNCHANGED <<port, addr, devices, openMTP, ctrl>>
        /\ phase = "scan" /\ phase' = "idle" /\ lock' = Free
    BY <1>10 DEF RefreshScan
  <2> QED
    BY <2>1 DEF MapRebuilt, PortsDistinct, Matches
<1>11. ASSUME NEW h \in Handles, CloseStale(h) PROVE MapRebuilt'
  <2>1. /\ Close(h) /\ UNCHANGED <<port, addr, lock, phase, pending, seen, devices, openMTP, ctrl>>
    BY <1>11 DEF CloseStale, envVars, refVars, mapVars
  <2>2. \A x \in Handles : handle'[x].addr = handle[x].addr
    BY <2>1, CloseEffect
  <2> QED
    BY <1>0, <2>1, <2>2 DEF MapRebuilt, PortsDistinct, Matches
<1>12. CASE Restart
  BY <1>12 DEF Restart, MapRebuilt, PortsDistinct, Matches, NoEntry, envVars
<1>13. CASE Refresh
  BY <1>3, <1>4, <1>5, <1>6, <1>7, <1>8, <1>9, <1>10, <1>13 DEF Refresh, Visit
<1> QED
  BY <1>1, <1>2, <1>11, <1>12, <1>13, QuietSteps

\* Between two Refreshes List and Lookup serve exactly what is registered,
\* fast replugs included.
THEOREM DevicesServed == Spec => []DevicesMatchHandles
<1> DEFINE Inv == TypeOK /\ RegisteredOpen /\ NamesUsed /\ MapRebuilt
<1>1. Init => Inv
  <2> SUFFICES ASSUME Init PROVE Inv
    OBVIOUS
  <2>1. MapRebuilt
    BY DEF Init, DaemonInit, MapRebuilt, PortsDistinct, Matches, NoEntry
  <2> QED
    BY <2>1, InitTypeOK, InitNamesUsed DEF Init, DaemonInit, RegisteredOpen
<1>2. Inv /\ [Next]_vars => Inv'
  BY NextTypeOK, NamesUsedStep, RegisteredOpenStep, MapRebuiltStep
<1>3. Inv => DevicesMatchHandles
  BY DEF MapRebuilt, Matches, DevicesMatchHandles
<1> QED
  BY <1>1, <1>2, <1>3, PTL DEF Spec

-----------------------------------------------------------------------------
(* Properties that follow from the invariants above.                        *)

\* Every variable keeps its type, whatever is plugged, fails or comes back.
THEOREM RegistryTypes == Spec => []TypeOK
  BY HandlesSafe, PTL

\* No libmtp handle is forgotten while it is open, as long as no device comes
\* back before a Refresh saw it go.
THEOREM NoHandleLeaks == FastReplug = FALSE => (Spec => []HandlesOwned)
  BY CoherentWithoutFastReplug, PTL

-----------------------------------------------------------------------------
(* The ADB entry beside an MTP device.                                      *)

\* Once the sweep has hidden the shadows, no handle is registered until the next
\* Refresh empties the map.
Hidden ==
  phase \in {"scan", "idle"} /\ (\E s \in Serials : openMTP[s] # NoHandle) =>
    \A s \in Serials : devices[s].via = "adb" => devices[s].authorized

LEMMA HiddenStep == ASSUME TypeOK, Hidden, [Next]_vars PROVE Hidden'
<1> USE DEF Hidden
<1>1. ASSUME NEW h \in Handles, CloseStale(h) PROVE Hidden'
  BY <1>1 DEF CloseStale, refVars, mapVars
<1>2. ASSUME NEW s \in Serials, Plug(s) \/ Unplug(s) PROVE Hidden'
  BY <1>2 DEF Plug, Unplug, refVars, mapVars
<1>3. CASE Restart
  BY <1>3 DEF Restart
<1>4. ASSUME NEW a, RefreshBegin(a) PROVE Hidden'
  BY <1>4 DEF RefreshBegin
<1>5. CASE RefreshList
  BY <1>5 DEF RefreshList
<1>6. CASE Visit
  BY <1>6 DEF Visit, VisitKeep, VisitStale, VisitOpen, VisitOpenFails, refVars
<1>7. CASE RefreshSweep
  <2>1. devices' = [s \in Serials |-> IF s \in Shadows(openMTP') THEN NoEntry ELSE devices[s]]
    BY <1>7 DEF RefreshSweep
  <2>2. ASSUME NEW t \in Serials, openMTP'[t] # NoHandle, NEW s \in Serials, devices'[s].via = "adb"
        PROVE  devices'[s].authorized
    <3>1. devices'[s] = devices[s] /\ s \notin Shadows(openMTP')
      BY <2>1, <2>2 DEF NoEntry
    <3>2. devices[s].authorized \in BOOLEAN
      BY DEF TypeOK, MapTypeOK, Entry
    <3> QED
      BY <2>2, <3>1, <3>2 DEF Shadows
  <2> QED
    BY <2>2
<1>8. CASE RefreshScan
  BY <1>8 DEF RefreshScan
<1>9. CASE UNCHANGED <<port, addr, lock, phase, pending, seen, devices, openMTP, ctrl, handle, closing>>
  BY <1>9
<1> QED
  BY <1>1, <1>2, <1>3, <1>4, <1>5, <1>6, <1>7, <1>8, <1>9, QuietSteps DEF Refresh

\* However Refreshes meet plugging, failures and restarts: while an MTP device is
\* registered, List does not serve its unauthorized ADB entry beside it.
THEOREM NoShadowServed == Spec => []ShadowsHidden
<1> DEFINE Inv == TypeOK /\ RegisteredOpen /\ NamesUsed /\ MapRebuilt /\ Hidden
<1>1. Init => Inv
  <2> SUFFICES ASSUME Init PROVE Inv
    OBVIOUS
  <2>1. MapRebuilt
    BY DEF Init, DaemonInit, MapRebuilt, PortsDistinct, Matches, NoEntry
  <2> QED
    BY <2>1, InitTypeOK, InitNamesUsed DEF Init, DaemonInit, RegisteredOpen, Hidden
<1>2. Inv /\ [Next]_vars => Inv'
  BY NextTypeOK, NamesUsedStep, RegisteredOpenStep, MapRebuiltStep, HiddenStep
<1>3. Inv => ShadowsHidden
  BY DEF MapRebuilt, Hidden, ShadowsHidden
<1> QED
  BY <1>1, <1>2, <1>3, PTL DEF Spec

-----------------------------------------------------------------------------
(* Mounts.                                                                  *)

LEMMA VolumeSteps ==
  ASSUME [Next]_vars
  PROVE  \/ \E v \in Volumes : Insert(v) \/ Eject(v)
         \/ RefreshScan \/ VolRestart \/ UNCHANGED volVars
<1>1. ASSUME NEW v \in Volumes, InsertVolume(v) \/ EjectVolume(v) PROVE Insert(v) \/ Eject(v)
  BY <1>1 DEF InsertVolume, EjectVolume
<1>2. ASSUME NEW s \in Serials, Plug(s) \/ Unplug(s) \/ ADBChange(s) PROVE UNCHANGED volVars
  BY <1>2 DEF Plug, Unplug, ADBChange
<1>3. ASSUME NEW a, RefreshBegin(a) PROVE UNCHANGED volVars
  BY <1>3 DEF RefreshBegin
<1>4. ASSUME RefreshList \/ Visit \/ RefreshSweep PROVE UNCHANGED volVars
  BY <1>4 DEF RefreshList, Visit, VisitKeep, VisitStale, VisitOpen, VisitOpenFails, RefreshSweep
<1>5. ASSUME NEW h \in Handles, CloseStale(h) \/ Classify(h) PROVE UNCHANGED volVars
  BY <1>5 DEF CloseStale, Classify, WalkStorages, WalkChildren, WalkLookup, WalkPreview, WalkCrash
<1>6. ASSUME NEW r \in Requests, (\E s \in Serials : RequestStart(r, s))
                                  \/ RequestLookup(r) \/ RequestAwait(r) \/ RequestIO(r)
      PROVE  UNCHANGED volVars
  BY <1>6 DEF RequestStart, RequestLookup, RequestAwait, RequestIO
<1>7. ASSUME Restart PROVE VolRestart
  BY <1>7 DEF Restart
<1>8. ASSUME UNCHANGED vars PROVE UNCHANGED volVars
  BY <1>8 DEF vars
<1> QED
  BY <1>1, <1>2, <1>3, <1>4, <1>5, <1>6, <1>7, <1>8, RegistryAssumption DEF Next, Environment, Daemon, Refresh, RegistryAssumption

\* A volume that is there has been inserted; and at all times, not only between
\* two Refreshes, our mounts are those the records say are ours.
MountsMatch ==
  \A v \in Volumes :
    /\ vol[v].here => vol[v].gen # 0
    /\ mounts[v] # 0 <=> msVolumes[v].known /\ msVolumes[v].mountedByUs

LEMMA ScanMatches ==
  ASSUME VolTypeOK, MountsMatch, NEW failing, ScanMassStorage(failing)
  PROVE  MountsMatch'
<1> SUFFICES ASSUME NEW v \in Volumes
             PROVE  /\ vol'[v].here => vol'[v].gen # 0
                    /\ mounts'[v] # 0 <=> msVolumes'[v].known /\ msVolumes'[v].mountedByUs
  BY DEF MountsMatch
<1>1. vol' = vol /\ (vol[v].here => vol[v].gen # 0)
  BY DEF ScanMassStorage, MountsMatch
<1>2. /\ msVolumes'[v] = IF v \in NewVolumes THEN ProbeVolume(v, v \in failing)
                         ELSE IF v \in GoneVolumes THEN NoMSVolume ELSE msVolumes[v]
      /\ mounts'[v] = IF v \in (NewVolumes \cap MediaVolumes) \ (AutoMounted \cup failing) THEN vol[v].gen
                      ELSE IF v \in GoneVolumes /\ msVolumes[v].mountedByUs THEN 0 ELSE mounts[v]
  BY DEF ScanMassStorage
<1>3. mounts[v] # 0 <=> msVolumes[v].known /\ msVolumes[v].mountedByUs
  BY DEF MountsMatch
<1>4. CASE v \in NewVolumes
  <2>1. vol[v].here /\ ~msVolumes[v].known /\ v \notin GoneVolumes
    BY <1>4 DEF NewVolumes, GoneVolumes
  <2>2. /\ msVolumes'[v].known
        /\ msVolumes'[v].mountedByUs <=> v \in MediaVolumes /\ v \notin failing /\ v \notin AutoMounted
    <3>1. msVolumes'[v] = ProbeVolume(v, v \in failing)
      BY <1>2, <1>4
    <3>2. /\ ProbeVolume(v, v \in failing).known
          /\ ProbeVolume(v, v \in failing).mountedByUs
               = (v \in MediaVolumes /\ ~(v \in failing) /\ v \notin AutoMounted)
      BY DEF ProbeVolume
    <3> QED
      BY <3>1, <3>2, Zenon
  <2>3. mounts[v] = 0
    BY <1>3, <2>1
  <2> QED
    BY <1>1, <1>2, <1>4, <2>1, <2>2, <2>3
<1>5. CASE v \in GoneVolumes /\ v \notin NewVolumes
  <2>1. msVolumes'[v] = NoMSVolume /\ ~NoMSVolume.known
    BY <1>2, <1>5 DEF NoMSVolume
  <2>2. mounts'[v] = 0
    BY <1>2, <1>3, <1>5
  <2> QED
    BY <1>1, <2>1, <2>2
<1>6. CASE v \notin GoneVolumes /\ v \notin NewVolumes
  BY <1>1, <1>2, <1>3, <1>6
<1> QED
  BY <1>4, <1>5, <1>6

LEMMA MountsMatchStep == ASSUME TypeOK, MountsMatch, [Next]_vars PROVE MountsMatch'
<1>0. VolTypeOK
  BY DEF TypeOK
<1>1. ASSUME NEW v \in Volumes, Insert(v) \/ Eject(v) PROVE MountsMatch'
  BY <1>0, <1>1 DEF Insert, Eject, MountsMatch, VolTypeOK, VolState
<1>2. CASE RefreshScan
  <2>1. ASSUME NEW failing, ScanMassStorage(failing) PROVE MountsMatch'
    BY <1>0, <2>1, ScanMatches
  <2>2. ASSUME ScanFails PROVE MountsMatch'
    BY <2>2 DEF ScanFails, volVars, MountsMatch
  <2> QED
    BY <1>2, <2>1, <2>2 DEF RefreshScan
<1>3. CASE VolRestart
  BY <1>3 DEF VolRestart, CleanMounts, NoMSVolume, MountsMatch
<1>4. CASE UNCHANGED volVars
  BY <1>4 DEF volVars, MountsMatch
<1> QED
  BY <1>1, <1>2, <1>3, <1>4, VolumeSteps

\* No mount is orphaned and none is forgotten: whatever is inserted, ejected or
\* fails to mount, and however often the daemon dies, what is mounted below
\* massStorageDir is what the records say is ours.
THEOREM NoMountOrphaned == Spec => []MountsOwned
<1>1. Init => TypeOK /\ RegisteredOpen /\ NamesUsed /\ MountsMatch
  <2> SUFFICES ASSUME Init PROVE TypeOK /\ RegisteredOpen /\ NamesUsed /\ MountsMatch
    OBVIOUS
  <2>1. MountsMatch
    BY DEF Init, VolInit, NoMSVolume, MountsMatch
  <2> QED
    BY <2>1, InitTypeOK, InitNamesUsed DEF Init, DaemonInit, RegisteredOpen
<1>2. TypeOK /\ RegisteredOpen /\ NamesUsed /\ MountsMatch /\ [Next]_vars
        => (TypeOK /\ RegisteredOpen /\ NamesUsed /\ MountsMatch)'
  BY NextTypeOK, NamesUsedStep, RegisteredOpenStep, MountsMatchStep
<1>3. MountsMatch => MountsOwned
  BY DEF MountsMatch, MountsOwned
<1> QED
  BY <1>1, <1>2, <1>3, PTL DEF Spec

-----------------------------------------------------------------------------
(* The verdict of a walk.                                                   *)

\* The kernel hands out each address once: one that went never comes back, so a
\* connection that is alive has been alive since the handle was opened.
AddressesOnce ==
  /\ \A s \in Serials : port[s] <= addr
  /\ \A h \in Handles : handle[h].addr <= addr
  /\ \A h \in Handles : Open(h) => handle[h].addr # 0

NoTree(l, n) == \A i \in 1..n : ~({"android", "waypoint"} \subseteq l[i])
SawDCIM(l, n) == \E i \in 1..n : "dcim" \in l[i]
Verdict(l) ==
  IF ~NoTree(l, Len(l)) THEN "controller" ELSE IF SawDCIM(l, Len(l)) THEN "camera" ELSE "unknown"

\* What a walk remembers of the first n storages: a DCIM folder only if there is
\* one, and no less than there is unless a listing of it failed.
Behind(l, n, dcim, missed) ==
  /\ dcim => SawDCIM(l, n)
  /\ missed \/ (NoTree(l, n) /\ (dcim <=> SawDCIM(l, n)))
Claim(l, kind, missed) ==
  /\ kind # "none"
  /\ kind = "controller" => ~NoTree(l, Len(l))
  /\ kind = "camera" => SawDCIM(l, Len(l))
  /\ kind = Verdict(l) \/ missed

\* A walk w over the storages l is sound at each of its steps.
WalkSound(w, l) ==
  /\ w.pc = "storages" => w.at = 0
  /\ w.pc = "children" => w.at \in 1..Len(l) /\ Behind(l, w.at - 1, w.dcim, w.missed)
  /\ w.pc = "lookup" =>
       /\ w.at \in 1..Len(l)
       /\ w.dcim => SawDCIM(l, w.at)
       /\ w.missed \/ (NoTree(l, w.at - 1) /\ (w.dcim <=> SawDCIM(l, w.at)))
       /\ "android" \in l[w.at]
  /\ w.pc = "preview" => ~NoTree(l, Len(l))
  /\ w.pc = "done" => ~w.err /\ Claim(l, w.kind, w.missed)

WalksSound == \A h \in Handles : Open(h) /\ Alive(h) => WalkSound(walk[h], Storages(h))

LEMMA LayoutType ==
  ASSUME NEW s \in Serials
  PROVE  Len(Layout[s]) \in Nat /\ DOMAIN Layout[s] = 1..Len(Layout[s]) /\ Verdict(Layout[s]) = KindOf(s)
<1>1. Layout[s] \in Seq(SUBSET Marks)
  BY RegistryAssumption
<1>2. Len(Layout[s]) \in Nat /\ DOMAIN Layout[s] = 1..Len(Layout[s])
  BY <1>1
<1> QED
  BY <1>2 DEF Verdict, KindOf, NoTree, SawDCIM

LEMMA FreshWalkSound ==
  ASSUME NEW l PROVE WalkSound(NoWalk, l) /\ WalkSound(KickedOff, l)
BY DEF WalkSound, NoWalk, KickedOff

LEMMA ChildrenSound ==
  ASSUME NEW w, NEW l, NEW n, w.pc = "children", w.at = n, n \in 1..Len(l),
         Behind(l, n - 1, w.dcim, w.missed)
  PROVE  WalkSound(w, l)
BY Zenon DEF WalkSound

\* One storage further, or the verdict after the last.
LEMMA FurtherSound ==
  ASSUME NEW n \in Nat, NEW l, NEW m \in Nat, Len(l) = m, n <= m,
         NEW dcim \in BOOLEAN, NEW missed \in BOOLEAN, Behind(l, n, dcim, missed)
  PROVE  /\ n = m => Claim(l, IF dcim THEN "camera" ELSE "unknown", missed)
         /\ n # m => n + 1 \in 1..m /\ Behind(l, n + 1 - 1, dcim, missed)
<1>1. ASSUME n = m PROVE Claim(l, IF dcim THEN "camera" ELSE "unknown", missed)
  <2>1. missed \/ (IF dcim THEN "camera" ELSE "unknown") = Verdict(l)
    BY <1>1 DEF Behind, Verdict
  <2>2. dcim => SawDCIM(l, Len(l))
    BY <1>1 DEF Behind
  <2> QED
    BY <2>1, <2>2 DEF Claim
<1>2. ASSUME n # m PROVE n + 1 \in 1..m /\ n + 1 - 1 = n
  BY <1>2
<1> QED
  BY <1>1, <1>2

LEMMA OneMore ==
  ASSUME NEW l, NEW n \in Nat \ {0}
  PROVE  /\ NoTree(l, n) <=> NoTree(l, n - 1) /\ ~({"android", "waypoint"} \subseteq l[n])
         /\ SawDCIM(l, n) <=> SawDCIM(l, n - 1) \/ "dcim" \in l[n]
<1>1. 1..n = (1..n-1) \cup {n}
  OBVIOUS
<1> QED
  BY <1>1 DEF NoTree, SawDCIM

LEMMA FinishSound ==
  ASSUME TypeOK, NEW h \in Handles, NEW kind, NEW missed,
         Claim(Storages(h), kind, missed), Finish(h, kind, FALSE, missed)
  PROVE  WalkSound(walk'[h], Storages(h))
<1> DEFINE w == [NoWalk EXCEPT !.pc = "done", !.kind = kind, !.err = FALSE, !.missed = missed]
<1>1. w.pc = "done" /\ w.kind = kind /\ ~w.err /\ w.missed = missed
  BY DEF NoWalk
<1>2. walk' = [walk EXCEPT ![h] = w] /\ walk \in [Handles -> Walk]
  BY DEF Finish, TypeOK, DevTypeOK
<1> HIDE DEF w
<1> QED
  BY <1>1, <1>2 DEF WalkSound

LEMMA AdvanceSound ==
  ASSUME TypeOK, NEW h \in Handles, handle[h].st # "unused", NEW dcim \in BOOLEAN,
         NEW missed \in BOOLEAN, Behind(Storages(h), walk[h].at, dcim, missed),
         Advance(h, dcim, missed)
  PROVE  WalkSound(walk'[h], Storages(h))
<1> DEFINE l == Storages(h)
<1> DEFINE n == walk[h].at
<1>1. Len(l) \in Nat /\ n \in Nat /\ n <= Len(l)
  BY LayoutType DEF TypeOK, DevTypeOK, WalksFit, Device, Walk, Storages
<1>2. CASE n = Len(l)
  <2>1. Finish(h, IF dcim THEN "camera" ELSE "unknown", FALSE, missed)
    BY <1>2 DEF Advance, LastStorage
  <2>2. Claim(l, IF dcim THEN "camera" ELSE "unknown", missed)
    BY <1>1, <1>2, FurtherSound
  <2> QED
    BY <2>1, <2>2, FinishSound
<1>3. CASE n # Len(l)
  <2> DEFINE w == [pc |-> "children", at |-> walk[h].at + 1, dcim |-> dcim, kind |-> "none",
                   err |-> FALSE, missed |-> missed]
  <2>1. walk[h] \in Walk /\ walk \in [Handles -> Walk]
    BY DEF TypeOK, DevTypeOK
  <2>3. walk' = [walk EXCEPT ![h] = w]
    BY <1>3 DEF Advance, LastStorage
  <2> DEFINE k == n + 1
  <2>4. w.pc = "children" /\ w.at = k /\ w.dcim = dcim /\ w.missed = missed
    BY <2>1 DEF Walk
  <2>5. k \in 1..Len(l) /\ Behind(l, k - 1, dcim, missed)
    BY <1>1, <1>3, FurtherSound
  <2> HIDE DEF w, n, l, k
  <2>7. WalkSound(w, l)
    BY <2>4, <2>5, ChildrenSound
  <2> QED
    BY <2>1, <2>3, <2>7 DEF l
<1> QED
  BY <1>2, <1>3

\* A walk of a device that is alive and whose handle is open stays sound,
\* whichever of its calls fail.
LEMMA ClassifySound ==
  ASSUME TypeOK, NEW h \in Handles, Open(h), Alive(h), WalkSound(walk[h], Storages(h)), Classify(h)
  PROVE  WalkSound(walk'[h], Storages(h))
<1> DEFINE l == Storages(h)
<1> DEFINE n == walk[h].at
<1>0. /\ walk \in [Handles -> Walk] /\ walk[h] \in Walk /\ handle[h].serial \in Serials
      /\ handle[h].st # "unused" /\ l = Layout[handle[h].serial] /\ Len(l) \in Nat
      /\ walk[h].dcim \in BOOLEAN /\ walk[h].missed \in BOOLEAN /\ ~CallRefused(h)
  BY LayoutType DEF TypeOK, DevTypeOK, Device, Walk, Open, Storages, CallRefused
<1>1. CASE WalkStorages(h)
  <2>1. walk[h].at = 0
    BY <1>1 DEF WalkStorages, WalkSound
  <2>2. CASE Advance(h, FALSE, FALSE)
    <3>1. Behind(l, 0, FALSE, FALSE)
      BY DEF Behind, NoTree, SawDCIM
    <3> QED
      BY <1>0, <2>1, <2>2, <3>1, AdvanceSound
  <2>3. CASE Finish(h, "unknown", FALSE, TRUE)
    <3>1. Claim(l, "unknown", TRUE)
      BY DEF Claim
    <3> QED
      BY <2>3, <3>1, FinishSound
  <2> QED
    BY <1>0, <1>1, <2>2, <2>3 DEF WalkStorages
<1>2. CASE WalkChildren(h)
  <2>1. walk[h].pc = "children" /\ Children(h) = l[n]
    BY <1>2 DEF WalkChildren, Children
  <2>2. n \in 1..Len(l) /\ Behind(l, n - 1, walk[h].dcim, walk[h].missed)
    BY <2>1 DEF WalkSound
  <2>3. n \in Nat \ {0}
    BY <1>0, <2>2
  <2>s. SawDCIM(l, n) <=> SawDCIM(l, n - 1) \/ "dcim" \in l[n]
    BY <2>3, OneMore
  <2>d. SeenDCIM(h) <=> walk[h].dcim \/ "dcim" \in l[n]
    BY <2>1 DEF SeenDCIM
  <2>b. SeenDCIM(h) \in BOOLEAN
    BY <1>0 DEF SeenDCIM
  <2>4. /\ SeenDCIM(h) => SawDCIM(l, n)
        /\ walk[h].missed \/ (NoTree(l, n - 1) /\ (SeenDCIM(h) <=> SawDCIM(l, n)))
    <3> HIDE DEF l, n
    <3> QED
      BY <2>2, <2>s, <2>d DEF Behind
  <2>5. CASE "android" \in l[n] /\ walk' = [walk EXCEPT ![h] = [@ EXCEPT !.pc = "lookup", !.dcim = SeenDCIM(h)]]
    <3> DEFINE w == [walk[h] EXCEPT !.pc = "lookup", !.dcim = SeenDCIM(h)]
    <3>2. walk'[h] = w
      BY <1>0, <2>5
    <3>3. w.pc = "lookup" /\ w.at = n /\ w.dcim = SeenDCIM(h) /\ w.missed = walk[h].missed
      BY <1>0 DEF Walk
    <3> HIDE DEF w, n, l
    <3>4. WalkSound(w, l)
      BY <2>2, <2>4, <2>5, <3>3 DEF WalkSound
    <3> QED
      BY <3>2, <3>4 DEF l
  <2>6. CASE "android" \notin l[n] /\ Advance(h, SeenDCIM(h), walk[h].missed)
    <3>1. NoTree(l, n) <=> NoTree(l, n - 1)
      BY <2>3, <2>6, OneMore
    <3>2. Behind(l, n, SeenDCIM(h), walk[h].missed)
      <4> HIDE DEF l, n
      <4> QED
        BY <2>4, <3>1 DEF Behind
    <3> QED
      BY <1>0, <2>b, <2>6, <3>2, AdvanceSound
  <2>7. CASE Advance(h, walk[h].dcim, TRUE)
    <3>1. Behind(l, n, walk[h].dcim, TRUE)
      <4> HIDE DEF l, n
      <4> QED
        BY <2>2, <2>s DEF Behind
    <3> QED
      BY <1>0, <2>7, <3>1, AdvanceSound
  <2> QED
    BY <1>0, <1>2, <2>1, <2>5, <2>6, <2>7 DEF WalkChildren
<1>3. CASE WalkLookup(h)
  <2>1. walk[h].pc = "lookup" /\ Children(h) = l[n]
    BY <1>3 DEF WalkLookup, Children
  <2>2. /\ n \in 1..Len(l) /\ (walk[h].dcim => SawDCIM(l, n)) /\ "android" \in l[n]
        /\ walk[h].missed \/ (NoTree(l, n - 1) /\ (walk[h].dcim <=> SawDCIM(l, n)))
    BY <2>1 DEF WalkSound
  <2>3. n \in Nat \ {0}
    BY <1>0, <2>2
  <2>4. CASE "waypoint" \in l[n] /\ walk' = [walk EXCEPT ![h].pc = "preview"]
    <3>1. ~NoTree(l, Len(l))
      BY <2>2, <2>4 DEF NoTree
    <3>2. walk'[h].pc = "preview"
      BY <1>0, <2>4 DEF Walk
    <3> QED
      BY <3>1, <3>2 DEF WalkSound
  <2>5. CASE "waypoint" \notin l[n] /\ Advance(h, walk[h].dcim, walk[h].missed)
    <3>1. NoTree(l, n) <=> NoTree(l, n - 1)
      BY <2>3, <2>5, OneMore
    <3>2. Behind(l, n, walk[h].dcim, walk[h].missed)
      <4> HIDE DEF l, n
      <4> QED
        BY <2>2, <3>1 DEF Behind
    <3> QED
      BY <1>0, <2>5, <3>2, AdvanceSound
  <2>6. CASE Advance(h, walk[h].dcim, TRUE)
    <3>1. Behind(l, n, walk[h].dcim, TRUE)
      BY <2>2 DEF Behind
    <3> QED
      BY <1>0, <2>6, <3>1, AdvanceSound
  <2> QED
    BY <1>3, <2>1, <2>4, <2>5, <2>6 DEF WalkLookup
<1>4. CASE WalkPreview(h)
  <2>1. Finish(h, "controller", FALSE, walk[h].missed) /\ ~NoTree(l, Len(l))
    BY <1>4 DEF WalkPreview, WalkSound
  <2>2. Claim(l, "controller", walk[h].missed)
    BY <2>1 DEF Claim, Verdict
  <2> QED
    BY <2>1, <2>2, FinishSound
<1>5. CASE WalkCrash(h)
  BY <1>5 DEF WalkCrash, devVars
<1> QED
  BY <1>1, <1>2, <1>3, <1>4, <1>5 DEF Classify

\* One walk moves at a time.
LEMMA OneWalkMoves ==
  ASSUME TypeOK, NEW h \in Handles, Classify(h), NEW x \in Handles, x # h
  PROVE  walk'[x] = walk[x]
<1>1. walk \in [Handles -> Walk]
  BY DEF TypeOK, DevTypeOK
<1>2. ASSUME NEW kind, NEW err, NEW missed, Finish(h, kind, err, missed) PROVE walk'[x] = walk[x]
  BY <1>1, <1>2 DEF Finish
<1>3. ASSUME NEW dcim, NEW missed, Advance(h, dcim, missed) PROVE walk'[x] = walk[x]
  BY <1>1, <1>2, <1>3 DEF Advance
<1> QED
  BY <1>1, <1>2, <1>3 DEF Classify, WalkStorages, WalkChildren, WalkLookup, WalkPreview, WalkCrash, CallRefused, devVars

LEMMA WalkSteps ==
  ASSUME [Next]_vars
  PROVE  \/ \E s \in Serials : Plug(s) \/ Unplug(s)
         \/ \E md \in pending : VisitOpen(md) \/ \E s \in Serials : VisitKeep(md, s) \/ VisitStale(md, s)
         \/ \E h \in Handles : CloseStale(h) \/ Classify(h)
         \/ \E r \in Requests : RequestAwait(r)
         \/ Restart \/ UNCHANGED <<port, addr, handle, walk>>
<1> DEFINE Still == UNCHANGED <<port, addr, handle, walk>>
<1>1. ASSUME NEW s \in Serials, ADBChange(s) PROVE Still
  BY <1>1 DEF ADBChange, devVars
<1>2. ASSUME NEW v \in Volumes, InsertVolume(v) \/ EjectVolume(v) PROVE Still
  BY <1>2 DEF InsertVolume, EjectVolume, envVars, devVars
<1>3. ASSUME NEW a, RefreshBegin(a) PROVE Still
  BY <1>3 DEF RefreshBegin, envVars, devVars
<1>4. ASSUME RefreshList \/ RefreshSweep \/ RefreshScan PROVE Still
  BY <1>4 DEF RefreshList, RefreshSweep, RefreshScan, envVars, devVars
<1>5. ASSUME NEW md \in pending, VisitOpenFails(md) PROVE Still
  BY <1>5 DEF VisitOpenFails, devVars
<1>6. ASSUME NEW r \in Requests, (\E s \in Serials : RequestStart(r, s))
                                  \/ RequestLookup(r) \/ RequestIO(r)
      PROVE  Still
  BY <1>6 DEF RequestStart, RequestLookup, RequestIO, envVars, devVars
<1>7. ASSUME UNCHANGED vars PROVE Still
  BY <1>7 DEF vars, envVars, devVars
<1> HIDE DEF Still
<1>8. ASSUME Next
      PROVE  \/ \E s \in Serials : Plug(s) \/ Unplug(s)
             \/ \E md \in pending : VisitOpen(md) \/ \E s \in Serials : VisitKeep(md, s) \/ VisitStale(md, s)
             \/ \E h \in Handles : CloseStale(h) \/ Classify(h)
             \/ \E r \in Requests : RequestAwait(r)
             \/ Restart \/ Still
  BY <1>1, <1>2, <1>3, <1>4, <1>5, <1>6, <1>8, RegistryAssumption DEF Next, Environment, Daemon, Refresh, Visit, RegistryAssumption
<1> QED
  BY <1>7, <1>8 DEF Still

LEMMA WalksSoundStep ==
  ASSUME TypeOK, RegisteredOpen, AddressesOnce, WalksSound, [Next]_vars
  PROVE  AddressesOnce' /\ WalksSound'
<1> DEFINE Good == AddressesOnce /\ WalksSound
<1>0. /\ port \in [Serials -> Addr] /\ addr \in Nat /\ (\A s \in Serials : port[s] \in Nat)
      /\ handle \in [Handles -> Device] /\ walk \in [Handles -> Walk]
      /\ \A h \in Handles : handle[h].serial \in Serials /\ handle[h].addr \in Nat
      /\ openMTP \in [Serials -> Handles \cup {NoHandle}]
  BY RegistryAssumption DEF TypeOK, EnvTypeOK, DevTypeOK, MapTypeOK, Addr, Device
\* A step that leaves the devices alone moves at most one walk.
<1>w. ASSUME UNCHANGED <<port, addr, handle>>, NEW h \in Handles,
             \A x \in Handles \ {h} : walk'[x] = walk[x],
             Open(h) /\ Alive(h) => WalkSound(walk'[h], Storages(h))
      PROVE  Good'
  BY <1>w DEF AddressesOnce, WalksSound, Open, Alive, Storages
<1>1. ASSUME NEW s \in Serials, Plug(s) PROVE Good'
  <2>1. /\ addr' = addr + 1 /\ port' = [port EXCEPT ![s] = addr + 1]
        /\ UNCHANGED <<handle, walk>>
    BY <1>1 DEF Plug, devVars
  <2>2. AddressesOnce'
    BY <1>0, <2>1 DEF AddressesOnce, Open
  <2>3. \A h \in Handles : Alive(h)' => Alive(h)
    BY <1>0, <2>1 DEF AddressesOnce, Alive
  <2> QED
    BY <2>1, <2>2, <2>3 DEF WalksSound, Open, Storages
<1>2. ASSUME NEW s \in Serials, Unplug(s) PROVE Good'
  <2>1. UNCHANGED <<addr, handle, walk>> /\ port' = [port EXCEPT ![s] = 0]
    BY <1>2 DEF Unplug, devVars
  <2>2. AddressesOnce'
    BY <1>0, <2>1 DEF AddressesOnce, Open
  <2>3. \A h \in Handles : Open(h) /\ Alive(h)' => Alive(h)
    BY <1>0, <2>1 DEF AddressesOnce, Alive
  <2> QED
    BY <2>1, <2>2, <2>3 DEF WalksSound, Open, Storages
<1>3. ASSUME NEW md \in pending, NEW s \in Serials, VisitKeep(md, s) PROVE Good'
  <2>1. openMTP[s] \in Handles /\ UNCHANGED <<port, addr, handle>> /\ ControllerFor(s, openMTP[s])
    BY <1>0, <1>3 DEF VisitKeep, OpenAt, envVars
  <2>2. \/ walk' = walk \/ walk' = [walk EXCEPT ![openMTP[s]] = KickedOff]
    BY <2>1 DEF ControllerFor
  <2>3. \A x \in Handles \ {openMTP[s]} : walk'[x] = walk[x]
    BY <1>0, <2>2
  <2>4. walk'[openMTP[s]] \in {walk[openMTP[s]], KickedOff}
    BY <1>0, <2>1, <2>2
  <2>5. /\ Open(openMTP[s]) /\ Alive(openMTP[s])
             => WalkSound(walk'[openMTP[s]], Storages(openMTP[s]))
    BY <2>1, <2>4, FreshWalkSound DEF WalksSound
  <2> QED
    BY <2>1, <2>3, <2>5, <1>w
\* A handle that is closed bears no walk that counts.
<1>c. ASSUME NEW h \in Handles, Close(h), UNCHANGED <<port, addr, walk>> PROVE Good'
  <2>1. /\ \A x \in Handles : handle'[x].serial = handle[x].serial /\ handle'[x].addr = handle[x].addr
        /\ \A x \in Handles : Open(x)' => Open(x)
    BY <1>c, CloseEffect
  <2> QED
    BY <1>c, <2>1 DEF AddressesOnce, WalksSound, Alive, Storages
<1>4. ASSUME NEW md \in pending, NEW s \in Serials, VisitStale(md, s) PROVE Good'
  <2>1. openMTP[s] \in Handles /\ Close(openMTP[s]) /\ UNCHANGED <<port, addr, walk>>
    BY <1>0, <1>4 DEF VisitStale, OpenAt
  <2> QED
    BY <2>1, <1>c
<1>5. ASSUME NEW md \in pending, VisitOpen(md) PROVE Good'
  <2>1. PICK h \in Handles :
          /\ handle[h].st = "unused" /\ md.serial \in Serials
          /\ handle' = [handle EXCEPT ![h] = [serial |-> md.serial, addr |-> md.addr, st |-> "open"]]
          /\ ControllerFor(md.serial, h) /\ UNCHANGED <<port, addr>>
    <3>1. PICK x \in Handles : handle[x].st = "unused"
      BY <1>5 DEF VisitOpen
    <3> DEFINE h == CHOOSE y \in Handles : handle[y].st = "unused"
    <3>2. h \in Handles /\ handle[h].st = "unused"
      BY <3>1
    <3>3. md.serial \in Serials
      BY DEF TypeOK, RefTypeOK, RawDevice
    <3> QED
      BY <1>5, <3>2, <3>3 DEF VisitOpen, envVars
  <2>2. md.addr = port[md.serial] /\ md.addr <= addr /\ md.addr # 0
    BY <1>5, <2>1 DEF VisitOpen, AddressesOnce, TypeOK, RefTypeOK, RawDevice
  <2>3. /\ handle'[h].serial = md.serial /\ handle'[h].addr = md.addr
        /\ \A x \in Handles \ {h} : handle'[x] = handle[x]
    BY <1>0, <2>1
  <2>4. AddressesOnce'
    BY <2>1, <2>2, <2>3 DEF AddressesOnce, Open
  <2>5. walk[h] = NoWalk
    BY <2>1 DEF TypeOK, DevTypeOK, WalksFit
  <2>6. walk'[h] \in {NoWalk, KickedOff} /\ \A x \in Handles \ {h} : walk'[x] = walk[x]
    BY <1>0, <2>1, <2>5 DEF ControllerFor
  <2>7. WalkSound(walk'[h], Storages(h)')
    BY <2>6, FreshWalkSound
  <2>8. \A x \in Handles \ {h} : Open(x)' /\ Alive(x)' => WalkSound(walk'[x], Storages(x)')
    BY <2>1, <2>3, <2>6 DEF WalksSound, Open, Alive, Storages
  <2>9. WalksSound'
    BY <2>7, <2>8 DEF WalksSound
  <2> QED
    BY <2>4, <2>9
<1>6. ASSUME NEW h \in Handles, CloseStale(h) PROVE Good'
  BY <1>6, <1>c DEF CloseStale, envVars
<1>7. ASSUME NEW h \in Handles, Classify(h) PROVE Good'
  <2>1. UNCHANGED <<port, addr, handle>>
    BY <1>7 DEF Classify, WalkStorages, WalkChildren, WalkLookup, WalkPreview, WalkCrash, envVars, devVars
  <2>2. \A x \in Handles \ {h} : walk'[x] = walk[x]
    BY <1>7, OneWalkMoves
  <2>3. Open(h) /\ Alive(h) => WalkSound(walk'[h], Storages(h))
    BY <1>7, ClassifySound DEF WalksSound
  <2> QED
    BY <2>1, <2>2, <2>3, <1>w
<1>10. ASSUME NEW r \in Requests, RequestAwait(r) PROVE Good'
  <2> DEFINE c == req[r].ctl
  <2>1. /\ walk' = walk \/ walk' = [walk EXCEPT ![c] = KickedOff]
        /\ UNCHANGED <<port, addr, handle>>
    BY <1>10 DEF RequestAwait, envVars
  <2>2. c \in Handles \cup {NoHandle}
    BY DEF TypeOK, Request
  <2> HIDE DEF c
  <2>3. \A x \in Handles : walk'[x] \in {walk[x], KickedOff}
    BY <1>0, <2>1, <2>2
  <2>4. AddressesOnce'
    BY <2>1 DEF AddressesOnce, Open
  <2>5. \A x \in Handles : Open(x) /\ Alive(x) => WalkSound(walk'[x], Storages(x))
    BY <2>3, FreshWalkSound DEF WalksSound
  <2>6. WalksSound'
    BY <2>1, <2>5 DEF WalksSound, Open, Alive, Storages
  <2> QED
    BY <2>4, <2>6
<1>8. CASE Restart
  <2>1. UNCHANGED <<port, addr>> /\ handle' = [h \in Handles |-> Unused]
    BY <1>8 DEF Restart, envVars
  <2> QED
    BY <1>0, <2>1 DEF AddressesOnce, WalksSound, Open, Unused
<1>9. CASE UNCHANGED <<port, addr, handle, walk>>
  BY <1>9 DEF AddressesOnce, WalksSound, Open, Alive, Storages
<1> QED
  BY <1>1, <1>2, <1>3, <1>4, <1>5, <1>6, <1>7, <1>8, <1>9, <1>10, WalkSteps

\* A walk runs beside everything else, over several libmtp calls that may fail
\* and without the registry lock; and yet, whatever the device's storages are and
\* whatever is plugged, closed and opened around it, on a connection that is
\* still alive it claims nothing its device does not have, and is right if no
\* listing of it failed.
THEOREM VerdictsRight == Spec => []VerdictCorrect
<1> DEFINE Inv == TypeOK /\ RegisteredOpen /\ NamesUsed /\ AddressesOnce /\ WalksSound
<1>1. Init => Inv
  <2> SUFFICES ASSUME Init PROVE Inv
    OBVIOUS
  <2>1. AddressesOnce /\ WalksSound
    BY DEF Init, DaemonInit, AddressesOnce, WalksSound, Open, Unused
  <2> QED
    BY <2>1, InitTypeOK, InitNamesUsed DEF Init, DaemonInit, RegisteredOpen
<1>2. Inv /\ [Next]_vars => Inv'
  BY NextTypeOK, NamesUsedStep, RegisteredOpenStep, WalksSoundStep
<1>3. Inv => VerdictCorrect
  <2> SUFFICES ASSUME Inv, NEW h \in Handles, Located(h), Open(h), Alive(h)
               PROVE  LET s == handle[h].serial
                          Has(marks) == \E i \in DOMAIN Layout[s] : marks \subseteq Layout[s][i]
                      IN /\ ~walk[h].err /\ walk[h].kind # "none"
                         /\ walk[h].kind = "controller" => Has({"android", "waypoint"})
                         /\ walk[h].kind = "camera" => Has({"dcim"})
                         /\ walk[h].kind = KindOf(s) \/ walk[h].missed
    BY DEF VerdictCorrect
  <2> DEFINE s == handle[h].serial
             l == Layout[s]
  <2>1. WalkSound(walk[h], l) /\ walk[h].pc = "done"
    BY DEF WalksSound, Located, Storages
  <2>2. s \in Serials
    BY DEF TypeOK, DevTypeOK, Device
  <2>3. Verdict(l) = KindOf(s) /\ DOMAIN l = 1..Len(l)
    BY <2>2, LayoutType
  <2>4. ~walk[h].err /\ Claim(l, walk[h].kind, walk[h].missed)
    BY <2>1 DEF WalkSound
  <2>5. /\ ~NoTree(l, Len(l)) => \E i \in DOMAIN l : {"android", "waypoint"} \subseteq l[i]
        /\ SawDCIM(l, Len(l)) => \E i \in DOMAIN l : {"dcim"} \subseteq l[i]
    BY <2>3 DEF NoTree, SawDCIM
  <2> QED
    BY <2>3, <2>4, <2>5 DEF Claim
<1> QED
  BY <1>1, <1>2, <1>3, PTL DEF Spec

=============================================================================
