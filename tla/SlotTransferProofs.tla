------------------------ MODULE SlotTransferProofs ------------------------
(***************************************************************************)
(* Proofs about SlotTransfer: no mission is lost in silence, and the slots *)
(* keep the promise of SlotPromise, for every set of slots and requests    *)
(* and every number of cuts and faults.                                    *)
(***************************************************************************)
EXTENDS SlotTransfer, TLAPS

-----------------------------------------------------------------------------
(* Types.                                                                   *)

\* A device call, whatever it is for, ends in Works or Fails.
LEMMA CallEnvType ==
  ASSUME EnvTypeOK, NEW r \in Requests, Works(r) \/ Fails(r)
  PROVE  EnvTypeOK'
  BY SlotAssumption DEF EnvTypeOK, Works, Fails, envVars

\* One request moves to p, with f as the entry it found.
LEMMA MoveType ==
  ASSUME RequestTypeOK, NEW r \in Requests,
         NEW p \in Steps \cup Answers, NEW f \in Authors \cup {None},
         p \in {"delete", "get", "jdelete"} => f # None,
         pc' = [pc EXCEPT ![r] = p], found' = [found EXCEPT ![r] = f],
         shown' \in [Requests -> Authors \cup {None}]
  PROVE  RequestTypeOK'
  BY DEF RequestTypeOK

LEMMA StayType ==
  ASSUME RequestTypeOK, NEW r \in Requests,
         NEW p \in (Steps \cup Answers) \ {"delete", "get", "jdelete"},
         pc' = [pc EXCEPT ![r] = p], found' = found,
         shown' \in [Requests -> Authors \cup {None}]
  PROVE  RequestTypeOK'
  BY DEF RequestTypeOK

\* What a lookup returns is an object of the slot, or none.
LEMMA LookupType ==
  ASSUME TypeOK, NEW r \in Requests, NEW objects \in SUBSET Authors, Lookup(r, objects)
  PROVE  \E f \in Authors \cup {None} : found' = [found EXCEPT ![r] = f] /\ found'[r] = f
  BY DEF TypeOK, RequestTypeOK, Lookup

LEMMA TypeStart ==
  ASSUME TypeOK, NEW r \in Requests, Start(r) PROVE TypeOK'
  <1>1. PICK p \in {"look", "failed"} : pc' = [pc EXCEPT ![r] = p]
    BY DEF Start, Goto
  <1>2. RequestTypeOK'
    BY <1>1, StayType DEF TypeOK, RequestTypeOK, Start, Steps, Answers
  <1>3. EnvTypeOK'
    BY SlotAssumption DEF TypeOK, EnvTypeOK, Start
  <1> QED
    BY <1>2, <1>3 DEF TypeOK, DeviceTypeOK, Start, deviceVars

LEMMA TypeLook ==
  ASSUME TypeOK, NEW r \in Requests, Look(r) PROVE TypeOK'
  <1>1. EnvTypeOK'
    BY CallEnvType DEF TypeOK, Look, Lookup
  <1>2. kmz[Slot[r]] \in SUBSET Authors
    BY SlotAssumption DEF TypeOK, DeviceTypeOK
  <1>3. PICK f \in Authors \cup {None} : found' = [found EXCEPT ![r] = f] /\ found'[r] = f
    BY <1>2, LookupType DEF Look
  <1>4. PICK p \in {"failed", "get", "put", "delete"} :
          pc' = [pc EXCEPT ![r] = p] /\ (p \in {"delete", "get"} => f # None)
    BY <1>3 DEF Look, Goto
  <1>5. shown' \in [Requests -> Authors \cup {None}]
    BY DEF TypeOK, RequestTypeOK, Look
  <1>6. RequestTypeOK'
    BY <1>3, <1>4, <1>5, MoveType DEF TypeOK, Steps, Answers
  <1> QED
    BY <1>1, <1>6 DEF TypeOK, DeviceTypeOK, Look, deviceVars

LEMMA TypeDelete ==
  ASSUME TypeOK, NEW r \in Requests, Delete(r) PROVE TypeOK'
  <1>1. EnvTypeOK'
    BY CallEnvType DEF TypeOK, Delete
  <1>2. PICK p \in {"put", "failed"} : pc' = [pc EXCEPT ![r] = p]
    BY DEF Delete, Goto
  <1>3. found' = [found EXCEPT ![r] = None] /\ shown' \in [Requests -> Authors \cup {None}]
    BY DEF TypeOK, RequestTypeOK, Delete
  <1>4. RequestTypeOK'
    BY <1>2, <1>3, MoveType DEF TypeOK, Steps, Answers
  <1>5. kmz' \in [Guids -> SUBSET Authors]
    BY SlotAssumption DEF TypeOK, DeviceTypeOK, Delete
  <1> QED
    BY <1>1, <1>4, <1>5 DEF TypeOK, DeviceTypeOK, Delete

LEMMA TypePut ==
  ASSUME TypeOK, NEW r \in Requests, Put(r) PROVE TypeOK'
  <1>1. EnvTypeOK'
    BY CallEnvType DEF TypeOK, Put
  <1>2. PICK p \in {"jlook", "name", "failed"} : pc' = [pc EXCEPT ![r] = p]
    BY DEF Put, Goto, AfterPut
  <1>3. found' = found /\ shown' \in [Requests -> Authors \cup {None}]
    BY DEF TypeOK, RequestTypeOK, Put, Authors
  <1>4. RequestTypeOK'
    BY <1>2, <1>3, StayType DEF TypeOK, Steps, Answers
  <1>5. kmz' \in [Guids -> SUBSET Authors] /\ whole' \subseteq Authors
    BY SlotAssumption DEF TypeOK, DeviceTypeOK, Put, Authors
  <1> QED
    BY <1>1, <1>4, <1>5 DEF TypeOK, DeviceTypeOK, Put

LEMMA TypeName ==
  ASSUME TypeOK, NEW r \in Requests, SetName(r) PROVE TypeOK'
  <1>1. PICK p \in {"jlook", "ok"} : pc' = [pc EXCEPT ![r] = p]
    BY DEF SetName, Goto, AfterName
  <1>2. RequestTypeOK'
    BY <1>1, StayType DEF TypeOK, RequestTypeOK, SetName, Steps, Answers
  <1>3. names' \in [Guids -> Requests \cup {None}]
    BY SlotAssumption DEF TypeOK, DeviceTypeOK, SetName
  <1> QED
    BY <1>2, <1>3 DEF TypeOK, DeviceTypeOK, EnvTypeOK, SetName, deviceVars, envVars

LEMMA TypeGet ==
  ASSUME TypeOK, NEW r \in Requests, Get(r) PROVE TypeOK'
  <1>1. EnvTypeOK'
    BY CallEnvType DEF TypeOK, Get
  <1>2. PICK p \in {"jlook", "failed"} : pc' = [pc EXCEPT ![r] = p]
    BY DEF Get, Goto
  <1>3. found' = [found EXCEPT ![r] = None] /\ shown' \in [Requests -> Authors \cup {None}]
    BY DEF TypeOK, RequestTypeOK, Get
  <1>4. RequestTypeOK'
    BY <1>2, <1>3, MoveType DEF TypeOK, Steps, Answers
  <1> QED
    BY <1>1, <1>4 DEF TypeOK, DeviceTypeOK, Get, deviceVars

LEMMA TypeJPGLook ==
  ASSUME TypeOK, NEW r \in Requests, JPGLook(r) PROVE TypeOK'
  <1>1. EnvTypeOK'
    BY CallEnvType DEF TypeOK, JPGLook, Lookup
  <1>2. shown' \in [Requests -> Authors \cup {None}]
    BY DEF TypeOK, RequestTypeOK, JPGLook
  <1>3. ASSUME Goto(r, NoPreview(r)), UNCHANGED found PROVE RequestTypeOK'
    <2>1. PICK p \in {"ok", "name", "failed"} : pc' = [pc EXCEPT ![r] = p]
      BY <1>3 DEF Goto, NoPreview
    <2> QED
      BY <1>2, <1>3, <2>1, StayType DEF TypeOK, Steps, Answers
  <1>4. ASSUME Lookup(r, jpg[Slot[r]]),
               Goto(r, IF found'[r] # None THEN "jdelete"
                       ELSE IF Op[r] = "clear" THEN "name" ELSE "jput")
        PROVE  RequestTypeOK'
    <2>1. jpg[Slot[r]] \in SUBSET Authors
      BY SlotAssumption DEF TypeOK, DeviceTypeOK
    <2>2. PICK f \in Authors \cup {None} : found' = [found EXCEPT ![r] = f] /\ found'[r] = f
      BY <1>4, <2>1, LookupType
    <2>3. PICK p \in {"jdelete", "name", "jput"} :
            pc' = [pc EXCEPT ![r] = p] /\ (p = "jdelete" => f # None)
      BY <1>4, <2>2 DEF Goto
    <2> QED
      BY <1>2, <2>2, <2>3, MoveType DEF TypeOK, Steps, Answers
  <1>5. RequestTypeOK'
    BY <1>3, <1>4 DEF JPGLook
  <1> QED
    BY <1>1, <1>5 DEF TypeOK, DeviceTypeOK, JPGLook, deviceVars

LEMMA TypeJPGDelete ==
  ASSUME TypeOK, NEW r \in Requests, JPGDelete(r) PROVE TypeOK'
  <1>1. EnvTypeOK'
    BY CallEnvType DEF TypeOK, JPGDelete
  <1>2. PICK p \in {"name", "jput"} : pc' = [pc EXCEPT ![r] = p]
    BY DEF JPGDelete, Goto
  <1>3. found' = [found EXCEPT ![r] = None] /\ shown' \in [Requests -> Authors \cup {None}]
    BY DEF TypeOK, RequestTypeOK, JPGDelete
  <1>4. RequestTypeOK'
    BY <1>2, <1>3, MoveType DEF TypeOK, Steps, Answers
  <1>5. jpg' \in [Guids -> SUBSET Authors]
    BY SlotAssumption DEF TypeOK, DeviceTypeOK, JPGDelete, WithoutFound
  <1> QED
    BY <1>1, <1>4, <1>5 DEF TypeOK, DeviceTypeOK, JPGDelete

LEMMA TypeJPGPut ==
  ASSUME TypeOK, NEW r \in Requests, JPGPut(r) PROVE TypeOK'
  <1>1. EnvTypeOK'
    BY CallEnvType DEF TypeOK, JPGPut
  <1>2. PICK p \in {"ok", "name", "failed"} : pc' = [pc EXCEPT ![r] = p]
    BY DEF JPGPut, Goto, NoPreview
  <1>3. RequestTypeOK'
    BY <1>2, StayType DEF TypeOK, RequestTypeOK, JPGPut, Steps, Answers
  <1>4. jpg' \in [Guids -> SUBSET Authors]
    BY SlotAssumption DEF TypeOK, DeviceTypeOK, JPGPut, Authors
  <1>5. shown[r] \in Authors \cup {None}
    BY DEF TypeOK, RequestTypeOK
  <1>6. picture' \in [Authors -> Authors \cup {None}]
    BY <1>5 DEF TypeOK, DeviceTypeOK, JPGPut
  <1> QED
    BY <1>1, <1>3, <1>4, <1>6 DEF TypeOK, DeviceTypeOK, JPGPut

LEMMA TypeDisconnect ==
  ASSUME TypeOK, Disconnect PROVE TypeOK'
  <1>0. {Slot[r] : r \in Running} \subseteq Guids /\ Running \subseteq Requests
    BY SlotAssumption DEF Running
  <1>1. EnvTypeOK'
    <2>1. conn' \in BOOLEAN /\ cut' \subseteq Requests /\ troubled' \subseteq Guids
      BY <1>0 DEF TypeOK, EnvTypeOK, Disconnect
    <2>2. cuts' \in 0..MaxCuts /\ faults' \in 0..MaxFaults
      BY SlotAssumption DEF TypeOK, EnvTypeOK, Disconnect
    <2> QED
      BY <2>1, <2>2 DEF EnvTypeOK
  <1>2. RequestTypeOK'
    BY DEF TypeOK, RequestTypeOK, Disconnect, reqVars
  <1> QED
    BY <1>1, <1>2 DEF TypeOK, DeviceTypeOK, Disconnect, deviceVars

LEMMA TypeReconnect ==
  ASSUME TypeOK, Reconnect PROVE TypeOK'
  BY DEF TypeOK, DeviceTypeOK, RequestTypeOK, EnvTypeOK, Reconnect, deviceVars, reqVars

LEMMA TypeCrash ==
  ASSUME TypeOK, Crash PROVE TypeOK'
  <1>1. RequestTypeOK'
    BY DEF TypeOK, RequestTypeOK, Crash, Answers
  <1>2. EnvTypeOK'
    BY SlotAssumption DEF TypeOK, EnvTypeOK, Crash, Running
  <1> QED
    BY <1>1, <1>2 DEF TypeOK, DeviceTypeOK, Crash, deviceVars

LEMMA TypeStep == TypeOK /\ [Next]_vars => TypeOK'
  <1> SUFFICES ASSUME TypeOK, [Next]_vars PROVE TypeOK'
    OBVIOUS
  <1>1. CASE UNCHANGED vars
    BY <1>1 DEF TypeOK, DeviceTypeOK, RequestTypeOK, EnvTypeOK, vars, deviceVars, reqVars, envVars
  <1>2. CASE \E r \in Requests : Start(r) \/ Step(r)
    BY <1>2, TypeStart, TypeLook, TypeDelete, TypePut, TypeName, TypeGet,
       TypeJPGLook, TypeJPGDelete, TypeJPGPut DEF Step
  <1> QED
    BY <1>1, <1>2, TypeDisconnect, TypeReconnect, TypeCrash DEF Next

LEMMA TypeInit == Init => TypeOK
  BY SlotAssumption
  DEF Init, TypeOK, DeviceTypeOK, RequestTypeOK, EnvTypeOK, Authors

-----------------------------------------------------------------------------
(* No mission is lost in silence.                                           *)

\* The strengthening: a slot without a whole mission has a writer that is just
\* about to put one, or that did not succeed.  A writer that has put its own
\* mission explains nothing.
LossExplained ==
  \A g \in Guids :
    kmz[g] \cap whole = {} =>
      \E r \in Writers : Slot[r] = g /\ pc[r] \in {"put", "failed", "lost"}

\* The operation a request is on, where the next call depends on it.
OpFits ==
  \A r \in Requests :
    /\ pc[r] \in {"delete", "put"} => r \in Writers
    /\ pc[r] = "get" => r \notin Writers

LossInv == TypeOK /\ OpFits /\ LossExplained

LEMMA OpFitsStep ==
  ASSUME TypeOK, OpFits, [Next]_vars PROVE OpFits'
  <1> USE DEF OpFits
  <1>1. CASE UNCHANGED vars
    BY <1>1 DEF vars, reqVars
  <1>2. ASSUME NEW r \in Requests, Start(r) \/ Step(r) PROVE OpFits'
    <2>1. PICK p \in Steps \cup Answers :
            /\ pc' = [pc EXCEPT ![r] = p]
            /\ p \in {"delete", "put"} => r \in Writers
            /\ p = "get" => r \notin Writers
      BY <1>2, SlotAssumption
      DEF Start, Step, Look, Delete, Put, SetName, Get, JPGLook, JPGDelete, JPGPut, Goto,
          AfterPut, AfterName, NoPreview, Writers, Steps, Answers
    <2> QED
      BY <2>1 DEF TypeOK, RequestTypeOK
  <1>3. CASE Disconnect \/ Reconnect
    BY <1>3 DEF Disconnect, Reconnect, reqVars
  <1>4. CASE Crash
    BY <1>4 DEF Crash
  <1> QED
    BY <1>1, <1>2, <1>3, <1>4 DEF Next

\* A step that only adds to what is whole, and moves no writer from put to
\* success without a whole mission of its own, keeps every loss explained.
LEMMA Explained ==
  ASSUME TypeOK, LossExplained, NEW r \in Requests, NEW p \in Steps \cup Answers,
         pc' = [pc EXCEPT ![r] = p],
         \A g \in Guids : kmz[g] \cap whole \subseteq kmz'[g] \cap whole',
         pc[r] \in {"put", "failed", "lost"} =>
           p \in {"failed", "lost"} \/ r \in kmz'[Slot[r]] \cap whole'
  PROVE  LossExplained'
  BY DEF LossExplained, TypeOK, RequestTypeOK, Writers

LEMMA LossStep ==
  ASSUME TypeOK, OpFits, LossExplained, [Next]_vars PROVE LossExplained'
  <1>1. CASE UNCHANGED vars
    BY <1>1 DEF vars, deviceVars, reqVars, LossExplained
  <1>2. ASSUME NEW r \in Requests, Start(r) \/ Look(r) \/ SetName(r) \/ Get(r)
                 \/ JPGLook(r) \/ JPGDelete(r) \/ JPGPut(r)
        PROVE  LossExplained'
    <2>1. PICK p \in Steps \cup Answers : pc' = [pc EXCEPT ![r] = p]
      BY <1>2 DEF Start, Look, SetName, Get, JPGLook, JPGDelete, JPGPut, Goto,
          AfterName, NoPreview, Steps, Answers
    <2>2. UNCHANGED <<kmz, whole>> /\ pc[r] \notin {"put", "failed", "lost"}
      BY <1>2 DEF Start, Look, SetName, Get, JPGLook, JPGDelete, JPGPut, deviceVars
    <2> QED
      BY <2>1, <2>2, Explained
  <1>3. ASSUME NEW r \in Requests, Delete(r) PROVE LossExplained'
    <2>1. r \in Writers /\ pc[r] = "delete" /\ whole' = whole
      BY <1>3 DEF Delete, OpFits
    <2>2. PICK p \in {"put", "failed"} : pc' = [pc EXCEPT ![r] = p]
      BY <1>3 DEF Delete, Goto
    <2>3. \A g \in Guids \ {Slot[r]} : kmz'[g] = kmz[g]
      BY <1>3 DEF Delete, TypeOK, DeviceTypeOK
    <2>4. pc'[r] \in {"put", "failed", "lost"}
      BY <2>2 DEF TypeOK, RequestTypeOK
    <2> QED
      BY <2>1, <2>2, <2>3, <2>4 DEF LossExplained, TypeOK, RequestTypeOK, Writers
  <1>4. ASSUME NEW r \in Requests, Put(r) PROVE LossExplained'
    <2>1. CASE Works(r)
      <3>1. PICK p \in Steps \cup Answers : pc' = [pc EXCEPT ![r] = p]
        BY <1>4 DEF Put, Goto, AfterPut, AfterName, Steps, Answers
      <3>2. Slot[r] \in Guids /\ ~Fails(r)
        BY <2>1, SlotAssumption DEF Works, Fails, envVars, TypeOK, EnvTypeOK
      <3>3. kmz' = [kmz EXCEPT ![Slot[r]] = @ \cup {r}] /\ whole' = whole \cup {r}
        BY <1>4, <3>2 DEF Put
      <3>4. \A g \in Guids : kmz[g] \cap whole \subseteq kmz'[g] \cap whole'
        BY <3>2, <3>3 DEF TypeOK, DeviceTypeOK
      <3>5. r \in kmz'[Slot[r]] \cap whole'
        BY <3>2, <3>3 DEF TypeOK, DeviceTypeOK
      <3> QED
        BY <3>1, <3>4, <3>5, Explained
    <2>2. CASE ~Works(r)
      <3>1. pc' = [pc EXCEPT ![r] = "failed"] /\ whole' = whole
        BY <1>4, <2>2 DEF Put, Goto
      <3>2. \A g \in Guids : kmz[g] \cap whole \subseteq kmz'[g] \cap whole'
        BY <1>4, <2>2, <3>1 DEF Put, TypeOK, DeviceTypeOK
      <3> QED
        BY <3>1, <3>2, Explained DEF Answers
    <2> QED
      BY <2>1, <2>2
  <1>5. CASE Disconnect \/ Reconnect
    BY <1>5 DEF Disconnect, Reconnect, deviceVars, reqVars, LossExplained
  <1>6. CASE Crash
    <2>1. \A r \in Requests :
            pc[r] \in {"put", "failed", "lost"} => pc'[r] \in {"put", "failed", "lost"}
      BY <1>6 DEF Crash
    <2> QED
      BY <1>6, <2>1 DEF Crash, deviceVars, LossExplained, Writers
  <1> QED
    BY <1>1, <1>2, <1>3, <1>4, <1>5, <1>6 DEF Next, Step

LEMMA LossInvariant == Spec => []LossInv
  <1>1. Init => LossInv
    <2>1. Init => OpFits /\ LossExplained
      BY DEF Init, OpFits, LossExplained
    <2> QED
      BY <2>1, TypeInit DEF LossInv
  <1>2. LossInv /\ [Next]_vars => LossInv'
    BY TypeStep, OpFitsStep, LossStep DEF LossInv
  <1> QED
    BY <1>1, <1>2, PTL DEF Spec

\* Every action keeps the variables in their types, and no device call is ever
\* made on the nil entry of a lookup that found nothing.
THEOREM TypesHold == Spec => []TypeOK
  BY LossInvariant, PTL DEF LossInv

\* However many transfers, clears and regenerations overlap on a slot, whatever
\* fails and whenever the cable is pulled or the daemon dies: a slot without a
\* whole mission has a request that is still at work, or was not answered with
\* success.
THEOREM LossIsNeverSilent == Spec => []NoSilentLoss
  <1>1. LossInv => NoSilentLoss
    BY DEF LossInv, LossExplained, NoSilentLoss
  <1> QED
    BY <1>1, LossInvariant, PTL

-----------------------------------------------------------------------------
(* SlotTransfer implements SlotPromise.                                     *)

\* Which missions were received whole: those of the writers past their put.
\* Before its put no object is a request's own.
WholeFits ==
  \A r \in Requests :
    /\ pc[r] \in {"new", "look", "delete", "put"} => \A g \in Guids : r \notin kmz[g]
    /\ r \notin Writers \/ pc[r] \in {"new", "look", "delete", "put"} => r \notin whole
    /\ r \in Writers /\ pc[r] \in {"name", "jlook", "jdelete", "jput", "ok"} => r \in whole

\* The answer the promise is about.
Answer == [r \in Requests |-> IF pc[r] \in Answers THEN pc[r] ELSE "none"]
Missions == [g \in Guids |-> kmz[g] \cap whole]

LEMMA WholeFitsStep ==
  ASSUME TypeOK, OpFits, WholeFits, [Next]_vars PROVE WholeFits'
  <1>1. CASE UNCHANGED vars
    BY <1>1 DEF vars, deviceVars, reqVars, WholeFits
  <1>2. ASSUME NEW r \in Requests, Put(r) PROVE WholeFits'
    <2>1. PICK p \in Steps \cup Answers :
            /\ pc' = [pc EXCEPT ![r] = p]
            /\ \/ whole' = whole \cup {r} /\ p \in {"name", "jlook"}
               \/ whole' = whole /\ p = "failed"
      BY <1>2 DEF Put, Goto, AfterPut, AfterName, Steps, Answers
    <2>2. r \in Writers
      BY <1>2 DEF Put, OpFits
    <2>3. \A g \in Guids : kmz'[g] \subseteq kmz[g] \cup {r}
      BY <1>2 DEF Put, TypeOK, DeviceTypeOK
    <2> QED
      BY <2>1, <2>2, <2>3 DEF WholeFits, TypeOK, RequestTypeOK, Writers
  <1>3. ASSUME NEW r \in Requests, Start(r) \/ Look(r) \/ Delete(r) \/ SetName(r)
                 \/ Get(r) \/ JPGLook(r) \/ JPGDelete(r) \/ JPGPut(r)
        PROVE  WholeFits'
    <2>1. whole' = whole
      BY <1>3 DEF Start, Look, Delete, SetName, Get, JPGLook, JPGDelete, JPGPut, deviceVars
    <2>2. PICK p \in Steps \cup Answers :
            /\ pc' = [pc EXCEPT ![r] = p]
            /\ p \in {"new", "look", "delete", "put"} =>
                 pc[r] \in {"new", "look", "delete", "put"}
            /\ r \in Writers /\ p \in {"name", "jlook", "jdelete", "jput", "ok"} =>
                 pc[r] \in {"name", "jlook", "jdelete", "jput"}
      BY <1>3 DEF Start, Look, Delete, SetName, Get, JPGLook, JPGDelete, JPGPut, Goto,
          AfterName, NoPreview, Steps, Answers, OpFits, Writers
    <2>3. \A g \in Guids : kmz'[g] \subseteq kmz[g]
      BY <1>3 DEF Start, Look, Delete, SetName, Get, JPGLook, JPGDelete, JPGPut, deviceVars,
          TypeOK, DeviceTypeOK
    <2> QED
      BY <2>1, <2>2, <2>3 DEF WholeFits, TypeOK, RequestTypeOK, Writers
  <1>4. CASE Disconnect \/ Reconnect
    BY <1>4 DEF Disconnect, Reconnect, deviceVars, reqVars, WholeFits
  <1>5. CASE Crash
    BY <1>5 DEF Crash, deviceVars, WholeFits, Writers
  <1> QED
    BY <1>1, <1>2, <1>3, <1>4, <1>5 DEF Next, Step

\* What a step of one request does to its answer.
LEMMA AnswerMoves ==
  ASSUME TypeOK, NEW r \in Requests, NEW p \in Steps \cup Answers,
         pc' = [pc EXCEPT ![r] = p], pc[r] \notin Answers
  PROVE  /\ Answer[r] = "none"
         /\ p \in Answers => Answer' = [Answer EXCEPT ![r] = p]
         /\ p \notin Answers => UNCHANGED Answer
  BY DEF TypeOK, RequestTypeOK, Answer

\* A request that has not stored its mission is still writing.
LEMMA StillWriting ==
  ASSUME TypeOK, OpFits, WholeFits, NEW r \in Requests, pc[r] \in {"delete", "put"}
  PROVE  Promise!Writing(r)
  <1>1. r \in Writers /\ r \notin whole /\ pc[r] \notin Answers
    BY DEF OpFits, WholeFits, Answers
  <1> QED
    BY <1>1 DEF Promise!Writing

\* A step that leaves the slots alone and moves r to p is a stutter, or the
\* success or the failure of r.
LEMMA AnswerRefines ==
  ASSUME TypeOK, NEW r \in Requests, NEW p \in Steps \cup {"ok", "failed"},
         pc' = [pc EXCEPT ![r] = p], pc[r] \notin Answers,
         UNCHANGED <<kmz, whole>>,
         p = "ok" /\ r \in Writers => r \in whole,
         p = "failed" => r \notin whole
  PROVE  [Promise!Next]_(Promise!vars)
  <1>1. UNCHANGED <<Missions, whole \ {Fly}>>
    BY DEF Missions
  <1>2. CASE p = "ok"
    <2>1. Answer[r] = "none" /\ Answer' = [Answer EXCEPT ![r] = "ok"]
      BY <1>2, AnswerMoves DEF Answers
    <2>2. r \in Writers => r \in whole \ {Fly}
      BY <1>2, SlotAssumption
    <2>3. Promise!Succeed(r)
      BY <1>1, <2>1, <2>2 DEF Promise!Succeed, Answer, Missions
    <2> QED
      BY <2>3 DEF Promise!Next
  <1>3. CASE p = "failed"
    <2>1. Answer[r] = "none" /\ Answer' = [Answer EXCEPT ![r] = "failed"]
      BY <1>3, AnswerMoves DEF Answers
    <2>2. Promise!GiveUp(r)
      BY <1>1, <1>3, <2>1 DEF Promise!GiveUp, Answer, Missions
    <2> QED
      BY <2>2 DEF Promise!Next
  <1>4. CASE p \in Steps
    <2>1. UNCHANGED Answer
      BY <1>4, AnswerMoves DEF Steps, Answers
    <2> QED
      BY <1>1, <2>1 DEF Promise!vars, Answer, Missions
  <1> QED
    BY <1>2, <1>3, <1>4

LEMMA DeleteRefines ==
  ASSUME TypeOK, OpFits, WholeFits, NEW r \in Requests, Delete(r)
  PROVE  [Promise!Next]_(Promise!vars)
  <1>1. pc[r] = "delete" /\ whole' = whole /\ Slot[r] \in Guids /\ r \notin whole
    BY SlotAssumption DEF Delete, WholeFits
  <1>2. CASE kmz' = kmz
    <2>1. PICK p \in {"put", "failed"} : pc' = [pc EXCEPT ![r] = p]
      BY DEF Delete, Goto
    <2> QED
      BY <1>1, <1>2, <2>1, AnswerRefines DEF Steps, Answers
  <1>3. CASE kmz' # kmz
    <2> DEFINE g == Slot[r]
    <2>1. PICK m : m = found[r]
      OBVIOUS
    <2>2. kmz' = [kmz EXCEPT ![g] = @ \ {m}] /\ pc' = [pc EXCEPT ![r] = "put"]
      BY <1>3, <2>1 DEF Delete, Goto
    <2>3. pc[r] \notin Answers /\ "put" \in Steps /\ "put" \notin Answers
      BY <1>1 DEF Steps, Answers
    <2>4. UNCHANGED Answer
      BY <2>2, <2>3, AnswerMoves
    <2>5. Missions' = [Missions EXCEPT ![g] = @ \ {m}]
      BY <1>1, <2>2 DEF Missions, TypeOK, DeviceTypeOK
    <2>6. CASE m \in Missions[g]
      <3>1. Promise!TakeAway(r, m)
        BY <1>1, <2>4, <2>5, StillWriting DEF Promise!TakeAway, Answer, Missions
      <3>2. \E n \in [h \in Guids |-> kmz[h] \cap whole][Slot[r]] : Promise!TakeAway(r, n)
        BY <2>6, <3>1 DEF Missions
      <3> QED
        BY <3>2 DEF Promise!Next
    <2>7. CASE m \notin Missions[g]
      <3>1. UNCHANGED Missions
        BY <1>1, <2>5, <2>7 DEF Missions
      <3> QED
        BY <1>1, <2>4, <3>1 DEF Promise!vars, Answer, Missions
    <2> QED
      BY <2>6, <2>7
  <1> QED
    BY <1>2, <1>3

LEMMA PutRefines ==
  ASSUME TypeOK, OpFits, WholeFits, NEW r \in Requests, Put(r)
  PROVE  [Promise!Next]_(Promise!vars)
  <1> DEFINE g == Slot[r]
  <1>1. pc[r] = "put" /\ g \in Guids /\ r \notin whole /\ r # Fly
    BY SlotAssumption DEF Put, WholeFits
  <1>2. CASE Works(r)
    <2>1. ~Fails(r)
      BY <1>2 DEF Works, Fails, envVars, TypeOK, EnvTypeOK
    <2>2. kmz' = [kmz EXCEPT ![g] = @ \cup {r}] /\ whole' = whole \cup {r}
      BY <2>1 DEF Put
    <2>3. PICK p \in {"name", "jlook"} : pc' = [pc EXCEPT ![r] = p]
      BY <2>1 DEF Put, Goto, AfterPut
    <2>4. UNCHANGED Answer
      BY <1>1, <2>3, AnswerMoves DEF Steps, Answers
    <2>5. Missions' = [Missions EXCEPT ![g] = @ \cup {r}]
      \* No other object is r's own, so nothing else becomes whole.
      BY <1>1, <2>2 DEF Missions, WholeFits, TypeOK, DeviceTypeOK
    <2>6. whole' \ {Fly} = (whole \ {Fly}) \cup {r}
      BY <1>1, <2>2
    <2>7. Promise!Store(r)
      BY <1>1, <2>4, <2>5, <2>6, StillWriting DEF Promise!Store, Answer, Missions
    <2> QED
      BY <2>7 DEF Promise!Next
  <1>3. CASE ~Works(r)
    <2>1. pc' = [pc EXCEPT ![r] = "failed"] /\ whole' = whole
      BY <1>3 DEF Put, Goto
    <2>2. UNCHANGED Missions
      BY <1>1, <1>3, <2>1 DEF Missions, Put, TypeOK, DeviceTypeOK
    <2>3. Answer[r] = "none" /\ Answer' = [Answer EXCEPT ![r] = "failed"]
      BY <1>1, <2>1, AnswerMoves DEF Answers
    <2>4. Promise!GiveUp(r)
      BY <1>1, <2>1, <2>2, <2>3 DEF Promise!GiveUp, Answer, Missions
    <2> QED
      BY <2>4 DEF Promise!Next
  <1> QED
    BY <1>2, <1>3

LEMMA CrashRefines ==
  ASSUME TypeOK, Crash PROVE [Promise!Next]_(Promise!vars)
  <1> DEFINE lost == Running
  <1>1. lost \in SUBSET {r \in Requests : Answer[r] = "none"}
    BY DEF Answer, Running, Steps, Answers
  <1>2. Answer' = [r \in Requests |-> IF r \in lost THEN "lost" ELSE Answer[r]]
    BY DEF Crash, Answer, Running, Steps, Answers
  <1>3. UNCHANGED <<Missions, whole \ {Fly}>>
    BY DEF Crash, deviceVars, Missions
  <1>4. Promise!Die
    BY <1>1, <1>2, <1>3 DEF Promise!Die, Answer, Missions
  <1> QED
    BY <1>4 DEF Promise!Next

\* The calls that touch no mission.
LEMMA OtherRefines ==
  ASSUME TypeOK, OpFits, WholeFits, NEW r \in Requests,
         Start(r) \/ Look(r) \/ SetName(r) \/ Get(r) \/ JPGLook(r) \/ JPGDelete(r) \/ JPGPut(r)
  PROVE  [Promise!Next]_(Promise!vars)
  <1>1. PICK p \in Steps \cup {"ok", "failed"} :
          /\ pc' = [pc EXCEPT ![r] = p]
          /\ p = "ok" => pc[r] \in {"name", "jlook", "jput"}
          /\ p = "failed" => pc[r] \in {"new", "look", "get"} \/ r \notin Writers
    BY SlotAssumption
    DEF Start, Look, SetName, Get, JPGLook, JPGDelete, JPGPut, Goto, AfterName, NoPreview,
        Steps, Writers
  <1>2. UNCHANGED <<kmz, whole>> /\ pc[r] \notin Answers
    BY DEF Start, Look, SetName, Get, JPGLook, JPGDelete, JPGPut, deviceVars, Answers
  <1>3. p = "ok" /\ r \in Writers => r \in whole
    BY <1>1 DEF WholeFits
  <1>4. p = "failed" => r \notin whole
    BY <1>1 DEF WholeFits, OpFits
  <1> QED
    BY <1>1, <1>2, <1>3, <1>4, AnswerRefines

LEMMA StepRefines ==
  TypeOK /\ OpFits /\ WholeFits /\ [Next]_vars => [Promise!Next]_(Promise!vars)
  <1> SUFFICES ASSUME TypeOK, OpFits, WholeFits, [Next]_vars
               PROVE  [Promise!Next]_(Promise!vars)
    OBVIOUS
  <1>1. CASE UNCHANGED vars
    BY <1>1 DEF vars, deviceVars, reqVars, Promise!vars
  <1>2. CASE Disconnect \/ Reconnect
    BY <1>2 DEF Disconnect, Reconnect, deviceVars, reqVars, Promise!vars
  <1> QED
    BY <1>1, <1>2, DeleteRefines, PutRefines, CrashRefines, OtherRefines DEF Next, Step

\* Whatever requests overlap, calls fail, cables are pulled and daemons die,
\* for any number of slots and requests: a mission disappears only at the hand
\* of a request that has not stored its own and was not answered, a success
\* answer to a transfer or a clear means its mission reached the slot, and an
\* error answer that it did not.
THEOREM PromiseKept == Spec => KeepsPromise
  <1>1. Init => Promise!Init
    BY SlotAssumption DEF Init, Promise!Init, Answers
  <1>2. Init => WholeFits
    BY SlotAssumption DEF Init, WholeFits, Writers
  <1>3. LossInv /\ WholeFits /\ [Next]_vars => WholeFits'
    BY WholeFitsStep DEF LossInv
  <1>4. LossInv /\ WholeFits /\ [Next]_vars => [Promise!Next]_(Promise!vars)
    BY StepRefines DEF LossInv
  <1> QED
    BY <1>1, <1>2, <1>3, <1>4, LossInvariant, PTL DEF Spec, KeepsPromise, Promise!Spec

-----------------------------------------------------------------------------
(* A success answer is true of the slot.                                    *)

\* What an undisturbed request has found and left of its slot, up to its next call.
Solid(g) == \E m \in whole : kmz[g] = {m}
OnePicture(g) == (\A a, b \in jpg[g] : a = b) /\ (g \notin folders => jpg[g] = {})
OnTrack(r) ==
  LET g == Slot[r] IN
  /\ pc[r] = "look" => Solid(g)
  /\ pc[r] \in {"delete", "get"} => kmz[g] = {found[r]} /\ found[r] \in whole
  /\ pc[r] = "put" => kmz[g] = {} /\ Op[r] # "regenerate"
  /\ pc[r] \in {"name", "jlook", "jdelete", "jput"} =>
       kmz[g] = {shown[r]} /\ shown[r] \in whole /\ (Op[r] # "regenerate" => shown[r] = r)
  /\ pc[r] = "name" => Op[r] # "regenerate" /\ (Op[r] = "clear" => jpg[g] = {})
  /\ pc[r] \in {"jlook", "jdelete", "jput"} /\ Op[r] = "transfer" =>
       r \in Previewed /\ (r \in Named => names[g] = r)
  /\ pc[r] = "jdelete" => jpg[g] = {found[r]} /\ g \in folders
  /\ pc[r] = "jput" => jpg[g] = {} /\ g \in folders /\ Op[r] # "clear"

\* A slot that nothing has disturbed: one request at most is at work on it, and
\* between two of them it has one whole mission.
Busy(g) == {r \in Running : Slot[r] = g}
Calm(g) ==
  /\ OnePicture(g)
  /\ \A q, r \in Busy(g) : q = r
  /\ \A r \in Busy(g) : OnTrack(r)
  /\ Busy(g) = {} => Solid(g)
CalmInv ==
  /\ \A g \in Guids \ troubled : Calm(g)
  /\ \A r \in cut : Slot[r] \in troubled

LEMMA CalmInit == Init => CalmInv
  <1> SUFFICES ASSUME Init PROVE CalmInv
    OBVIOUS
  <1>1. Running = {} /\ cut = {}
    BY DEF Init, Running, Steps
  <1>2. ASSUME NEW g \in Guids PROVE Solid(g) /\ OnePicture(g)
    BY DEF Init, Solid, OnePicture
  <1> QED
    BY <1>1, <1>2 DEF CalmInv, Calm, Busy

\* A call on another slot does not reach this one, nor does a request that ends
\* before its first call.
LEMMA OtherSlotCalm ==
  ASSUME TypeOK, NEW r \in Requests, NEW p \in Steps \cup Answers, pc' = [pc EXCEPT ![r] = p],
         NEW h \in Guids, h # Slot[r] \/ {pc[r], p} \subseteq {"new", "failed"}, Calm(h),
         \A q \in Requests \ {r} : found'[q] = found[q] /\ shown'[q] = shown[q],
         whole \subseteq whole', folders' = folders,
         kmz'[h] = kmz[h], jpg'[h] = jpg[h], names'[h] = names[h]
  PROVE  Calm(h)'
  <1>1. \A q \in Requests \ {r} : pc'[q] = pc[q]
    BY DEF TypeOK, RequestTypeOK
  <1>2. Busy(h)' = Busy(h) /\ r \notin Busy(h)
    <2>1. pc'[r] = p
      BY DEF TypeOK, RequestTypeOK
    <2>2. h # Slot[r] \/ (pc[r] \notin Steps /\ p \notin Steps)
      BY DEF Steps
    <2> QED
      BY <1>1, <2>1, <2>2 DEF Busy, Running
  <1>3. OnePicture(h)' /\ (Solid(h) => Solid(h)')
    BY DEF Calm, OnePicture, Solid
  <1>4. ASSUME NEW q \in Busy(h) PROVE OnTrack(q)'
    <2>1. q \in Requests \ {r} /\ Slot[q] = h /\ OnTrack(q)
      BY <1>2 DEF Busy, Running, Calm
    <2>2. pc'[q] = pc[q] /\ found'[q] = found[q] /\ shown'[q] = shown[q]
      BY <1>1, <2>1
    <2> QED
      BY <1>3, <2>1, <2>2 DEF OnTrack
  <1> QED
    BY <1>2, <1>3, <1>4 DEF Calm

\* What an undisturbed call of r does to its slot, when it moves r to p.
OnCourse(r, p) ==
  /\ p \in Steps \cup Answers /\ pc' = [pc EXCEPT ![r] = p]
  /\ OnePicture(Slot[r])'
  /\ p \in Steps => OnTrack(r)'
  /\ p \notin Steps => Solid(Slot[r])'
  /\ p = "ok" => Agrees(r)'

LEMMA OwnSlotCalm ==
  ASSUME TypeOK, NEW r \in Requests, NEW p, OnCourse(r, p), Busy(Slot[r]) \subseteq {r}
  PROVE  Calm(Slot[r])'
  <1>1. \A q \in Requests \ {r} : pc'[q] = pc[q]
    BY DEF TypeOK, RequestTypeOK, OnCourse
  <1>2. pc'[r] = p
    BY DEF TypeOK, RequestTypeOK, OnCourse
  <1>3. Busy(Slot[r])' = IF p \in Steps THEN {r} ELSE {}
    BY <1>1, <1>2 DEF Busy, Running
  <1> QED
    BY <1>3 DEF Calm, OnCourse

LEMMA CalmStart ==
  ASSUME TypeOK, NEW r \in Requests, Start(r), Calm(Slot[r]), Slot[r] \notin troubled'
  PROVE  Calm(Slot[r])'
  <1>1. UNCHANGED <<kmz, whole, folders, jpg, names, found, shown>> /\ pc[r] = "new"
    BY DEF Start, deviceVars
  <1>2. CASE Goto(r, "failed")
    <2>1. pc' = [pc EXCEPT ![r] = "failed"] /\ "failed" \in Steps \cup Answers
          /\ {pc[r], "failed"} \subseteq {"new", "failed"} /\ Slot[r] \in Guids
      BY <1>1, <1>2, SlotAssumption DEF Goto, Answers
    <2> QED
      BY <1>1, <2>1, OtherSlotCalm
  <1>3. CASE Goto(r, "look") /\ ~Goto(r, "failed")
    <2>1. Busy(Slot[r]) = {}
      BY <1>3 DEF Start, Busy
    <2>2. Solid(Slot[r]) /\ OnePicture(Slot[r])
      BY <2>1 DEF Calm
    <2>3. Solid(Slot[r])' /\ OnePicture(Slot[r])'
      BY <1>1, <2>2 DEF Solid, OnePicture
    <2>4. pc' = [pc EXCEPT ![r] = "look"] /\ pc'[r] = "look" /\ "look" \in Steps
      BY <1>3 DEF Goto, TypeOK, RequestTypeOK, Steps
    <2>5. OnTrack(r)'
      BY <2>3, <2>4 DEF OnTrack
    <2>6. OnCourse(r, "look")
      BY <2>3, <2>4, <2>5 DEF OnCourse
    <2> QED
      BY <2>1, <2>6, OwnSlotCalm
  <1> QED
    BY <1>2, <1>3 DEF Start

\* A call that leaves its slot untroubled does what it is for.
LEMMA Undisturbed ==
  ASSUME NEW r \in Requests, r \notin cut, Slot[r] \notin troubled'
  PROVE  ~Fails(r)
  BY DEF Fails

LEMMA LookOnCourse ==
  ASSUME TypeOK, OpFits, NEW r \in Requests, Look(r), ~Fails(r), OnTrack(r), OnePicture(Slot[r])
  PROVE  \E p : OnCourse(r, p)
  <1>1. pc[r] = "look" /\ UNCHANGED <<deviceVars, names, shown>>
    BY DEF Look
  <1>2. PICK m \in whole : kmz[Slot[r]] = {m}
    BY <1>1 DEF OnTrack, Solid
  <1>3. m # None
    BY <1>2, SlotAssumption DEF TypeOK, DeviceTypeOK, Authors
  <1>4. found' = [found EXCEPT ![r] = m]
    BY <1>2 DEF Look, Lookup
  <1>5. found'[r] = m
    BY <1>4 DEF TypeOK, RequestTypeOK
  <1>6. PICK p \in {"get", "delete"} : pc' = [pc EXCEPT ![r] = p]
    BY <1>3, <1>5 DEF Look, Goto
  <1>7. pc'[r] = p /\ p \in Steps
    BY <1>6 DEF TypeOK, RequestTypeOK, Steps
  <1>8. OnePicture(Slot[r])'
    BY <1>1 DEF OnePicture, deviceVars
  <1>9. OnTrack(r)'
    BY <1>1, <1>2, <1>5, <1>7 DEF OnTrack, deviceVars
  <1>10. p # "ok"
    OBVIOUS
  <1> QED
    BY <1>6, <1>7, <1>8, <1>9, <1>10 DEF OnCourse

LEMMA DeleteOnCourse ==
  ASSUME TypeOK, OpFits, NEW r \in Requests, Delete(r), ~Fails(r), OnTrack(r), OnePicture(Slot[r])
  PROVE  \E p : OnCourse(r, p)
  <1>1. /\ pc[r] = "delete" /\ r \in Writers /\ UNCHANGED <<whole, folders, jpg, names, shown>>
        /\ Slot[r] \in Guids
    BY SlotAssumption DEF Delete, OpFits
  <1>2. kmz[Slot[r]] = {found[r]}
    BY <1>1 DEF OnTrack
  <1>3. kmz' = [kmz EXCEPT ![Slot[r]] = @ \ {found[r]}] /\ pc' = [pc EXCEPT ![r] = "put"]
    BY <1>2 DEF Delete, Goto
  <1>4. kmz'[Slot[r]] = {}
    BY <1>1, <1>2, <1>3 DEF TypeOK, DeviceTypeOK
  <1>5. pc'[r] = "put" /\ "put" \in Steps
    BY <1>3 DEF TypeOK, RequestTypeOK, Steps
  <1>6. OnePicture(Slot[r])'
    BY <1>1 DEF OnePicture
  <1>7. OnTrack(r)'
    BY <1>1, <1>4, <1>5 DEF OnTrack, Writers
  <1> QED
    BY <1>3, <1>5, <1>6, <1>7 DEF OnCourse

LEMMA PutOnCourse ==
  ASSUME TypeOK, OpFits, NEW r \in Requests, Put(r), ~Fails(r), OnTrack(r), OnePicture(Slot[r])
  PROVE  \E p : OnCourse(r, p)
  <1>1. /\ pc[r] = "put" /\ Op[r] # "regenerate" /\ kmz[Slot[r]] = {}
        /\ UNCHANGED <<folders, jpg, names>> /\ Slot[r] \in Guids
    BY SlotAssumption DEF Put, OnTrack
  <1>2. /\ kmz' = [kmz EXCEPT ![Slot[r]] = @ \cup {r}] /\ whole' = whole \cup {r}
        /\ shown' = [shown EXCEPT ![r] = r] /\ pc' = [pc EXCEPT ![r] = AfterPut(r)]
    BY DEF Put, Goto
  <1>3. kmz'[Slot[r]] = {r} /\ r \in whole' /\ shown'[r] = r /\ pc'[r] = AfterPut(r)
    BY <1>1, <1>2 DEF TypeOK, DeviceTypeOK, RequestTypeOK
  <1>4. /\ AfterPut(r) \in {"jlook", "name"}
        /\ AfterPut(r) = "jlook" <=> Op[r] = "clear"
    BY DEF AfterPut
  <1>5. OnePicture(Slot[r])'
    BY <1>1 DEF OnePicture
  <1>6. OnTrack(r)'
    BY <1>1, <1>3, <1>4 DEF OnTrack
  <1>7. AfterPut(r) \in Steps /\ AfterPut(r) # "ok"
    BY <1>4 DEF Steps
  <1> QED
    BY <1>2, <1>5, <1>6, <1>7 DEF OnCourse

LEMMA NameOnCourse ==
  ASSUME TypeOK, OpFits, NEW r \in Requests, SetName(r), OnTrack(r), OnePicture(Slot[r])
  PROVE  \E p : OnCourse(r, p)
  <1>1. /\ pc[r] = "name" /\ UNCHANGED <<kmz, whole, folders, jpg, picture, found, shown>>
        /\ Slot[r] \in Guids /\ Op[r] \in {"transfer", "clear", "regenerate"}
    BY SlotAssumption DEF SetName, deviceVars
  <1>2. /\ kmz[Slot[r]] = {r} /\ r \in whole /\ shown[r] = r /\ Op[r] # "regenerate"
        /\ (Op[r] = "clear" => jpg[Slot[r]] = {})
    BY <1>1 DEF OnTrack
  <1>3. pc' = [pc EXCEPT ![r] = AfterName(r)] /\ pc'[r] = AfterName(r)
    BY DEF SetName, Goto, TypeOK, RequestTypeOK
  <1>4. names'[Slot[r]] = IF Op[r] = "clear" THEN None
                          ELSE IF r \in Named THEN r ELSE names[Slot[r]]
    BY <1>1 DEF SetName, TypeOK, DeviceTypeOK
  <1>5. OnePicture(Slot[r])'
    BY <1>1 DEF OnePicture
  <1>6. CASE Op[r] = "transfer" /\ r \in Previewed
    <2>1. AfterName(r) = "jlook" /\ "jlook" \in Steps
      BY <1>6 DEF AfterName, Steps
    <2>2. OnTrack(r)'
      BY <1>1, <1>2, <1>3, <1>4, <1>6, <2>1 DEF OnTrack
    <2> QED
      BY <1>3, <1>5, <2>1, <2>2 DEF OnCourse
  <1>7. CASE ~(Op[r] = "transfer" /\ r \in Previewed)
    <2>1. AfterName(r) = "ok" /\ "ok" \in Answers /\ "ok" \notin Steps
      BY <1>7 DEF AfterName, Steps, Answers
    <2>2. Solid(Slot[r])'
      BY <1>1, <1>2 DEF Solid
    <2>3. Agrees(r)'
      BY <1>1, <1>2, <1>4, <1>7 DEF Agrees
    <2> QED
      BY <1>3, <1>5, <2>1, <2>2, <2>3 DEF OnCourse
  <1> QED
    BY <1>6, <1>7

LEMMA GetOnCourse ==
  ASSUME TypeOK, OpFits, NEW r \in Requests, Get(r), ~Fails(r), OnTrack(r), OnePicture(Slot[r])
  PROVE  \E p : OnCourse(r, p)
  <1>1. /\ pc[r] = "get" /\ UNCHANGED <<kmz, whole, folders, jpg, names>>
        /\ Op[r] = "regenerate"
    BY SlotAssumption DEF Get, deviceVars, OpFits, Writers
  <1>2. kmz[Slot[r]] = {found[r]} /\ found[r] \in whole
    BY <1>1 DEF OnTrack
  <1>3. shown' = [shown EXCEPT ![r] = found[r]] /\ pc' = [pc EXCEPT ![r] = "jlook"]
    BY <1>2 DEF Get, Goto
  <1>4. shown'[r] = found[r] /\ pc'[r] = "jlook" /\ "jlook" \in Steps
    BY <1>3 DEF TypeOK, RequestTypeOK, Steps
  <1>5. OnePicture(Slot[r])'
    BY <1>1 DEF OnePicture
  <1>6. OnTrack(r)'
    BY <1>1, <1>2, <1>4 DEF OnTrack
  <1> QED
    BY <1>3, <1>4, <1>5, <1>6 DEF OnCourse

LEMMA JPGLookOnCourse ==
  ASSUME TypeOK, OpFits, NEW r \in Requests, JPGLook(r), ~Fails(r), OnTrack(r), OnePicture(Slot[r])
  PROVE  \E p : OnCourse(r, p)
  <1>1. /\ pc[r] = "jlook" /\ UNCHANGED <<kmz, whole, folders, jpg, picture, names, shown>>
        /\ Op[r] \in {"transfer", "clear", "regenerate"}
    BY SlotAssumption DEF JPGLook, deviceVars
  <1>2. /\ kmz[Slot[r]] = {shown[r]} /\ shown[r] \in whole /\ (Op[r] # "regenerate" => shown[r] = r)
        /\ Op[r] = "transfer" => r \in Previewed /\ (r \in Named => names[Slot[r]] = r)
    BY <1>1 DEF OnTrack
  <1>3. OnePicture(Slot[r])' /\ Solid(Slot[r])'
    BY <1>1, <1>2 DEF OnePicture, Solid
  <1>4. CASE Slot[r] \notin folders
    <2>1. pc' = [pc EXCEPT ![r] = NoPreview(r)] /\ pc'[r] = NoPreview(r)
      BY <1>4 DEF JPGLook, Goto, TypeOK, RequestTypeOK
    <2>2. jpg[Slot[r]] = {}
      BY <1>4 DEF OnePicture
    <2>3. CASE Op[r] = "clear"
      <3>1. NoPreview(r) = "name" /\ "name" \in Steps
        BY <2>3 DEF NoPreview, Steps
      <3>2. OnTrack(r)'
        BY <1>1, <1>2, <2>1, <2>2, <2>3, <3>1 DEF OnTrack
      <3> QED
        BY <1>3, <2>1, <3>1, <3>2 DEF OnCourse
    <2>4. CASE Op[r] = "transfer"
      <3>1. NoPreview(r) = "ok" /\ "ok" \in Answers /\ "ok" \notin Steps
        BY <2>4 DEF NoPreview, Steps, Answers
      <3>2. Agrees(r)'
        BY <1>1, <1>2, <1>4, <2>4 DEF Agrees
      <3> QED
        BY <1>3, <2>1, <3>1, <3>2 DEF OnCourse
    <2>5. CASE Op[r] = "regenerate"
      <3>1. NoPreview(r) = "failed" /\ "failed" \in Answers /\ "failed" \notin Steps
        BY <2>5 DEF NoPreview, Steps, Answers
      <3> QED
        BY <1>3, <2>1, <3>1 DEF OnCourse
    <2> QED
      BY <1>1, <2>3, <2>4, <2>5
  <1>5. CASE Slot[r] \in folders
    <2>1. /\ IF jpg[Slot[r]] = {} THEN found' = [found EXCEPT ![r] = None]
              ELSE \E o \in jpg[Slot[r]] : found' = [found EXCEPT ![r] = o]
          /\ Goto(r, IF found'[r] # None THEN "jdelete"
                     ELSE IF Op[r] = "clear" THEN "name" ELSE "jput")
      BY <1>5 DEF JPGLook, Lookup
    <2>2. CASE jpg[Slot[r]] = {}
      <3>1. found'[r] = None
        BY <2>1, <2>2 DEF TypeOK, RequestTypeOK
      <3>2. PICK p \in {"name", "jput"} : pc' = [pc EXCEPT ![r] = p] /\ (p = "name" <=> Op[r] = "clear")
        BY <2>1, <3>1 DEF Goto
      <3>3. pc'[r] = p /\ p \in Steps
        BY <3>2 DEF TypeOK, RequestTypeOK, Steps
      <3>4. OnTrack(r)'
        BY <1>1, <1>2, <1>5, <2>2, <3>2, <3>3 DEF OnTrack
      <3> QED
        BY <1>3, <3>2, <3>3, <3>4 DEF OnCourse
    <2>3. CASE jpg[Slot[r]] # {}
      <3>1. PICK o \in jpg[Slot[r]] : found' = [found EXCEPT ![r] = o]
        BY <2>1, <2>3
      <3>2. jpg[Slot[r]] = {o} /\ o # None /\ found'[r] = o
        <4>1. jpg[Slot[r]] = {o}
          BY DEF OnePicture
        <4>2. o \in Authors
          BY SlotAssumption DEF TypeOK, DeviceTypeOK
        <4> QED
          BY <3>1, <4>1, <4>2, SlotAssumption DEF Authors, TypeOK, RequestTypeOK
      <3>3. pc' = [pc EXCEPT ![r] = "jdelete"] /\ pc'[r] = "jdelete" /\ "jdelete" \in Steps
        BY <2>1, <3>2 DEF Goto, TypeOK, RequestTypeOK, Steps
      <3>4. OnTrack(r)'
        BY <1>1, <1>2, <1>5, <3>2, <3>3 DEF OnTrack
      <3> QED
        BY <1>3, <3>3, <3>4 DEF OnCourse
    <2> QED
      BY <2>2, <2>3
  <1> QED
    BY <1>4, <1>5

LEMMA JPGDeleteOnCourse ==
  ASSUME TypeOK, OpFits, NEW r \in Requests, JPGDelete(r), ~Fails(r), OnTrack(r), OnePicture(Slot[r])
  PROVE  \E p : OnCourse(r, p)
  <1>1. /\ pc[r] = "jdelete" /\ UNCHANGED <<kmz, whole, folders, picture, names, shown>>
        /\ Slot[r] \in Guids
    BY SlotAssumption DEF JPGDelete
  <1>2. /\ kmz[Slot[r]] = {shown[r]} /\ shown[r] \in whole /\ (Op[r] # "regenerate" => shown[r] = r)
        /\ Op[r] = "transfer" => r \in Previewed /\ (r \in Named => names[Slot[r]] = r)
        /\ jpg[Slot[r]] = {found[r]} /\ Slot[r] \in folders
    BY <1>1 DEF OnTrack
  <1>3. jpg' = [jpg EXCEPT ![Slot[r]] = WithoutFound(r, @)]
    BY DEF JPGDelete
  <1>4. jpg'[Slot[r]] = {}
    BY <1>1, <1>2, <1>3 DEF WithoutFound, TypeOK, DeviceTypeOK
  <1>5. PICK p \in {"name", "jput"} : pc' = [pc EXCEPT ![r] = p] /\ (p = "name" <=> Op[r] = "clear")
    BY DEF JPGDelete, Goto
  <1>6. pc'[r] = p /\ p \in Steps
    BY <1>5 DEF TypeOK, RequestTypeOK, Steps
  <1>7. OnePicture(Slot[r])'
    BY <1>4 DEF OnePicture
  <1>8. OnTrack(r)'
    BY <1>1, <1>2, <1>4, <1>5, <1>6 DEF OnTrack
  <1> QED
    BY <1>5, <1>6, <1>7, <1>8 DEF OnCourse

LEMMA JPGPutOnCourse ==
  ASSUME TypeOK, OpFits, NEW r \in Requests, JPGPut(r), ~Fails(r), OnTrack(r), OnePicture(Slot[r])
  PROVE  \E p : OnCourse(r, p)
  <1>1. /\ pc[r] = "jput" /\ UNCHANGED <<kmz, whole, folders, names, shown>>
        /\ Slot[r] \in Guids /\ Op[r] \in {"transfer", "regenerate", "clear"}
    BY SlotAssumption DEF JPGPut
  <1>2. /\ kmz[Slot[r]] = {shown[r]} /\ shown[r] \in whole /\ (Op[r] # "regenerate" => shown[r] = r)
        /\ Op[r] = "transfer" => r \in Previewed /\ (r \in Named => names[Slot[r]] = r)
        /\ jpg[Slot[r]] = {} /\ Slot[r] \in folders /\ Op[r] # "clear"
    BY <1>1 DEF OnTrack
  <1>3. /\ jpg' = [jpg EXCEPT ![Slot[r]] = @ \cup {r}] /\ picture' = [picture EXCEPT ![r] = shown[r]]
        /\ pc' = [pc EXCEPT ![r] = "ok"]
    BY DEF JPGPut, Goto
  <1>4. jpg'[Slot[r]] = {r} /\ picture'[r] = shown[r]
    BY <1>1, <1>2, <1>3 DEF TypeOK, DeviceTypeOK, Authors
  <1>5. OnePicture(Slot[r])' /\ Solid(Slot[r])'
    BY <1>1, <1>2, <1>4 DEF OnePicture, Solid
  <1>6. Agrees(r)'
    BY <1>1, <1>2, <1>4 DEF Agrees
  <1>7. "ok" \in Answers /\ "ok" \notin Steps
    BY DEF Answers, Steps
  <1> QED
    BY <1>3, <1>5, <1>6, <1>7 DEF OnCourse

\* A call of a request on a slot that stays untroubled is on course.
LEMMA StepOnCourse ==
  ASSUME TypeOK, OpFits, CalmInv, NEW r \in Requests, Step(r), Slot[r] \notin troubled'
  PROVE  Busy(Slot[r]) \subseteq {r} /\ \E p : OnCourse(r, p)
  <1>1. r \in Busy(Slot[r]) /\ Slot[r] \in Guids
    BY SlotAssumption
    DEF Step, Look, Delete, Put, SetName, Get, JPGLook, JPGDelete, JPGPut, Busy, Running, Steps
  <1>2. Slot[r] \notin troubled
    BY DEF Step, Look, Delete, Put, SetName, Get, JPGLook, JPGDelete, JPGPut, Lookup, Works, Fails,
           envVars
  <1>3. Calm(Slot[r]) /\ r \notin cut
    BY <1>1, <1>2 DEF CalmInv
  <1>4. OnTrack(r) /\ OnePicture(Slot[r]) /\ Busy(Slot[r]) \subseteq {r}
    BY <1>1, <1>3 DEF Calm
  <1>5. ~Fails(r)
    BY <1>3, Undisturbed
  <1>6. \E p : OnCourse(r, p)
    BY <1>4, <1>5, LookOnCourse, DeleteOnCourse, PutOnCourse, NameOnCourse, GetOnCourse,
       JPGLookOnCourse, JPGDeleteOnCourse, JPGPutOnCourse DEF Step
  <1> QED
    BY <1>4, <1>6

\* How far a call reaches.
LEMMA CallReach ==
  ASSUME TypeOK, NEW r \in Requests, Start(r) \/ Step(r)
  PROVE  /\ \E p \in Steps \cup Answers : pc' = [pc EXCEPT ![r] = p]
         /\ \A q \in Requests \ {r} : found'[q] = found[q] /\ shown'[q] = shown[q]
         /\ whole \subseteq whole' /\ folders' = folders
         /\ \A h \in Guids \ {Slot[r]} : kmz'[h] = kmz[h] /\ jpg'[h] = jpg[h] /\ names'[h] = names[h]
         /\ troubled \subseteq troubled' /\ cut' = cut
  <1>1. \E p \in Steps \cup Answers : pc' = [pc EXCEPT ![r] = p]
    BY DEF Start, Step, Look, Delete, Put, SetName, Get, JPGLook, JPGDelete, JPGPut, Goto, AfterPut,
           AfterName, NoPreview, Steps, Answers
  <1>2. \A q \in Requests \ {r} : found'[q] = found[q] /\ shown'[q] = shown[q]
    BY DEF Start, Step, Look, Delete, Put, SetName, Get, JPGLook, JPGDelete, JPGPut, Lookup, TypeOK,
           RequestTypeOK
  <1>3. whole \subseteq whole' /\ folders' = folders
    BY DEF Start, Step, Look, Delete, Put, SetName, Get, JPGLook, JPGDelete, JPGPut, deviceVars
  <1>4. \A h \in Guids \ {Slot[r]} : kmz'[h] = kmz[h]
    BY DEF Start, Step, Look, Delete, Put, SetName, Get, JPGLook, JPGDelete, JPGPut, deviceVars,
           TypeOK, DeviceTypeOK
  <1>5. \A h \in Guids \ {Slot[r]} : jpg'[h] = jpg[h] /\ names'[h] = names[h]
    BY DEF Start, Step, Look, Delete, Put, SetName, Get, JPGLook, JPGDelete, JPGPut, deviceVars,
           TypeOK, DeviceTypeOK
  <1>6. troubled \subseteq troubled' /\ cut' = cut
    BY DEF Start, Step, Look, Delete, Put, SetName, Get, JPGLook, JPGDelete, JPGPut, Lookup, Works,
           Fails, envVars
  <1> QED
    BY <1>1, <1>2, <1>3, <1>4, <1>5, <1>6

LEMMA CallCalm ==
  ASSUME TypeOK, OpFits, CalmInv, NEW r \in Requests, Start(r) \/ Step(r)
  PROVE  CalmInv'
  <1>1. PICK p \in Steps \cup Answers : pc' = [pc EXCEPT ![r] = p]
    BY CallReach
  <1>2. ASSUME NEW h \in Guids \ troubled', h # Slot[r] PROVE Calm(h)'
    <2>1. Calm(h)
      BY CallReach DEF CalmInv
    <2>2. kmz'[h] = kmz[h] /\ jpg'[h] = jpg[h] /\ names'[h] = names[h]
      BY <1>2, CallReach
    <2>3. /\ \A q \in Requests \ {r} : found'[q] = found[q] /\ shown'[q] = shown[q]
          /\ whole \subseteq whole' /\ folders' = folders
      BY CallReach
    <2> QED
      BY <1>1, <1>2, <2>1, <2>2, <2>3, OtherSlotCalm
  <1>3. ASSUME Slot[r] \notin troubled' PROVE Calm(Slot[r])'
    <2>1. CASE Start(r)
      <3>1. Calm(Slot[r])
        BY <1>3, CallReach, SlotAssumption DEF CalmInv
      <3> QED
        BY <1>3, <2>1, <3>1, CalmStart
    <2>2. CASE Step(r)
      BY <1>3, <2>2, StepOnCourse, OwnSlotCalm
    <2> QED
      BY <2>1, <2>2
  <1>4. \A q \in cut' : Slot[q] \in troubled'
    BY CallReach DEF CalmInv
  <1> QED
    BY <1>2, <1>3, <1>4 DEF CalmInv

\* A slot stays calm when nothing is at work on it, or nothing moves.
LEMMA IdleCalm ==
  ASSUME NEW h \in Guids, Calm(h), UNCHANGED <<kmz, whole, folders, jpg>>,
         Busy(h) = {}, Busy(h)' = {}
  PROVE  Calm(h)'
  BY DEF Calm, Solid, OnePicture

LEMMA CalmStep ==
  ASSUME TypeOK, OpFits, CalmInv, [Next]_vars PROVE CalmInv'
  <1>1. CASE UNCHANGED vars
    <2>1. \A r \in Requests : OnTrack(r)' <=> OnTrack(r)
      BY <1>1 DEF vars, deviceVars, reqVars, OnTrack, Solid
    <2>2. \A h \in Guids : Busy(h)' = Busy(h) /\ (Solid(h)' <=> Solid(h))
                          /\ (OnePicture(h)' <=> OnePicture(h)) /\ Busy(h) \subseteq Requests
      BY <1>1 DEF vars, deviceVars, reqVars, Busy, Running, Solid, OnePicture
    <2>3. \A h \in Guids : Calm(h) => Calm(h)'
      BY <2>1, <2>2 DEF Calm
    <2> QED
      BY <1>1, <2>3 DEF CalmInv, vars, envVars
  <1>2. CASE Disconnect
    <2>1. UNCHANGED <<kmz, whole, folders, jpg, pc>> /\ cut' = Running
          /\ troubled' = troubled \cup {Slot[r] : r \in Running}
      BY <1>2 DEF Disconnect, deviceVars, reqVars
    <2>2. ASSUME NEW h \in Guids \ troubled' PROVE Calm(h)'
      <3>1. Busy(h) = {} /\ Busy(h)' = {} /\ Calm(h)
        BY <2>1 DEF Busy, Running, CalmInv
      <3> QED
        BY <2>1, <3>1, IdleCalm
    <2> QED
      BY <2>1, <2>2 DEF CalmInv
  <1>3. CASE Reconnect
    <2>1. UNCHANGED <<deviceVars, names, reqVars, cut, troubled>>
      BY <1>3 DEF Reconnect
    <2>2. \A r \in Requests : OnTrack(r)' <=> OnTrack(r)
      BY <2>1 DEF deviceVars, reqVars, OnTrack, Solid
    <2>3. \A h \in Guids : Busy(h)' = Busy(h) /\ (Solid(h)' <=> Solid(h))
                          /\ (OnePicture(h)' <=> OnePicture(h)) /\ Busy(h) \subseteq Requests
      BY <2>1 DEF deviceVars, reqVars, Busy, Running, Solid, OnePicture
    <2>4. \A h \in Guids : Calm(h) => Calm(h)'
      BY <2>2, <2>3 DEF Calm
    <2> QED
      BY <2>1, <2>4 DEF CalmInv
  <1>4. CASE Crash
    <2>1. UNCHANGED <<kmz, whole, folders, jpg, cut>>
          /\ troubled' = troubled \cup {Slot[r] : r \in Running}
          /\ pc' = [r \in Requests |-> IF r \in Running THEN "lost" ELSE pc[r]]
      BY <1>4 DEF Crash, deviceVars
    <2>2. ASSUME NEW h \in Guids \ troubled' PROVE Calm(h)'
      <3>1. Busy(h) = {} /\ Busy(h)' = {} /\ Calm(h)
        BY <2>1 DEF Busy, Running, CalmInv, Steps
      <3> QED
        BY <2>1, <3>1, IdleCalm
    <2>3. \A r \in cut' : Slot[r] \in troubled'
      BY <2>1 DEF CalmInv
    <2> QED
      BY <2>2, <2>3 DEF CalmInv
  <1> QED
    BY <1>1, <1>2, <1>3, <1>4, CallCalm DEF Next

\* A request comes to a success answer by a call of its own.
LEMMA AnswerStep ==
  ASSUME TypeOK, OpFits, CalmInv, [Next]_vars, NEW r \in Requests,
         pc[r] # "ok", pc'[r] = "ok", Slot[r] \notin troubled'
  PROVE  Agrees(r)'
  <1>1. pc'[r] # pc[r]
    OBVIOUS
  <1>2. ~Crash /\ ~Disconnect /\ ~Reconnect /\ ~UNCHANGED vars
    BY <1>1 DEF Crash, Disconnect, Reconnect, vars, reqVars
  <1>3. PICK q \in Requests : Start(q) \/ Step(q)
    BY <1>2 DEF Next
  <1>4. PICK p \in Steps \cup Answers : pc' = [pc EXCEPT ![q] = p]
    BY <1>3, CallReach
  <1>5. q = r
    BY <1>1, <1>4 DEF TypeOK, RequestTypeOK
  <1>6. ~Start(r)
    BY <1>4, <1>5 DEF Start, Goto, TypeOK, RequestTypeOK
  <1>7. PICK s : OnCourse(r, s)
    BY <1>3, <1>5, <1>6, StepOnCourse
  <1>8. s = "ok"
    BY <1>7 DEF OnCourse, TypeOK, RequestTypeOK
  <1> QED
    BY <1>7, <1>8 DEF OnCourse

\* A success answer to a request on a slot that no overlap, failure, cut or crash has
\* disturbed is true of the slot when it is given, for any number of slots and
\* requests: the mission is the only one there, and the name and the preview are its
\* own (Registry.TransferWithMeta, ClearSlot and RegeneratePreview).
THEOREM AnswersAreTrue == Spec => AnswersTrue
  <1>1. Init => CalmInv
    BY CalmInit
  <1>2. LossInv /\ CalmInv /\ [Next]_vars => CalmInv'
    BY CalmStep DEF LossInv
  <1>3. LossInv /\ CalmInv /\ [Next]_vars =>
          [\A r \in Requests :
             pc[r] # "ok" /\ pc'[r] = "ok" /\ Slot[r] \notin troubled' => Agrees(r)']_vars
    BY AnswerStep DEF LossInv
  <1> QED
    BY <1>1, <1>2, <1>3, LossInvariant, PTL DEF Spec, AnswersTrue

=============================================================================
