---------------------------- MODULE SlotTransfer ----------------------------
(***************************************************************************)
(* Writing to a mission slot of a DJI controller over MTP: a transfer, a   *)
(* slot clear and a preview regeneration, as Registry.TransferWithMeta,    *)
(* Registry.ClearSlot and Registry.RegeneratePreview drive the MTP         *)
(* controller.  A mission file is replaced by deleting the old object and  *)
(* putting a new one; MTP has no rename and two objects may carry the same *)
(* name.                                                                   *)
(*                                                                         *)
(* Device.mu makes one libmtp call atomic, nothing makes two of them so:   *)
(* every call is an action, and requests on one slot interleave.  The      *)
(* cable may be pulled or the daemon may die between any two calls; a call *)
(* may fail on its own.  An object is named by the request that put it, so *)
(* each request is made once.                                              *)
(***************************************************************************)
EXTENDS Naturals, FiniteSets

CONSTANTS
  Guids,          \* the slots, created by DJI Fly
  Requests,       \* bound: the API requests of a behaviour
  Op,             \* Op[r]: what r asks for
  Slot,           \* Slot[r]: the slot it is about
  Named,          \* transfers that carry a slot name
  Previewed,      \* transfers that carry waypoints to render a preview from
  Fly,            \* author of what is in a slot at first
  None,
  MaxCuts,        \* bound: pulled cables and crashes
  MaxFaults       \* bound: calls that fail on a live connection

ASSUME SlotAssumption ==
  /\ Op \in [Requests -> {"transfer", "clear", "regenerate"}]
  /\ Slot \in [Requests -> Guids]
  /\ Named \subseteq Requests /\ Previewed \subseteq Requests
  /\ Fly \notin Requests /\ None \notin Requests \cup {Fly}
  /\ MaxCuts \in Nat /\ MaxFaults \in Nat

VARIABLES
  kmz,       \* kmz[g]: the objects named <g>.kmz in the folder of slot g
  whole,     \* the KMZ objects that were received to the last byte
  folders,   \* slots that have a map_preview/<GUID> folder
  jpg,       \* jpg[g]: the objects named <g>.jpg in map_preview/<g>
  picture,   \* picture[j]: the mission the JPEG that j put shows, None if cut short
  names,     \* names[g]: the request whose name is saved for slot g
  conn,      \* the controller is plugged in
  cut,       \* requests holding a handle whose connection is gone
  pc,        \* pc[r]: the next call of r, or its answer
  found,     \* found[r]: the object the last lookup of r returned
  shown,     \* shown[r]: the mission r has rendered a preview of
  cuts, faults,
  troubled   \* history: slots where requests overlapped or a call was disturbed

deviceVars == <<kmz, whole, folders, jpg, picture>>
reqVars == <<pc, found, shown>>
envVars == <<conn, cut, cuts, faults, troubled>>
vars == <<deviceVars, names, reqVars, envVars>>

Authors == Requests \cup {Fly}
Answers == {"ok", "failed", "lost"}
Steps == {"look", "delete", "put", "get", "name", "jlook", "jdelete", "jput"}

DeviceTypeOK ==
  /\ kmz \in [Guids -> SUBSET Authors] /\ whole \subseteq Authors
  /\ folders \subseteq Guids
  /\ jpg \in [Guids -> SUBSET Authors] /\ picture \in [Authors -> Authors \cup {None}]
  /\ names \in [Guids -> Requests \cup {None}]
\* No device call is ever made on the nil entry of a failed lookup.
RequestTypeOK ==
  /\ pc \in [Requests -> {"new"} \cup Steps \cup Answers]
  /\ found \in [Requests -> Authors \cup {None}]
  /\ shown \in [Requests -> Authors \cup {None}]
  /\ \A r \in Requests : pc[r] \in {"delete", "get", "jdelete"} => found[r] # None
EnvTypeOK ==
  /\ conn \in BOOLEAN /\ cut \subseteq Requests
  /\ cuts \in 0..MaxCuts /\ faults \in 0..MaxFaults
  /\ troubled \subseteq Guids

TypeOK == DeviceTypeOK /\ RequestTypeOK /\ EnvTypeOK

Init ==
  /\ kmz = [g \in Guids |-> {Fly}] /\ whole = {Fly}
  /\ folders \in SUBSET Guids
  /\ jpg = [g \in Guids |-> IF g \in folders THEN {Fly} ELSE {}]
  /\ picture = [a \in Authors |-> IF a = Fly THEN Fly ELSE None]
  /\ names = [g \in Guids |-> None]
  /\ conn = TRUE /\ cut = {}
  /\ pc = [r \in Requests |-> "new"]
  /\ found = [r \in Requests |-> None]
  /\ shown = [r \in Requests |-> None]
  /\ cuts = 0 /\ faults = 0
  /\ troubled = {}

Running == {r \in Requests : pc[r] \in Steps}
Writers == {r \in Requests : Op[r] \in {"transfer", "clear"}}

-----------------------------------------------------------------------------
(* How a device call ends.                                                  *)

Goto(r, next) == pc' = [pc EXCEPT ![r] = next]

\* The call does what it is for.
Works(r) == r \notin cut /\ UNCHANGED envVars

\* The call fails: always once the cable was pulled, now and then before.
Fails(r) ==
  /\ IF r \in cut THEN UNCHANGED <<faults, troubled>>
     ELSE /\ faults < MaxFaults /\ faults' = faults + 1
          /\ troubled' = troubled \cup {Slot[r]}
  /\ UNCHANGED <<conn, cut, cuts>>

\* findChild of one of objects.  libmtp reports a listing that failed as an
\* empty one; of several objects with the name any may come first.
Lookup(r, objects) ==
  \/ /\ Works(r)
     /\ IF objects = {} THEN found' = [found EXCEPT ![r] = None]
        ELSE \E o \in objects : found' = [found EXCEPT ![r] = o]
  \/ Fails(r) /\ found' = [found EXCEPT ![r] = None]

-----------------------------------------------------------------------------
(* The slot's KMZ.                                                          *)

\* The request has refreshed, looked its controller up and found the slot's
\* folder; or one of these failed and it ends here.
Start(r) ==
  /\ pc[r] = "new"
  /\ \/ /\ conn
        /\ Goto(r, "look")
        /\ troubled' = IF \E q \in Running : Slot[q] = Slot[r]
                       THEN troubled \cup {Slot[r]} ELSE troubled
     \/ Goto(r, "failed") /\ UNCHANGED troubled
  /\ UNCHANGED <<deviceVars, names, found, shown, conn, cut, cuts, faults>>

BugLookUnchecked(r) ==
  /\ pc[r] = "look"
  /\ Lookup(r, kmz[Slot[r]])
  /\ Goto(r, IF Op[r] = "regenerate" THEN "get" ELSE "delete")
  /\ UNCHANGED <<deviceVars, names, shown>>
Look(r) ==
  /\ pc[r] = "look"
  /\ Lookup(r, kmz[Slot[r]])
  /\ Goto(r, IF Op[r] = "regenerate" THEN IF found'[r] = None THEN "failed" ELSE "get"
             ELSE IF found'[r] = None THEN "put" ELSE "delete")
  /\ UNCHANGED <<deviceVars, names, shown>>

\* Delete the object that was found; it may be gone by now.
BugRetryDelete(r) ==
  /\ pc[r] = "delete"
  /\ \/ /\ Works(r)
        /\ kmz' = [kmz EXCEPT ![Slot[r]] = @ \ {found[r]}]
        /\ Goto(r, "put")
        /\ found' = [found EXCEPT ![r] = None]
     \/ Fails(r) /\ UNCHANGED <<kmz, found, pc>>
  /\ UNCHANGED <<whole, folders, jpg, picture, names, shown>>
Delete(r) ==
  /\ pc[r] = "delete"
  /\ LET g == Slot[r] IN
     \/ /\ Works(r) /\ found[r] \in kmz[g]
        /\ kmz' = [kmz EXCEPT ![g] = @ \ {found[r]}]
        /\ Goto(r, "put")
     \/ /\ (Works(r) /\ found[r] \notin kmz[g]) \/ Fails(r)
        /\ Goto(r, "failed")
        /\ UNCHANGED kmz
  /\ found' = [found EXCEPT ![r] = None]
  /\ UNCHANGED <<whole, folders, jpg, picture, names, shown>>

\* What follows a stored KMZ: a transfer saves the name it carries and renders
\* its preview; a clear deletes the preview first.
AfterName(r) == IF Op[r] = "transfer" /\ r \in Previewed THEN "jlook" ELSE "ok"
AfterPut(r) == IF Op[r] = "clear" THEN "jlook" ELSE "name"

\* Put the new object.  A put that fails may leave what was received of it.
BugPutUnchecked(r) ==
  /\ pc[r] = "put"
  /\ \/ Works(r) /\ whole' = whole \cup {r} /\ kmz' = [kmz EXCEPT ![Slot[r]] = @ \cup {r}]
     \/ Fails(r) /\ UNCHANGED <<kmz, whole>>
  /\ Goto(r, AfterPut(r))
  /\ shown' = [shown EXCEPT ![r] = r]
  /\ UNCHANGED <<folders, jpg, picture, names, found>>
Put(r) ==
  /\ pc[r] = "put"
  /\ LET g == Slot[r] IN
     \/ /\ Works(r)
        /\ kmz' = [kmz EXCEPT ![g] = @ \cup {r}]
        /\ whole' = whole \cup {r}
        /\ shown' = [shown EXCEPT ![r] = r]
        /\ Goto(r, AfterPut(r))
     \/ /\ Fails(r)
        /\ kmz' = kmz \/ (r \notin cut /\ kmz' = [kmz EXCEPT ![g] = @ \cup {r}])
        /\ Goto(r, "failed")
        /\ UNCHANGED <<whole, shown>>
  /\ UNCHANGED <<folders, jpg, picture, names, found>>

\* names.Set: a transfer saves its name if it has one, a clear drops the saved one.
SetName(r) ==
  /\ pc[r] = "name"
  /\ names' = [names EXCEPT ![Slot[r]] =
                 IF Op[r] = "clear" THEN None ELSE IF r \in Named THEN r ELSE @]
  /\ Goto(r, AfterName(r))
  /\ UNCHANGED <<deviceVars, found, shown, envVars>>

-----------------------------------------------------------------------------
(* The slot's preview.                                                      *)

\* ReadKMZ and ExtractMission of a regeneration: the object may be gone, or
\* not be a whole archive.
Get(r) ==
  /\ pc[r] = "get"
  /\ \/ /\ Works(r) /\ found[r] \in kmz[Slot[r]] \cap whole
        /\ shown' = [shown EXCEPT ![r] = found[r]]
        /\ Goto(r, "jlook")
     \/ /\ (Works(r) /\ found[r] \notin kmz[Slot[r]] \cap whole) \/ Fails(r)
        /\ Goto(r, "failed")
        /\ UNCHANGED shown
  /\ found' = [found EXCEPT ![r] = None]
  /\ UNCHANGED <<deviceVars, names>>

\* How a request ends that could not write its preview: a transfer only logs
\* it, a clear does not care, a regeneration was about nothing else.
BugFailTransfer(r) == IF Op[r] = "clear" THEN "name" ELSE "failed"
NoPreview(r) ==
  CASE Op[r] = "transfer" -> "ok" [] Op[r] = "clear" -> "name" [] OTHER -> "failed"

\* Render the JPEG (which may fail), find the slot's preview folder and the
\* JPEG in it.
JPGLook(r) ==
  /\ pc[r] = "jlook"
  /\ \/ /\ Slot[r] \in folders
        /\ Lookup(r, jpg[Slot[r]])
        /\ Goto(r, IF found'[r] # None THEN "jdelete"
                   ELSE IF Op[r] = "clear" THEN "name" ELSE "jput")
     \/ /\ (Works(r) /\ Slot[r] \notin folders) \/ Fails(r)
        /\ Goto(r, NoPreview(r))
        /\ UNCHANGED found
  /\ UNCHANGED <<deviceVars, names, shown>>

\* Delete it; the error is ignored.
BugDeleteNoJPG(r, objects) == objects
WithoutFound(r, objects) == objects \ {found[r]}
JPGDelete(r) ==
  /\ pc[r] = "jdelete"
  /\ \/ Works(r) /\ jpg' = [jpg EXCEPT ![Slot[r]] = WithoutFound(r, @)]
     \/ Fails(r) /\ UNCHANGED jpg
  /\ Goto(r, IF Op[r] = "clear" THEN "name" ELSE "jput")
  /\ found' = [found EXCEPT ![r] = None]
  /\ UNCHANGED <<kmz, whole, folders, picture, names, shown>>

JPGPut(r) ==
  /\ pc[r] = "jput"
  /\ LET g == Slot[r] IN
     \/ /\ Works(r)
        /\ jpg' = [jpg EXCEPT ![g] = @ \cup {r}]
        /\ picture' = [picture EXCEPT ![r] = shown[r]]
        /\ Goto(r, "ok")
     \/ /\ Fails(r)
        /\ jpg' = jpg \/ (r \notin cut /\ jpg' = [jpg EXCEPT ![g] = @ \cup {r}])
        /\ Goto(r, NoPreview(r))
        /\ UNCHANGED picture
  /\ UNCHANGED <<kmz, whole, folders, names, found, shown>>

-----------------------------------------------------------------------------
(* The cable and the daemon.                                                *)

\* Every running request holds the handle of the connection that is gone.
Disconnect ==
  /\ conn /\ cuts < MaxCuts
  /\ conn' = FALSE /\ cuts' = cuts + 1
  /\ cut' = Running
  /\ troubled' = troubled \cup {Slot[r] : r \in Running}
  /\ UNCHANGED <<deviceVars, names, reqVars, faults>>

Reconnect ==
  /\ ~conn /\ conn' = TRUE
  /\ UNCHANGED <<deviceVars, names, reqVars, cut, cuts, faults, troubled>>

\* The daemon dies: no client gets an answer.
Crash ==
  /\ Running # {} /\ cuts < MaxCuts
  /\ cuts' = cuts + 1
  /\ pc' = [r \in Requests |-> IF r \in Running THEN "lost" ELSE pc[r]]
  /\ troubled' = troubled \cup {Slot[r] : r \in Running}
  /\ UNCHANGED <<deviceVars, names, found, shown, conn, cut, faults>>

Step(r) ==
  \/ Look(r) \/ Delete(r) \/ Put(r) \/ SetName(r)
  \/ Get(r) \/ JPGLook(r) \/ JPGDelete(r) \/ JPGPut(r)

Next ==
  \/ \E r \in Requests : Start(r) \/ Step(r)
  \/ Disconnect \/ Reconnect \/ Crash

Spec == Init /\ [][Next]_vars

\* The goroutine that serves a request runs until it answers: a libmtp call
\* returns, if only with an error, and Device.mu is released after each.
FairSpec == Spec /\ \A r \in Requests : WF_vars(Step(r))

-----------------------------------------------------------------------------
(* Properties.                                                              *)

\* A slot whose mission is lost is never a secret: when no whole KMZ is left in
\* it, some request on it is still at work, was answered with an error or died
\* with the daemon.  Requests that all succeed leave a mission, however they
\* interleave and whatever fails.
NoSilentLoss ==
  \A g \in Guids :
    kmz[g] \cap whole = {} =>
      \E r \in Writers : Slot[r] = g /\ pc[r] \notin {"new", "ok"}

\* What a success answer means for the slot when nothing disturbed it: the
\* mission is the only one there, and the name and the preview are its own.
Agrees(r) ==
  LET g == Slot[r] IN
  CASE Op[r] = "transfer" ->
         /\ kmz[g] = {r} /\ r \in whole
         /\ r \in Named => names[g] = r
         /\ r \in Previewed /\ g \in folders => jpg[g] = {r} /\ picture[r] = r
    [] Op[r] = "clear" -> kmz[g] = {r} /\ r \in whole /\ names[g] = None /\ jpg[g] = {}
    [] OTHER -> jpg[g] = {r} /\ kmz[g] = {picture[r]}

\* Every success answer is true of the slot at the moment it is given
\* (Registry.TransferWithMeta, ClearSlot and RegeneratePreview): without an
\* overlap or a failure the three parts of the slot agree.
AnswersTrue ==
  [][\A r \in Requests :
       pc[r] # "ok" /\ pc'[r] = "ok" /\ Slot[r] \notin troubled' => Agrees(r)']_vars

\* Every request is answered, cut off or not.
RequestsAnswered == \A r \in Requests : pc[r] \in Steps ~> pc[r] \in Answers

\* Whatever overlaps and fails, the slots keep the promise of SlotPromise.
Promise == INSTANCE SlotPromise WITH
  missions <- [g \in Guids |-> kmz[g] \cap whole],
  stored   <- whole \ {Fly},
  answer   <- [r \in Requests |-> IF pc[r] \in Answers THEN pc[r] ELSE "none"]
KeepsPromise == Promise!Spec

\* "Disconnect mid-transfer leaves the previous slot intact"
\* (docs/DEVELOPMENT.md:73): the first request on a slot can fail only with
\* the slot's first mission still there.
PreviousSurvives ==
  \A r \in Writers :
    pc[r] = "failed" /\ (\A q \in Requests \ {r} : Slot[q] = Slot[r] => pc[q] = "new")
      => Fly \in kmz[Slot[r]]

=============================================================================
