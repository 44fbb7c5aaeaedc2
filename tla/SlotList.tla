------------------------------- MODULE SlotList -------------------------------
(***************************************************************************)
(* GET .../slots: the listing of the mission slots of one controller       *)
(* (Registry.ListSlots, and the ListSlots of the MTP and adb controllers), *)
(* and the browser that shows it.                                          *)
(*                                                                         *)
(* No lock spans a listing.  The device is asked for one folder at a time, *)
(* the three stores for one slot at a time, while transfers, DJI Fly and   *)
(* other browsers change all of them.  The device stamps what is written   *)
(* in whole seconds (internal/mtp/client_linux.go:237), so several writes  *)
(* may have one stamp; its clock is never set back.  Over MTP a folder     *)
(* that cannot be listed is taken for an empty one (197-200).              *)
(***************************************************************************)
EXTENDS Naturals, Sequences, FiniteSets

CONSTANTS
  Entries,     \* the names in the waypoint folder, as the device lists them
  Guids,       \* those that are slots
  SlotNames,   \* names users give to slots; "" is the default
  Orders,      \* orders users save for the device, of slots it has or has not, and
               \* with repetitions (handlers.go:504-510); <<>> removes it
  MaxChanges   \* bound: writes to the device and to the stores, and folders that
               \* cannot be listed

\* A list of names; the device has no two entries of one name in a folder.
NameList(list) == list \in Seq({list[i] : i \in DOMAIN list})

ASSUME SlotListAssumption ==
  /\ NameList(Entries) /\ \A i, j \in DOMAIN Entries : Entries[i] = Entries[j] => i = j
  /\ Guids \subseteq {Entries[i] : i \in DOMAIN Entries}
  /\ \A order \in Orders : NameList(order)
  /\ "" \in SlotNames /\ <<>> \in Orders
  /\ MaxChanges \in Nat

VARIABLES
  link,      \* how the controller is connected: "mtp" or "adb"
  stamps,    \* stamps[g]: [dir, kmz, jpg], the second each was written in, 0: not
             \* there; and pic, which preview it is: the change that put it
  saved,     \* the stores: [name, flag : of each slot, order]
  clock,     \* the second it is
  changes,   \* how many of MaxChanges there have been
  at,        \* the listing in progress: its next step, the slot it is at, whether
             \* it has listed the previews, and (history) the waypoint folder
  rows,      \* its slots so far
  since,     \* history: what the stores have held since the listing began
  images,    \* images[g][v]: the preview the browser loaded as ?v=, 0 if none
  loaded,    \* history: when a picture of each slot was last loaded
  hasty      \* history: slots with a preview put in a second in which one was loaded

controllerVars == <<link, stamps, clock, hasty>>
listVars == <<controllerVars, saved, changes, at, rows, since, images, loaded>>

Stamps == 0..MaxChanges + 1
Pics == 0..MaxChanges + 1
Change == changes < MaxChanges /\ changes' = changes + 1
Row == [guid : Guids, stamp : Stamps, pic : Pics, name : SlotNames, flag : BOOLEAN]
ListSteps == {"rest", "dir", "previews", "kmz", "jpg", "name", "flag", "order", "answer"}

-----------------------------------------------------------------------------
(* Pure parts.                                                              *)

\* What a list has at the given places, in its order.
PlaceOf(places, k) == CHOOSE p \in places : Cardinality({q \in places : q <= p}) = k
Picked(list, places) == [k \in 1..Cardinality(places) |-> list[PlaceOf(places, k)]]

\* Entries that are no slots, as map_preview, are skipped.
Slots == Picked(Entries, {i \in DOMAIN Entries : Entries[i] \in Guids})

Newer(s, t) == IF s > t THEN s ELSE t

\* The saved order first, without the slots that are gone and with a slot as often
\* as it is named; then the others as the device lists them.
GuidsOf(list) == {list[i].guid : i \in DOMAIN list}
RowOf(list, g) == CHOOSE r \in {list[i] : i \in DOMAIN list} : r.guid = g
Ordered(order, list) ==
  LET first == Picked(order, {i \in DOMAIN order : order[i] \in GuidsOf(list)})
  IN  [i \in DOMAIN first |-> RowOf(list, first[i])]
BugReorder(order, list) == Ordered(order, list) \o list
Reorder(order, list) ==
  LET used == GuidsOf(Ordered(order, list))
  IN  Ordered(order, list) \o Picked(list, {i \in DOMAIN list : list[i].guid \notin used})

NoListing == [pc |-> "rest", slot |-> 1, pics |-> FALSE, all |-> FALSE]

SlotListInit ==
  /\ link \in {"mtp", "adb"}
  /\ stamps = [g \in Guids |-> [dir |-> 1, kmz |-> 1, jpg |-> 1, pic |-> 1]]
  /\ clock = 1 /\ changes = 0
  /\ saved = [name |-> [g \in Guids |-> ""], flag |-> [g \in Guids |-> TRUE], order |-> <<>>]
  /\ at = NoListing /\ rows = <<>>
  /\ since = [name |-> [g \in Guids |-> {}], flag |-> [g \in Guids |-> {}], order |-> {}]
  /\ images = [g \in Guids |-> [v \in Stamps |-> 0]]
  /\ loaded = [g \in Guids |-> 0] /\ hasty = {}

-----------------------------------------------------------------------------
(* Around the listing.                                                      *)

\* A transfer, a regenerated preview, a cleared slot or DJI Fly puts or removes one
\* file of a slot, in the second of the last such write or in a later one.
PutFile(g, what) ==
  /\ Change
  /\ \E second \in {clock, clock + 1} :
       /\ clock' = second
       /\ stamps' = [stamps EXCEPT ![g][what] = second,
                                   ![g].pic = IF what = "jpg" THEN changes + 2 ELSE @]
       /\ hasty' = IF what = "jpg" /\ second = loaded[g] THEN hasty \cup {g} ELSE hasty
  /\ UNCHANGED <<link, saved, at, rows, since, images, loaded>>
RemoveFile(g, what) ==
  /\ Change
  /\ stamps' = [stamps EXCEPT ![g][what] = 0, ![g].pic = IF what = "jpg" THEN 0 ELSE @]
  /\ UNCHANGED <<link, clock, hasty, saved, at, rows, since, images, loaded>>

\* What a store holds, or held, since the listing began.
SinceThen(s) ==
  IF at.pc = "rest" THEN since
  ELSE [name |-> [g \in Guids |-> since.name[g] \cup {s.name[g]}],
        flag |-> [g \in Guids |-> since.flag[g] \cup {s.flag[g]}],
        order |-> since.order \cup {s.order}]

\* handleSetSlotName, handleClearSlotName, handleSetSlotManaged, handleSetSlotOrder,
\* and the name of a transfer.
SaveOf(s) ==
  /\ Change
  /\ saved' = s /\ since' = SinceThen(s)
  /\ UNCHANGED <<controllerVars, at, rows, images, loaded>>
SetSlotName(g, name) == saved.name[g] # name /\ SaveOf([saved EXCEPT !.name[g] = name])
SetSlotManaged(g) == SaveOf([saved EXCEPT !.flag[g] = ~@])
SetSlotOrder(order) == saved.order # order /\ SaveOf([saved EXCEPT !.order = order])

-----------------------------------------------------------------------------
(* The listing.                                                             *)

ListStep(pc) == at.pc = pc
GoOn(pc, slot) == at' = [at EXCEPT !.pc = pc, !.slot = slot]
Rows(r) == rows' = r /\ UNCHANGED <<controllerVars, saved, since, images, loaded>>

\* A browser asks.
AskSlots ==
  /\ ListStep("rest") /\ at' = [NoListing EXCEPT !.pc = "dir"]
  /\ since' = [name |-> [g \in Guids |-> {saved.name[g]}],
               flag |-> [g \in Guids |-> {saved.flag[g]}], order |-> {saved.order}]
  /\ UNCHANGED <<controllerVars, saved, changes, rows, images, loaded>>

Misses(missed) == IF missed THEN Change ELSE UNCHANGED changes

\* The waypoint folder, with the stamps of the folders of the slots.  Over MTP a
\* listing that fails has no slots; over adb it is an error: ListFails.
DefaultRow(g) ==
  [guid |-> g, stamp |-> stamps[g].dir, pic |-> 0, name |-> "", flag |-> TRUE]
ListWaypointDir(missed) ==
  /\ ListStep("dir") /\ (missed => link = "mtp") /\ Misses(missed)
  /\ at' = [at EXCEPT !.pc = IF link = "mtp" THEN "previews" ELSE "kmz", !.pics = (link = "adb"),
                      !.all = ~missed]
  /\ Rows(IF missed THEN <<>> ELSE [i \in DOMAIN Slots |-> DefaultRow(Slots[i])])

\* The folder of the previews; without it no slot has a picture.
ListPreviewDir(missed) ==
  /\ ListStep("previews") /\ Misses(missed)
  /\ at' = [at EXCEPT !.pc = "kmz", !.pics = ~missed]
  /\ Rows(rows)

Slot == rows[at.slot]

\* The KMZ of one slot, and its preview; of an adb slot only the KMZ counts for
\* the stamp.
StatKMZ(missed) ==
  /\ ListStep("kmz") /\ at.slot <= Len(rows) /\ Misses(missed)
  /\ IF at.pics THEN GoOn("jpg", at.slot) ELSE GoOn("kmz", at.slot + 1)
  /\ Rows(IF missed THEN rows
          ELSE [rows EXCEPT ![at.slot].stamp = Newer(@, stamps[Slot.guid].kmz)])
BugNoRoll(stamp, jpg) == stamp
RolledIn(stamp, jpg) == IF link = "mtp" THEN Newer(stamp, jpg) ELSE stamp
StatPreview(missed) ==
  /\ ListStep("jpg") /\ Misses(missed)
  /\ GoOn("kmz", at.slot + 1)
  /\ LET met == stamps[Slot.guid] IN
     Rows(IF missed THEN rows
          ELSE [rows EXCEPT ![at.slot].pic = met.pic, ![at.slot].stamp = RolledIn(@, met.jpg)])

\* The controller has answered; the stores are read, one slot at a time.
DeviceListed ==
  /\ ListStep("kmz") /\ at.slot > Len(rows)
  /\ GoOn("name", 1) /\ Rows(rows) /\ UNCHANGED changes
ApplySavedName ==
  /\ ListStep("name")
  /\ IF at.slot > Len(rows) THEN GoOn("flag", 1) /\ Rows(rows)
     ELSE /\ GoOn("name", at.slot + 1)
          /\ Rows([rows EXCEPT ![at.slot].name = saved.name[Slot.guid]])
  /\ UNCHANGED changes
ApplyManaged ==
  /\ ListStep("flag")
  /\ IF at.slot > Len(rows) THEN GoOn("order", 1) /\ Rows(rows)
     ELSE /\ GoOn("flag", at.slot + 1)
          /\ Rows([rows EXCEPT ![at.slot].flag = saved.flag[Slot.guid]])
  /\ UNCHANGED changes
ApplyOrder ==
  /\ ListStep("order") /\ GoOn("answer", 1)
  /\ Rows(Reorder(saved.order, rows)) /\ UNCHANGED changes

\* The listing is over, and what the stores have held since no longer matters.
ListingOver ==
  /\ at' = NoListing /\ rows' = <<>>
  /\ since' = [name |-> [g \in Guids |-> {}], flag |-> [g \in Guids |-> {}], order |-> {}]
  /\ UNCHANGED <<controllerVars, saved, changes>>

\* The device is not there, its handle is closed or adb fails; the answer is an error
\* and no slots are shown.
ListFails == ListStep("dir") /\ ListingOver /\ UNCHANGED <<images, loaded>>

\* loadSlots shows the answer.  A picture of a URL the page has loaded before is
\* not loaded again.
LoadsPicture(g, v) ==
  \E i \in DOMAIN rows :
    rows[i].guid = g /\ rows[i].stamp = v /\ rows[i].pic # 0 /\ images[g][v] = 0
RenderSlots ==
  /\ ListStep("answer") /\ ListingOver
  /\ images' = [g \in Guids |-> [v \in Stamps |->
                  IF LoadsPicture(g, v) THEN stamps[g].pic ELSE images[g][v]]]
  /\ loaded' = [g \in Guids |-> IF \E v \in Stamps : LoadsPicture(g, v) THEN clock ELSE loaded[g]]

SlotListNext ==
  \/ \E g \in Guids :
       \/ \E what \in {"kmz", "jpg"} : PutFile(g, what) \/ RemoveFile(g, what)
       \/ \E name \in SlotNames : SetSlotName(g, name)
       \/ SetSlotManaged(g)
  \/ \E order \in Orders : SetSlotOrder(order)
  \/ \E missed \in BOOLEAN :
       ListWaypointDir(missed) \/ ListPreviewDir(missed) \/ StatKMZ(missed) \/ StatPreview(missed)
  \/ AskSlots \/ DeviceListed \/ ApplySavedName \/ ApplyManaged
  \/ ApplyOrder \/ ListFails \/ RenderSlots

SlotListSpec == SlotListInit /\ [][SlotListNext]_listVars

SlotListTypeOK ==
  /\ link \in {"mtp", "adb"} /\ clock \in 1..MaxChanges + 1 /\ changes \in 0..MaxChanges
  /\ stamps \in [Guids -> [dir : Stamps, kmz : Stamps, jpg : Stamps, pic : Pics]]
  /\ saved.name \in [Guids -> SlotNames] /\ saved.flag \in [Guids -> BOOLEAN]
  /\ saved.order \in Orders
  /\ at \in [pc : ListSteps, slot : 1..Len(Slots) + 1, pics : BOOLEAN, all : BOOLEAN]
  /\ \A i \in DOMAIN rows : rows[i] \in Row
  /\ images \in [Guids -> [Stamps -> Pics]] /\ loaded \in [Guids -> Stamps]
  /\ hasty \subseteq Guids

-----------------------------------------------------------------------------
(* Properties.                                                              *)

\* The rows are in the order of the list: what it does not name comes last, as the
\* device lists it.  Only a slot the list names twice is there twice.
Precedes(list, g, h) == \E i, j \in DOMAIN list : i < j /\ list[i] = g /\ list[j] = h
InOrderOf(order) ==
  \A i, j \in DOMAIN rows : i < j =>
    LET g == rows[i].guid
        h == rows[j].guid
        ranked == {order[k] : k \in DOMAIN order}
    IN  \/ Precedes(order, g, h)
        \/ g \in ranked /\ h \notin ranked
        \/ {g, h} \cap ranked = {} /\ Precedes(Slots, g, h)

\* Whatever is saved while a listing reads the stores piece by piece, its answer
\* has every slot of the device, none twice that the saved order names once at most,
\* each with a name and a flag that were its own at some time since the listing
\* began, in the order of one list that was saved in that time (detector.go:1059-1072,
\* store.go:89-110); or it has no slot at all, because the waypoint folder could not
\* be listed, which docs/API.md:109 does not say.
ListingTrue ==
  ListStep("answer") =>
    /\ IF at.all THEN \A g \in Guids : \E i \in DOMAIN rows : rows[i].guid = g ELSE rows = <<>>
    /\ \A i \in DOMAIN rows : /\ rows[i].guid \in Guids
                              /\ rows[i].name \in since.name[rows[i].guid]
                              /\ rows[i].flag \in since.flag[rows[i].guid]
    /\ \E order \in since.order : InOrderOf(order)

\* "Without this ... browsers serve the stale thumbnail forever"
\* (mtp_controller.go:313-317): the picture a page shows for a slot over MTP is
\* never older than the one the listing behind the page has met, whatever was
\* written, removed or missed before and meanwhile; unless a preview was put in the
\* very second in which a page had loaded its predecessor, where the stamp does not
\* make "re-uploads visibly refresh" (app.js:420).
ThumbnailFresh ==
  [][at.pc = "answer" /\ link = "mtp" =>
       \A i \in DOMAIN rows : rows[i].pic # 0 /\ rows[i].guid \notin hasty =>
         images'[rows[i].guid][rows[i].stamp] \in {0} \cup {n \in Pics : n >= rows[i].pic}]_listVars

=============================================================================
