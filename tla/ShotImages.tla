------------------------------ MODULE ShotImages ------------------------------
(***************************************************************************)
(* The image/ folder of one mission slot on an MTP controller: a photo per *)
(* waypoint, WP_*.jpg, and ShotSnap.json, which says which photo is of     *)
(* which waypoint (mtp_controller.go, WriteWaypointImages and the end of   *)
(* ClearSlot; detector.go, PushWaypointImages).                            *)
(*                                                                         *)
(* A push reads the mission back from the slot, renders a picture of each  *)
(* waypoint, empties the folder and fills it, one call of libmtp at a time *)
(* and with no lock over them.  MTP lets two files have one name.  A       *)
(* deletion that fails is not looked at, nor is a listing that fails: it   *)
(* is empty.  The cable or the daemon may go at any time.                  *)
(***************************************************************************)
EXTENDS Naturals, FiniteSets

CONSTANTS
  Jobs,       \* requests about the slot: pushes, transfers with a push, clears
  Missions,   \* Missions[m]: how many waypoints mission m has
  MaxSlips    \* bound: deletions and listings that fail unnoticed

ASSUME ShotAssumption == MaxSlips \in Nat /\ DOMAIN Missions \subseteq Nat /\ 1 \in DOMAIN Missions

VARIABLES
  mission,   \* the mission in the slot; 0: the placeholder
  image,     \* the files in image/
  job,       \* job[j]: [pc, op, mission, put, todo]: the mission it is about, how many
             \* photos it has put, the files it has listed and not yet deleted
  alone,     \* history: nothing has been started and nothing slipped since j began
  slips

imageVars == <<mission, image, job, alone, slips>>

Drone == 0   \* not one of Jobs: who put the files that are there in the beginning

Photo(by, n) == [kind |-> "WP", by |-> by, of |-> {n}]
ShotSnap(by, ns) == [kind |-> "ShotSnap", by |-> by, of |-> ns]
PartOf(by) == [kind |-> "part", by |-> by, of |-> {}]
OtherFile == [kind |-> "other", by |-> Drone, of |-> {}]

Idle == [pc |-> "idle", op |-> "", mission |-> 0, put |-> 0, todo |-> {}]
Ops == {"push", "transfer", "clear"}
JobSteps == {"idle", "kmz", "read", "list", "delete", "put", "snap", "done",
             "failed", "half", "lost"}
Over == {"idle", "done", "failed", "half", "lost"}

ShotInit ==
  /\ mission = 1
  /\ image = {Photo(Drone, 1), ShotSnap(Drone, {1}), OtherFile}
  /\ job = [j \in Jobs |-> Idle]
  /\ alone = [j \in Jobs |-> FALSE]
  /\ slips = 0

Doing(j, pc) == job[j].pc = pc
Continue(j, pc) == job' = [job EXCEPT ![j].pc = pc]
EndJob(j, pc) == job' = [job EXCEPT ![j] = [Idle EXCEPT !.pc = pc, !.op = job[j].op]]

-----------------------------------------------------------------------------
\* A request arrives and finds the device.
StartJob(j, op) ==
  /\ Doing(j, "idle")
  /\ job' = [job EXCEPT ![j].op = op, ![j].pc = IF op = "push" THEN "read" ELSE "kmz"]
  /\ alone' = [i \in Jobs |->
                 i = j /\ \A k \in Jobs : job[k].pc \in Over]
  /\ UNCHANGED <<mission, image, slips>>

\* A transfer or a clear replaces the mission first (SlotTransfer has its steps).
ReplaceKMZ(j) ==
  /\ Doing(j, "kmz")
  /\ IF job[j].op = "clear" THEN mission' = 0 /\ Continue(j, "list")
     ELSE mission' \in DOMAIN Missions /\ Continue(j, "read")
  /\ UNCHANGED <<image, alone, slips>>

\* PushWaypointImages reads the KMZ back and renders; a placeholder has its one
\* waypoint.
Waypoints(m) == IF m = 0 THEN 1 ELSE Missions[m]
ReadMission(j) ==
  /\ Doing(j, "read")
  /\ job' = [job EXCEPT ![j].pc = "list", ![j].mission = mission]
  /\ UNCHANGED <<mission, image, alone, slips>>

\* What goes: of a push the old photos and their index, of a clear every file.
BugKeepsSnap(j) == {f \in image : f.kind \in {"WP", "part"} \/ job[j].op = "clear"}
Stale(j) == {f \in image : f.kind \in {"WP", "ShotSnap", "part"} \/ job[j].op = "clear"}

Slip(j) ==
  /\ slips < MaxSlips /\ slips' = slips + 1
  /\ alone' = [alone EXCEPT ![j] = FALSE]
NoSlip == UNCHANGED <<slips, alone>>

ListImages(j) ==
  /\ Doing(j, "list")
  /\ \/ job' = [job EXCEPT ![j].pc = "delete", ![j].todo = Stale(j)] /\ NoSlip
     \/ Continue(j, "delete") /\ Slip(j)
  /\ UNCHANGED <<mission, image>>

\* A file another request has deleted fails to be deleted, which is no harm.
DeleteOne(j) ==
  /\ Doing(j, "delete")
  /\ \E f \in job[j].todo :
       /\ job' = [job EXCEPT ![j].todo = @ \ {f}]
       /\ \/ image' = image \ {f} /\ NoSlip
          \/ UNCHANGED image /\ Slip(j)
  /\ UNCHANGED mission

\* Of a clear nothing is put.
Emptied(j) ==
  /\ Doing(j, "delete") /\ job[j].todo = {}
  /\ IF job[j].op = "clear" THEN EndJob(j, "done") ELSE Continue(j, "put")
  /\ UNCHANGED <<mission, image, alone, slips>>

PutPhoto(j) ==
  /\ Doing(j, "put") /\ job[j].put < Waypoints(job[j].mission)
  /\ job' = [job EXCEPT ![j].put = @ + 1]
  /\ image' = image \cup {Photo(j, job[j].put + 1)}
  /\ UNCHANGED <<mission, alone, slips>>
AllPut(j) ==
  /\ Doing(j, "put") /\ job[j].put = Waypoints(job[j].mission)
  /\ Continue(j, "snap")
  /\ UNCHANGED <<mission, image, alone, slips>>

\* The index is put last.
PutShotSnap(j) ==
  /\ Doing(j, "snap") /\ EndJob(j, "done")
  /\ image' = image \cup {ShotSnap(j, 1..job[j].put)}
  /\ UNCHANGED <<mission, alone, slips>>

\* A call fails, or the mission cannot be read: the request ends with the error; of
\* a clear, only before it looks at the folder.  A put that fails may leave a part of
\* its file.
BugGoesOn(j) ==
  /\ Doing(j, "put") /\ job[j].put < Waypoints(job[j].mission)
  /\ job' = [job EXCEPT ![j].put = @ + 1]
  /\ UNCHANGED <<mission, image, alone, slips>>
JobFails(j) ==
  /\ \/ /\ job[j].pc \in {"kmz", "read"} \/ (Doing(j, "list") /\ job[j].op # "clear")
        /\ EndJob(j, "failed") /\ UNCHANGED image
     \/ /\ job[j].pc \in {"put", "snap"} /\ EndJob(j, "half")
        /\ image' \in {image, image \cup {PartOf(j)}}
  /\ UNCHANGED <<mission, alone, slips>>

\* The cable or the daemon goes.
JobLost(j) ==
  /\ job[j].pc \notin Over
  /\ EndJob(j, "lost")
  /\ UNCHANGED <<mission, image, alone, slips>>

ShotNext ==
  \E j \in Jobs :
    \/ \E op \in Ops : StartJob(j, op)
    \/ ReplaceKMZ(j) \/ ReadMission(j) \/ ListImages(j) \/ DeleteOne(j) \/ Emptied(j)
    \/ PutPhoto(j) \/ AllPut(j) \/ PutShotSnap(j) \/ JobFails(j) \/ JobLost(j)

ShotSpec == ShotInit /\ [][ShotNext]_imageVars

ShotTypeOK ==
  /\ mission \in DOMAIN Missions \cup {0} /\ slips \in 0..MaxSlips
  /\ \A f \in image : f.kind \in {"WP", "ShotSnap", "part", "other"} /\ f.by \in Jobs \cup {Drone}
  /\ \A j \in Jobs :
       /\ job[j].pc \in JobSteps /\ job[j].op \in Ops \cup {""}
       /\ job[j].mission \in DOMAIN Missions \cup {0} /\ job[j].put \in Nat
       /\ job[j].todo # {} => job[j].pc = "delete"
  /\ alone \in [Jobs -> BOOLEAN]

-----------------------------------------------------------------------------
(* Properties.                                                              *)

Snaps == {f \in image : f.kind = "ShotSnap"}
Photos == {f \in image : f.kind = "WP"}

\* A request that was the only one since it began, and whose deletions did not
\* fail, leaves the folder as it says: after a successful push one index and
\* exactly its photos, of the mission that is in the slot; after a clear nothing;
\* and after a push that failed half way no index, so none that names photos that
\* are not there (mtp_controller.go:450-487, 583-597).
FolderOfMission ==
  \A j \in Jobs : alone[j] =>
    LET n == Waypoints(mission) IN
    /\ Doing(j, "done") /\ job[j].op = "clear" => image = {}
    /\ Doing(j, "done") /\ job[j].op # "clear" =>
         Photos = {Photo(j, i) : i \in 1..n} /\ Snaps = {ShotSnap(j, 1..n)}
    /\ Doing(j, "half") => Snaps = {}

=============================================================================
