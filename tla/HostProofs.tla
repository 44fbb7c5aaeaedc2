----------------------------- MODULE HostProofs -----------------------------
(***************************************************************************)
(* Proofs about the parts of a host that have no module of proofs of their *)
(* own: the photos of a mission, for every number of requests and every    *)
(* mission; how a mission is read out of a KMZ file, for every archive of  *)
(* every document; the listing of the slots, for any slots, stores and     *)
(* number of changes; and the pictures of a mission, for any waypoints and *)
(* sizes.  At the end the parts are put together.                          *)
(***************************************************************************)
EXTENDS Host, SidecarStoreProofs, FrontPanelProofs, PreviewCacheProofs, GalleryProofs, TLAPS,
        FiniteSetTheorems, WellFoundedInduction

-----------------------------------------------------------------------------
(* ShotImages: types.                                                       *)

Files ==
  [kind : {"WP", "ShotSnap", "part", "other"}, by : Jobs \cup {Drone}, of : SUBSET Nat]
JobRecords ==
  [pc : JobSteps, op : Ops \cup {""}, mission : DOMAIN Missions \cup {0}, put : Nat,
   todo : SUBSET Files]

ShotTyped ==
  /\ mission \in DOMAIN Missions \cup {0} /\ slips \in 0..MaxSlips
  /\ image \subseteq Files /\ job \in [Jobs -> JobRecords] /\ alone \in [Jobs -> BOOLEAN]
  /\ \A j \in Jobs : /\ job[j].todo # {} => job[j].pc = "delete"
                     /\ job[j].pc = "kmz" => job[j].op \in {"transfer", "clear"}
                     /\ job[j].pc \in {"read", "put", "snap"} => job[j].op # "clear"
                     /\ job[j].pc \in {"idle", "read", "kmz", "list", "delete"} => job[j].put = 0

\* The files that the requests put, and those that are there in the beginning.
LEMMA FileTypes ==
  /\ OtherFile \in Files
  /\ \A by \in Jobs \cup {Drone} :
       PartOf(by) \in Files /\ (\A n \in Nat : Photo(by, n) \in Files)
       /\ (\A ns \in SUBSET Nat : ShotSnap(by, ns) \in Files)
BY DEF Files, OtherFile, PartOf, Photo, ShotSnap

LEMMA IdleType ==
  /\ Idle \in JobRecords /\ Idle.pc = "idle" /\ Idle.op = "" /\ Idle.put = 0 /\ Idle.todo = {}
BY DEF Idle, JobRecords, JobSteps

\* One request moves, to the record r.
JobMoves(j, r) == job' = [job EXCEPT ![j] = r]

LEMMA JobMovesEffect ==
  ASSUME ShotTyped, NEW j \in Jobs, NEW r \in JobRecords, JobMoves(j, r)
  PROVE  /\ job' \in [Jobs -> JobRecords] /\ job'[j] = r
         /\ \A k \in Jobs \ {j} : job'[k] = job[k]
BY DEF ShotTyped, JobMoves

Ended(j, pc) == [Idle EXCEPT !.pc = pc, !.op = job[j].op]

LEMMA EndedType ==
  ASSUME ShotTyped, NEW j \in Jobs, NEW pc \in JobSteps
  PROVE  /\ Ended(j, pc) \in JobRecords /\ Ended(j, pc).pc = pc /\ Ended(j, pc).op = job[j].op
         /\ Ended(j, pc).todo = {} /\ Ended(j, pc).put = 0
<1>1. job[j] \in JobRecords
  BY DEF ShotTyped
<1> QED
  BY <1>1 DEF Ended, Idle, JobRecords, JobSteps

LEMMA EndJobEffect ==
  ASSUME ShotTyped, NEW j \in Jobs, NEW pc \in JobSteps, EndJob(j, pc)
  PROVE  /\ job' \in [Jobs -> JobRecords] /\ job'[j].pc = pc /\ job'[j].op = job[j].op
         /\ job'[j].todo = {} /\ job'[j].put = 0
         /\ \A k \in Jobs \ {j} : job'[k] = job[k]
<1>1. JobMoves(j, Ended(j, pc))
  BY DEF EndJob, JobMoves, Ended
<1> QED
  BY <1>1, EndedType, JobMovesEffect

LEMMA ContinueEffect ==
  ASSUME ShotTyped, NEW j \in Jobs, NEW pc \in JobSteps, Continue(j, pc)
  PROVE  /\ job' \in [Jobs -> JobRecords] /\ job'[j].pc = pc /\ job'[j].op = job[j].op
         /\ job'[j].mission = job[j].mission /\ job'[j].put = job[j].put
         /\ job'[j].todo = job[j].todo
         /\ \A k \in Jobs \ {j} : job'[k] = job[k]
<1> DEFINE r == [job[j] EXCEPT !.pc = pc]
<1>1. job[j] \in JobRecords
  BY DEF ShotTyped
<1>2. r \in JobRecords /\ r.pc = pc /\ r.op = job[j].op /\ r.mission = job[j].mission
      /\ r.put = job[j].put /\ r.todo = job[j].todo
  BY <1>1 DEF JobRecords
<1>3. JobMoves(j, r)
  BY DEF Continue, JobMoves
<1> HIDE DEF r
<1> QED
  BY <1>2, <1>3, JobMovesEffect

-----------------------------------------------------------------------------
(* ShotImages: the folder of a request that runs alone.                     *)

RunsAlone(j) == \A k \in Jobs \ {j} : job[k].pc \in Over
OfMission(j) == job[j].mission = mission
PhotosOf(j, n) == Photos = {Photo(j, i) : i \in 1..n}

\* What the folder is at each step of a request that runs alone: once it has listed
\* the folder it knows every file that must go, and while it puts its photos there
\* are no others and no index.
FolderAt(j) ==
  /\ job[j].pc = "list" /\ job[j].op # "clear" => OfMission(j)
  /\ job[j].pc = "delete" => Stale(j) \subseteq job[j].todo /\ (job[j].op # "clear" => OfMission(j))
  /\ job[j].pc \in {"put", "snap"} => OfMission(j) /\ PhotosOf(j, job[j].put) /\ Snaps = {}
  /\ job[j].pc = "snap" => job[j].put = Waypoints(mission)
  /\ job[j].pc = "half" => Snaps = {}
  /\ job[j].pc = "done" =>
       IF job[j].op = "clear" THEN image = {}
       ELSE PhotosOf(j, Waypoints(mission)) /\ Snaps = {ShotSnap(j, 1..Waypoints(mission))}

FolderInv == \A j \in Jobs : alone[j] => RunsAlone(j) /\ FolderAt(j)

\* Of a request that moves, no other runs alone; so it is enough to follow itself.
LEMMA ActorOnly ==
  ASSUME FolderInv, NEW j \in Jobs, job[j].pc \notin Over,
         \A k \in Jobs \ {j} : job'[k] = job[k], \A k \in Jobs : alone'[k] => alone[k],
         alone'[j] => FolderAt(j)'
  PROVE  FolderInv'
<1>1. \A k \in Jobs \ {j} : ~alone[k]
  BY DEF FolderInv, RunsAlone
<1>2. alone'[j] => RunsAlone(j)'
  BY DEF FolderInv, RunsAlone
<1> QED
  BY <1>1, <1>2 DEF FolderInv

ShotInv == ShotTyped /\ FolderInv

LEMMA SlipEffect ==
  ASSUME ShotTyped, NEW j \in Jobs, Slip(j) \/ NoSlip
  PROVE  /\ slips' \in 0..MaxSlips /\ alone' \in [Jobs -> BOOLEAN]
         /\ \A k \in Jobs : alone'[k] => alone[k]
         /\ Slip(j) => ~alone'[j]
<1>1. slips \in 0..MaxSlips /\ alone \in [Jobs -> BOOLEAN]
  BY DEF ShotTyped
<1>2. CASE NoSlip
  BY <1>1, <1>2 DEF NoSlip, Slip
<1>3. CASE Slip(j)
  <2>1. slips' \in 0..MaxSlips
    BY <1>1, <1>3, ShotAssumption DEF Slip
  <2>2. alone' = [alone EXCEPT ![j] = FALSE]
    BY <1>3 DEF Slip
  <2> QED
    BY <1>1, <2>1, <2>2
<1> QED
  BY <1>2, <1>3

LEMMA StartJobInv ==
  ASSUME ShotInv, NEW j \in Jobs, NEW op \in Ops, StartJob(j, op)
  PROVE  ShotInv'
<1> DEFINE r == [job[j] EXCEPT !.op = op, !.pc = IF op = "push" THEN "read" ELSE "kmz"]
<1>1. job[j] \in JobRecords /\ job[j].pc = "idle" /\ job[j].todo = {}
      /\ UNCHANGED <<mission, image, slips>>
  BY DEF ShotInv, ShotTyped, StartJob, Doing
<1>2. r \in JobRecords /\ r.pc \in {"read", "kmz"} /\ r.op = op /\ (r.pc = "kmz" => op # "push")
      /\ (r.pc = "read" => op = "push") /\ r.todo = {} /\ r.put = job[j].put
  BY <1>1 DEF JobRecords, JobSteps, Ops
<1>3. JobMoves(j, r)
  BY DEF StartJob, JobMoves
<1>4. /\ \A i \in Jobs : alone'[i] => i = j /\ \A k \in Jobs : job[k].pc \in Over
      /\ alone' \in [Jobs -> BOOLEAN]
  BY DEF StartJob
<1> HIDE DEF r
<1>5. /\ job' \in [Jobs -> JobRecords] /\ job'[j] = r
      /\ \A k \in Jobs \ {j} : job'[k] = job[k]
  BY <1>2, <1>3, JobMovesEffect DEF ShotInv
<1>6. ShotTyped'
  BY <1>1, <1>2, <1>4, <1>5 DEF ShotInv, ShotTyped, Ops
<1>7. FolderInv'
  BY <1>2, <1>4, <1>5 DEF FolderInv, RunsAlone, FolderAt
<1> QED
  BY <1>6, <1>7 DEF ShotInv

LEMMA ReplaceKMZInv ==
  ASSUME ShotInv, NEW j \in Jobs, ReplaceKMZ(j)
  PROVE  ShotInv'
<1>1. job[j].pc = "kmz" /\ job[j].op \in {"transfer", "clear"} /\ job[j].put = 0 /\ job[j].todo = {}
  BY DEF ReplaceKMZ, Doing, ShotInv, ShotTyped
<1>2. /\ mission' \in DOMAIN Missions \cup {0} /\ UNCHANGED <<image, alone, slips>>
      /\ \/ job[j].op = "clear" /\ Continue(j, "list")
         \/ job[j].op # "clear" /\ Continue(j, "read")
  BY DEF ReplaceKMZ
<1>3. /\ job' \in [Jobs -> JobRecords] /\ job'[j].op = job[j].op /\ job'[j].put = 0 /\ job'[j].todo = {}
      /\ \/ job[j].op = "clear" /\ job'[j].pc = "list"
         \/ job[j].op # "clear" /\ job'[j].pc = "read"
      /\ \A k \in Jobs \ {j} : job'[k] = job[k]
  BY <1>1, <1>2, ContinueEffect DEF ShotInv, JobSteps
<1>4. ShotTyped'
  BY <1>1, <1>2, <1>3 DEF ShotInv, ShotTyped
<1>5. FolderAt(j)'
  BY <1>3 DEF FolderAt
<1> QED
  BY <1>1, <1>2, <1>3, <1>4, <1>5, ActorOnly DEF ShotInv, Over

LEMMA ReadMissionInv ==
  ASSUME ShotInv, NEW j \in Jobs, ReadMission(j)
  PROVE  ShotInv'
<1> DEFINE r == [job[j] EXCEPT !.pc = "list", !.mission = mission]
<1>1. job[j] \in JobRecords /\ job[j].pc = "read" /\ job[j].put = 0 /\ job[j].todo = {}
      /\ UNCHANGED <<mission, image, alone, slips>>
  BY DEF ReadMission, Doing, ShotInv, ShotTyped
<1>2. r \in JobRecords /\ r.pc = "list" /\ r.op = job[j].op /\ r.put = 0 /\ r.todo = {}
      /\ r.mission = mission
  BY <1>1 DEF JobRecords, JobSteps, ShotInv, ShotTyped
<1>3. JobMoves(j, r)
  BY DEF ReadMission, JobMoves
<1> HIDE DEF r
<1>4. /\ job' \in [Jobs -> JobRecords] /\ job'[j] = r
      /\ \A k \in Jobs \ {j} : job'[k] = job[k]
  BY <1>2, <1>3, JobMovesEffect DEF ShotInv
<1>5. ShotTyped'
  BY <1>1, <1>2, <1>4 DEF ShotInv, ShotTyped
<1>6. FolderAt(j)'
  BY <1>1, <1>2, <1>4 DEF FolderAt, OfMission
<1> QED
  BY <1>1, <1>4, <1>5, <1>6, ActorOnly DEF ShotInv, Over

LEMMA ListImagesInv ==
  ASSUME ShotInv, NEW j \in Jobs, ListImages(j)
  PROVE  ShotInv'
<1>1. job[j] \in JobRecords /\ job[j].pc = "list" /\ job[j].put = 0 /\ job[j].todo = {}
      /\ UNCHANGED <<mission, image>> /\ image \subseteq Files
  BY DEF ListImages, Doing, ShotInv, ShotTyped
<1>2. (Slip(j) \/ NoSlip)
      /\ \/ job' = [job EXCEPT ![j].pc = "delete", ![j].todo = Stale(j)]
         \/ Continue(j, "delete") /\ Slip(j)
  BY DEF ListImages
<1>3. /\ slips' \in 0..MaxSlips /\ alone' \in [Jobs -> BOOLEAN]
      /\ \A k \in Jobs : alone'[k] => alone[k]
      /\ Slip(j) => ~alone'[j]
  BY <1>2, SlipEffect DEF ShotInv
<1>4. /\ job' \in [Jobs -> JobRecords] /\ job'[j].pc = "delete" /\ job'[j].op = job[j].op
      /\ job'[j].mission = job[j].mission /\ job'[j].put = 0
      /\ job'[j].todo = Stale(j) \/ Slip(j)
      /\ \A k \in Jobs \ {j} : job'[k] = job[k]
  <2>1. CASE job' = [job EXCEPT ![j].pc = "delete", ![j].todo = Stale(j)]
    <3> DEFINE r == [job[j] EXCEPT !.pc = "delete", !.todo = Stale(j)]
    <3>1. Stale(j) \in SUBSET Files
      BY <1>1 DEF Stale
    <3>2. r \in JobRecords /\ r.pc = "delete" /\ r.op = job[j].op /\ r.put = 0 /\ r.todo = Stale(j)
          /\ r.mission = job[j].mission
      BY <1>1, <3>1 DEF JobRecords, JobSteps
    <3>3. JobMoves(j, r)
      BY <2>1 DEF JobMoves
    <3> HIDE DEF r
    <3> QED
      BY <3>2, <3>3, JobMovesEffect DEF ShotInv
  <2>2. CASE Continue(j, "delete") /\ Slip(j)
    BY <1>1, <2>2, ContinueEffect DEF ShotInv, JobSteps
  <2> QED
    BY <1>2, <2>1, <2>2
<1>5. ShotTyped'
  BY <1>1, <1>3, <1>4 DEF ShotInv, ShotTyped
<1>6. alone'[j] => FolderAt(j)'
  <2> SUFFICES ASSUME alone'[j] PROVE FolderAt(j)'
    OBVIOUS
  <2>1. job[j].op # "clear" => OfMission(j)
    BY <1>1, <1>3 DEF ShotInv, FolderInv, FolderAt
  <2>2. Stale(j)' = Stale(j) /\ job'[j].todo = Stale(j)
    BY <1>1, <1>3, <1>4 DEF Stale
  <2> QED
    BY <1>1, <1>4, <2>1, <2>2 DEF FolderAt, OfMission
<1> QED
  BY <1>1, <1>3, <1>4, <1>5, <1>6, ActorOnly DEF ShotInv, Over

LEMMA DeleteOneInv ==
  ASSUME ShotInv, NEW j \in Jobs, DeleteOne(j)
  PROVE  ShotInv'
<1>1. job[j] \in JobRecords /\ job[j].pc = "delete" /\ job[j].put = 0 /\ image \subseteq Files
      /\ UNCHANGED mission
  BY DEF DeleteOne, Doing, ShotInv, ShotTyped
<1>2. PICK f \in job[j].todo :
        /\ job' = [job EXCEPT ![j].todo = @ \ {f}]
        /\ \/ image' = image \ {f} /\ NoSlip
           \/ UNCHANGED image /\ Slip(j)
  BY DEF DeleteOne
<1>3. /\ slips' \in 0..MaxSlips /\ alone' \in [Jobs -> BOOLEAN]
      /\ \A k \in Jobs : alone'[k] => alone[k]
      /\ Slip(j) => ~alone'[j]
  BY <1>2, SlipEffect DEF ShotInv
<1> DEFINE r == [job[j] EXCEPT !.todo = @ \ {f}]
<1>4. r \in JobRecords /\ r.pc = "delete" /\ r.op = job[j].op /\ r.put = 0
      /\ r.mission = job[j].mission /\ r.todo = job[j].todo \ {f}
  BY <1>1 DEF JobRecords
<1>5. JobMoves(j, r)
  BY <1>2 DEF JobMoves
<1> HIDE DEF r
<1>6. /\ job' \in [Jobs -> JobRecords] /\ job'[j] = r
      /\ \A k \in Jobs \ {j} : job'[k] = job[k]
  BY <1>4, <1>5, JobMovesEffect DEF ShotInv
<1>7. ShotTyped'
  BY <1>1, <1>2, <1>3, <1>4, <1>6 DEF ShotInv, ShotTyped
<1>8. alone'[j] => FolderAt(j)'
  <2> SUFFICES ASSUME alone'[j] PROVE FolderAt(j)'
    OBVIOUS
  <2>1. Stale(j) \subseteq job[j].todo /\ (job[j].op # "clear" => OfMission(j))
    BY <1>1, <1>3 DEF ShotInv, FolderInv, FolderAt
  <2>2. image' = image \ {f}
    BY <1>2, <1>3
  <2>3. Stale(j)' \subseteq r.todo
    BY <1>4, <1>6, <2>1, <2>2 DEF Stale
  <2> QED
    BY <1>1, <1>4, <1>6, <2>1, <2>3 DEF FolderAt, OfMission
<1> QED
  BY <1>1, <1>3, <1>6, <1>7, <1>8, ActorOnly DEF ShotInv, Over

LEMMA EmptiedInv ==
  ASSUME ShotInv, NEW j \in Jobs, Emptied(j)
  PROVE  ShotInv'
<1>1. job[j].pc = "delete" /\ job[j].todo = {} /\ job[j].put = 0
      /\ UNCHANGED <<mission, image, alone, slips>> /\ image \subseteq Files
  BY DEF Emptied, Doing, ShotInv, ShotTyped
<1>2. CASE job[j].op = "clear"
  <2>1. EndJob(j, "done")
    BY <1>2 DEF Emptied
  <2>2. /\ job' \in [Jobs -> JobRecords] /\ job'[j].pc = "done" /\ job'[j].op = "clear"
        /\ job'[j].todo = {} /\ \A k \in Jobs \ {j} : job'[k] = job[k]
    BY <1>2, <2>1, EndJobEffect DEF ShotInv, JobSteps
  <2>3. ShotTyped'
    BY <1>1, <2>2 DEF ShotInv, ShotTyped
  <2>4. alone[j] => image = {}
    BY <1>1, <1>2 DEF ShotInv, FolderInv, FolderAt, Stale
  <2>5. alone'[j] => FolderAt(j)'
    BY <1>1, <2>2, <2>4 DEF FolderAt
  <2> QED
    BY <1>1, <2>2, <2>3, <2>5, ActorOnly DEF ShotInv, Over
<1>3. CASE job[j].op # "clear"
  <2>1. Continue(j, "put")
    BY <1>3 DEF Emptied
  <2>2. /\ job' \in [Jobs -> JobRecords] /\ job'[j].pc = "put" /\ job'[j].op = job[j].op
        /\ job'[j].mission = job[j].mission /\ job'[j].put = 0 /\ job'[j].todo = {}
        /\ \A k \in Jobs \ {j} : job'[k] = job[k]
    BY <1>1, <2>1, ContinueEffect DEF ShotInv, JobSteps
  <2>3. ShotTyped'
    BY <1>1, <1>3, <2>2 DEF ShotInv, ShotTyped
  <2>4. alone[j] => OfMission(j) /\ Photos = {} /\ Snaps = {}
    BY <1>1, <1>3 DEF ShotInv, FolderInv, FolderAt, Stale, Photos, Snaps
  <2>5. alone'[j] => FolderAt(j)'
    <3>1. 1..0 = {}
      OBVIOUS
    <3>2. Photos' = Photos /\ Snaps' = Snaps
      BY <1>1 DEF Photos, Snaps
    <3> QED
      BY <1>1, <2>2, <2>4, <3>1, <3>2 DEF FolderAt, OfMission, PhotosOf
  <2> QED
    BY <1>1, <2>2, <2>3, <2>5, ActorOnly DEF ShotInv, Over
<1> QED
  BY <1>2, <1>3

\* A photo more, and an index.
LEMMA OnePhotoMore ==
  ASSUME NEW j, NEW n \in Nat, PhotosOf(j, n), image' = image \cup {Photo(j, n + 1)}
  PROVE  Photos' = {Photo(j, i) : i \in 1..n + 1} /\ Snaps' = Snaps
<1>1. Photo(j, n + 1).kind = "WP"
  BY DEF Photo
<1>2. Photos' = Photos \cup {Photo(j, n + 1)} /\ Snaps' = Snaps
  BY <1>1 DEF Photos, Snaps
<1>3. 1..n + 1 = (1..n) \cup {n + 1}
  OBVIOUS
<1> HIDE DEF Photo
<1> QED
  BY <1>2, <1>3 DEF PhotosOf

LEMMA PutPhotoInv ==
  ASSUME ShotInv, NEW j \in Jobs, PutPhoto(j)
  PROVE  ShotInv'
<1> DEFINE n == job[j].put
<1> DEFINE r == [job[j] EXCEPT !.put = @ + 1]
<1>1. job[j] \in JobRecords /\ job[j].pc = "put" /\ job[j].op # "clear" /\ job[j].todo = {}
      /\ UNCHANGED <<mission, alone, slips>> /\ image' = image \cup {Photo(j, n + 1)}
  BY DEF PutPhoto, Doing, ShotInv, ShotTyped
<1>2. n \in Nat /\ r \in JobRecords /\ r.pc = "put" /\ r.op = job[j].op /\ r.put = n + 1
      /\ r.mission = job[j].mission /\ r.todo = {}
  <2>0. job[j].put \in Nat
    BY <1>1 DEF JobRecords
  <2>1. n \in Nat /\ n + 1 \in Nat
    BY <2>0
  <2>2. r = [job[j] EXCEPT !.put = n + 1]
    OBVIOUS
  <2> HIDE DEF r, n
  <2> QED
    BY <1>1, <2>1, <2>2 DEF JobRecords
<1>3. JobMoves(j, r)
  BY DEF PutPhoto, JobMoves
<1> HIDE DEF r, n
<1>4. /\ job' \in [Jobs -> JobRecords] /\ job'[j] = r
      /\ \A k \in Jobs \ {j} : job'[k] = job[k]
  BY <1>2, <1>3, JobMovesEffect DEF ShotInv
<1>5. image' \subseteq Files
  <2>1. n + 1 \in Nat
    BY <1>2
  <2>2. Photo(j, n + 1) \in Files
    BY <2>1, FileTypes
  <2> QED
    BY <1>1, <2>2 DEF ShotInv, ShotTyped
<1>6. ShotTyped'
  BY <1>1, <1>2, <1>4, <1>5 DEF ShotInv, ShotTyped
<1>7. alone'[j] => FolderAt(j)'
  <2> SUFFICES ASSUME alone[j] PROVE FolderAt(j)'
    BY <1>1
  <2>1. OfMission(j) /\ PhotosOf(j, n) /\ Snaps = {}
    BY <1>1 DEF ShotInv, FolderInv, FolderAt, n
  <2>2. Photos' = {Photo(j, i) : i \in 1..n + 1} /\ Snaps' = {}
    BY <1>1, <1>2, <2>1, OnePhotoMore
  <2> QED
    BY <1>1, <1>2, <1>4, <2>1, <2>2 DEF FolderAt, OfMission, PhotosOf
<1> QED
  BY <1>1, <1>4, <1>6, <1>7, ActorOnly DEF ShotInv, Over

LEMMA AllPutInv ==
  ASSUME ShotInv, NEW j \in Jobs, AllPut(j)
  PROVE  ShotInv'
<1>1. job[j].pc = "put" /\ job[j].op # "clear" /\ job[j].todo = {}
      /\ job[j].put = Waypoints(job[j].mission)
      /\ UNCHANGED <<mission, image, alone, slips>> /\ Continue(j, "snap")
  BY DEF AllPut, Doing, ShotInv, ShotTyped
<1>2. /\ job' \in [Jobs -> JobRecords] /\ job'[j].pc = "snap" /\ job'[j].op = job[j].op
      /\ job'[j].mission = job[j].mission /\ job'[j].put = job[j].put /\ job'[j].todo = {}
      /\ \A k \in Jobs \ {j} : job'[k] = job[k]
  BY <1>1, ContinueEffect DEF ShotInv, JobSteps
<1>3. ShotTyped'
  BY <1>1, <1>2 DEF ShotInv, ShotTyped
<1>4. alone'[j] => FolderAt(j)'
  <2> SUFFICES ASSUME alone[j] PROVE FolderAt(j)'
    BY <1>1
  <2>1. OfMission(j) /\ PhotosOf(j, job[j].put) /\ Snaps = {}
    BY <1>1 DEF ShotInv, FolderInv, FolderAt
  <2>2. Photos' = Photos /\ Snaps' = Snaps /\ Waypoints(mission)' = Waypoints(mission)
    BY <1>1 DEF Photos, Snaps, Waypoints
  <2> QED
    BY <1>1, <1>2, <2>1, <2>2 DEF FolderAt, OfMission, PhotosOf
<1> QED
  BY <1>1, <1>2, <1>3, <1>4, ActorOnly DEF ShotInv, Over

LEMMA PutShotSnapInv ==
  ASSUME ShotInv, NEW j \in Jobs, PutShotSnap(j)
  PROVE  ShotInv'
<1> DEFINE listing == ShotSnap(j, 1..job[j].put)
<1>1. job[j].pc = "snap" /\ job[j].op # "clear" /\ job[j] \in JobRecords
      /\ UNCHANGED <<mission, alone, slips>> /\ EndJob(j, "done") /\ image' = image \cup {listing}
  BY DEF PutShotSnap, Doing, ShotInv, ShotTyped
<1>2. /\ job' \in [Jobs -> JobRecords] /\ job'[j].pc = "done" /\ job'[j].op = job[j].op
      /\ job'[j].todo = {} /\ \A k \in Jobs \ {j} : job'[k] = job[k]
  BY <1>1, EndJobEffect DEF ShotInv, JobSteps
<1>3. listing \in Files /\ listing.kind = "ShotSnap"
  <2>0. job[j].put \in Nat
    BY <1>1 DEF JobRecords
  <2>1. 1..job[j].put \in SUBSET Nat
    BY <2>0
  <2> QED
    BY <2>1, FileTypes DEF ShotSnap
<1>4. ShotTyped'
  BY <1>1, <1>2, <1>3 DEF ShotInv, ShotTyped
<1>5. alone'[j] => FolderAt(j)'
  <2> SUFFICES ASSUME alone[j] PROVE FolderAt(j)'
    BY <1>1
  <2>1. /\ OfMission(j) /\ PhotosOf(j, job[j].put) /\ Snaps = {}
        /\ job[j].put = Waypoints(mission)
    BY <1>1 DEF ShotInv, FolderInv, FolderAt
  <2>2. Photos' = Photos /\ Snaps' = {listing} /\ Waypoints(mission)' = Waypoints(mission)
    BY <1>1, <1>3, <2>1 DEF Photos, Snaps, Waypoints
  <2> QED
    BY <1>1, <1>2, <2>1, <2>2 DEF FolderAt, PhotosOf
<1> QED
  BY <1>1, <1>2, <1>4, <1>5, ActorOnly DEF ShotInv, Over

LEMMA JobFailsInv ==
  ASSUME ShotInv, NEW j \in Jobs, JobFails(j)
  PROVE  ShotInv'
<1>1. UNCHANGED <<mission, alone, slips>>
  BY DEF JobFails
<1>2. ASSUME job[j].pc \in {"kmz", "read", "list"}, EndJob(j, "failed"), UNCHANGED image
      PROVE  ShotInv'
  <2>1. /\ job' \in [Jobs -> JobRecords] /\ job'[j].pc = "failed" /\ job'[j].todo = {}
        /\ \A k \in Jobs \ {j} : job'[k] = job[k]
    BY <1>2, EndJobEffect DEF ShotInv, JobSteps
  <2>2. ShotTyped'
    BY <1>1, <1>2, <2>1 DEF ShotInv, ShotTyped
  <2>3. FolderAt(j)'
    BY <2>1 DEF FolderAt
  <2> QED
    BY <1>1, <1>2, <2>1, <2>2, <2>3, ActorOnly DEF ShotInv, Over
<1>3. ASSUME job[j].pc \in {"put", "snap"}, EndJob(j, "half"),
             image' \in {image, image \cup {PartOf(j)}}
      PROVE  ShotInv'
  <2>1. /\ job' \in [Jobs -> JobRecords] /\ job'[j].pc = "half" /\ job'[j].todo = {}
        /\ \A k \in Jobs \ {j} : job'[k] = job[k]
    BY <1>3, EndJobEffect DEF ShotInv, JobSteps
  <2>2. PartOf(j) \in Files /\ PartOf(j).kind = "part"
    BY FileTypes DEF PartOf
  <2>3. ShotTyped'
    BY <1>1, <1>3, <2>1, <2>2 DEF ShotInv, ShotTyped
  <2>4. alone'[j] => FolderAt(j)'
    <3> SUFFICES ASSUME alone[j] PROVE FolderAt(j)'
      BY <1>1
    <3>1. Snaps = {}
      BY <1>3 DEF ShotInv, FolderInv, FolderAt
    <3>2. Snaps' = {}
      BY <1>3, <2>2, <3>1 DEF Snaps
    <3> QED
      BY <2>1, <3>2 DEF FolderAt
  <2> QED
    BY <1>1, <1>3, <2>1, <2>3, <2>4, ActorOnly DEF ShotInv, Over
<1> QED
  BY <1>2, <1>3 DEF JobFails, Doing

LEMMA JobLostInv ==
  ASSUME ShotInv, NEW j \in Jobs, JobLost(j)
  PROVE  ShotInv'
<1>1. job[j].pc \notin Over /\ EndJob(j, "lost") /\ UNCHANGED <<mission, image, alone, slips>>
  BY DEF JobLost
<1>2. /\ job' \in [Jobs -> JobRecords] /\ job'[j].pc = "lost" /\ job'[j].todo = {}
      /\ \A k \in Jobs \ {j} : job'[k] = job[k]
  BY <1>1, EndJobEffect DEF ShotInv, JobSteps
<1>3. ShotTyped'
  BY <1>1, <1>2 DEF ShotInv, ShotTyped
<1>4. FolderAt(j)'
  BY <1>2 DEF FolderAt
<1> QED
  BY <1>1, <1>2, <1>3, <1>4, ActorOnly DEF ShotInv

LEMMA ShotInvInit == ShotInit => ShotInv
<1> SUFFICES ASSUME ShotInit PROVE ShotInv
  OBVIOUS
<1>1. image \subseteq Files
  BY FileTypes DEF ShotInit
<1>2. job \in [Jobs -> JobRecords] /\ \A j \in Jobs : job[j] = Idle
  BY IdleType DEF ShotInit
<1>3. mission = 1 /\ slips = 0 /\ alone = [j \in Jobs |-> FALSE]
  BY DEF ShotInit
<1>4. mission \in DOMAIN Missions \cup {0} /\ slips \in 0..MaxSlips
  BY <1>3, ShotAssumption
<1>5. ShotTyped
  BY <1>1, <1>2, <1>3, <1>4, IdleType DEF ShotTyped
<1>6. FolderInv
  BY <1>3 DEF FolderInv
<1> QED
  BY <1>5, <1>6 DEF ShotInv

LEMMA ShotInvStep == ShotInv /\ [ShotNext]_imageVars => ShotInv'
<1>1. ASSUME ShotInv, UNCHANGED imageVars PROVE ShotInv'
  BY <1>1 DEF ShotInv, imageVars, ShotTyped, FolderInv, RunsAlone, FolderAt, OfMission, PhotosOf,
              Photos, Snaps, Stale, Waypoints
<1>2. ASSUME ShotInv, ShotNext PROVE ShotInv'
  BY <1>2, StartJobInv, ReplaceKMZInv, ReadMissionInv, ListImagesInv, DeleteOneInv, EmptiedInv,
     PutPhotoInv, AllPutInv, PutShotSnapInv, JobFailsInv, JobLostInv DEF ShotNext
<1> QED
  BY <1>1, <1>2

\* The variables have their types.
THEOREM ShotTypes == ShotSpec => []ShotTypeOK
<1>1. ShotInv => ShotTypeOK
  BY DEF ShotInv, ShotTyped, ShotTypeOK, JobRecords, Files
<1> QED
  BY <1>1, ShotInvInit, ShotInvStep, PTL DEF ShotSpec

\* A request about the photos of a slot that was the only one while it ran, and
\* whose deletions did not fail, leaves in the folder what it answers: the index and
\* the photos of the mission, nothing, or no index (WriteWaypointImages, ClearSlot).
THEOREM FolderTrue == ShotSpec => []FolderOfMission
<1>1. ShotInv => FolderOfMission
  BY DEF ShotInv, FolderInv, FolderAt, FolderOfMission, PhotosOf, Doing
<1> QED
  BY <1>1, ShotInvInit, ShotInvStep, PTL DEF ShotSpec

-----------------------------------------------------------------------------
(* KmzMission: what has been read of one document.                          *)

Waypoint == [at : Nat, actions : Seq(Nat)]

\* The waypoints ws are those of the first n tokens, in their order; every action is
\* with the last waypoint before it, and none is left out but those before the first.
LastBefore(tokens, l, a) == l < a /\ \A k \in l + 1..a : ~Located(tokens[k])
ReadSoFar(tokens, n, ws) ==
  /\ ws \in Seq(Waypoint)
  /\ {ws[i].at : i \in DOMAIN ws} = {k \in 1..n : Located(tokens[k])}
  /\ \A i, j \in DOMAIN ws : i < j => ws[i].at < ws[j].at
  /\ \A i \in DOMAIN ws : \A a \in ToSet(ws[i].actions) :
       a \in 1..n /\ Acting(tokens[a]) /\ LastBefore(tokens, ws[i].at, a)
  /\ \A k \in 1..n : Acting(tokens[k]) /\ (\E l \in 1..k : Located(tokens[l])) =>
       \E i \in DOMAIN ws : k \in ToSet(ws[i].actions)

LEMMA NothingRead == \A tokens : ReadSoFar(tokens, 0, <<>>)
<1>1. 1..0 = {} /\ <<>> \in Seq(Waypoint) /\ DOMAIN <<>> = {}
  OBVIOUS
<1> QED
  BY <1>1 DEF ReadSoFar

LEMMA ToSetEmpty == ToSet(<<>>) = {}
BY DEF ToSet

LEMMA ToSetAppend ==
  ASSUME NEW S, NEW s \in Seq(S), NEW e \in S
  PROVE  ToSet(Append(s, e)) = ToSet(s) \cup {e}
<1>1. Append(s, e) \in Seq(S) /\ Len(Append(s, e)) = Len(s) + 1 /\ Len(s) \in Nat
  OBVIOUS
<1>2. DOMAIN Append(s, e) = 1..Len(s) + 1 /\ DOMAIN s = 1..Len(s)
  BY <1>1
<1>3. Append(s, e)[Len(s) + 1] = e /\ \A i \in 1..Len(s) : Append(s, e)[i] = s[i]
  OBVIOUS
<1>4. 1..Len(s) + 1 = (1..Len(s)) \cup {Len(s) + 1}
  BY <1>1
<1> QED
  BY <1>2, <1>3, <1>4 DEF ToSet

\* A token that is neither a waypoint nor an action changes nothing.
LEMMA TokenSkipped ==
  ASSUME NEW tokens, NEW n \in Nat, NEW ws, ReadSoFar(tokens, n, ws), ~Located(tokens[n + 1]),
         Acting(tokens[n + 1]) => ws = <<>>
  PROVE  ReadSoFar(tokens, n + 1, ws)
<1>1. 1..n + 1 = (1..n) \cup {n + 1}
  OBVIOUS
<1>2. {k \in 1..n + 1 : Located(tokens[k])} = {k \in 1..n : Located(tokens[k])}
  BY <1>1
<1>3. ASSUME Acting(tokens[n + 1]), NEW l \in 1..n + 1, Located(tokens[l]) PROVE FALSE
  <2>1. l \in {k \in 1..n : Located(tokens[k])}
    BY <1>2, <1>3
  <2>2. DOMAIN ws = {}
    BY <1>3
  <2> QED
    BY <2>1, <2>2 DEF ReadSoFar
<1>4. \A k \in 1..n + 1 : Acting(tokens[k]) /\ (\E l \in 1..k : Located(tokens[l])) =>
        \E i \in DOMAIN ws : k \in ToSet(ws[i].actions)
  BY <1>1, <1>3 DEF ReadSoFar
<1>5. \A i \in DOMAIN ws : \A a \in ToSet(ws[i].actions) :
        a \in 1..n + 1 /\ Acting(tokens[a]) /\ LastBefore(tokens, ws[i].at, a)
  BY <1>1 DEF ReadSoFar
<1> QED
  BY <1>2, <1>4, <1>5 DEF ReadSoFar

\* A waypoint comes after those before it.
LEMMA WaypointRead ==
  ASSUME NEW tokens, NEW n \in Nat, NEW ws, ReadSoFar(tokens, n, ws), Located(tokens[n + 1])
  PROVE  ReadSoFar(tokens, n + 1, Append(ws, [at |-> n + 1, actions |-> <<>>]))
<1> DEFINE w == [at |-> n + 1, actions |-> <<>>]
<1> DEFINE more == Append(ws, w)
<1>1. w \in Waypoint /\ w.at = n + 1 /\ ToSet(w.actions) = {}
  BY ToSetEmpty DEF Waypoint
<1>2. ws \in Seq(Waypoint) /\ Len(ws) \in Nat /\ DOMAIN ws = 1..Len(ws)
  BY DEF ReadSoFar
<1> HIDE DEF w
<1>3. /\ more \in Seq(Waypoint) /\ DOMAIN more = (DOMAIN ws) \cup {Len(ws) + 1}
      /\ more[Len(ws) + 1] = w /\ \A i \in DOMAIN ws : more[i] = ws[i]
  <2>1. Len(more) = Len(ws) + 1 /\ more \in Seq(Waypoint)
    BY <1>1, <1>2
  <2>2. DOMAIN more = 1..Len(ws) + 1 /\ 1..Len(ws) + 1 = (1..Len(ws)) \cup {Len(ws) + 1}
    BY <1>2, <2>1
  <2>3. more[Len(ws) + 1] = w /\ \A i \in 1..Len(ws) : more[i] = ws[i]
    BY <1>1, <1>2
  <2> QED
    BY <1>2, <2>1, <2>2, <2>3
<1>4. 1..n + 1 = (1..n) \cup {n + 1}
  OBVIOUS
<1>5. ~Acting(tokens[n + 1])
  BY DEF Located, Acting
<1> HIDE DEF more
<1>6. {more[i].at : i \in DOMAIN more} = {k \in 1..n + 1 : Located(tokens[k])}
  <2>1. {more[i].at : i \in DOMAIN more} = {ws[i].at : i \in DOMAIN ws} \cup {n + 1}
    BY <1>1, <1>3
  <2>2. {k \in 1..n + 1 : Located(tokens[k])} = {k \in 1..n : Located(tokens[k])} \cup {n + 1}
    BY <1>4
  <2> QED
    BY <2>1, <2>2 DEF ReadSoFar
<1>7. \A i, j \in DOMAIN more : i < j => more[i].at < more[j].at
  <2>1. \A i \in DOMAIN ws : ws[i].at \in 1..n
    BY DEF ReadSoFar
  <2>2. \A i \in DOMAIN ws : i < Len(ws) + 1 /\ ~(Len(ws) + 1 < i) /\ i \in Nat
    BY <1>2
  <2>3. \A i \in DOMAIN ws : ws[i].at < n + 1
    BY <2>1
  <2>4. \A i, j \in DOMAIN ws : i < j => ws[i].at < ws[j].at
    BY DEF ReadSoFar
  <2>5. ~(Len(ws) + 1 < Len(ws) + 1)
    BY <1>2
  <2> QED
    BY <1>1, <1>3, <2>2, <2>3, <2>4, <2>5
<1>8. \A i \in DOMAIN more : \A a \in ToSet(more[i].actions) :
        a \in 1..n + 1 /\ Acting(tokens[a]) /\ LastBefore(tokens, more[i].at, a)
  BY <1>1, <1>3, <1>4 DEF ReadSoFar
<1>9. \A k \in 1..n + 1 : Acting(tokens[k]) /\ (\E l \in 1..k : Located(tokens[l])) =>
        \E i \in DOMAIN more : k \in ToSet(more[i].actions)
  BY <1>3, <1>4, <1>5 DEF ReadSoFar
<1> QED
  BY <1>3, <1>6, <1>7, <1>8, <1>9 DEF ReadSoFar, more, w

\* The last of the waypoints is the last before the next token.
LEMMA LastWaypoint ==
  ASSUME NEW tokens, NEW n \in Nat, NEW ws, ReadSoFar(tokens, n, ws), ws # <<>>
  PROVE  /\ Len(ws) \in DOMAIN ws /\ ws[Len(ws)] \in Waypoint
         /\ \A k \in 1..n : Located(tokens[k]) => k <= ws[Len(ws)].at
         /\ ws[Len(ws)].at \in 1..n
<1>1. ws \in Seq(Waypoint) /\ Len(ws) \in Nat \ {0} /\ DOMAIN ws = 1..Len(ws)
  BY DEF ReadSoFar
<1>2. Len(ws) \in DOMAIN ws
  BY <1>1
<1>3. ws[Len(ws)] \in Waypoint /\ \A i \in DOMAIN ws : ws[i] \in Waypoint
  BY <1>1, <1>2
<1>4. \A i \in DOMAIN ws : ws[i].at \in 1..n
  BY DEF ReadSoFar
<1>5. ASSUME NEW k \in 1..n, Located(tokens[k]) PROVE k <= ws[Len(ws)].at
  <2>1. k \in {ws[i].at : i \in DOMAIN ws}
    BY <1>5 DEF ReadSoFar
  <2>2. PICK i \in DOMAIN ws : ws[i].at = k
    BY <2>1
  <2>3. i = Len(ws) \/ i < Len(ws)
    BY <1>1
  <2>4. i < Len(ws) => ws[i].at < ws[Len(ws)].at
    BY <1>2 DEF ReadSoFar
  <2>5. ws[i].at \in Nat /\ ws[Len(ws)].at \in Nat
    BY <1>2, <1>4
  <2> QED
    BY <2>2, <2>3, <2>4, <2>5
<1> QED
  BY <1>2, <1>3, <1>4, <1>5

\* An action goes to the last waypoint.
LEMMA ActionRead ==
  ASSUME NEW tokens, NEW n \in Nat, NEW ws, ReadSoFar(tokens, n, ws), Acting(tokens[n + 1]), ws # <<>>
  PROVE  ReadSoFar(tokens, n + 1, [ws EXCEPT ![Len(ws)].actions = Append(@, n + 1)])
<1> DEFINE m == Len(ws)
<1> DEFINE w == [ws[m] EXCEPT !.actions = Append(@, n + 1)]
<1> DEFINE more == [ws EXCEPT ![m] = w]
<1>r. ws \in Seq(Waypoint) /\ n + 1 \in Nat
  BY DEF ReadSoFar
<1>1. m \in DOMAIN ws /\ ws[m] \in Waypoint
      /\ ws[m].at \in 1..n /\ \A k \in 1..n : Located(tokens[k]) => k <= ws[m].at
  BY LastWaypoint
<1>2. ws[m].actions \in Seq(Nat) /\ ws[m].at \in Nat
  BY <1>1 DEF Waypoint
<1>3. w \in Waypoint /\ w.at = ws[m].at /\ w.actions = Append(ws[m].actions, n + 1)
  <2>1. Append(ws[m].actions, n + 1) \in Seq(Nat)
    BY <1>r, <1>2
  <2> QED
    BY <1>1, <2>1 DEF Waypoint
<1>4. ToSet(w.actions) = ToSet(ws[m].actions) \cup {n + 1}
  <2>1. ToSet(Append(ws[m].actions, n + 1)) = ToSet(ws[m].actions) \cup {n + 1}
    BY <1>r, <1>2, ToSetAppend
  <2> QED
    BY <1>3, <2>1
<1>5. [ws EXCEPT ![Len(ws)].actions = Append(@, n + 1)] = more
  OBVIOUS
<1> HIDE DEF w
<1>6. /\ more \in Seq(Waypoint) /\ DOMAIN more = DOMAIN ws /\ more[m] = w
      /\ \A i \in DOMAIN ws : i # m => more[i] = ws[i]
  <2>1. ws \in [1..m -> Waypoint] /\ m \in Nat
    BY <1>r
  <2>2. more \in [1..m -> Waypoint]
    BY <1>3, <2>1
  <2> QED
    BY <1>1, <2>1, <2>2
<1> HIDE DEF more, m
<1>7. \A i \in DOMAIN ws : more[i].at = ws[i].at
  BY <1>3, <1>6
<1>8. 1..n + 1 = (1..n) \cup {n + 1} /\ ~Located(tokens[n + 1])
  BY DEF Located, Acting
<1>9. {more[i].at : i \in DOMAIN more} = {k \in 1..n + 1 : Located(tokens[k])}
  <2>1. {more[i].at : i \in DOMAIN more} = {ws[i].at : i \in DOMAIN ws}
    BY <1>6, <1>7
  <2>2. {k \in 1..n + 1 : Located(tokens[k])} = {k \in 1..n : Located(tokens[k])}
    BY <1>8
  <2> QED
    BY <2>1, <2>2 DEF ReadSoFar
<1>10. \A i, j \in DOMAIN more : i < j => more[i].at < more[j].at
  BY <1>6, <1>7 DEF ReadSoFar
<1>11. LastBefore(tokens, ws[m].at, n + 1)
  <2>1. ws[m].at < n + 1
    BY <1>1
  <2>2. ASSUME NEW k \in ws[m].at + 1..n + 1 PROVE ~Located(tokens[k])
    <3>1. k \in 1..n + 1 /\ ~(k <= ws[m].at)
      BY <1>1
    <3> QED
      BY <1>1, <1>8, <3>1
  <2> QED
    BY <2>1, <2>2 DEF LastBefore
<1>12. ASSUME NEW i \in DOMAIN more, NEW a \in ToSet(more[i].actions)
       PROVE  a \in 1..n + 1 /\ Acting(tokens[a]) /\ LastBefore(tokens, more[i].at, a)
  <2>1. CASE i = m /\ a = n + 1
    BY <1>7, <1>6, <1>8, <1>11, <2>1
  <2>2. CASE ~(i = m /\ a = n + 1)
    <3>1. i \in DOMAIN ws /\ a \in ToSet(ws[i].actions)
      BY <1>4, <1>6, <2>2
    <3> QED
      BY <1>7, <1>8, <3>1 DEF ReadSoFar
  <2> QED
    BY <2>1, <2>2
<1>13. ASSUME NEW k \in 1..n + 1, Acting(tokens[k]), NEW l \in 1..k, Located(tokens[l])
       PROVE  \E i \in DOMAIN more : k \in ToSet(more[i].actions)
  <2>1. CASE k = n + 1
    BY <1>1, <1>4, <1>6, <2>1
  <2>2. CASE k \in 1..n
    <3>1. PICK i \in DOMAIN ws : k \in ToSet(ws[i].actions)
      BY <1>13, <2>2 DEF ReadSoFar
    <3> QED
      BY <1>4, <1>6, <3>1
  <2> QED
    BY <1>8, <2>1, <2>2
<1>14. \A i \in DOMAIN more : \A a \in ToSet(more[i].actions) :
         a \in 1..n + 1 /\ Acting(tokens[a]) /\ LastBefore(tokens, more[i].at, a)
  BY <1>12
<1>15. \A k \in 1..n + 1 : Acting(tokens[k]) /\ (\E l \in 1..k : Located(tokens[l])) =>
         \E i \in DOMAIN more : k \in ToSet(more[i].actions)
  BY <1>13
<1>16. ReadSoFar(tokens, n + 1, more)
  BY <1>6, <1>9, <1>10, <1>14, <1>15 DEF ReadSoFar
<1> QED
  BY <1>5, <1>16

\* Of a document as DJI Fly writes them an action is of the Placemark of its
\* waypoint: the last waypoint before it is not before the first of its Placemark, and
\* a Placemark is of one piece.
LEMMA OwnPlacemark ==
  ASSUME NEW tokens \in Seq(Tokens), OnePiece(tokens), DJIForm(tokens),
         NEW a \in DOMAIN tokens, Acting(tokens[a]), NEW l \in Nat, LastBefore(tokens, l, a)
  PROVE  /\ tokens[a].placemark = tokens[l].placemark
         /\ \E k \in 1..a : Located(tokens[k])
<1>t. tokens[a] \in Tokens /\ a \in Nat /\ DOMAIN tokens = 1..Len(tokens)
  OBVIOUS
<1>1. tokens[a].placemark # 0 /\ tokens[a].placemark \in Nat /\ tokens[a].placemark > 0
  BY <1>t DEF Acting, Tokens
<1>2. PICK j \in 1..a : tokens[j] = [tag |-> "coordinates", good |-> TRUE,
                                    placemark |-> tokens[a].placemark]
  BY <1>1 DEF DJIForm
<1>3. Located(tokens[j]) /\ tokens[j].placemark = tokens[a].placemark
  BY <1>1, <1>2 DEF Located
<1>4. j \notin l + 1..a
  BY <1>3 DEF LastBefore
<1>5. l \in j..a /\ j \in DOMAIN tokens
  BY <1>t, <1>4 DEF LastBefore
<1>6. tokens[l].placemark = tokens[j].placemark
  BY <1>1, <1>3, <1>5 DEF OnePiece
<1> QED
  BY <1>3, <1>6

\* An action of such a document comes after a waypoint.
LEMMA AfterWaypoint ==
  ASSUME NEW tokens \in Seq(Tokens), DJIForm(tokens), NEW a \in DOMAIN tokens, Acting(tokens[a])
  PROVE  \E k \in 1..a : Located(tokens[k])
<1>t. tokens[a] \in Tokens
  OBVIOUS
<1>1. tokens[a].placemark > 0 /\ tokens[a].placemark # 0
  BY <1>t DEF Acting, Tokens
<1>2. PICK j \in 1..a : tokens[j] = [tag |-> "coordinates", good |-> TRUE,
                                    placemark |-> tokens[a].placemark]
  BY <1>1 DEF DJIForm
<1> QED
  BY <1>1, <1>2 DEF Located

-----------------------------------------------------------------------------
(* KmzMission: the archive.                                                 *)

EntryAt(c) == archive[Candidates[c]]

ArchivePart ==
  /\ archive \in Archives \cup {PlaceholderKMZ}
  /\ \A c \in 1..3 : EntryAt(c) = Absent \/ Document(EntryAt(c))
\* Every entry before the one that is tried decides nothing, and of that one the
\* first tokens have been read.
PlacePart ==
  /\ trying \in 1..4 /\ position \in Nat
  /\ \A c \in 1..3 : c < trying => ~Decides(EntryAt(c))
  /\ trying = 4 => waypoints = <<>>
  /\ trying # 4 => /\ ReadSoFar(EntryAt(trying).tokens, position, waypoints)
                   /\ EntryAt(trying) # Absent => position <= Len(EntryAt(trying).tokens)
Underway == outcome = ""
WholeEntry(c) ==
  trying = c /\ trying # 4 /\ EntryAt(c) # Absent /\ position = Len(EntryAt(c).tokens)
OutcomePart ==
  /\ Underway \/ outcome \in {"mission", "none", "error"}
  /\ outcome = "none" => trying = 4
  /\ outcome = "error" => WholeEntry(trying) /\ EntryAt(trying).broken
  /\ outcome = "mission" => WholeEntry(trying) /\ ~EntryAt(trying).broken /\ waypoints # <<>>

KmzInv == ArchivePart /\ PlacePart /\ OutcomePart

LEMMA CandidateFacts ==
  /\ Len(Candidates) = 3 /\ DOMAIN Candidates = 1..3
  /\ {Candidates[i] : i \in DOMAIN Candidates} = {"template.kml", "waylines.wpml", "other.kml"}
  /\ \A c \in 1..3 : Candidates[c] \in {"template.kml", "waylines.wpml", "other.kml"}
<1>1. Len(Candidates) = 3 /\ DOMAIN Candidates = 1..3
  BY DEF Candidates
<1>2. Candidates[1] = "template.kml" /\ Candidates[2] = "waylines.wpml" /\ Candidates[3] = "other.kml"
  BY DEF Candidates
<1>3. 1..3 = {1, 2, 3}
  OBVIOUS
<1> QED
  BY <1>1, <1>2, <1>3

\* The placeholder is an archive like any other.
LEMMA PlaceholderDocuments ==
  \A c \in {"template.kml", "waylines.wpml", "other.kml"} :
    PlaceholderKMZ[c] = Absent \/ Document(PlaceholderKMZ[c])
<1> DEFINE empty == [tokens |-> <<>>, broken |-> FALSE]
<1> DEFINE single == [tokens |-> <<OneWaypoint>>, broken |-> FALSE]
<1>1. /\ PlaceholderKMZ["template.kml"] = empty
      /\ PlaceholderKMZ["waylines.wpml"] = single
      /\ PlaceholderKMZ["other.kml"] = Absent
  BY CandidateFacts DEF PlaceholderKMZ
<1>2. Document(empty)
  <2>1. <<>> \in Seq(Tokens) /\ DOMAIN <<>> = {}
    OBVIOUS
  <2> QED
    BY <2>1 DEF Document, OnePiece
<1>3. Document(single)
  <2>1. OneWaypoint \in Tokens
    BY DEF OneWaypoint, Tokens
  <2>2. <<OneWaypoint>> \in Seq(Tokens) /\ DOMAIN <<OneWaypoint>> = {1} /\ 1..1 = {1}
    BY <2>1
  <2> QED
    BY <2>2 DEF Document, OnePiece
<1> HIDE DEF empty, single
<1> QED
  BY <1>1, <1>2, <1>3

LEMMA KmzInvInit == KmzInit => KmzInv
<1> SUFFICES ASSUME KmzInit PROVE KmzInv
  OBVIOUS
<1>1. ArchivePart
  <2>1. archive \in Archives \cup {PlaceholderKMZ}
    BY DEF KmzInit
  <2>2. ASSUME NEW c \in 1..3 PROVE EntryAt(c) = Absent \/ Document(EntryAt(c))
    <3>1. Candidates[c] \in {"template.kml", "waylines.wpml", "other.kml"}
      BY CandidateFacts
    <3>2. CASE archive = PlaceholderKMZ
      BY <3>1, <3>2, PlaceholderDocuments DEF EntryAt
    <3>3. CASE archive \in Archives
      <4>1. archive[Candidates[c]] \in Documents \cup {Absent}
        BY <3>1, <3>3, CandidateFacts DEF Archives
      <4> QED
        BY <4>1, KmzAssumption DEF EntryAt
    <3> QED
      BY <2>1, <3>2, <3>3
  <2> QED
    BY <2>1, <2>2 DEF ArchivePart
<1>2. trying = 1 /\ position = 0 /\ waypoints = <<>>
  BY DEF KmzInit
<1>u. Underway
  BY DEF KmzInit, Underway
<1>3. PlacePart
  <2>1. EntryAt(1) # Absent => 0 <= Len(EntryAt(1).tokens)
    BY <1>1 DEF ArchivePart, Document
  <2>2. \A c \in 1..3 : ~(c < 1)
    OBVIOUS
  <2>3. ReadSoFar(EntryAt(1).tokens, 0, <<>>)
    BY NothingRead
  <2>4. 1 \in 1..4 /\ 1 # 4 /\ 0 \in Nat
    OBVIOUS
  <2> QED
    BY <1>2, <2>1, <2>2, <2>3, <2>4 DEF PlacePart
<1>4. OutcomePart
  BY <1>u, Zenon DEF OutcomePart, Underway
<1> QED
  BY <1>1, <1>3, <1>4 DEF KmzInv

\* What holds while an entry is read.
LEMMA WhileReading ==
  ASSUME KmzInv, Reading
  PROVE  /\ trying \in 1..3 /\ Entry = EntryAt(trying) /\ Document(Entry) /\ Underway
         /\ Entry.tokens \in Seq(Tokens) /\ Len(Entry.tokens) \in Nat
         /\ DOMAIN Entry.tokens = 1..Len(Entry.tokens)
         /\ ReadSoFar(Entry.tokens, position, waypoints) /\ position <= Len(Entry.tokens)
         /\ position \in Nat
<1>u. Underway /\ trying <= 3
  BY CandidateFacts DEF Reading, Parsing, Underway
<1>1. trying \in 1..3 /\ trying # 4 /\ Entry = EntryAt(trying) /\ Entry # Absent
  <2>1. trying \in 1..4
    BY DEF KmzInv, PlacePart
  <2>2. Entry = EntryAt(trying) /\ Entry # Absent
    BY DEF Reading, Entry, EntryAt
  <2> QED
    BY <1>u, <2>1, <2>2
<1>2. Document(Entry)
  BY <1>1 DEF KmzInv, ArchivePart
<1>3. Entry.tokens \in Seq(Tokens)
  BY <1>2 DEF Document
<1>4. ReadSoFar(Entry.tokens, position, waypoints) /\ position <= Len(Entry.tokens) /\ position \in Nat
  BY <1>1 DEF KmzInv, PlacePart
<1> QED
  BY <1>u, <1>1, <1>2, <1>3, <1>4

\* The next entry is tried when this one decides nothing.
LEMMA TryNextInv ==
  ASSUME KmzInv, trying \in 1..3, ~Decides(EntryAt(trying)), TryNext, UNCHANGED <<archive, outcome>>,
         Underway
  PROVE  KmzInv'
<1>1. ArchivePart'
  BY DEF KmzInv, ArchivePart, EntryAt
<1>o. OutcomePart'
  BY Zenon DEF OutcomePart, Underway
<1>2. trying' = trying + 1 /\ position' = 0 /\ waypoints' = <<>> /\ trying' \in 1..4
  BY DEF TryNext
<1>3. \A c \in 1..3 : EntryAt(c)' = EntryAt(c)
  BY DEF EntryAt
<1>4. \A c \in 1..3 : c < trying' => ~Decides(EntryAt(c))'
  <2>1. \A c \in 1..3 : c < trying' => c < trying \/ c = trying
    BY <1>2
  <2>2. \A c \in 1..3 : c < trying' => ~Decides(EntryAt(c))
    BY <2>1 DEF KmzInv, PlacePart
  <2> QED
    BY <1>3, <2>2 DEF Decides, Indices, Located
<1>5. trying' # 4 => trying' \in 1..3
  BY <1>2
<1>6. ASSUME trying' # 4
      PROVE  /\ ReadSoFar(EntryAt(trying).tokens, position, waypoints)'
             /\ EntryAt(trying)' # Absent => position' <= Len(EntryAt(trying).tokens)'
  <2>1. EntryAt(trying)' = EntryAt(trying')
    BY DEF EntryAt
  <2>2. EntryAt(trying') # Absent => Len(EntryAt(trying').tokens) \in Nat
    BY <1>5, <1>6 DEF KmzInv, ArchivePart, Document
  <2>3. ReadSoFar(EntryAt(trying').tokens, 0, <<>>)
    BY NothingRead
  <2>4. ReadSoFar(EntryAt(trying).tokens, position, waypoints)'
    BY <1>2, <2>1, <2>3 DEF ReadSoFar, LastBefore, Located, Acting, Waypoint, ToSet
  <2> QED
    BY <1>2, <2>1, <2>2, <2>4
<1>7. PlacePart'
  BY <1>2, <1>4, <1>6 DEF PlacePart
<1> QED
  BY <1>1, <1>o, <1>7 DEF KmzInv

LEMMA SkipAbsentInv ==
  ASSUME KmzInv, SkipAbsent
  PROVE  KmzInv'
<1>u. Underway /\ trying <= 3
  BY CandidateFacts DEF SkipAbsent, Parsing, Underway
<1>1. trying \in 1..4 /\ TryNext /\ UNCHANGED <<archive, outcome>> /\ EntryAt(trying) = Absent
  BY DEF SkipAbsent, KmzInv, PlacePart, Entry, EntryAt
<1>2. trying \in 1..3
  BY <1>u, <1>1
<1>3. ~Decides(EntryAt(trying))
  BY <1>1 DEF Decides
<1> QED
  BY <1>u, <1>1, <1>2, <1>3, TryNextInv

\* One token further.
LEMMA FurtherInv ==
  ASSUME KmzInv, Reading, position < Len(Entry.tokens), position' = position + 1,
         UNCHANGED <<archive, trying, outcome>>, ReadSoFar(Entry.tokens, position + 1, waypoints')
  PROVE  KmzInv'
<1>1. /\ trying \in 1..3 /\ Entry = EntryAt(trying) /\ Underway
      /\ Len(Entry.tokens) \in Nat /\ position \in Nat
  BY WhileReading
<1>2. ArchivePart'
  BY DEF KmzInv, ArchivePart, EntryAt
<1>3. OutcomePart'
  BY <1>1, Zenon DEF OutcomePart, Underway
<1>4. position' \in Nat /\ position' <= Len(Entry.tokens) /\ trying # 4 /\ trying \in 1..4
  BY <1>1
<1>5. Entry.tokens = EntryAt(trying)'.tokens
  BY <1>1 DEF EntryAt
<1>6. ReadSoFar(EntryAt(trying).tokens, position, waypoints)'
  BY <1>5 DEF ReadSoFar, LastBefore, Located, Acting, Waypoint, ToSet
<1>7. \A c \in 1..3 : c < trying => ~Decides(EntryAt(c))'
  <2>1. \A c \in 1..3 : c < trying => ~Decides(EntryAt(c))
    BY DEF KmzInv, PlacePart
  <2> QED
    BY <2>1 DEF Decides, Indices, Located, EntryAt
<1>8. PlacePart'
  BY <1>4, <1>5, <1>6, <1>7 DEF PlacePart
<1> QED
  BY <1>2, <1>3, <1>8 DEF KmzInv

LEMMA IsWaypointFacts ==
  ASSUME NEW t \in Tokens
  PROVE  /\ Located(t) <=> t.tag = "coordinates" /\ IsWaypoint(t)
         /\ Acting(t) <=> t.tag = "actionActuatorFunc" /\ IsWaypoint(t)
<1>1. t.placemark \in Nat
  BY DEF Tokens
<1>2. t.placemark > 0 <=> t.placemark # 0
  BY <1>1
<1> QED
  BY <1>2 DEF Located, Acting, IsWaypoint

LEMMA ReadTokenInv ==
  ASSUME KmzInv, ReadCoordinates \/ ReadAction
  PROVE  KmzInv'
<1> DEFINE tokens == Entry.tokens
<1>1. Reading /\ position < Len(tokens) /\ position' = position + 1
      /\ UNCHANGED <<archive, trying, outcome>> /\ NextToken = tokens[position + 1]
  BY DEF ReadCoordinates, ReadAction, HasToken, NextToken
<1>2. position \in Nat /\ ReadSoFar(tokens, position, waypoints) /\ tokens \in Seq(Tokens)
      /\ Len(tokens) \in Nat
  BY <1>1, WhileReading
<1>3. NextToken \in Tokens
  <2>1. position + 1 \in 1..Len(tokens)
    BY <1>1, <1>2
  <2> HIDE DEF tokens
  <2> QED
    BY <1>1, <1>2, <2>1
<1>4. /\ Located(NextToken) <=> NextToken.tag = "coordinates" /\ IsWaypoint(NextToken)
      /\ Acting(NextToken) <=> NextToken.tag = "actionActuatorFunc" /\ IsWaypoint(NextToken)
  BY <1>3, IsWaypointFacts
<1>5. ReadSoFar(tokens, position + 1, waypoints')
  <2>1. CASE ReadCoordinates /\ IsWaypoint(NextToken)
    <3>1. waypoints' = Append(waypoints, [at |-> position + 1, actions |-> <<>>])
      BY <2>1 DEF ReadCoordinates
    <3>2. Located(tokens[position + 1])
      BY <1>1, <1>4, <2>1 DEF ReadCoordinates
    <3> HIDE DEF tokens
    <3> QED
      BY <1>2, <3>1, <3>2, WaypointRead
  <2>2. CASE ReadAction /\ IsWaypoint(NextToken) /\ waypoints # <<>>
    <3>1. waypoints' = [waypoints EXCEPT ![Len(waypoints)].actions = Append(@, position + 1)]
      BY <2>2 DEF ReadAction
    <3>2. Acting(tokens[position + 1])
      BY <1>1, <1>4, <2>2 DEF ReadAction
    <3> HIDE DEF tokens
    <3>3. ReadSoFar(tokens, position + 1,
                    [waypoints EXCEPT ![Len(waypoints)].actions = Append(@, position + 1)])
      BY <1>2, <2>2, <3>2, ActionRead
    <3> QED
      BY <3>1, <3>3
  <2>3. CASE ReadCoordinates /\ ~IsWaypoint(NextToken)
    <3>1. waypoints' = waypoints /\ ~Located(tokens[position + 1]) /\ ~Acting(tokens[position + 1])
      BY <1>1, <1>4, <2>3 DEF ReadCoordinates
    <3> HIDE DEF tokens
    <3> QED
      BY <1>2, <3>1, TokenSkipped
  <2>4. CASE ReadAction /\ ~(IsWaypoint(NextToken) /\ waypoints # <<>>)
    <3>1. waypoints' = waypoints /\ ~Located(tokens[position + 1])
          /\ (Acting(tokens[position + 1]) => waypoints = <<>>)
      BY <1>1, <1>4, <2>4 DEF ReadAction
    <3> HIDE DEF tokens
    <3> QED
      BY <1>2, <3>1, TokenSkipped
  <2> QED
    BY <2>1, <2>2, <2>3, <2>4
<1> QED
  BY <1>1, <1>5, FurtherInv

\* The entry is at its end.
LEMMA AtEnd ==
  ASSUME KmzInv, Reading, position = Len(Entry.tokens)
  PROVE  /\ trying \in 1..3 /\ WholeEntry(trying) /\ Entry = EntryAt(trying) /\ Underway
         /\ waypoints = <<>> /\ ~Entry.broken => ~Decides(EntryAt(trying))
<1>1. /\ trying \in 1..3 /\ Entry = EntryAt(trying) /\ Underway
      /\ DOMAIN Entry.tokens = 1..Len(Entry.tokens)
      /\ ReadSoFar(Entry.tokens, position, waypoints)
  BY WhileReading
<1>2. Entry # Absent /\ trying # 4
  BY <1>1 DEF Reading
<1>3. WholeEntry(trying)
  BY <1>1, <1>2 DEF WholeEntry
<1>4. waypoints = <<>> => {k \in DOMAIN Entry.tokens : Located(Entry.tokens[k])} = {}
  <2>1. DOMAIN <<>> = {}
    OBVIOUS
  <2> QED
    BY <1>1, <2>1 DEF ReadSoFar
<1>5. waypoints = <<>> /\ ~Entry.broken => ~Decides(Entry)
  BY <1>4 DEF Decides, Indices
<1> QED
  BY <1>1, <1>3, <1>5

\* Where nothing moves but the outcome, the rest stays.
LEMMA StillPlace ==
  ASSUME ArchivePart, PlacePart, UNCHANGED <<archive, trying, position, waypoints>>
  PROVE  ArchivePart' /\ PlacePart'
<1>1. ArchivePart'
  BY DEF ArchivePart, EntryAt
<1>2. \A c \in 1..3 : c < trying => ~Decides(EntryAt(c))'
  <2>1. \A c \in 1..3 : c < trying => ~Decides(EntryAt(c))
    BY DEF PlacePart
  <2> QED
    BY <2>1 DEF Decides, Indices, Located, EntryAt
<1>3. EntryAt(trying)' = EntryAt(trying)
  BY DEF EntryAt
<1>4. ReadSoFar(EntryAt(trying).tokens, position, waypoints)
        => ReadSoFar(EntryAt(trying).tokens, position, waypoints)'
  BY <1>3 DEF ReadSoFar, LastBefore, Located, Acting, Waypoint, ToSet
<1>5. PlacePart'
  BY <1>2, <1>3, <1>4 DEF PlacePart
<1> QED
  BY <1>1, <1>5

\* An outcome ends the reading.
LEMMA EndsInv ==
  ASSUME KmzInv, NEW what \in {"mission", "none", "error"}, EndsWith(what), UNCHANGED archive,
         what = "none" => trying = 4,
         what = "error" => WholeEntry(trying) /\ EntryAt(trying).broken,
         what = "mission" => WholeEntry(trying) /\ ~EntryAt(trying).broken /\ waypoints # <<>>
  PROVE  KmzInv'
<1>1. outcome' = what /\ UNCHANGED <<archive, trying, position, waypoints>>
  BY DEF EndsWith
<1>2. ArchivePart' /\ PlacePart'
  BY <1>1, StillPlace DEF KmzInv
<1>3. OutcomePart'
  BY <1>1 DEF OutcomePart, WholeEntry, EntryAt
<1> QED
  BY <1>2, <1>3 DEF KmzInv

LEMMA KmzInvStep == KmzInv /\ [KmzNext]_kmzVars => KmzInv'
<1>1. ASSUME KmzInv, UNCHANGED kmzVars PROVE KmzInv'
  <2>1. UNCHANGED <<archive, trying, position, waypoints>> /\ outcome' = outcome
    BY <1>1 DEF kmzVars
  <2>2. ArchivePart' /\ PlacePart'
    BY <1>1, <2>1, StillPlace DEF KmzInv
  <2>3. EntryAt(trying)' = EntryAt(trying)
    BY <2>1 DEF EntryAt
  <2>4. (WholeEntry(trying)' <=> WholeEntry(trying)) /\ (Underway' <=> Underway)
    BY <2>1, Zenon DEF WholeEntry, Underway, EntryAt
  <2>5. OutcomePart'
    BY <1>1, <2>1, <2>3, <2>4 DEF KmzInv, OutcomePart
  <2> QED
    BY <2>2, <2>5 DEF KmzInv
<1>2. ASSUME KmzInv, ReadError PROVE KmzInv'
  <2>1. Reading /\ position = Len(Entry.tokens) /\ Entry.broken /\ EndsWith("error") /\ UNCHANGED archive
    BY <1>2 DEF ReadError
  <2> QED
    BY <1>2, <2>1, AtEnd, EndsInv
<1>3. ASSUME KmzInv, ReadEOF PROVE KmzInv'
  <2>1. Reading /\ position = Len(Entry.tokens) /\ ~Entry.broken /\ UNCHANGED archive
    BY <1>3 DEF ReadEOF
  <2>2. CASE waypoints = <<>>
    <3>1. TryNext /\ UNCHANGED outcome
      BY <1>3, <2>2 DEF ReadEOF
    <3> QED
      BY <1>3, <2>1, <2>2, <3>1, AtEnd, TryNextInv
  <2>3. CASE waypoints # <<>>
    <3>1. EndsWith("mission")
      BY <1>3, <2>3 DEF ReadEOF
    <3> QED
      BY <1>3, <2>1, <2>3, <3>1, AtEnd, EndsInv
  <2> QED
    BY <2>2, <2>3
<1>4. ASSUME KmzInv, NoEntryLeft PROVE KmzInv'
  <2>1. trying > 3 /\ EndsWith("none") /\ UNCHANGED archive /\ trying \in 1..4
    BY <1>4, CandidateFacts DEF NoEntryLeft, KmzInv, PlacePart
  <2>2. trying = 4
    BY <2>1
  <2> QED
    BY <1>4, <2>1, <2>2, EndsInv
<1> QED
  BY <1>1, <1>2, <1>3, <1>4, SkipAbsentInv, ReadTokenInv DEF KmzNext

\* What MissionRead says of the waypoints ws and the tokens they were read from.
Promised(tokens, ws) ==
  /\ {ws[i].at : i \in DOMAIN ws} = Indices(tokens, Located)
  /\ \A i, j \in DOMAIN ws : i < j => ws[i].at < ws[j].at
  /\ DJIForm(tokens) =>
       /\ \A i \in DOMAIN ws : \A a \in ToSet(ws[i].actions) :
            tokens[a].placemark = tokens[ws[i].at].placemark
       /\ Indices(tokens, Acting) = UNION {ToSet(ws[i].actions) : i \in DOMAIN ws}

\* The waypoints of a whole document are what MissionRead says of them.
LEMMA WholeReading ==
  ASSUME NEW d, Document(d), NEW ws, ReadSoFar(d.tokens, Len(d.tokens), ws)
  PROVE  Promised(d.tokens, ws)
<1> DEFINE tokens == d.tokens
<1>1. tokens \in Seq(Tokens) /\ OnePiece(tokens) /\ ReadSoFar(tokens, Len(tokens), ws)
  BY DEF Document
<1>2. DOMAIN tokens = 1..Len(tokens)
  BY <1>1
<1> HIDE DEF tokens
<1>3. {ws[i].at : i \in DOMAIN ws} = Indices(tokens, Located)
      /\ \A i, j \in DOMAIN ws : i < j => ws[i].at < ws[j].at
  BY <1>1, <1>2 DEF ReadSoFar, Indices
<1>4. ASSUME DJIForm(tokens), NEW i \in DOMAIN ws, NEW a \in ToSet(ws[i].actions)
      PROVE  tokens[a].placemark = tokens[ws[i].at].placemark /\ a \in Indices(tokens, Acting)
  <2>1. a \in DOMAIN tokens /\ Acting(tokens[a]) /\ LastBefore(tokens, ws[i].at, a)
    BY <1>1, <1>2 DEF ReadSoFar
  <2>2. ws[i].at \in Nat
    <3>1. ws \in Seq(Waypoint)
      BY <1>1 DEF ReadSoFar
    <3>2. ws[i] \in Waypoint
      BY <3>1
    <3> QED
      BY <3>2 DEF Waypoint
  <2>3. tokens[a].placemark = tokens[ws[i].at].placemark
    BY <1>1, <1>4, <2>1, <2>2, OwnPlacemark
  <2> QED
    BY <2>1, <2>3 DEF Indices
<1>5. ASSUME DJIForm(tokens), NEW a \in Indices(tokens, Acting)
      PROVE  \E i \in DOMAIN ws : a \in ToSet(ws[i].actions)
  <2>1. a \in DOMAIN tokens /\ Acting(tokens[a])
    BY DEF Indices
  <2>2. \E k \in 1..a : Located(tokens[k])
    BY <1>1, <1>5, <2>1, AfterWaypoint
  <2> QED
    BY <1>1, <1>2, <2>1, <2>2 DEF ReadSoFar
<1>6. DJIForm(tokens) =>
        Indices(tokens, Acting) = UNION {ToSet(ws[i].actions) : i \in DOMAIN ws}
  BY <1>4, <1>5
<1>7. DJIForm(tokens) =>
        \A i \in DOMAIN ws : \A a \in ToSet(ws[i].actions) :
          tokens[a].placemark = tokens[ws[i].at].placemark
  BY <1>4
<1> QED
  BY <1>3, <1>6, <1>7 DEF tokens, Promised

\* The first entry that decides is the one at which the reading ended.
LEMMA FirstDeciding ==
  ASSUME NEW D \in SUBSET (1..3), NEW t \in D, \A c \in D : ~(c < t)
  PROVE  (CHOOSE m \in D : \A n \in D : m <= n) = t
<1>1. \A n \in D : t <= n
  OBVIOUS
<1>2. \A m \in D : (\A n \in D : m <= n) => m = t
  BY <1>1
<1> QED
  BY <1>1, <1>2

LEMMA KmzInvRead == KmzInv => MissionRead
<1> SUFFICES ASSUME KmzInv, ~Underway PROVE MissionRead
  BY Zenon DEF MissionRead, Underway
<1> DEFINE deciding == {c \in DOMAIN Candidates : Decides(archive[Candidates[c]])}
<1>1. DOMAIN Candidates = 1..3 /\ \A c \in 1..3 : archive[Candidates[c]] = EntryAt(c)
  BY CandidateFacts DEF EntryAt
<1>2. \A c \in 1..3 : c \in deciding <=> Decides(EntryAt(c))
  BY <1>1
<1>3. deciding \subseteq 1..3 /\ trying \in 1..4 /\ \A c \in deciding : ~(c < trying)
  BY <1>1, <1>2 DEF KmzInv, PlacePart
<1> HIDE DEF deciding
<1>4. CASE outcome = "none"
  <2>1. trying = 4
    BY <1>4 DEF KmzInv, OutcomePart
  <2>2. deciding = {}
    BY <1>3, <2>1
  <2> QED
    BY <1>4, <2>2, Zenon DEF MissionRead, deciding
<1>5. ASSUME outcome \in {"error", "mission"}
      PROVE  MissionRead
  <2>1. WholeEntry(trying) /\ (outcome = "error" <=> EntryAt(trying).broken)
        /\ (outcome = "mission" => waypoints # <<>>)
    BY <1>5 DEF KmzInv, OutcomePart
  <2>2. trying \in 1..3 /\ EntryAt(trying) # Absent /\ position = Len(EntryAt(trying).tokens)
    BY <1>3, <2>1 DEF WholeEntry
  <2>3. Document(EntryAt(trying))
        /\ ReadSoFar(EntryAt(trying).tokens, Len(EntryAt(trying).tokens), waypoints)
    BY <2>2 DEF KmzInv, ArchivePart, PlacePart
  <2>4. Promised(EntryAt(trying).tokens, waypoints)
    BY <2>3, WholeReading
  <2>5. outcome = "mission" => Indices(EntryAt(trying).tokens, Located) # {}
    <3>1. ASSUME waypoints # <<>> PROVE {waypoints[i].at : i \in DOMAIN waypoints} # {}
      <4>1. waypoints \in Seq(Waypoint)
        BY <2>3 DEF ReadSoFar
      <4>2. 1 \in DOMAIN waypoints
        BY <3>1, <4>1
      <4> QED
        BY <4>2
    <3> QED
      BY <2>1, <2>4, <3>1 DEF Promised
  <2>6. Decides(EntryAt(trying))
    BY <1>5, <2>1, <2>2, <2>5 DEF Decides
  <2>7. trying \in deciding /\ deciding # {}
    BY <1>2, <2>2, <2>6
  <2>8. (CHOOSE m \in deciding : \A n \in deciding : m <= n) = trying
    BY <1>3, <2>7, FirstDeciding
  <2>9. outcome = IF EntryAt(trying).broken THEN "error" ELSE "mission"
    BY <1>5, <2>1
  <2>10. archive[Candidates[trying]] = EntryAt(trying)
    BY DEF EntryAt
  <2> QED
    BY <2>4, <2>7, <2>8, <2>9, <2>10, Zenon DEF MissionRead, deciding, Promised
<1>6. outcome \in {"none", "error", "mission"}
  BY DEF KmzInv, OutcomePart
<1> QED
  BY <1>4, <1>5, <1>6

\* Where the reading of a KMZ file is: in which entry, after how many tokens of it,
\* with waypoints that have been read there (extract.go:59-115, 140-195).
THEOREM KmzTypes == KmzSpec => []KmzTypeOK
<1>1. KmzInv => KmzTypeOK
  <2> SUFFICES ASSUME KmzInv PROVE KmzTypeOK
    OBVIOUS
  <2>1. archive \in Archives \cup {PlaceholderKMZ}
    BY DEF KmzInv, ArchivePart
  <2>2. trying \in 1..Len(Candidates) + 1 /\ position \in Nat
    <3>1. trying \in 1..4 /\ Len(Candidates) = 3 /\ position \in Nat
      BY CandidateFacts DEF KmzInv, PlacePart
    <3> QED
      BY <3>1
  <2>3. \A i \in DOMAIN waypoints : waypoints[i].at \in 1..position
    <3>1. CASE trying = 4
      BY <3>1 DEF KmzInv, PlacePart
    <3>2. CASE trying # 4
      BY <3>2 DEF KmzInv, PlacePart, ReadSoFar
    <3> QED
      BY <3>1, <3>2
  <2>4. outcome \in {"", "mission", "none", "error"}
    BY Zenon DEF KmzInv, OutcomePart, Underway
  <2> QED
    BY <2>1, <2>2, <2>3, <2>4, Zenon DEF KmzTypeOK
<1> QED
  BY <1>1, KmzInvInit, KmzInvStep, PTL DEF KmzSpec

\* The mission that comes out of a KMZ file is that of the first entry, in the order
\* of preference, that has a waypoint or that breaks off, whatever the entries hold
\* and however many tokens they have: its waypoints in their order and, of a document
\* as DJI Fly writes it, each with the actions of its own Placemark (extract.go:59-115,
\* 178-189).
THEOREM MissionTrue == KmzSpec => []MissionRead
<1> QED
  BY KmzInvRead, KmzInvInit, KmzInvStep, PTL DEF KmzSpec

-----------------------------------------------------------------------------
(* SlotList: lists.                                                         *)

\* What is kept of a list is in its order, and nothing of it is left out or twice.
LEMMA PickedPlaces ==
  ASSUME NEW n \in Nat, NEW P \in SUBSET (1..n)
  PROVE  /\ Cardinality(P) \in Nat
         /\ \A k \in 1..Cardinality(P) : PlaceOf(P, k) \in P
         /\ \A p \in P : \E k \in 1..Cardinality(P) : PlaceOf(P, k) = p
         /\ \A k, l \in 1..Cardinality(P) : k < l => PlaceOf(P, k) < PlaceOf(P, l)
<1> DEFINE down(p) == {q \in P : q <= p}
<1> DEFINE c == Cardinality(P)
<1>1. IsFiniteSet(P) /\ c \in Nat
  <2>1. IsFiniteSet(1..n)
    BY FS_Interval
  <2> QED
    BY <2>1, FS_Subset, FS_CardinalityType
<1>2. \A p \in P : IsFiniteSet(down(p)) /\ Cardinality(down(p)) \in 1..c
  <2> SUFFICES ASSUME NEW p \in P PROVE IsFiniteSet(down(p)) /\ Cardinality(down(p)) \in 1..c
    OBVIOUS
  <2>1. down(p) \in SUBSET P
    OBVIOUS
  <2>2. IsFiniteSet(down(p)) /\ Cardinality(down(p)) <= c /\ Cardinality(down(p)) \in Nat
    BY <1>1, <2>1, FS_Subset, FS_CardinalityType
  <2>3. p \in down(p)
    OBVIOUS
  <2>4. Cardinality(down(p)) # 0
    BY <2>2, <2>3, FS_EmptySet
  <2> HIDE DEF down, c
  <2> QED
    BY <1>1, <2>2, <2>4
<1>3. \A p, q \in P : p < q => Cardinality(down(p)) < Cardinality(down(q))
  <2> SUFFICES ASSUME NEW p \in P, NEW q \in P, p < q
               PROVE  Cardinality(down(p)) < Cardinality(down(q))
    OBVIOUS
  <2>0. P \subseteq Int
    OBVIOUS
  <2>1. down(p) \in SUBSET down(q) /\ q \in down(q) /\ q \notin down(p)
    <3>1. (\A x \in P : x <= p => x <= q) /\ q <= q /\ ~(q <= p)
      BY <2>0
    <3> QED
      BY <3>1, Zenon
  <2>2. Cardinality(down(p)) <= Cardinality(down(q)) /\ Cardinality(down(p)) # Cardinality(down(q))
    BY <1>2, <2>1, FS_Subset
  <2>3. Cardinality(down(p)) \in Nat /\ Cardinality(down(q)) \in Nat
    BY <1>2
  <2> HIDE DEF down
  <2> QED
    BY <2>2, <2>3
<1> DEFINE rank == [p \in P |-> Cardinality(down(p))]
<1>4. \A p, q \in P : rank[p] = rank[q] => p = q
  <2> SUFFICES ASSUME NEW p \in P, NEW q \in P, rank[p] = rank[q], p # q PROVE FALSE
    OBVIOUS
  <2>1. p < q \/ q < p
    OBVIOUS
  <2>2. rank[p] \in Nat /\ rank[q] \in Nat
    BY <1>2
  <2>3. rank[p] < rank[q] \/ rank[q] < rank[p]
    BY <1>3, <2>1
  <2> HIDE DEF rank
  <2> QED
    BY <2>2, <2>3
<1>5. rank \in Surjection(P, 1..c)
  <2>1. rank \in Injection(P, 1..c)
    BY <1>2, <1>4 DEF Injection, IsInjective
  <2>2. IsFiniteSet(1..c) /\ Cardinality(1..c) = c
    BY <1>1, FS_Interval
  <2> HIDE DEF rank
  <2> QED
    BY <1>1, <2>1, <2>2, FS_Injection
<1>6. \A k \in 1..c : \E p \in P : Cardinality(down(p)) = k
  BY <1>5 DEF Surjection
<1>7. \A k \in 1..c : PlaceOf(P, k) \in P /\ Cardinality(down(PlaceOf(P, k))) = k
  BY <1>6 DEF PlaceOf
<1>8. \A p \in P : PlaceOf(P, Cardinality(down(p))) = p
  BY <1>2, <1>4, <1>7
<1>9. \A k, l \in 1..c : k < l => PlaceOf(P, k) < PlaceOf(P, l)
  <2> SUFFICES ASSUME NEW k \in 1..c, NEW l \in 1..c, k < l PROVE PlaceOf(P, k) < PlaceOf(P, l)
    OBVIOUS
  <2>1. PICK p \in P : p = PlaceOf(P, k) /\ Cardinality(down(p)) = k
    BY <1>7
  <2>2. PICK q \in P : q = PlaceOf(P, l) /\ Cardinality(down(q)) = l
    BY <1>7
  <2>3. ~(q < p) /\ p # q
    BY <1>3, <2>1, <2>2
  <2> QED
    BY <2>1, <2>2, <2>3
<1> HIDE DEF down, c, rank
<1> QED
  BY <1>1, <1>2, <1>7, <1>8, <1>9 DEF c

LEMMA PickedList ==
  ASSUME NEW S, NEW list \in Seq(S), NEW P \in SUBSET DOMAIN list
  PROVE  /\ Cardinality(P) \in Nat /\ DOMAIN Picked(list, P) = 1..Cardinality(P)
         /\ Picked(list, P) \in Seq(S)
         /\ \A k \in DOMAIN Picked(list, P) : \E p \in P : Picked(list, P)[k] = list[p]
         /\ \A p \in P : \E k \in DOMAIN Picked(list, P) : Picked(list, P)[k] = list[p]
         /\ \A k, l \in DOMAIN Picked(list, P) : k < l =>
              \E p, q \in P : p < q /\ Picked(list, P)[k] = list[p] /\ Picked(list, P)[l] = list[q]
<1>1. Len(list) \in Nat /\ DOMAIN list = 1..Len(list) /\ P \in SUBSET (1..Len(list))
  OBVIOUS
<1>2. /\ Cardinality(P) \in Nat
      /\ \A k \in 1..Cardinality(P) : PlaceOf(P, k) \in P
      /\ \A p \in P : \E k \in 1..Cardinality(P) : PlaceOf(P, k) = p
      /\ \A k, l \in 1..Cardinality(P) : k < l => PlaceOf(P, k) < PlaceOf(P, l)
  BY <1>1, PickedPlaces
<1>3. DOMAIN Picked(list, P) = 1..Cardinality(P)
      /\ \A k \in 1..Cardinality(P) : Picked(list, P)[k] = list[PlaceOf(P, k)]
  BY DEF Picked
<1>4. Picked(list, P) \in Seq(S)
  BY <1>1, <1>2 DEF Picked
<1> QED
  BY <1>2, <1>3, <1>4
LEMMA SlotsListed ==
  /\ Slots \in Seq(Guids)
  /\ \A g \in Guids : \E k \in DOMAIN Slots : Slots[k] = g
  /\ \A k, l \in DOMAIN Slots : Slots[k] = Slots[l] => k = l
<1> DEFINE P == {i \in DOMAIN Entries : Entries[i] \in Guids}
<1> DEFINE S == {Entries[i] : i \in DOMAIN Entries}
<1>1. Entries \in Seq(S) /\ Guids \subseteq S /\ \A i, j \in DOMAIN Entries : Entries[i] = Entries[j] => i = j
  BY SlotListAssumption DEF NameList
<1>2. P \in SUBSET DOMAIN Entries /\ Slots = Picked(Entries, P)
  BY DEF Slots
<1>3. /\ Cardinality(P) \in Nat /\ DOMAIN Slots = 1..Cardinality(P)
      /\ Slots \in Seq(S)
      /\ \A k \in DOMAIN Slots : \E q \in P : Slots[k] = Entries[q]
      /\ \A q \in P : \E k \in DOMAIN Slots : Slots[k] = Entries[q]
      /\ \A k, l \in DOMAIN Slots : k < l =>
           \E q, r \in P : q < r /\ Slots[k] = Entries[q] /\ Slots[l] = Entries[r]
  <2> HIDE DEF P, S
  <2> QED
    BY <1>1, <1>2, PickedList
<1>p. \A q : q \in P <=> q \in DOMAIN Entries /\ Entries[q] \in Guids
  OBVIOUS
<1>s. \A g \in Guids : \E i \in DOMAIN Entries : Entries[i] = g
  BY <1>1
<1>e. DOMAIN Entries = 1..Len(Entries) /\ \A i, j \in DOMAIN Entries : Entries[i] = Entries[j] => i = j
  BY <1>1
<1> HIDE DEF P, S
<1>4. \A k \in DOMAIN Slots : Slots[k] \in Guids
  BY <1>3, <1>p
<1>5. Slots \in Seq(Guids)
  <2>1. Len(Slots) \in Nat /\ DOMAIN Slots = 1..Len(Slots) /\ Slots = [k \in 1..Len(Slots) |-> Slots[k]]
    BY <1>3
  <2> QED
    BY <1>4, <2>1
<1>6. \A g \in Guids : \E k \in DOMAIN Slots : Slots[k] = g
  BY <1>3, <1>p, <1>s
<1>7. ASSUME NEW k \in DOMAIN Slots, NEW l \in DOMAIN Slots, k < l PROVE Slots[k] # Slots[l]
  <2>1. PICK q, r \in P : q < r /\ Slots[k] = Entries[q] /\ Slots[l] = Entries[r]
    BY <1>3, <1>7
  <2>2. q # r /\ q \in DOMAIN Entries /\ r \in DOMAIN Entries
    BY <1>e, <1>p, <2>1
  <2> QED
    BY <1>e, <2>1, <2>2
<1>8. \A k, l \in DOMAIN Slots : k < l \/ l < k \/ k = l
  BY <1>3
<1> QED
  BY <1>5, <1>6, <1>7, <1>8

\* A listing has no slot twice.
Listing(list) ==
  list \in Seq(Row) /\ \A i, j \in DOMAIN list : list[i].guid = list[j].guid => i = j
RankedIn(order) == {order[k] : k \in DOMAIN order}

LEMMA OrderedFirst ==
  ASSUME NEW order, NameList(order), NEW list, Listing(list), NEW first, first = Ordered(order, list)
  PROVE  /\ first \in Seq(Row)
         /\ \A i \in DOMAIN first : \E j \in DOMAIN list : first[i] = list[j]
         /\ \A j \in DOMAIN list : list[j].guid \in RankedIn(order) =>
              \E i \in DOMAIN first : first[i] = list[j]
         /\ \A i \in DOMAIN first : first[i].guid \in RankedIn(order)
         /\ \A i, k \in DOMAIN first : i < k =>
              Precedes(order, first[i].guid, first[k].guid)
<1> DEFINE P == {i \in DOMAIN order : order[i] \in GuidsOf(list)}
<1> DEFINE S == RankedIn(order)
<1> DEFINE kept == Picked(order, P)
<1>1. order \in Seq(S)
  BY DEF NameList, RankedIn
<1>2. P \in SUBSET DOMAIN order
  OBVIOUS
<1>3. /\ Cardinality(P) \in Nat /\ DOMAIN kept = 1..Cardinality(P)
      /\ \A k \in DOMAIN kept : \E q \in P : kept[k] = order[q]
      /\ \A q \in P : \E k \in DOMAIN kept : kept[k] = order[q]
      /\ \A k, l \in DOMAIN kept : k < l =>
           \E q, r \in P : q < r /\ kept[k] = order[q] /\ kept[l] = order[r]
  <2> HIDE DEF P, S
  <2> QED
    BY <1>1, <1>2, PickedList
<1>4. first = [i \in DOMAIN kept |-> RowOf(list, kept[i])]
  BY DEF Ordered
<1>5. \A q \in P : order[q] \in GuidsOf(list)
  OBVIOUS
<1>p. \A q : q \in P <=> q \in DOMAIN order /\ order[q] \in GuidsOf(list)
  OBVIOUS
<1> HIDE DEF kept, P, S
<1>6. \A g \in GuidsOf(list) : RowOf(list, g) \in {list[j] : j \in DOMAIN list} /\ RowOf(list, g).guid = g
  BY DEF GuidsOf, RowOf
<1>7. \A i \in DOMAIN kept : kept[i] \in GuidsOf(list) /\ first[i].guid = kept[i]
                           /\ first[i] \in {list[j] : j \in DOMAIN list}
  BY <1>3, <1>4, <1>5, <1>6
<1>8. DOMAIN first = DOMAIN kept
  BY <1>4
<1>9. first \in Seq(Row)
  <2>1. \A j \in DOMAIN list : list[j] \in Row
    BY DEF Listing
  <2>2. \A i \in 1..Cardinality(P) : RowOf(list, kept[i]) \in Row
    BY <1>3, <1>4, <1>7, <2>1
  <2>3. first = [i \in 1..Cardinality(P) |-> RowOf(list, kept[i])]
    BY <1>3, <1>4
  <2> QED
    BY <1>3, <2>2, <2>3
<1>10. \A i \in DOMAIN first : first[i].guid \in RankedIn(order)
  BY <1>3, <1>7, <1>8, <1>p DEF RankedIn
<1>11. ASSUME NEW j \in DOMAIN list, list[j].guid \in RankedIn(order)
       PROVE  \E i \in DOMAIN first : first[i] = list[j]
  <2>1. PICK q \in DOMAIN order : order[q] = list[j].guid
    BY <1>11 DEF RankedIn
  <2>2. q \in P
    BY <1>p, <2>1 DEF GuidsOf
  <2>3. PICK i \in DOMAIN kept : kept[i] = list[j].guid
    BY <1>3, <2>1, <2>2
  <2>4. PICK l \in DOMAIN list : first[i] = list[l]
    BY <1>7
  <2>5. l = j
    BY <1>7, <2>3, <2>4 DEF Listing
  <2> QED
    BY <1>8, <2>4, <2>5
<1>12. ASSUME NEW i \in DOMAIN first, NEW k \in DOMAIN first, i < k
       PROVE  Precedes(order, first[i].guid, first[k].guid)
  <2>1. PICK q, r \in P : q < r /\ kept[i] = order[q] /\ kept[k] = order[r]
    BY <1>3, <1>8, <1>12
  <2>2. q \in DOMAIN order /\ r \in DOMAIN order /\ DOMAIN order = 1..Len(order)
    BY <1>1, <1>p, <2>1
  <2> QED
    BY <1>7, <1>8, <2>1, <2>2 DEF Precedes
<1> QED
  BY <1>7, <1>8, <1>9, <1>10, <1>11, <1>12

\* The elements of two lists, one after the other.
OneAfterOther(s, t, u) ==
  /\ \A i \in DOMAIN s : i \in DOMAIN u /\ u[i] = s[i]
  /\ \A i \in DOMAIN t : \E j \in DOMAIN u : u[j] = t[i]
  /\ \A i \in DOMAIN u :
       IF i \in DOMAIN s THEN u[i] = s[i]
       ELSE i - Len(s) \in DOMAIN t /\ u[i] = t[i - Len(s)]
  /\ \A i, j \in DOMAIN u : i < j =>
       \/ i \in DOMAIN s /\ j \in DOMAIN s
       \/ i \in DOMAIN s /\ j \notin DOMAIN s
       \/ i \notin DOMAIN s /\ j \notin DOMAIN s /\ i - Len(s) < j - Len(s)

LEMMA Joined ==
  ASSUME NEW S, NEW s \in Seq(S), NEW t \in Seq(S), NEW u, u = s \o t
  PROVE  u \in Seq(S) /\ OneAfterOther(s, t, u)
<1>1. s \o t \in Seq(S) /\ DOMAIN s = 1..Len(s) /\ DOMAIN t = 1..Len(t) /\ Len(s) \in Nat /\ Len(t) \in Nat
  OBVIOUS
<1>2. DOMAIN (s \o t) = 1..Len(s) + Len(t)
  OBVIOUS
<1>3. \A i \in DOMAIN (s \o t) : IF i \in DOMAIN s THEN (s \o t)[i] = s[i]
              ELSE i - Len(s) \in DOMAIN t /\ (s \o t)[i] = t[i - Len(s)]
  BY <1>1, <1>2
<1>4. \A i \in DOMAIN s : i \in DOMAIN (s \o t)
  BY <1>1, <1>2
<1>5. ASSUME NEW i \in DOMAIN t PROVE \E j \in DOMAIN (s \o t) : (s \o t)[j] = t[i]
  <2>1. i + Len(s) \in DOMAIN (s \o t) /\ i + Len(s) \notin DOMAIN s /\ (i + Len(s)) - Len(s) = i
    BY <1>1, <1>2
  <2> QED
    BY <1>3, <2>1
<1>6. \A i, j \in DOMAIN (s \o t) : i < j =>
              \/ i \in DOMAIN s /\ j \in DOMAIN s
              \/ i \in DOMAIN s /\ j \notin DOMAIN s
              \/ i \notin DOMAIN s /\ j \notin DOMAIN s /\ i - Len(s) < j - Len(s)
  BY <1>1, <1>2
<1> QED
  BY <1>1, <1>3, <1>4, <1>5, <1>6 DEF OneAfterOther

\* A listing put in the saved order has the same slots: those of the order come first,
\* as it names them, the others after them as they were.
LEMMA ReorderFacts ==
  ASSUME NEW order, NameList(order), NEW list, Listing(list), NEW new, new = Reorder(order, list)
  PROVE  /\ new \in Seq(Row)
         /\ \A i \in DOMAIN new : \E j \in DOMAIN list : new[i] = list[j]
         /\ \A j \in DOMAIN list : \E i \in DOMAIN new : new[i] = list[j]
         /\ \A i, j \in DOMAIN new : i < j =>
              \/ Precedes(order, new[i].guid, new[j].guid)
              \/ new[i].guid \in RankedIn(order) /\ new[j].guid \notin RankedIn(order)
              \/ /\ new[i].guid \notin RankedIn(order) /\ new[j].guid \notin RankedIn(order)
                 /\ \E k, l \in DOMAIN list :
                      k < l /\ new[i].guid = list[k].guid /\ new[j].guid = list[l].guid
<1> DEFINE first == Ordered(order, list)
<1> DEFINE P == {i \in DOMAIN list : list[i].guid \notin GuidsOf(first)}
<1> DEFINE others == Picked(list, P)
<1>1. /\ first \in Seq(Row)
      /\ \A i \in DOMAIN first : \E j \in DOMAIN list : first[i] = list[j]
      /\ \A j \in DOMAIN list : list[j].guid \in RankedIn(order) =>
              \E i \in DOMAIN first : first[i] = list[j]
      /\ \A i \in DOMAIN first : first[i].guid \in RankedIn(order)
      /\ \A i, k \in DOMAIN first : i < k =>
              Precedes(order, first[i].guid, first[k].guid)
  BY OrderedFirst
<1>2. list \in Seq(Row) /\ (\A i, j \in DOMAIN list : list[i].guid = list[j].guid => i = j)
      /\ DOMAIN list = 1..Len(list)
  BY DEF Listing
<1>3. P \in SUBSET DOMAIN list /\ new = first \o others
  BY DEF Reorder
<1>p. \A q : q \in P <=> q \in DOMAIN list /\ list[q].guid \notin GuidsOf(first)
  OBVIOUS
<1> HIDE DEF P, first
<1>4. /\ others \in Seq(Row)
      /\ \A k \in DOMAIN others : \E q \in P : others[k] = list[q]
      /\ \A q \in P : \E k \in DOMAIN others : others[k] = list[q]
      /\ \A k, l \in DOMAIN others : k < l =>
           \E q, r \in P : q < r /\ others[k] = list[q] /\ others[l] = list[r]
  BY <1>2, <1>3, PickedList
<1> HIDE DEF others
<1>5. \A q \in P : q \in DOMAIN list /\ list[q].guid \notin RankedIn(order)
  <2> SUFFICES ASSUME NEW q \in P, list[q].guid \in RankedIn(order) PROVE FALSE
    BY <1>p
  <2>1. PICK i \in DOMAIN first : first[i] = list[q]
    BY <1>1, <1>p
  <2> QED
    BY <1>p, <2>1 DEF GuidsOf
<1>6. \A j \in DOMAIN list : j \in P \/ \E i \in DOMAIN first : first[i] = list[j]
  <2> SUFFICES ASSUME NEW j \in DOMAIN list, j \notin P PROVE \E i \in DOMAIN first : first[i] = list[j]
    OBVIOUS
  <2>1. PICK i \in DOMAIN first : first[i].guid = list[j].guid
    BY <1>p DEF GuidsOf
  <2> QED
    BY <1>1, <2>1
<1>7. /\ new \in Seq(Row)
      /\ \A i \in DOMAIN first : i \in DOMAIN new /\ new[i] = first[i]
      /\ \A i \in DOMAIN others : \E j \in DOMAIN new : new[j] = others[i]
      /\ \A i \in DOMAIN new :
           IF i \in DOMAIN first THEN new[i] = first[i]
           ELSE i - Len(first) \in DOMAIN others /\ new[i] = others[i - Len(first)]
      /\ \A i, j \in DOMAIN new : i < j =>
           \/ i \in DOMAIN first /\ j \in DOMAIN first
           \/ i \in DOMAIN first /\ j \notin DOMAIN first
           \/ i \notin DOMAIN first /\ j \notin DOMAIN first /\ i - Len(first) < j - Len(first)
  <2>1. new \in Seq(Row) /\ OneAfterOther(first, others, new)
    BY <1>1, <1>3, <1>4, Joined
  <2> QED
    BY <2>1 DEF OneAfterOther
<1>8. \A i \in DOMAIN new : \E j \in DOMAIN list : new[i] = list[j]
  BY <1>1, <1>4, <1>5, <1>7
<1>9. \A j \in DOMAIN list : \E i \in DOMAIN new : new[i] = list[j]
  BY <1>4, <1>6, <1>7
<1>10. ASSUME NEW i \in DOMAIN new, NEW j \in DOMAIN new, i < j
       PROVE  \/ Precedes(order, new[i].guid, new[j].guid)
              \/ new[i].guid \in RankedIn(order) /\ new[j].guid \notin RankedIn(order)
              \/ /\ new[i].guid \notin RankedIn(order) /\ new[j].guid \notin RankedIn(order)
                 /\ \E k, l \in DOMAIN list :
                      k < l /\ new[i].guid = list[k].guid /\ new[j].guid = list[l].guid
  <2>1. CASE i \in DOMAIN first /\ j \in DOMAIN first
    BY <1>1, <1>7, <1>10, <2>1
  <2>2. CASE i \in DOMAIN first /\ j \notin DOMAIN first
    <3>1. new[i].guid \in RankedIn(order)
      BY <1>1, <1>7, <2>2
    <3>2. new[j].guid \notin RankedIn(order)
      BY <1>4, <1>5, <1>7, <2>2
    <3> QED
      BY <3>1, <3>2
  <2>3. CASE i \notin DOMAIN first /\ j \notin DOMAIN first /\ i - Len(first) < j - Len(first)
    <3>a. PICK a, b \in DOMAIN others : a < b /\ new[i] = others[a] /\ new[j] = others[b]
      BY <1>7, <2>3
    <3>b. \E q, r \in P : q < r /\ others[a] = list[q] /\ others[b] = list[r]
      BY <1>4, <3>a
    <3>1. PICK q, r \in P : q < r /\ new[i] = list[q] /\ new[j] = list[r]
      BY <3>a, <3>b
    <3>2. q \in DOMAIN list /\ r \in DOMAIN list /\ list[q].guid \notin RankedIn(order)
          /\ list[r].guid \notin RankedIn(order)
      BY <1>5
    <3> QED
      BY <1>2, <3>1, <3>2
  <2> QED
    BY <1>7, <1>10, <2>1, <2>2, <2>3
<1> QED
  BY <1>7, <1>8, <1>9, <1>10
-----------------------------------------------------------------------------
(* SlotList: the listing.                                                   *)

AtTypes == [pc : ListSteps, slot : 1..Len(Slots) + 1, pics : BOOLEAN, all : BOOLEAN]

ListTypes ==
  /\ link \in {"mtp", "adb"} /\ clock \in 1..MaxChanges + 1 /\ changes \in 0..MaxChanges
  /\ stamps \in [Guids -> [dir : Stamps, kmz : Stamps, jpg : Stamps, pic : Pics]]
  /\ \A g \in Guids : /\ stamps[g].dir <= clock /\ stamps[g].kmz <= clock
                      /\ stamps[g].jpg <= clock /\ stamps[g].pic <= changes + 1
  /\ saved \in [name : [Guids -> SlotNames], flag : [Guids -> BOOLEAN], order : Orders]
  /\ images \in [Guids -> [Stamps -> Pics]]
  /\ loaded \in [Guids -> Stamps] /\ \A g \in Guids : loaded[g] <= clock
  /\ hasty \in SUBSET Guids
  /\ clock <= changes + 1
  /\ at \in AtTypes

\* The rows are those of the slots as the device lists them, until they are put in
\* the saved order; there are none if the waypoint folder could not be listed.
AsListed(all, list) ==
  IF all THEN Len(list) = Len(Slots) /\ \A i \in DOMAIN list : list[i].guid = Slots[i]
  ELSE list = <<>>
RowsPart ==
  /\ rows \in Seq(Row)
  /\ \A i \in DOMAIN rows : rows[i].stamp <= clock /\ rows[i].pic <= changes + 1
  /\ at.pc \in {"rest", "dir"} => rows = <<>>
  /\ at.pc \in {"previews", "kmz", "jpg", "name", "flag", "order"} => AsListed(at.all, rows)
  /\ at.pc = "answer" =>
       IF at.all THEN \A g \in Guids : \E i \in DOMAIN rows : rows[i].guid = g ELSE rows = <<>>
  /\ at.pc = "jpg" => at.slot \in DOMAIN rows

\* What the stores hold, and what has been read of them, they have held since the
\* listing began.
StorePart ==
  /\ at.pc # "rest" => /\ saved.order \in since.order
                       /\ \A g \in Guids : /\ saved.name[g] \in since.name[g]
                                            /\ saved.flag[g] \in since.flag[g]
  /\ \A i \in DOMAIN rows :
       /\ at.pc \in {"flag", "order", "answer"} \/ (at.pc = "name" /\ i < at.slot) =>
            rows[i].name \in since.name[rows[i].guid]
       /\ at.pc \in {"order", "answer"} \/ (at.pc = "flag" /\ i < at.slot) =>
            rows[i].flag \in since.flag[rows[i].guid]
  /\ at.pc = "answer" => \E order \in since.order : InOrderOf(order)

\* A picture that was loaded as ?v= is not older than one the device has now and whose
\* second is rolled into v, unless one was put in the second a page had loaded one in;
\* and that of a row is not older than the row.
NotStale(g, v) ==
  images[g][v] # 0 /\ g \notin hasty =>
    /\ v <= loaded[g]
    /\ stamps[g].pic = 0 \/ stamps[g].jpg > v \/ stamps[g].pic <= images[g][v]
RowFresh(r) ==
  r.pic # 0 /\ r.guid \notin hasty =>
    /\ stamps[r.guid].pic = 0 \/ stamps[r.guid].pic >= r.pic
    /\ images[r.guid][r.stamp] = 0 \/ images[r.guid][r.stamp] >= r.pic
FreshPart ==
  /\ \A g \in Guids, v \in Stamps : NotStale(g, v)
  /\ link = "mtp" => \A i \in DOMAIN rows : RowFresh(rows[i])
  /\ at.pc \in {"dir", "previews"} => at.slot = 1
  /\ at.pc \in {"previews", "kmz", "jpg"} => \A i \in DOMAIN rows : at.slot <= i => rows[i].pic = 0

ListInv == ListTypes /\ RowsPart /\ StorePart /\ FreshPart

LEMMA ListInvInit == SlotListInit => ListInv
<1> SUFFICES ASSUME SlotListInit PROVE ListInv
  OBVIOUS
<1>r. rows = <<>>
  BY Zenon DEF SlotListInit
<1>1. rows = <<>> /\ DOMAIN rows = {} /\ rows \in Seq(Row)
  BY <1>r
<1>i. /\ at = NoListing /\ clock = 1 /\ changes = 0 /\ link \in {"mtp", "adb"}
      /\ stamps = [g \in Guids |-> [dir |-> 1, kmz |-> 1, jpg |-> 1, pic |-> 1]]
      /\ images = [g \in Guids |-> [v \in Stamps |-> 0]]
      /\ loaded = [g \in Guids |-> 0] /\ hasty = {}
  BY Zenon DEF SlotListInit
<1>m. MaxChanges \in Nat
  BY SlotListAssumption, Zenon
<1>2. at.pc = "rest" /\ clock = 1 /\ changes = 0
  BY <1>i DEF NoListing
<1>3. 1 \in Stamps /\ 0 \in Stamps /\ 1 \in Pics /\ 0 \in Pics /\ MaxChanges \in Nat
  BY <1>m DEF Stamps, Pics
<1>4. ListTypes
  <2>1. at \in AtTypes
    <3>1. Len(Slots) \in Nat
      BY SlotsListed
    <3> QED
      BY <1>i, <3>1 DEF ListSteps, NoListing, AtTypes
  <2>2. link \in {"mtp", "adb"} /\ clock \in 1..MaxChanges + 1 /\ changes \in 0..MaxChanges
    BY <1>3, <1>i
  <2>4. stamps \in [Guids -> [dir : Stamps, kmz : Stamps, jpg : Stamps, pic : Pics]]
    BY <1>3, <1>i
  <2>5. \A g \in Guids : /\ stamps[g].dir <= clock /\ stamps[g].kmz <= clock
                         /\ stamps[g].jpg <= clock /\ stamps[g].pic <= changes + 1
    BY <1>i
  <2>6. saved \in [name : [Guids -> SlotNames], flag : [Guids -> BOOLEAN], order : Orders]
    <3>1. saved = [name |-> [g \in Guids |-> ""], flag |-> [g \in Guids |-> TRUE], order |-> <<>>]
      BY DEF SlotListInit
    <3>2. "" \in SlotNames /\ <<>> \in Orders
      BY SlotListAssumption, Zenon
    <3>3. [g \in Guids |-> ""] \in [Guids -> SlotNames] /\ [g \in Guids |-> TRUE] \in [Guids -> BOOLEAN]
      BY <3>2, Zenon
    <3> QED
      BY <3>1, <3>2, <3>3, Zenon
  <2>7. images \in [Guids -> [Stamps -> Pics]]
    BY <1>3, <1>i
  <2>8. loaded \in [Guids -> Stamps] /\ (\A g \in Guids : loaded[g] <= clock) /\ hasty \in SUBSET Guids
    BY <1>3, <1>i
  <2>9. clock <= changes + 1
    BY <1>i
  <2> QED
    BY <2>1, <2>2, <2>4, <2>5, <2>6, <2>7, <2>8, <2>9 DEF ListTypes
<1>5. RowsPart
  BY <1>1, <1>2 DEF RowsPart
<1>6. StorePart
  BY <1>1, <1>2 DEF StorePart
<1>7. FreshPart
  <2>1. \A g \in Guids, v \in Stamps : images[g][v] = 0
    BY <1>i
  <2> QED
    BY <1>1, <1>2, <2>1 DEF FreshPart, NotStale
<1> QED
  BY <1>4, <1>5, <1>6, <1>7 DEF ListInv

\* What the arithmetic of the invariant needs.
LEMMA ListNumbers ==
  ASSUME ListInv
  PROVE  /\ clock \in Nat /\ changes \in Nat /\ changes <= MaxChanges /\ MaxChanges \in Nat
         /\ Stamps \subseteq Nat /\ 0 \in Stamps /\ Pics \subseteq Nat /\ 0 \in Pics
         /\ \A g \in Guids : /\ stamps[g].dir \in Stamps /\ stamps[g].kmz \in Stamps
                              /\ stamps[g].jpg \in Stamps /\ stamps[g].pic \in Pics
                              /\ loaded[g] \in Stamps
         /\ \A g \in Guids, v \in Stamps : images[g][v] \in Pics
         /\ \A i \in DOMAIN rows : /\ rows[i] \in Row /\ rows[i].guid \in Guids
                                   /\ rows[i].stamp \in Stamps /\ rows[i].pic \in Pics
         /\ DOMAIN rows = 1..Len(rows) /\ Len(rows) \in Nat
         /\ Len(Slots) \in Nat /\ DOMAIN Slots = 1..Len(Slots)
         /\ at.slot \in 1..Len(Slots) + 1 /\ at.slot \in Nat /\ at.pc \in ListSteps
         /\ at.pics \in BOOLEAN /\ at.all \in BOOLEAN
<1>1. MaxChanges \in Nat
  BY SlotListAssumption
<1>2. /\ clock \in Nat /\ changes \in Nat /\ changes <= MaxChanges
      /\ Stamps \subseteq Nat /\ 0 \in Stamps /\ Pics \subseteq Nat /\ 0 \in Pics
  BY <1>1 DEF ListInv, ListTypes, Stamps, Pics
<1>3. \A g \in Guids : /\ stamps[g].dir \in Stamps /\ stamps[g].kmz \in Stamps
                       /\ stamps[g].jpg \in Stamps /\ stamps[g].pic \in Pics
                       /\ loaded[g] \in Stamps
  BY DEF ListInv, ListTypes
<1>4. \A g \in Guids, v \in Stamps : images[g][v] \in Pics
  BY DEF ListInv, ListTypes
<1>5. rows \in Seq(Row)
  BY DEF ListInv, RowsPart
<1>6. \A i \in DOMAIN rows : rows[i] \in Row
  BY <1>5
<1>7. \A i \in DOMAIN rows : rows[i].guid \in Guids /\ rows[i].stamp \in Stamps /\ rows[i].pic \in Pics
  BY <1>6 DEF Row
<1>8. DOMAIN rows = 1..Len(rows) /\ Len(rows) \in Nat
  BY <1>5
<1>9. Len(Slots) \in Nat /\ DOMAIN Slots = 1..Len(Slots)
  BY SlotsListed
<1>10. at.slot \in 1..Len(Slots) + 1 /\ at.pc \in ListSteps /\ at.pics \in BOOLEAN /\ at.all \in BOOLEAN
  BY DEF ListInv, ListTypes, AtTypes
<1>11. at.slot \in Nat
  BY <1>9, <1>10
<1> QED
  BY <1>1, <1>2, <1>3, <1>4, <1>6, <1>7, <1>8, <1>9, <1>10, <1>11

\* What has been read stays where neither the rows nor the stores change.
LEMMA StoreStays ==
  ASSUME StorePart, UNCHANGED <<at, rows, saved, since>>
  PROVE  StorePart'
<1>1. \A order : InOrderOf(order)' <=> InOrderOf(order)
  BY DEF InOrderOf, Precedes
<1>2. at.pc = "answer" => \E order \in since'.order : InOrderOf(order)'
  BY <1>1 DEF StorePart
<1> QED
  BY <1>2 DEF StorePart

\* The files of a slot change on the device.
StampTypes == [dir : Stamps, kmz : Stamps, jpg : Stamps, pic : Pics]
LEMMA FilesInv ==
  ASSUME ListInv, NEW g \in Guids, NEW n \in StampTypes, stamps' = [stamps EXCEPT ![g] = n],
         changes' = changes + 1, changes < MaxChanges, clock' \in {clock, clock + 1},
         hasty' \in SUBSET Guids, hasty \subseteq hasty',
         n.dir <= clock', n.kmz <= clock', n.jpg <= clock',
         \/ n.jpg = stamps[g].jpg /\ n.pic = stamps[g].pic
         \/ n.pic = 0
         \/ n.pic = changes + 2 /\ (g \in hasty' \/ n.jpg > loaded[g]),
         UNCHANGED <<link, saved, at, rows, since, images, loaded>>
  PROVE  ListInv'
<1> USE ListNumbers
<1>1. stamps \in [Guids -> StampTypes]
  BY DEF ListInv, ListTypes, StampTypes
<1>2. stamps' \in [Guids -> StampTypes] /\ stamps'[g] = n /\ \A h \in Guids \ {g} : stamps'[h] = stamps[h]
  BY <1>1
<1>3. n.jpg \in Nat /\ n.pic \in Nat /\ n.pic <= changes' + 1
  <2>1. n.jpg \in Stamps /\ n.pic \in Pics
    BY DEF StampTypes
  <2>2. stamps[g].pic <= changes + 1 /\ stamps[g].pic \in Nat
    BY DEF ListInv, ListTypes
  <2> QED
    BY <2>1, <2>2
<1>n. clock \in Nat /\ changes \in Nat
  OBVIOUS
<1>4. clock <= clock' /\ clock' \in Nat /\ clock <= changes + 1 /\ changes + 1 <= changes' + 1
  <2>1. clock <= changes + 1
    BY DEF ListInv, ListTypes
  <2>2. CASE clock' = clock
    BY <1>n, <2>1, <2>2
  <2>3. CASE clock' = clock + 1
    BY <1>n, <2>1, <2>3
  <2> QED
    BY <2>2, <2>3
<1>u. \A k \in Nat : (k <= clock => k <= clock') /\ (k <= changes + 1 => k <= changes' + 1)
  BY <1>n, <1>4
<1>5. \A h \in Guids : /\ stamps'[h].dir <= clock' /\ stamps'[h].kmz <= clock'
                       /\ stamps'[h].jpg <= clock' /\ stamps'[h].pic <= changes' + 1
  <2> SUFFICES ASSUME NEW h \in Guids, h # g
               PROVE  /\ stamps[h].dir <= clock' /\ stamps[h].kmz <= clock'
                      /\ stamps[h].jpg <= clock' /\ stamps[h].pic <= changes' + 1
    BY <1>2, <1>3
  <2>1. /\ stamps[h].dir <= clock /\ stamps[h].kmz <= clock
        /\ stamps[h].jpg <= clock /\ stamps[h].pic <= changes + 1
    BY DEF ListInv, ListTypes
  <2>2. stamps[h].dir \in Nat /\ stamps[h].kmz \in Nat /\ stamps[h].jpg \in Nat /\ stamps[h].pic \in Nat
    OBVIOUS
  <2> QED
    BY <1>u, <2>1, <2>2
<1>6. /\ clock' \in 1..MaxChanges + 1 /\ changes' \in 0..MaxChanges /\ clock' <= changes' + 1
      /\ \A h \in Guids : loaded[h] <= clock'
  <2>1. clock \in 1..MaxChanges + 1 /\ changes \in 0..MaxChanges
        /\ \A h \in Guids : loaded[h] <= clock /\ loaded[h] \in Nat
    BY DEF ListInv, ListTypes
  <2> QED
    BY <1>4, <2>1
<1>7. ListTypes'
  BY <1>2, <1>5, <1>6 DEF ListInv, ListTypes, StampTypes
<1>8. RowsPart'
  <2>1. ASSUME NEW i \in DOMAIN rows PROVE rows[i].stamp <= clock' /\ rows[i].pic <= changes' + 1
    <3>1. rows[i].stamp <= clock /\ rows[i].pic <= changes + 1 /\ rows[i].stamp \in Nat /\ rows[i].pic \in Nat
      BY DEF ListInv, RowsPart
    <3> QED
      BY <1>u, <3>1
  <2> QED
    BY <2>1 DEF ListInv, RowsPart, AsListed
<1>9. StorePart'
  BY StoreStays DEF ListInv
<1>10. ASSUME NEW h \in Guids, NEW v \in Stamps PROVE NotStale(h, v)'
  <2> SUFFICES ASSUME images[h][v] # 0, h \notin hasty'
               PROVE  /\ v <= loaded[h]
                      /\ \/ stamps'[h].pic = 0 \/ stamps'[h].jpg > v
                         \/ stamps'[h].pic <= images[h][v]
    BY DEF NotStale
  <2>1. /\ v <= loaded[h]
        /\ stamps[h].pic = 0 \/ stamps[h].jpg > v \/ stamps[h].pic <= images[h][v]
    BY DEF ListInv, FreshPart, NotStale
  <2>2. v \in Nat /\ loaded[h] \in Nat /\ images[h][v] \in Nat
    OBVIOUS
  <2>3. CASE h # g
    BY <1>2, <2>1, <2>3
  <2>4. CASE h = g
    <3>1. stamps'[h] = n /\ g \notin hasty'
      BY <1>2, <2>4
    <3>2. CASE n.jpg = stamps[g].jpg /\ n.pic = stamps[g].pic
      BY <2>1, <2>4, <3>1, <3>2
    <3>3. CASE n.pic = 0
      BY <2>1, <2>4, <3>1, <3>3
    <3>4. CASE n.jpg > loaded[g]
      <4>1. n.jpg > v
        BY <1>3, <2>1, <2>2, <2>4, <3>4
      <4> QED
        BY <2>1, <3>1, <4>1
    <3> QED
      BY <3>1, <3>2, <3>3, <3>4
  <2> QED
    BY <2>3, <2>4
<1>11. ASSUME NEW i \in DOMAIN rows, RowFresh(rows[i]) PROVE RowFresh(rows[i])'
  <2> SUFFICES ASSUME rows[i].pic # 0, rows[i].guid \notin hasty'
               PROVE  stamps'[rows[i].guid].pic = 0 \/ stamps'[rows[i].guid].pic >= rows[i].pic
    BY <1>11 DEF RowFresh
  <2>1. stamps[rows[i].guid].pic = 0 \/ stamps[rows[i].guid].pic >= rows[i].pic
    BY <1>11 DEF RowFresh
  <2>2. rows[i].pic <= changes + 1 /\ rows[i].pic \in Nat /\ rows[i].guid \in Guids
    BY DEF ListInv, RowsPart
  <2>3. CASE rows[i].guid # g
    BY <1>2, <2>1, <2>2, <2>3
  <2>4. CASE rows[i].guid = g
    <3>1. stamps'[rows[i].guid] = n
      BY <1>2, <2>4
    <3>2. CASE n.pic = stamps[g].pic
      BY <2>1, <2>4, <3>1, <3>2
    <3>3. CASE n.pic = 0
      BY <3>1, <3>3
    <3>4. CASE n.pic = changes + 2
      <4>1. changes + 2 >= rows[i].pic
        BY <1>n, <2>2
      <4> QED
        BY <3>1, <3>4, <4>1
    <3> QED
      BY <3>2, <3>3, <3>4
  <2> QED
    BY <2>3, <2>4
<1>12. FreshPart'
  BY <1>10, <1>11 DEF ListInv, FreshPart
<1> QED
  BY <1>7, <1>8, <1>9, <1>12 DEF ListInv

LEMMA PutFileInv ==
  ASSUME ListInv, NEW g \in Guids, NEW what \in {"kmz", "jpg"}, PutFile(g, what)
  PROVE  ListInv'
<1>1. PICK second \in {clock, clock + 1} :
        /\ clock' = second
        /\ stamps' = [stamps EXCEPT ![g][what] = second,
                                    ![g].pic = IF what = "jpg" THEN changes + 2 ELSE @]
        /\ hasty' = IF what = "jpg" /\ second = loaded[g] THEN hasty \cup {g} ELSE hasty
  BY DEF PutFile
<1>2. changes' = changes + 1 /\ changes < MaxChanges
      /\ UNCHANGED <<link, saved, at, rows, since, images, loaded>>
  BY DEF PutFile, Change
<1> USE ListNumbers
<1>3. /\ stamps[g] \in StampTypes /\ stamps \in [Guids -> StampTypes]
      /\ stamps[g].dir <= clock /\ stamps[g].kmz <= clock /\ stamps[g].jpg <= clock
      /\ stamps[g].dir \in Nat /\ stamps[g].kmz \in Nat /\ stamps[g].jpg \in Nat
      /\ loaded[g] <= clock /\ loaded[g] \in Nat /\ clock <= changes + 1
  BY DEF ListInv, ListTypes, StampTypes
<1>n. clock \in Nat /\ changes \in Nat /\ MaxChanges \in Nat
  OBVIOUS
<1>4. second \in Stamps /\ changes + 2 \in Pics /\ second \in Nat
  <2>1. changes + 2 \in 0..MaxChanges + 1 /\ clock \in 0..MaxChanges + 1 /\ clock + 1 \in 0..MaxChanges + 1
    BY <1>2, <1>3, <1>n
  <2> QED
    BY <1>n, <2>1 DEF Stamps, Pics
<1>5. hasty' \in SUBSET Guids /\ hasty \subseteq hasty'
  <2>1. hasty \in SUBSET Guids
    BY DEF ListInv, ListTypes
  <2> QED
    BY <1>1, <2>1
<1>6. CASE what = "kmz"
  <2> DEFINE n == [stamps[g] EXCEPT !.kmz = second]
  <2>1. stamps' = [stamps EXCEPT ![g] = n]
    BY <1>1, <1>3, <1>6 DEF StampTypes
  <2>2. n \in StampTypes /\ n.dir = stamps[g].dir /\ n.kmz = second /\ n.jpg = stamps[g].jpg
        /\ n.pic = stamps[g].pic
    BY <1>3, <1>4 DEF StampTypes
  <2> HIDE DEF n
  <2>3. n.dir <= clock' /\ n.kmz <= clock' /\ n.jpg <= clock' /\ clock' \in {clock, clock + 1}
    BY <1>1, <1>3, <2>2
  <2> QED
    BY <1>2, <1>5, <2>1, <2>2, <2>3, FilesInv
<1>7. CASE what = "jpg"
  <2> DEFINE n == [stamps[g] EXCEPT !.jpg = second, !.pic = changes + 2]
  <2>1. stamps' = [stamps EXCEPT ![g] = n]
    BY <1>1, <1>3, <1>7 DEF StampTypes
  <2>2. n \in StampTypes /\ n.dir = stamps[g].dir /\ n.kmz = stamps[g].kmz /\ n.jpg = second
        /\ n.pic = changes + 2
    BY <1>3, <1>4 DEF StampTypes
  <2> HIDE DEF n
  <2>3. n.dir <= clock' /\ n.kmz <= clock' /\ n.jpg <= clock' /\ clock' \in {clock, clock + 1}
    BY <1>1, <1>3, <2>2
  <2>4. g \in hasty' \/ n.jpg > loaded[g]
    BY <1>1, <1>3, <1>4, <1>7, <2>2
  <2> QED
    BY <1>2, <1>5, <2>1, <2>2, <2>3, <2>4, FilesInv
<1> QED
  BY <1>6, <1>7

LEMMA RemoveFileInv ==
  ASSUME ListInv, NEW g \in Guids, NEW what \in {"kmz", "jpg"}, RemoveFile(g, what)
  PROVE  ListInv'
<1>1. /\ stamps' = [stamps EXCEPT ![g][what] = 0, ![g].pic = IF what = "jpg" THEN 0 ELSE @]
      /\ changes' = changes + 1 /\ changes < MaxChanges
      /\ UNCHANGED <<link, clock, hasty, saved, at, rows, since, images, loaded>>
  BY DEF RemoveFile, Change
<1> USE ListNumbers
<1>3. /\ stamps[g] \in StampTypes /\ stamps \in [Guids -> StampTypes]
      /\ stamps[g].dir <= clock /\ stamps[g].kmz <= clock /\ stamps[g].jpg <= clock
      /\ hasty \in SUBSET Guids
  BY DEF ListInv, ListTypes, StampTypes
<1>6. CASE what = "kmz"
  <2> DEFINE n == [stamps[g] EXCEPT !.kmz = 0]
  <2>1. stamps' = [stamps EXCEPT ![g] = n]
    BY <1>1, <1>3, <1>6 DEF StampTypes
  <2>2. n \in StampTypes /\ n.dir = stamps[g].dir /\ n.kmz = 0 /\ n.jpg = stamps[g].jpg
        /\ n.pic = stamps[g].pic
    BY <1>3 DEF StampTypes
  <2> HIDE DEF n
  <2>3. 0 <= clock /\ clock' \in {clock, clock + 1} /\ hasty' \in SUBSET Guids /\ hasty \subseteq hasty'
    BY <1>1, <1>3
  <2>4. n.dir <= clock' /\ n.kmz <= clock' /\ n.jpg <= clock'
    BY <1>1, <1>3, <2>2, <2>3
  <2> QED
    BY <1>1, <2>1, <2>2, <2>3, <2>4, FilesInv
<1>7. CASE what = "jpg"
  <2> DEFINE n == [stamps[g] EXCEPT !.jpg = 0, !.pic = 0]
  <2>1. stamps' = [stamps EXCEPT ![g] = n]
    BY <1>1, <1>3, <1>7 DEF StampTypes
  <2>2. n \in StampTypes /\ n.dir = stamps[g].dir /\ n.kmz = stamps[g].kmz /\ n.jpg = 0
        /\ n.pic = 0
    BY <1>3 DEF StampTypes
  <2> HIDE DEF n
  <2>3. 0 <= clock /\ clock' \in {clock, clock + 1} /\ hasty' \in SUBSET Guids /\ hasty \subseteq hasty'
    BY <1>1, <1>3
  <2>4. n.dir <= clock' /\ n.kmz <= clock' /\ n.jpg <= clock'
    BY <1>1, <1>3, <2>2, <2>3
  <2> QED
    BY <1>1, <2>1, <2>2, <2>3, <2>4, FilesInv
<1> QED
  BY <1>6, <1>7

Saves == [name : [Guids -> SlotNames], flag : [Guids -> BOOLEAN], order : Orders]

LEMMA SaveInv ==
  ASSUME ListInv, NEW s \in Saves, SaveOf(s)
  PROVE  ListInv'
<1>1. /\ changes' = changes + 1 /\ changes < MaxChanges /\ saved' = s /\ since' = SinceThen(s)
      /\ UNCHANGED <<link, stamps, clock, hasty, at, rows, images, loaded>>
  BY DEF SaveOf, Change, controllerVars
<1> USE ListNumbers
<1>2. changes' \in 0..MaxChanges /\ \A n \in Nat : n <= changes + 1 => n <= changes' + 1
  BY <1>1
<1>4. ListTypes'
  <2>1. clock <= changes' + 1 /\ \A g \in Guids : stamps[g].pic <= changes' + 1
    BY <1>2 DEF ListInv, ListTypes
  <2> QED
    BY <1>1, <1>2, <2>1 DEF ListInv, ListTypes, Saves
<1>5. RowsPart'
  <2>1. \A i \in DOMAIN rows : rows[i].pic <= changes' + 1
    <3>1. \A i \in DOMAIN rows : rows[i].pic \in Nat /\ rows[i].pic <= changes + 1
      BY DEF ListInv, RowsPart
    <3> QED
      BY <1>2, <3>1
  <2> QED
    BY <1>1, <2>1 DEF ListInv, RowsPart, AsListed
<1>6. StorePart'
  <2>1. CASE at.pc = "rest"
    <3>1. DOMAIN rows = {}
      BY <2>1 DEF ListInv, RowsPart
    <3> QED
      BY <1>1, <2>1, <3>1 DEF StorePart
  <2>2. CASE at.pc # "rest"
    <3>1. since' = [name |-> [g \in Guids |-> since.name[g] \cup {s.name[g]}],
                    flag |-> [g \in Guids |-> since.flag[g] \cup {s.flag[g]}],
                    order |-> since.order \cup {s.order}]
      BY <1>1, <2>2 DEF SinceThen
    <3>2. /\ \A g \in Guids : /\ since.name[g] \subseteq since'.name[g] /\ s.name[g] \in since'.name[g]
                              /\ since.flag[g] \subseteq since'.flag[g] /\ s.flag[g] \in since'.flag[g]
          /\ since.order \subseteq since'.order /\ s.order \in since'.order
      BY <3>1
    <3>3. \A order : InOrderOf(order)' <=> InOrderOf(order)
      BY <1>1 DEF InOrderOf, Precedes
    <3>4. at.pc = "answer" => \E order \in since'.order : InOrderOf(order)'
      BY <3>2, <3>3 DEF ListInv, StorePart
    <3>5. \A i \in DOMAIN rows :
            /\ at.pc \in {"flag", "order", "answer"} \/ (at.pc = "name" /\ i < at.slot) =>
                 rows[i].name \in since'.name[rows[i].guid]
            /\ at.pc \in {"order", "answer"} \/ (at.pc = "flag" /\ i < at.slot) =>
                 rows[i].flag \in since'.flag[rows[i].guid]
      BY <3>2 DEF ListInv, StorePart
    <3> QED
      BY <1>1, <3>2, <3>4, <3>5 DEF StorePart
  <2> QED
    BY <2>1, <2>2
<1>9. FreshPart'
  BY <1>1 DEF ListInv, FreshPart, NotStale, RowFresh
<1> QED
  BY <1>4, <1>5, <1>6, <1>9 DEF ListInv

LEMMA SavesInv ==
  ASSUME ListInv,
         \/ \E g \in Guids : (\E name \in SlotNames : SetSlotName(g, name)) \/ SetSlotManaged(g)
         \/ \E order \in Orders : SetSlotOrder(order)
  PROVE  ListInv'
<1>1. saved \in Saves
  BY DEF ListInv, ListTypes, Saves
<1>2. ASSUME NEW g \in Guids, NEW name \in SlotNames PROVE [saved EXCEPT !.name[g] = name] \in Saves
  BY <1>1 DEF Saves
<1>3. ASSUME NEW g \in Guids PROVE [saved EXCEPT !.flag[g] = ~@] \in Saves
  <2>1. saved.flag \in [Guids -> BOOLEAN]
    BY <1>1 DEF Saves
  <2>2. [saved.flag EXCEPT ![g] = ~@] \in [Guids -> BOOLEAN]
    BY <2>1, Zenon
  <2>3. [saved EXCEPT !.flag[g] = ~@] = [saved EXCEPT !.flag = [saved.flag EXCEPT ![g] = ~@]]
    BY <1>1, <2>1, Zenon DEF Saves
  <2> DEFINE flag == [saved.flag EXCEPT ![g] = ~@]
  <2> HIDE DEF flag
  <2>4. flag \in [Guids -> BOOLEAN] => [saved EXCEPT !.flag = flag] \in Saves
    BY <1>1 DEF Saves
  <2> QED
    BY <2>2, <2>3, <2>4 DEF flag
<1>4. ASSUME NEW order \in Orders PROVE [saved EXCEPT !.order = order] \in Saves
  BY <1>1 DEF Saves
<1> QED
  BY <1>2, <1>3, <1>4, SaveInv DEF SetSlotName, SetSlotManaged, SetSlotOrder

\* A step of the listing itself: nothing changes but the rows and the place in it.
LEMMA Grows ==
  ASSUME ListInv, changes' \in changes .. MaxChanges
  PROVE  /\ changes' \in 0..MaxChanges /\ changes' \in Nat
         /\ \A n \in Nat : n <= changes + 1 => n <= changes' + 1
<1>1. changes \in Nat /\ MaxChanges \in Nat
  BY ListNumbers
<1>2. changes' \in Nat /\ changes <= changes' /\ changes' \in 0..MaxChanges
  BY <1>1
<1>3. ASSUME NEW n \in Nat, n <= changes + 1 PROVE n <= changes' + 1
  <2> SUFFICES ASSUME NEW c \in Nat, NEW d \in Nat, c <= d, n <= c + 1 PROVE n <= d + 1
    BY <1>1, <1>2, <1>3
  <2> QED
    OBVIOUS
<1> QED
  BY <1>2, <1>3

LEMMA StepTypes ==
  ASSUME ListInv, UNCHANGED <<controllerVars, saved, images, loaded>>, changes' \in changes .. MaxChanges,
         at' \in AtTypes
  PROVE  ListTypes' /\ \A g \in Guids, v \in Stamps : NotStale(g, v)'
<1>1. changes' \in 0..MaxChanges /\ \A n \in Nat : n <= changes + 1 => n <= changes' + 1
  BY Grows
<1>2. clock <= changes' + 1 /\ \A g \in Guids : stamps[g].pic <= changes' + 1
  <2>1. clock \in Nat /\ (\A g \in Guids : stamps[g].pic \in Nat) /\ clock <= changes + 1
        /\ \A g \in Guids : stamps[g].pic <= changes + 1
    BY ListNumbers DEF ListInv, ListTypes
  <2> QED
    BY <1>1, <2>1
<1>3. ListTypes'
  BY <1>1, <1>2 DEF ListInv, ListTypes, controllerVars
<1> QED
  BY <1>3 DEF ListInv, FreshPart, NotStale, controllerVars

LEMMA StillFresh ==
  ASSUME UNCHANGED <<controllerVars, images>>, NEW r, RowFresh(r), NEW i, rows'[i] = r
  PROVE  RowFresh(rows[i])'
BY DEF RowFresh, controllerVars

LEMMA MissesType ==
  ASSUME ListInv, NEW missed \in BOOLEAN, Misses(missed)
  PROVE  changes' \in changes .. MaxChanges
<1>1. changes \in Nat /\ MaxChanges \in Nat /\ changes <= MaxChanges
  BY ListNumbers
<1> QED
  BY <1>1 DEF Misses, Change

LEMMA NoMiss ==
  ASSUME ListInv, UNCHANGED changes
  PROVE  changes' \in changes .. MaxChanges
BY ListNumbers

LEMMA AskSlotsInv ==
  ASSUME ListInv, AskSlots
  PROVE  ListInv'
<1>1. /\ at.pc = "rest" /\ at' = [NoListing EXCEPT !.pc = "dir"]
      /\ since' = [name |-> [g \in Guids |-> {saved.name[g]}],
                   flag |-> [g \in Guids |-> {saved.flag[g]}], order |-> {saved.order}]
      /\ UNCHANGED <<controllerVars, saved, changes, rows, images, loaded>>
  BY DEF AskSlots, ListStep
<1>2. rows = <<>> /\ DOMAIN rows = {} /\ rows' = <<>> /\ at'.pc = "dir" /\ at'.slot = 1
  BY <1>1 DEF ListInv, RowsPart, NoListing
<1>3. ListTypes' /\ \A g \in Guids, v \in Stamps : NotStale(g, v)'
  <2>1. at' \in AtTypes
    <3>1. at' = [pc |-> "dir", slot |-> 1, pics |-> FALSE, all |-> FALSE] /\ Len(Slots) \in Nat
      BY <1>1, ListNumbers DEF NoListing
    <3> QED
      BY <3>1 DEF ListSteps, AtTypes
  <2>2. changes' \in changes .. MaxChanges
    BY <1>1, NoMiss
  <2> QED
    BY <1>1, <2>1, <2>2, StepTypes
<1>4. RowsPart'
  BY <1>2 DEF ListInv, RowsPart
<1>5. StorePart'
  BY <1>1, <1>2 DEF StorePart
<1>6. FreshPart'
  BY <1>2, <1>3 DEF FreshPart
<1> QED
  BY <1>3, <1>4, <1>5, <1>6 DEF ListInv

LEMMA ListWaypointDirInv ==
  ASSUME ListInv, NEW missed \in BOOLEAN, ListWaypointDir(missed)
  PROVE  ListInv'
<1>1. /\ at.pc = "dir" /\ Misses(missed)
      /\ at' = [at EXCEPT !.pc = IF link = "mtp" THEN "previews" ELSE "kmz",
                          !.pics = (link = "adb"), !.all = ~missed]
      /\ rows' = IF missed THEN <<>> ELSE [i \in DOMAIN Slots |-> DefaultRow(Slots[i])]
      /\ UNCHANGED <<controllerVars, saved, since, images, loaded>>
  BY DEF ListWaypointDir, ListStep, Rows
<1>2. at.slot = 1 /\ at \in AtTypes
  BY <1>1 DEF ListInv, FreshPart, ListTypes
<1>4. at' \in AtTypes /\ at'.pc \in {"previews", "kmz"} /\ at'.slot = 1 /\ at'.all = ~missed
  <2>1. PICK p \in {"previews", "kmz"}, b \in BOOLEAN, a \in BOOLEAN :
          a = ~missed /\ at' = [at EXCEPT !.pc = p, !.pics = b, !.all = a]
    <3>1. (IF link = "mtp" THEN "previews" ELSE "kmz") \in {"previews", "kmz"}
      OBVIOUS
    <3>2. (link = "adb") \in BOOLEAN /\ (~missed) \in BOOLEAN
      OBVIOUS
    <3> QED
      BY <1>1, <3>1, <3>2, Zenon
  <2> QED
    BY <1>2, <2>1 DEF AtTypes, ListSteps
<1>5. ListTypes' /\ \A g \in Guids, v \in Stamps : NotStale(g, v)'
  <2>2. changes' \in changes .. MaxChanges
    BY <1>1, MissesType
  <2> QED
    BY <1>1, <1>4, <2>2, StepTypes
<1>6. \A g \in Guids : /\ DefaultRow(g) \in Row /\ DefaultRow(g).guid = g /\ DefaultRow(g).pic = 0
                       /\ DefaultRow(g).stamp <= clock
  <2> SUFFICES ASSUME NEW g \in Guids
               PROVE  /\ DefaultRow(g) \in Row /\ DefaultRow(g).guid = g /\ DefaultRow(g).pic = 0
                      /\ DefaultRow(g).stamp <= clock
    OBVIOUS
  <2>1. PICK none \in SlotNames :
          DefaultRow(g) = [guid |-> g, stamp |-> stamps[g].dir, pic |-> 0, name |-> none, flag |-> TRUE]
    BY SlotListAssumption, Zenon DEF DefaultRow
  <2>2. stamps[g].dir \in Stamps /\ 0 \in Pics /\ stamps[g].dir <= clock
    BY ListNumbers DEF ListInv, ListTypes
  <2> QED
    BY <2>1, <2>2 DEF Row
<1>7. rows' \in Seq(Row) /\ AsListed(~missed, rows')
      /\ \A i \in DOMAIN rows' : rows'[i].pic = 0 /\ rows'[i].stamp <= clock
  <2>1. CASE missed
    BY <1>1, <2>1 DEF AsListed
  <2>2. CASE ~missed
    <3>1. Len(Slots) \in Nat /\ DOMAIN Slots = 1..Len(Slots) /\ \A i \in 1..Len(Slots) : Slots[i] \in Guids
      BY SlotsListed
    <3>2. rows' = [i \in 1..Len(Slots) |-> DefaultRow(Slots[i])]
      BY <1>1, <2>2, <3>1
    <3>3. \A i \in 1..Len(Slots) : /\ DefaultRow(Slots[i]) \in Row /\ DefaultRow(Slots[i]).guid = Slots[i]
                                   /\ DefaultRow(Slots[i]).pic = 0 /\ DefaultRow(Slots[i]).stamp <= clock
      BY <1>6, <3>1
    <3> QED
      BY <2>2, <3>1, <3>2, <3>3 DEF AsListed
  <2> QED
    BY <2>1, <2>2
<1>9. RowsPart'
  <2>1. 0 <= changes' + 1 /\ clock' = clock
    <3>1. changes' \in Nat
      BY <1>1, MissesType, Grows
    <3> QED
      BY <1>1, <3>1 DEF controllerVars
  <2>2. \A i \in DOMAIN rows' : rows'[i].pic <= changes' + 1
    BY <1>7, <2>1
  <2> QED
    BY <1>4, <1>7, <2>1, <2>2 DEF RowsPart
<1>10. StorePart'
  BY <1>1, <1>4 DEF ListInv, StorePart
<1>11. FreshPart'
  BY <1>4, <1>5, <1>7 DEF FreshPart, RowFresh
<1> QED
  BY <1>5, <1>9, <1>10, <1>11 DEF ListInv

LEMMA GoesOn ==
  ASSUME ListInv, NEW pc \in ListSteps, NEW slot \in 1..Len(Slots) + 1, GoOn(pc, slot)
  PROVE  /\ at' \in AtTypes
         /\ at'.pc = pc /\ at'.slot = slot /\ at'.all = at.all
BY DEF GoOn, ListInv, ListTypes, AtTypes

\* A step that reads something of one slot into its row.
LEMMA RowRead ==
  ASSUME ListInv, UNCHANGED <<controllerVars, saved, since, images, loaded>>,
         changes' \in changes .. MaxChanges, at' \in AtTypes,
         NEW k \in DOMAIN rows, NEW r \in Row, r.guid = rows[k].guid, r.stamp <= clock,
         r.pic <= changes + 1,
         link = "mtp" => RowFresh(r),
         rows' = [rows EXCEPT ![k] = r]
  PROVE  /\ ListTypes' /\ \A g \in Guids, v \in Stamps : NotStale(g, v)'
         /\ link' = "mtp" => \A i \in DOMAIN rows' : RowFresh(rows[i])'
         /\ rows' \in Seq(Row) /\ Len(rows') = Len(rows) /\ DOMAIN rows' = DOMAIN rows /\ rows'[k] = r
         /\ \A i \in DOMAIN rows' : /\ rows'[i].guid = rows[i].guid
                                    /\ rows'[i].stamp <= clock' /\ rows'[i].pic <= changes' + 1
                                    /\ i # k => rows'[i] = rows[i]
         /\ AsListed(at.all, rows) => AsListed(at.all, rows')
<1>1. ListTypes' /\ \A g \in Guids, v \in Stamps : NotStale(g, v)'
  BY StepTypes
<1>3. rows \in Seq(Row)
  BY DEF ListInv, RowsPart
<1>4. rows' \in Seq(Row) /\ Len(rows') = Len(rows) /\ DOMAIN rows' = DOMAIN rows /\ rows'[k] = r
      /\ \A i \in DOMAIN rows' : i # k => rows'[i] = rows[i]
  BY <1>3
<1>5. \A i \in DOMAIN rows' : rows'[i].guid = rows[i].guid
  BY <1>4
<1>6. AsListed(at.all, rows) => AsListed(at.all, rows')
  BY <1>4, <1>5 DEF AsListed
<1>p. \A n \in Nat : n <= changes + 1 => n <= changes' + 1
  BY Grows
<1>7. \A i \in DOMAIN rows' : rows'[i].stamp <= clock' /\ rows'[i].pic <= changes' + 1
  <2>1. \A i \in DOMAIN rows' : /\ rows'[i].stamp <= clock /\ rows'[i].pic <= changes + 1
                                /\ rows'[i].pic \in Nat
    BY <1>4, ListNumbers DEF ListInv, RowsPart, Row
  <2> QED
    BY <1>p, <2>1 DEF controllerVars
<1>8. ASSUME link = "mtp", NEW i \in DOMAIN rows PROVE RowFresh(rows[i])'
  <2>1. CASE i = k
    BY <1>4, <1>8, <2>1, StillFresh
  <2>2. CASE i # k
    <3>1. RowFresh(rows[i]) /\ rows'[i] = rows[i]
      BY <1>4, <1>8, <2>2 DEF ListInv, FreshPart
    <3> QED
      BY <3>1, StillFresh
  <2> QED
    BY <2>1, <2>2
<1>9. link' = link
  BY DEF controllerVars
<1> QED
  BY <1>1, <1>4, <1>5, <1>6, <1>7, <1>8, <1>9

\* A step that leaves the rows alone.
LEMMA RowsStay ==
  ASSUME ListInv, UNCHANGED <<controllerVars, saved, since, images, loaded, rows>>,
         changes' \in changes .. MaxChanges, at' \in AtTypes
  PROVE  /\ ListTypes' /\ \A g \in Guids, v \in Stamps : NotStale(g, v)'
         /\ link' = "mtp" => \A i \in DOMAIN rows' : RowFresh(rows[i])'
         /\ rows' \in Seq(Row) /\ \A i \in DOMAIN rows' : rows'[i].stamp <= clock' /\ rows'[i].pic <= changes' + 1
<1>1. ListTypes' /\ \A g \in Guids, v \in Stamps : NotStale(g, v)'
  BY StepTypes
<1>p. \A n \in Nat : n <= changes + 1 => n <= changes' + 1
  BY Grows
<1>2. rows' \in Seq(Row) /\ \A i \in DOMAIN rows' : rows'[i].stamp <= clock' /\ rows'[i].pic <= changes' + 1
  BY <1>p, ListNumbers DEF ListInv, RowsPart, controllerVars
<1>3. link' = "mtp" => \A i \in DOMAIN rows' : RowFresh(rows[i])'
  <2> SUFFICES ASSUME link' = "mtp", NEW i \in DOMAIN rows PROVE RowFresh(rows[i])'
    OBVIOUS
  <2>1. RowFresh(rows[i]) /\ rows'[i] = rows[i]
    BY DEF ListInv, FreshPart, controllerVars
  <2> QED
    BY <2>1, StillFresh
<1> QED
  BY <1>1, <1>2, <1>3

LEMMA ListPreviewDirInv ==
  ASSUME ListInv, NEW missed \in BOOLEAN, ListPreviewDir(missed)
  PROVE  ListInv'
<1>1. /\ at.pc = "previews" /\ at' = [at EXCEPT !.pc = "kmz", !.pics = ~missed] /\ Misses(missed)
      /\ UNCHANGED <<controllerVars, saved, since, images, loaded, rows>>
  BY DEF ListPreviewDir, ListStep, Rows
<1>2. at' \in AtTypes /\ at'.pc = "kmz" /\ at'.slot = at.slot /\ at'.all = at.all
  <2>1. PICK b \in BOOLEAN : at' = [at EXCEPT !.pc = "kmz", !.pics = b]
    BY <1>1, Zenon
  <2> QED
    BY <2>1 DEF ListInv, ListTypes, ListSteps, AtTypes
<1>3. changes' \in changes .. MaxChanges
  BY <1>1, MissesType
<1>4. /\ ListTypes' /\ \A g \in Guids, v \in Stamps : NotStale(g, v)'
      /\ link' = "mtp" => \A i \in DOMAIN rows' : RowFresh(rows[i])'
      /\ rows' \in Seq(Row) /\ \A i \in DOMAIN rows' : rows'[i].stamp <= clock' /\ rows'[i].pic <= changes' + 1
  BY <1>1, <1>2, <1>3, RowsStay
<1>5. RowsPart'
  BY <1>1, <1>2, <1>4 DEF ListInv, RowsPart
<1>6. StorePart'
  BY <1>1, <1>2 DEF ListInv, StorePart
<1>7. FreshPart'
  BY <1>1, <1>2, <1>4 DEF ListInv, FreshPart
<1> QED
  BY <1>4, <1>5, <1>6, <1>7 DEF ListInv

LEMMA NewerNumber ==
  ASSUME NEW s \in Stamps, NEW t \in Stamps, NEW c \in Nat, s <= c, t <= c
  PROVE  Newer(s, t) \in Stamps /\ Newer(s, t) <= c /\ t <= Newer(s, t)
<1>m. MaxChanges \in Nat
  BY SlotListAssumption, Zenon
<1>1. Stamps \subseteq Nat
  BY <1>m DEF Stamps
<1>2. s \in Nat /\ t \in Nat
  BY <1>1
<1> QED
  BY <1>2 DEF Newer

LEMMA StatKMZInv ==
  ASSUME ListInv, NEW missed \in BOOLEAN, StatKMZ(missed)
  PROVE  ListInv'
<1> DEFINE k == at.slot
<1>1. /\ at.pc = "kmz" /\ k <= Len(rows) /\ Misses(missed)
      /\ IF at.pics THEN GoOn("jpg", k) ELSE GoOn("kmz", k + 1)
      /\ rows' = IF missed THEN rows
                 ELSE [rows EXCEPT ![k].stamp = Newer(@, stamps[rows[k].guid].kmz)]
      /\ UNCHANGED <<controllerVars, saved, since, images, loaded>>
  BY DEF StatKMZ, ListStep, Rows, Slot
<1> USE ListNumbers
<1>2. k \in DOMAIN rows /\ Len(rows) = Len(Slots) /\ AsListed(at.all, rows)
      /\ \A i \in DOMAIN rows : k <= i => rows[i].pic = 0
  <2>1. k \in DOMAIN rows /\ AsListed(at.all, rows)
    BY <1>1 DEF ListInv, RowsPart
  <2>2. Len(rows) = Len(Slots)
    <3>1. rows # <<>>
      BY <2>1
    <3> QED
      BY <2>1, <3>1, Zenon DEF AsListed
  <2> QED
    BY <1>1, <2>1, <2>2 DEF ListInv, FreshPart
<1>3. changes' \in changes .. MaxChanges
  BY <1>1, MissesType
<1>4. /\ at' \in AtTypes
      /\ at'.all = at.all
      /\ \/ at'.pc = "jpg" /\ at'.slot = k
         \/ at'.pc = "kmz" /\ at'.slot = k + 1
  <2>1. "jpg" \in ListSteps /\ "kmz" \in ListSteps /\ k \in 1..Len(Slots) + 1 /\ k + 1 \in 1..Len(Slots) + 1
    BY <1>2 DEF ListSteps
  <2>2. CASE at.pics
    BY <1>1, <2>1, <2>2, GoesOn
  <2>3. CASE ~at.pics
    BY <1>1, <2>1, <2>3, GoesOn
  <2> QED
    BY <2>2, <2>3
<1>5. rows \in Seq(Row)
  BY DEF ListInv, RowsPart
<1> HIDE DEF k
<1>6. PICK r \in Row : /\ r.guid = rows[k].guid /\ r.stamp <= clock /\ r.pic = 0
                       /\ rows' = [rows EXCEPT ![k] = r]
  <2>0. rows[k].stamp <= clock /\ rows[k].pic = 0 /\ 0 <= clock /\ rows[k] \in Row /\ rows[k].guid \in Guids
    BY <1>2 DEF ListInv, RowsPart
  <2>1. CASE missed
    <3>1. rows' = [rows EXCEPT ![k] = rows[k]]
      BY <1>1, <1>2, <1>5, <2>1 DEF k
    <3> QED
      BY <2>0, <3>1
  <2>2. CASE ~missed
    <3> DEFINE n == Newer(rows[k].stamp, stamps[rows[k].guid].kmz)
    <3>1. n \in Stamps /\ n <= clock
      <4>1. stamps[rows[k].guid].kmz <= clock /\ stamps[rows[k].guid].kmz \in Stamps
            /\ rows[k].stamp \in Stamps
        BY <1>2, <2>0 DEF ListInv, ListTypes
      <4> QED
        BY <2>0, <4>1, NewerNumber
    <3>2. rows' = [rows EXCEPT ![k] = [rows[k] EXCEPT !.stamp = n]]
      BY <1>1, <1>2, <1>5, <2>2 DEF k
    <3> HIDE DEF n
    <3>3. [rows[k] EXCEPT !.stamp = n] \in Row
      BY <2>0, <3>1 DEF Row
    <3>4. [rows[k] EXCEPT !.stamp = n].guid = rows[k].guid /\ [rows[k] EXCEPT !.stamp = n].pic = 0
          /\ [rows[k] EXCEPT !.stamp = n].stamp = n
      BY <2>0 DEF Row
    <3> QED
      BY <3>1, <3>2, <3>3, <3>4
  <2> QED
    BY <2>1, <2>2
<1>7. RowFresh(r) /\ r.pic <= changes + 1
  BY <1>6 DEF RowFresh
<1>8. /\ ListTypes' /\ \A g \in Guids, v \in Stamps : NotStale(g, v)'
      /\ link' = "mtp" => \A i \in DOMAIN rows' : RowFresh(rows[i])'
      /\ rows' \in Seq(Row) /\ Len(rows') = Len(rows) /\ DOMAIN rows' = DOMAIN rows /\ rows'[k] = r
      /\ \A i \in DOMAIN rows' : /\ rows'[i].guid = rows[i].guid
                                 /\ rows'[i].stamp <= clock' /\ rows'[i].pic <= changes' + 1
                                 /\ i # k => rows'[i] = rows[i]
      /\ AsListed(at.all, rows')
  BY <1>1, <1>2, <1>3, <1>4, <1>6, <1>7, RowRead
<1>9. RowsPart'
  BY <1>2, <1>4, <1>8 DEF RowsPart
<1>10. StorePart'
  BY <1>1, <1>4 , <1>8 DEF ListInv, StorePart
<1>11. FreshPart'
  <2>1. \A i \in DOMAIN rows' : at'.slot <= i => rows'[i].pic = 0
    <3>1. \A i \in DOMAIN rows' : at'.slot <= i => k <= i
      BY <1>4, <1>8 DEF k
    <3> QED
      BY <1>2, <1>6, <1>8, <3>1
  <2> QED
    BY <1>4, <1>8, <2>1 DEF FreshPart
<1> QED
  BY <1>8, <1>9, <1>10, <1>11 DEF ListInv

LEMMA StatPreviewInv ==
  ASSUME ListInv, NEW missed \in BOOLEAN, StatPreview(missed)
  PROVE  ListInv'
<1> DEFINE k == at.slot
<1> DEFINE jpg == stamps[rows[k].guid].jpg
<1> DEFINE pic == stamps[rows[k].guid].pic
<1>1. /\ at.pc = "jpg" /\ Misses(missed) /\ GoOn("kmz", k + 1)
      /\ rows' = IF missed THEN rows
                 ELSE [rows EXCEPT ![k].pic = pic, ![k].stamp = RolledIn(@, jpg)]
      /\ UNCHANGED <<controllerVars, saved, since, images, loaded>>
  BY DEF StatPreview, ListStep, Rows, Slot
<1> USE ListNumbers
<1>2. k \in DOMAIN rows /\ Len(rows) = Len(Slots) /\ AsListed(at.all, rows)
      /\ \A i \in DOMAIN rows : k <= i => rows[i].pic = 0
  <2>1. k \in DOMAIN rows /\ AsListed(at.all, rows)
    BY <1>1 DEF ListInv, RowsPart
  <2>2. Len(rows) = Len(Slots)
    <3>1. rows # <<>>
      BY <2>1
    <3> QED
      BY <2>1, <3>1, Zenon DEF AsListed
  <2> QED
    BY <1>1, <2>1, <2>2 DEF ListInv, FreshPart
<1>3. changes' \in changes .. MaxChanges
  BY <1>1, MissesType
<1>4. /\ at' \in AtTypes
      /\ at'.pc = "kmz" /\ at'.slot = k + 1 /\ at'.all = at.all
  <2>1. "kmz" \in ListSteps /\ k + 1 \in 1..Len(Slots) + 1
    BY <1>2 DEF ListSteps
  <2> QED
    BY <1>1, <2>1, GoesOn
<1>5. rows \in Seq(Row)
  BY DEF ListInv, RowsPart
<1>j. jpg \in Stamps /\ jpg <= clock /\ pic \in Pics /\ pic <= changes + 1 /\ rows[k].guid \in Guids
  BY <1>2 DEF ListInv, ListTypes
<1> HIDE DEF k
<1>6. PICK r \in Row : /\ r.guid = rows[k].guid /\ r.stamp <= clock /\ r.pic <= changes + 1
                       /\ rows' = [rows EXCEPT ![k] = r]
                       /\ link = "mtp" => RowFresh(r)
  <2>0. rows[k].stamp <= clock /\ rows[k].pic = 0 /\ 0 <= clock /\ rows[k] \in Row
        /\ rows[k].stamp \in Stamps
    BY <1>2 DEF ListInv, RowsPart
  <2>1. CASE missed
    <3>1. rows' = [rows EXCEPT ![k] = rows[k]]
      BY <1>1, <1>2, <1>5, <2>1 DEF k
    <3>2. RowFresh(rows[k])
      BY <2>0 DEF RowFresh
    <3>3. changes \in Nat
      OBVIOUS
    <3>4. rows[k].pic <= changes + 1
      BY <2>0, <3>3
    <3> QED
      BY <2>0, <3>1, <3>2, <3>4
  <2>2. CASE ~missed
    <3> DEFINE n == RolledIn(rows[k].stamp, jpg)
    <3>1. n \in Stamps /\ n <= clock /\ (link = "mtp" => jpg <= n)
      BY <1>j, <2>0, NewerNumber DEF RolledIn
    <3>2. rows' = [rows EXCEPT ![k] = [rows[k] EXCEPT !.pic = pic, !.stamp = n]]
      BY <1>1, <1>2, <1>5, <2>0, <2>2 DEF Row
    <3> HIDE DEF n, jpg, pic
    <3> DEFINE r == [rows[k] EXCEPT !.pic = pic, !.stamp = n]
    <3>3. r \in Row
      BY <1>j, <2>0, <3>1 DEF Row
    <3>4. r.guid = rows[k].guid /\ r.pic = pic /\ r.stamp = n
      BY <2>0 DEF Row
    <3> HIDE DEF r
    <3>5. link = "mtp" => RowFresh(r)
      <4> SUFFICES ASSUME link = "mtp", r.guid \notin hasty
                   PROVE  /\ stamps[r.guid].pic = 0 \/ stamps[r.guid].pic >= pic
                          /\ images[r.guid][n] = 0 \/ images[r.guid][n] >= pic
        BY <3>4 DEF RowFresh
      <4>1. /\ jpg = stamps[r.guid].jpg /\ pic = stamps[r.guid].pic /\ r.guid \in Guids
            /\ jpg \in Nat /\ n \in Nat /\ pic \in Nat /\ jpg <= n
        BY <1>j, <3>1, <3>4 DEF jpg, pic
      <4>2. NotStale(r.guid, n)
        BY <3>1, <4>1 DEF ListInv, FreshPart
      <4>3. images[r.guid][n] \in Nat
        BY <3>1, <4>1
      <4>4. images[r.guid][n] # 0 => pic <= images[r.guid][n]
        <5> DEFINE seen == images[r.guid][n]
        <5>1. seen # 0 => pic = 0 \/ jpg > n \/ pic <= seen
          BY <4>1, <4>2, Zenon DEF NotStale
        <5>2. seen \in Nat
          BY <4>3
        <5> HIDE DEF seen
        <5>3. seen # 0 => pic <= seen
          BY <4>1, <5>1, <5>2
        <5> QED
          BY <5>3 DEF seen
      <4> QED
        BY <4>1, <4>3, <4>4
    <3>6. rows' = [rows EXCEPT ![k] = r]
      BY <3>2 DEF r
    <3> QED
      BY <1>j, <3>1, <3>3, <3>4, <3>5, <3>6
  <2> QED
    BY <2>1, <2>2
<1>8. /\ ListTypes' /\ \A g \in Guids, v \in Stamps : NotStale(g, v)'
      /\ link' = "mtp" => \A i \in DOMAIN rows' : RowFresh(rows[i])'
      /\ rows' \in Seq(Row) /\ Len(rows') = Len(rows) /\ DOMAIN rows' = DOMAIN rows /\ rows'[k] = r
      /\ \A i \in DOMAIN rows' : /\ rows'[i].guid = rows[i].guid
                                 /\ rows'[i].stamp <= clock' /\ rows'[i].pic <= changes' + 1
                                 /\ i # k => rows'[i] = rows[i]
      /\ AsListed(at.all, rows')
  BY <1>1, <1>2, <1>3, <1>4, <1>6, RowRead
<1>9. RowsPart'
  BY <1>2, <1>4, <1>8 DEF RowsPart
<1>10. StorePart'
  BY <1>1, <1>4 , <1>8 DEF ListInv, StorePart
<1>11. FreshPart'
  <2>1. \A i \in DOMAIN rows' : at'.slot <= i => rows'[i].pic = 0
    <3>1. \A i \in DOMAIN rows' : at'.slot <= i => k <= i /\ i # k
      BY <1>2, <1>4, <1>8 DEF k
    <3> QED
      BY <1>2, <1>8, <3>1
  <2> QED
    BY <1>4, <1>8, <2>1 DEF FreshPart
<1> QED
  BY <1>8, <1>9, <1>10, <1>11 DEF ListInv

LEMMA DeviceListedInv ==
  ASSUME ListInv, DeviceListed
  PROVE  ListInv'
<1>1. /\ at.pc = "kmz" /\ GoOn("name", 1)
      /\ UNCHANGED <<controllerVars, saved, since, images, loaded, rows, changes>>
  BY DEF DeviceListed, ListStep, Rows
<1>2. at' \in AtTypes
      /\ at'.pc = "name" /\ at'.slot = 1 /\ at'.all = at.all
  <2>1. "name" \in ListSteps /\ 1 \in 1..Len(Slots) + 1
    BY ListNumbers DEF ListSteps
  <2> QED
    BY <1>1, <2>1, GoesOn
<1>3. changes' \in changes .. MaxChanges
  BY <1>1, NoMiss
<1>4. /\ ListTypes' /\ \A g \in Guids, v \in Stamps : NotStale(g, v)'
      /\ link' = "mtp" => \A i \in DOMAIN rows' : RowFresh(rows[i])'
      /\ rows' \in Seq(Row) /\ \A i \in DOMAIN rows' : rows'[i].stamp <= clock' /\ rows'[i].pic <= changes' + 1
  BY <1>1, <1>2, <1>3, RowsStay
<1>5. RowsPart'
  BY <1>1, <1>2, <1>4 DEF ListInv, RowsPart
<1>6. StorePart'
  <2>1. DOMAIN rows = 1..Len(rows)
    BY ListNumbers
  <2>2. \A i \in DOMAIN rows : ~(i < 1)
    BY <2>1
  <2> QED
    BY <1>1, <1>2, <2>2 DEF ListInv, StorePart
<1>7. FreshPart'
  BY <1>1, <1>2, <1>4 DEF ListInv, FreshPart
<1> QED
  BY <1>4, <1>5, <1>6, <1>7 DEF ListInv

LEMMA ApplySavedNameInv ==
  ASSUME ListInv, ApplySavedName
  PROVE  ListInv'
<1> DEFINE k == at.slot
<1>1. /\ at.pc = "name" /\ UNCHANGED <<controllerVars, saved, since, images, loaded, changes>>
      /\ IF k > Len(rows) THEN GoOn("flag", 1) /\ rows' = rows
         ELSE GoOn("name", k + 1) /\ rows' = [rows EXCEPT ![k].name = saved.name[rows[k].guid]]
  BY DEF ApplySavedName, ListStep, Rows, Slot
<1> USE ListNumbers
<1>2. AsListed(at.all, rows)
      /\ \A i \in DOMAIN rows : i < k => rows[i].name \in since.name[rows[i].guid]
  BY <1>1 DEF ListInv, RowsPart, StorePart
<1>3. changes' \in changes .. MaxChanges
  BY <1>1, NoMiss
<1>4. CASE k > Len(rows)
  <2>1. at' \in AtTypes
        /\ at'.pc = "flag" /\ at'.slot = 1 /\ at'.all = at.all
    <3>1. "flag" \in ListSteps /\ 1 \in 1..Len(Slots) + 1
      BY DEF ListSteps
    <3> QED
      BY <1>1, <1>4, <3>1, GoesOn
  <2>2. rows' = rows
    BY <1>1, <1>4
  <2>3. /\ ListTypes' /\ \A g \in Guids, v \in Stamps : NotStale(g, v)'
        /\ link' = "mtp" => \A i \in DOMAIN rows' : RowFresh(rows[i])'
        /\ rows' \in Seq(Row) /\ \A i \in DOMAIN rows' : rows'[i].stamp <= clock' /\ rows'[i].pic <= changes' + 1
    BY <1>1, <1>3, <2>1, <2>2, RowsStay
  <2>4. RowsPart'
    BY <1>2, <2>1, <2>2, <2>3 DEF RowsPart
  <2>5. \A i \in DOMAIN rows : i < k /\ ~(i < 1)
    BY <1>4
  <2>6. StorePart'
    BY <1>1, <1>2, <2>1, <2>2, <2>5 DEF ListInv, StorePart
  <2>7. FreshPart'
    BY <2>1, <2>3 DEF FreshPart
  <2> QED
    BY <2>3, <2>4, <2>6, <2>7 DEF ListInv
<1>5. CASE ~(k > Len(rows))
  <2>0. k \in DOMAIN rows
    BY <1>5
  <2>1. at' \in AtTypes
        /\ at'.pc = "name" /\ at'.slot = k + 1 /\ at'.all = at.all
    <3>1. "name" \in ListSteps /\ k + 1 \in 1..Len(Slots) + 1
      <4>1. rows # <<>>
        BY <2>0
      <4>2. Len(rows) = Len(Slots)
        BY <1>2, <4>1, Zenon DEF AsListed
      <4> QED
        BY <2>0, <4>2 DEF ListSteps
    <3> QED
      BY <1>1, <1>5, <3>1, GoesOn
  <2> DEFINE n == saved.name[rows[k].guid]
  <2>2. n \in SlotNames /\ n \in since.name[rows[k].guid]
    BY <1>1, <2>0 DEF ListInv, ListTypes, StorePart
  <2>3. rows \in Seq(Row) /\ rows[k] \in Row
    BY <2>0 DEF ListInv, RowsPart
  <2>4. rows' = [rows EXCEPT ![k] = [rows[k] EXCEPT !.name = n]]
    BY <1>1, <1>5, <2>0, <2>3
  <2> HIDE DEF n, k
  <2> DEFINE r == [rows[k] EXCEPT !.name = n]
  <2>5. r \in Row /\ r.guid = rows[k].guid /\ r.stamp = rows[k].stamp /\ r.pic = rows[k].pic /\ r.name = n
    BY <2>2, <2>3 DEF Row
  <2>6. rows' = [rows EXCEPT ![k] = r]
    BY <2>4
  <2> HIDE DEF r
  <2>7. r.stamp <= clock /\ r.pic <= changes + 1 /\ (link = "mtp" => RowFresh(r))
    BY <2>0, <2>5 DEF ListInv, RowsPart, FreshPart, RowFresh
  <2>8. /\ ListTypes' /\ \A g \in Guids, v \in Stamps : NotStale(g, v)'
        /\ link' = "mtp" => \A i \in DOMAIN rows' : RowFresh(rows[i])'
        /\ rows' \in Seq(Row) /\ Len(rows') = Len(rows) /\ DOMAIN rows' = DOMAIN rows /\ rows'[k] = r
        /\ \A i \in DOMAIN rows' : /\ rows'[i].guid = rows[i].guid
                                   /\ rows'[i].stamp <= clock' /\ rows'[i].pic <= changes' + 1
                                   /\ i # k => rows'[i] = rows[i]
        /\ AsListed(at.all, rows')
    BY <1>1, <1>2, <1>3, <2>0, <2>1, <2>5, <2>6, <2>7, RowRead
  <2>9. RowsPart'
    BY <1>2, <2>1, <2>8 DEF RowsPart
  <2>10. \A i \in DOMAIN rows' : i < k + 1 => rows'[i].name \in since.name[rows'[i].guid]
    <3>1. \A i \in DOMAIN rows' : i < k + 1 => i < k \/ i = k
      BY <2>8 DEF k
    <3> QED
      BY <1>2, <2>2, <2>5, <2>8, <3>1
  <2>11. StorePart'
    BY <1>1, <2>1, <2>10 DEF ListInv, StorePart
  <2>12. FreshPart'
    BY <2>1, <2>8 DEF FreshPart
  <2> QED
    BY <2>8, <2>9, <2>11, <2>12 DEF ListInv
<1> QED
  BY <1>4, <1>5

LEMMA ApplyManagedInv ==
  ASSUME ListInv, ApplyManaged
  PROVE  ListInv'
<1> DEFINE k == at.slot
<1>1. /\ at.pc = "flag" /\ UNCHANGED <<controllerVars, saved, since, images, loaded, changes>>
      /\ IF k > Len(rows) THEN GoOn("order", 1) /\ rows' = rows
         ELSE GoOn("flag", k + 1) /\ rows' = [rows EXCEPT ![k].flag = saved.flag[rows[k].guid]]
  BY DEF ApplyManaged, ListStep, Rows, Slot
<1> USE ListNumbers
<1>2. AsListed(at.all, rows)
      /\ (\A i \in DOMAIN rows : rows[i].name \in since.name[rows[i].guid])
      /\ \A i \in DOMAIN rows : i < k => rows[i].flag \in since.flag[rows[i].guid]
  BY <1>1 DEF ListInv, RowsPart, StorePart
<1>3. changes' \in changes .. MaxChanges
  BY <1>1, NoMiss
<1>4. CASE k > Len(rows)
  <2>1. at' \in AtTypes
        /\ at'.pc = "order" /\ at'.slot = 1 /\ at'.all = at.all
    <3>1. "order" \in ListSteps /\ 1 \in 1..Len(Slots) + 1
      BY DEF ListSteps
    <3> QED
      BY <1>1, <1>4, <3>1, GoesOn
  <2>2. rows' = rows
    BY <1>1, <1>4
  <2>3. /\ ListTypes' /\ \A g \in Guids, v \in Stamps : NotStale(g, v)'
        /\ link' = "mtp" => \A i \in DOMAIN rows' : RowFresh(rows[i])'
        /\ rows' \in Seq(Row) /\ \A i \in DOMAIN rows' : rows'[i].stamp <= clock' /\ rows'[i].pic <= changes' + 1
    BY <1>1, <1>3, <2>1, <2>2, RowsStay
  <2>4. RowsPart'
    BY <1>2, <2>1, <2>2, <2>3 DEF RowsPart
  <2>5. \A i \in DOMAIN rows : i < k
    BY <1>4
  <2>6. StorePart'
    BY <1>1, <1>2, <2>1, <2>2, <2>5 DEF ListInv, StorePart
  <2>7. FreshPart'
    BY <2>1, <2>3 DEF FreshPart
  <2> QED
    BY <2>3, <2>4, <2>6, <2>7 DEF ListInv
<1>5. CASE ~(k > Len(rows))
  <2>0. k \in DOMAIN rows
    BY <1>5
  <2>1. at' \in AtTypes
        /\ at'.pc = "flag" /\ at'.slot = k + 1 /\ at'.all = at.all
    <3>1. "flag" \in ListSteps /\ k + 1 \in 1..Len(Slots) + 1
      <4>1. rows # <<>>
        BY <2>0
      <4>2. Len(rows) = Len(Slots)
        BY <1>2, <4>1, Zenon DEF AsListed
      <4> QED
        BY <2>0, <4>2 DEF ListSteps
    <3> QED
      BY <1>1, <1>5, <3>1, GoesOn
  <2>3. rows \in Seq(Row) /\ rows[k] \in Row
    BY <2>0 DEF ListInv, RowsPart
  <2>2. PICK n \in BOOLEAN : /\ n = saved.flag[rows[k].guid] /\ n \in since.flag[rows[k].guid]
                             /\ rows' = [rows EXCEPT ![k].flag = n]
    <3>1. rows[k].guid \in Guids /\ saved.flag \in [Guids -> BOOLEAN]
      BY <2>0 DEF ListInv, ListTypes
    <3>2. saved.flag[rows[k].guid] \in BOOLEAN
      BY <3>1, Zenon
    <3>3. saved.flag[rows[k].guid] \in since.flag[rows[k].guid]
      BY <1>1, <3>1 DEF ListInv, StorePart
    <3>4. rows' = [rows EXCEPT ![k].flag = saved.flag[rows[k].guid]]
      BY <1>1, <1>5
    <3> QED
      BY <3>2, <3>3, <3>4, Zenon
  <2>4. rows' = [rows EXCEPT ![k] = [rows[k] EXCEPT !.flag = n]]
    BY <2>0, <2>2, <2>3
  <2> HIDE DEF k
  <2> DEFINE r == [rows[k] EXCEPT !.flag = n]
  <2>5. r \in Row /\ r.guid = rows[k].guid /\ r.stamp = rows[k].stamp /\ r.pic = rows[k].pic
        /\ r.name = rows[k].name /\ r.flag = n
    BY <2>3 DEF Row
  <2>6. rows' = [rows EXCEPT ![k] = r]
    BY <2>4
  <2> HIDE DEF r
  <2>7. r.stamp <= clock /\ r.pic <= changes + 1 /\ (link = "mtp" => RowFresh(r))
    BY <2>0, <2>5 DEF ListInv, RowsPart, FreshPart, RowFresh
  <2>8. /\ ListTypes' /\ \A g \in Guids, v \in Stamps : NotStale(g, v)'
        /\ link' = "mtp" => \A i \in DOMAIN rows' : RowFresh(rows[i])'
        /\ rows' \in Seq(Row) /\ Len(rows') = Len(rows) /\ DOMAIN rows' = DOMAIN rows /\ rows'[k] = r
        /\ \A i \in DOMAIN rows' : /\ rows'[i].guid = rows[i].guid
                                   /\ rows'[i].stamp <= clock' /\ rows'[i].pic <= changes' + 1
                                   /\ i # k => rows'[i] = rows[i]
        /\ AsListed(at.all, rows')
    BY <1>1, <1>2, <1>3, <2>0, <2>1, <2>5, <2>6, <2>7, RowRead
  <2>9. RowsPart'
    BY <1>2, <2>1, <2>8 DEF RowsPart
  <2>10. \A i \in DOMAIN rows' :
           /\ rows'[i].name \in since.name[rows'[i].guid]
           /\ i < k + 1 => rows'[i].flag \in since.flag[rows'[i].guid]
    <3>1. \A i \in DOMAIN rows' : i < k + 1 => i < k \/ i = k
      BY <2>8 DEF k
    <3>2. \A i \in DOMAIN rows' : rows'[i].name = rows[i].name
      BY <2>5, <2>8
    <3> QED
      BY <1>2, <2>2, <2>5, <2>8, <3>1, <3>2
  <2>11. StorePart'
    BY <1>1, <2>1, <2>10 DEF ListInv, StorePart
  <2>12. FreshPart'
    BY <2>1, <2>8 DEF FreshPart
  <2> QED
    BY <2>8, <2>9, <2>11, <2>12 DEF ListInv
<1> QED
  BY <1>4, <1>5

LEMMA ApplyOrderInv ==
  ASSUME ListInv, ApplyOrder
  PROVE  ListInv'
<1>1. /\ at.pc = "order" /\ GoOn("answer", 1) /\ rows' = Reorder(saved.order, rows)
      /\ UNCHANGED <<controllerVars, saved, since, images, loaded, changes>>
  BY DEF ApplyOrder, ListStep, Rows
<1> USE ListNumbers
<1>2. /\ \A i \in DOMAIN rows : rows[i].guid = Slots[i] /\ i \in DOMAIN Slots
      /\ AsListed(at.all, rows)
      /\ \A i \in DOMAIN rows : /\ rows[i].name \in since.name[rows[i].guid]
                                /\ rows[i].flag \in since.flag[rows[i].guid]
      /\ Listing(rows) /\ saved.order \in since.order
  <2>1. AsListed(at.all, rows) /\ rows \in Seq(Row)
    BY <1>1 DEF ListInv, RowsPart
  <2>2. \A i \in DOMAIN rows : rows[i].guid = Slots[i] /\ i \in DOMAIN Slots
    <3>1. CASE at.all
      BY <2>1, <3>1 DEF AsListed
    <3>2. CASE ~at.all
      <4>1. rows = <<>>
        BY <2>1, <3>2, Zenon DEF AsListed
      <4> QED
        BY <4>1
    <3> QED
      BY <3>1, <3>2
  <2>3. Listing(rows)
    BY <2>1, <2>2, SlotsListed DEF Listing
  <2> QED
    BY <1>1, <2>1, <2>2, <2>3 DEF ListInv, StorePart
<1>3. changes' \in changes .. MaxChanges
  BY <1>1, NoMiss
<1>4. at' \in AtTypes
      /\ at'.pc = "answer" /\ at'.slot = 1 /\ at'.all = at.all
  <2>1. "answer" \in ListSteps /\ 1 \in 1..Len(Slots) + 1
    BY DEF ListSteps
  <2> QED
    BY <1>1, <2>1, GoesOn
<1>5. PICK order : order = saved.order /\ NameList(order)
  <2>1. saved.order \in Orders
    BY DEF ListInv, ListTypes
  <2> QED
    BY <2>1, SlotListAssumption, Zenon
<1>6. PICK list : list = rows
  OBVIOUS
<1>n. PICK new : new = Reorder(order, list)
  OBVIOUS
<1>o. /\ new \in Seq(Row)
      /\ \A i \in DOMAIN new : \E j \in DOMAIN list : new[i] = list[j]
      /\ \A j \in DOMAIN list : \E i \in DOMAIN new : new[i] = list[j]
      /\ \A i, j \in DOMAIN new : i < j =>
           \/ Precedes(order, new[i].guid, new[j].guid)
           \/ new[i].guid \in RankedIn(order) /\ new[j].guid \notin RankedIn(order)
           \/ /\ new[i].guid \notin RankedIn(order) /\ new[j].guid \notin RankedIn(order)
              /\ \E k, l \in DOMAIN list :
                   k < l /\ new[i].guid = list[k].guid /\ new[j].guid = list[l].guid
  <2>1. Listing(list)
    BY <1>2, <1>6
  <2> QED
    BY <1>5, <1>n, <2>1, ReorderFacts
<1>7. /\ new \in Seq(Row)
      /\ \A i \in DOMAIN new : \E j \in DOMAIN rows : new[i] = rows[j]
      /\ \A j \in DOMAIN rows : \E i \in DOMAIN new : new[i] = rows[j]
      /\ \A i, j \in DOMAIN new : i < j =>
           \/ Precedes(order, new[i].guid, new[j].guid)
           \/ new[i].guid \in RankedIn(order) /\ new[j].guid \notin RankedIn(order)
           \/ /\ new[i].guid \notin RankedIn(order) /\ new[j].guid \notin RankedIn(order)
              /\ \E k, l \in DOMAIN rows :
                   k < l /\ new[i].guid = rows[k].guid /\ new[j].guid = rows[l].guid
  BY <1>6, <1>o
<1>8. rows' = new
  BY <1>1, <1>5, <1>6, <1>n
<1>9. ListTypes' /\ \A g \in Guids, v \in Stamps : NotStale(g, v)'
  BY <1>1, <1>3, <1>4, StepTypes
<1>10. IF at.all THEN \A g \in Guids : \E i \in DOMAIN new : new[i].guid = g ELSE new = <<>>
  <2>1. ASSUME at.all, NEW g \in Guids PROVE \E i \in DOMAIN new : new[i].guid = g
    <3>1. PICK k \in DOMAIN Slots : Slots[k] = g
      BY SlotsListed
    <3>2. k \in DOMAIN rows /\ rows[k].guid = g
      BY <1>2, <2>1, <3>1 DEF AsListed
    <3> QED
      BY <1>7, <3>2
  <2>2. ASSUME ~at.all PROVE new = <<>>
    <3>1. DOMAIN rows = {}
      BY <1>2, <2>2 DEF AsListed
    <3>2. DOMAIN new = {}
      BY <1>7, <3>1
    <3> QED
      BY <1>7, <3>2
  <2> QED
    BY <2>1, <2>2
<1>11. \A i \in DOMAIN new : new[i].stamp <= clock /\ new[i].pic <= changes + 1
  BY <1>7 DEF ListInv, RowsPart
<1>12. RowsPart'
  BY <1>1, <1>4, <1>7, <1>8, <1>10, <1>11 DEF RowsPart, controllerVars
<1>13. InOrderOf(order)'
  <2> SUFFICES ASSUME NEW i \in DOMAIN new, NEW j \in DOMAIN new, i < j
               PROVE  \/ Precedes(order, new[i].guid, new[j].guid)
                      \/ new[i].guid \in RankedIn(order) /\ new[j].guid \notin RankedIn(order)
                      \/ /\ {new[i].guid, new[j].guid} \cap RankedIn(order) = {}
                         /\ Precedes(Slots, new[i].guid, new[j].guid)
    BY <1>8 DEF InOrderOf, RankedIn
  <2>1. CASE \E k, l \in DOMAIN rows :
               k < l /\ new[i].guid = rows[k].guid /\ new[j].guid = rows[l].guid
    <3>1. PICK k, l \in DOMAIN rows :
               k < l /\ new[i].guid = rows[k].guid /\ new[j].guid = rows[l].guid
      BY <2>1
    <3>2. k \in DOMAIN Slots /\ l \in DOMAIN Slots /\ new[i].guid = Slots[k] /\ new[j].guid = Slots[l]
      BY <1>2, <3>1
    <3>3. Precedes(Slots, new[i].guid, new[j].guid)
      BY <3>1, <3>2 DEF Precedes
    <3> QED
      BY <1>7, <3>3
  <2>2. CASE ~\E k, l \in DOMAIN rows :
               k < l /\ new[i].guid = rows[k].guid /\ new[j].guid = rows[l].guid
    BY <1>7, <2>2
  <2> QED
    BY <2>1, <2>2
<1>14. StorePart'
  <2>1. \A i \in DOMAIN new : /\ new[i].name \in since.name[new[i].guid]
                              /\ new[i].flag \in since.flag[new[i].guid]
    BY <1>2, <1>7
  <2>2. \E o \in since'.order : InOrderOf(o)'
    BY <1>1, <1>2, <1>5, <1>13
  <2> QED
    BY <1>1, <1>4, <1>8, <2>1, <2>2 DEF ListInv, StorePart
<1>15. FreshPart'
  <2>1. ASSUME link' = "mtp", NEW i \in DOMAIN new PROVE RowFresh(rows[i])'
    <3>1. PICK j \in DOMAIN rows : new[i] = rows[j]
      BY <1>7
    <3>2. RowFresh(rows[j]) /\ rows'[i] = rows[j]
      BY <1>1, <1>8, <2>1, <3>1 DEF ListInv, FreshPart, controllerVars
    <3> QED
      BY <1>1, <3>2, StillFresh
  <2> QED
    BY <1>4, <1>8, <1>9, <2>1 DEF FreshPart
<1> QED
  BY <1>9, <1>12, <1>14, <1>15 DEF ListInv

\* The listing is over.
LEMMA ListingEnds ==
  ASSUME ListInv, ListingOver, images' \in [Guids -> [Stamps -> Pics]],
         loaded' \in [Guids -> Stamps], \A g \in Guids : loaded'[g] <= clock,
         \A g \in Guids, v \in Stamps : NotStale(g, v)'
  PROVE  ListInv'
<1>0. at' = NoListing /\ rows' = <<>> /\ UNCHANGED <<controllerVars, saved, changes>>
  BY DEF ListingOver
<1>1. DOMAIN rows' = {} /\ rows' \in Seq(Row) /\ at'.pc = "rest" /\ at' \in AtTypes
  BY <1>0, ListNumbers DEF ListSteps, NoListing, AtTypes
<1>2. ListTypes'
  BY <1>0, <1>1 DEF ListInv, ListTypes, controllerVars
<1>3. RowsPart' /\ StorePart' /\ FreshPart'
  BY <1>0, <1>1 DEF RowsPart, StorePart, FreshPart
<1> QED
  BY <1>2, <1>3 DEF ListInv

LEMMA ListFailsInv ==
  ASSUME ListInv, ListFails
  PROVE  ListInv'
<1>1. ListingOver /\ UNCHANGED <<controllerVars, images, loaded>>
  BY DEF ListFails, ListingOver
<1>2. /\ images' \in [Guids -> [Stamps -> Pics]] /\ loaded' \in [Guids -> Stamps]
      /\ \A g \in Guids : loaded'[g] <= clock
      /\ \A g \in Guids, v \in Stamps : NotStale(g, v)'
  BY <1>1 DEF ListInv, ListTypes, FreshPart, NotStale, controllerVars
<1> QED
  BY <1>1, <1>2, ListingEnds

LEMMA RenderSlotsInv ==
  ASSUME ListInv, RenderSlots
  PROVE  ListInv'
<1>1. /\ ListingOver /\ UNCHANGED <<stamps, clock, hasty>>
      /\ images' = [g \in Guids |-> [v \in Stamps |->
                     IF LoadsPicture(g, v) THEN stamps[g].pic ELSE images[g][v]]]
      /\ loaded' = [g \in Guids |->
                     IF \E v \in Stamps : LoadsPicture(g, v) THEN clock ELSE loaded[g]]
  BY DEF RenderSlots, ListingOver, controllerVars
<1>2. \A g \in Guids, v \in Stamps : LoadsPicture(g, v) => v <= clock
  BY DEF ListInv, RowsPart, LoadsPicture
<1>3. /\ \A g \in Guids, v \in Stamps :
           images'[g][v] = IF LoadsPicture(g, v) THEN stamps[g].pic ELSE images[g][v]
      /\ \A g \in Guids : \/ loaded'[g] = clock
                          \/ /\ loaded'[g] = loaded[g]
                             /\ \A v \in Stamps : ~LoadsPicture(g, v)
  BY <1>1
<1>4. images' \in [Guids -> [Stamps -> Pics]]
  BY <1>1, ListNumbers
<1>c. clock \in Stamps /\ \A g \in Guids : loaded[g] <= clock
  <2>1. clock \in 1..MaxChanges + 1 /\ MaxChanges \in Nat
    BY ListNumbers DEF ListInv, ListTypes
  <2>2. clock \in Stamps
    BY <2>1 DEF Stamps
  <2> QED
    BY <2>2 DEF ListInv, ListTypes
<1>5. loaded' \in [Guids -> Stamps] /\ \A g \in Guids : loaded'[g] <= clock
  BY <1>1, <1>3, <1>c, ListNumbers
<1>6. ASSUME NEW g \in Guids, NEW v \in Stamps PROVE NotStale(g, v)'
  <2>1. /\ stamps[g].pic \in Nat /\ images[g][v] \in Nat /\ v \in Nat /\ loaded[g] \in Nat
        /\ clock \in Nat /\ NotStale(g, v) /\ loaded[g] <= clock
    BY <1>c, ListNumbers DEF ListInv, FreshPart
  <2>3. CASE LoadsPicture(g, v)
    <3>1. loaded'[g] = clock /\ images'[g][v] = stamps[g].pic /\ v <= clock
      BY <1>2, <1>3, <2>3
    <3> QED
      BY <1>1, <2>1, <3>1 DEF NotStale
  <2>4. CASE ~LoadsPicture(g, v)
    <3>1. images'[g][v] = images[g][v] /\ (loaded'[g] = clock \/ loaded'[g] = loaded[g])
      BY <1>3, <2>4
    <3> QED
      BY <1>1, <2>1, <3>1 DEF NotStale
  <2> QED
    BY <2>3, <2>4
<1> QED
  BY <1>1, <1>4, <1>5, <1>6, ListingEnds

LEMMA ListInvStep ==
  ASSUME ListInv, [SlotListNext]_listVars
  PROVE  ListInv'
<1>1. CASE \E g \in Guids, what \in {"kmz", "jpg"} : PutFile(g, what) \/ RemoveFile(g, what)
  BY <1>1, PutFileInv, RemoveFileInv
<1>2. CASE \/ \E g \in Guids : (\E name \in SlotNames : SetSlotName(g, name)) \/ SetSlotManaged(g)
           \/ \E order \in Orders : SetSlotOrder(order)
  BY <1>2, SavesInv
<1>3. CASE \E missed \in BOOLEAN :
             ListWaypointDir(missed) \/ ListPreviewDir(missed) \/ StatKMZ(missed) \/ StatPreview(missed)
  BY <1>3, ListWaypointDirInv, ListPreviewDirInv, StatKMZInv, StatPreviewInv
<1>4. CASE AskSlots \/ DeviceListed \/ ApplySavedName \/ ApplyManaged
           \/ ApplyOrder \/ ListFails \/ RenderSlots
  BY <1>4, AskSlotsInv, DeviceListedInv, ApplySavedNameInv, ApplyManagedInv,
     ApplyOrderInv, ListFailsInv, RenderSlotsInv
<1>5. CASE UNCHANGED listVars
  <2>1. UNCHANGED <<link, stamps, clock, hasty, saved, changes, at, rows, since, images, loaded>>
    BY <1>5 DEF listVars, controllerVars
  <2>2. ListTypes' /\ \A g \in Guids, v \in Stamps : NotStale(g, v)'
    BY <2>1 DEF ListInv, ListTypes, FreshPart, NotStale
  <2>3. RowsPart'
    BY <2>1 DEF ListInv, RowsPart, AsListed
  <2>4. StorePart'
    BY <2>1, StoreStays DEF ListInv
  <2>5. FreshPart'
    BY <2>1, <2>2 DEF ListInv, FreshPart, RowFresh
  <2> QED
    BY <2>2, <2>3, <2>4, <2>5 DEF ListInv
<1> QED
  BY <1>1, <1>2, <1>3, <1>4, <1>5 DEF SlotListNext

\* A listing, the stores and the pictures are always what they are declared to be.
THEOREM SlotListTypes == SlotListSpec => []SlotListTypeOK
<1>1. SlotListInit => ListInv
  BY ListInvInit
<1>2. ListInv /\ [SlotListNext]_listVars => ListInv'
  BY ListInvStep
<1>3. ListInv => SlotListTypeOK
  <2> SUFFICES ASSUME ListInv PROVE SlotListTypeOK
    OBVIOUS
  <2>1. \A i \in DOMAIN rows : rows[i] \in Row
    BY ListNumbers
  <2> QED
    BY <2>1 DEF ListInv, ListTypes, AtTypes, SlotListTypeOK
<1> QED
  BY <1>1, <1>2, <1>3, PTL DEF SlotListSpec

\* The answer of GET .../slots has every slot, none twice that the saved order names once
\* at most, with names and flags that were saved while it was put together and in an
\* order that was saved then, for any slots, names and orders, and whatever is saved or
\* written meanwhile; if the waypoint folder could not be listed it has none.
THEOREM ListedTrue == SlotListSpec => []ListingTrue
<1>1. SlotListInit => ListInv
  BY ListInvInit
<1>2. ListInv /\ [SlotListNext]_listVars => ListInv'
  BY ListInvStep
<1>3. ListInv => ListingTrue
  <2> SUFFICES ASSUME ListInv, at.pc = "answer"
               PROVE  /\ IF at.all THEN \A g \in Guids : \E i \in DOMAIN rows : rows[i].guid = g
                         ELSE rows = <<>>
                      /\ \A i \in DOMAIN rows : /\ rows[i].guid \in Guids
                                                /\ rows[i].name \in since.name[rows[i].guid]
                                                /\ rows[i].flag \in since.flag[rows[i].guid]
                      /\ \E order \in since.order : InOrderOf(order)
    BY DEF ListingTrue, ListStep
  <2>1. \A i \in DOMAIN rows : /\ rows[i].guid \in Guids
                               /\ rows[i].name \in since.name[rows[i].guid]
                               /\ rows[i].flag \in since.flag[rows[i].guid]
    BY ListNumbers DEF ListInv, StorePart
  <2>2. IF at.all THEN \A g \in Guids : \E i \in DOMAIN rows : rows[i].guid = g ELSE rows = <<>>
    BY DEF ListInv, RowsPart
  <2>3. \E order \in since.order : InOrderOf(order)
    BY DEF ListInv, StorePart
  <2> QED
    BY <2>1, <2>2, <2>3
<1> QED
  BY <1>1, <1>2, <1>3, PTL DEF SlotListSpec

\* No page shows a thumbnail older than the one the listing behind it has met, for any
\* number of writes, of listings and of folders that could not be listed, but for slots
\* of which a preview was put in the second in which a page had loaded the one before.
THEOREM NoStaleThumbnail == SlotListSpec => ThumbnailFresh
<1>1. SlotListInit => ListInv
  BY ListInvInit
<1>2. ListInv /\ [SlotListNext]_listVars => ListInv'
  BY ListInvStep
<1>3. ASSUME ListInv, [SlotListNext]_listVars
      PROVE  [at.pc = "answer" /\ link = "mtp" =>
                \A i \in DOMAIN rows : rows[i].pic # 0 /\ rows[i].guid \notin hasty =>
                  images'[rows[i].guid][rows[i].stamp]
                    \in {0} \cup {n \in Pics : n >= rows[i].pic}]_listVars
  <2> SUFFICES ASSUME at.pc = "answer", link = "mtp", NEW i \in DOMAIN rows, rows[i].pic # 0,
                      rows[i].guid \notin hasty, listVars' # listVars
               PROVE  images'[rows[i].guid][rows[i].stamp]
                        \in {0} \cup {n \in Pics : n >= rows[i].pic}
    BY Zenon
  <2>1. RowFresh(rows[i])
    BY <1>3 DEF ListInv, FreshPart
  <2>2. /\ rows[i].guid \in Guids /\ rows[i].stamp \in Stamps
        /\ images[rows[i].guid][rows[i].stamp] \in Pics /\ stamps[rows[i].guid].pic \in Pics
    BY <1>3, ListNumbers
  <2>3. /\ images[rows[i].guid][rows[i].stamp] \in {0} \cup {n \in Pics : n >= rows[i].pic}
        /\ stamps[rows[i].guid].pic \in {0} \cup {n \in Pics : n >= rows[i].pic}
    BY <2>1, <2>2 DEF RowFresh
  <2>4. images' = images \/ RenderSlots
    BY <1>3 DEF SlotListNext, PutFile, RemoveFile, SetSlotName, SetSlotManaged, SetSlotOrder, SaveOf,
                ListPreviewDir, StatKMZ, StatPreview, AskSlots, ListWaypointDir, DeviceListed,
                ApplySavedName, ApplyManaged, ApplyOrder, ListFails, Rows, listVars
  <2>5. CASE RenderSlots
    <3>1. images'[rows[i].guid][rows[i].stamp] \in
            {stamps[rows[i].guid].pic, images[rows[i].guid][rows[i].stamp]}
      <4>1. images' = [g \in Guids |-> [v \in Stamps |->
                         IF LoadsPicture(g, v) THEN stamps[g].pic ELSE images[g][v]]]
        BY <2>5 DEF RenderSlots
      <4> QED
        BY <2>2, <4>1
    <3> QED
      BY <2>3, <3>1
  <2> QED
    BY <2>3, <2>4, <2>5
<1> QED
  BY <1>1, <1>2, <1>3, PTL DEF SlotListSpec, ThumbnailFresh

-----------------------------------------------------------------------------
(* MapFrame: arithmetic.                                                    *)

\* The least of some numbers, and the largest of some that are bounded.
LEMMA LeastOf ==
  ASSUME NEW S \in SUBSET Nat, S # {}
  PROVE  \E m \in S : \A n \in S : m <= n
<1> DEFINE R == OpToRel(<, Nat)
<1>1. \E m \in S : \A n \in S : ~(<<n, m>> \in R)
  BY NatLessThanWellFounded, WFMin, Zenon
<1>2. PICK m \in S : \A n \in S : ~(<<n, m>> \in R)
  BY <1>1
<1>3. \A n \in S : ~(n < m)
  <2> SUFFICES ASSUME NEW n \in S, n < m PROVE FALSE
    OBVIOUS
  <2>1. <<n, m>> \in R
    BY Zenon DEF OpToRel
  <2> QED
    BY <1>2, <2>1, Zenon
<1>4. \A n \in S : m <= n
  <2> SUFFICES ASSUME NEW n \in S PROVE m <= n
    OBVIOUS
  <2>1. m \in Nat /\ n \in Nat /\ ~(n < m)
    BY <1>3
  <2> QED
    BY <2>1
<1> QED
  BY <1>4

LEMMA LargestOf ==
  ASSUME NEW b \in Nat, NEW S \in SUBSET (0..b), S # {}
  PROVE  Max(S) \in S /\ \A n \in S : n <= Max(S)
<1> DEFINE D == {b - n : n \in S}
<1>1. D \in SUBSET Nat /\ D # {}
  <2>1. \A n \in 0..b : b - n \in Nat
    OBVIOUS
  <2>2. \A n \in S : b - n \in D
    OBVIOUS
  <2> QED
    BY <2>1, <2>2
<1>2. PICK d \in D : \A e \in D : d <= e
  BY <1>1, LeastOf
<1>3. PICK m \in S : d = b - m
  OBVIOUS
<1>4. \A n \in S : n <= m
  <2> SUFFICES ASSUME NEW n \in S PROVE n <= m
    OBVIOUS
  <2>1. b - m <= b - n
    BY <1>2, <1>3
  <2>2. m \in Nat /\ n \in Nat
    OBVIOUS
  <2> QED
    BY <2>1, <2>2
<1>5. \A x, y \in S : (x >= y) <=> (y <= x)
  <2>1. \A x, y \in 0..b : (x >= y) <=> (y <= x)
    OBVIOUS
  <2> QED
    BY <2>1
<1>6. \E x \in S : \A y \in S : x >= y
  BY <1>4, <1>5
<1>7. Max(S) \in S /\ \A y \in S : Max(S) >= y
  BY <1>6 DEF Max
<1> QED
  BY <1>5, <1>7

LEMMA SmallestOf ==
  ASSUME NEW S \in SUBSET Nat, S # {}
  PROVE  Min(S) \in S /\ \A n \in S : Min(S) <= n
<1>1. \E m \in S : \A n \in S : m <= n
  BY LeastOf
<1> QED
  BY <1>1 DEF Min

\* A list of numbers is bounded.
LEMMA Bounded ==
  ASSUME NEW n \in Nat, NEW v \in [1..n -> Nat]
  PROVE  \E b \in Nat : \A i \in 1..n : v[i] <= b
<1> DEFINE T == {k \in 0..n : ~\E b \in Nat : \A i \in 1..k : v[i] <= b}
<1>0. T \in SUBSET Nat /\ n \in 0..n
  OBVIOUS
<1>1. CASE T = {}
  <2>1. n \notin T
    BY <1>1
  <2> QED
    BY <1>0, <2>1
<1>2. CASE T # {}
  <2>0. \E k \in T : \A l \in T : k <= l
    <3> HIDE DEF T
    <3> QED
      BY <1>0, <1>2, LeastOf
  <2>1. PICK k \in T : \A l \in T : k <= l
    BY <2>0
  <2>2. k # 0 /\ k \in 1..n
    <3>1. \A i \in 1..0 : v[i] <= 0
      OBVIOUS
    <3> QED
      BY <2>1, <3>1
  <2>3. k - 1 \in 0..n /\ ~(k <= k - 1)
    BY <2>2
  <2>4. PICK b \in Nat : \A i \in 1..(k - 1) : v[i] <= b
    BY <2>1, <2>3
  <2>5. PICK c \in Nat : b <= c /\ v[k] <= c
    <3>1. v[k] \in Nat
      BY <2>2
    <3>2. b <= b + v[k] /\ v[k] <= b + v[k] /\ b + v[k] \in Nat
      BY <3>1
    <3> QED
      BY <3>2
  <2>6. \A i \in 1..k : v[i] <= c
    <3> SUFFICES ASSUME NEW i \in 1..k PROVE v[i] <= c
      OBVIOUS
    <3>1. i = k \/ i \in 1..(k - 1)
      BY <2>2
    <3>2. v[i] \in Nat
      BY <2>2
    <3> QED
      BY <2>4, <2>5, <3>1, <3>2
  <2> QED
    BY <2>1, <2>6
<1> QED
  BY <1>1, <1>2

LEMMA Extremes ==
  ASSUME NEW n \in Nat \ {0}, NEW v \in [1..n -> Nat], NEW S, S = {v[i] : i \in 1..n}
  PROVE  /\ Min(S) \in Nat /\ Max(S) \in Nat
         /\ \A i \in 1..n : Min(S) <= v[i] /\ v[i] <= Max(S)
<1>1. S \in SUBSET Nat /\ S # {}
  <2>1. 1 \in 1..n
    OBVIOUS
  <2>2. v[1] \in S
    BY <2>1
  <2> QED
    BY <2>2
<1>2. PICK b \in Nat : \A i \in 1..n : v[i] <= b
  BY Bounded
<1>3. S \in SUBSET (0..b)
  BY <1>2
<1>4. Min(S) \in S /\ \A x \in S : Min(S) <= x
  BY <1>1, SmallestOf
<1>5. Max(S) \in S /\ \A x \in S : x <= Max(S)
  BY <1>1, <1>3, LargestOf
<1> QED
  BY <1>1, <1>4, <1>5

LEMMA IntervalEnds ==
  ASSUME NEW a \in Int, NEW b \in Int, a <= b
  PROVE  Min(a..b) = a /\ Max(a..b) = b
BY DEF Min, Max

LEMMA PowerPositive ==
  ASSUME NEW n \in Nat
  PROVE  2^n \in Nat \ {0}
<1>1. IsFiniteSet(1..n) /\ Cardinality(1..n) = n
  BY FS_Interval
<1>2. IsFiniteSet(SUBSET (1..n)) /\ Cardinality(SUBSET (1..n)) = 2^n
  BY <1>1, FS_SUBSET
<1>3. Cardinality(SUBSET (1..n)) \in Nat
  BY <1>2, FS_CardinalityType
<1>4. Cardinality(SUBSET (1..n)) # 0
  <2>1. {} \in SUBSET (1..n)
    OBVIOUS
  <2> QED
    BY <1>2, <2>1, FS_EmptySet
<1> QED
  BY <1>2, <1>3, <1>4

LEMMA Quotient ==
  ASSUME NEW a \in Int, NEW b \in Nat \ {0}
  PROVE  a \div b \in Int /\ b * (a \div b) <= a /\ a < b * (a \div b) + b
OBVIOUS

LEMMA QuotientIs ==
  ASSUME NEW a \in Int, NEW b \in Nat \ {0}, NEW c \in Int, b * c <= a, a < b * c + b
  PROVE  a \div b = c
OBVIOUS

LEMMA Products ==
  ASSUME NEW a \in Int, NEW b \in Int, NEW c \in Nat, a <= b
  PROVE  a * c <= b * c /\ c * a <= c * b
OBVIOUS

\* A part of d goes to the same part of the room.
LEMMA ScaledIn ==
  ASSUME NEW a \in Int, NEW room \in Nat, NEW d \in Nat \ {0}, 0 <= a, a <= d
  PROVE  (a * room) \div d \in 0..room
<1> DEFINE q == (a * room) \div d
<1>1. a * room \in Int /\ 0 <= a * room /\ a * room <= d * room
  BY Products
<1>2. q \in Int /\ d * q <= a * room /\ a * room < d * q + d
  BY <1>1, Quotient
<1> HIDE DEF q
<1>3. d * q <= d * room
  BY <1>1, <1>2
<1>4. q <= room
  <2> SUFFICES ASSUME q >= room + 1 PROVE FALSE
    BY <1>2
  <2>1. d * (room + 1) <= d * q
    BY <1>2, Products
  <2>2. d * (room + 1) = d * room + d
    OBVIOUS
  <2> QED
    BY <1>2, <1>3, <2>1, <2>2
<1>5. q >= 0
  <2> SUFFICES ASSUME q <= -1 PROVE FALSE
    BY <1>2
  <2>1. d * q <= d * (-1)
    BY <1>2, Products
  <2> QED
    BY <1>1, <1>2, <2>1
<1> QED
  BY <1>2, <1>4, <1>5 DEF q

-----------------------------------------------------------------------------
(* MapFrame: where the picture lies.                                        *)

Axes == {"x", "y"}
HasPoints(n) == n \in Nat \ {0} /\ points \in [1..n -> [x : Places, y : Places]]

\* The box around the waypoints.
LEMMA Box ==
  ASSUME NEW n, HasPoints(n), NEW axis \in Axes
  PROVE  \E lo, hi \in Nat :
           /\ Low(points, axis) = 40 * lo /\ High(points, axis) = 40 * hi /\ lo <= hi
           /\ \A i \in DOMAIN points :
                points[i][axis] \in Nat /\ lo <= points[i][axis] /\ points[i][axis] <= hi
<1>1. n \in Nat \ {0} /\ DOMAIN points = 1..n
      /\ \A i \in 1..n : points[i] \in [x : Places, y : Places]
  BY DEF HasPoints
<1>2. \A i \in 1..n : points[i][axis] \in Nat
  <2> SUFFICES ASSUME NEW i \in 1..n PROVE points[i][axis] \in Nat
    OBVIOUS
  <2>1. points[i] \in [x : Places, y : Places] /\ Places \subseteq Nat
    BY <1>1, FrameAssumption
  <2>2. points[i].x \in Nat /\ points[i].y \in Nat
    BY <2>1
  <2> QED
    BY <2>2 DEF Axes
<1>3. PICK v : v = [i \in 1..n |-> points[i][axis]]
  OBVIOUS
<1>4. v \in [1..n -> Nat] /\ \A i \in 1..n : v[i] = points[i][axis]
  BY <1>2, <1>3
<1>5. PICK S : S = {v[i] : i \in 1..n}
  OBVIOUS
<1>6. /\ Min(S) \in Nat /\ Max(S) \in Nat
      /\ \A i \in 1..n : Min(S) <= v[i] /\ v[i] <= Max(S)
  BY <1>1, <1>4, <1>5, Extremes
<1>7. S = {points[i][axis] : i \in DOMAIN points}
  BY <1>1, <1>4, <1>5
<1>8. Low(points, axis) = 40 * Min(S) /\ High(points, axis) = 40 * Max(S)
  BY <1>7 DEF Low, High, Sub
<1>9. Min(S) <= Max(S)
  <2>1. 1 \in 1..n
    BY <1>1
  <2>2. v[1] \in Nat /\ Min(S) <= v[1] /\ v[1] <= Max(S)
    BY <1>4, <1>6, <2>1
  <2> QED
    BY <1>6, <2>2
<1> QED
  BY <1>1, <1>2, <1>4, <1>6, <1>8, <1>9

LEMMA PaddingType ==
  ASSUME NEW n, HasPoints(n), NEW axis \in Axes
  PROVE  /\ Padding(points, axis) \in Nat
         /\ PaddedSpan(points, axis) =
              High(points, axis) - Low(points, axis) + 2 * Padding(points, axis)
<1>1. PICK lo, hi \in Nat :
         Low(points, axis) = 40 * lo /\ High(points, axis) = 40 * hi /\ lo <= hi
  BY Box
<1>2. Span(points, axis) \in Nat
  BY <1>1, FrameAssumption DEF Span
<1>3. (3 * Span(points, axis)) \div 20 \in Nat
  BY <1>2
<1> QED
  BY <1>3 DEF Padding, PaddedSpan

\* The zoom is one there is, and the box fits in it if it fits at any.
LEMMA ZoomFits ==
  /\ chooseZoom(points) \in MinZoom..MaxZoom
  /\ (\E z \in MinZoom..MaxZoom : FitsAt(points, z)) => FitsAt(points, chooseZoom(points))
<1>1. PICK fits : fits = {z \in MinZoom..MaxZoom : FitsAt(points, z)}
  OBVIOUS
<1>2. chooseZoom(points) = IF fits = {} THEN MinZoom ELSE Max(fits)
  BY <1>1 DEF chooseZoom
<1>3. MinZoom \in Nat /\ MaxZoom \in Nat /\ MinZoom <= MaxZoom
  BY FrameAssumption
<1>4. CASE fits = {}
  BY <1>1, <1>2, <1>3, <1>4
<1>5. CASE fits # {}
  <2>1. fits \in SUBSET (0..MaxZoom)
    BY <1>1, <1>3
  <2>2. Max(fits) \in fits
    BY <1>3, <1>5, <2>1, LargestOf
  <2> QED
    BY <1>1, <1>2, <1>5, <2>2
<1> QED
  BY <1>4, <1>5

LEMMA UnitType ==
  \E w \in Nat \ {0} : Unit(chooseZoom(points)) = 40 * w
<1>1. PICK z : z = chooseZoom(points)
  OBVIOUS
<1>2. MaxZoom - z \in Nat
  BY <1>1, ZoomFits, FrameAssumption
<1>3. PICK e \in Nat : e = MaxZoom - z
  BY <1>2
<1>4. 2^e \in Nat \ {0}
  BY PowerPositive
<1>5. Unit(chooseZoom(points)) = 40 * 2^e
  BY <1>1, <1>3 DEF Unit, Sub
<1> QED
  BY <1>4, <1>5

SkewOK == skew \in {-1, 0, 1}

LEMMA SideType ==
  ASSUME NEW axis \in Axes
  PROVE  Side(axis) \in Nat \ {0} /\ Margin \in Nat /\ 2 * Margin <= Side(axis) /\ Tile \in Nat \ {0}
BY FrameAssumption DEF Side, Axes

\* The corner of the canvas, and where a waypoint is from it.
LEMMA CornerIs ==
  ASSUME NEW n, HasPoints(n), SkewOK, NEW axis \in Axes
  PROVE  \E lo, hi \in Nat, w \in Nat \ {0}, off \in Int :
           /\ Low(points, axis) = 40 * lo /\ High(points, axis) = 40 * hi /\ lo <= hi
           /\ Unit(chooseZoom(points)) = 40 * w
           /\ -Padding(points, axis) <= off /\ off <= Padding(points, axis)
           /\ Corner(axis) = 20 * lo + 20 * hi + off - 20 * (Side(axis) * w)
           /\ Corner(axis) \in Int
           /\ \A i \in DOMAIN points :
                points[i][axis] \in Nat /\ lo <= points[i][axis] /\ points[i][axis] <= hi
<1>1. PICK lo, hi \in Nat :
           /\ Low(points, axis) = 40 * lo /\ High(points, axis) = 40 * hi /\ lo <= hi
           /\ \A i \in DOMAIN points :
                points[i][axis] \in Nat /\ lo <= points[i][axis] /\ points[i][axis] <= hi
  BY Box
<1>2. PICK w \in Nat \ {0} : Unit(chooseZoom(points)) = 40 * w
  BY UnitType
<1>3. PICK off \in Int : /\ off = IF axis = "y" THEN skew * Padding(points, axis) ELSE 0
                         /\ -Padding(points, axis) <= off /\ off <= Padding(points, axis)
  <2>1. Padding(points, axis) \in Nat
    BY PaddingType
  <2>2. PICK p \in Nat : p = Padding(points, axis)
    BY <2>1
  <2>3. skew * p \in Int /\ -p <= skew * p /\ skew * p <= p
    BY DEF SkewOK
  <2>4. 0 \in Int /\ -p <= 0 /\ 0 <= p
    OBVIOUS
  <2> QED
    BY <2>2, <2>3, <2>4
<1>4. PICK s \in Nat \ {0} : s = Side(axis)
  BY SideType
<1>5. (40 * lo + 40 * hi) \div 2 = 20 * lo + 20 * hi
  OBVIOUS
<1>6. (s * (40 * w)) \div 2 = 20 * (s * w)
  <2>1. PICK m \in Nat : m = s * w
    OBVIOUS
  <2>2. s * (40 * w) = 40 * m
    BY <2>1
  <2>3. (40 * m) \div 2 = 20 * m
    OBVIOUS
  <2> QED
    BY <2>1, <2>2, <2>3
<1>7. Corner(axis) = (20 * lo + 20 * hi) + off - 20 * (s * w)
  <2>1. Corner(axis) = ((40 * lo + 40 * hi) \div 2) + off - ((s * (40 * w)) \div 2)
    BY <1>1, <1>2, <1>3, <1>4 DEF Corner
  <2> QED
    BY <1>5, <1>6, <2>1
<1>8. s * w \in Int
  OBVIOUS
<1>9. Corner(axis) \in Int
  BY <1>7, <1>8
<1> QED
  BY <1>1, <1>2, <1>3, <1>4, <1>7, <1>9

\* A waypoint of a mission that fits is on the map.
LEMMA MarkedOnMap ==
  ASSUME NEW n, HasPoints(n), SkewOK, NEW axis \in Axes, NEW i \in DOMAIN points
  PROVE  /\ OnMap(points[i], axis) \in Int
         /\ FitsAt(points, chooseZoom(points)) => OnMap(points[i], axis) \in 0..Side(axis) * 40
<1>1. PICK lo, hi \in Nat, w \in Nat \ {0}, off \in Int :
           /\ Low(points, axis) = 40 * lo /\ High(points, axis) = 40 * hi /\ lo <= hi
           /\ Unit(chooseZoom(points)) = 40 * w
           /\ -Padding(points, axis) <= off /\ off <= Padding(points, axis)
           /\ Corner(axis) = 20 * lo + 20 * hi + off - 20 * (Side(axis) * w)
           /\ Corner(axis) \in Int
           /\ \A j \in DOMAIN points :
                points[j][axis] \in Nat /\ lo <= points[j][axis] /\ points[j][axis] <= hi
  BY CornerIs
<1>2. PICK p \in Nat : p = points[i][axis] /\ lo <= p /\ p <= hi
  BY <1>1
<1>3. PICK c \in Int : c = Corner(axis)
  BY <1>1
<1>4. PICK s \in Nat \ {0} : s = Side(axis)
  BY SideType
<1>5. OnMap(points[i], axis) = ((40 * p - c) * 40) \div (40 * w)
  BY <1>1, <1>2, <1>3 DEF OnMap, Sub
<1>6. 40 * w \in Nat \ {0} /\ (40 * p - c) * 40 \in Int
  OBVIOUS
<1>7. OnMap(points[i], axis) \in Int
  BY <1>5, <1>6, Quotient
<1>8. ASSUME FitsAt(points, chooseZoom(points)) PROVE OnMap(points[i], axis) \in 0..s * 40
  <2>1. PICK q \in Nat : q = Padding(points, axis)
    BY PaddingType
  <2>2. PICK m \in Nat : m = s * w
    OBVIOUS
  <2>3. s * (40 * w) = 40 * m
    BY <2>2
  <2>4. 40 * hi - 40 * lo + 2 * q <= 40 * m
    <3>1. PaddedSpan(points, axis) <= Side(axis) * Unit(chooseZoom(points))
      BY <1>8 DEF FitsAt, Axes
    <3>2. PaddedSpan(points, axis) = 40 * hi - 40 * lo + 2 * q
      BY <1>1, <2>1, PaddingType
    <3> QED
      BY <1>1, <1>4, <2>3, <3>1, <3>2
  <2>5. c = 20 * lo + 20 * hi + off - 20 * m /\ -q <= off /\ off <= q
    BY <1>1, <1>3, <1>4, <2>1, <2>2
  <2>6. 0 <= 40 * p - c /\ 40 * p - c <= 40 * m
    BY <1>2, <2>4, <2>5
  <2>7. PICK x \in Nat : x = 40 * p - c /\ x <= 40 * m
    <3>1. 40 * p - c \in Nat /\ 40 * p - c <= 40 * m
      BY <2>6
    <3> QED
      BY <3>1
  <2>8. x * 40 <= (40 * m) * 40 /\ 0 <= x * 40 /\ x * 40 \in Int
    BY <2>7
  <2>9. (40 * m) * 40 = (40 * w) * (s * 40)
    BY <2>2
  <2>10. (x * 40) \div (40 * w) \in 0..s * 40
    <3> DEFINE y == x * 40
    <3> DEFINE d == 40 * w
    <3> DEFINE k == (y \div d)
    <3>1. y \in Int /\ 0 <= y /\ y <= d * (s * 40) /\ d \in Nat \ {0} /\ s * 40 \in Nat
      BY <1>6, <2>8, <2>9
    <3> HIDE DEF y, d
    <3>2. k \in Int /\ d * k <= y /\ y < d * k + d
      BY <3>1, Quotient
    <3> HIDE DEF k
    <3> QED
      <4>1. PICK r \in Nat : r = s * 40
        BY <3>1
      <4>2. k <= r
        <5> SUFFICES ASSUME r + 1 <= k PROVE FALSE
          BY <3>2
        <5>1. d * (r + 1) <= d * k
          BY <3>1, <3>2, Products
        <5>2. d * (r + 1) = d * r + d
          BY <3>1
        <5> QED
          BY <3>1, <3>2, <4>1, <5>1, <5>2
      <4>3. 0 <= k
        <5> SUFFICES ASSUME k <= -1 PROVE FALSE
          BY <3>2
        <5>1. d * k <= d * (-1)
          BY <3>1, <3>2, Products
        <5> QED
          BY <3>1, <3>2, <5>1
      <4> QED
        BY <3>2, <4>1, <4>2, <4>3 DEF k, y, d
  <2> QED
    BY <1>5, <2>7, <2>10
<1> QED
  BY <1>4, <1>7, <1>8

\* Every waypoint is within the margin of the dark picture.
LEMMA MarkedOnDark ==
  ASSUME NEW n, HasPoints(n), NEW axis \in Axes, NEW i \in DOMAIN points
  PROVE  OnDark(points[i], axis) \in Margin * 40 .. (Side(axis) - Margin) * 40
<1>1. PICK lo, hi \in Nat :
           /\ Low(points, axis) = 40 * lo /\ High(points, axis) = 40 * hi /\ lo <= hi
           /\ \A j \in DOMAIN points :
                points[j][axis] \in Nat /\ lo <= points[j][axis] /\ points[j][axis] <= hi
  BY Box
<1>2. PICK p \in Nat : p = points[i][axis] /\ lo <= p /\ p <= hi
  BY <1>1
<1>3. PICK s \in Nat, m \in Nat : s = Side(axis) /\ m = Margin /\ 2 * m <= s
  BY SideType
<1>4. PICK room \in Nat : room = (s - 2 * m) * 40
  BY <1>3
<1>5. PICK d \in Nat : d = 40 * hi - 40 * lo
  <2>1. lo <= hi
    BY <1>1
  <2>2. 40 * hi - 40 * lo \in Nat
    BY <2>1
  <2> QED
    BY <2>2
<1>6. PICK a \in Nat : a = 40 * p - 40 * lo /\ a <= d
  BY <1>2, <1>5
<1>7. OnDark(points[i], axis) =
        m * 40 + (IF d # 0 THEN (a * room) \div d ELSE IF axis = "x" THEN 0 ELSE room)
  BY <1>1, <1>2, <1>3, <1>4, <1>5, <1>6 DEF OnDark, Sub
<1>8. (IF d # 0 THEN (a * room) \div d ELSE IF axis = "x" THEN 0 ELSE room) \in 0..room
  <2>1. CASE d # 0
    BY <1>6, <2>1, ScaledIn
  <2>2. CASE d = 0
    BY <2>2
  <2> QED
    BY <2>1, <2>2
<1>9. PICK k \in 0..room : OnDark(points[i], axis) = m * 40 + k
  BY <1>7, <1>8
<1>10. m * 40 + k \in m * 40 .. (s - m) * 40
  BY <1>3, <1>4
<1> QED
  BY <1>3, <1>9, <1>10

-----------------------------------------------------------------------------
(* MapFrame: the tiles.                                                     *)

LEMMA TruncatedIs ==
  ASSUME NEW d \in Int, NEW u \in Nat \ {0}
  PROVE  /\ Truncated(d, u) \in Int
         /\ d >= 0 => u * Truncated(d, u) <= d /\ d < u * Truncated(d, u) + u
         /\ d < 0 => d <= u * Truncated(d, u) /\ u * Truncated(d, u) - u < d
<1>1. CASE d >= 0
  BY <1>1, Quotient DEF Truncated
<1>2. CASE d < 0
  <2> DEFINE q == (-d) \div u
  <2>1. q \in Int /\ u * q <= -d /\ -d < u * q + u
    BY Quotient
  <2>2. Truncated(d, u) = -q
    BY <1>2 DEF Truncated
  <2> HIDE DEF q
  <2>3. u * (-q) = -(u * q) /\ u * q \in Int
    BY <2>1
  <2> QED
    BY <1>2, <2>1, <2>2, <2>3
<1> QED
  BY <1>1, <1>2

\* A column of pixels, but perhaps the last, is on one of the tiles between the first
\* pixel and the last: on the one it falls on, or on the next one where rounding
\* towards zero moved that.
LEMMA ColumnCovered ==
  ASSUME NEW c \in Int, NEW u \in Nat \ {0}, NEW t \in Nat \ {0}, NEW s \in Nat \ {0},
         NEW i \in 0..s - 2
  PROVE  \E k \in (c \div (t * u)) .. ((c + (s - 1) * u) \div (t * u)) :
           i - Truncated(k * t * u - c, u) \in 0..t - 1
<1>1. PICK w \in Nat \ {0} : w = t * u
  OBVIOUS
<1>2. PICK iu \in Nat : iu = i * u
  OBVIOUS
<1>3. PICK k \in Int : k = (c + iu) \div w /\ w * k <= c + iu /\ c + iu < w * k + w
  BY Quotient
<1>4. PICK lo \in Int : lo = c \div w /\ w * lo <= c /\ c < w * lo + w
  BY Quotient
<1>5. PICK last \in Nat : last = (s - 1) * u
  OBVIOUS
<1>6. PICK hi \in Int : hi = (c + last) \div w /\ w * hi <= c + last /\ c + last < w * hi + w
  BY Quotient
<1>a. \A a, b \in Int : w * a < w * b + w => a <= b
  <2> SUFFICES ASSUME NEW a \in Int, NEW b \in Int, w * a < w * b + w, b + 1 <= a PROVE FALSE
    OBVIOUS
  <2>1. w * (b + 1) <= w * a
    BY Products
  <2>2. w * (b + 1) = w * b + w
    OBVIOUS
  <2> QED
    BY <2>1, <2>2
<1>7. lo <= k
  <2>1. w * lo < w * k + w
    BY <1>3, <1>4
  <2> QED
    BY <1>a, <2>1
<1>8. iu + u <= last
  <2>1. (i + 1) * u <= (s - 1) * u
    BY Products
  <2> QED
    BY <1>2, <1>5, <2>1
<1>9. k <= hi
  <2>1. w * k < w * hi + w
    BY <1>3, <1>6, <1>8
  <2> QED
    BY <1>a, <2>1
<1>10. PICK d \in Int : d = w * k - c
  OBVIOUS
<1>11. d <= iu /\ iu < d + w
  BY <1>3, <1>10
<1>12. k * t * u - c = d
  <2>1. k * t * u = w * k
    BY <1>1
  <2> QED
    BY <1>10, <2>1
<1>13. PICK b \in Int : /\ b = Truncated(d, u)
                        /\ d >= 0 => u * b <= d /\ d < u * b + u
                        /\ d < 0 => d <= u * b /\ u * b - u < d
  BY TruncatedIs
<1>u. \A x, y \in Int : u * x < u * y + u => x <= y
  <2> SUFFICES ASSUME NEW x \in Int, NEW y \in Int, u * x < u * y + u, y + 1 <= x PROVE FALSE
    OBVIOUS
  <2>1. u * (y + 1) <= u * x
    BY Products
  <2>2. u * (y + 1) = u * y + u
    OBVIOUS
  <2> QED
    BY <2>1, <2>2
<1>14. iu = u * i /\ w = u * t
  BY <1>1, <1>2
<1>15. b <= i
  <2>1. u * b < u * i + u
    BY <1>11, <1>13, <1>14
  <2> QED
    BY <1>u, <2>1
<1>16. i <= b + t
  <2>1. u * (b + t) = u * b + u * t
    OBVIOUS
  <2>2. PICK ub, ui, ut \in Int : ub = u * b /\ ui = u * i /\ ut = u * t
    OBVIOUS
  <2>3. ui < d + ut
    BY <1>11, <1>14, <2>2
  <2>4. d < ub + u
    BY <1>13, <2>2
  <2>5. u * i < u * (b + t) + u
    BY <2>1, <2>2, <2>3, <2>4
  <2> QED
    BY <1>u, <2>5
<1>17. CASE i < b + t
  <2>1. i - b \in 0..t - 1 /\ k \in lo..hi
    BY <1>7, <1>9, <1>15, <1>17
  <2> QED
    BY <1>1, <1>4, <1>5, <1>6, <1>12, <1>13, <2>1
<1>18. CASE i = b + t
  <2>1. u * i = u * b + u * t
    BY <1>18
  <2>2. d >= 0 /\ d < u * b + u
    BY <1>11, <1>13, <1>14, <2>1
  <2>3. PICK e \in Int : e = d + w
    OBVIOUS
  <2>4. (k + 1) * t * u - c = e
    <3>1. (k + 1) * t * u = w * k + w
      BY <1>1
    <3> QED
      BY <1>10, <2>3, <3>1
  <2>5. Truncated(e, u) = i
    <3>1. e >= 0 /\ u * i <= e /\ e < u * i + u
      BY <1>13, <1>14, <2>1, <2>2, <2>3
    <3>2. PICK f \in Int : f = Truncated(e, u) /\ u * f <= e /\ e < u * f + u
      BY <3>1, TruncatedIs
    <3>3. f <= i /\ i <= f
      <4>1. u * f < u * i + u /\ u * i < u * f + u
        BY <3>1, <3>2
      <4> QED
        BY <1>u, <4>1
    <3>4. f \in Int /\ i \in Int
      OBVIOUS
    <3>5. f = i
      BY <3>3, <3>4
    <3>6. f = Truncated(e, u)
      BY <3>2
    <3> QED
      BY <3>5, <3>6, Zenon
  <2>6. k + 1 <= hi
    <3>1. w * (k + 1) = w * k + w
      OBVIOUS
    <3>2. w * (k + 1) < w * hi + w
      BY <1>6, <1>8, <1>10, <1>14, <2>1, <2>2, <3>1
    <3> QED
      BY <1>a, <3>2
  <2>7. k + 1 \in lo..hi /\ i - i \in 0..t - 1
    BY <1>7, <2>6
  <2> QED
    BY <1>1, <1>4, <1>5, <1>6, <2>4, <2>5, <2>7
<1> QED
  BY <1>15, <1>16, <1>17, <1>18

\* Row after row.
LEMMA DivMod ==
  ASSUME NEW n \in Nat \ {0}, NEW q \in Nat, NEW a \in 0..n - 1
  PROVE  (q * n + a) \div n = q /\ (q * n + a) % n = a
<1>1. n * q = q * n
  OBVIOUS
<1>2. PICK x \in Nat : x = q * n + a
  OBVIOUS
<1>3. n * q <= x /\ x < n * q + n
  BY <1>1, <1>2
<1>4. x \div n = q
  BY <1>3, QuotientIs
<1>5. n * (x \div n) + (x % n) = x
  OBVIOUS
<1>6. x % n = a
  <2>1. n * q + (x % n) = x /\ x % n \in Int
    BY <1>4, <1>5
  <2> QED
    BY <1>1, <1>2, <2>1
<1> QED
  BY <1>2, <1>4, <1>6

Grid == {[x |-> i, y |-> j] : i \in TileRange("x"), j \in TileRange("y")}
TilePlace == [x : Int, y : Int]

\* The tiles that are fetched are those under the canvas.
LEMMA RangeIs ==
  ASSUME NEW n, HasPoints(n), SkewOK, NEW axis \in Axes
  PROVE  \E lo, hi \in Int :
           lo <= hi /\ TileRange(axis) = lo..hi
           /\ Min(TileRange(axis)) = lo /\ Max(TileRange(axis)) = hi
<1>1. PICK c \in Int : c = Corner(axis)
  BY CornerIs
<1>2. PICK u \in Nat \ {0} : u = Unit(chooseZoom(points))
  BY UnitType
<1>3. PICK s, t \in Nat \ {0} : s = Side(axis) /\ t = Tile
  BY SideType
<1>4. PICK w \in Nat \ {0} : w = t * u
  OBVIOUS
<1>5. PICK last \in Nat : last = (s - 1) * u
  OBVIOUS
<1>6. PICK lo \in Int : lo = c \div w /\ w * lo <= c /\ c < w * lo + w
  BY Quotient
<1>7. PICK hi \in Int : hi = (c + last) \div w /\ w * hi <= c + last /\ c + last < w * hi + w
  BY Quotient
<1>8. lo <= hi
  <2> SUFFICES ASSUME hi + 1 <= lo PROVE FALSE
    OBVIOUS
  <2>1. w * (hi + 1) <= w * lo
    BY Products
  <2>2. w * (hi + 1) = w * hi + w
    OBVIOUS
  <2> QED
    BY <1>6, <1>7, <2>1, <2>2
<1>9. TileRange(axis) = lo..hi
  BY <1>1, <1>2, <1>3, <1>4, <1>5, <1>6, <1>7 DEF TileRange
<1> QED
  BY <1>8, <1>9, IntervalEnds

LEMMA TilesAre ==
  ASSUME NEW n, HasPoints(n), SkewOK
  PROVE  /\ TilesUnder \in Seq(TilePlace)
         /\ Grid \subseteq {TilesUnder[k] : k \in DOMAIN TilesUnder}
         /\ Grid # {}
<1>1. PICK xl, xh \in Int : /\ xl <= xh /\ TileRange("x") = xl..xh
                           /\ Min(TileRange("x")) = xl /\ Max(TileRange("x")) = xh
  BY RangeIs DEF Axes
<1>2. PICK yl, yh \in Int : /\ yl <= yh /\ TileRange("y") = yl..yh
                           /\ Min(TileRange("y")) = yl /\ Max(TileRange("y")) = yh
  BY RangeIs DEF Axes
<1>3. PICK m \in Nat \ {0} : m = xh - xl + 1
  BY <1>1
<1>4. PICK h \in Nat \ {0} : h = yh - yl + 1
  BY <1>2
<1>5. PICK N \in Nat : N = m * h
  OBVIOUS
<1>6. TilesUnder = [k \in 1..N |-> [x |-> xl + ((k - 1) % m), y |-> yl + ((k - 1) \div m)]]
  BY <1>1, <1>2, <1>3, <1>4, <1>5 DEF TilesUnder
<1>7. TilesUnder \in Seq(TilePlace)
  <2>1. \A k \in 1..N : (k - 1) % m \in Int /\ (k - 1) \div m \in Int
    OBVIOUS
  <2>2. \A k \in 1..N : [x |-> xl + ((k - 1) % m), y |-> yl + ((k - 1) \div m)] \in TilePlace
    BY <2>1 DEF TilePlace
  <2>3. TilesUnder \in [1..N -> TilePlace]
    BY <1>6, <2>2
  <2> QED
    BY <2>3
<1>8. ASSUME NEW i \in TileRange("x"), NEW j \in TileRange("y")
      PROVE  [x |-> i, y |-> j] \in {TilesUnder[k] : k \in DOMAIN TilesUnder}
  <2>1. PICK a \in 0..m - 1 : i = xl + a
    <3>1. i - xl \in 0..m - 1 /\ i = xl + (i - xl)
      BY <1>1, <1>3
    <3> QED
      BY <3>1
  <2>2. PICK q \in 0..h - 1 : j = yl + q
    <3>1. j - yl \in 0..h - 1 /\ j = yl + (j - yl)
      BY <1>2, <1>4
    <3> QED
      BY <3>1
  <2>3. PICK k \in Nat : k = q * m + a + 1
    OBVIOUS
  <2>4. k \in 1..N
    <3>1. (q + 1) * m <= h * m
      BY Products
    <3>2. (q + 1) * m = q * m + m /\ h * m = N
      BY <1>5
    <3>3. PICK qm \in Nat : qm = q * m
      OBVIOUS
    <3> QED
      BY <2>3, <3>1, <3>2, <3>3
  <2>5. (k - 1) % m = a /\ (k - 1) \div m = q
    <3>1. k - 1 = q * m + a
      BY <2>3
    <3> QED
      BY <3>1, DivMod
  <2>6. TilesUnder[k] = [x |-> i, y |-> j] /\ k \in DOMAIN TilesUnder
    BY <1>6, <2>1, <2>2, <2>4, <2>5
  <2> QED
    BY <2>6
<1>9. Grid # {}
  <2>1. xl \in TileRange("x") /\ yl \in TileRange("y")
    BY <1>1, <1>2
  <2>2. [x |-> xl, y |-> yl] \in Grid
    BY <2>1 DEF Grid
  <2> QED
    BY <2>2
<1> QED
  BY <1>7, <1>8, <1>9 DEF Grid

-----------------------------------------------------------------------------
(* MapFrame: the inductive invariant.                                       *)

\* There are waypoints or there are none; the rest of what FrameTypeOK says.
PointsPart ==
  /\ picture \in {"mission", "waypoint"} /\ SkewOK
  /\ points \in Seq([x : Places, y : Places])
  /\ ground \in {"blank", "tiles", "dark"} /\ drawing \in {"tiles", "markers", "done"}
  /\ painted \subseteq TilePlace /\ todo \in Seq(TilePlace)
\* A tile under the canvas is painted or still to come, unless the ground is dark.
TilesPart ==
  /\ points = <<>> => todo = <<>> /\ painted = {} /\ ground # "tiles"
  /\ points # <<>> /\ ground # "dark" =>
       Grid \subseteq painted \cup {todo[k] : k \in DOMAIN todo}
  /\ ground # "tiles" => painted = {}
  /\ drawing = "tiles" => ground # "dark"
  /\ drawing # "tiles" => ground # "blank" /\ todo = <<>>
MarksPart ==
  marks = IF drawing # "done" \/ picture = "waypoint" THEN <<>>
          ELSE [i \in DOMAIN points |-> MarkOf(points[i])]
FrameInv == PointsPart /\ TilesPart /\ MarksPart

LEMMA MapStays ==
  ASSUME UNCHANGED <<points, skew>>
  PROVE  Grid' = Grid
BY DEF Grid, TileRange, Corner

LEMMA MarksStay ==
  ASSUME UNCHANGED <<points, skew, ground>>, NEW i \in DOMAIN points
  PROVE  MarkOf(points[i])' = MarkOf(points[i])
BY DEF MarkOf, OnMap, OnDark, Corner

LEMMA SomePoints ==
  ASSUME PointsPart, points # <<>>
  PROVE  \E n \in Nat \ {0} : HasPoints(n) /\ DOMAIN points = 1..n
<1> DEFINE P == [x : Places, y : Places]
<1>0. points \in Seq(P)
  BY DEF PointsPart
<1> HIDE DEF P
<1>1. PICK n \in Nat : points \in [1..n -> P] /\ Len(points) = n
  BY <1>0
<1>2. n # 0
  BY <1>0, <1>1
<1> QED
  BY <1>1, <1>2 DEF HasPoints, P

LEMMA FrameInvInit ==
  ASSUME FrameInit
  PROVE  FrameInv
<1>1. PICK n \in Nat : points \in [1..n -> [x : Places, y : Places]]
  BY FrameAssumption DEF FrameInit
<1> DEFINE P == [x : Places, y : Places]
<1>2. points \in Seq(P)
  <2> HIDE DEF P
  <2>1. points \in [1..n -> P]
    BY <1>1 DEF P
  <2> QED
    BY <2>1
<1>3. SkewOK
  BY DEF FrameInit, SkewOK
<1>4. CASE points = <<>>
  <2>1. todo = <<>> /\ todo \in Seq(TilePlace) /\ painted \subseteq TilePlace
    BY <1>4 DEF FrameInit
  <2>2. PointsPart
    BY <1>2, <1>3, <2>1 DEF FrameInit, PointsPart
  <2>3. TilesPart
    BY <1>4, <2>1 DEF FrameInit, TilesPart
  <2> QED
    BY <2>2, <2>3 DEF FrameInit, FrameInv, MarksPart
<1>5. CASE points # <<>>
  <2>1. n # 0
    BY <1>1, <1>2, <1>5
  <2>2. HasPoints(n)
    BY <1>1, <2>1 DEF HasPoints
  <2>3. todo = TilesUnder /\ todo \in Seq(TilePlace)
        /\ Grid \subseteq {todo[k] : k \in DOMAIN todo}
    BY <1>3, <1>5, <2>2, TilesAre DEF FrameInit
  <2>4. PointsPart
    BY <1>2, <1>3, <2>3 DEF FrameInit, PointsPart
  <2>5. TilesPart
    BY <1>5, <2>3 DEF FrameInit, TilesPart
  <2> QED
    BY <2>4, <2>5 DEF FrameInit, FrameInv, MarksPart
<1> QED
  BY <1>4, <1>5

LEMMA FetchTileStep ==
  ASSUME FrameInv, FetchTile
  PROVE  FrameInv'
<1>1. Head(todo) \in TilePlace /\ Tail(todo) \in Seq(TilePlace)
  BY DEF FrameInv, PointsPart, FetchTile
<1>2. PointsPart'
  BY <1>1 DEF FrameInv, PointsPart, FetchTile, SkewOK
<1>3. points # <<>> /\ ground # "dark"
  BY DEF FrameInv, TilesPart, FetchTile
<1>4. Grid' = Grid
  BY MapStays DEF FetchTile
<1>5. Grid \subseteq painted' \cup {todo'[k] : k \in DOMAIN todo'}
  <2> SUFFICES ASSUME NEW t \in Grid PROVE t \in painted' \cup {todo'[k] : k \in DOMAIN todo'}
    OBVIOUS
  <2>1. t \in painted \/ \E k \in DOMAIN todo : t = todo[k]
    BY <1>3 DEF FrameInv, TilesPart
  <2>2. ASSUME NEW k \in DOMAIN todo, t = todo[k]
        PROVE  t = Head(todo) \/ \E l \in DOMAIN Tail(todo) : t = Tail(todo)[l]
    <3>1. todo \in Seq(TilePlace) /\ todo # <<>>
      BY DEF FrameInv, PointsPart, FetchTile
    <3>2. CASE k = 1
      BY <2>2, <3>1, <3>2
    <3>3. CASE k # 1
      <4>1. k \in 2..Len(todo)
        BY <2>2, <3>1, <3>3
      <4>2. k - 1 \in 1..Len(Tail(todo)) /\ Tail(todo)[k - 1] = todo[k]
        BY <3>1, <4>1
      <4> QED
        BY <2>2, <3>1, <4>2
    <3> QED
      BY <3>2, <3>3
  <2> QED
    BY <2>1, <2>2 DEF FetchTile
<1>6. TilesPart'
  BY <1>3, <1>4, <1>5 DEF FrameInv, TilesPart, FetchTile
<1>7. MarksPart'
  BY DEF FrameInv, MarksPart, FetchTile
<1> QED
  BY <1>2, <1>6, <1>7 DEF FrameInv

LEMMA FetchFailsStep ==
  ASSUME FrameInv, FetchFails
  PROVE  FrameInv'
<1>1. PointsPart'
  BY DEF FrameInv, PointsPart, FetchFails, SkewOK
<1>2. TilesPart'
  BY DEF FrameInv, TilesPart, FetchFails
<1>3. MarksPart'
  BY DEF FrameInv, MarksPart, FetchFails
<1> QED
  BY <1>1, <1>2, <1>3 DEF FrameInv

\* All tiles are there: there were some, so that the ground is not blank.
LEMMA AllFetchedStep ==
  ASSUME FrameInv, AllFetched
  PROVE  FrameInv'
<1>1. PointsPart'
  BY DEF FrameInv, PointsPart, AllFetched, SkewOK
<1>2. Grid' = Grid
  BY MapStays DEF AllFetched
<1>3. points # <<>> => ground = "tiles"
  <2> SUFFICES ASSUME points # <<>> PROVE ground = "tiles"
    OBVIOUS
  <2>1. Grid # {}
    BY SomePoints, TilesAre DEF FrameInv, PointsPart
  <2>2. Grid \subseteq painted
    BY DEF FrameInv, TilesPart, AllFetched
  <2> QED
    BY <2>1, <2>2 DEF FrameInv, TilesPart
<1>4. TilesPart'
  BY <1>2, <1>3 DEF FrameInv, TilesPart, AllFetched
<1>5. MarksPart'
  BY DEF FrameInv, MarksPart, AllFetched
<1> QED
  BY <1>1, <1>4, <1>5 DEF FrameInv

LEMMA OverlayStep ==
  ASSUME FrameInv, Overlay
  PROVE  FrameInv'
<1>1. PointsPart'
  BY DEF FrameInv, PointsPart, Overlay, SkewOK
<1>2. Grid' = Grid
  BY MapStays DEF Overlay
<1>3. TilesPart'
  BY <1>2 DEF FrameInv, TilesPart, Overlay
<1>4. MarksPart'
  <2>1. \A i \in DOMAIN points : MarkOf(points[i])' = MarkOf(points[i])
    BY MarksStay DEF Overlay
  <2> QED
    BY <2>1 DEF MarksPart, Overlay
<1> QED
  BY <1>1, <1>3, <1>4 DEF FrameInv

LEMMA FrameStutter ==
  ASSUME FrameInv, UNCHANGED frameVars
  PROVE  FrameInv'
<1>1. PointsPart'
  BY DEF FrameInv, PointsPart, frameVars, SkewOK
<1>2. Grid' = Grid
  BY MapStays DEF frameVars
<1>3. TilesPart'
  BY <1>2 DEF FrameInv, TilesPart, frameVars
<1>4. MarksPart'
  <2>1. \A i \in DOMAIN points : MarkOf(points[i])' = MarkOf(points[i])
    BY MarksStay DEF frameVars
  <2> QED
    BY <2>1 DEF FrameInv, MarksPart, frameVars
<1> QED
  BY <1>1, <1>3, <1>4 DEF FrameInv

LEMMA FrameInvHolds == FrameSpec => []FrameInv
<1>1. FrameInit => FrameInv
  BY FrameInvInit
<1>2. FrameInv /\ [FrameNext]_frameVars => FrameInv'
  BY FetchTileStep, FetchFailsStep, AllFetchedStep, OverlayStep, FrameStutter DEF FrameNext
<1> QED
  BY <1>1, <1>2, PTL DEF FrameSpec

\* Every marker of a finished picture is at whole units.
LEMMA MarksTyped ==
  ASSUME FrameInv, NEW i \in DOMAIN marks
  PROVE  /\ drawing = "done" /\ picture = "mission" /\ points # <<>> /\ i \in DOMAIN points
         /\ \A axis \in Axes : marks[i][axis] =
              IF ground = "tiles" THEN OnMap(points[i], axis) ELSE OnDark(points[i], axis)
<1>1. drawing = "done" /\ picture # "waypoint"
  BY DEF FrameInv, MarksPart
<1>2. marks = [j \in DOMAIN points |-> MarkOf(points[j])]
  BY <1>1 DEF FrameInv, MarksPart
<1>3. i \in DOMAIN points /\ marks[i] = MarkOf(points[i])
  BY <1>2
<1>4. points # <<>>
  BY <1>3
<1> QED
  BY <1>1, <1>3, <1>4 DEF FrameInv, PointsPart, MarkOf, Axes

\* Type correctness: the tiles and the markers are at whole places (Generate,
\* overlayWaypoints and overlayWaypointsFallback, generator.go:96-243).
THEOREM FrameTypes == FrameSpec => []FrameTypeOK
<1>1. ASSUME FrameInv PROVE FrameTypeOK
  <2>1. \A i \in DOMAIN points : points[i] \in [x : Places, y : Places]
    <3> DEFINE P == [x : Places, y : Places]
    <3>1. points \in Seq(P)
      BY <1>1 DEF FrameInv, PointsPart
    <3> HIDE DEF P
    <3>2. \A i \in DOMAIN points : points[i] \in P
      BY <3>1
    <3> QED
      BY <3>2 DEF P
  <2>2. \A t \in painted : t.x \in Int /\ t.y \in Int
    BY <1>1 DEF FrameInv, PointsPart, TilePlace
  <2>3. ASSUME NEW i \in DOMAIN marks
        PROVE  marks[i].x \in Int /\ marks[i].y \in Int
    <3>1. points # <<>> /\ i \in DOMAIN points
      BY <1>1, MarksTyped
    <3>2. PICK n \in Nat : HasPoints(n)
      BY <1>1, <3>1, SomePoints DEF FrameInv
    <3>3. ASSUME NEW axis \in Axes PROVE marks[i][axis] \in Int
      <4>1. OnMap(points[i], axis) \in Int
        BY <1>1, <3>1, <3>2, MarkedOnMap DEF FrameInv, PointsPart
      <4>2. OnDark(points[i], axis) \in Int
        <5>1. OnDark(points[i], axis) \in Margin * 40 .. (Side(axis) - Margin) * 40
          BY <3>1, <3>2, MarkedOnDark
        <5>2. Margin * 40 \in Int /\ (Side(axis) - Margin) * 40 \in Int
          BY SideType
        <5> QED
          BY <5>1, <5>2
      <4> QED
        BY <1>1, <4>1, <4>2, MarksTyped
    <3> QED
      BY <3>3 DEF Axes
  <2> QED
    BY <1>1, <2>1, <2>2, <2>3 DEF FrameTypeOK, FrameInv, PointsPart, SkewOK
<1> QED
  BY <1>1, FrameInvHolds, PTL

\* The finished picture on tiles has no hole, but perhaps at its far edges.
LEMMA NoHole ==
  ASSUME FrameInv, drawing = "done", ground = "tiles",
         NEW i \in 0..Width - 2, NEW j \in 0..Height - 2
  PROVE  Covered(i, j)
<1>1. points # <<>>
  BY DEF FrameInv, TilesPart
<1>2. PICK n \in Nat : HasPoints(n)
  BY <1>1, SomePoints DEF FrameInv
<1>3. SkewOK
  BY DEF FrameInv, PointsPart
<1>4. PICK u \in Nat \ {0} : u = Unit(chooseZoom(points))
  BY UnitType
<1>5. ASSUME NEW axis \in Axes, NEW l \in 0..Side(axis) - 2
      PROVE  \E k \in TileRange(axis) : l - Truncated(k * Tile * u - Corner(axis), u) \in 0..Tile - 1
  <2>1. PICK c \in Int : c = Corner(axis)
    BY <1>2, <1>3, CornerIs
  <2>2. PICK s, t \in Nat \ {0} : s = Side(axis) /\ t = Tile
    BY SideType
  <2>3. l \in 0..s - 2
    BY <2>2
  <2>4. \E k \in (c \div (t * u)) .. ((c + (s - 1) * u) \div (t * u)) :
           l - Truncated(k * t * u - c, u) \in 0..t - 1
    BY <2>3, ColumnCovered
  <2>5. TileRange(axis) = (c \div (t * u)) .. ((c + (s - 1) * u) \div (t * u))
    BY <1>4, <2>1, <2>2 DEF TileRange
  <2> QED
    BY <2>1, <2>2, <2>4, <2>5
<1>6. PICK p \in TileRange("x") : i - Truncated(p * Tile * u - Corner("x"), u) \in 0..Tile - 1
  BY <1>5 DEF Axes, Side
<1>7. PICK q \in TileRange("y") : j - Truncated(q * Tile * u - Corner("y"), u) \in 0..Tile - 1
  BY <1>5 DEF Axes, Side
<1>8. PICK t : t = [x |-> p, y |-> q]
  OBVIOUS
<1>9. t \in painted
  <2>1. t \in Grid
    BY <1>8 DEF Grid
  <2>2. Grid \subseteq painted
    BY <1>1 DEF FrameInv, TilesPart
  <2> QED
    BY <2>1, <2>2
<1>10. Begins(t, "x") = Truncated(p * Tile * u - Corner("x"), u)
       /\ Begins(t, "y") = Truncated(q * Tile * u - Corner("y"), u)
  BY <1>4, <1>8 DEF Begins
<1> QED
  BY <1>6, <1>7, <1>9, <1>10 DEF Covered

\* A picture is of one piece: all its tiles without a hole and every waypoint of a
\* mission that fits on it, or no tile and every waypoint within the margin, whatever
\* fetch failed (generator.go:157-176, 217-243).
THEOREM PictureOfOnePiece == FrameSpec => []PictureWhole
<1>1. ASSUME FrameInv PROVE PictureWhole
  <2> SUFFICES ASSUME drawing = "done"
               PROVE  \/ /\ ground = "tiles"
                         /\ \A i \in 0..Width - 2, j \in 0..Height - 2 : Covered(i, j)
                         /\ (\E z \in MinZoom..MaxZoom : FitsAt(points, z)) =>
                              \A i \in DOMAIN marks : \A axis \in Axes : Inside(marks[i], axis, 0)
                      \/ /\ ground = "dark" /\ painted = {}
                         /\ \A i \in DOMAIN marks : \A axis \in Axes : Inside(marks[i], axis, Margin)
    BY DEF PictureWhole, Axes
  <2>1. CASE ground = "tiles"
    <3>1. \A i \in 0..Width - 2, j \in 0..Height - 2 : Covered(i, j)
      BY <1>1, <2>1, NoHole
    <3>2. ASSUME \E z \in MinZoom..MaxZoom : FitsAt(points, z),
                 NEW i \in DOMAIN marks, NEW axis \in Axes
          PROVE  Inside(marks[i], axis, 0)
      <4>1. points # <<>> /\ i \in DOMAIN points /\ marks[i][axis] = OnMap(points[i], axis)
        BY <1>1, <2>1, MarksTyped
      <4>2. PICK n \in Nat : HasPoints(n)
        BY <1>1, <4>1, SomePoints DEF FrameInv
      <4>3. OnMap(points[i], axis) \in 0..Side(axis) * 40
        BY <1>1, <3>2, <4>1, <4>2, ZoomFits, MarkedOnMap DEF FrameInv, PointsPart
      <4>4. 0 * 40 = 0 /\ (Side(axis) - 0) * 40 = Side(axis) * 40
        BY SideType
      <4> QED
        BY <4>1, <4>3, <4>4 DEF Inside, Sub
    <3> QED
      BY <2>1, <3>1, <3>2
  <2>2. CASE ground = "dark"
    <3>1. painted = {}
      BY <1>1, <2>2 DEF FrameInv, TilesPart
    <3>2. ASSUME NEW i \in DOMAIN marks, NEW axis \in Axes
          PROVE  Inside(marks[i], axis, Margin)
      <4>1. points # <<>> /\ i \in DOMAIN points /\ marks[i][axis] = OnDark(points[i], axis)
        BY <1>1, <2>2, MarksTyped
      <4>2. PICK n \in Nat : HasPoints(n)
        BY <1>1, <4>1, SomePoints DEF FrameInv
      <4>3. OnDark(points[i], axis) \in Margin * 40 .. (Side(axis) - Margin) * 40
        BY <4>1, <4>2, MarkedOnDark
      <4> QED
        BY <4>1, <4>3 DEF Inside, Sub
    <3> QED
      BY <2>2, <3>1, <3>2
  <2>3. ground = "tiles" \/ ground = "dark"
    BY <1>1 DEF FrameInv, PointsPart, TilesPart
  <2> QED
    BY <2>1, <2>2, <2>3
<1> QED
  BY <1>1, FrameInvHolds, PTL

-----------------------------------------------------------------------------
(* The host: one behaviour of each part.                                    *)

LEMMA HostParts ==
  HostSpec => Spec /\ CacheSpec /\ GallerySpec /\ SlotListSpec /\ ShotSpec /\ FrameSpec /\ KmzSpec
<1>1. HostInit =>
        Init /\ CacheInit /\ GalleryInit /\ SlotListInit /\ ShotInit /\ FrameInit /\ KmzInit
  BY DEF HostInit
<1>2. [HostNext]_hostVars =>
        /\ [Next]_vars /\ [CacheNext]_cacheAll /\ [GalleryNext]_galleryVars
        /\ [SlotListNext]_listVars /\ [ShotNext]_imageVars /\ [FrameNext]_frameVars
        /\ [KmzNext]_kmzVars
  BY DEF HostNext, hostVars, StoresMove, PanelMoves, PreviewsMove, GalleryMoves, ListMoves,
         ShotsMove, MapMoves, KmzMoves
<1> QED
  BY <1>1, <1>2, PTL
  DEF HostSpec, Spec, CacheSpec, GallerySpec, SlotListSpec, ShotSpec, FrameSpec, KmzSpec

\* The panel of a host that has none is closed, and stays within its types.
LEMMA HostPanel == HostSpec => []PanelTypeOK /\ NotBlind /\ ChangesLight
<1>1. HostInit => PanelTypeOK /\ LitIsDrawn
  <2>1. HostInit => \E place \in {"sample", "closed"} : PanelAt(place)
    BY DEF HostInit, PanelRest, PanelInit
  <2>2. \A place \in {"sample", "closed"} : PanelAt(place) => PanelTypeOK
    BY PanelTypeInit
  <2>3. \A place \in {"sample", "closed"} : PanelAt(place) => LitIsDrawn
    BY DEF PanelAt, LitIsDrawn
  <2> QED
    BY <2>1, <2>2, <2>3
<1>2. [HostNext]_hostVars => [PanelNext]_panelVars
  BY DEF HostNext, hostVars, StoresMove, PanelMoves, PreviewsMove, GalleryMoves, ListMoves,
         ShotsMove, MapMoves, KmzMoves
<1>3. LitIsDrawn /\ PanelTypeOK /\ [PanelNext]_panelVars =>
        [Acts => screenOn /\ drawn # "no"]_panelVars
  BY NotBlindStep
<1>4. PanelTypeOK /\ [PanelNext]_panelVars =>
        [sigInit /\ lastSig' # lastSig => screenOn']_panelVars
  BY ChangesLightStep
<1> QED
  BY <1>1, <1>2, <1>3, <1>4, PanelTypeStep, LitIsDrawnStep, PTL
  DEF HostSpec, NotBlind, ChangesLight

\* Type correctness of every part of the host at once.
THEOREM HostTypes == HostSpec => []HostTypeOK
<1>1. HostInit => active \in Parts
  BY DEF HostInit
<1>2. active \in Parts /\ [HostNext]_hostVars => (active \in Parts)'
  BY DEF HostNext, hostVars, StoresMove, PanelMoves, PreviewsMove, GalleryMoves, ListMoves,
         ShotsMove, MapMoves, KmzMoves
<1>3. HostSpec => [](active \in Parts)
  BY <1>1, <1>2, PTL DEF HostSpec
<1>4. /\ active \in Parts
      /\ TypeOK /\ PanelTypeOK /\ CacheTypeOK /\ GalleryTypeOK /\ SlotListTypeOK /\ ShotTypeOK
      /\ FrameTypeOK /\ KmzTypeOK
      => HostTypeOK
  BY DEF HostTypeOK
<1> QED
  BY <1>3, <1>4, HostParts, HostPanel, StoreTypes, CacheTypes, GalleryTypes, SlotListTypes,
     ShotTypes, FrameTypes, KmzTypes, PTL

\* What each part of the host promises by itself it promises beside the others, if
\* one process has the stores.
THEOREM HostKeepsPromises ==
  ASSUME NEW p \in Procs, Procs = {p}
  PROVE  HostSpec =>
           /\ [](FileReadable /\ AnswersSurvive)
           /\ []ServedWhole /\ PurgedStaysPurged
           /\ [](IdsKeepMeaning /\ PosterOnce)
           /\ []ListingTrue /\ ThumbnailFresh
           /\ []FolderOfMission /\ []PictureWhole /\ []MissionRead
           /\ NotBlind /\ ChangesLight
<1>1. Spec => []FileReadable /\ []AnswersSurvive
  BY SidecarReadable, SidecarDurable
<1> QED
  BY <1>1, HostParts, HostPanel, PreviewsWhole, PurgesLast, IDsResolveAsListed, DecodedOnce,
     ListedTrue, NoStaleThumbnail, FolderTrue, PictureOfOnePiece, MissionTrue, PTL

=============================================================================
