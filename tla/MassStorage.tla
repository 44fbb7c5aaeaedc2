---------------------------- MODULE MassStorage ----------------------------
(***************************************************************************)
(* USB Mass Storage volumes as the device registry keeps them: what        *)
(* lsblk shows (vol), the registry's record of every volume it inspected   *)
(* (Registry.msVolumes), and the mounts the daemon made below its          *)
(* massStorageDir.  The scan itself is one step of Registry.Refresh and    *)
(* runs under the registry lock; module Registry extends this one.         *)
(***************************************************************************)
EXTENDS Naturals, FiniteSets

CONSTANTS
  Volumes,      \* block-device volume IDs (UUIDs)
  MediaVolumes, \* those that carry a DCIM layout
  AutoMounted,  \* those the operating system mounts before we look
  MaxInserts    \* bound: insertions per volume

ASSUME VolumeAssumption ==
  /\ MediaVolumes \subseteq Volumes
  /\ AutoMounted \subseteq Volumes
  /\ MaxInserts \in Nat

VARIABLES
  vol,        \* vol[v] = [here, gen]: is v in the lsblk output, and which insertion is it
  msVolumes,  \* msVolumes[v]: the registry's record of v
  mounts      \* mounts[v] = the insertion mounted by us at massStorageDir/v, 0 if none

volVars == <<vol, msVolumes, mounts>>

VolState == [here: BOOLEAN, gen: 0..MaxInserts]
MSVolume == [known: BOOLEAN, mountedByUs: BOOLEAN, isMedia: BOOLEAN, gen: 0..MaxInserts]
NoMSVolume == [known |-> FALSE, mountedByUs |-> FALSE, isMedia |-> FALSE, gen |-> 0]

VolTypeOK ==
  /\ vol \in [Volumes -> VolState]
  /\ msVolumes \in [Volumes -> MSVolume]
  /\ mounts \in [Volumes -> 0..MaxInserts]

VolInit ==
  /\ vol = [v \in Volumes |-> [here |-> FALSE, gen |-> 0]]
  /\ msVolumes = [v \in Volumes |-> NoMSVolume]
  /\ mounts = [v \in Volumes |-> 0]

-----------------------------------------------------------------------------
(* The card reader's side.                                                  *)

\* The user inserts the volume, possibly before a scan saw it gone.
Insert(v) ==
  /\ ~vol[v].here
  /\ vol[v].gen < MaxInserts
  /\ vol' = [vol EXCEPT ![v] = [here |-> TRUE, gen |-> @.gen + 1]]
  /\ UNCHANGED <<msVolumes, mounts>>

Eject(v) ==
  /\ vol[v].here
  /\ vol' = [vol EXCEPT ![v].here = FALSE]
  /\ UNCHANGED <<msVolumes, mounts>>

-----------------------------------------------------------------------------
(* scanMassStorage.                                                         *)

\* probeVolume: what the registry remembers of a freshly seen volume.  failed
\* says that mounting it failed: the record then stays a non-media one and is
\* never probed again while the volume is present.
ProbeVolume(v, failed) ==
  [ known       |-> TRUE,
    isMedia     |-> v \in MediaVolumes /\ ~failed,
    mountedByUs |-> v \in MediaVolumes /\ ~failed /\ v \notin AutoMounted,
    gen         |-> vol[v].gen ]

NewVolumes  == {v \in Volumes : vol[v].here /\ ~msVolumes[v].known}
BugForgetMediaOnly == {v \in Volumes : ~vol[v].here /\ msVolumes[v].isMedia}
GoneVolumes == {v \in Volumes : ~vol[v].here /\ msVolumes[v].known}

\* A successful scan: every new volume is probed (those in failing cannot be
\* mounted), every volume that went away is unmounted if we mounted it, and
\* forgotten.
ScanMassStorage(failing) ==
  /\ failing \subseteq NewVolumes \ AutoMounted
  /\ msVolumes' = [v \in Volumes |->
       IF v \in NewVolumes THEN ProbeVolume(v, v \in failing)
       ELSE IF v \in GoneVolumes THEN NoMSVolume
       ELSE msVolumes[v]]
  /\ mounts' = [v \in Volumes |->
       IF v \in (NewVolumes \cap MediaVolumes) \ (AutoMounted \cup failing) THEN vol[v].gen
       ELSE IF v \in GoneVolumes /\ msVolumes[v].mountedByUs THEN 0
       ELSE mounts[v]]
  /\ UNCHANGED vol

\* blockdev.Scan failed: nothing is registered and nothing is unmounted.
ScanFails == UNCHANGED volVars

\* The volumes a scan puts into Registry.devices.
Registered(known) == {v \in Volumes : vol[v].here /\ known[v].isMedia}

\* cleanMassStorageDir: unmount whatever the previous run left behind.
BugLeaveMounts == mounts
CleanMounts == [v \in Volumes |-> 0]

\* NewRegistry of a restarted daemon: the records are gone.
VolRestart ==
  /\ msVolumes' = [v \in Volumes |-> NoMSVolume]
  /\ mounts' = CleanMounts
  /\ UNCHANGED vol

=============================================================================
