---------------------------- MODULE SidecarStore ----------------------------
(***************************************************************************)
(* The JSON sidecar files next to config.yaml that keep what the user says *)
(* about slots: internal/names, internal/slotorder and internal/managed    *)
(* are one machine, whose keys and values differ.  A store is a map in     *)
(* memory; every Set changes it and writes all of it to a temporary file   *)
(* that is renamed over the old one.                                       *)
(*                                                                         *)
(* Store.mu serialises the Sets of one process.  Each run of the program   *)
(* is a process with stores of its own: the daemon, and every command of   *)
(* the command line beside it.  They share the files, the temporary one    *)
(* too.  A write goes to the file that was opened, whatever its name is by *)
(* now.  A process may stop between any two steps; the disk does not lose  *)
(* what was written.                                                       *)
(***************************************************************************)
EXTENDS Naturals

CONSTANTS
  Procs,      \* runs of the program by one user
  Keys,       \* (device, slot) pairs; devices, for the slot order
  Values,     \* names, orders, explicit flags
  Nothing,    \* no entry: the default
  NoFile, Empty, Torn,   \* no such file; nothing in it; not JSON
  Unknown,
  MaxSets,    \* bound: calls of Set
  MaxFaults,  \* bound: file operations that fail
  MaxStops    \* bound: processes that crash or end

Maps == [Keys -> Values \cup {Nothing}]

ASSUME StoreAssumption ==
  /\ Nothing \notin Values /\ Unknown \notin Values \cup {Nothing}
  /\ NoFile \notin Maps /\ Empty \notin Maps /\ Torn \notin Maps
  /\ NoFile # Empty /\ NoFile # Torn /\ Empty # Torn
  /\ MaxSets \in Nat /\ MaxFaults \in Nat /\ MaxStops \in Nat

VARIABLES
  up,      \* the processes that run and have loaded the file
  mem,     \* mem[p]: Store.m of p
  step,    \* step[p]: what the Set that holds the lock of p does next
  key,     \* key[p]: the key it is about
  fd,      \* fd[p]: the name by now of the file that p has open for writing
  file,    \* the sidecar file
  tmp,     \* the temporary one
  told,    \* history: told[k]: what the last Set of k was told it had saved
  sets, faults, stops

procVars == <<up, mem, step, key, fd>>
diskVars == <<file, tmp>>
bounds == <<sets, faults, stops>>
vars == <<procVars, diskVars, told, bounds>>

Contents == Maps \cup {Empty, Torn}
Default == [k \in Keys |-> Nothing]

TypeOK ==
  /\ up \subseteq Procs /\ mem \in [Procs -> Maps]
  /\ step \in [Procs -> {"idle", "open", "write", "rename"}]
  /\ key \in [Procs -> Keys]
  /\ fd \in [Procs -> {"none", "tmp", "file", "unlinked"}]
  /\ file \in Contents \cup {NoFile} /\ tmp \in Contents \cup {NoFile}
  /\ told \in [Keys -> Values \cup {Nothing, Unknown}]
  /\ sets \in 0..MaxSets /\ faults \in 0..MaxFaults /\ stops \in 0..MaxStops
  /\ \A p \in Procs :
       /\ fd[p] # "none" <=> step[p] = "write"
       /\ step[p] # "idle" => p \in up
       /\ fd[p] = "tmp" => tmp # NoFile
       /\ fd[p] = "file" => file # NoFile

Init ==
  /\ up = {} /\ mem = [p \in Procs |-> Default]
  /\ step = [p \in Procs |-> "idle"] /\ key \in [Procs -> Keys]
  /\ fd = [p \in Procs |-> "none"]
  /\ file = NoFile /\ tmp = NoFile
  /\ told = [k \in Keys |-> Unknown]
  /\ sets = 0 /\ faults = 0 /\ stops = 0

-----------------------------------------------------------------------------
(* A process.                                                               *)

\* New: a missing or an empty file is an empty store.
Loaded == IF file \in Maps THEN file ELSE Default

\* The program starts.  With a file that is not JSON it goes without a store.
Start(p) ==
  /\ p \notin up /\ file # Torn
  /\ up' = up \cup {p}
  /\ mem' = [mem EXCEPT ![p] = Loaded]
  /\ UNCHANGED <<step, key, fd, diskVars, told, bounds>>

\* It crashes, or a command ends.
BugKeepOpen(p) ==
  /\ p \in up /\ stops < MaxStops /\ stops' = stops + 1
  /\ up' = up \ {p}
  /\ step' = [step EXCEPT ![p] = "idle"]
  /\ UNCHANGED <<mem, key, fd, diskVars, told, sets, faults>>
Stop(p) ==
  /\ p \in up /\ stops < MaxStops /\ stops' = stops + 1
  /\ up' = up \ {p}
  /\ step' = [step EXCEPT ![p] = "idle"]
  /\ fd' = [fd EXCEPT ![p] = "none"]
  /\ UNCHANGED <<mem, key, diskVars, told, sets, faults>>

-----------------------------------------------------------------------------
(* Set.                                                                     *)

\* Set takes the lock and changes the map; Nothing removes the entry.
Set(p, k, v) ==
  /\ p \in up /\ step[p] = "idle" /\ sets < MaxSets
  /\ mem' = [mem EXCEPT ![p][k] = v]
  /\ step' = [step EXCEPT ![p] = "open"] /\ key' = [key EXCEPT ![p] = k]
  /\ told' = [told EXCEPT ![k] = Unknown]
  /\ sets' = sets + 1
  /\ UNCHANGED <<up, fd, diskVars, faults, stops>>

\* os.WriteFile opens the temporary file and truncates it, ...
BugInPlace(p) == file' = Empty /\ fd' = [fd EXCEPT ![p] = "file"] /\ UNCHANGED tmp
Truncate(p) == tmp' = Empty /\ fd' = [fd EXCEPT ![p] = "tmp"] /\ UNCHANGED file
OpenTmp(p) ==
  /\ step[p] = "open"
  /\ Truncate(p)
  /\ step' = [step EXCEPT ![p] = "write"]
  /\ UNCHANGED <<up, mem, key, told, bounds>>

\* ... and writes the map from its beginning.  What another process has written
\* there shows after the end of a shorter map.
Written(p, before) == IF before = Empty THEN {mem[p]} ELSE {mem[p], Torn}
BugSkipRename(p) ==
  /\ step[p] = "write"
  /\ tmp' \in Written(p, tmp)
  /\ fd' = [fd EXCEPT ![p] = "none"] /\ step' = [step EXCEPT ![p] = "idle"]
  /\ told' = [told EXCEPT ![key[p]] = mem[p][key[p]]]
  /\ UNCHANGED <<up, mem, key, file, bounds>>
Write(p) ==
  /\ step[p] = "write"
  /\ CASE fd[p] = "tmp" -> tmp' \in Written(p, tmp) /\ UNCHANGED file
       [] fd[p] = "file" -> file' \in Written(p, file) /\ UNCHANGED tmp
       [] OTHER -> UNCHANGED diskVars
  /\ fd' = [fd EXCEPT ![p] = "none"] /\ step' = [step EXCEPT ![p] = "rename"]
  /\ UNCHANGED <<up, mem, key, told, bounds>>

\* os.Rename replaces the sidecar file; Set succeeds.
Renamed(q) == CASE fd[q] = "tmp" -> "file" [] fd[q] = "file" -> "unlinked" [] OTHER -> fd[q]
Rename(p) ==
  /\ step[p] = "rename" /\ tmp # NoFile
  /\ file' = tmp /\ tmp' = NoFile
  /\ fd' = [q \in Procs |-> Renamed(q)]
  /\ step' = [step EXCEPT ![p] = "idle"]
  /\ told' = [told EXCEPT ![key[p]] = mem[p][key[p]]]
  /\ UNCHANGED <<up, mem, key, bounds>>

\* A file operation fails, a write perhaps half way, and Set returns the error.
\* The map in memory keeps the change.
Fail(p) ==
  /\ step[p] # "idle"
  /\ IF step[p] = "rename" /\ tmp = NoFile THEN UNCHANGED faults
     ELSE faults < MaxFaults /\ faults' = faults + 1
  /\ CASE fd[p] = "tmp" -> tmp' \in {tmp, Torn} /\ UNCHANGED file
       [] fd[p] = "file" -> file' \in {file, Torn} /\ UNCHANGED tmp
       [] OTHER -> UNCHANGED diskVars
  /\ fd' = [fd EXCEPT ![p] = "none"] /\ step' = [step EXCEPT ![p] = "idle"]
  /\ UNCHANGED <<up, mem, key, told, sets, stops>>

Next ==
  \E p \in Procs :
    \/ Start(p) \/ Stop(p)
    \/ \E k \in Keys, v \in Values \cup {Nothing} : Set(p, k, v)
    \/ OpenTmp(p) \/ Write(p) \/ Rename(p) \/ Fail(p)

Spec == Init /\ [][Next]_vars

-----------------------------------------------------------------------------
(* Properties.                                                              *)

\* A crash or an error in the middle of a Set leaves no file that New rejects
\* or takes for an empty store (flushLocked: "Atomic via write-temp + rename so
\* a crash mid-write doesn't leave a partial file").
FileReadable == file \in Maps \cup {NoFile}

\* "Package names persists user-set slot names across runs" (names/store.go:1):
\* what the last Set of a key was told it saved is what the next run loads,
\* whatever crashed or failed since, Sets of other keys that saved failed
\* changes along with their own included.
AnswersSurvive == \A k \in Keys : told[k] # Unknown => Loaded[k] = told[k]

=============================================================================
