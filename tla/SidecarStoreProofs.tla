------------------------ MODULE SidecarStoreProofs ------------------------
(***************************************************************************)
(* Proofs about SidecarStore: types for any number of processes, and that  *)
(* one process alone loses nothing it was told it had saved.               *)
(***************************************************************************)
EXTENDS SidecarStore, TLAPS

-----------------------------------------------------------------------------
(* Types.                                                                   *)

\* The map that is in memory is one that a file can hold.
LEMMA SetType ==
  ASSUME TypeOK, NEW p \in Procs, NEW k \in Keys, NEW v \in Values \cup {Nothing}, Set(p, k, v)
  PROVE  TypeOK'
  <1>1. mem' \in [Procs -> Maps]
    BY DEF TypeOK, Set, Maps
  <1>2. told' \in [Keys -> Values \cup {Nothing, Unknown}] /\ sets' \in 0..MaxSets
    BY StoreAssumption DEF TypeOK, Set
  <1> QED
    BY <1>1, <1>2 DEF TypeOK, Set, diskVars

LEMMA StartType ==
  ASSUME TypeOK, NEW p \in Procs, Start(p) PROVE TypeOK'
  <1>1. Loaded \in Maps
    BY DEF Loaded, Default, Maps
  <1> QED
    BY <1>1 DEF TypeOK, Start, diskVars, bounds

LEMMA StopType ==
  ASSUME TypeOK, NEW p \in Procs, Stop(p) PROVE TypeOK'
  BY StoreAssumption DEF TypeOK, Stop, diskVars

LEMMA OpenType ==
  ASSUME TypeOK, NEW p \in Procs, OpenTmp(p) PROVE TypeOK'
  BY StoreAssumption DEF TypeOK, OpenTmp, Truncate, Contents, bounds

LEMMA WriteType ==
  ASSUME TypeOK, NEW p \in Procs, Write(p) PROVE TypeOK'
  <1>1. mem[p] \in Maps
    BY DEF TypeOK
  <1>2. \A before : Written(p, before) \subseteq Contents
    BY <1>1 DEF Written, Contents
  <1>3. /\ file' \in Contents \cup {NoFile} /\ tmp' \in Contents \cup {NoFile}
        /\ file # NoFile => file' # NoFile
        /\ tmp # NoFile => tmp' # NoFile
    BY <1>2, StoreAssumption DEF TypeOK, Write, Contents, diskVars
  <1> QED
    BY <1>3 DEF TypeOK, Write, bounds

LEMMA RenameType ==
  ASSUME TypeOK, NEW p \in Procs, Rename(p) PROVE TypeOK'
  <1>1. mem[p][key[p]] \in Values \cup {Nothing}
    BY DEF TypeOK, Maps
  <1>2. told' \in [Keys -> Values \cup {Nothing, Unknown}]
    BY <1>1 DEF TypeOK, Rename
  <1>3. \A q \in Procs : fd'[q] = Renamed(q)
    BY DEF Rename
  <1>4. \A q \in Procs : /\ Renamed(q) \in {"none", "file", "unlinked"}
                         /\ Renamed(q) # "none" <=> fd[q] # "none"
    BY DEF TypeOK, Renamed
  <1>5. fd' \in [Procs -> {"none", "tmp", "file", "unlinked"}]
    BY <1>4 DEF Rename
  <1> QED
    BY <1>2, <1>3, <1>4, <1>5 DEF TypeOK, Rename, bounds

LEMMA FailType ==
  ASSUME TypeOK, NEW p \in Procs, Fail(p) PROVE TypeOK'
  <1>1. faults' \in 0..MaxFaults
    BY StoreAssumption DEF TypeOK, Fail
  <1>2. /\ file' \in Contents \cup {NoFile} /\ tmp' \in Contents \cup {NoFile}
        /\ file # NoFile => file' # NoFile
        /\ tmp # NoFile => tmp' # NoFile
    BY StoreAssumption DEF TypeOK, Fail, Contents, diskVars
  <1> QED
    BY <1>1, <1>2 DEF TypeOK, Fail

LEMMA StoreTypeStep == TypeOK /\ [Next]_vars => TypeOK'
  <1> SUFFICES ASSUME TypeOK, [Next]_vars PROVE TypeOK'
    OBVIOUS
  <1>1. CASE UNCHANGED vars
    BY <1>1 DEF TypeOK, vars, procVars, diskVars, bounds
  <1> QED
    BY <1>1, SetType, StartType, StopType, OpenType, WriteType, RenameType, FailType DEF Next

LEMMA StoreTypeInit == Init => TypeOK
  BY StoreAssumption DEF Init, TypeOK, Maps, Default

\* However many processes share the files: the variables keep their types, a
\* process holds a file open only between its open and its write, and no write
\* goes through a name that is not there.
THEOREM StoreTypes == Spec => []TypeOK
  BY StoreTypeInit, StoreTypeStep, PTL DEF Spec

-----------------------------------------------------------------------------
(* One process.                                                             *)

\* What its Set has done so far: nobody else touches the temporary file.
Progress(p) ==
  /\ fd[p] \in {"none", "tmp"}
  /\ step[p] = "write" => tmp = Empty
  /\ step[p] = "rename" => tmp = mem[p]
  /\ step[p] # "idle" => told[key[p]] = Unknown

\* The map in memory is never behind the file.
Serves(p) == p \in up => \A k \in Keys : told[k] # Unknown => mem[p][k] = told[k]

Kept(p) == TypeOK /\ FileReadable /\ AnswersSurvive /\ Progress(p) /\ Serves(p)

LEMMA KeptStep ==
  ASSUME NEW p \in Procs, Procs = {p}, Kept(p), [Next]_vars
  PROVE  Kept(p)'
  <1>t. TypeOK'
    BY StoreTypeStep DEF Kept
  <1> SUFFICES (FileReadable /\ AnswersSurvive /\ Progress(p) /\ Serves(p))'
    BY <1>t DEF Kept
  <1> USE DEF Kept
  <1>1. CASE UNCHANGED vars
    BY <1>1 DEF vars, procVars, diskVars, FileReadable, AnswersSurvive, Progress, Serves, Loaded
  <1>2. CASE Start(p)
    <2>1. mem'[p] = Loaded /\ step[p] = "idle"
      BY <1>2 DEF Start, TypeOK
    <2> QED
      BY <1>2, <2>1 DEF Start, diskVars, FileReadable, AnswersSurvive, Progress, Serves, Loaded
  <1>3. CASE Stop(p)
    <2>1. step'[p] = "idle" /\ fd'[p] = "none" /\ p \notin up'
      BY <1>3 DEF Stop, TypeOK
    <2> QED
      BY <1>3, <2>1 DEF Stop, diskVars, FileReadable, AnswersSurvive, Progress, Serves, Loaded
  <1>4. ASSUME NEW k \in Keys, NEW v \in Values \cup {Nothing}, Set(p, k, v)
        PROVE  (FileReadable /\ AnswersSurvive /\ Progress(p) /\ Serves(p))'
    <2>1. /\ step'[p] = "open" /\ key'[p] = k /\ told'[k] = Unknown
          /\ \A j \in Keys \ {k} : told'[j] = told[j] /\ mem'[p][j] = mem[p][j]
      BY <1>4 DEF Set, TypeOK, Maps
    <2>2. UNCHANGED <<file, tmp, fd, up>>
      BY <1>4 DEF Set, diskVars
    <2>3. FileReadable' /\ AnswersSurvive'
      BY <2>1, <2>2 DEF FileReadable, AnswersSurvive, Loaded
    <2> QED
      BY <2>1, <2>2, <2>3 DEF Progress, Serves
  <1>5. CASE OpenTmp(p)
    <2>1. step'[p] = "write" /\ fd'[p] = "tmp" /\ tmp' = Empty /\ step[p] = "open"
      BY <1>5 DEF OpenTmp, Truncate, TypeOK
    <2> QED
      BY <1>5, <2>1
      DEF OpenTmp, Truncate, FileReadable, AnswersSurvive, Progress, Serves, Loaded
  <1>6. CASE Write(p)
    <2>1. tmp' = mem[p] /\ UNCHANGED file
      BY <1>6 DEF Write, Written, Progress, TypeOK
    <2>2. step'[p] = "rename" /\ fd'[p] = "none" /\ step[p] = "write"
      BY <1>6 DEF Write, TypeOK
    <2> QED
      BY <1>6, <2>1, <2>2
      DEF Write, FileReadable, AnswersSurvive, Progress, Serves, Loaded
  <1>7. CASE Rename(p)
    <2>1. file' = mem[p] /\ mem[p] \in Maps /\ fd[p] = "none" /\ p \in up
      BY <1>7 DEF Rename, Progress, TypeOK
    <2>2. /\ told'[key[p]] = mem[p][key[p]]
          /\ \A k \in Keys \ {key[p]} : told'[k] = told[k]
      BY <1>7 DEF Rename, TypeOK
    <2>3. \A k \in Keys : told'[k] # Unknown => mem[p][k] = told'[k]
      BY <2>1, <2>2 DEF Serves
    <2>4. step'[p] = "idle" /\ fd'[p] = "none"
      BY <1>7, <2>1 DEF Rename, Renamed, TypeOK
    <2>5. FileReadable' /\ AnswersSurvive'
      BY <2>1, <2>3 DEF FileReadable, AnswersSurvive, Loaded
    <2> QED
      BY <1>7, <2>3, <2>4, <2>5 DEF Rename, Progress, Serves
  <1>8. CASE Fail(p)
    <2>1. step'[p] = "idle" /\ fd'[p] = "none" /\ UNCHANGED <<file, told, mem, up>>
      BY <1>8 DEF Fail, Progress, TypeOK, diskVars
    <2> QED
      BY <2>1 DEF FileReadable, AnswersSurvive, Progress, Serves, Loaded
  <1> QED
    BY <1>1, <1>2, <1>3, <1>4, <1>5, <1>6, <1>7, <1>8 DEF Next

LEMMA KeptInvariant ==
  ASSUME NEW p \in Procs, Procs = {p}
  PROVE  Spec => []Kept(p)
  <1>1. Init => Kept(p)
    BY StoreTypeInit
    DEF Init, Kept, FileReadable, AnswersSurvive, Progress, Serves
  <1>2. Kept(p) /\ [Next]_vars => Kept(p)'
    BY KeptStep
  <1> QED
    BY <1>1, <1>2, PTL DEF Spec

\* If one process alone uses the sidecar files, no crash and no failing file
\* operation, at any step of any number of Sets, leaves a file that New rejects.
THEOREM SidecarReadable ==
  ASSUME NEW p \in Procs, Procs = {p}
  PROVE  Spec => []FileReadable
  <1>1. Kept(p) => FileReadable
    BY DEF Kept
  <1> QED
    BY <1>1, KeptInvariant, PTL

\* Nor does one lose what the last Set of a key was told it had saved.
THEOREM SidecarDurable ==
  ASSUME NEW p \in Procs, Procs = {p}
  PROVE  Spec => []AnswersSurvive
  <1>1. Kept(p) => AnswersSurvive
    BY DEF Kept
  <1> QED
    BY <1>1, KeptInvariant, PTL

===========================================================================
