------------------------------ MODULE KmzMission ------------------------------
(***************************************************************************)
(* How the mission is read out of a KMZ file (internal/kmz): the entries   *)
(* of the archive are tried in a fixed order, and the tokens of one are    *)
(* taken one by one from an XML decoder.                                   *)
(*                                                                         *)
(* Of an entry only what becomes a waypoint or an action of one is kept:   *)
(* its coordinates and actionActuatorFunc elements, each with the          *)
(* Placemark it is in, and whether the XML breaks off.  What a transfer    *)
(* stores is the uploaded archive, with every entry as it was: its         *)
(* RewriteForGUID replaces an entry that is nothing but a GUID, which no   *)
(* XML document is, as its pattern is anchored at both ends.               *)
(***************************************************************************)
EXTENDS Naturals, Sequences, FiniteSets, SequencesExt

CONSTANTS
  Documents,    \* what an entry may hold: see Document
  Absent        \* no such entry

\* coordinates that parse or do not; an action with or without a name; the number
\* of the outermost Placemark it is in, 0 outside of any.  An element is of one
\* piece: what is between two tokens of a Placemark is of that Placemark.
Tokens == [tag : {"coordinates", "actionActuatorFunc"}, good : BOOLEAN, placemark : Nat]
OnePiece(tokens) ==
  \A i, k \in DOMAIN tokens : tokens[i].placemark = tokens[k].placemark /\ tokens[i].placemark # 0 =>
    \A j \in i..k : tokens[j].placemark = tokens[i].placemark
Document(d) ==
  d.broken \in BOOLEAN /\ d.tokens \in Seq(Tokens) /\ OnePiece(d.tokens)

ASSUME KmzAssumption == Absent \notin Documents /\ \A d \in Documents : Document(d)

VARIABLES
  archive,     \* the entries of the KMZ file
  trying,      \* the place in Candidates
  position,    \* the tokens of the entry that have been read
  waypoints,   \* those of the entry so far: [at, actions]
  outcome      \* "", or "mission", "none", "error"

kmzVars == <<archive, trying, position, waypoints, outcome>>

\* The order of preference; then any other entry of the kind.
Candidates == <<"template.kml", "waylines.wpml", "other.kml">>
Archives == [{Candidates[i] : i \in DOMAIN Candidates} -> Documents \cup {Absent}]

\* The placeholder of a cleared slot, and of DJI Fly: a template without a
\* waypoint, and one in the waylines.
OneWaypoint == [tag |-> "coordinates", good |-> TRUE, placemark |-> 1]
PlaceholderKMZ ==
  [c \in {Candidates[i] : i \in DOMAIN Candidates} |->
     CASE c = "template.kml" -> [tokens |-> <<>>, broken |-> FALSE]
       [] c = "waylines.wpml" -> [tokens |-> <<OneWaypoint>>, broken |-> FALSE]
       [] OTHER -> Absent]

KmzInit ==
  /\ archive \in Archives \cup {PlaceholderKMZ}
  /\ trying = 1 /\ position = 0 /\ waypoints = <<>> /\ outcome = ""

-----------------------------------------------------------------------------
Parsing == outcome = "" /\ trying <= Len(Candidates)
Entry == archive[Candidates[trying]]
Reading == Parsing /\ Entry # Absent
NextToken == Entry.tokens[position + 1]
HasToken == Reading /\ position < Len(Entry.tokens)

TryNext == trying' = trying + 1 /\ position' = 0 /\ waypoints' = <<>>
EndsWith(what) == outcome' = what /\ UNCHANGED <<trying, position, waypoints>>

SkipAbsent ==
  /\ Parsing /\ Entry = Absent
  /\ TryNext /\ UNCHANGED <<archive, outcome>>

\* Coordinates outside a Placemark are not a waypoint; bad ones are passed over.
BugAnywhere(t) == t.good
IsWaypoint(t) == t.placemark # 0 /\ t.good
ReadCoordinates ==
  /\ HasToken /\ NextToken.tag = "coordinates"
  /\ position' = position + 1
  /\ waypoints' = IF IsWaypoint(NextToken)
                  THEN Append(waypoints, [at |-> position + 1, actions |-> <<>>]) ELSE waypoints
  /\ UNCHANGED <<archive, trying, outcome>>

\* An action goes to the waypoint that was read last.
ReadAction ==
  /\ HasToken /\ NextToken.tag = "actionActuatorFunc"
  /\ position' = position + 1
  /\ waypoints' = IF IsWaypoint(NextToken) /\ waypoints # <<>>
                  THEN [waypoints EXCEPT ![Len(waypoints)].actions = Append(@, position + 1)]
                  ELSE waypoints
  /\ UNCHANGED <<archive, trying, outcome>>

\* XML that breaks off is an error, whatever else the archive has.
ReadError ==
  /\ Reading /\ position = Len(Entry.tokens) /\ Entry.broken
  /\ EndsWith("error") /\ UNCHANGED archive

\* An entry without waypoints is passed over: DJI Fly's editor empties the template.
BugStopsEmpty ==
  /\ Reading /\ position = Len(Entry.tokens) /\ ~Entry.broken
  /\ EndsWith(IF waypoints = <<>> THEN "none" ELSE "mission")
  /\ UNCHANGED archive
ReadEOF ==
  /\ Reading /\ position = Len(Entry.tokens) /\ ~Entry.broken
  /\ IF waypoints = <<>> THEN TryNext /\ UNCHANGED outcome ELSE EndsWith("mission")
  /\ UNCHANGED archive

NoEntryLeft ==
  /\ outcome = "" /\ trying > Len(Candidates)
  /\ EndsWith("none") /\ UNCHANGED archive

KmzNext == SkipAbsent \/ ReadCoordinates \/ ReadAction \/ ReadError \/ ReadEOF \/ NoEntryLeft

KmzSpec == KmzInit /\ [][KmzNext]_kmzVars

KmzTypeOK ==
  /\ archive \in Archives \cup {PlaceholderKMZ}
  /\ trying \in 1..Len(Candidates) + 1 /\ position \in Nat
  /\ \A i \in DOMAIN waypoints : waypoints[i].at \in 1..position
  /\ outcome \in {"", "mission", "none", "error"}

-----------------------------------------------------------------------------
(* Properties.                                                              *)

\* Every Placemark starts with coordinates that parse, as DJI Fly writes them.
DJIForm(tokens) ==
  \A i \in DOMAIN tokens :
    tokens[i].placemark # 0 =>
      \E j \in 1..i : /\ tokens[j] = [tag |-> "coordinates", good |-> TRUE,
                                      placemark |-> tokens[i].placemark]
                      /\ \A k \in 1..j - 1 : tokens[k].placemark # tokens[i].placemark

Indices(tokens, P(_)) == {i \in DOMAIN tokens : P(tokens[i])}

\* What comes out is the first entry, in the order of preference, that has a
\* waypoint or that breaks off before the others are looked at: its waypoints in
\* their order and, in a document as DJI Fly writes them, each with the actions
\* of its own Placemark and no other (extract.go:59-115, 178-189).
Located(t) == t.tag = "coordinates" /\ t.good /\ t.placemark > 0
Acting(t) == t.tag = "actionActuatorFunc" /\ t.good /\ t.placemark > 0
Decides(d) == d # Absent /\ (d.broken \/ Indices(d.tokens, Located) # {})
MissionRead ==
  outcome # "" =>
    LET deciding == {c \in DOMAIN Candidates : Decides(archive[Candidates[c]])} IN
    IF deciding = {} THEN outcome = "none"
    ELSE LET c == CHOOSE m \in deciding : \A n \in deciding : m <= n
             tokens == archive[Candidates[c]].tokens
         IN  /\ trying = c
             /\ outcome = IF archive[Candidates[c]].broken THEN "error" ELSE "mission"
             /\ outcome = "mission" =>
                  /\ {waypoints[i].at : i \in DOMAIN waypoints}
                       = Indices(tokens, Located)
                  /\ \A i, j \in DOMAIN waypoints : i < j => waypoints[i].at < waypoints[j].at
                  /\ DJIForm(tokens) =>
                       /\ \A i \in DOMAIN waypoints : \A a \in ToSet(waypoints[i].actions) :
                            tokens[a].placemark = tokens[waypoints[i].at].placemark
                       /\ Indices(tokens, Acting)
                            = UNION {ToSet(waypoints[i].actions) : i \in DOMAIN waypoints}

=============================================================================
