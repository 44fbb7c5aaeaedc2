---------------------------- MODULE SlotPromise ----------------------------
(***************************************************************************)
(* What the slot operations promise a client of the API, whatever fails:   *)
(* a slot holds missions that can be read back; a request may take some    *)
(* away before it has stored its own, and is answered with success only    *)
(* after it has.  Module SlotTransfer implements it.                       *)
(***************************************************************************)
CONSTANTS
  Guids,      \* the slots
  Requests,   \* API requests, each of them made once
  Slot,       \* Slot[r]: the slot that r is about
  Writers,    \* the requests that replace the slot's mission
  Fly         \* the mission DJI Fly created the slot with

VARIABLES
  missions,   \* missions[g]: the missions slot g can be read back as
  stored,     \* the requests whose mission reached its slot
  answer      \* answer[r]: "none" so far, "ok", "failed" or "lost"

vars == <<missions, stored, answer>>

Init ==
  /\ missions = [g \in Guids |-> {Fly}]
  /\ stored = {}
  /\ answer = [r \in Requests |-> "none"]

\* A writer that has not stored its mission yet and was not answered.
Writing(r) == r \in Writers /\ answer[r] = "none" /\ r \notin stored

TakeAway(r, m) ==
  /\ Writing(r)
  /\ missions' = [missions EXCEPT ![Slot[r]] = @ \ {m}]
  /\ UNCHANGED <<stored, answer>>

Store(r) ==
  /\ Writing(r)
  /\ missions' = [missions EXCEPT ![Slot[r]] = @ \cup {r}]
  /\ stored' = stored \cup {r}
  /\ UNCHANGED answer

Succeed(r) ==
  /\ answer[r] = "none"
  /\ r \in Writers => r \in stored
  /\ answer' = [answer EXCEPT ![r] = "ok"]
  /\ UNCHANGED <<missions, stored>>

\* An error answer.  The mission may be gone, but is never half replaced.
GiveUp(r) ==
  /\ answer[r] = "none"
  /\ r \notin stored
  /\ answer' = [answer EXCEPT ![r] = "failed"]
  /\ UNCHANGED <<missions, stored>>

\* The daemon dies: every request that was not answered never will be.
Die ==
  /\ \E lost \in SUBSET {r \in Requests : answer[r] = "none"} :
       answer' = [r \in Requests |-> IF r \in lost THEN "lost" ELSE answer[r]]
  /\ UNCHANGED <<missions, stored>>

Next ==
  \/ \E r \in Requests :
       \/ \E m \in missions[Slot[r]] : TakeAway(r, m)
       \/ Store(r) \/ Succeed(r) \/ GiveUp(r)
  \/ Die

Spec == Init /\ [][Next]_vars

=============================================================================
