--------------------------- MODULE MCEventsScenes ---------------------------
(* One thing at a time: all kinds of devices and no page; a page, its two    *)
(* connections and a card; a page, one connection and a controller that is   *)
(* classified.                                                               *)
EXTENDS MCEvents

VARIABLE scene

Scenes == {"watches", "page", "kinds"}
\* The user clicks on refresh when nothing is being loaded; only events overlap.
LoneClicks ==
  UNCHANGED <<page, queue>> =>
    \A q \in Pages : Len(asked'[q]) > Len(asked[q]) => asked[q] = <<>>
NoHangUp == link'[d] = "none" /\ link'[c] # "down"
InScene ==
  /\ UNCHANGED scene
  /\ scene = "watches" => UNCHANGED page
  /\ scene # "watches" => UNCHANGED <<adb, done, alive>> /\ changes' <= 2
  /\ scene = "page" => present' \subseteq BlockIds /\ LoneClicks
  /\ scene = "kinds" => present' \subseteq MTPIds /\ LoneClicks /\ NoHangUp

SceneInit == Init /\ scene \in Scenes

SceneSpec == SceneInit /\ [][Next /\ InScene]_<<vars, scene>> /\ Fairness

=============================================================================
