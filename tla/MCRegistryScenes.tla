-------------------------- MODULE MCRegistryScenes --------------------------
(* What the environment does beside plugging and unplugging MTP devices, one *)
(* kind of thing per behaviour.                                              *)
EXTENDS MCRegistry

VARIABLE scene

Scenes == {"requests", "transports", "cards"}
InScene ==
  /\ UNCHANGED scene
  /\ scene # "requests" => \A r \in Requests : req'[r].pc = "idle"
  /\ scene # "transports" => UNCHANGED adb
  /\ scene # "cards" => UNCHANGED vol

SceneInit == Init /\ scene \in Scenes

SceneSpec == SceneInit /\ [][Next /\ InScene]_<<vars, scene>> /\ Fairness

=============================================================================
