------------------------------- MODULE MCHost -------------------------------
(* A small host: a daemon with one store of two slots; a panel of three      *)
(* keys; two viewers of one video; two browsers of four files; two slots;    *)
(* two requests about the photos of a slot; five places of a map; seven      *)
(* documents of an archive.                                                  *)
EXTENDS Host

CONSTANTS daemon, slot1, slot2, north, south, v1, v2, w1, w2

\* Nothing on the bus, or an offline and an unauthorized device that come before
\* the controller in the list; a battery that is low.
Controller(state, authorized) == [state |-> state, authorized |-> authorized, label |-> "rc"]
MCWorlds ==
  {[busy |-> FALSE, infos |-> infos, net |-> "wifi"] :
     infos \in {<<>>, <<Controller("offline", TRUE), Controller("online", FALSE)>>}}
MCCharges == {[present |-> TRUE, percent |-> 8, external |-> FALSE]}

\* Object and walk order disagree, and the video and the photo change their object
\* IDs when the camera comes back; a video, its proxy, a clip of that name in another
\* folder, and a photo that is taken while the camera is connected or away.
AFile(ids, place, dir, name, type, time) ==
  [object |-> [n \in 0..1 |-> ids[n + 1]], walk |-> place, folder |-> dir, stem |-> name,
   kind |-> type, taken |-> time]
MCFiles ==
  {AFile(<<7, 8>>, 1, "A", 1, "video", 2), AFile(<<5, 5>>, 2, "A", 1, "lrf", 2),
   AFile(<<4, 4>>, 3, "B", 1, "lrf", 2), AFile(<<8, 7>>, 4, "B", 2, "photo", 3)}
MCRecorded == {f \in MCFiles : f.kind = "photo"}

MCMissions == <<1, 2>>

\* The preview folder between two slots, and orders that name a slot twice or one
\* that is gone.
MCEntries == <<"g1", "map_preview", "g2">>
MCOrders == {<<>>, <<"g2", "g1", "g2">>, <<"gone", "g2">>}

\* An empty entry, XML that breaks off, coordinates of no Placemark, actions before
\* the first waypoint, of two waypoints and of one whose coordinates are bad.
At(good, placemark) == [tag |-> "coordinates", good |-> good, placemark |-> placemark]
Does(placemark) == [tag |-> "actionActuatorFunc", good |-> TRUE, placemark |-> placemark]
Doc(tokens, broken) == [tokens |-> tokens, broken |-> broken]
MCDocuments ==
  {Doc(<<>>, FALSE), Doc(<<>>, TRUE), Doc(<<At(TRUE, 1)>>, TRUE),
   Doc(<<At(TRUE, 0), Does(1)>>, FALSE),
   Doc(<<Does(1), At(TRUE, 1), Does(1), Does(0), At(TRUE, 2), Does(2)>>, FALSE),
   Doc(<<At(TRUE, 0), At(TRUE, 1), Does(1), Does(0), At(TRUE, 2), Does(2), Does(2)>>, FALSE),
   Doc(<<At(TRUE, 1), Does(1), At(FALSE, 2), Does(2)>>, FALSE)}

=============================================================================
