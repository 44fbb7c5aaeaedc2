----------------------------- MODULE MCRegistry -----------------------------
(* Instances of Registry for TLC.                                          *)
EXTENDS Registry

CONSTANTS rc, sn, cam, h1, h2, h3, h4, r1, v1

\* A DJI controller: a secondary storage with DCIM and Android/ folders but no
\* DJI tree before the one with the waypoint tree.
RCLayout == <<{"android", "dcim"}, {"android", "waypoint"}>>
\* An Android phone used as a camera: Android/ without the DJI tree.
CamLayout == <<{"android", "dcim"}>>

OneLayout == [s \in {rc} |-> RCLayout]
OneDevice == [s \in {rc} |-> rc]

\* adb knows the controller as sn, or as rc, the serial it has on MTP.
TwoSerials == [s \in {rc, sn} |-> rc]
TwoLayouts == [s \in {rc, sn} |-> RCLayout]

\* An authorized phone on MTP and a controller on adb.
PhoneLayout == [s \in {rc, cam} |-> IF s = cam THEN CamLayout ELSE <<>>]
TwoDevices == [s \in {rc, cam} |-> s]

=============================================================================
