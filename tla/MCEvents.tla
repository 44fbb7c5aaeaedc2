------------------------------ MODULE MCEvents ------------------------------
(* Small instances of Events: a controller, a card, an ADB device; a page    *)
(* and its connections.                                                      *)
EXTENDS Events

CONSTANTS m, v, a, api, panel, p, c, d

=============================================================================
