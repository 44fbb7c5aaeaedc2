--------------------------- MODULE MCSidecarStore ---------------------------
(* Small instances of SidecarStore: the daemon, with and without a command   *)
(* of the command line beside it.                                            *)
EXTENDS SidecarStore

CONSTANTS daemon, cli, slot1, slot2, north, south

=============================================================================
