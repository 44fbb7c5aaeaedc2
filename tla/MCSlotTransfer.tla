--------------------------- MODULE MCSlotTransfer ---------------------------
(* A small instance of SlotTransfer: a transfer, a clear and a regeneration  *)
(* of the preview, all on one slot.                                          *)
EXTENDS SlotTransfer

CONSTANTS slot, t, cl, re

MCSlot == [r \in Requests |-> slot]
MCOp == [r \in Requests |->
  IF r = t THEN "transfer" ELSE IF r = cl THEN "clear" ELSE "regenerate"]

=============================================================================
