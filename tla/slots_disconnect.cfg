SPECIFICATION Spec
CONSTANTS
  slot = slot
  t = t
  cl = cl
  re = re
  Fly = Fly
  None = None
  Guids = {slot}
  Requests = {t, cl}
  Named = {t}
  Previewed = {t}
  Op <- MCOp
  Slot <- MCSlot
  MaxCuts = 1
  MaxFaults = 0
INVARIANT PreviousSurvives
CHECK_DEADLOCK FALSE
