SPECIFICATION FairSpec
CONSTANTS
  slot = slot
  t = t
  cl = cl
  re = re
  Fly = Fly
  None = None
  Guids = {slot}
  Requests = {t, cl, re}
  Named = {t}
  Previewed = {t}
  Op <- MCOp
  Slot <- MCSlot
  MaxCuts = 1
  MaxFaults = 1
INVARIANTS
  TypeOK
  NoSilentLoss
PROPERTIES
  AnswersTrue
  RequestsAnswered
  KeepsPromise
CHECK_DEADLOCK FALSE
