SPECIFICATION Spec
CONSTANTS
  daemon = daemon
  cli = cli
  slot1 = slot1
  slot2 = slot2
  north = north
  south = south
  Nothing = Nothing
  NoFile = NoFile
  Empty = Empty
  Torn = Torn
  Unknown = Unknown
  Procs = {daemon, cli}
  Keys = {slot1, slot2}
  Values = {north}
  MaxSets = 2
  MaxFaults = 0
  MaxStops = 2
INVARIANT AnswersSurvive
CHECK_DEADLOCK FALSE
