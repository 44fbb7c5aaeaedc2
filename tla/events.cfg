SPECIFICATION SceneSpec
CONSTANTS
  m = m
  v = v
  a = a
  api = api
  panel = panel
  p = p
  c = c
  d = d
  NoEvent = NoEvent
  NoClient = NoClient
  NoAnswer = NoAnswer
  Awaited = Awaited
  MTPIds = {m}
  BlockIds = {v}
  Serials = {a}
  Watchers = {api}
  API = api
  Clients = {c, d}
  Pages = {p}
  OutCap = 1
  BusCap = 1
  SubCap = 1
  MaxChanges = 3
  MaxFetches = 2
  ADBRestarts = TRUE
  MayStop = TRUE
INVARIANTS TypeOK NoSendAfterClose
PROPERTIES InTurns ViewsFollow WatchesEnd ClientsFollow ClientsSeeKinds
CHECK_DEADLOCK FALSE
