SPECIFICATION FairSpec
CONSTANTS
  m = m
  v = v
  a = a
  api = api
  panel = panel
  p = p
  c = c
  d = d
  NoEvent = NoEvent
  NoClient = NoClient
  NoAnswer = NoAnswer
  Awaited = Awaited
  MTPIds = {m}
  BlockIds = {}
  Serials = {}
  Watchers = {api, panel}
  API = api
  Clients = {c}
  Pages = {p}
  OutCap = 1
  BusCap = 1
  SubCap = 1
  MaxChanges = 1
  MaxFetches = 1
  ADBRestarts = FALSE
  MayStop = FALSE
PROPERTY ClientsSeeKinds
CHECK_DEADLOCK FALSE
