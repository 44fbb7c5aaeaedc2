SPECIFICATION FairSpec
CONSTANTS
  m = m
  v = v
  a = a
  api = api
  panel = panel
  p = p
  c = c
  d = d
  NoEvent = NoEvent
  NoClient = NoClient
  NoAnswer = NoAnswer
  Awaited = Awaited
  MTPIds = {}
  BlockIds = {}
  Serials = {a}
  Watchers = {api}
  API = api
  Clients = {}
  Pages = {}
  OutCap = 1
  BusCap = 1
  SubCap = 1
  MaxChanges = 2
  MaxFetches = 1
  ADBRestarts = TRUE
  MayStop = FALSE
PROPERTY PumpRecovers
CHECK_DEADLOCK FALSE
