CONSTANTS
  rc = rc
  sn = sn
  cam = cam
  h1 = h1
  h2 = h2
  h3 = h3
  h4 = h4
  r1 = r1
  v1 = v1
  Serials = {rc}
  ADBSerials = {}
  MTPSerials = {rc}
  Hardware <- OneDevice
  Layout <- OneLayout
  Handles = {h1, h2, h3, h4}
  Requests = {r1}
  Ticker = Ticker
  Free = Free
  NoHandle = NoHandle
  MaxAddr = 2
  MaxFaults = 1
  FastReplug = TRUE
  Volumes = {}
  MediaVolumes = {}
  AutoMounted = {}
  MaxInserts = 0
SPECIFICATION Spec
INVARIANT CacheCoherent
