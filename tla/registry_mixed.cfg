CONSTANTS
  rc = rc
  sn = sn
  cam = cam
  h1 = h1
  h2 = h2
  h3 = h3
  h4 = h4
  r1 = r1
  v1 = v1
  Serials = {rc, sn}
  ADBSerials = {rc, sn}
  MTPSerials = {rc}
  Hardware <- TwoSerials
  Layout <- TwoLayouts
  Handles = {h1, h2, h3}
  Requests = {r1}
  Ticker = Ticker
  Free = Free
  NoHandle = NoHandle
  MaxAddr = 1
  MaxFaults = 1
  FastReplug = FALSE
  Volumes = {v1}
  MediaVolumes = {v1}
  AutoMounted = {}
  MaxInserts = 2
SPECIFICATION SceneSpec
INVARIANTS DevicesMatchHandles ShadowsHidden MountsOwned
PROPERTIES VolumesSettle Settles RequestsAnswered
