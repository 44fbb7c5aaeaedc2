SPECIFICATION HostSpec
CONSTANTS
  daemon = daemon
  slot1 = slot1
  slot2 = slot2
  north = north
  south = south
  v1 = v1
  v2 = v2
  w1 = w1
  w2 = w2
  Nothing = Nothing
  NoFile = NoFile
  Empty = Empty
  Torn = Torn
  Unknown = Unknown
  Procs = {daemon}
  Keys = {slot1, slot2}
  Values = {north, south}
  MaxSets = 3
  MaxFaults = 1
  MaxStops = 2
  PanelKeys = {"A", "B", "Y"}
  Worlds <- MCWorlds
  Charges <- MCCharges
  Rotate180 = TRUE
  AllowShutdown = TRUE
  IdleOffs = {0, 1}
  ButtonBuffer = 1
  WatchBuffer = 1
  MaxInputs = 2
  Viewers = {v1, v2}
  Objects = {o1}
  MaxPlugs = 2
  MaxCrashes = 1
  Watchers = {w1, w2}
  MediaFiles <- MCFiles
  Recorded <- MCRecorded
  MaxUnread = 1
  MaxReturns = 1
  NoMedia = NoMedia
  Entries <- MCEntries
  Guids = {"g1", "g2"}
  SlotNames = {"", "n"}
  Orders <- MCOrders
  MaxChanges = 2
  Jobs = {1, 2}
  Missions <- MCMissions
  MaxSlips = 1
  Places = {0, 3, 9, 10, 31}
  MaxWaypoints = 2
  MinZoom = 1
  MaxZoom = 3
  Tile = 4
  Width = 5
  Height = 3
  Margin = 1
  PointSpan = 80
  Documents <- MCDocuments
  Absent = Absent
INVARIANTS
  HostTypeOK
  FileReadable
  AnswersSurvive
  IdsKeepMeaning
  PosterOnce
  ServedWhole
  ListingTrue
  FolderOfMission
  PictureWhole
  MissionRead
PROPERTIES
  NotBlind
  ChangesLight
  PanelSettles
  CloseEnds
  PurgedStaysPurged
  ThumbnailFresh
CHECK_DEADLOCK FALSE
