SPECIFICATION Spec
CONSTANTS
  Owners = {"inputs", "cursor", "playback", "record"}
  EdgeCapacity = 1
  AckBunch = 1
  MaxMoves = 3
  MaxEdges = 2
  MaxModes = 1
  MaxSwitches = 1
  CursorIds = {0, 1}
  Pictures = {1, 2}
  CacheEntries = 1
  CursorBudget = 2
  MaxCursorEpochs = 2
  PlaybackIds = {0}
  PacketCapacity = 2
  MaxPackets = 3
  MaxPlaybackStreams = 2
  MaxPlaybackMoves = 1
  RecordCapacity = 2
  FrameParts = 2
  RecordCallers = {r1, r2}
  MaxRecordStreams = 3
  MaxRecordMoves = 1
CHECK_DEADLOCK FALSE
INVARIANTS InputsAccepted ShapesAgree SoundInOrder
PROPERTIES ClickAfterMove PendingIsServed
