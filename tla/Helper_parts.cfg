CONSTANTS
  Parts = {"frames", "life", "ipc"}
  Capacity = 2
  Channels = {0, 1}
  MaxDraws = 3
  MaxResets = 1
  MaxCreations = 2
  RequestCapacity = 1
  TaskIds = {t1}
  MaxTasks = 1
  MaxRequests = 3
  MaxEvents = 1
  Messages <- Kinds
  Hellos <- Hosts
  Build <- Capabilities
  Version = 1
  MaxRequired = 2
  MaxLine = 4
  MaxPayload = 2
  MaxChunk = 2
  MaxPort = 1
  BufferSize = 2
  MaxWritten = 3
SPECIFICATION Spec
CHECK_DEADLOCK FALSE
INVARIANTS FramesInOrder HostTold PipeFaithful
PROPERTIES ImplementsScreen EndsAfterInput
