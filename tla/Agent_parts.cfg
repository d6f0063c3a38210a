SPECIFICATION Spec
CONSTANTS
  Conversations = {"sync", "transfers", "credits", "bytes"}
  Selections = {"clipboard"}
  Clipboard = "clipboard"
  FeatureSets = {{"demand", "serial", "max_clipboard"}, {"monitors"}, {"monitors", "sparse"}}
  SyncCapacity = 1
  MaxLayouts = 1
  MaxOffers = 1
  MaxReads = 1
  MaxAnnouncements = 2
  MaxGenerations = 2
  Ids = {a}
  FileSizes = {0, 2}
  MaxTransfers = 1
  MaxOthers = 1
  CommandCapacity = 2
  MaxActive = 1
  AgentCapacity = 1
  MaxCommands = 3
  MaxStreams = 2
  Window = 2
  QueueCapacity = 2
  MaxRequests = 2
  MaxFragments = 3
  MaxTags = 2
  PayloadSizes = {0, 2, 5}
  HeaderBytes = 2
  FragmentBytes = 3
  MaxAgentBytes = 4
  MaxInStream = 2
  MaxConnects = 2
CHECK_DEADLOCK FALSE
INVARIANTS StreamsSound TransfersAccounted WindowConserved
PROPERTIES LayoutReplayed TransfersEnd CreditsFlow
