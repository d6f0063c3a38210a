SPECIFICATION Spec
CONSTANTS
  Questions = {"barriers", "shared", "migrated"}
  Channels = {main, display}
  Main = main
  SelfWaits = TRUE
  MaxSent = 2
  MaxTotal = 3
  MaxWaits = 1
  MaxActivations = 1
  MaxBootstrap = 1
  Displays = {d1, d2}
  FirstDisplay = d1
  Slots = 1
  Budget = 3
  ServerWindow = 3
  MaxImages = 4
  SharedImages = 3
  SourceImages = 2
  MaxInstances = 1
CHECK_DEADLOCK FALSE
INVARIANTS CompletionMonotonic ReferencesRetained DictionaryAccounted
PROPERTIES BarrierHonoured EnvelopesEnd DecodesFinish
