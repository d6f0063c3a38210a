SPECIFICATION Spec
CONSTANTS
  Parts = {"session", "link", "framing", "lists", "windows"}
  Advertisements <- Advertised
  Limit <- OneOfEach
  MaxBootstrap = 2
  Mechanisms <- Known
  Contexts <- Kerberos
  Shapes <- Sizes
  HeaderLen = 2
  MaxMessages = 3
  MaxToken = 3
  MaxQueued = 2
  MaxReplacements = 1
  MaxInterrupts = 1
  Windows = {0, 1, 2}
  MainKinds = {"end", "switch", "decision"}
  MaxEnvelopes = 4
  MaxActivations = 2
  MaxNumber = 4
  MaxBody = 5
  MaxSubMessages = 2
CHECK_DEADLOCK FALSE
INVARIANTS SessionAccounted LinkSound MessagesIntact AckPerWindow AtMostOneEarly
PROPERTIES ConnectionEnds
