\* The server goes away without a migration.
CONSTANTS
  Main = main
  Channels = {main, c1}
  Selecting = {main}
  QueueCapacity = 2
  TargetMayFail = FALSE
  ServerMayVanish = TRUE
  BackToBack = FALSE
  MaxGeneration = 3
SPECIFICATION FairSpec
PROPERTIES RemoteTermination
CHECK_DEADLOCK FALSE
