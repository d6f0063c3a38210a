\* Main also selects between reading and other work.
CONSTANTS
  Main = main
  Channels = {main, c1}
  Selecting = {main}
  QueueCapacity = 2
  TargetMayFail = FALSE
  ServerMayVanish = FALSE
  BackToBack = FALSE
  MaxGeneration = 5
SPECIFICATION Spec
INVARIANTS MigrationNotRefused
CHECK_DEADLOCK FALSE
