SPECIFICATION MCSpec
CONSTANTS
  Environments = {"faulty", "patient", "calm"}
  Main = main
  Channels = {main, c1}
  Selecting = {main, c1}
  QueueCapacity = 1
  TargetMayFail = TRUE
  ServerMayVanish = TRUE
  BackToBack = TRUE
  MaxGeneration = 6
CHECK_DEADLOCK FALSE
INVARIANTS ReplacementsInPlace NeverOnAbandonedTarget
PROPERTIES CalmMoves
