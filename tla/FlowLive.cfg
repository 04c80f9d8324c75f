SPECIFICATION FairSpec
CONSTANTS
  Cooldown = 2
  Horizon = 6
  LastReport = 2
  MaxEvents = 2
  Late = 0
  Kinds = {"person", "pir"}
  EarlyDelay = 1
  SdDelay = 2
  RetryDelay = 1
  MaxAge = 3
  Interval = 1
  MaxFrames = 2
  GroupGap = 1
  MinAge = 2
  FailureLimit = 2
  MuteTimes = {}
  SamplerOn = TRUE
  SdSnapshot = TRUE
  SdMotion = FALSE
  EarlyLook = FALSE
  MotionExtends = FALSE
  KeepSampling = FALSE
  Corroborate = FALSE
  HoldUnscored = TRUE
  HoldSends = FALSE
  OnErrorHold = FALSE
  UseOutbox = FALSE
  Refusals = TRUE
INVARIANTS
  NothingTwice
PROPERTIES
  QueueDrains
  EventsDecided
