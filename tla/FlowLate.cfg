SPECIFICATION Spec
CONSTANTS
  Cooldown = 2
  Horizon = 8
  LastReport = 3
  MaxEvents = 1
  Late = 0
  Kinds = {"person"}
  EarlyDelay = 1
  SdDelay = 2
  RetryDelay = 1
  MaxAge = 4
  Interval = 1
  MaxFrames = 4
  GroupGap = 1
  MinAge = 2
  FailureLimit = 2
  MuteTimes = {}
  SamplerOn = TRUE
  SdSnapshot = FALSE
  SdMotion = FALSE
  EarlyLook = FALSE
  MotionExtends = FALSE
  KeepSampling = FALSE
  Corroborate = FALSE
  HoldUnscored = FALSE
  HoldSends = FALSE
  OnErrorHold = FALSE
  UseOutbox = TRUE
  Refusals = TRUE
INVARIANTS
  NothingTwice
