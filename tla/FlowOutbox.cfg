SPECIFICATION Spec
CONSTANTS
  Cooldown = 2
  Horizon = 6
  LastReport = 3
  MaxEvents = 3
  Late = 1
  Kinds = {"person", "face"}
  EarlyDelay = 1
  SdDelay = 2
  RetryDelay = 1
  MaxAge = 4
  Interval = 1
  MaxFrames = 2
  GroupGap = 1
  MinAge = 2
  FailureLimit = 2
  MuteTimes = {}
  SamplerOn = TRUE
  SdSnapshot = FALSE
  SdMotion = FALSE
  EarlyLook = FALSE
  MotionExtends = FALSE
  KeepSampling = FALSE
  Corroborate = FALSE
  HoldUnscored = TRUE
  HoldSends = FALSE
  OnErrorHold = TRUE
  UseOutbox = TRUE
  Refusals = TRUE
INVARIANTS
  NothingSkipped
