SPECIFICATION Spec
CONSTANTS
  Cooldown = 2
  Horizon = 9
  LastReport = 4
  MaxEvents = 3
  Late = 1
  Kinds = {"person"}
  EarlyDelay = 1
  SdDelay = 2
  RetryDelay = 1
  MaxAge = 4
  Interval = 1
  MaxFrames = 2
  GroupGap = 1
  MinAge = 2
  FailureLimit = 2
  MuteTimes = {}
  SamplerOn = TRUE
  SdSnapshot = TRUE
  SdMotion = FALSE
  EarlyLook = TRUE
  MotionExtends = FALSE
  KeepSampling = TRUE
  Corroborate = FALSE
  HoldUnscored = FALSE
  HoldSends = FALSE
  OnErrorHold = FALSE
  UseOutbox = FALSE
  Refusals = FALSE
INVARIANTS
  OnePhotoPerPassage
