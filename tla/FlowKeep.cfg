SPECIFICATION Spec
CONSTANTS
  Cooldown = 3
  Horizon = 8
  LastReport = 3
  MaxEvents = 2
  Late = 1
  Kinds = {"person"}
  EarlyDelay = 1
  SdDelay = 2
  RetryDelay = 1
  MaxAge = 4
  Interval = 1
  MaxFrames = 2
  GroupGap = 1
  MinAge = 2
  FailureLimit = 2
  MuteTimes = {}
  SamplerOn = TRUE
  SdSnapshot = TRUE
  SdMotion = FALSE
  EarlyLook = TRUE
  MotionExtends = FALSE
  KeepSampling = TRUE
  Corroborate = FALSE
  HoldUnscored = FALSE
  HoldSends = FALSE
  OnErrorHold = FALSE
  UseOutbox = FALSE
  Refusals = FALSE
INVARIANTS
  TypeOK
  QueueOnePerPassage
  OnePhotoPerPassage
PROPERTIES
  DeliveredPassageNotRepeated
