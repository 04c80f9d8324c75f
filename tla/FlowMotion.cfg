SPECIFICATION Spec
CONSTANTS
  Cooldown = 2
  Horizon = 7
  LastReport = 3
  MaxEvents = 2
  Late = 1
  Kinds = {"person", "motion", "pir"}
  EarlyDelay = 1
  SdDelay = 2
  RetryDelay = 1
  MaxAge = 4
  Interval = 1
  MaxFrames = 2
  GroupGap = 1
  MinAge = 2
  FailureLimit = 2
  MuteTimes = {5}
  SamplerOn = TRUE
  SdSnapshot = TRUE
  SdMotion = TRUE
  EarlyLook = FALSE
  MotionExtends = TRUE
  KeepSampling = FALSE
  Corroborate = TRUE
  HoldUnscored = FALSE
  HoldSends = TRUE
  OnErrorHold = FALSE
  UseOutbox = FALSE
  Refusals = TRUE
INVARIANTS
  QuietHours
  CooldownKept
  GroupNamed
  EachPathOnce
