SPECIFICATION Spec
CONSTANTS
  Keys = {1, 2}
  PersonEvents = {1}
  MaxEntries = 2
  MaxPhotos = 1
  MaxSends = 1
  MaxAttempts = 2
  MinAge = 1
  MaxAge = 2
  UnscoredWait = 2
  ConfirmWait = 0
  HasScorer = TRUE
  Summary = TRUE
  Vers = {0, 1}
  Horizon = 2
  MaxCaptures = 3
  MaxCrashes = 1
INVARIANTS
  TypeOK
  FramesKept
  SummaryOnce
PROPERTY PromiseKept
