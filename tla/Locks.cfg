SPECIFICATION LocksSpec
CONSTANTS
  Keys = {1, 2, 3}
  PersonEvents = {1}
  MaxEntries = 2
  MaxPhotos = 1
  MaxSends = 1
  MaxAttempts = 2
  MinAge = 0
  MaxAge = 0
  UnscoredWait = 1
  ConfirmWait = 0
  HasScorer = TRUE
  Summary = TRUE
  Vers = {0, 1}
  Horizon = 1
  MaxCaptures = 3
  MaxCrashes = 0
  MaxX = 3
  LeftInner = 0
  RightInner = 2
  Home = 1
  StableSamples = 2
  RecoverAttempts = 1
  OffFailsToUnverify = 2
  Disturbances = 1
INVARIANT EndstopHolds
PROPERTIES PersonsEvictedLast LatchOpensSafely
CHECK_DEADLOCK FALSE
