SPECIFICATION CameraSpec
CONSTANTS
  Candidates <- CandidatesV
  Elsewhere = {"c", "d"}
  FailoverAfter = 2
  SearchAfter = 3
  ReturnPasses = 3
  Shuffles = 2
  Meddling = 1
  TrackHold = 4
  Grace = 2
  LinkageHold = 2
  PollEvery = 2
  ControlEvery = 3
  RebuildCap = 2
  HistoryLimit = 3
  Flaps = 4
  HubClips = 2
  HubAttempts = 3
  FinishTries = 2
  HubTrouble = 1
  ClipIncidents = {"i1", "i2"}
  ClipTries = 2
  ClipRestarts = 1
  ArchiveWriters = {"loop", "sender"}
  Frames = 3
  Hours = 2
  KeepHours = 1
  RunEvery = 1
  DropsPerHour = 1
  ArchiveCrashes = 1
  DayLength = 2
  DueAt = 1
  Fresh = 1
  FailureRate = 2
  ProblemsOnly = TRUE
  Checks = {"tick"}
  LastTick = 3
  Requests = 2
  Slips = 1
  LastCam = 2
  Threshold = 1
  RetryAfter = 2
  EvidenceTries = 2
  MaxIncidents = 1
  LastUnit = 5
  Segments = 1
  CopyTrouble = 1
INVARIANTS CameraTypeOK
  HostSettled PassLeavesPlan
  StrayEnds DriftTold ClipsHandled FilesKept DigestIsTrue
CHECK_DEADLOCK FALSE
