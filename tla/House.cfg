SPECIFICATION HouseSpec
CONSTANTS
  Changes = 3
  Services = 3
  ScoreThreads = {"loop", "worker"}
  FailThreshold = 2
  ProbeFails = 2
  ServiceChanges = 2
  Handlers = {"h1", "h2"}
  ShadowQueue = 1
  Uploads = 2
  ServiceStops = 1
  Events = {"e1", "e2"}
  LineQueue = 1
  Batch = 1
  LedgerDays = 2
  KeepDays = 1
  LinesLeft = 3
  Longest = 3
  LastSecond = 4
  PairWindow = 1
  Places = {"yard", "shed", "street"}
  IgnoreZone = {"shed"}
  IgnoreBox = {"shed"}
  Oversized = {}
  AlertZone = {"yard", "shed"}
  Confidences = {0, 2, 3, 5}
  ListFloor = 1
  Low = 2
  Trust = 3
  Host = 4
  Band = 1
  Confidence = {1,5,6}
  SendFrom = 5
  Pictures = {"p","q","r"}
  LeftOut = {"r"}
  LabelVerdicts = {"person","none"}
  LabelLines = 3
  VisitIds = {"x","y"}
  LongestVisit = 3
  LastFrameAt = 2
  VisitGap = 1
  Views = {"a", "b"}
  SceneWindow = 1
  LastEvent = 3
  Deliveries = 3
  RecordLimit = 2
  Shots <- ShotsV
  Scores = {1,5,6}
  Threshold = 5
  ClipFrames = 3
  BridgeQueue = 1
  Levels = {"a", "b"}
  HookCalls = 3
  BrokerCuts = 2
  PushRoom = 2
  AlarmMaxAge = 1
  LastPush = 3
  LastVisit = 2
  PushTrouble = 1
INVARIANTS HouseTypeOK OutagesAreOwed DoneOnce
  KeepsWhatItShould RightPhoto ReportsAddUp
PROPERTIES OutageIsOver ScorerFound
CHECK_DEADLOCK FALSE
