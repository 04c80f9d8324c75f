SPECIFICATION ResumeSpec
CONSTANTS
  Cooldown = 1
  Reported = 3
  LastMoment = 2
  Faces = {3}
  RetryLimit = 2
  Mishaps = 2
INVARIANTS ResumeTypeOK NoneUnread FollowUpsSurvive EchoExplained LimitIsOwn
