CONSTANTS
  Requests = {r1, r2}
  MetaCapacity = 2
  Bypass = FALSE
  None = None
  Queues = {"NonHP"}
  Dispatchers = {d1}
  Window = 1
  FeedbackMax = 1
  QueueMax = 1
  Ratio <- MCRatio
  Levels = {"HEAVY"}
  Sources = {"FIXED"}
  OtherQueues = FALSE
  Demo = FALSE
  LateQueue = FALSE
  MaxSession = 1
  MaxDecision = 1
SPECIFICATION FairSpec
PROPERTIES
  PendingResolves
  BackgroundProgress
