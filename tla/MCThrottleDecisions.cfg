CONSTANTS
  Requests = {r1}
  MetaCapacity = 1
  Bypass = FALSE
  None = None
  Queues = {"NonHP"}
  Dispatchers = {d1}
  Window = 1
  FeedbackMax = 1
  QueueMax = 2
  Ratio <- MCRatio
  Levels = {"NO", "HEAVY"}
  Sources = {"FIXED","MODEL"}
  OtherQueues = TRUE
  Demo = FALSE
  LateQueue = FALSE
  MaxSession = 1
  MaxDecision = 2
SPECIFICATION Spec
INVARIANTS
  ControlConsistent
  DisabledQuiet
  PendingHasResolver
  AppliedIsLatest
