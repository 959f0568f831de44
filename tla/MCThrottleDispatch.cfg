CONSTANTS
  Requests = {r1, r2}
  MetaCapacity = 2
  Bypass = FALSE
  None = None
  Queues = {"NonHP"}
  Dispatchers = {d1, d2}
  Window = 1
  FeedbackMax = 1
  QueueMax = 2
  Ratio <- MCRatio
  Levels = {"HEAVY"}
  Sources = {"FIXED"}
  OtherQueues = FALSE
  Demo = FALSE
  LateQueue = FALSE
  MaxSession = 1
  MaxDecision = 1
SPECIFICATION Spec
SYMMETRY Interchangeable
INVARIANTS
  GateHasReason
  NoLostWakeup
