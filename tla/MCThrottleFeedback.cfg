CONSTANTS
  Requests = {r1, r2}
  MetaCapacity = 2
  Bypass = FALSE
  None = None
  Queues = {"HP","NonHP"}
  Dispatchers = {d1}
  Window = 2
  FeedbackMax = 2
  QueueMax = 4
  Ratio <- MCRatio
  Levels = {"HEAVY"}
  Sources = {"FIXED"}
  OtherQueues = FALSE
  Demo = TRUE
  LateQueue = TRUE
  MaxSession = 0
  MaxDecision = 1
SPECIFICATION Spec
SYMMETRY Interchangeable
INVARIANTS
  MetaConsistent
  CountersExact
  NoAnomaly
  FeedbackConsistent
PROPERTIES
  RefusalLeavesTarget
  AccountingSpec
