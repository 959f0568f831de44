SPECIFICATION MCSpec
CONSTANTS
    CPUs = {c1}
    Writers = {w1}
    Nodes <- MCNodes
    ProbesOf <- MCProbesOf
    MaxObjects = 1
    MaxWrites = 1
    Queues = {q1}
    Handlers = {h1}
    Admins = {a1,a2}
    None = None
    Thread = Thread
    MaxInits = 1
    MaxDecisions = 1
    MaxSwitches = 2
CHECK_DEADLOCK FALSE
INVARIANTS
  NothingDangles
  CleanFailure
  ContextConsistent
  DecisionHasResolver
PROPERTIES
  DestroyedEmpty
  EveryLoadEnds
  CallsEnd
