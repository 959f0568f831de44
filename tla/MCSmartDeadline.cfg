CONSTANTS
  r1 = r1
  r2 = r2
  r3 = r3
  Requests = {r1, r2, r3}
  Unmergeable = {}
  Ioprios = {"RT"}
  MetaCapacity = 3
  CounterSpan = 4
  MaxJiffies = 1
SPECIFICATION DeadlineSpec
SYMMETRY Interchangeable
INVARIANTS
  ElevatorConsistent
  QueuedAgrees
PROPERTIES
  ImplementsOrder
