CONSTANTS
  r1 = r1
  r2 = r2
  r3 = r3
  Requests = {r1, r2}
  Unmergeable = {}
  Ioprios = {"BE"}
  MetaCapacity = 1
  CounterSpan = 4
  MaxJiffies = 0
SPECIFICATION DeadlineSpec
INVARIANTS
  ExitBalanced
