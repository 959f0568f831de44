SPECIFICATION Spec
CONSTANTS
  \* request records
  Requests = {r1, r2}
  Bios = {b1, b2}
  Devs = {d1}
  MaxBytes = 2
  Wrap = 8
  MaxInFlight = 2
  Environments = {
    {"remap", "direct", "sample"},
    {"direct", "sample", "partial", "drop"},
    {"direct", "sample", "reinsert", "drop"},
    {"serial", "remap", "merge", "drop"},
    {"serial", "remap", "partial", "reinsert"},
    {"serial", "flip", "merge", "partial", "reinsert"}}
  \* uid windows
  UidCPUs = {c1, c2}
  Uids = {u1, u2}
  Handlers = {h1, h2}
  AddSizes = {1}
  MaxAdds = 4
  MaxSwaps = 2
  \* window statistics
  CPUs = {c1, c2}
  Latencies = {0, 3, 9}
  HistBuckets = 3
  MaxOps = 3
  MaxRolls = 2
  \* device utilisation
  Readers = {reader1}
  Width = 1024
  MaxUtilClock = 7
  MaxUtilInFlight = 2
  MaxUtilRolls = 2
  \* hot inodes
  Callers = {k1, k2}
  Inodes = {i1, i2, i3}
  HotMax = 2
  TTL = 2
  MaxHotLate = 1
  MaxHotClock = 3
  \* page-cache budget
  Shrinkers = {s1, s2}
  ReclaimUids = {1}
  CachedInodes = {i1, i2, i3}
  FolioSizes = {1, 3}
  BudgetInodes = 2
  Budget = 2
  Window = 2
  CounterWrap = 8
  MaxBudgetLate = 1
  MaxBudgetClock = 3
CHECK_DEADLOCK FALSE
INVARIANTS
  RecordsConsistent
  InFlightDrift
  NothingLeft
  WindowsTrue
  FiguresTrue
  UtilTrue
  BudgetsTrue
PROPERTIES
  HotTableTrue
