CONSTANTS
  Requests = {r1, r2}
  MetaCapacity = 2
  Bypass = FALSE
SPECIFICATION AccountingSpec
PROPERTIES
  BgHeldToFinalComplete
