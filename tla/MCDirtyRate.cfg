SPECIFICATION FairLimiterSpec
CONSTANTS
  Writers = {w1}
  Background = {w1}
  OtherUid = other
  NoUid = none
  Rates = {0, 3, 40}
  Page = 4
  Second = 4
  MaxAge = 7
INVARIANTS
  LimiterConsistent
  NoStaleSleep
PROPERTIES
  RefillIsExact
  HookReturns
