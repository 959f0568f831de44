SPECIFICATION FairPolicySpec
CONSTANTS
  Writers = {w1}
  Background = {}
  OtherUid = other
  NoUid = none
  Rates = {1}
  Page = 1
  Second = 1
  MaxAge = 1
  Needed = 3
INVARIANTS
  PolicyConsistent
PROPERTIES
  ThreeHighWindows
  LimiterSpec
  LimiterFollowsPressure
