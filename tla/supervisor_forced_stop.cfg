SPECIFICATION FairSpec
CONSTANTS
  MaxChildren = 1
  Limits = {}
  MaxCounted = 1
PROPERTY ForcedStopReturns
