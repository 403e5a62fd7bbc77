SPECIFICATION FairSpec
CONSTANTS
  MaxChildren = 2
  Limits = {0, 1}
  MaxCounted = 3
INVARIANT InterruptArmed
INVARIANT StaleInterrupted
INVARIANT GiveUpReachesAll
INVARIANT NoChildOutlives
INVARIANT IntensityExact
INVARIANT RestartCountExact
PROPERTY GiveUpEndsAll
PROPERTY SiblingsRestart
PROPERTY StopReturns
