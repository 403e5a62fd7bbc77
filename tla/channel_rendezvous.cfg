SPECIFICATION FairSpec
CONSTANTS
  p1 = p1
  p2 = p2
  p3 = p3
  Procs = {p1, p2, p3}
  Interruptible = {p1}
  Capacity = 0
  MaxItems = 2
  CopyFaults = {"send", "receive"}
INVARIANT ClosedWakesAll
INVARIANT HandoffOwnsSlot
INVARIANT ReceiversCounted
INVARIANT ReadinessNotMissed
INVARIANT NothingLostOrDuplicated
PROPERTY ImplementsMailbox
PROPERTY CloseUnblocks
PROPERTY InterruptUnblocks
