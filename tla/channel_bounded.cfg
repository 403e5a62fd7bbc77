SPECIFICATION MCSpec
CONSTANTS
  p1 = p1
  p2 = p2
  p3 = p3
  Procs = {p1, p2, p3}
  Interruptible = {p1}
  Capacity = 2
  MaxItems = 4
  CopyFaults = {}
  Callers = {p1}
  N = 3
  Capacities = {0, 1}
SYMMETRY ProcsSymmetry
INVARIANT NoSenderOversleeps
INVARIANT NoReceiverOversleeps
INVARIANT SelectMissesNothing
