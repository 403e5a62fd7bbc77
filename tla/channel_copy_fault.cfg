SPECIFICATION Spec
CONSTANTS
  p1 = p1
  p2 = p2
  p3 = p3
  Procs = {p1, p2, p3}
  Interruptible = {p1}
  Capacity = 1
  MaxItems = 3
  CopyFaults = {"send"}
SYMMETRY ProcsSymmetry
INVARIANT NoSenderOversleeps
