CONSTANTS
  Programs <- RetryInside
  CodeOf <- Compiled
  Fuel = 2
  MaxHandlers = 16
SPECIFICATION Spec
INVARIANTS
  RunsAsWritten
