CONSTANTS
  Programs <- MCPrograms
  CodeOf <- Compiled
  Fuel = 2
  MaxHandlers = 16
SPECIFICATION Spec
INVARIANTS
  RunsAsWritten
  ExitsHaveAPlace
PROPERTIES
  EnsureRunsOnce
