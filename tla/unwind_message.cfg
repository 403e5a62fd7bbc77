CONSTANTS
  Programs <- Replaced
  CodeOf <- Compiled
  Fuel = 2
  MaxHandlers = 16
SPECIFICATION Spec
INVARIANTS
  MessageIsItsOwn
