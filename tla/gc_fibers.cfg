SPECIFICATION Spec
SYMMETRY Symmetry
CONSTRAINT FewRegisters
CONSTANTS
  Instances = {x}
  Arrays = {}
  Hashes = {}
  Fibers = {f, g}
  Main = Main
  Nil = Nil
  CardSize = 2
  FirstGrowth = 1
  MaxCount = 3
  MaxLiteral = 0
  MaxRegisters = 3
INVARIANTS
  NoDangling
  RunningHandleHeld
