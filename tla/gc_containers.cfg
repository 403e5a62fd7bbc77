SPECIFICATION Spec
SYMMETRY Symmetry
CONSTRAINT FewRegisters
CONSTANTS
  Instances = {}
  Arrays = {a}
  Hashes = {h}
  Fibers = {}
  Main = Main
  Nil = Nil
  CardSize = 2
  FirstGrowth = 1
  MaxCount = 3
  MaxLiteral = 1
  MaxRegisters = 3
INVARIANTS
  TypeOK
  NoDangling
  OldToYoungRecorded
  RememberedExact
  CardTableCovers
