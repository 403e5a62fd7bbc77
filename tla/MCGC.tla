-------------------------------- MODULE MCGC --------------------------------
EXTENDS GC, TLC

CONSTANT MaxRegisters  \* bound: references in all frames together

\* The addresses of one kind are alike.
Symmetry == Permutations(Instances) \cup Permutations(Arrays) \cup Permutations(Fibers)

FewRegisters ==
  Cardinality({r \in Contexts \X Objects : r[2] \in frames[r[1]]}) <= MaxRegisters

=============================================================================
