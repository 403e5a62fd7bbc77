----------------------------- MODULE MCChannel -----------------------------
(* Small instances of Channel for TLC. *)
EXTENDS Channel, TLC

CONSTANTS p1, p2, p3

ProcsSymmetry == Permutations(Interruptible) \cup Permutations(Procs \ Interruptible)

=============================================================================
