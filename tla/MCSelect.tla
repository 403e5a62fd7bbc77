------------------------------ MODULE MCSelect ------------------------------
(***************************************************************************)
(* Small instances of Select and of Channel, which share no state: a       *)
(* behaviour is one of one of them.                                        *)
(***************************************************************************)
EXTENDS Channel, Select, TLC

CONSTANTS p1, p2, p3

VARIABLE part

MCInit ==
  /\ part \in {"channel", "select"} /\ Init /\ SelectInit
  /\ part = "channel" => \A c \in Chans : capacity[c] = 1

MCNext ==
  /\ UNCHANGED part
  /\ \/ part = "channel" /\ Next /\ UNCHANGED selectvars
     \/ part = "select" /\ SelectNext /\ UNCHANGED vars

MCSpec == MCInit /\ [][MCNext]_<<part, vars, selectvars>>

ProcsSymmetry == Permutations(Procs \ Interruptible)

=============================================================================
