----------------------------- MODULE UnwindTerms -----------------------------
(***************************************************************************)
(* What the meaning of a program (UnwindSemantics) and the machine that    *)
(* runs its bytecode (Unwind) have in common.                              *)
(***************************************************************************)
EXTENDS Integers, Sequences

CONSTANTS Fuel   \* bound: repetitions in one run of a program

None == <<"none">>

\* The exception classes a rescue clause can name.
Raised == "Raised"    \* of a raise
Runtime == "Runtime"  \* of a runtime error
Ordinary == "Ordinary" \* of a value that is no exception, which none names

=============================================================================
