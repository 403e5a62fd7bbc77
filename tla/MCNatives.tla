----------------------------- MODULE MCNatives -----------------------------
(***************************************************************************)
(* Small instances of the parts that share no state: child processes, the  *)
(* interruption of library calls, Threads and the jobs package.  A         *)
(* behaviour is one of one part, and the others stay as they are.          *)
(***************************************************************************)
EXTENDS Processes, JobQueue, Interrupts, Threads

CONSTANTS
  v1, v2, h1, h2, j1, j2, t1, t2, t3, root, w1, w2,
  Parts  \* the parts to check

VARIABLE part

MCInit == part \in Parts /\ Init /\ InterruptsInit /\ ThreadsInit /\ JobsInit

MCNext ==
  /\ UNCHANGED part
  /\ \/ part = "processes" /\ Next /\ UNCHANGED <<stopvars, threadvars, jobvars>>
     \/ part = "interrupts" /\ InterruptsNext /\ UNCHANGED <<vars, threadvars, jobvars>>
     \/ part = "threads" /\ ThreadsNext /\ UNCHANGED <<vars, stopvars, jobvars>>
     \/ part = "jobs" /\ JobsNext /\ UNCHANGED <<vars, stopvars, threadvars>>

\* The fairness of JobQueue, for the behaviours that are its own.
JobsRun ==
  /\ WF_jobvars(part = "jobs" /\ Tick)
  /\ \A w \in Workers : WF_jobvars(part = "jobs" /\ Step(w))

MCSpec == MCInit /\ [][MCNext]_<<part, vars, stopvars, threadvars, jobvars>> /\ JobsRun

\* Bounds on Processes: of the VM and the two handles at most two are in use at a
\* time and one handle has streams, and once a spawn has failed to start no more
\* streams are made.
InUse == {h \in Handles : there[h] # {}} \cup {v \in Vms : at[v] # "idle"}
FewOwners ==
  /\ Cardinality(InUse) <= 2
  /\ Cardinality({h \in Handles : there[h] \cap Ends # {}}) <= 1
  /\ failed => \A h \in Handles : there[h] \subseteq {"handle"}

\* Bound on Interrupts: one of the two VMs is interrupted at a time.
OneInterrupted == Cardinality({v \in Supervised : other[v] # "away"}) <= 1

\* Bound on JobQueue: a reap_stale! that stalls is followed with no recurring job.
StallsAlone == stalled => ~scheduled

=============================================================================
