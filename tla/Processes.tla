----------------------------- MODULE Processes -----------------------------
(***************************************************************************)
(* Child processes: Process.run, Process.spawn, the Process::Handle and    *)
(* the Process::Streams that spawn returns, and the finalizers of the      *)
(* garbage collector for them.                                             *)
(*                                                                         *)
(* The kernel's process table and the descriptor table are shared by the   *)
(* VMs of all threads.  A pid that was reaped may be given to a process    *)
(* that is not a child of this one.  What a child writes or reads is left  *)
(* out: an end of a pipe is open or closed.                                *)
(***************************************************************************)
EXTENDS Integers

CONSTANTS
  Vms,          \* VMs that call Process.run
  Handles,      \* room for Process::Handle objects, with their streams
  Pids, Fds,    \* the pids and descriptors there are
  SpawnEnds,    \* sets of the ends that the options of a Process.spawn keep
  Nobody

ASSUME PidsAssumption == Pids \subseteq Nat \ {0}
ASSUME FdsAssumption == Fds \subseteq Nat
ASSUME OwnersAssumption == Nobody \notin Vms \cup Handles /\ Vms \cap Handles = {}
ASSUME EndsAssumption == SpawnEnds \subseteq SUBSET {"stdin", "stdout", "stderr"}

VARIABLES
  st, of,   \* the process table: the state of a pid, and for whom it was started
  table,    \* the descriptor table: for whom each open descriptor was opened
  pid,      \* the child of a handle or of the Process.run a VM is in, 0 for none
  ends,     \* their ends of its pipes
  reaped,   \* handles that have their child's exit status
  there,    \* the handle object and the streams not yet freed
  held,     \* those of them the program has a reference to
  at,       \* where each VM is in Process.run
  failed    \* whether a Process.spawn has failed to start (for the properties)

vars == <<st, of, table, pid, ends, reaped, there, held, at, failed>>

Ends == {"stdin", "stdout", "stderr"}
Objects == Ends \cup {"handle"}
Owners == Vms \cup Handles
NoFd == -1
Closed == [e \in Ends |-> NoFd]

\* A handle keeps its streams alive.
Reached(h) == IF "handle" \in held[h] THEN there[h] ELSE held[h]

TypeOK ==
  /\ st \in [Pids -> {"free", "running", "zombie", "other", "struck"}]
  /\ of \in [Pids -> Owners \cup {Nobody}]
  /\ table \in [Fds -> Owners \cup {Nobody}]
  /\ pid \in [Owners -> Pids \cup {0}]
  /\ ends \in [Owners -> [Ends -> Fds \cup {NoFd}]]
  /\ reaped \in [Handles -> BOOLEAN]
  /\ there \in [Handles -> SUBSET Objects]
  /\ held \in [Handles -> SUBSET Objects]
  /\ at \in [Vms -> {"idle", "pipes", "reap", "interrupted", "killed"}]
  /\ failed \in BOOLEAN

Init ==
  /\ st = [p \in Pids |-> "free"]
  /\ of = [p \in Pids |-> Nobody]
  /\ table = [f \in Fds |-> Nobody]
  /\ pid = [o \in Owners |-> 0]
  /\ ends = [o \in Owners |-> Closed]
  /\ reaped = [h \in Handles |-> FALSE]
  /\ there = [h \in Handles |-> {}]
  /\ held = [h \in Handles |-> {}]
  /\ at = [v \in Vms |-> "idle"]
  /\ failed = FALSE

-----------------------------------------------------------------------------
(***************************************************************************)
(* The kernel.                                                             *)
(***************************************************************************)

\* New descriptors for the ends in K.
IsNew(new, K) ==
  /\ \A e \in Ends : IF e \in K THEN new[e] \in Fds /\ table[new[e]] = Nobody
                     ELSE new[e] = NoFd
  /\ \A e, d \in K : new[e] = new[d] => e = d
CanOpen(K) == \E new \in [Ends -> Fds \cup {NoFd}] : IsNew(new, K)
NewEnds(K) == CHOOSE new \in [Ends -> Fds \cup {NoFd}] : IsNew(new, K)

\* The descriptor table with the ends in K open for owner, or closed.
Opened(new, K, owner) ==
  [f \in Fds |-> IF \E e \in K : new[e] = f THEN owner ELSE table[f]]
Shut(old, K) == [f \in Fds |-> IF \E e \in K : old[e] = f THEN Nobody ELSE table[f]]

\* posix_spawnp for owner.
Start(p, owner) ==
  /\ st[p] = "free"
  /\ st' = [st EXCEPT ![p] = "running"]
  /\ of' = [of EXCEPT ![p] = owner]
  /\ pid' = [pid EXCEPT ![owner] = p]

\* Whether waitpid(p) knows p, and what it does once p has exited.
IsChild(p) == st[p] \in {"running", "zombie"}
Reap(p) ==
  /\ st[p] = "zombie"
  /\ st' = [st EXCEPT ![p] = "free"]
  /\ of' = [of EXCEPT ![p] = Nobody]

\* kill(p, SIGKILL).  A process that is not ours is struck by it.
Strike(p) ==
  st' = [st EXCEPT ![p] = CASE @ = "running" -> "zombie"
                            [] @ = "other" -> "struck"
                            [] OTHER -> @]

ChildExits(p) ==
  /\ st[p] = "running"
  /\ st' = [st EXCEPT ![p] = "zombie"]
  /\ UNCHANGED <<of, table, pid, ends, reaped, there, held, at, failed>>

\* A free pid is given to a process that is not a child of this one, and freed.
OtherStarts(p) ==
  /\ st[p] = "free"
  /\ st' = [st EXCEPT ![p] = "other"]
  /\ UNCHANGED <<of, table, pid, ends, reaped, there, held, at, failed>>

OtherEnds(p) ==
  /\ st[p] \in {"other", "struck"}
  /\ st' = [st EXCEPT ![p] = "free"]
  /\ UNCHANGED <<of, table, pid, ends, reaped, there, held, at, failed>>

-----------------------------------------------------------------------------
(***************************************************************************)
(* Process.spawn.                                                          *)
(***************************************************************************)

\* The ends in K are those the options ask a pipe for.  The other pipes, and
\* the child's end of each, are closed before the call returns.
process_spawn_with_options(h, p, K) ==
  /\ there[h] = {}
  /\ Start(p, h)
  /\ CanOpen(K)
  /\ table' = Opened(NewEnds(K), K, h)
  /\ ends' = [ends EXCEPT ![h] = NewEnds(K)]
  /\ reaped' = [reaped EXCEPT ![h] = FALSE]
  /\ there' = [there EXCEPT ![h] = K \cup {"handle"}]
  /\ held' = [held EXCEPT ![h] = {"handle"}]
  /\ UNCHANGED <<at, failed>>

\* A failure before handle->pid is set (the options, argv, a pipe, the exec, or
\* O_NONBLOCK, after which the child is killed and reaped) closes every pipe
\* again.  It leaves the handle that the opcode allocated, with pid 0.
SpawnFailsToStart(h) ==
  /\ there[h] = {}
  /\ pid' = [pid EXCEPT ![h] = 0]
  /\ reaped' = [reaped EXCEPT ![h] = FALSE]
  /\ there' = [there EXCEPT ![h] = {"handle"}]
  /\ failed' = TRUE
  /\ UNCHANGED <<st, of, table, ends, held, at>>

\* The streams are made in the order stdout, stderr, stdin.  When one of them, or
\* a write barrier, runs out of memory, those made so far are left to the
\* collector with the handle and the running child.  Of the other ends all are
\* closed, except that stdin's stays open unless its turn had come.
SpawnRunsOutOfMemory(h, p, K, made, open) ==
  /\ there[h] = {}
  /\ "stderr" \in made => "stdout" \in made \/ "stdout" \notin K
  /\ "stdin" \in made => made = K
  /\ \/ open = made /\ ("stdin" \in K => K \ {"stdin"} \subseteq made)
     \/ /\ open = made \cup {"stdin"} /\ "stdin" \in K \ made
        /\ "stderr" \notin made /\ K # {"stdin"}
  /\ Start(p, h)
  /\ CanOpen(K)
  /\ table' = Opened(NewEnds(K), open, h)
  /\ ends' = [ends EXCEPT ![h] = [e \in Ends |-> IF e \in made THEN NewEnds(K)[e] ELSE NoFd]]
  /\ reaped' = [reaped EXCEPT ![h] = FALSE]
  /\ there' = [there EXCEPT ![h] = made \cup {"handle"}]
  /\ UNCHANGED <<held, at, failed>>

-----------------------------------------------------------------------------
(***************************************************************************)
(* Process::Handle.                                                        *)
(***************************************************************************)

\* wait and running? of a child that has exited.  While it runs, wait blocks and
\* running? is true; if waitpid does not know it, both raise IOError.
process_wait_helper_unmarked(h) ==
  /\ Reap(pid[h])
  /\ UNCHANGED reaped
process_wait_helper(h) ==
  /\ Reap(pid[h])
  /\ reaped' = [reaped EXCEPT ![h] = TRUE]

Wait(h) ==
  /\ "handle" \in held[h]
  /\ ~reaped[h]
  /\ process_wait_helper(h)
  /\ UNCHANGED <<table, pid, ends, there, held, at, failed>>

\* kill, and terminate of a child that does not catch SIGTERM.
SignalUnguarded(h) ==
  /\ "handle" \in held[h]
  /\ Strike(pid[h])
  /\ UNCHANGED <<of, table, pid, ends, reaped, there, held, at, failed>>
Signal(h) ==
  /\ "handle" \in held[h]
  /\ ~reaped[h]
  /\ Strike(pid[h])
  /\ UNCHANGED <<of, table, pid, ends, reaped, there, held, at, failed>>

\* The program drops the handle and all streams but those in keep.
Forget(h, keep) ==
  /\ keep \subseteq Reached(h) /\ keep # held[h]
  /\ held' = [held EXCEPT ![h] = keep]
  /\ UNCHANGED <<st, of, table, pid, ends, reaped, there, at, failed>>

\* The finalizer of an unreachable handle calls waitpid with WNOHANG, unless the
\* child was reaped: for pid 0 it takes any child of the process group that has
\* exited.  A child that still runs is left without an owner.
SweepHandle(h) ==
  /\ "handle" \in there[h] \ Reached(h)
  /\ LET awaited == IF pid[h] = 0 THEN Pids ELSE {pid[h]} IN
     \/ ~reaped[h] /\ \E p \in awaited : Reap(p)
     \/ /\ reaped[h] \/ \A p \in awaited : st[p] # "zombie"
        /\ of' = [p \in Pids |-> IF of[p] = h THEN Nobody ELSE of[p]]
        /\ UNCHANGED st
  /\ there' = [there EXCEPT ![h] = @ \ {"handle"}]
  /\ pid' = [pid EXCEPT ![h] = 0]
  /\ reaped' = [reaped EXCEPT ![h] = FALSE]
  /\ UNCHANGED <<table, ends, held, at, failed>>

-----------------------------------------------------------------------------
(***************************************************************************)
(* Process::Stream.  Its read, gets and write use the descriptor it has.   *)
(***************************************************************************)

CloseStreamAgain(h, e) ==
  /\ table' = Shut(ends[h], {e})
  /\ UNCHANGED ends
CloseStream(h, e) ==
  /\ table' = Shut(ends[h], {e})
  /\ ends' = [ends EXCEPT ![h][e] = NoFd]

Close(h, e) ==
  /\ e \in Reached(h) /\ ends[h][e] # NoFd
  /\ CloseStream(h, e)
  /\ UNCHANGED <<st, of, pid, reaped, there, held, at, failed>>

SweepStream(h, e) ==
  /\ e \in there[h] \ Reached(h)
  /\ table' = Shut(ends[h], {e})
  /\ ends' = [ends EXCEPT ![h][e] = NoFd]
  /\ there' = [there EXCEPT ![h] = @ \ {e}]
  /\ UNCHANGED <<st, of, pid, reaped, held, at, failed>>

-----------------------------------------------------------------------------
(***************************************************************************)
(* Process.run.  A call that fails to start closes what it has opened and  *)
(* changes nothing.                                                        *)
(***************************************************************************)

RunStarts(v, p, K) ==
  /\ at[v] = "idle"
  /\ {"stdout", "stderr"} \subseteq K
  /\ Start(p, v)
  /\ CanOpen(K)
  /\ table' = Opened(NewEnds(K), K, v)
  /\ ends' = [ends EXCEPT ![v] = NewEnds(K)]
  /\ at' = [at EXCEPT ![v] = "pipes"]
  /\ UNCHANGED <<reaped, there, held, failed>>

\* The poll loop closes an output at its end, and the input once it is written
\* or the child has closed it.
RunClosesEnd(v, e) ==
  /\ at[v] = "pipes" /\ ends[v][e] # NoFd
  /\ table' = Shut(ends[v], {e})
  /\ ends' = [ends EXCEPT ![v][e] = NoFd]
  /\ UNCHANGED <<st, of, pid, reaped, there, held, at, failed>>

\* The loop ends with every pipe closed, or early: by an interrupt, or when
\* memory runs out or poll fails.  What is still open is closed.
RunLeavesLoop(v, next) ==
  /\ at[v] = "pipes"
  /\ table' = Shut(ends[v], Ends)
  /\ ends' = [ends EXCEPT ![v] = Closed]
  /\ at' = [at EXCEPT ![v] = next]
  /\ UNCHANGED <<st, of, pid, reaped, there, held, failed>>

\* process_reap_child: an interrupt may come while the child still runs.
RunInterrupted(v) ==
  /\ at[v] = "reap" /\ st[pid[v]] = "running"
  /\ at' = [at EXCEPT ![v] = "interrupted"]
  /\ UNCHANGED <<st, of, table, pid, ends, reaped, there, held, failed>>

RunKills(v) ==
  /\ at[v] = "interrupted"
  /\ Strike(pid[v])
  /\ at' = [at EXCEPT ![v] = "killed"]
  /\ UNCHANGED <<of, table, pid, ends, reaped, there, held, failed>>

\* waitpid returns the child's status, or fails: then exit_code is 255.
RunReaps(v) ==
  /\ at[v] \in {"reap", "killed"}
  /\ \/ Reap(pid[v])
     \/ ~IsChild(pid[v]) /\ UNCHANGED <<st, of>>
  /\ pid' = [pid EXCEPT ![v] = 0]
  /\ at' = [at EXCEPT ![v] = "idle"]
  /\ UNCHANGED <<table, ends, reaped, there, held, failed>>

-----------------------------------------------------------------------------
Next ==
  \/ \E p \in Pids : ChildExits(p) \/ OtherStarts(p) \/ OtherEnds(p)
  \/ \E h \in Handles :
       \/ \E p \in Pids, K \in SpawnEnds :
            \/ process_spawn_with_options(h, p, K)
            \/ \E made, open \in SUBSET K : SpawnRunsOutOfMemory(h, p, K, made, open)
       \/ SpawnFailsToStart(h)
       \/ Wait(h)
       \/ Signal(h)
       \/ \E keep \in SUBSET Ends : Forget(h, keep)
       \/ SweepHandle(h)
       \/ \E e \in Ends : Close(h, e) \/ SweepStream(h, e)
  \/ \E v \in Vms :
       \/ \E p \in Pids, K \in SUBSET Ends : RunStarts(v, p, K)
       \/ \E e \in Ends : RunClosesEnd(v, e)
       \/ \E next \in {"reap", "interrupted"} : RunLeavesLoop(v, next)
       \/ RunInterrupted(v)
       \/ RunKills(v)
       \/ RunReaps(v)

Spec == Init /\ [][Next]_vars

-----------------------------------------------------------------------------
(***************************************************************************)
(* Properties.                                                             *)
(***************************************************************************)

\* A handle that has not reaped its child, and a Process.run that is not over,
\* still have it: no other wait, poll or finalizer took its exit status, and its
\* pid names no other process.
Awaits(o) == IF o \in Vms THEN at[o] # "idle" ELSE "handle" \in there[o] /\ ~reaped[o]
EveryChildAwaits ==
  \A o \in Owners : Awaits(o) /\ pid[o] # 0 => IsChild(pid[o]) /\ of[pid[o]] = o

\* That is so until the first Process.spawn that fails to start.
ChildAwaitsItsOwner == failed \/ EveryChildAwaits

\* A descriptor that a stream or a Process.run holds is the one that was opened
\* for it, and for one end only: a close or a finalizer never closes what another
\* part of the program has been given since.
DescriptorIsItsOwners ==
  \A o \in Owners, e \in Ends : ends[o][e] # NoFd =>
    /\ table[ends[o][e]] = o
    /\ \A d \in Ends : ends[o][d] = ends[o][e] => d = e
    /\ o \in Handles => e \in there[o]

\* Until then, kill, terminate and an interrupted Process.run signal no process
\* that has been given the pid of a reaped child.
NoneStruck == \A p \in Pids : st[p] # "struck"
NoStrangerStruck == failed \/ NoneStruck

============================================================================
