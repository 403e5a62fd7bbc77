------------------------------ MODULE Threads ------------------------------
(***************************************************************************)
(* Thread.new, Thread#join and the end of a Thread.                        *)
(*                                                                         *)
(* A Thread runs on a VM of its own, whose owner is the VM that created    *)
(* it.  The Thread's handle lives in the owner's heap: when the collector  *)
(* sweeps it, and when the owner itself is freed, free_thread waits for    *)
(* the Thread, frees its VM, with the Threads that VM owns in turn, and    *)
(* gives its slot of the live-thread limit back.                           *)
(*                                                                         *)
(* The root is the VM of one attempt of a supervised child, which another  *)
(* thread may interrupt.  What the functions compute is left out.          *)
(***************************************************************************)
EXTENDS Integers, FiniteSets

CONSTANTS
  Threads,  \* room for DiamondThreads
  Root,
  Limit,    \* diamond_live_thread_limit()
  None

ASSUME ThreadsAssumption == IsFiniteSet(Threads)
ASSUME RootAssumption == Root \notin Threads /\ None \notin Threads \cup {Root}
ASSUME LimitAssumption == Limit \in Nat

Machines == Threads \cup {Root}

VARIABLES
  owner,    \* the VM that created a Thread
  slot,     \* whether a Thread counts: no, reserved, or surplus (counted to be uncounted)
  state,    \* what a VM does, or what is done to it
  with,     \* the Thread that it creates, joins or frees
  os,       \* the operating-system thread of a Thread: none, running, ended, joined
  joined,   \* thread->joined
  spent,    \* its operating-system thread was joined but joined was not set (history)
  reachable,  \* the program of the owner can reach the handle
  told,     \* the interrupt flag of a VM
  count     \* diamond_active_thread_count

threadvars == <<owner, slot, state, with, os, joined, spent, reachable, told, count>>

\* "new": inside Thread.new.  "sweep": frees a Thread during a collection.
\* "free": is being freed, "wait": as "free" while it waits for a Thread it owns.
States == {"none", "run", "new", "join", "sweep", "end", "free", "wait"}

ThreadsTypeOK ==
  /\ owner \in [Threads -> Machines \cup {None}]
  /\ slot \in [Threads -> {"no", "reserved", "surplus"}]
  /\ state \in [Machines -> States]
  /\ with \in [Machines -> Threads \cup {None}]
  /\ os \in [Threads -> {"none", "running", "ended", "joined", "joined twice"}]
  /\ joined \in [Threads -> BOOLEAN] /\ spent \in [Threads -> BOOLEAN]
  /\ reachable \in [Threads -> BOOLEAN]
  /\ told \in [Machines -> BOOLEAN]
  /\ count \in Int

ThreadsInit ==
  /\ owner = [t \in Threads |-> None]
  /\ slot = [t \in Threads |-> "no"]
  /\ state = [v \in Machines |-> IF v = Root THEN "run" ELSE "none"]
  /\ with = [v \in Machines |-> None]
  /\ os = [t \in Threads |-> "none"]
  /\ joined = [t \in Threads |-> FALSE] /\ spent = [t \in Threads |-> FALSE]
  /\ reachable = [t \in Threads |-> FALSE]
  /\ told = [v \in Machines |-> FALSE]
  /\ count = 0

Becomes(v, s, t) ==
  /\ state' = [state EXCEPT ![v] = s]
  /\ with' = [with EXCEPT ![v] = t]

-----------------------------------------------------------------------------
(***************************************************************************)
(* Thread.new.                                                             *)
(***************************************************************************)

\* The first look at the count, the copy of the program and the new VM.
NewBegins(v, t) ==
  /\ state[v] = "run" /\ owner[t] = None
  /\ count < Limit
  /\ Becomes(v, "new", t)
  /\ owner' = [owner EXCEPT ![t] = v]
  /\ UNCHANGED <<slot, os, joined, spent, reachable, told, count>>

\* The compare-and-swap takes a slot, or finds that another VM took the last one:
\* then the Thread is counted as well, for free_thread to uncount it.
diamond_reserve_thread_slot_unchecked(t) ==
  slot' = [slot EXCEPT ![t] = "reserved"]
diamond_reserve_thread_slot(t) ==
  slot' = [slot EXCEPT ![t] = IF count < Limit THEN "reserved" ELSE "surplus"]

NewReserves(v) ==
  /\ state[v] = "new" /\ slot[with[v]] = "no"
  /\ diamond_reserve_thread_slot(with[v])
  /\ count' = count + 1
  /\ UNCHANGED <<owner, state, with, os, joined, spent, reachable, told>>

\* Without a slot, when an argument cannot be copied and when no thread can be
\* created, Thread.new frees what it has made and raises.
NewFails(v) ==
  /\ state[v] = "new" /\ slot[with[v]] # "no"
  /\ LET t == with[v] IN
     /\ state' = [state EXCEPT ![v] = "sweep", ![t] = "end"]
     /\ UNCHANGED <<owner, slot, with, os, joined, spent, reachable, told, count>>

\* The thread starts.  If its handle cannot be allocated, free_thread waits for it.
NewStarts(v, allocated) ==
  /\ state[v] = "new" /\ slot[with[v]] = "reserved"
  /\ LET t == with[v] IN
     /\ os' = [os EXCEPT ![t] = "running"]
     /\ reachable' = [reachable EXCEPT ![t] = allocated]
     /\ state' = [state EXCEPT ![v] = IF allocated THEN "run" ELSE "sweep", ![t] = "run"]
     /\ with' = [with EXCEPT ![v] = IF allocated THEN None ELSE t]
  /\ UNCHANGED <<owner, slot, joined, spent, told, count>>

\* The Thread's function returns, raises, or is interrupted.
ThreadEnds(t) ==
  /\ state[t] = "run" /\ os[t] = "running"
  /\ state' = [state EXCEPT ![t] = "end"]
  /\ os' = [os EXCEPT ![t] = "ended"]
  /\ UNCHANGED <<owner, slot, with, joined, spent, reachable, told, count>>

-----------------------------------------------------------------------------
(***************************************************************************)
(* Thread#join.                                                            *)
(***************************************************************************)

\* A second join of the same thread is undefined behaviour.
Joined(how) == IF how = "ended" THEN "joined" ELSE "joined twice"
pthread_join(t) == os' = [os EXCEPT ![t] = Joined(@)]

JoinBegins(v, t) ==
  /\ state[v] = "run" /\ owner[t] = v /\ reachable[t] /\ ~joined[t]
  /\ Becomes(v, "join", t)
  /\ UNCHANGED <<owner, slot, os, joined, spent, reachable, told, count>>

\* The result is copied into the joining VM.  A failed copy still counts as joined.
JoinReturnsUnmarked(v) ==
  /\ state[v] = "join" /\ os[with[v]] # "running"
  /\ pthread_join(with[v])
  /\ Becomes(v, "run", None)
  /\ UNCHANGED <<owner, slot, joined, spent, reachable, told, count>>
JoinReturns(v) ==
  /\ state[v] = "join" /\ os[with[v]] # "running"
  /\ pthread_join(with[v])
  /\ joined' = [joined EXCEPT ![with[v]] = TRUE]
  /\ Becomes(v, "run", None)
  /\ UNCHANGED <<owner, slot, spent, reachable, told, count>>

\* The write barrier for the result runs out of memory.  The Thread has been
\* joined, but that is not recorded; the VM ends, as a program cannot rescue this ...
JoinRunsOutOfMemory(v) ==
  /\ state[v] = "join" /\ os[with[v]] # "running"
  /\ os' = [t \in Threads |-> CASE t = with[v] -> Joined(os[t])
                               [] t = v -> "ended"
                               [] OTHER -> os[t]]
  /\ spent' = [spent EXCEPT ![with[v]] = TRUE]
  /\ Becomes(v, "end", None)
  /\ UNCHANGED <<owner, slot, joined, reachable, told, count>>

\* ... unless it has been over a memory limit before: every such failure is then a
\* ResourceLimitError.
JoinFailureRescued(v) ==
  /\ state[v] = "join" /\ os[with[v]] # "running"
  /\ pthread_join(with[v])
  /\ spent' = [spent EXCEPT ![with[v]] = TRUE]
  /\ Becomes(v, "run", None)
  /\ UNCHANGED <<owner, slot, joined, reachable, told, count>>

\* An interrupted join leaves the Thread unjoined; the VM ends.
JoinInterrupted(v) ==
  /\ state[v] = "join" /\ told[v] /\ os[with[v]] = "running"
  /\ Becomes(v, "end", None)
  /\ os' = IF v = Root THEN os ELSE [os EXCEPT ![v] = "ended"]
  /\ UNCHANGED <<owner, slot, joined, spent, reachable, told, count>>

-----------------------------------------------------------------------------
(***************************************************************************)
(* The end of a Thread: free_thread, called by the collector and when the  *)
(* owner is freed.                                                         *)
(***************************************************************************)

\* The program drops its last reference to a handle.
Drop(t) ==
  /\ reachable[t] /\ state[owner[t]] = "run"
  /\ reachable' = [reachable EXCEPT ![t] = FALSE]
  /\ UNCHANGED <<owner, slot, state, with, os, joined, spent, told, count>>

Sweep(v, t) ==
  /\ state[v] = "run" /\ owner[t] = v /\ ~reachable[t]
  /\ Becomes(v, "sweep", t)
  /\ UNCHANGED <<owner, slot, os, joined, spent, reachable, told, count>>

\* diamond_vm_free reaches the handle of a Thread.  An interrupted VM stops a
\* Thread that has not been joined.
thread_interrupt(t) == told' = [told EXCEPT ![t] = @ \/ (os[t] # "none" /\ ~joined[t])]

FreeNext(v, t) ==
  /\ state[v] = "free" /\ owner[t] = v
  /\ Becomes(v, "wait", t)
  /\ IF told[v] THEN thread_interrupt(t) ELSE UNCHANGED told
  /\ UNCHANGED <<owner, slot, os, joined, spent, reachable, count>>

\* free_thread joins a Thread that was started and not joined, then frees its VM.
FreeJoins(v) ==
  /\ state[v] \in {"sweep", "wait"} /\ state[with[v]] = "end"
  /\ LET t == with[v] IN
     /\ IF os[t] # "none" /\ ~joined[t]
        THEN os[t] # "running" /\ pthread_join(t) /\ joined' = [joined EXCEPT ![t] = TRUE]
        ELSE UNCHANGED <<os, joined>>
     /\ state' = [state EXCEPT ![t] = "free"]
     /\ UNCHANGED <<owner, slot, with, spent, reachable, told, count>>

\* Its VM has no Threads left.
FreeReturns(v) ==
  /\ state[v] \in {"sweep", "wait"} /\ state[with[v]] = "free"
  /\ \A u \in Threads : owner[u] # with[v]
  /\ LET t == with[v] IN
     /\ owner' = [owner EXCEPT ![t] = None]
     /\ slot' = [slot EXCEPT ![t] = "no"]
     /\ os' = [os EXCEPT ![t] = "none"]
     /\ joined' = [joined EXCEPT ![t] = FALSE]
     /\ spent' = [spent EXCEPT ![t] = FALSE]
     /\ reachable' = [reachable EXCEPT ![t] = FALSE]
     /\ told' = [told EXCEPT ![t] = FALSE]
     /\ state' = [state EXCEPT ![t] = "none", ![v] = IF @ = "sweep" THEN "run" ELSE "free"]
     /\ with' = [with EXCEPT ![v] = None]
     /\ count' = count - 1

-----------------------------------------------------------------------------
(***************************************************************************)
(* The attempt that the root runs.                                         *)
(***************************************************************************)

Interrupt ==
  /\ state[Root] # "none" /\ ~told[Root]
  /\ told' = [told EXCEPT ![Root] = TRUE]
  /\ UNCHANGED <<owner, slot, state, with, os, joined, spent, reachable, count>>

\* Its function returns or fails, and the VM is freed.
RootEnds ==
  /\ state[Root] \in {"run", "end"}
  /\ state' = [state EXCEPT ![Root] = "free"]
  /\ UNCHANGED <<owner, slot, with, os, joined, spent, reachable, told, count>>

RootStartsAgain ==
  /\ state[Root] = "free" /\ \A t \in Threads : owner[t] # Root
  /\ state' = [state EXCEPT ![Root] = "run"]
  /\ told' = [told EXCEPT ![Root] = FALSE]
  /\ UNCHANGED <<owner, slot, with, os, joined, spent, reachable, count>>

-----------------------------------------------------------------------------
ThreadsNext ==
  \/ \E v \in Machines :
       \/ \E t \in Threads : NewBegins(v, t) \/ JoinBegins(v, t) \/ Sweep(v, t) \/ FreeNext(v, t)
       \/ NewReserves(v) \/ NewFails(v) \/ \E allocated \in BOOLEAN : NewStarts(v, allocated)
       \/ JoinReturns(v) \/ JoinRunsOutOfMemory(v) \/ JoinFailureRescued(v) \/ JoinInterrupted(v)
       \/ FreeJoins(v) \/ FreeReturns(v)
  \/ \E t \in Threads : ThreadEnds(t) \/ Drop(t)
  \/ Interrupt \/ RootEnds \/ RootStartsAgain

ThreadsSpec == ThreadsInit /\ [][ThreadsNext]_threadvars

-----------------------------------------------------------------------------
(***************************************************************************)
(* Properties.                                                             *)
(***************************************************************************)

Counted(how) == {t \in Threads : slot[t] = how}
\* No more Threads are alive than the limit allows, however many VMs create them
\* at the same moment, and the count is exact on every path by which Thread.new
\* fails and a Thread ends: it neither leaks a slot nor falls below zero.
ThreadsWithinLimit ==
  /\ Cardinality(Counted("reserved")) <= Limit
  /\ count = Cardinality(Counted("reserved")) + Cardinality(Counted("surplus"))
  /\ \A t \in Threads : os[t] # "none" => slot[t] = "reserved"

\* The operating-system thread of a Thread is joined once, whether by Thread#join, by
\* the collector or by its owner's end, and before its VM is freed: no VM is freed
\* under a running Thread.  The exception is a Thread whose join ran out of memory
\* after pthread_join: joined is still false then, and a later join or free_thread
\* joins it again.
ThreadJoinedOnce ==
  \A t \in Threads :
    /\ state[t] \in {"free", "wait"} => os[t] # "running" /\ os[t] # "ended"
    /\ ~spent[t] => os[t] # "joined twice" /\ (joined[t] <=> os[t] = "joined")

=============================================================================
