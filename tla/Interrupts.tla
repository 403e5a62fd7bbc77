----------------------------- MODULE Interrupts -----------------------------
(***************************************************************************)
(* How a supervised VM is stopped while it is inside a library call:       *)
(*                                                                         *)
(*  - a database call registers what another thread can cancel it by, and  *)
(*    the interrupting thread sets the VM's flag and then looks for a      *)
(*    registration, both under the VM's lock;                              *)
(*  - MySQL.open and a host-name lookup run on a helper thread with a job  *)
(*    they share with the VM, which abandons the job when interrupted.     *)
(*                                                                         *)
(* The interrupting thread is Supervisor#stop, a crashing sibling or the   *)
(* teardown of the VM that started this one as a Thread; it interrupts an  *)
(* attempt once.                                                           *)
(***************************************************************************)
EXTENDS Integers, FiniteSets

CONSTANTS
  Supervised,            \* supervised VMs
  Jobs,           \* room for jobs
  ResolverLimit,  \* DIAMOND_RESOLVER_LIMIT
  NoJob

ASSUME SupervisedAssumption == IsFiniteSet(Supervised)
ASSUME JobsAssumption == IsFiniteSet(Jobs) /\ NoJob \notin Jobs
ASSUME ResolverAssumption == ResolverLimit \in Nat

VARIABLES
  pc,          \* where the VM is
  flag,        \* *vm->interrupt_flag
  kind,        \* the database of its current call
  registered,  \* vm->blocking_call_handle is set
  usable,      \* what it points to has not been freed
  cut,         \* the call was cancelled
  other,       \* what the interrupting thread has done to the VM
  seen,        \* it found a registration
  job,         \* the job that the VM waits for
  what,        \* what each job is
  refs,        \* a resolver job's references
  done,        \* a job's done: 0, 1 finished, 2 (connect only) abandoned
  helper,      \* the helper thread of a job
  active       \* diamond_active_resolvers

stopvars == <<pc, flag, kind, registered, usable, cut, other, seen, job, what, refs, done,
              helper, active>>
callVars == <<kind, registered, usable, cut>>
interruptVars == <<flag, other, seen>>
helperVars == <<job, what, refs, done, helper, active>>

Databases == {"sqlite", "postgres", "mysql"}

InterruptsTypeOK ==
  /\ pc \in [Supervised ->
             {"run", "begun", "inside", "returned", "ended", "alone", "connect", "lookup",
              "stopped"}]
  /\ flag \in [Supervised -> BOOLEAN]
  /\ kind \in [Supervised -> Databases \cup {"none"}]
  /\ registered \in [Supervised -> BOOLEAN] /\ usable \in [Supervised -> BOOLEAN]
  /\ cut \in [Supervised -> BOOLEAN]
  /\ other \in [Supervised -> {"away", "flagged", "locked", "over"}]
  /\ seen \in [Supervised -> BOOLEAN]
  /\ job \in [Supervised -> Jobs \cup {NoJob}]
  /\ what \in [Jobs -> {"free", "resolver", "connect"}]
  /\ refs \in [Jobs -> 0..2] /\ done \in [Jobs -> 0..2]
  /\ helper \in [Jobs -> {"none", "starting", "running", "finished", "leaving"}]
  /\ active \in 0..ResolverLimit

InterruptsInit ==
  /\ pc = [v \in Supervised |-> "run"]
  /\ flag = [v \in Supervised |-> FALSE]
  /\ kind = [v \in Supervised |-> "none"]
  /\ registered = [v \in Supervised |-> FALSE]
  /\ usable = [v \in Supervised |-> FALSE]
  /\ cut = [v \in Supervised |-> FALSE]
  /\ other = [v \in Supervised |-> "away"]
  /\ seen = [v \in Supervised |-> FALSE]
  /\ job = [v \in Supervised |-> NoJob]
  /\ what = [j \in Jobs |-> "free"]
  /\ refs = [j \in Jobs |-> 0]
  /\ done = [j \in Jobs |-> 0]
  /\ helper = [j \in Jobs |-> "none"]
  /\ active = 0

MoveTo(v, place) == pc' = [pc EXCEPT ![v] = place]

\* vm->blocking_call_lock: the VM's own sections are single steps.
LockFree(v) == other[v] # "locked"

\* The check that run_chunk makes before an instruction.
StopAtInstruction(v) ==
  /\ pc[v] = "run" /\ flag[v]
  /\ MoveTo(v, "stopped")
  /\ UNCHANGED <<callVars, interruptVars, helperVars>>

\* The supervisor starts the next attempt with a flag that is clear.
StartAgain(v) ==
  /\ pc[v] = "stopped" /\ other[v] = "over"
  /\ MoveTo(v, "run")
  /\ flag' = [flag EXCEPT ![v] = FALSE]
  /\ other' = [other EXCEPT ![v] = "away"]
  /\ seen' = [seen EXCEPT ![v] = FALSE]
  /\ UNCHANGED <<callVars, helperVars>>

-----------------------------------------------------------------------------
(***************************************************************************)
(* Database calls.                                                         *)
(***************************************************************************)

Register(v, k) ==
  /\ kind' = [kind EXCEPT ![v] = k]
  /\ registered' = [registered EXCEPT ![v] = TRUE]
  /\ usable' = [usable EXCEPT ![v] = TRUE]
  /\ UNCHANGED cut

vm_blocking_call_begin_unchecked(v, k) ==
  /\ LockFree(v)
  /\ MoveTo(v, "begun") /\ Register(v, k)
vm_blocking_call_begin(v, k) ==
  /\ LockFree(v)
  /\ IF flag[v] THEN MoveTo(v, "stopped") /\ UNCHANGED callVars
     ELSE MoveTo(v, "begun") /\ Register(v, k)

Begin(v, k) ==
  /\ pc[v] = "run"
  /\ vm_blocking_call_begin(v, k)
  /\ UNCHANGED <<interruptVars, helperVars>>

\* sqlite3_step, PQexecParams or mysql_stmt_execute starts, and returns.  One
\* registration may cover several.
CallStarts(v) ==
  /\ pc[v] = "begun"
  /\ MoveTo(v, "inside")
  /\ UNCHANGED <<callVars, interruptVars, helperVars>>

CallReturns(v) ==
  /\ pc[v] = "inside"
  /\ MoveTo(v, "returned")
  /\ UNCHANGED <<callVars, interruptVars, helperVars>>

vm_blocking_call_end(v) ==
  /\ LockFree(v)
  /\ registered' = [registered EXCEPT ![v] = FALSE]
  /\ kind' = [kind EXCEPT ![v] = "none"]

End(v) ==
  /\ pc[v] = "returned"
  /\ vm_blocking_call_end(v)
  /\ MoveTo(v, "ended")
  /\ UNCHANGED <<usable, cut, interruptVars, helperVars>>

\* PQfreeCancel, or the program closes the database or the connection.
CallOver(v) ==
  /\ pc[v] = "ended"
  /\ usable' = [usable EXCEPT ![v] = FALSE]
  /\ cut' = [cut EXCEPT ![v] = FALSE]
  /\ MoveTo(v, IF cut[v] /\ flag[v] THEN "stopped" ELSE "run")
  /\ UNCHANGED <<kind, registered, interruptVars, helperVars>>

\* Without a cancel object a PostgreSQL query is not registered: it runs to its end.
RunsUnregistered(v) ==
  /\ pc[v] = "run"
  /\ MoveTo(v, "alone")
  /\ UNCHANGED <<callVars, interruptVars, helperVars>>

UnregisteredReturns(v, place) ==
  /\ pc[v] = "alone"
  /\ place = "stopped" => flag[v]
  /\ MoveTo(v, place)
  /\ UNCHANGED <<callVars, interruptVars, helperVars>>

\* supervisor_interrupt_child and thread_interrupt: the flag first ...
RaiseFlag(v) ==
  /\ other[v] = "away" /\ pc[v] # "stopped"
  /\ flag' = [flag EXCEPT ![v] = TRUE]
  /\ other' = [other EXCEPT ![v] = "flagged"]
  /\ UNCHANGED <<pc, callVars, seen, helperVars>>

\* ... then vm_blocking_call_interrupt takes the lock ...
LookForCall(v) ==
  /\ other[v] = "flagged"
  /\ other' = [other EXCEPT ![v] = IF registered[v] THEN "locked" ELSE "over"]
  /\ seen' = [seen EXCEPT ![v] = registered[v]]
  /\ UNCHANGED <<pc, flag, callVars, helperVars>>

\* ... and cancels under it.  sqlite3_interrupt and PQcancel act on a statement
\* that is running; the shutdown of a MySQL socket also ends a later one.
CancelCall(v) ==
  /\ other[v] = "locked"
  /\ other' = [other EXCEPT ![v] = "over"]
  /\ cut' = [cut EXCEPT ![v] = pc[v] = "inside" \/ (kind[v] = "mysql" /\ pc[v] = "begun")]
  /\ UNCHANGED <<pc, flag, kind, registered, usable, seen, helperVars>>

-----------------------------------------------------------------------------
(***************************************************************************)
(* MySQL.open.  If the helper thread cannot be created the job is freed    *)
(* and nothing changes.                                                    *)
(***************************************************************************)

outlined_mysql_open(v, j) ==
  /\ pc[v] = "run" /\ what[j] = "free" /\ helper[j] = "none"
  /\ MoveTo(v, "connect")
  /\ job' = [job EXCEPT ![v] = j]
  /\ what' = [what EXCEPT ![j] = "connect"]
  /\ done' = [done EXCEPT ![j] = 0]
  /\ helper' = [helper EXCEPT ![j] = "running"]
  /\ UNCHANGED <<refs, active, callVars, interruptVars>>

\* The helper has connected, or failed to.  It frees the job if it was abandoned.
mysql_connect_thread_frees(j) ==
  /\ what' = [what EXCEPT ![j] = "free"]
  /\ done' = [done EXCEPT ![j] = 1]
mysql_connect_thread(j) ==
  IF done[j] = 0
  THEN done' = [done EXCEPT ![j] = 1] /\ UNCHANGED what
  ELSE what' = [what EXCEPT ![j] = "free"] /\ UNCHANGED done

ConnectFinishes(j) ==
  /\ what[j] = "connect" /\ helper[j] = "running"
  /\ mysql_connect_thread(j)
  /\ helper' = [helper EXCEPT ![j] = "none"]
  /\ UNCHANGED <<pc, job, refs, active, callVars, interruptVars>>

\* The VM sees the result, joins the helper and frees the job.
ConnectCollected(v) ==
  /\ pc[v] = "connect" /\ done[job[v]] = 1
  /\ MoveTo(v, "run")
  /\ what' = [what EXCEPT ![job[v]] = "free"]
  /\ job' = [job EXCEPT ![v] = NoJob]
  /\ UNCHANGED <<refs, done, helper, active, callVars, interruptVars>>

\* It sees the flag first and wins the exchange.
ConnectAbandoned(v) ==
  /\ pc[v] = "connect" /\ flag[v] /\ done[job[v]] = 0
  /\ MoveTo(v, "stopped")
  /\ done' = [done EXCEPT ![job[v]] = 2]
  /\ job' = [job EXCEPT ![v] = NoJob]
  /\ UNCHANGED <<what, refs, helper, active, callVars, interruptVars>>

-----------------------------------------------------------------------------
(***************************************************************************)
(* Host-name lookups: DNS.resolve, and resolve_interruptible for a connect.*)
(* Without a free slot the first raises IOError, the second resolves on    *)
(* the VM's own thread; so they do when the helper cannot be created.      *)
(***************************************************************************)

LookupStarts(v, j) ==
  /\ pc[v] = "run" /\ what[j] = "free" /\ helper[j] = "none"
  /\ active < ResolverLimit
  /\ MoveTo(v, "lookup")
  /\ active' = active + 1
  /\ job' = [job EXCEPT ![v] = j]
  /\ what' = [what EXCEPT ![j] = "resolver"]
  /\ refs' = [refs EXCEPT ![j] = 1]
  /\ done' = [done EXCEPT ![j] = 0]
  /\ helper' = [helper EXCEPT ![j] = "starting"]
  /\ UNCHANGED <<callVars, interruptVars>>

\* The last reference frees the job, its pipe and the addresses left in it.
resolver_release(j) ==
  /\ refs' = [refs EXCEPT ![j] = @ - 1]
  /\ what' = [what EXCEPT ![j] = IF refs[j] = 1 THEN "free" ELSE @]

HelperStarts(v) ==
  /\ pc[v] = "lookup" /\ helper[job[v]] = "starting"
  /\ helper' = [helper EXCEPT ![job[v]] = "running"]
  /\ refs' = [refs EXCEPT ![job[v]] = 2]
  /\ UNCHANGED <<pc, job, what, done, active, callVars, interruptVars>>

\* The job, its pipe or the helper could not be created: the slot is given back.
HelperNotStarted(v) ==
  /\ pc[v] = "lookup" /\ helper[job[v]] = "starting"
  /\ MoveTo(v, "run")
  /\ resolver_release(job[v])
  /\ helper' = [helper EXCEPT ![job[v]] = "none"]
  /\ active' = active - 1
  /\ job' = [job EXCEPT ![v] = NoJob]
  /\ UNCHANGED <<done, callVars, interruptVars>>

\* resolver_worker has the addresses and sets done; it writes to the pipe and
\* releases the job; it gives the slot back.
ResolverFinishes(j) ==
  /\ what[j] = "resolver" /\ helper[j] = "running"
  /\ done' = [done EXCEPT ![j] = 1]
  /\ helper' = [helper EXCEPT ![j] = "finished"]
  /\ UNCHANGED <<pc, job, what, refs, active, callVars, interruptVars>>

ResolverReleases(j) ==
  /\ helper[j] = "finished"
  /\ resolver_release(j)
  /\ helper' = [helper EXCEPT ![j] = "leaving"]
  /\ UNCHANGED <<pc, job, done, active, callVars, interruptVars>>

ResolverLeaves(j) ==
  /\ helper[j] = "leaving"
  /\ helper' = [helper EXCEPT ![j] = "none"]
  /\ active' = active - 1
  /\ UNCHANGED <<pc, job, what, refs, done, callVars, interruptVars>>

\* The VM leaves the lookup with the addresses, or without them: interrupted,
\* cancelled through a Channel, past its deadline, or by an error of a handler.
LookupLeft(v, place) ==
  /\ pc[v] = "lookup" /\ helper[job[v]] # "starting"
  /\ place = "stopped" => flag[v]
  /\ MoveTo(v, place)
  /\ resolver_release(job[v])
  /\ job' = [job EXCEPT ![v] = NoJob]
  /\ UNCHANGED <<done, helper, active, callVars, interruptVars>>

-----------------------------------------------------------------------------
InterruptsNext ==
  \/ \E v \in Supervised :
       \/ StopAtInstruction(v) \/ StartAgain(v)
       \/ \E k \in Databases : Begin(v, k)
       \/ CallStarts(v) \/ CallReturns(v) \/ End(v) \/ CallOver(v) \/ RunsUnregistered(v)
       \/ RaiseFlag(v) \/ LookForCall(v) \/ CancelCall(v)
       \/ \E j \in Jobs : outlined_mysql_open(v, j) \/ LookupStarts(v, j)
       \/ ConnectCollected(v) \/ ConnectAbandoned(v) \/ HelperStarts(v) \/ HelperNotStarted(v)
       \/ \E place \in {"run", "stopped"} : LookupLeft(v, place) \/ UnregisteredReturns(v, place)
  \/ \E j \in Jobs :
       \/ ConnectFinishes(j)
       \/ ResolverFinishes(j) \/ ResolverReleases(j) \/ ResolverLeaves(j)

InterruptsSpec == InterruptsInit /\ [][InterruptsNext]_stopvars

-----------------------------------------------------------------------------
(***************************************************************************)
(* Properties.                                                             *)
(***************************************************************************)

\* Either the VM sees the flag or the interrupting thread sees the call, and what
\* it then cancels the call by has not been freed: once the interruption is over,
\* the VM is in no database call that the interruption has missed.  (A query that
\* could not be registered is "alone", and is not one of these.)
InterruptMeetsCall ==
  \A v \in Supervised :
    /\ other[v] = "over" /\ pc[v] \in {"begun", "inside"} => seen[v]
    /\ other[v] = "locked" => usable[v] /\ registered[v]

Waiters(j) == {v \in Supervised : job[v] = j}
\* A job that a VM or a helper thread may still use is not freed, a job that
\* nobody can free is not left behind, and the resolver slots in use are those of
\* the helper threads that still run.
JobsAreHeld ==
  /\ \A j \in Jobs :
       LET users == Cardinality(Waiters(j)) + IF helper[j] \in {"running", "finished"} THEN 1 ELSE 0
       IN /\ what[j] = "free" <=> users = 0
          /\ what[j] = "resolver" => refs[j] = users
  /\ active = Cardinality({j \in Jobs : helper[j] = "leaving" \/
                             (what[j] = "resolver" /\ helper[j] # "none")})
  /\ active <= ResolverLimit

=============================================================================
