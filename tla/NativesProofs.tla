--------------------------- MODULE NativesProofs ----------------------------
(***************************************************************************)
(* Proofs about the interruption of library calls and the jobs of their    *)
(* helper threads (Interrupts), and about Threads (Threads): for any       *)
(* number of VMs, jobs and Threads and any limits.                         *)
(*                                                                         *)
(* The two invariants are about single VMs, jobs and Threads, so the steps *)
(* are dealt with one actor at a time; only the counters, in the last part,*)
(* need the cardinality of a set.                                          *)
(***************************************************************************)
EXTENDS Interrupts, Threads, TLAPS

-----------------------------------------------------------------------------
(***************************************************************************)
(* An interruption and a database call.                                    *)
(***************************************************************************)

Places == {"run", "begun", "inside", "returned", "ended", "alone", "connect", "lookup", "stopped"}
Progress == {"away", "flagged", "locked", "over"}

StopType ==
  /\ pc \in [Supervised -> Places]
  /\ flag \in [Supervised -> BOOLEAN]
  /\ registered \in [Supervised -> BOOLEAN]
  /\ usable \in [Supervised -> BOOLEAN]
  /\ other \in [Supervised -> Progress]
  /\ seen \in [Supervised -> BOOLEAN]

\* A call is registered from its begin to its end and what it is registered by is
\* usable meanwhile; the flag is up from the start of an interruption to the next
\* attempt; a registration that was seen is still there while the lock is held.
CallInv(v) ==
  /\ registered[v] <=> pc[v] \in {"begun", "inside", "returned"}
  /\ registered[v] => usable[v]
  /\ flag[v] <=> other[v] # "away"
  /\ other[v] = "locked" => registered[v] /\ seen[v]
  /\ other[v] = "over" /\ pc[v] \in {"begun", "inside"} => seen[v]

\* What the invariant says of a VM depends on nothing but that VM.
LEMMA CallFrame ==
  ASSUME NEW v \in Supervised, CallInv(v),
         registered'[v] = registered[v], usable'[v] = usable[v], flag'[v] = flag[v],
         other'[v] = other[v], seen'[v] = seen[v],
         pc'[v] \in {"begun", "inside", "returned"} <=> pc[v] \in {"begun", "inside", "returned"},
         pc'[v] \in {"begun", "inside"} => pc[v] \in {"begun", "inside"}
  PROVE  CallInv(v)'
  BY Zenon DEF CallInv

\* A step that moves a VM, and touches neither a registration nor an interruption.
LEMMA CallMoves ==
  ASSUME StopType, \A u \in Supervised : CallInv(u), NEW v \in Supervised, NEW place,
         MoveTo(v, place), UNCHANGED <<callVars, interruptVars>>,
         place \in {"begun", "inside", "returned"} <=> pc[v] \in {"begun", "inside", "returned"},
         place \in {"begun", "inside"} => pc[v] \in {"begun", "inside"}
  PROVE  \A u \in Supervised : CallInv(u)'
<1> SUFFICES ASSUME NEW u \in Supervised PROVE CallInv(u)'
  OBVIOUS
<1>1 pc' = [pc EXCEPT ![v] = place] /\ pc \in [Supervised -> Places]
  BY Zenon DEF MoveTo, StopType
<1>2 CASE u = v BY <1>1, <1>2, CallFrame, Zenon DEF callVars, interruptVars
<1>3 CASE u # v BY <1>1, <1>3, CallFrame, Zenon DEF callVars, interruptVars
<1> QED BY <1>2, <1>3, Zenon

\* The steps of a database call.
LEMMA CallSteps ==
  ASSUME StopType, \A u \in Supervised : CallInv(u), NEW v \in Supervised,
         \/ \E k \in Databases : Begin(v, k)
         \/ CallStarts(v) \/ CallReturns(v) \/ End(v) \/ CallOver(v)
  PROVE  \A u \in Supervised : CallInv(u)'
<1>t /\ pc \in [Supervised -> Places] /\ registered \in [Supervised -> BOOLEAN]
     /\ usable \in [Supervised -> BOOLEAN]
  BY Zenon DEF StopType
<1>1 ASSUME NEW k \in Databases, Begin(v, k) PROVE \A u \in Supervised : CallInv(u)'
  <2>1 CASE flag[v]
    BY <1>1, <2>1, CallMoves, Zenon DEF Begin, vm_blocking_call_begin
  <2>2 CASE ~flag[v]
    <3>1 /\ pc' = [pc EXCEPT ![v] = "begun"]
         /\ registered' = [registered EXCEPT ![v] = TRUE]
         /\ usable' = [usable EXCEPT ![v] = TRUE]
         /\ UNCHANGED <<flag, other, seen>>
      BY <1>1, <2>2, Zenon DEF Begin, vm_blocking_call_begin, Register, MoveTo, interruptVars
    <3>2 CallInv(v)' BY <1>t, <2>2, <3>1 DEF CallInv
    <3>3 ASSUME NEW u \in Supervised, u # v PROVE CallInv(u)'
      BY <1>t, <3>1, <3>3, CallFrame, Zenon
    <3> QED BY <3>2, <3>3, Zenon
  <2> QED BY <2>1, <2>2, Zenon
<1>2 CASE CallStarts(v)
  BY <1>2, CallMoves, Zenon DEF CallStarts
<1>3 CASE CallReturns(v)
  BY <1>3, CallMoves, Zenon DEF CallReturns
<1>4 CASE End(v)
  <2>1 /\ pc' = [pc EXCEPT ![v] = "ended"] /\ other[v] # "locked"
       /\ registered' = [registered EXCEPT ![v] = FALSE]
       /\ UNCHANGED <<usable, flag, other, seen>>
    BY <1>4, Zenon DEF End, vm_blocking_call_end, MoveTo, LockFree, interruptVars
  <2>2 CallInv(v)' BY <1>t, <2>1 DEF CallInv
  <2>3 ASSUME NEW u \in Supervised, u # v PROVE CallInv(u)'
    BY <1>t, <2>1, <2>3, CallFrame, Zenon
  <2> QED BY <2>2, <2>3, Zenon
<1>5 CASE CallOver(v)
  <2>1 /\ pc[v] = "ended" /\ usable' = [usable EXCEPT ![v] = FALSE]
       /\ pc' = [pc EXCEPT ![v] = IF cut[v] /\ flag[v] THEN "stopped" ELSE "run"]
       /\ UNCHANGED <<registered, flag, other, seen>>
    BY <1>5, Zenon DEF CallOver, MoveTo, interruptVars
  <2>2 pc'[v] = "stopped" \/ pc'[v] = "run" BY <1>t, <2>1, Zenon
  <2>3 CallInv(v)' BY <1>t, <2>1, <2>2 DEF CallInv
  <2>4 ASSUME NEW u \in Supervised, u # v PROVE CallInv(u)'
    BY <1>t, <2>1, <2>4, CallFrame, Zenon
  <2> QED BY <2>3, <2>4, Zenon
<1> QED BY <1>1, <1>2, <1>3, <1>4, <1>5, Zenon

\* The steps of the interrupting thread, and the next attempt.
LEMMA InterruptSteps ==
  ASSUME StopType, \A u \in Supervised : CallInv(u), NEW v \in Supervised,
         StartAgain(v) \/ RaiseFlag(v) \/ LookForCall(v) \/ CancelCall(v)
  PROVE  \A u \in Supervised : CallInv(u)'
<1>t /\ pc \in [Supervised -> Places] /\ flag \in [Supervised -> BOOLEAN]
     /\ other \in [Supervised -> Progress] /\ seen \in [Supervised -> BOOLEAN]
  BY Zenon DEF StopType
<1>1 CASE StartAgain(v)
  <2>1 /\ pc' = [pc EXCEPT ![v] = "run"] /\ flag' = [flag EXCEPT ![v] = FALSE]
       /\ other' = [other EXCEPT ![v] = "away"] /\ seen' = [seen EXCEPT ![v] = FALSE]
       /\ pc[v] = "stopped" /\ UNCHANGED <<registered, usable>>
    BY <1>1, Zenon DEF StartAgain, MoveTo, callVars
  <2>2 CallInv(v)' BY <1>t, <2>1 DEF CallInv
  <2>3 ASSUME NEW u \in Supervised, u # v PROVE CallInv(u)'
    BY <1>t, <2>1, <2>3, CallFrame, Zenon
  <2> QED BY <2>2, <2>3, Zenon
<1>2 CASE RaiseFlag(v)
  <2>1 /\ flag' = [flag EXCEPT ![v] = TRUE] /\ other' = [other EXCEPT ![v] = "flagged"]
       /\ UNCHANGED <<pc, registered, usable, seen>>
    BY <1>2, Zenon DEF RaiseFlag, callVars
  <2>2 CallInv(v)' BY <1>t, <2>1 DEF CallInv
  <2>3 ASSUME NEW u \in Supervised, u # v PROVE CallInv(u)'
    BY <1>t, <2>1, <2>3, CallFrame, Zenon
  <2> QED BY <2>2, <2>3, Zenon
<1>3 CASE LookForCall(v)
  <2>1 /\ other' = [other EXCEPT ![v] = IF registered[v] THEN "locked" ELSE "over"]
       /\ seen' = [seen EXCEPT ![v] = registered[v]]
       /\ other[v] = "flagged" /\ UNCHANGED <<pc, flag, registered, usable>>
    BY <1>3, Zenon DEF LookForCall, callVars
  <2>2 /\ seen'[v] = registered[v]
       /\ (registered[v] /\ other'[v] = "locked") \/ (~registered[v] /\ other'[v] = "over")
    BY <1>t, <2>1, Zenon
  <2>3 CallInv(v)' BY <2>1, <2>2 DEF CallInv
  <2>4 ASSUME NEW u \in Supervised, u # v PROVE CallInv(u)'
    BY <1>t, <2>1, <2>4, CallFrame, Zenon
  <2> QED BY <2>3, <2>4, Zenon
<1>4 CASE CancelCall(v)
  <2>1 /\ other' = [other EXCEPT ![v] = "over"] /\ other[v] = "locked"
       /\ UNCHANGED <<pc, flag, registered, usable, seen>>
    BY <1>4, Zenon DEF CancelCall
  <2>2 CallInv(v)' BY <1>t, <2>1 DEF CallInv
  <2>3 ASSUME NEW u \in Supervised, u # v PROVE CallInv(u)'
    BY <1>t, <2>1, <2>3, CallFrame, Zenon
  <2> QED BY <2>2, <2>3, Zenon
<1> QED BY <1>1, <1>2, <1>3, <1>4, Zenon

\* The steps of MySQL.open, of a lookup and of an unregistered query take a VM from one place outside a
\* database call to another.
LEMMA HelperMoves ==
  ASSUME StopType, \A u \in Supervised : CallInv(u), NEW v \in Supervised,
         \/ StopAtInstruction(v) \/ ConnectCollected(v) \/ ConnectAbandoned(v)
         \/ \E j \in Jobs : outlined_mysql_open(v, j) \/ LookupStarts(v, j)
         \/ HelperNotStarted(v) \/ RunsUnregistered(v)
         \/ \E place \in {"run", "stopped"} : LookupLeft(v, place) \/ UnregisteredReturns(v, place)
  PROVE  \A u \in Supervised : CallInv(u)'
<1>1 /\ UNCHANGED <<callVars, interruptVars>> /\ pc[v] \in {"run", "alone", "connect", "lookup"}
     /\ \E place \in {"run", "stopped", "alone", "connect", "lookup"} : MoveTo(v, place)
  BY Zenon DEF StopAtInstruction, ConnectCollected, ConnectAbandoned, outlined_mysql_open,
               LookupStarts, LookupLeft, HelperNotStarted, RunsUnregistered, UnregisteredReturns
<1>2 PICK place \in {"run", "stopped", "alone", "connect", "lookup"} : MoveTo(v, place)
  BY <1>1, Zenon
<1>3 /\ place \in {"begun", "inside", "returned"} <=> pc[v] \in {"begun", "inside", "returned"}
     /\ place \in {"begun", "inside"} => pc[v] \in {"begun", "inside"}
  BY <1>1, Zenon
<1> QED BY <1>1, <1>2, <1>3, CallMoves, Zenon

\* A step of a helper thread, or its start, leaves the VMs where they are.
LEMMA HelperElsewhere ==
  ASSUME \A u \in Supervised : CallInv(u), UNCHANGED <<pc, callVars, interruptVars>>
  PROVE  \A u \in Supervised : CallInv(u)'
  BY Zenon DEF CallInv, callVars, interruptVars

\* The types of what an interruption looks at.
LEMMA StopTypeStep == StopType /\ [InterruptsNext]_stopvars => StopType'
<1> SUFFICES ASSUME StopType, [InterruptsNext]_stopvars PROVE StopType'
  OBVIOUS
<1>0 ASSUME UNCHANGED <<flag, registered, usable, other, seen>>,
            \/ UNCHANGED pc
            \/ \E v \in Supervised, place \in Places : pc' = [pc EXCEPT ![v] = place]
     PROVE  StopType'
  BY <1>0, Zenon DEF StopType
<1>1 ASSUME NEW v \in Supervised,
            StopAtInstruction(v) \/ CallStarts(v) \/ CallReturns(v) \/ ConnectCollected(v)
              \/ ConnectAbandoned(v) \/ HelperStarts(v) \/ HelperNotStarted(v)
              \/ RunsUnregistered(v)
     PROVE  StopType'
  BY <1>0, <1>1, Zenon DEF StopAtInstruction, CallStarts, CallReturns, ConnectCollected,
                    ConnectAbandoned, HelperStarts, HelperNotStarted, RunsUnregistered,
                    MoveTo, callVars, interruptVars, Places
<1>2 ASSUME NEW v \in Supervised, NEW j \in Jobs, outlined_mysql_open(v, j) \/ LookupStarts(v, j)
     PROVE  StopType'
  BY <1>0, <1>2, Zenon DEF outlined_mysql_open, LookupStarts, MoveTo, callVars, interruptVars, Places
<1>3 ASSUME NEW v \in Supervised, NEW place \in {"run", "stopped"},
            LookupLeft(v, place) \/ UnregisteredReturns(v, place)
     PROVE  StopType'
  BY <1>0, <1>3, Zenon DEF LookupLeft, UnregisteredReturns, MoveTo, callVars, interruptVars, Places
<1>4 ASSUME NEW j \in Jobs, ConnectFinishes(j) \/ ResolverFinishes(j) \/ ResolverReleases(j)
                              \/ ResolverLeaves(j)
     PROVE  StopType'
  BY <1>0, <1>4, Zenon DEF ConnectFinishes, ResolverFinishes, ResolverReleases, ResolverLeaves,
                           callVars, interruptVars
<1>5 ASSUME NEW v \in Supervised, NEW k \in Databases, Begin(v, k) PROVE StopType'
  <2>1 "stopped" \in Places /\ "begun" \in Places BY DEF Places
  <2> QED BY <1>5, <2>1, Zenon DEF Begin, vm_blocking_call_begin, Register, MoveTo, callVars,
                                   interruptVars, StopType
<1>6 ASSUME NEW v \in Supervised, End(v) \/ CallOver(v) PROVE StopType'
  <2>1 "stopped" \in Places /\ "run" \in Places /\ "ended" \in Places BY DEF Places
  <2>2 (IF cut[v] /\ flag[v] THEN "stopped" ELSE "run") \in Places BY <2>1, Zenon
  <2>3 CASE End(v)
    BY <2>1, <2>3, Zenon DEF End, vm_blocking_call_end, MoveTo, interruptVars, StopType
  <2>4 CASE CallOver(v)
    BY <2>2, <2>4, Zenon DEF CallOver, MoveTo, interruptVars, StopType
  <2> QED BY <1>6, <2>3, <2>4, Zenon
<1>7 ASSUME NEW v \in Supervised, StartAgain(v) \/ RaiseFlag(v) PROVE StopType'
  <2>1 "run" \in Places /\ "away" \in Progress /\ "flagged" \in Progress BY DEF Places, Progress
  <2>2 CASE StartAgain(v)
    BY <2>1, <2>2, Zenon DEF StartAgain, MoveTo, callVars, StopType
  <2>3 CASE RaiseFlag(v)
    BY <2>1, <2>3, Zenon DEF RaiseFlag, callVars, StopType
  <2> QED BY <1>7, <2>2, <2>3, Zenon
<1>8 ASSUME NEW v \in Supervised, LookForCall(v) \/ CancelCall(v) PROVE StopType'
  <2>1 "locked" \in Progress /\ "over" \in Progress BY DEF Progress
  <2>2 (IF registered[v] THEN "locked" ELSE "over") \in Progress BY <2>1, Zenon
  <2>3 registered[v] \in BOOLEAN BY Zenon DEF StopType
  <2>4 CASE LookForCall(v)
    BY <2>2, <2>3, <2>4, Zenon DEF LookForCall, callVars, StopType
  <2>5 CASE CancelCall(v)
    BY <2>1, <2>5, Zenon DEF CancelCall, StopType
  <2> QED BY <1>8, <2>4, <2>5, Zenon
<1>9 CASE UNCHANGED stopvars BY <1>9, Zenon DEF stopvars, StopType
<1> QED BY <1>1, <1>2, <1>3, <1>4, <1>5, <1>6, <1>7, <1>8, <1>9, Zenon DEF InterruptsNext

\* Every step keeps the invariant of every VM.
LEMMA CallInvStep ==
  StopType /\ (\A u \in Supervised : CallInv(u)) /\ [InterruptsNext]_stopvars
    => \A u \in Supervised : CallInv(u)'
<1> SUFFICES ASSUME StopType, \A u \in Supervised : CallInv(u), [InterruptsNext]_stopvars
             PROVE  \A u \in Supervised : CallInv(u)'
  BY Zenon
<1>1 ASSUME NEW j \in Jobs, ConnectFinishes(j) \/ ResolverFinishes(j) \/ ResolverReleases(j)
                              \/ ResolverLeaves(j)
     PROVE  UNCHANGED <<pc, callVars, interruptVars>>
  BY <1>1, Zenon DEF ConnectFinishes, ResolverFinishes, ResolverReleases, ResolverLeaves
<1>2 CASE UNCHANGED stopvars
  BY <1>2, HelperElsewhere, Zenon DEF stopvars, callVars, interruptVars
<1>3 ASSUME NEW v \in Supervised, HelperStarts(v) PROVE UNCHANGED <<pc, callVars, interruptVars>>
  BY <1>3, Zenon DEF HelperStarts
<1> QED BY <1>1, <1>2, <1>3, HelperElsewhere, HelperMoves, CallSteps, InterruptSteps, Zenon
        DEF InterruptsNext

\* InterruptMeetsCall, for any number of VMs: whichever of the interrupting thread
\* and the VM takes the lock first, the other sees what it did.
THEOREM InterruptsMeetCalls == InterruptsSpec => []InterruptMeetsCall
<1> DEFINE I == StopType /\ \A u \in Supervised : CallInv(u)
<1>1 InterruptsInit => I
  BY DEF InterruptsInit, StopType, CallInv, Places, Progress
<1>2 I /\ [InterruptsNext]_stopvars => I'
  BY StopTypeStep, CallInvStep, Zenon
<1>3 I => InterruptMeetsCall
  BY Zenon DEF CallInv, InterruptMeetsCall
<1> QED BY <1>1, <1>2, <1>3, PTL DEF InterruptsSpec

-----------------------------------------------------------------------------
(***************************************************************************)
(* The jobs that a VM shares with a helper thread.                         *)
(***************************************************************************)

HelperType ==
  /\ pc \in [Supervised -> Places]
  /\ job \in [Supervised -> Jobs \cup {NoJob}]
  /\ what \in [Jobs -> {"free", "resolver", "connect"}]
  /\ refs \in [Jobs -> Int]
  /\ done \in [Jobs -> 0..2]
  /\ helper \in [Jobs -> {"none", "starting", "running", "finished", "leaving"}]
  /\ active \in Int

\* A VM has a job exactly while it waits for one, of the kind it waits for.
WaitInv(v) ==
  /\ job[v] = NoJob <=> pc[v] \notin {"connect", "lookup"}
  /\ pc[v] = "connect" => what[job[v]] = "connect"
  /\ pc[v] = "lookup" => what[job[v]] = "resolver"

Held(j) == \E v \in Supervised : Waiters(j) = {v}
Helped(j) == helper[j] \in {"running", "finished"}

\* Who has a job: at most one VM and its helper thread.  A connect job that the VM
\* has abandoned is the helper's; one that is finished is the VM's.
JobInv(j) ==
  /\ what[j] = "free" => Waiters(j) = {} /\ helper[j] \in {"none", "leaving"}
  /\ what[j] = "connect" =>
       \/ helper[j] = "running" /\ done[j] = 0 /\ Held(j)
       \/ helper[j] = "running" /\ done[j] = 2 /\ Waiters(j) = {}
       \/ helper[j] = "none" /\ done[j] = 1 /\ Held(j)
  /\ what[j] = "resolver" =>
       \/ Helped(j) /\ Held(j) /\ refs[j] = 2
       \/ Helped(j) /\ Waiters(j) = {} /\ refs[j] = 1
       \/ ~Helped(j) /\ Held(j) /\ refs[j] = 1

HeldInv == (\A v \in Supervised : WaitInv(v)) /\ \A j \in Jobs : JobInv(j)

\* The jobs that occupy a resolver slot.
Resolving == {j \in Jobs : helper[j] = "leaving" \/ (what[j] = "resolver" /\ helper[j] # "none")}

\* active moves with the set of those jobs and stays within the limit.
ResolvingMoves ==
  \/ active' = active /\ Resolving' = Resolving
  \/ \E j \in Jobs \ Resolving :
       active < ResolverLimit /\ active' = active + 1 /\ Resolving' = Resolving \cup {j}
  \/ \E j \in Resolving : active' = active - 1 /\ Resolving' = Resolving \ {j}

\* A VM takes a job that nobody waits for.
LEMMA WaiterComes ==
  ASSUME HelperType, NEW v \in Supervised, NEW j \in Jobs, job[v] = NoJob, Waiters(j) = {},
         job' = [job EXCEPT ![v] = j]
  PROVE  Waiters(j)' = {v} /\ \A k \in Jobs \ {j} : Waiters(k)' = Waiters(k)
  BY JobsAssumption DEF HelperType, Waiters

\* The one VM that waits for a job leaves it.
LEMMA WaiterGoes ==
  ASSUME HelperType, NEW v \in Supervised, NEW j \in Jobs, job[v] = j, Waiters(j) # {} => Held(j),
         job' = [job EXCEPT ![v] = NoJob]
  PROVE  /\ Waiters(j) = {v} /\ Waiters(j)' = {}
         /\ \A k \in Jobs \ {j} : Waiters(k)' = Waiters(k)
<1>1 Waiters(j) = {v} BY Zenon DEF Waiters, Held
<1> QED BY <1>1, JobsAssumption, Zenon DEF HelperType, Waiters

\* What the invariant says of a job depends on nothing but that job.
LEMMA JobFrame ==
  ASSUME NEW j \in Jobs, JobInv(j), what'[j] = what[j], refs'[j] = refs[j], done'[j] = done[j],
         helper'[j] = helper[j], Waiters(j)' = Waiters(j)
  PROVE  JobInv(j)'
<1>1 Held(j)' = Held(j) /\ Helped(j)' = Helped(j) BY Zenon DEF Held, Helped
<1> QED BY <1>1, Zenon DEF JobInv

\* What it says of a VM depends on that VM and its job.
LEMMA WaitFrame ==
  ASSUME NEW v \in Supervised, WaitInv(v), pc'[v] = pc[v], job'[v] = job[v],
         pc[v] \in {"connect", "lookup"} => what'[job[v]] = what[job[v]]
  PROVE  WaitInv(v)'
  BY Zenon DEF WaitInv

\* A job that a VM waits for is a job, and is held.
LEMMA WaitersJob ==
  ASSUME HelperType, HeldInv, NEW v \in Supervised, pc[v] \in {"connect", "lookup"}
  PROVE  job[v] \in Jobs /\ Waiters(job[v]) = {v} /\ what[job[v]] # "free"
<1>1 job[v] \in Jobs BY Zenon DEF HeldInv, WaitInv, HelperType
<1>2 what[job[v]] \in {"connect", "resolver"} BY DEF HeldInv, WaitInv
<1>3 v \in Waiters(job[v]) BY Zenon DEF Waiters
<1>4 Held(job[v]) BY <1>1, <1>2, <1>3, Zenon DEF HeldInv, JobInv
<1>5 Waiters(job[v]) = {v} BY <1>3, <1>4, Zenon DEF Held
<1> QED BY <1>1, <1>2, <1>5, Zenon

Kept == HelperType' /\ HeldInv' /\ ResolvingMoves

\* The jobs stay while a VM moves outside MySQL.open and lookups.
LEMMA QuietHelpers ==
  ASSUME HelperType, HeldInv, UNCHANGED helperVars,
         \/ UNCHANGED pc
         \/ \E v \in Supervised, place \in Places \ {"connect", "lookup"} :
              pc[v] \notin {"connect", "lookup"} /\ MoveTo(v, place)
  PROVE  Kept
<1>u UNCHANGED <<job, what, refs, done, helper, active>> BY Zenon DEF helperVars
<1>w \A j \in Jobs : Waiters(j)' = Waiters(j) BY <1>u, Zenon DEF Waiters
<1>1 HelperType' BY <1>u, Zenon DEF HelperType, MoveTo
<1>2 ASSUME NEW u \in Supervised PROVE WaitInv(u)'
  <2>1 pc'[u] = pc[u] \/ (pc[u] \notin {"connect", "lookup"} /\ pc'[u] \notin {"connect", "lookup"})
    BY Zenon DEF HelperType, MoveTo
  <2>2 CASE pc'[u] = pc[u] BY <1>u, <2>2, WaitFrame, Zenon DEF HeldInv
  <2>3 CASE pc[u] \notin {"connect", "lookup"} /\ pc'[u] \notin {"connect", "lookup"}
    BY <1>u, <2>3, Zenon DEF HeldInv, WaitInv
  <2> QED BY <2>1, <2>2, <2>3, Zenon
<1>3 ASSUME NEW j \in Jobs PROVE JobInv(j)'
  BY <1>u, <1>w, JobFrame, Zenon DEF HeldInv
<1>4 ResolvingMoves BY <1>u, Zenon DEF ResolvingMoves, Resolving
<1> QED BY <1>1, <1>2, <1>3, <1>4, Zenon DEF Kept, HeldInv

\* The VM's own steps outside them, and those of the interrupting thread.
LEMMA QuietSteps ==
  ASSUME HelperType, HeldInv, NEW v \in Supervised,
         \/ StopAtInstruction(v) \/ StartAgain(v) \/ \E k \in Databases : Begin(v, k)
         \/ CallStarts(v) \/ CallReturns(v) \/ End(v) \/ CallOver(v)
         \/ RaiseFlag(v) \/ LookForCall(v) \/ CancelCall(v) \/ RunsUnregistered(v)
         \/ \E place \in {"run", "stopped"} : UnregisteredReturns(v, place)
  PROVE  Kept
<1> DEFINE Away(p) == p \in Places \ {"connect", "lookup"}
<1>0 /\ Away("run") /\ Away("begun") /\ Away("inside") /\ Away("returned") /\ Away("ended")
     /\ Away("stopped") /\ Away("alone")
  BY Zenon DEF Places
<1>1 UNCHANGED helperVars
  BY Zenon DEF StopAtInstruction, StartAgain, Begin, CallStarts, CallReturns, End, CallOver,
               RaiseFlag, LookForCall, CancelCall, RunsUnregistered, UnregisteredReturns
<1>2 CASE \/ StopAtInstruction(v) \/ StartAgain(v) \/ CallStarts(v) \/ CallReturns(v) \/ End(v)
          \/ RunsUnregistered(v) \/ \E place \in {"run", "stopped"} : UnregisteredReturns(v, place)
  <2>1 /\ Away(pc[v])
       /\ MoveTo(v, "run") \/ MoveTo(v, "inside") \/ MoveTo(v, "returned") \/ MoveTo(v, "ended")
            \/ MoveTo(v, "stopped") \/ MoveTo(v, "alone")
    BY <1>0, <1>2, Zenon DEF StopAtInstruction, StartAgain, CallStarts, CallReturns, End,
                             RunsUnregistered, UnregisteredReturns
  <2> QED BY <1>0, <1>1, <2>1, QuietHelpers, Zenon
<1>3 ASSUME NEW k \in Databases, Begin(v, k) PROVE Kept
  <2>1 Away(pc[v]) /\ (MoveTo(v, "stopped") \/ MoveTo(v, "begun"))
    BY <1>0, <1>3, Zenon DEF Begin, vm_blocking_call_begin
  <2> QED BY <1>0, <1>1, <2>1, QuietHelpers, Zenon
<1>4 CASE CallOver(v)
  <2>1 Away(pc[v]) /\ MoveTo(v, IF cut[v] /\ flag[v] THEN "stopped" ELSE "run")
    BY <1>0, <1>4, Zenon DEF CallOver
  <2>2 Away(IF cut[v] /\ flag[v] THEN "stopped" ELSE "run") BY <1>0, Zenon
  <2> QED BY <1>1, <2>1, <2>2, QuietHelpers, Zenon
<1>5 CASE RaiseFlag(v) \/ LookForCall(v) \/ CancelCall(v)
  <2>1 UNCHANGED pc BY <1>5, Zenon DEF RaiseFlag, LookForCall, CancelCall
  <2> QED BY <1>1, <2>1, QuietHelpers, Zenon
<1> QED BY <1>2, <1>3, <1>4, <1>5, Zenon

\* MySQL.open and a lookup take a free job.
LEMMA JobStarts ==
  ASSUME HelperType, HeldInv, NEW v \in Supervised, NEW j \in Jobs,
         outlined_mysql_open(v, j) \/ LookupStarts(v, j)
  PROVE  Kept
<1>1 /\ pc[v] = "run" /\ what[j] = "free" /\ helper[j] = "none"
     /\ job' = [job EXCEPT ![v] = j] /\ done' = [done EXCEPT ![j] = 0]
  BY Zenon DEF outlined_mysql_open, LookupStarts
<1>2 \/ /\ pc' = [pc EXCEPT ![v] = "connect"] /\ what' = [what EXCEPT ![j] = "connect"]
        /\ helper' = [helper EXCEPT ![j] = "running"] /\ UNCHANGED <<refs, active>>
     \/ /\ pc' = [pc EXCEPT ![v] = "lookup"] /\ what' = [what EXCEPT ![j] = "resolver"]
        /\ helper' = [helper EXCEPT ![j] = "starting"]
        /\ refs' = [refs EXCEPT ![j] = 1] /\ active' = active + 1 /\ active < ResolverLimit
  BY Zenon DEF outlined_mysql_open, LookupStarts, MoveTo
<1>3 job[v] = NoJob /\ Waiters(j) = {}
  BY <1>1, Zenon DEF HeldInv, WaitInv, JobInv
<1>4 Waiters(j)' = {v} /\ \A k \in Jobs \ {j} : Waiters(k)' = Waiters(k)
  BY <1>1, <1>3, WaiterComes, Zenon
<1>5 HelperType'
  BY <1>1, <1>2 DEF HelperType, Places
<1>6 ASSUME NEW u \in Supervised PROVE WaitInv(u)'
  <2>1 CASE u = v
    BY <1>1, <1>2, <2>1, JobsAssumption, Zenon DEF HelperType, WaitInv
  <2>2 CASE u # v
    <3>1 pc'[u] = pc[u] /\ job'[u] = job[u] BY <1>1, <1>2, <2>2, Zenon DEF HelperType
    <3>2 pc[u] \in {"connect", "lookup"} => job[u] \in Jobs \ {j}
      BY <1>1, WaitersJob, Zenon
    <3>3 pc[u] \in {"connect", "lookup"} => what'[job[u]] = what[job[u]]
      BY <1>2, <3>2, Zenon DEF HelperType
    <3> QED BY <3>1, <3>3, WaitFrame, Zenon DEF HeldInv
  <2> QED BY <2>1, <2>2, Zenon
<1>7 JobInv(j)'
  <2>1 Held(j)' BY <1>4, Zenon DEF Held
  <2>2 \/ what'[j] = "connect" /\ helper'[j] = "running" /\ done'[j] = 0
       \/ what'[j] = "resolver" /\ helper'[j] = "starting" /\ refs'[j] = 1
    BY <1>1, <1>2, Zenon DEF HelperType
  <2>3 what'[j] = "resolver" /\ helper'[j] = "starting" => what'[j] # "free" /\ ~Helped(j)'
    BY DEF Helped
  <2> QED BY <2>1, <2>2, <2>3, Zenon DEF JobInv
<1>8 ASSUME NEW k \in Jobs \ {j} PROVE JobInv(k)'
  <2>1 /\ what'[k] = what[k] /\ refs'[k] = refs[k] /\ done'[k] = done[k]
       /\ helper'[k] = helper[k]
    BY <1>1, <1>2, Zenon DEF HelperType
  <2> QED BY <1>4, <2>1, JobFrame, Zenon DEF HeldInv
<1>9 ResolvingMoves
  <2>1 j \notin Resolving BY <1>1, Zenon DEF Resolving
  <2>2 CASE /\ UNCHANGED <<refs, active>> /\ what' = [what EXCEPT ![j] = "connect"]
            /\ helper' = [helper EXCEPT ![j] = "running"]
    <3>1 Resolving' = Resolving BY <1>1, <2>2 DEF HelperType, Resolving
    <3> QED BY <2>2, <3>1, Zenon DEF ResolvingMoves
  <2>3 CASE /\ what' = [what EXCEPT ![j] = "resolver"]
            /\ helper' = [helper EXCEPT ![j] = "starting"]
            /\ active' = active + 1 /\ active < ResolverLimit
    <3>1 Resolving' = Resolving \cup {j} BY <1>1, <2>3 DEF HelperType, Resolving
    <3> QED BY <2>1, <2>3, <3>1, Zenon DEF ResolvingMoves
  <2> QED BY <1>2, <2>2, <2>3, Zenon
<1> QED BY <1>5, <1>6, <1>7, <1>8, <1>9, Zenon DEF Kept, HeldInv

\* A VM leaves its job, which changes for nobody else.
LEMMA JobLeft ==
  ASSUME HelperType, HeldInv, NEW v \in Supervised, NEW j \in Jobs, job[v] = j,
         pc[v] \in {"connect", "lookup"}, NEW place \in {"run", "stopped"}, MoveTo(v, place),
         job' = [job EXCEPT ![v] = NoJob], HelperType',
         \A k \in Jobs \ {j} : helper'[k] = helper[k],
         \A k \in Jobs \ {j} : what'[k] = what[k] /\ refs'[k] = refs[k] /\ done'[k] = done[k],
         JobInv(j)', ResolvingMoves
  PROVE  Kept
<1>1 Waiters(j) = {v} BY WaitersJob, Zenon
<1>2 \A k \in Jobs \ {j} : Waiters(k)' = Waiters(k)
  <2>1 Held(j) BY <1>1, Zenon DEF Held
  <2> QED BY <2>1, WaiterGoes, Zenon
<1>3 ASSUME NEW k \in Jobs \ {j} PROVE JobInv(k)'
  BY <1>2, JobFrame, Zenon DEF HeldInv
<1>4 ASSUME NEW u \in Supervised PROVE WaitInv(u)'
  <2>1 CASE u = v
    <3>1 pc'[v] = place /\ job'[v] = NoJob BY Zenon DEF MoveTo, HelperType
    <3>2 place \notin {"connect", "lookup"} OBVIOUS
    <3> QED BY <2>1, <3>1, <3>2, Zenon DEF WaitInv
  <2>2 CASE u # v
    <3>1 pc'[u] = pc[u] /\ job'[u] = job[u] BY <2>2, Zenon DEF MoveTo, HelperType
    <3>2 pc[u] \in {"connect", "lookup"} => job[u] \in Jobs \ {j}
      <4>1 pc[u] \in {"connect", "lookup"} => job[u] \in Jobs /\ Waiters(job[u]) = {u}
        BY WaitersJob, Zenon
      <4> QED BY <1>1, <2>2, <4>1, Zenon
    <3> QED BY <3>1, <3>2, WaitFrame, Zenon DEF HeldInv
  <2> QED BY <2>1, <2>2, Zenon
<1> QED BY <1>1, <1>3, <1>4, Zenon DEF Kept, HeldInv

\* MySQL.open returns or is abandoned.
LEMMA ConnectLeft ==
  ASSUME HelperType, HeldInv, NEW v \in Supervised, ConnectCollected(v) \/ ConnectAbandoned(v)
  PROVE  Kept
<1>0 /\ pc[v] = "connect" /\ job' = [job EXCEPT ![v] = NoJob]
     /\ UNCHANGED <<refs, helper, active>>
  BY Zenon DEF ConnectCollected, ConnectAbandoned
<1>j PICK j \in Jobs : job[v] = j BY <1>0, WaitersJob, Zenon
<1>1 Waiters(j) = {v} BY <1>0, <1>j, WaitersJob, Zenon
<1>2 what[j] = "connect" BY <1>0, <1>j, Zenon DEF HeldInv, WaitInv
<1>3 Waiters(j)' = {} BY <1>0, <1>1, <1>j, WaiterGoes, Zenon DEF Held
<1>4 CASE ConnectCollected(v)
  <2>1 /\ MoveTo(v, "run") /\ what' = [what EXCEPT ![j] = "free"] /\ UNCHANGED done /\ done[j] = 1
    BY <1>4, <1>j, Zenon DEF ConnectCollected
  <2>2 helper[j] = "none" BY <1>1, <1>2, <2>1 DEF HeldInv, JobInv
  <2>3 HelperType' BY <1>0, <2>1 DEF HelperType, MoveTo, Places
  <2>4 JobInv(j)' BY <1>0, <1>1, <1>3, <2>1, <2>2 DEF HelperType, JobInv
  <2>5 Resolving' = Resolving BY <1>0, <1>1, <2>1, <2>2 DEF HelperType, Resolving
  <2>6 \A k \in Jobs \ {j} : what'[k] = what[k] /\ refs'[k] = refs[k] /\ done'[k] = done[k]
    BY <1>0, <2>1, Zenon DEF HelperType
  <2> QED BY <1>0, <1>j, <2>1, <2>3, <2>4, <2>5, <2>6, JobLeft, Zenon DEF ResolvingMoves
<1>5 CASE ConnectAbandoned(v)
  <2>1 /\ MoveTo(v, "stopped") /\ done' = [done EXCEPT ![j] = 2] /\ UNCHANGED what /\ done[j] = 0
    BY <1>5, <1>j, Zenon DEF ConnectAbandoned
  <2>2 helper[j] = "running" BY <1>1, <1>2, <2>1 DEF HeldInv, JobInv
  <2>3 HelperType' BY <1>0, <2>1 DEF HelperType, MoveTo, Places
  <2>4 JobInv(j)' BY <1>0, <1>1, <1>2, <1>3, <2>1, <2>2 DEF HelperType, JobInv
  <2>5 Resolving' = Resolving BY <1>0, <2>1, Zenon DEF Resolving
  <2>6 \A k \in Jobs \ {j} : what'[k] = what[k] /\ refs'[k] = refs[k] /\ done'[k] = done[k]
    BY <1>0, <2>1, Zenon DEF HelperType
  <2> QED BY <1>0, <1>j, <2>1, <2>3, <2>4, <2>5, <2>6, JobLeft, Zenon DEF ResolvingMoves
<1> QED BY <1>4, <1>5, Zenon

\* A lookup returns, and releases its job.
LEMMA LookupEnds ==
  ASSUME HelperType, HeldInv, NEW v \in Supervised, NEW place \in {"run", "stopped"},
         LookupLeft(v, place)
  PROVE  Kept
<1>0 /\ pc[v] = "lookup" /\ job' = [job EXCEPT ![v] = NoJob] /\ MoveTo(v, place)
     /\ resolver_release(job[v]) /\ helper[job[v]] # "starting" /\ UNCHANGED <<done, helper, active>>
  BY Zenon DEF LookupLeft
<1>j PICK j \in Jobs : job[v] = j BY <1>0, WaitersJob, Zenon
<1>r /\ refs' = [refs EXCEPT ![j] = @ - 1]
     /\ what' = [what EXCEPT ![j] = IF refs[j] = 1 THEN "free" ELSE @]
  BY <1>0, <1>j, Zenon DEF resolver_release
<1>1 Waiters(j) = {v} BY <1>0, <1>j, WaitersJob, Zenon
<1>2 what[j] = "resolver" BY <1>0, <1>j, Zenon DEF HeldInv, WaitInv
<1>3 Waiters(j)' = {} BY <1>0, <1>1, <1>j, WaiterGoes, Zenon DEF Held
<1>4 Waiters(j) # {} BY <1>1
<1>5 (Helped(j) /\ refs[j] = 2) \/ (~Helped(j) /\ refs[j] = 1)
  BY <1>1, <1>2, <1>4, Zenon DEF HeldInv, JobInv
<1>6 HelperType' BY <1>0, <1>r DEF HelperType, MoveTo, Places
<1>7 JobInv(j)' /\ Resolving' = Resolving
  <2>1 CASE Helped(j) /\ refs[j] = 2
    <3>1 refs'[j] = 1 /\ what' = what BY <1>2, <1>r, <2>1 DEF HelperType
    <3> QED BY <1>0, <1>2, <1>3, <2>1, <3>1, Zenon DEF JobInv, Helped, Resolving
  <2>2 CASE ~Helped(j) /\ refs[j] = 1
    <3>1 what' = [what EXCEPT ![j] = "free"] BY <1>r, <2>2
    <3>2 helper[j] \in {"none", "leaving"} BY <1>0, <1>j, <2>2 DEF HelperType, Helped
    <3>3 JobInv(j)' BY <1>0, <1>3, <3>1, <3>2 DEF HelperType, JobInv
    <3>4 Resolving' = Resolving BY <1>0, <3>1, <3>2 DEF HelperType, Resolving
    <3> QED BY <3>3, <3>4, Zenon
  <2> QED BY <1>5, <2>1, <2>2, Zenon
<1>8 \A k \in Jobs \ {j} : what'[k] = what[k] /\ refs'[k] = refs[k] /\ done'[k] = done[k]
  BY <1>0, <1>r, Zenon DEF HelperType
<1> QED BY <1>0, <1>j, <1>6, <1>7, <1>8, JobLeft, Zenon DEF ResolvingMoves

\* A helper thread takes a step with its job, which no VM waits for if it frees it.
LEMMA HelperStep ==
  ASSUME HelperType, HeldInv, NEW j \in Jobs, UNCHANGED <<pc, job>>, HelperType',
         \A k \in Jobs \ {j} : /\ what'[k] = what[k] /\ refs'[k] = refs[k]
                               /\ done'[k] = done[k] /\ helper'[k] = helper[k],
         Waiters(j) # {} => what'[j] = what[j], JobInv(j)'
  PROVE  HeldInv'
<1>1 \A k \in Jobs : Waiters(k)' = Waiters(k) BY Zenon DEF Waiters
<1>2 ASSUME NEW k \in Jobs \ {j} PROVE JobInv(k)' BY <1>1, JobFrame, Zenon DEF HeldInv
<1>3 ASSUME NEW u \in Supervised PROVE WaitInv(u)'
  <2>1 ASSUME pc[u] \in {"connect", "lookup"} PROVE what'[job[u]] = what[job[u]]
    <3>1 job[u] \in Jobs /\ Waiters(job[u]) # {} BY <2>1, WaitersJob
    <3> QED BY <3>1, Zenon
  <2> QED BY <2>1, WaitFrame, Zenon DEF HeldInv
<1> QED BY <1>2, <1>3, Zenon DEF HeldInv

\* The helper thread of a lookup starts, or cannot be started.
LEMMA StartSteps ==
  ASSUME HelperType, HeldInv, NEW v \in Supervised, HelperStarts(v) \/ HelperNotStarted(v)
  PROVE  Kept
<1>0 pc[v] = "lookup" /\ helper[job[v]] = "starting" BY Zenon DEF HelperStarts, HelperNotStarted
<1>j PICK j \in Jobs : job[v] = j BY <1>0, WaitersJob, Zenon
<1>1 Waiters(j) = {v} /\ Held(j) BY <1>0, <1>j, WaitersJob, Zenon DEF Held
<1>2 what[j] = "resolver" BY <1>0, <1>j, Zenon DEF HeldInv, WaitInv
<1>3 refs[j] = 1 /\ j \in Resolving
  <2>1 ~Helped(j) /\ helper[j] # "none" BY <1>0, <1>j DEF Helped
  <2>2 Waiters(j) # {} BY <1>1
  <2> QED BY <1>2, <2>1, <2>2, Zenon DEF HeldInv, JobInv, Resolving
<1>4 CASE HelperStarts(v)
  <2>1 /\ helper' = [helper EXCEPT ![j] = "running"] /\ refs' = [refs EXCEPT ![j] = 2]
       /\ UNCHANGED <<pc, job, what, done, active>>
    BY <1>4, <1>j, Zenon DEF HelperStarts
  <2>2 HelperType' BY <2>1 DEF HelperType
  <2>3 JobInv(j)'
    <3>1 Held(j)' BY <1>1, <2>1, Zenon DEF Held, Waiters
    <3>2 helper'[j] = "running" /\ refs'[j] = 2 /\ what'[j] = "resolver"
      BY <1>2, <2>1, Zenon DEF HelperType
    <3> QED BY <3>1, <3>2 DEF JobInv, Helped
  <2>4 Resolving' = Resolving BY <1>2, <1>3, <2>1 DEF HelperType, Resolving
  <2>5 \A k \in Jobs \ {j} : /\ what'[k] = what[k] /\ refs'[k] = refs[k]
                             /\ done'[k] = done[k] /\ helper'[k] = helper[k]
    BY <2>1, Zenon DEF HelperType
  <2> QED BY <2>1, <2>2, <2>3, <2>4, <2>5, HelperStep, Zenon DEF Kept, ResolvingMoves
<1>5 CASE HelperNotStarted(v)
  <2>1 /\ MoveTo(v, "run") /\ refs' = [refs EXCEPT ![j] = @ - 1]
       /\ what' = [what EXCEPT ![j] = "free"] /\ helper' = [helper EXCEPT ![j] = "none"]
       /\ active' = active - 1 /\ job' = [job EXCEPT ![v] = NoJob] /\ UNCHANGED done
    BY <1>3, <1>5, <1>j, Zenon DEF HelperNotStarted, resolver_release
  <2>2 HelperType' BY <2>1 DEF HelperType, MoveTo, Places
  <2>3 Waiters(j)' = {} BY <1>1, <1>j, <2>1, WaiterGoes, Zenon
  <2>4 JobInv(j)' BY <2>1, <2>3 DEF HelperType, JobInv
  <2>5 Resolving' = Resolving \ {j} BY <2>1 DEF HelperType, Resolving
  <2>6 /\ \A k \in Jobs \ {j} : what'[k] = what[k] /\ refs'[k] = refs[k] /\ done'[k] = done[k]
       /\ \A k \in Jobs \ {j} : helper'[k] = helper[k]
    BY <2>1, Zenon DEF HelperType
  <2>7 ResolvingMoves BY <1>3, <2>1, <2>5, Zenon DEF ResolvingMoves
  <2> QED BY <1>0, <1>j, <2>1, <2>2, <2>4, <2>6, <2>7, JobLeft, Zenon
<1> QED BY <1>4, <1>5, Zenon

\* The helper thread of MySQL.open has connected.
LEMMA ConnectEnds ==
  ASSUME HelperType, HeldInv, NEW j \in Jobs, ConnectFinishes(j)
  PROVE  Kept
<1>1 /\ what[j] = "connect" /\ helper[j] = "running" /\ mysql_connect_thread(j)
     /\ helper' = [helper EXCEPT ![j] = "none"] /\ UNCHANGED <<pc, job, refs, active>>
  BY Zenon DEF ConnectFinishes
<1>2 \/ /\ done[j] = 0 /\ Held(j) /\ done' = [done EXCEPT ![j] = 1] /\ UNCHANGED what
     \/ /\ done[j] = 2 /\ Waiters(j) = {} /\ what' = [what EXCEPT ![j] = "free"] /\ UNCHANGED done
  <2>1 (done[j] = 0 /\ Held(j)) \/ (done[j] = 2 /\ Waiters(j) = {})
    BY <1>1, Zenon DEF HeldInv, JobInv
  <2> QED BY <1>1, <2>1 DEF mysql_connect_thread
<1>3 HelperType' BY <1>1, <1>2 DEF HelperType
<1>4 Held(j)' = Held(j) /\ Waiters(j)' = Waiters(j) BY <1>1, Zenon DEF Held, Waiters
<1>5 JobInv(j)' BY <1>1, <1>2, <1>4 DEF HelperType, JobInv
<1>6 \A k \in Jobs \ {j} : /\ what'[k] = what[k] /\ refs'[k] = refs[k]
                           /\ done'[k] = done[k] /\ helper'[k] = helper[k]
  BY <1>1, <1>2, Zenon DEF HelperType
<1>7 Waiters(j) # {} => what'[j] = what[j] BY <1>2, Zenon
<1>8 Resolving' = Resolving BY <1>1, <1>2 DEF HelperType, Resolving
<1> QED BY <1>1, <1>3, <1>5, <1>6, <1>7, <1>8, HelperStep, Zenon DEF Kept, ResolvingMoves

\* The steps of resolver_worker.
LEMMA ResolverSteps ==
  ASSUME HelperType, HeldInv, NEW j \in Jobs,
         ResolverFinishes(j) \/ ResolverReleases(j) \/ ResolverLeaves(j)
  PROVE  Kept
<1>w Held(j)' = Held(j) /\ Waiters(j)' = Waiters(j)
  <2>1 UNCHANGED job BY Zenon DEF ResolverFinishes, ResolverReleases, ResolverLeaves
  <2> QED BY <2>1, Zenon DEF Held, Waiters
<1>1 CASE ResolverFinishes(j)
  <2>1 /\ what[j] = "resolver" /\ helper[j] = "running" /\ done' = [done EXCEPT ![j] = 1]
       /\ helper' = [helper EXCEPT ![j] = "finished"] /\ UNCHANGED <<pc, job, what, refs, active>>
    BY <1>1, Zenon DEF ResolverFinishes
  <2>2 HelperType' BY <2>1 DEF HelperType
  <2>3 JobInv(j)' BY <1>w, <2>1 DEF HelperType, HeldInv, JobInv, Helped
  <2>4 Resolving' = Resolving BY <2>1 DEF HelperType, Resolving
  <2>5 \A k \in Jobs \ {j} : /\ what'[k] = what[k] /\ refs'[k] = refs[k]
                             /\ done'[k] = done[k] /\ helper'[k] = helper[k]
    BY <2>1, Zenon DEF HelperType
  <2> QED BY <2>1, <2>2, <2>3, <2>4, <2>5, HelperStep, Zenon DEF Kept, ResolvingMoves
<1>2 CASE ResolverReleases(j)
  <2>1 /\ helper[j] = "finished" /\ helper' = [helper EXCEPT ![j] = "leaving"]
       /\ refs' = [refs EXCEPT ![j] = @ - 1]
       /\ what' = [what EXCEPT ![j] = IF refs[j] = 1 THEN "free" ELSE @]
       /\ UNCHANGED <<pc, job, done, active>>
    BY <1>2, Zenon DEF ResolverReleases, resolver_release
  <2>2 HelperType' BY <2>1 DEF HelperType
  <2>3 what[j] = "resolver" BY <2>1 DEF HelperType, HeldInv, JobInv
  <2>4 (Held(j) /\ refs[j] = 2) \/ (Waiters(j) = {} /\ refs[j] = 1)
    BY <2>1, <2>3, Zenon DEF HeldInv, JobInv, Helped
  <2>5 JobInv(j)' /\ (Waiters(j) # {} => what'[j] = what[j])
    <3>1 CASE Held(j) /\ refs[j] = 2
      <4>1 refs'[j] = 1 /\ what'[j] = "resolver" /\ helper'[j] = "leaving"
        BY <2>1, <2>3, <3>1 DEF HelperType
      <4> QED BY <1>w, <2>3, <3>1, <4>1, Zenon DEF JobInv, Helped
    <3>2 CASE Waiters(j) = {} /\ refs[j] = 1
      <4>1 what'[j] = "free" /\ helper'[j] = "leaving" BY <2>1, <3>2 DEF HelperType
      <4> QED BY <1>w, <3>2, <4>1, Zenon DEF JobInv
    <3> QED BY <2>4, <3>1, <3>2, Zenon
  <2>6 Resolving' = Resolving
    <3>1 ASSUME NEW k \in Jobs \ {j} PROVE k \in Resolving' <=> k \in Resolving
      BY <2>1, Zenon DEF HelperType, Resolving
    <3>2 j \in Resolving BY <2>1, <2>3 DEF Resolving
    <3>3 helper'[j] = "leaving" BY <2>1, Zenon DEF HelperType
    <3>4 j \in Resolving' BY <3>3, Zenon DEF Resolving
    <3>5 Resolving \subseteq Jobs /\ Resolving' \subseteq Jobs BY Zenon DEF Resolving
    <3> QED BY <3>1, <3>2, <3>4, <3>5
  <2>7 \A k \in Jobs \ {j} : /\ what'[k] = what[k] /\ refs'[k] = refs[k]
                             /\ done'[k] = done[k] /\ helper'[k] = helper[k]
    BY <2>1, Zenon DEF HelperType
  <2> QED BY <2>1, <2>2, <2>5, <2>6, <2>7, HelperStep, Zenon DEF Kept, ResolvingMoves
<1>3 CASE ResolverLeaves(j)
  <2>1 /\ helper[j] = "leaving" /\ helper' = [helper EXCEPT ![j] = "none"]
       /\ active' = active - 1 /\ UNCHANGED <<pc, job, what, refs, done>>
    BY <1>3, Zenon DEF ResolverLeaves
  <2>2 HelperType' BY <2>1 DEF HelperType
  <2>3 JobInv(j)' BY <1>w, <2>1 DEF HelperType, HeldInv, JobInv, Helped
  <2>4 j \in Resolving BY <2>1, Zenon DEF Resolving
  <2>5 Resolving' = Resolving \ {j} BY <2>1 DEF HelperType, Resolving
  <2>6 \A k \in Jobs \ {j} : /\ what'[k] = what[k] /\ refs'[k] = refs[k]
                             /\ done'[k] = done[k] /\ helper'[k] = helper[k]
    BY <2>1, Zenon DEF HelperType
  <2> QED BY <2>1, <2>2, <2>3, <2>4, <2>5, <2>6, HelperStep, Zenon DEF Kept, ResolvingMoves
<1> QED BY <1>1, <1>2, <1>3, Zenon

\* Every step keeps the jobs held, and moves active with the jobs that have a slot.
LEMMA HeldStep == HelperType /\ HeldInv /\ [InterruptsNext]_stopvars => Kept
<1>1 ASSUME HelperType, HeldInv, UNCHANGED stopvars PROVE Kept
  BY <1>1, QuietHelpers, Zenon DEF stopvars, helperVars
<1> QED BY <1>1, QuietSteps, JobStarts, StartSteps, ConnectLeft, LookupEnds, ConnectEnds,
           ResolverSteps, Zenon
        DEF InterruptsNext

-----------------------------------------------------------------------------
(***************************************************************************)
(* Threads: who may join and free a Thread, and when.                      *)
(***************************************************************************)

Running == {"run", "new", "join", "sweep"}
Freeing == {"free", "wait"}
Busy == {"new", "join", "sweep", "wait"}

\* A VM that is busy with a Thread owns it.  The one it creates has no VM yet, the
\* one it frees has, and the one it joins was started and not joined.
MachineInv(v) ==
  /\ state[v] \in Busy => with[v] \in Threads /\ owner[with[v]] = v
  /\ state[v] = "new" => state[with[v]] = "none"
  /\ state[v] \in {"sweep", "wait"} => state[with[v]] # "none"
  /\ state[v] = "join" => ~joined[with[v]] /\ os[with[v]] # "none"
  /\ state[v] = "none" => \A t \in Threads : owner[t] # v

\* The operating-system thread of a Thread lives as long as its VM runs; a Thread
\* without a VM is free, or is being created by its owner.  joined tells whether the
\* thread was joined, except for one whose join ran out of memory.
ThreadInv(t) ==
  /\ state[t] = "none" => os[t] = "none"
  /\ state[t] \in Running => os[t] = "running"
  /\ state[t] = "end" => os[t] \in {"none", "ended", "joined", "joined twice"}
  /\ state[t] \in Freeing => os[t] \in {"none", "joined", "joined twice"}
  /\ spent[t] => os[t] \in {"joined", "joined twice"}
  /\ ~spent[t] => os[t] # "joined twice" /\ (joined[t] <=> os[t] = "joined")
  /\ os[t] # "none" => slot[t] = "reserved"
  /\ reachable[t] => os[t] # "none"
  /\ state[t] # "none" => slot[t] # "no"
  /\ owner[t] # t
  /\ owner[t] = None => state[t] = "none" /\ slot[t] = "no"
  /\ owner[t] # None /\ state[t] = "none" => state[owner[t]] = "new" /\ with[owner[t]] = t

OwnersInv == (\A v \in Machines : MachineInv(v)) /\ \A t \in Threads : ThreadInv(t)

\* What the invariant says of a Thread depends on that Thread, and on its owner
\* while that creates it.
LEMMA ThreadFrame ==
  ASSUME NEW u \in Threads, ThreadInv(u), owner'[u] = owner[u], slot'[u] = slot[u],
         state'[u] = state[u], os'[u] = os[u], joined'[u] = joined[u], spent'[u] = spent[u],
         reachable'[u] => reachable[u],
         owner[u] # None /\ state[u] = "none" => state'[owner[u]] = "new" /\ with'[owner[u]] = u
  PROVE  ThreadInv(u)'
  BY Zenon DEF ThreadInv

\* What it says of a VM depends on that VM and the Thread it is busy with.
LEMMA MachineFrame ==
  ASSUME NEW w \in Machines, MachineInv(w), state'[w] = state[w], with'[w] = with[w],
         state[w] \in Busy => owner'[with[w]] = owner[with[w]]
                                /\ (state'[with[w]] = "none" <=> state[with[w]] = "none"),
         state[w] = "join" => joined'[with[w]] = joined[with[w]] /\ os'[with[w]] # "none",
         state[w] = "none" => \A t \in Threads : owner'[t] # w
  PROVE  MachineInv(w)'
<1>1 state[w] \in {"new", "sweep", "wait"} => state[w] \in Busy BY DEF Busy
<1> QED BY <1>1, Zenon DEF MachineInv

\* A step of one VM that is not creating a Thread, neither before nor after.
LEMMA SoloStep ==
  ASSUME ThreadsTypeOK, OwnersInv, NEW v \in Machines, NEW s, NEW x,
         state' = [state EXCEPT ![v] = s], with' = [with EXCEPT ![v] = x],
         state[v] \notin {"none", "new"}, s \notin {"none", "new"},
         UNCHANGED <<owner, slot, joined, spent, reachable>>,
         \A u \in Threads : u # v => os'[u] = os[u],
         v \in Threads => ThreadInv(v)' /\ (os[v] # "none" => os'[v] # "none"),
         MachineInv(v)'
  PROVE  OwnersInv'
<1>t /\ state \in [Machines -> States] /\ with \in [Machines -> Threads \cup {None}]
  BY Zenon DEF ThreadsTypeOK
<1>m Threads \subseteq Machines BY Zenon DEF Machines
<1>v /\ \A w \in Machines : w # v => state'[w] = state[w] /\ with'[w] = with[w]
     /\ state'[v] = s
  BY <1>t, Zenon
<1>n \A w \in Machines : state'[w] = "none" <=> state[w] = "none" BY <1>v
<1>1 ASSUME NEW u \in Threads, u # v PROVE ThreadInv(u)'
  <2>1 ThreadInv(u) /\ u \in Machines BY <1>m, Zenon DEF OwnersInv
  <2>2 ASSUME owner[u] # None, state[u] = "none"
       PROVE  /\ owner[u] \in Machines /\ owner[u] # v
              /\ state[owner[u]] = "new" /\ with[owner[u]] = u
    <3>1 owner[u] \in Machines BY <2>2, Zenon DEF ThreadsTypeOK
    <3>2 state[owner[u]] = "new" /\ with[owner[u]] = u BY <2>1, <2>2, Zenon DEF ThreadInv
    <3> QED BY <3>1, <3>2, Zenon
  <2> QED BY <1>1, <1>v, <2>1, <2>2, ThreadFrame, Zenon
<1>2 ASSUME NEW w \in Machines, w # v PROVE MachineInv(w)'
  <2>1 MachineInv(w) BY Zenon DEF OwnersInv
  <2>2 state[w] \in Busy => with[w] \in Threads /\ with[w] \in Machines
    BY <1>m, <2>1, Zenon DEF MachineInv
  <2>3 state[w] = "join" => os'[with[w]] # "none"
    <3>1 state[w] = "join" => with[w] \in Threads /\ os[with[w]] # "none"
      BY <2>1, Zenon DEF MachineInv, Busy
    <3> QED BY <3>1, Zenon
  <2>4 state[w] = "none" => \A t \in Threads : owner'[t] # w BY <2>1, Zenon DEF MachineInv
  <2> QED BY <1>2, <1>n, <1>v, <2>1, <2>2, <2>3, <2>4, MachineFrame, Zenon
<1> QED BY <1>1, <1>2, Zenon DEF OwnersInv

\* A step of a VM with the Thread it is busy with, which may end that VM.
LEMMA PairMoves ==
  ASSUME ThreadsTypeOK, OwnersInv, NEW v \in Machines, NEW t \in Threads,
         state[v] \in Busy, with[v] = t, state[t] # "new",
         \A w \in Machines \ {v, t} : state'[w] = state[w],
         \A w \in Machines \ {v} : with'[w] = with[w],
         \A u \in Threads \ {t} : /\ owner'[u] = owner[u] /\ slot'[u] = slot[u]
                                  /\ joined'[u] = joined[u] /\ spent'[u] = spent[u]
                                  /\ reachable'[u] = reachable[u],
         \A u \in Threads \ {t, v} : os'[u] = os[u],
         owner'[t] = owner[t] \/ owner'[t] = None,
         state'[v] # "none",
         v \in Threads => ThreadInv(v)' /\ (os[v] # "none" => os'[v] # "none"),
         MachineInv(v)', MachineInv(t)', ThreadInv(t)'
  PROVE  OwnersInv'
<1>m Threads \subseteq Machines BY Zenon DEF Machines
<1>o owner[t] = v /\ v # t
  <2>1 MachineInv(v) /\ ThreadInv(t) BY Zenon DEF OwnersInv
  <2> QED BY <2>1, Zenon DEF MachineInv, ThreadInv
<1>n state[v] # "none" /\ state'[v] # "none" BY DEF Busy
<1>1 ASSUME NEW u \in Threads \ {t, v} PROVE ThreadInv(u)'
  <2>1 ThreadInv(u) /\ u \in Machines \ {v, t} BY <1>m, Zenon DEF OwnersInv
  <2>2 ASSUME owner[u] # None, state[u] = "none"
       PROVE  owner[u] \in Machines \ {v, t} /\ state[owner[u]] = "new" /\ with[owner[u]] = u
    <3>1 owner[u] \in Machines
      <4>1 u \in Threads OBVIOUS
      <4>2 owner \in [Threads -> Machines \cup {None}] BY Zenon DEF ThreadsTypeOK
      <4> QED BY <2>2, <4>1, <4>2, Zenon
    <3>2 state[owner[u]] = "new" /\ with[owner[u]] = u BY <2>1, <2>2, Zenon DEF ThreadInv
    <3>3 owner[u] # v BY <3>2, Zenon
    <3>4 owner[u] # t BY <3>2, Zenon
    <3> QED BY <3>1, <3>2, <3>3, <3>4, Zenon
  <2> QED BY <2>1, <2>2, ThreadFrame, Zenon
<1>2 v \in Threads => ThreadInv(v)' BY Zenon
<1>3 ASSUME NEW w \in Machines \ {v, t} PROVE MachineInv(w)'
  <2>1 MachineInv(w) BY Zenon DEF OwnersInv
  <2>2 state[w] \in Busy => with[w] \in Threads \ {t} /\ with[w] \in Machines
    BY <1>m, <1>o, <2>1, Zenon DEF MachineInv
  <2>3 state[w] \in Busy => (state'[with[w]] = "none" <=> state[with[w]] = "none")
    BY <1>n, <2>2, Zenon
  <2>4 "join" \in Busy BY DEF Busy
  <2>5 state[w] = "join" => joined'[with[w]] = joined[with[w]] /\ os'[with[w]] # "none"
    <3>1 ASSUME state[w] = "join" PROVE with[w] \in Threads \ {t} /\ os[with[w]] # "none"
      BY <2>1, <2>2, <2>4, <3>1, Zenon DEF MachineInv
    <3>2 ASSUME state[w] = "join" PROVE os'[with[w]] # "none"
      <4>1 CASE with[w] = v BY <3>1, <3>2, <4>1, Zenon
      <4>2 CASE with[w] # v
        <5>1 with[w] \in Threads \ {t, v} BY <3>1, <3>2, <4>2, Zenon
        <5> QED BY <3>1, <3>2, <5>1, Zenon
      <4> QED BY <4>1, <4>2
    <3> QED BY <3>1, <3>2, Zenon
  <2>6 None # w BY RootAssumption DEF Machines
  <2>7 state[w] = "none" => \A u \in Threads : owner'[u] # w
    <3>1 \A u \in Threads : owner'[u] = owner[u] \/ owner'[u] = None BY Zenon
    <3> QED BY <2>1, <2>6, <3>1, Zenon DEF MachineInv
  <2> QED BY <2>1, <2>2, <2>3, <2>5, <2>7, MachineFrame, Zenon
<1> QED BY <1>1, <1>2, <1>3, Zenon DEF OwnersInv

\* A step of a VM with the Thread it is busy with, which leaves that VM running, or
\* leaves it being freed.
LEMMA PairStep ==
  ASSUME ThreadsTypeOK, OwnersInv, NEW v \in Machines, NEW t \in Threads,
         state[v] \in Busy, with[v] = t, state[t] # "new",
         \A w \in Machines \ {v, t} : state'[w] = state[w],
         \A w \in Machines \ {v} : with'[w] = with[w],
         \A u \in Threads \ {t} : /\ owner'[u] = owner[u] /\ slot'[u] = slot[u] /\ os'[u] = os[u]
                                  /\ joined'[u] = joined[u] /\ spent'[u] = spent[u]
                                  /\ reachable'[u] = reachable[u],
         owner'[t] = owner[t] \/ owner'[t] = None,
         \/ state[v] \in Running /\ state'[v] \in Running
         \/ state[v] \in Freeing /\ state'[v] \in Freeing,
         MachineInv(v)', MachineInv(t)', ThreadInv(t)'
  PROVE  OwnersInv'
<1>o owner[t] = v /\ v # t
  <2>1 MachineInv(v) /\ ThreadInv(t) BY Zenon DEF OwnersInv
  <2> QED BY <2>1, Zenon DEF MachineInv, ThreadInv
<1>n state[v] # "none" /\ state'[v] # "none" BY DEF Running, Freeing
<1>2 ASSUME v \in Threads PROVE ThreadInv(v)'
  <2>1 ThreadInv(v) BY <1>2, Zenon DEF OwnersInv
  <2>2 /\ owner'[v] = owner[v] /\ slot'[v] = slot[v] /\ os'[v] = os[v]
       /\ joined'[v] = joined[v] /\ spent'[v] = spent[v] /\ reachable'[v] = reachable[v]
    BY <1>2, <1>o, Zenon
  <2>3 owner[v] # None BY <1>n, <2>1, Zenon DEF ThreadInv
  <2>4 \A s : s \in Running => s # "end" /\ s \notin Freeing BY DEF Running, Freeing
  <2>5 \A s : s \in Freeing => s # "end" /\ s \notin Running BY DEF Running, Freeing
  <2> QED BY <1>n, <2>1, <2>2, <2>3, <2>4, <2>5, Zenon DEF ThreadInv
<1>3 v \in Threads => os'[v] = os[v] BY <1>o, Zenon
<1>4 \A u \in Threads \ {t, v} : os'[u] = os[u] BY Zenon
<1>5 \A u \in Threads \ {t} : /\ owner'[u] = owner[u] /\ slot'[u] = slot[u]
                             /\ joined'[u] = joined[u] /\ spent'[u] = spent[u]
                             /\ reachable'[u] = reachable[u]
  BY Zenon
<1> QED BY <1>n, <1>2, <1>3, <1>4, <1>5, PairMoves, Zenon

\* JoinBegins, Sweep and FreeNext: a VM turns to a Thread it owns.
LEMMA TurnSteps ==
  ASSUME ThreadsTypeOK, OwnersInv, NEW v \in Machines, NEW t \in Threads,
         JoinBegins(v, t) \/ Sweep(v, t) \/ FreeNext(v, t)
  PROVE  OwnersInv'
<1>t /\ state \in [Machines -> States] /\ with \in [Machines -> Threads \cup {None}]
     /\ Threads \subseteq Machines
  BY Zenon DEF ThreadsTypeOK, Machines
<1>0 /\ owner[t] = v /\ ThreadInv(t) /\ MachineInv(v)
     /\ UNCHANGED <<owner, slot, os, joined, spent, reachable>>
  BY Zenon DEF JoinBegins, Sweep, FreeNext, OwnersInv
<1>1 PICK s : /\ state' = [state EXCEPT ![v] = s] /\ with' = [with EXCEPT ![v] = t]
              /\ \/ state[v] = "run" /\ s = "join" /\ reachable[t] /\ ~joined[t]
                 \/ state[v] = "run" /\ s = "sweep"
                 \/ state[v] = "free" /\ s = "wait"
  BY Zenon DEF JoinBegins, Sweep, FreeNext, Becomes
<1>2 state'[v] = s /\ with'[v] = t BY <1>t, <1>1, Zenon
<1>3 v # t BY <1>0, Zenon DEF ThreadInv
<1>4 state'[t] = state[t] /\ state[t] # "none"
  <2>1 state'[t] = state[t] BY <1>t, <1>1, <1>3, Zenon
  <2>2 v # None BY RootAssumption DEF Machines
  <2>3 state[v] # "new" BY <1>1
  <2> QED BY <1>0, <2>1, <2>2, <2>3, Zenon DEF ThreadInv
<1>5 MachineInv(v)'
  <2>1 state'[v] # "new" /\ state'[v] # "none" BY <1>1, <1>2
  <2>2 state'[v] = "join" => ~joined[t] /\ os[t] # "none"
    BY <1>0, <1>1, <1>2, Zenon DEF ThreadInv
  <2> QED BY <1>0, <1>2, <1>4, <2>1, <2>2, Zenon DEF MachineInv
<1>6 ASSUME v \in Threads PROVE ThreadInv(v)'
  <2>1 ThreadInv(v) BY <1>6, Zenon DEF OwnersInv
  <2>2 /\ state'[v] \in Running => os[v] = "running"
       /\ state'[v] \in Freeing => os[v] \in {"none", "joined", "joined twice"}
       /\ state'[v] # "end" /\ state'[v] # "none" /\ state[v] # "none"
    BY <1>1, <1>2, <2>1, Zenon DEF ThreadInv, Running, Freeing
  <2> QED BY <1>0, <2>1, <2>2, Zenon DEF ThreadInv
<1>7 state[v] \notin {"none", "new"} /\ s \notin {"none", "new"} BY <1>1
<1> QED BY <1>0, <1>1, <1>5, <1>6, <1>7, SoloStep, Zenon

\* The root's attempt ends and the next one starts.
LEMMA RootSteps ==
  ASSUME ThreadsTypeOK, OwnersInv, RootEnds \/ RootStartsAgain
  PROVE  OwnersInv'
<1>t /\ state \in [Machines -> States] /\ with \in [Machines -> Threads \cup {None}]
     /\ Root \in Machines /\ Root \notin Threads
  BY RootAssumption, Zenon DEF ThreadsTypeOK, Machines
<1>0 UNCHANGED <<owner, slot, with, os, joined, spent, reachable>> BY Zenon DEF RootEnds, RootStartsAgain
<1>1 PICK s \in {"free", "run"} :
       state' = [state EXCEPT ![Root] = s] /\ state[Root] \in {"run", "end", "free"}
  BY Zenon DEF RootEnds, RootStartsAgain
<1>2 with' = [with EXCEPT ![Root] = with[Root]] BY <1>0, <1>t
<1>3 state'[Root] = s BY <1>t, <1>1, Zenon
<1>4 MachineInv(Root)' BY <1>3 DEF MachineInv, Busy
<1>5 state[Root] \notin {"none", "new"} /\ s \notin {"none", "new"} BY <1>1
<1> QED BY <1>0, <1>1, <1>2, <1>4, <1>5, <1>t, SoloStep, Zenon

\* A Thread ends, by itself or because its join was interrupted.
LEMMA EndSteps ==
  ASSUME ThreadsTypeOK, OwnersInv, NEW v \in Machines,
         (v \in Threads /\ ThreadEnds(v)) \/ JoinInterrupted(v)
  PROVE  OwnersInv'
<1>t /\ state \in [Machines -> States] /\ with \in [Machines -> Threads \cup {None}]
     /\ os \in [Threads -> {"none", "running", "ended", "joined", "joined twice"}]
  BY Zenon DEF ThreadsTypeOK
<1>0 /\ UNCHANGED <<owner, slot, joined, spent, reachable>> /\ state[v] \in {"run", "join"}
     /\ state' = [state EXCEPT ![v] = "end"]
  BY Zenon DEF ThreadEnds, JoinInterrupted, Becomes
<1>1 with' = [with EXCEPT ![v] = None] \/ with' = [with EXCEPT ![v] = with[v]]
  BY <1>t, Zenon DEF ThreadEnds, JoinInterrupted, Becomes
<1>2 PICK x : with' = [with EXCEPT ![v] = x] BY <1>1, Zenon
<1>3 v \in Threads => os' = [os EXCEPT ![v] = "ended"]
  BY RootAssumption, Zenon DEF ThreadEnds, JoinInterrupted
<1>4 v \notin Threads => os' = os
  <2>1 v \notin Threads => v = Root BY Zenon DEF Machines
  <2> QED BY <2>1, Zenon DEF JoinInterrupted
<1>5 state'[v] = "end" BY <1>0, <1>t, Zenon
<1>6 MachineInv(v)' BY <1>5 DEF MachineInv, Busy
<1>7 ASSUME v \in Threads PROVE ThreadInv(v)' /\ os'[v] # "none"
  <2>1 ThreadInv(v) BY <1>7, Zenon DEF OwnersInv
  <2>2 os[v] = "running" /\ state[v] # "none" BY <1>0, <2>1 DEF ThreadInv, Running
  <2>3 os'[v] = "ended" BY <1>3, <1>7, <1>t, Zenon
  <2>4 ~joined[v] /\ ~spent[v] BY <2>1, <2>2 DEF ThreadInv
  <2> QED BY <1>0, <1>5, <2>1, <2>2, <2>3, <2>4, Zenon DEF ThreadInv, Running, Freeing
<1>8 \A u \in Threads : u # v => os'[u] = os[u] BY <1>3, <1>4, <1>t, Zenon
<1>9 state[v] \notin {"none", "new"} /\ "end" \notin {"none", "new"} BY <1>0
<1> QED BY <1>0, <1>2, <1>6, <1>7, <1>8, <1>9, SoloStep, Zenon

\* A dropped handle, and an interrupt of the root.
LEMMA QuietThreads ==
  ASSUME ThreadsTypeOK, OwnersInv, UNCHANGED <<owner, slot, state, with, os, joined, spent>>,
         \A t \in Threads : reachable'[t] => reachable[t]
  PROVE  OwnersInv'
<1>1 ASSUME NEW t \in Threads PROVE ThreadInv(t)'
  <2>1 ThreadInv(t) BY Zenon DEF OwnersInv
  <2> QED BY <2>1, Zenon DEF ThreadInv
<1>2 ASSUME NEW v \in Machines PROVE MachineInv(v)'
  BY Zenon DEF OwnersInv, MachineInv
<1> QED BY <1>1, <1>2, Zenon DEF OwnersInv

\* Thread.new begins with a Thread that is free.
LEMMA NewStep ==
  ASSUME ThreadsTypeOK, OwnersInv, NEW v \in Machines, NEW t \in Threads, NewBegins(v, t)
  PROVE  OwnersInv'
<1>t /\ state \in [Machines -> States] /\ with \in [Machines -> Threads \cup {None}]
     /\ owner \in [Threads -> Machines \cup {None}] /\ Threads \subseteq Machines
  BY Zenon DEF ThreadsTypeOK, Machines
<1>0 /\ state[v] = "run" /\ owner[t] = None
     /\ state' = [state EXCEPT ![v] = "new"] /\ with' = [with EXCEPT ![v] = t]
     /\ owner' = [owner EXCEPT ![t] = v] /\ UNCHANGED <<slot, os, joined, spent, reachable>>
  BY Zenon DEF NewBegins, Becomes
<1>1 /\ state'[v] = "new" /\ with'[v] = t /\ owner'[t] = v
     /\ \A w \in Machines : w # v => state'[w] = state[w] /\ with'[w] = with[w]
     /\ \A u \in Threads : u # t => owner'[u] = owner[u]
  BY <1>0, <1>t, Zenon
<1>2 state[t] = "none" /\ slot[t] = "no" /\ v # t
  <2>1 state[t] = "none" /\ slot[t] = "no" BY <1>0, Zenon DEF OwnersInv, ThreadInv
  <2> QED BY <1>0, <2>1, Zenon
<1>3 MachineInv(v)'
  <2>1 state'[t] = "none" BY <1>1, <1>2, <1>t, Zenon
  <2> QED BY <1>1, <2>1, Zenon DEF MachineInv
<1>4 ThreadInv(t)'
  <2>1 state'[t] = "none" BY <1>1, <1>2, <1>t, Zenon
  <2>2 ThreadInv(t) BY Zenon DEF OwnersInv
  <2>3 v # None BY RootAssumption DEF Machines
  <2> QED BY <1>0, <1>1, <1>2, <2>1, <2>2, <2>3, Zenon DEF ThreadInv, Running, Freeing
<1>5 ASSUME NEW u \in Threads, u # t, u # v PROVE ThreadInv(u)'
  <2>1 ThreadInv(u) /\ u \in Machines BY <1>t, Zenon DEF OwnersInv
  <2>2 owner[u] # None /\ state[u] = "none" =>
         owner[u] \in Machines /\ state[owner[u]] = "new" /\ with[owner[u]] = u
    BY <1>t, <2>1, Zenon DEF ThreadInv
  <2>3 state[v] # "new" BY <1>0
  <2> QED BY <1>0, <1>1, <1>5, <2>1, <2>2, <2>3, ThreadFrame, Zenon
<1>6 ASSUME v \in Threads PROVE ThreadInv(v)'
  <2>1 ThreadInv(v) BY <1>6, Zenon DEF OwnersInv
  <2>2 os[v] = "running" /\ owner[v] # None
    BY <1>0, <2>1, Zenon DEF ThreadInv, Running
  <2>3 owner'[v] = owner[v] BY <1>1, <1>2, <1>6, Zenon
  <2> QED BY <1>0, <1>1, <2>1, <2>2, <2>3, Zenon DEF ThreadInv, Running, Freeing
<1>7 ASSUME NEW w \in Machines, w # v PROVE MachineInv(w)'
  <2>1 MachineInv(w) BY Zenon DEF OwnersInv
  <2>2 state[w] \in Busy => with[w] \in Threads /\ with[w] \in Machines /\ with[w] # t
    <3>1 w # None BY RootAssumption DEF Machines
    <3> QED BY <1>0, <1>t, <2>1, <3>1, Zenon DEF MachineInv
  <2>3 state[v] # "none" /\ state'[v] # "none" BY <1>0, <1>1
  <2>4 state[w] \in Busy => (state'[with[w]] = "none" <=> state[with[w]] = "none")
    BY <1>1, <2>2, <2>3, Zenon
  <2>5 state[w] = "join" => os'[with[w]] # "none" /\ joined'[with[w]] = joined[with[w]]
    BY <1>0, <2>1, Zenon DEF MachineInv
  <2>6 state[w] = "none" => \A u \in Threads : owner'[u] # w
    BY <1>1, <1>7, <2>1, Zenon DEF MachineInv
  <2> QED BY <1>1, <1>7, <2>1, <2>2, <2>4, <2>5, <2>6, MachineFrame, Zenon
<1> QED BY <1>3, <1>4, <1>5, <1>6, <1>7, Zenon DEF OwnersInv

\* A busy VM and its Thread.
LEMMA BusyWith ==
  ASSUME OwnersInv, NEW v \in Machines, state[v] \in Busy
  PROVE  /\ with[v] \in Threads /\ with[v] \in Machines /\ owner[with[v]] = v /\ v # with[v]
         /\ MachineInv(v) /\ ThreadInv(with[v]) /\ MachineInv(with[v])
<1>1 MachineInv(v) BY Zenon DEF OwnersInv
<1>2 with[v] \in Threads /\ with[v] \in Machines /\ owner[with[v]] = v
  BY <1>1, Zenon DEF MachineInv, Machines
<1>3 ThreadInv(with[v]) /\ MachineInv(with[v]) BY <1>2, Zenon DEF OwnersInv
<1>4 owner[with[v]] # with[v] BY <1>3, Zenon DEF ThreadInv
<1> QED BY <1>1, <1>2, <1>3, <1>4, Zenon

\* The rest of Thread.new.
LEMMA NewSteps ==
  ASSUME ThreadsTypeOK, OwnersInv, NEW v \in Machines,
         NewReserves(v) \/ NewFails(v) \/ \E allocated \in BOOLEAN : NewStarts(v, allocated)
  PROVE  OwnersInv'
<1>s state[v] = "new" /\ state[v] \in Busy /\ state[v] \in Running
  BY Zenon DEF NewReserves, NewFails, NewStarts, Busy, Running
<1>w PICK t \in Threads : with[v] = t BY <1>s, BusyWith, Zenon
<1>0 owner[t] = v /\ v # t /\ state[t] = "none" /\ ThreadInv(t) /\ MachineInv(t)
  BY <1>s, <1>w, BusyWith, Zenon DEF MachineInv
<1>t /\ state \in [Machines -> States] /\ with \in [Machines -> Threads \cup {None}]
     /\ slot \in [Threads -> {"no", "reserved", "surplus"}] /\ t \in Machines
     /\ os \in [Threads -> {"none", "running", "ended", "joined", "joined twice"}]
     /\ reachable \in [Threads -> BOOLEAN]
  BY Zenon DEF ThreadsTypeOK, Machines
<1>n /\ v # None /\ os[t] = "none" /\ ~joined[t] /\ ~spent[t]
     /\ \A u \in Threads : owner[u] # t
  <2>1 os[t] = "none" /\ \A u \in Threads : owner[u] # t BY <1>0, Zenon DEF ThreadInv, MachineInv
  <2>2 ~spent[t] /\ ~joined[t] BY <1>0, <2>1 DEF ThreadInv
  <2> QED BY <2>1, <2>2, RootAssumption DEF Machines
<1>1 CASE NewReserves(v)
  <2>1 /\ slot' = [slot EXCEPT ![t] = IF count < Limit THEN "reserved" ELSE "surplus"]
       /\ UNCHANGED <<owner, state, with, os, joined, spent, reachable>>
    BY <1>1, <1>w, Zenon DEF NewReserves, diamond_reserve_thread_slot
  <2>2 slot'[t] # "no" BY <1>t, <2>1
  <2>3 ThreadInv(t)' BY <1>0, <1>n, <2>1, <2>2, Zenon DEF ThreadInv
  <2>4 MachineInv(v)' /\ MachineInv(t)'
    BY <1>0, <2>1, Zenon DEF MachineInv, OwnersInv
  <2>5 \A u \in Threads \ {t} : slot'[u] = slot[u] BY <1>t, <2>1, Zenon
  <2>6 state[t] # "new" BY <1>0
  <2> QED BY <1>s, <1>w, <2>1, <2>3, <2>4, <2>5, <2>6, PairStep, Zenon
<1>2 CASE NewFails(v)
  <2>1 /\ state' = [state EXCEPT ![v] = "sweep", ![t] = "end"] /\ slot[t] # "no"
       /\ UNCHANGED <<owner, slot, with, os, joined, spent, reachable>>
    BY <1>2, <1>w, Zenon DEF NewFails
  <2>2 /\ state'[v] = "sweep" /\ state'[t] = "end"
       /\ \A u \in Machines \ {v, t} : state'[u] = state[u]
    BY <1>0, <1>t, <2>1, Zenon
  <2>3 ThreadInv(t)' BY <1>0, <1>n, <2>1, <2>2 DEF ThreadInv, Running, Freeing
  <2>4 MachineInv(v)' /\ MachineInv(t)'
    BY <1>0, <1>w, <2>1, <2>2, Zenon DEF MachineInv, Busy
  <2>5 state[t] # "new" /\ state'[v] \in Running BY <1>0, <2>2 DEF Running
  <2> QED BY <1>s, <1>w, <2>1, <2>2, <2>3, <2>4, <2>5, PairStep, Zenon
<1>3 ASSUME NEW allocated \in BOOLEAN, NewStarts(v, allocated) PROVE OwnersInv'
  <2>1 /\ slot[t] = "reserved" /\ os' = [os EXCEPT ![t] = "running"]
       /\ reachable' = [reachable EXCEPT ![t] = allocated]
       /\ state' = [state EXCEPT ![v] = IF allocated THEN "run" ELSE "sweep", ![t] = "run"]
       /\ with' = [with EXCEPT ![v] = IF allocated THEN None ELSE t]
       /\ UNCHANGED <<owner, slot, joined, spent>>
    BY <1>3, <1>w, Zenon DEF NewStarts
  <2>2 /\ state'[t] = "run" /\ os'[t] = "running"
       /\ \/ state'[v] = "run"
          \/ state'[v] = "sweep" /\ with'[v] = t
    BY <1>0, <1>t, <2>1, Zenon
  <2>3 /\ \A u \in Machines \ {v, t} : state'[u] = state[u]
       /\ \A u \in Machines \ {v} : with'[u] = with[u]
       /\ \A u \in Threads \ {t} : os'[u] = os[u] /\ reachable'[u] = reachable[u]
    BY <1>t, <2>1, Zenon
  <2>4 ThreadInv(t)' BY <1>0, <1>n, <2>1, <2>2 DEF ThreadInv, Running, Freeing
  <2>5 MachineInv(v)' /\ MachineInv(t)'
    BY <1>0, <2>1, <2>2, Zenon DEF MachineInv, Busy
  <2>6 state[t] # "new" /\ state'[v] \in Running BY <1>0, <2>2 DEF Running
  <2> QED BY <1>s, <1>w, <2>1, <2>3, <2>4, <2>5, <2>6, PairStep, Zenon
<1> QED BY <1>1, <1>2, <1>3, Zenon

\* Thread#join has joined its Thread: what both of its ends rest on.
LEMMA JoinFacts ==
  ASSUME ThreadsTypeOK, OwnersInv, NEW v \in Machines, state[v] = "join",
         os[with[v]] # "running"
  PROVE  /\ with[v] \in Threads /\ with[v] \in Machines /\ with[v] # v
         /\ state[with[v]] \in {"end"} \cup Freeing
         /\ Joined(os[with[v]]) \in {"joined", "joined twice"}
         /\ ~spent[with[v]] => Joined(os[with[v]]) = "joined"
         /\ os[with[v]] # "none" /\ owner[with[v]] = v /\ owner[with[v]] # None
         /\ ThreadInv(with[v])
<1>1 state[v] \in Busy BY DEF Busy
<1>2 /\ with[v] \in Threads /\ with[v] \in Machines /\ owner[with[v]] = v /\ v # with[v]
     /\ ThreadInv(with[v]) /\ MachineInv(v)
  BY <1>1, BusyWith, Zenon
<1>3 ~joined[with[v]] /\ os[with[v]] # "none" BY <1>2, Zenon DEF MachineInv
<1>4 /\ state[with[v]] \in States
     /\ os[with[v]] \in {"none", "running", "ended", "joined", "joined twice"}
  BY <1>2, Zenon DEF ThreadsTypeOK
<1>5 state[with[v]] \in {"end"} \cup Freeing
  <2>1 state[with[v]] \notin Running /\ state[with[v]] # "none" BY <1>2, <1>3, Zenon DEF ThreadInv
  <2> QED BY <1>4, <2>1 DEF States, Running, Freeing
<1>6 ~spent[with[v]] => os[with[v]] = "ended"
  <2>1 ~spent[with[v]] => os[with[v]] # "joined" /\ os[with[v]] # "joined twice"
    BY <1>2, <1>3, Zenon DEF ThreadInv
  <2> QED BY <1>3, <1>4, <2>1
<1>7 /\ Joined(os[with[v]]) \in {"joined", "joined twice"}
     /\ ~spent[with[v]] => Joined(os[with[v]]) = "joined"
  BY <1>6, Zenon DEF Joined
<1>8 owner[with[v]] # None BY <1>2, RootAssumption DEF Machines
<1> QED BY <1>2, <1>3, <1>5, <1>7, <1>8, Zenon

\* Thread#join returns, or its failure is rescued.
LEMMA JoinStep ==
  ASSUME ThreadsTypeOK, OwnersInv, NEW v \in Machines, JoinReturns(v) \/ JoinFailureRescued(v)
  PROVE  OwnersInv'
<1>s /\ state[v] = "join" /\ state[v] \in Busy /\ state[v] \in Running
     /\ os[with[v]] # "running"
  BY Zenon DEF JoinReturns, JoinFailureRescued, Busy, Running
<1>w PICK t \in Threads : with[v] = t BY <1>s, JoinFacts, Zenon
<1>0 /\ t \in Machines /\ t # v /\ state[t] \in {"end"} \cup Freeing /\ ThreadInv(t)
     /\ os[t] # "none" /\ owner[t] # None
     /\ Joined(os[t]) \in {"joined", "joined twice"}
     /\ ~spent[t] => Joined(os[t]) = "joined"
  BY <1>s, <1>w, JoinFacts, Zenon
<1>t /\ state \in [Machines -> States] /\ with \in [Machines -> Threads \cup {None}]
     /\ os \in [Threads -> {"none", "running", "ended", "joined", "joined twice"}]
     /\ joined \in [Threads -> BOOLEAN] /\ spent \in [Threads -> BOOLEAN]
  BY Zenon DEF ThreadsTypeOK
<1>1 /\ os' = [os EXCEPT ![t] = Joined(@)]
     /\ state' = [state EXCEPT ![v] = "run"] /\ with' = [with EXCEPT ![v] = None]
     /\ UNCHANGED <<owner, slot, reachable>>
  BY <1>w, Zenon DEF JoinReturns, JoinFailureRescued, pthread_join, Becomes
<1>2 \/ joined' = [joined EXCEPT ![t] = TRUE] /\ spent' = spent
     \/ spent' = [spent EXCEPT ![t] = TRUE] /\ joined' = joined
  BY <1>w, Zenon DEF JoinReturns, JoinFailureRescued
<1>m /\ \/ joined'[t] = TRUE /\ spent'[t] = spent[t]
        \/ spent'[t] = TRUE /\ joined'[t] = joined[t]
     /\ \A u \in Threads \ {t} : joined'[u] = joined[u] /\ spent'[u] = spent[u]
  BY <1>2, <1>t, Zenon
<1>3 /\ os'[t] = Joined(os[t]) /\ state'[v] = "run" /\ state'[t] = state[t]
     /\ \A u \in Threads \ {t} : os'[u] = os[u]
     /\ \A w \in Machines \ {v} : state'[w] = state[w] /\ with'[w] = with[w]
  BY <1>0, <1>1, <1>t, Zenon
<1>4 ThreadInv(t)'
  <2>1 state[t] \notin Running /\ state[t] # "none" BY <1>0 DEF Running, Freeing
  <2>2 os'[t] \in {"joined", "joined twice"} /\ (~spent'[t] => os'[t] = "joined")
    BY <1>0, <1>m, <1>3, Zenon
  <2>3 os'[t] # "none" /\ (os'[t] = "joined" => os'[t] # "joined twice") BY <2>2
  <2> QED BY <1>0, <1>1, <1>m, <1>3, <2>1, <2>2, <2>3, Zenon DEF ThreadInv
<1>5 MachineInv(v)' /\ MachineInv(t)'
  <2>1 MachineInv(v)' BY <1>3 DEF MachineInv, Busy
  <2>2 MachineInv(t) /\ state[t] # "join" /\ state[v] # "none"
    <3>1 state[t] # "join" /\ state[v] # "none" BY <1>0, <1>s DEF Freeing
    <3> QED BY <1>0, <3>1, Zenon DEF OwnersInv
  <2>3 \A w \in Machines : state'[w] = "none" <=> state[w] = "none"
    <3>1 state'[v] # "none" BY <1>3
    <3> QED BY <1>3, <2>2, <3>1, Zenon
  <2>4 state[t] \in Busy => with[t] \in Machines BY <2>2, Zenon DEF MachineInv, Machines
  <2>5 state'[t] = state[t] /\ with'[t] = with[t] BY <1>0, <1>3, Zenon
  <2>6 state[t] = "none" => \A u \in Threads : owner'[u] # t BY <1>1, <2>2, Zenon DEF MachineInv
  <2>7 MachineInv(t)' BY <1>0, <1>1, <2>2, <2>3, <2>4, <2>5, <2>6, MachineFrame, Zenon
  <2> QED BY <2>1, <2>7
<1>6 state[t] # "new" /\ state'[v] \in Running BY <1>0, <1>3 DEF Running, Freeing
<1>7 /\ \A w \in Machines \ {v, t} : state'[w] = state[w]
     /\ \A u \in Threads \ {t} : /\ owner'[u] = owner[u] /\ slot'[u] = slot[u] /\ os'[u] = os[u]
                                 /\ joined'[u] = joined[u] /\ spent'[u] = spent[u]
                                 /\ reachable'[u] = reachable[u]
  BY <1>1, <1>m, <1>3, Zenon
<1> QED BY <1>s, <1>w, <1>1, <1>3, <1>4, <1>5, <1>6, <1>7, PairStep, Zenon

\* Thread#join runs out of memory: the Thread is joined and the VM ends.
LEMMA JoinFailsStep ==
  ASSUME ThreadsTypeOK, OwnersInv, NEW v \in Machines, JoinRunsOutOfMemory(v)
  PROVE  OwnersInv'
<1>s /\ state[v] = "join" /\ state[v] \in Busy /\ state[v] \in Running
     /\ os[with[v]] # "running"
  BY Zenon DEF JoinRunsOutOfMemory, Busy, Running
<1>w PICK t \in Threads : with[v] = t BY <1>s, JoinFacts, Zenon
<1>0 /\ t \in Machines /\ t # v /\ state[t] \in {"end"} \cup Freeing /\ ThreadInv(t)
     /\ os[t] # "none" /\ owner[t] # None
     /\ Joined(os[t]) \in {"joined", "joined twice"}
     /\ ~spent[t] => Joined(os[t]) = "joined"
  BY <1>s, <1>w, JoinFacts, Zenon
<1>t /\ state \in [Machines -> States] /\ with \in [Machines -> Threads \cup {None}]
     /\ os \in [Threads -> {"none", "running", "ended", "joined", "joined twice"}]
     /\ spent \in [Threads -> BOOLEAN]
  BY Zenon DEF ThreadsTypeOK
<1>1 /\ spent' = [spent EXCEPT ![t] = TRUE]
     /\ state' = [state EXCEPT ![v] = "end"] /\ with' = [with EXCEPT ![v] = None]
     /\ UNCHANGED <<owner, slot, joined, reachable>>
  BY <1>w, Zenon DEF JoinRunsOutOfMemory, Becomes
<1>2 /\ os'[t] = Joined(os[t]) /\ (v \in Threads => os'[v] = "ended")
     /\ \A u \in Threads \ {t, v} : os'[u] = os[u]
  <2>1 os' = [u \in Threads |-> CASE u = with[v] -> Joined(os[u]) [] u = v -> "ended"
                                  [] OTHER -> os[u]]
    BY DEF JoinRunsOutOfMemory
  <2> QED BY <1>0, <1>w, <2>1
<1>3 /\ spent'[t] = TRUE /\ state'[v] = "end" /\ state'[t] = state[t]
     /\ \A u \in Threads \ {t} : spent'[u] = spent[u]
     /\ \A w \in Machines \ {v} : state'[w] = state[w] /\ with'[w] = with[w]
  BY <1>0, <1>1, <1>t, Zenon
<1>4 ThreadInv(t)'
  <2>1 state[t] \notin Running /\ state[t] # "none" BY <1>0 DEF Running, Freeing
  <2>2 os'[t] \in {"joined", "joined twice"} BY <1>0, <1>2, Zenon
  <2>3 os'[t] # "none" BY <2>2
  <2> QED BY <1>0, <1>1, <1>3, <2>1, <2>2, <2>3, Zenon DEF ThreadInv
<1>5 MachineInv(v)' /\ MachineInv(t)'
  <2>1 MachineInv(v)' BY <1>3 DEF MachineInv, Busy
  <2>2 MachineInv(t) /\ state[t] # "join" /\ state[v] # "none"
    <3>1 state[t] # "join" /\ state[v] # "none" BY <1>0, <1>s DEF Freeing
    <3> QED BY <1>0, <3>1, Zenon DEF OwnersInv
  <2>3 \A w \in Machines : state'[w] = "none" <=> state[w] = "none"
    <3>1 state'[v] # "none" BY <1>3
    <3> QED BY <1>3, <2>2, <3>1, Zenon
  <2>4 state[t] \in Busy => with[t] \in Machines BY <2>2, Zenon DEF MachineInv, Machines
  <2>5 state'[t] = state[t] /\ with'[t] = with[t] BY <1>0, <1>3, Zenon
  <2>6 state[t] = "none" => \A u \in Threads : owner'[u] # t BY <1>1, <2>2, Zenon DEF MachineInv
  <2>7 MachineInv(t)' BY <1>0, <1>1, <2>2, <2>3, <2>4, <2>5, <2>6, MachineFrame, Zenon
  <2> QED BY <2>1, <2>7
<1>6 ASSUME v \in Threads PROVE ThreadInv(v)' /\ os'[v] # "none"
  <2>1 ThreadInv(v) BY <1>6, Zenon DEF OwnersInv
  <2>2 os[v] = "running" /\ state[v] # "none" BY <1>s, <2>1 DEF ThreadInv
  <2>3 os'[v] = "ended" /\ spent'[v] = spent[v] BY <1>0, <1>2, <1>3, <1>6, Zenon
  <2>4 ~joined[v] /\ ~spent[v] BY <2>1, <2>2 DEF ThreadInv
  <2> QED BY <1>1, <1>3, <2>1, <2>2, <2>3, <2>4, Zenon DEF ThreadInv, Running, Freeing
<1>7 state[t] # "new" /\ state'[v] # "none" BY <1>0, <1>3 DEF Freeing
<1>8 /\ \A w \in Machines \ {v, t} : state'[w] = state[w]
     /\ \A w \in Machines \ {v} : with'[w] = with[w]
     /\ \A u \in Threads \ {t} : /\ owner'[u] = owner[u] /\ slot'[u] = slot[u]
                                 /\ joined'[u] = joined[u] /\ spent'[u] = spent[u]
                                 /\ reachable'[u] = reachable[u]
  BY <1>1, <1>3, Zenon
<1>9 owner'[t] = owner[t] BY <1>1, Zenon
<1> QED BY <1>s, <1>w, <1>2, <1>4, <1>5, <1>6, <1>7, <1>8, <1>9, PairMoves, Zenon

\* free_thread joins a Thread and begins to free its VM.
LEMMA FreeStep ==
  ASSUME ThreadsTypeOK, OwnersInv, NEW v \in Machines, FreeJoins(v)
  PROVE  OwnersInv'
<1>s /\ state[v] \in Busy
     /\ state[v] \in Running \/ state[v] \in Freeing
  BY Zenon DEF FreeJoins, Busy, Running, Freeing
<1>w PICK t \in Threads : with[v] = t BY <1>s, BusyWith, Zenon
<1>0 owner[t] = v /\ v # t /\ ThreadInv(t) /\ MachineInv(v)
  BY <1>s, <1>w, BusyWith, Zenon
<1>t /\ state \in [Machines -> States] /\ t \in Machines
     /\ os \in [Threads -> {"none", "running", "ended", "joined", "joined twice"}]
     /\ joined \in [Threads -> BOOLEAN]
  BY Zenon DEF ThreadsTypeOK, Machines
<1>1 /\ state[t] = "end" /\ state[v] \in {"sweep", "wait"}
     /\ state' = [state EXCEPT ![t] = "free"]
     /\ UNCHANGED <<owner, slot, with, spent, reachable>>
     /\ \/ /\ os[t] # "none" /\ ~joined[t] /\ joined' = [joined EXCEPT ![t] = TRUE]
           /\ os' = [os EXCEPT ![t] = Joined(@)]
        \/ (os[t] = "none" \/ joined[t]) /\ UNCHANGED <<os, joined>>
  BY <1>w, Zenon DEF FreeJoins, pthread_join
<1>2 /\ state'[t] = "free" /\ state'[v] = state[v]
     /\ \A w \in Machines \ {t} : state'[w] = state[w]
  BY <1>0, <1>1, <1>t, Zenon
<1>3 /\ os'[t] \in {"none", "joined", "joined twice"}
     /\ spent[t] => os'[t] \in {"joined", "joined twice"}
     /\ ~spent[t] => os'[t] # "joined twice" /\ (joined'[t] <=> os'[t] = "joined")
     /\ os'[t] # "none" => os[t] # "none"
     /\ os[t] # "none" => os'[t] # "none"
  <2>1 CASE os[t] # "none" /\ ~joined[t] /\ joined' = [joined EXCEPT ![t] = TRUE]
              /\ os' = [os EXCEPT ![t] = Joined(@)]
    <3>1 ~spent[t] => os[t] = "ended" BY <1>0, <1>1, <2>1 DEF ThreadInv
    <3>2 os'[t] = Joined(os[t]) /\ joined'[t] BY <1>t, <2>1, Zenon
    <3>3 /\ Joined(os[t]) \in {"joined", "joined twice"}
         /\ ~spent[t] => Joined(os[t]) = "joined"
      BY <3>1, Zenon DEF Joined
    <3>4 os'[t] # "none" /\ (os'[t] = "joined" => os'[t] # "joined twice") BY <3>2, <3>3
    <3> QED BY <2>1, <3>2, <3>3, <3>4, Zenon
  <2>2 CASE (os[t] = "none" \/ joined[t]) /\ UNCHANGED <<os, joined>>
    <3>1 os[t] = "none" \/ os[t] \in {"joined", "joined twice"}
      BY <1>0, <2>2, Zenon DEF ThreadInv
    <3> QED BY <1>0, <2>2, <3>1, Zenon DEF ThreadInv
  <2> QED BY <1>1, <2>1, <2>2, Zenon
<1>4 \A u \in Threads \ {t} : os'[u] = os[u] /\ joined'[u] = joined[u] BY <1>1, <1>t, Zenon
<1>5 ThreadInv(t)'
  <2>1 owner[t] # None BY <1>0, RootAssumption DEF Machines
  <2>2 slot[t] # "no" BY <1>0, <1>1 DEF ThreadInv
  <2> QED BY <1>0, <1>1, <1>2, <1>3, <2>1, <2>2, Zenon DEF ThreadInv, Running, Freeing
<1>6 MachineInv(v)' /\ MachineInv(t)'
  BY <1>0, <1>1, <1>2, <1>w, Zenon DEF MachineInv, Busy
<1>7 state[t] # "new" /\ \/ state[v] \in Running /\ state'[v] \in Running
                         \/ state[v] \in Freeing /\ state'[v] \in Freeing
  BY <1>1, <1>2, <1>s, Zenon
<1> QED BY <1>s, <1>w, <1>1, <1>2, <1>4, <1>5, <1>6, <1>7, PairStep, Zenon

\* free_thread has freed its VM.
LEMMA FreedStep ==
  ASSUME ThreadsTypeOK, OwnersInv, NEW v \in Machines, FreeReturns(v)
  PROVE  OwnersInv'
<1>s /\ state[v] \in Busy
     /\ (state[v] \in Running /\ state[v] = "sweep") \/ (state[v] \in Freeing /\ state[v] = "wait")
  BY Zenon DEF FreeReturns, Busy, Running, Freeing
<1>w PICK t \in Threads : with[v] = t BY <1>s, BusyWith, Zenon
<1>0 owner[t] = v /\ v # t /\ t \in Machines BY <1>s, <1>w, BusyWith, Zenon
<1>t /\ state \in [Machines -> States] /\ with \in [Machines -> Threads \cup {None}]
     /\ owner \in [Threads -> Machines \cup {None}]
     /\ slot \in [Threads -> {"no", "reserved", "surplus"}]
     /\ os \in [Threads -> {"none", "running", "ended", "joined", "joined twice"}]
     /\ joined \in [Threads -> BOOLEAN] /\ reachable \in [Threads -> BOOLEAN]
     /\ spent \in [Threads -> BOOLEAN]
  BY Zenon DEF ThreadsTypeOK
<1>1 /\ state[t] = "free" /\ \A u \in Threads : owner[u] # t
     /\ owner' = [owner EXCEPT ![t] = None] /\ slot' = [slot EXCEPT ![t] = "no"]
     /\ os' = [os EXCEPT ![t] = "none"] /\ joined' = [joined EXCEPT ![t] = FALSE]
     /\ spent' = [spent EXCEPT ![t] = FALSE]
     /\ reachable' = [reachable EXCEPT ![t] = FALSE]
     /\ state' = [state EXCEPT ![t] = "none", ![v] = IF @ = "sweep" THEN "run" ELSE "free"]
     /\ with' = [with EXCEPT ![v] = None]
  BY <1>w, Zenon DEF FreeReturns
<1>2 /\ owner'[t] = None /\ slot'[t] = "no" /\ os'[t] = "none" /\ ~joined'[t] /\ ~spent'[t]
     /\ ~reachable'[t]
     /\ \A u \in Threads \ {t} : /\ owner'[u] = owner[u] /\ slot'[u] = slot[u] /\ os'[u] = os[u]
                                 /\ joined'[u] = joined[u] /\ spent'[u] = spent[u]
                                 /\ reachable'[u] = reachable[u]
     /\ \A w \in Machines \ {v} : with'[w] = with[w]
  BY <1>1, <1>t, Zenon
<1>3 /\ state'[t] = "none" /\ \A w \in Machines \ {v, t} : state'[w] = state[w]
     /\ (state[v] = "sweep" /\ state'[v] = "run") \/ (state[v] = "wait" /\ state'[v] = "free")
  BY <1>0, <1>1, <1>s, <1>t, Zenon
<1>4 ThreadInv(t)'
  <2>1 t # None BY RootAssumption
  <2> QED BY <1>2, <1>3, <2>1, Zenon DEF ThreadInv, Running, Freeing
<1>5 MachineInv(v)' /\ MachineInv(t)'
  <2>1 t # None BY RootAssumption
  <2>2 \A u \in Threads : owner'[u] # t BY <1>1, <1>2, <2>1, Zenon
  <2> QED BY <1>3, <2>2, Zenon DEF MachineInv, Busy
<1>6 state[t] # "new" /\ \/ state[v] \in Running /\ state'[v] \in Running
                         \/ state[v] \in Freeing /\ state'[v] \in Freeing
  BY <1>1, <1>3, Zenon DEF Running, Freeing
<1> QED BY <1>s, <1>w, <1>2, <1>3, <1>4, <1>5, <1>6, PairStep, Zenon

\* How the count and the slots move together.
SlotsMove ==
  \/ UNCHANGED <<slot, count>>
  \/ \E t \in Threads :
       /\ slot[t] = "no" /\ count' = count + 1
       /\ slot' = [slot EXCEPT ![t] = IF count < Limit THEN "reserved" ELSE "surplus"]
  \/ \E t \in Threads :
       /\ slot[t] # "no" /\ count' = count - 1
       /\ slot' = [slot EXCEPT ![t] = "no"]

\* Only Thread.new and free_thread touch them, once for every Thread.
LEMMA SlotsStep ==
  ASSUME ThreadsTypeOK, OwnersInv, [ThreadsNext]_threadvars
  PROVE  SlotsMove
<1>0 CASE UNCHANGED <<slot, count>> BY <1>0, Zenon DEF SlotsMove
<1>1 ASSUME NEW v \in Machines, NewReserves(v) PROVE SlotsMove
  <2>1 state[v] \in Busy BY <1>1 DEF NewReserves, Busy
  <2>2 with[v] \in Threads BY <2>1, BusyWith, Zenon
  <2> QED BY <1>1, <2>2, Zenon DEF SlotsMove, NewReserves, diamond_reserve_thread_slot
<1>2 ASSUME NEW v \in Machines, FreeReturns(v) PROVE SlotsMove
  <2>1 state[v] \in Busy /\ state[with[v]] # "none" BY <1>2 DEF FreeReturns, Busy
  <2>2 with[v] \in Threads /\ slot[with[v]] # "no" BY <2>1, BusyWith, Zenon DEF ThreadInv
  <2> QED BY <1>2, <2>2, Zenon DEF SlotsMove, FreeReturns
<1>3 ASSUME NEW v \in Machines, NEW t \in Threads,
            NewBegins(v, t) \/ JoinBegins(v, t) \/ Sweep(v, t) \/ FreeNext(v, t)
     PROVE  UNCHANGED <<slot, count>>
  BY <1>3, Zenon DEF NewBegins, JoinBegins, Sweep, FreeNext
<1>4 ASSUME NEW v \in Machines, \/ NewFails(v) \/ JoinReturns(v) \/ JoinRunsOutOfMemory(v)
                                \/ JoinFailureRescued(v) \/ JoinInterrupted(v) \/ FreeJoins(v)
                                \/ \E allocated \in BOOLEAN : NewStarts(v, allocated)
     PROVE  UNCHANGED <<slot, count>>
  BY <1>4, Zenon DEF NewFails, JoinReturns, JoinRunsOutOfMemory, JoinFailureRescued, JoinInterrupted,
                     FreeJoins, NewStarts
<1>5 CASE (\E t \in Threads : ThreadEnds(t) \/ Drop(t)) \/ Interrupt \/ RootEnds \/ RootStartsAgain
  BY <1>0, <1>5, Zenon DEF ThreadEnds, Drop, Interrupt, RootEnds, RootStartsAgain
<1>6 CASE UNCHANGED threadvars BY <1>0, <1>6, Zenon DEF threadvars
<1> QED BY <1>0, <1>1, <1>2, <1>3, <1>4, <1>5, <1>6, Zenon DEF ThreadsNext

\* The types, for Thread.new and Thread#join.
LEMMA NewTypes ==
  ASSUME ThreadsTypeOK, OwnersInv, NEW v \in Machines,
         \/ \E t \in Threads : NewBegins(v, t) \/ JoinBegins(v, t)
         \/ NewReserves(v) \/ NewFails(v) \/ \E allocated \in BOOLEAN : NewStarts(v, allocated)
         \/ JoinReturns(v) \/ JoinRunsOutOfMemory(v) \/ JoinFailureRescued(v) \/ JoinInterrupted(v)
  PROVE  ThreadsTypeOK'
<1>1 ASSUME NEW t \in Threads, NewBegins(v, t) \/ JoinBegins(v, t) PROVE ThreadsTypeOK'
  <2>1 "new" \in States /\ "join" \in States BY DEF States
  <2>2 state' \in [Machines -> States] /\ with' \in [Machines -> Threads \cup {None}]
    <3>1 PICK s \in States : state' = [state EXCEPT ![v] = s] /\ with' = [with EXCEPT ![v] = t]
      BY <1>1, <2>1, Zenon DEF NewBegins, JoinBegins, Becomes
    <3>2 state \in [Machines -> States] /\ with \in [Machines -> Threads \cup {None}]
      BY Zenon DEF ThreadsTypeOK
    <3> QED BY <3>1, <3>2, Zenon
  <2>3 owner' = owner \/ owner' = [owner EXCEPT ![t] = v] BY <1>1, Zenon DEF NewBegins, JoinBegins
  <2>4 owner' \in [Threads -> Machines \cup {None}] BY <2>3, Zenon DEF ThreadsTypeOK
  <2> QED BY <1>1, <2>2, <2>4, Zenon DEF NewBegins, JoinBegins, ThreadsTypeOK
<1>b state[v] \in Busy => with[v] \in Threads /\ with[v] \in Machines BY BusyWith, Zenon
<1>2 CASE NewReserves(v)
  <2>1 with[v] \in Threads BY <1>2, <1>b DEF NewReserves, Busy
  <2>2 slot' \in [Threads -> {"no", "reserved", "surplus"}]
    BY <1>2, <2>1, Zenon DEF NewReserves, diamond_reserve_thread_slot, ThreadsTypeOK
  <2>3 count' \in Int
    <3>1 \A c \in Int : c + 1 \in Int OBVIOUS
    <3> QED BY <1>2, <3>1, Zenon DEF NewReserves, ThreadsTypeOK
  <2> QED BY <1>2, <2>2, <2>3, Zenon DEF NewReserves, ThreadsTypeOK
<1>3 CASE NewFails(v)
  <2>1 with[v] \in Machines BY <1>3, <1>b DEF NewFails, Busy
  <2> QED BY <1>3, <2>1, Zenon DEF NewFails, ThreadsTypeOK, States
<1>4 ASSUME NEW allocated \in BOOLEAN, NewStarts(v, allocated) PROVE ThreadsTypeOK'
  <2>1 with[v] \in Threads /\ with[v] \in Machines BY <1>4, <1>b DEF NewStarts, Busy
  <2>2 UNCHANGED <<owner, slot, joined, spent, told, count>> BY <1>4, Zenon DEF NewStarts
  <2>3 /\ os' = [os EXCEPT ![with[v]] = "running"]
       /\ reachable' = [reachable EXCEPT ![with[v]] = allocated]
    BY <1>4, Zenon DEF NewStarts
  <2>4 /\ os' \in [Threads -> {"none", "running", "ended", "joined", "joined twice"}]
       /\ reachable' \in [Threads -> BOOLEAN]
    BY <2>1, <2>3, Zenon DEF ThreadsTypeOK
  <2>5 with' = [with EXCEPT ![v] = None] \/ with' = [with EXCEPT ![v] = with[v]]
    BY <1>4, Zenon DEF NewStarts
  <2>6 with' \in [Machines -> Threads \cup {None}] BY <2>1, <2>5, Zenon DEF ThreadsTypeOK
  <2>7 \E s \in {"run", "sweep"} : state' = [state EXCEPT ![v] = s, ![with[v]] = "run"]
    BY <1>4, Zenon DEF NewStarts
  <2>8 state' \in [Machines -> States] BY <2>1, <2>7 DEF ThreadsTypeOK, States
  <2> QED BY <2>2, <2>4, <2>6, <2>8, Zenon DEF ThreadsTypeOK
<1>5 CASE JoinReturns(v)
  <2>1 with[v] \in Threads BY <1>5, <1>b DEF JoinReturns, Busy
  <2> QED BY <1>5, <2>1, Zenon DEF JoinReturns, pthread_join, Joined, Becomes, ThreadsTypeOK,
                                   States
<1>8 CASE JoinFailureRescued(v)
  <2>1 with[v] \in Threads BY <1>8, <1>b DEF JoinFailureRescued, Busy
  <2> QED BY <1>8, <2>1, Zenon DEF JoinFailureRescued, pthread_join, Joined, Becomes, ThreadsTypeOK,
                                   States
<1>7 CASE JoinRunsOutOfMemory(v)
  <2>1 with[v] \in Threads BY <1>7, <1>b DEF JoinRunsOutOfMemory, Busy
  <2>2 state' \in [Machines -> States] /\ with' \in [Machines -> Threads \cup {None}]
    BY <1>7, Zenon DEF JoinRunsOutOfMemory, Becomes, ThreadsTypeOK, States
  <2>3 spent' \in [Threads -> BOOLEAN]
    BY <1>7, <2>1, Zenon DEF JoinRunsOutOfMemory, ThreadsTypeOK
  <2>4 os' \in [Threads -> {"none", "running", "ended", "joined", "joined twice"}]
    <3>1 \A x : Joined(x) \in {"joined", "joined twice"} BY Zenon DEF Joined
    <3>2 os \in [Threads -> {"none", "running", "ended", "joined", "joined twice"}]
      BY Zenon DEF ThreadsTypeOK
    <3> QED BY <1>7, <3>1, <3>2 DEF JoinRunsOutOfMemory
  <2> QED BY <1>7, <2>2, <2>3, <2>4, Zenon DEF JoinRunsOutOfMemory, ThreadsTypeOK
<1>6 CASE JoinInterrupted(v)
  <2>1 state' \in [Machines -> States] /\ with' \in [Machines -> Threads \cup {None}]
    BY <1>6, Zenon DEF JoinInterrupted, Becomes, ThreadsTypeOK, States
  <2>2 os' \in [Threads -> {"none", "running", "ended", "joined", "joined twice"}]
    BY <1>6, Zenon DEF JoinInterrupted, ThreadsTypeOK, Machines
  <2> QED BY <1>6, <2>1, <2>2, Zenon DEF JoinInterrupted, ThreadsTypeOK
<1> QED BY <1>1, <1>2, <1>3, <1>4, <1>5, <1>6, <1>7, <1>8, Zenon

\* The types, for the end of a Thread and the root.
LEMMA FreeTypes ==
  ASSUME ThreadsTypeOK, OwnersInv,
         \/ \E v \in Machines : \/ \E t \in Threads : Sweep(v, t) \/ FreeNext(v, t)
                                \/ FreeJoins(v) \/ FreeReturns(v)
         \/ \E t \in Threads : ThreadEnds(t) \/ Drop(t)
         \/ Interrupt \/ RootEnds \/ RootStartsAgain
  PROVE  ThreadsTypeOK'
<1>m Root \in Machines /\ Threads \subseteq Machines BY DEF Machines
<1>1 ASSUME NEW v \in Machines, NEW t \in Threads, Sweep(v, t) PROVE ThreadsTypeOK'
  BY <1>1, Zenon DEF Sweep, Becomes, ThreadsTypeOK, States
<1>2 ASSUME NEW v \in Machines, NEW t \in Threads, FreeNext(v, t) PROVE ThreadsTypeOK'
  <2>1 told' = [told EXCEPT ![t] = @ \/ (os[t] # "none" /\ ~joined[t])] \/ UNCHANGED told
    BY <1>2, Zenon DEF FreeNext, thread_interrupt
  <2>2 told' \in [Machines -> BOOLEAN] BY <1>m, <2>1, Zenon DEF ThreadsTypeOK
  <2>3 state' \in [Machines -> States] /\ with' \in [Machines -> Threads \cup {None}]
    BY <1>2, Zenon DEF FreeNext, Becomes, ThreadsTypeOK, States
  <2> QED BY <1>2, <2>2, <2>3, Zenon DEF FreeNext, ThreadsTypeOK
<1>3 ASSUME NEW v \in Machines, FreeJoins(v) \/ FreeReturns(v)
     PROVE  with[v] \in Threads /\ with[v] \in Machines
  <2>1 state[v] \in Busy BY <1>3 DEF FreeJoins, FreeReturns, Busy
  <2> QED BY <2>1, BusyWith, Zenon
<1>4 ASSUME NEW v \in Machines, FreeJoins(v) PROVE ThreadsTypeOK'
  <2>1 with[v] \in Threads /\ with[v] \in Machines BY <1>3, <1>4, Zenon
  <2>2 os' \in [Threads -> {"none", "running", "ended", "joined", "joined twice"}]
    <3>1 os' = os \/ \E x \in {"joined", "joined twice"} : os' = [os EXCEPT ![with[v]] = x]
      BY <1>4, Zenon DEF FreeJoins, pthread_join, Joined
    <3> QED BY <2>1, <3>1, Zenon DEF ThreadsTypeOK
  <2>3 joined' \in [Threads -> BOOLEAN]
    BY <1>4, <2>1, Zenon DEF FreeJoins, ThreadsTypeOK
  <2>4 state' \in [Machines -> States] BY <1>4, <2>1 DEF FreeJoins, ThreadsTypeOK, States
  <2> QED BY <1>4, <2>2, <2>3, <2>4, Zenon DEF FreeJoins, ThreadsTypeOK
<1>5 ASSUME NEW v \in Machines, FreeReturns(v) PROVE ThreadsTypeOK'
  <2>1 with[v] \in Threads /\ with[v] \in Machines BY <1>3, <1>5, Zenon
  <2>2 /\ joined' \in [Threads -> BOOLEAN] /\ spent' \in [Threads -> BOOLEAN]
       /\ reachable' \in [Threads -> BOOLEAN]
       /\ told' \in [Machines -> BOOLEAN]
    BY <1>5, <2>1, Zenon DEF FreeReturns, ThreadsTypeOK
  <2>3 /\ owner' \in [Threads -> Machines \cup {None}]
       /\ slot' \in [Threads -> {"no", "reserved", "surplus"}]
       /\ os' \in [Threads -> {"none", "running", "ended", "joined", "joined twice"}]
    BY <1>5, <2>1, Zenon DEF FreeReturns, ThreadsTypeOK
  <2>4 with' \in [Machines -> Threads \cup {None}]
    BY <1>5, <2>1, Zenon DEF FreeReturns, ThreadsTypeOK
  <2>5 count' \in Int
    <3>1 \A c \in Int : c - 1 \in Int OBVIOUS
    <3> QED BY <1>5, <3>1, Zenon DEF FreeReturns, ThreadsTypeOK
  <2>6 state' \in [Machines -> States]
    <3>1 \E s \in {"run", "free"} : state' = [state EXCEPT ![with[v]] = "none", ![v] = s]
      BY <1>5, Zenon DEF FreeReturns
    <3> QED BY <2>1, <3>1, Zenon DEF ThreadsTypeOK, States
  <2> QED BY <2>2, <2>3, <2>4, <2>5, <2>6, Zenon DEF ThreadsTypeOK
<1>6 ASSUME NEW t \in Threads, ThreadEnds(t) PROVE ThreadsTypeOK'
  BY <1>m, <1>6, Zenon DEF ThreadEnds, ThreadsTypeOK, States
<1>7 ASSUME NEW t \in Threads, Drop(t) PROVE ThreadsTypeOK'
  BY <1>7, Zenon DEF Drop, ThreadsTypeOK
<1>8 CASE Interrupt BY <1>m, <1>8, Zenon DEF Interrupt, ThreadsTypeOK
<1>9 CASE RootEnds \/ RootStartsAgain
  <2>0 "free" \in States /\ "run" \in States BY DEF States
  <2>1 state' \in [Machines -> States]
    BY <1>m, <1>9, <2>0, Zenon DEF RootEnds, RootStartsAgain, ThreadsTypeOK
  <2>2 told' \in [Machines -> BOOLEAN]
    BY <1>m, <1>9, Zenon DEF RootEnds, RootStartsAgain, ThreadsTypeOK
  <2> QED BY <1>9, <2>1, <2>2, Zenon DEF RootEnds, RootStartsAgain, ThreadsTypeOK
<1> QED BY <1>1, <1>2, <1>4, <1>5, <1>6, <1>7, <1>8, <1>9, Zenon

\* Every step keeps the invariant.
LEMMA OwnersStep ==
  ThreadsTypeOK /\ OwnersInv /\ [ThreadsNext]_threadvars => ThreadsTypeOK' /\ OwnersInv'
<1> SUFFICES ASSUME ThreadsTypeOK, OwnersInv, [ThreadsNext]_threadvars
             PROVE  ThreadsTypeOK' /\ OwnersInv'
  OBVIOUS
<1>1 CASE UNCHANGED threadvars
  <2>1 OwnersInv' BY <1>1, QuietThreads, Zenon DEF threadvars
  <2> QED BY <1>1, <2>1, Zenon DEF threadvars, ThreadsTypeOK
<1>2 ASSUME NEW t \in Threads, Drop(t) PROVE OwnersInv'
  <2>1 \A u \in Threads : reachable'[u] => reachable[u] BY <1>2, Zenon DEF Drop, ThreadsTypeOK
  <2> QED BY <1>2, <2>1, QuietThreads, Zenon DEF Drop
<1>3 ASSUME Interrupt PROVE OwnersInv'
  <2>1 UNCHANGED <<owner, slot, state, with, os, joined, spent, reachable>> BY <1>3, Zenon DEF Interrupt
  <2>2 \A u \in Threads : reachable'[u] => reachable[u] BY <2>1, Zenon
  <2> QED BY <2>1, <2>2, QuietThreads, Zenon
<1>4 ASSUME NEW t \in Threads, ThreadEnds(t) PROVE OwnersInv'
  BY <1>4, EndSteps, Zenon DEF Machines
<1>5 CASE ThreadsNext
  <2>1 ThreadsTypeOK' BY <1>5, NewTypes, FreeTypes, Zenon DEF ThreadsNext
  <2>2 OwnersInv'
    BY <1>2, <1>3, <1>4, <1>5, TurnSteps, RootSteps, EndSteps, NewStep, NewSteps, JoinStep,
       JoinFailsStep, FreeStep, FreedStep, Zenon DEF ThreadsNext
  <2> QED BY <2>1, <2>2, Zenon
<1> QED BY <1>1, <1>5, Zenon

\* Initially nobody but the root is there.
LEMMA OwnersInit == ThreadsInit => ThreadsTypeOK /\ OwnersInv
<1> SUFFICES ASSUME ThreadsInit PROVE ThreadsTypeOK /\ OwnersInv
  OBVIOUS
<1>1 ThreadsTypeOK
  BY DEF ThreadsInit, ThreadsTypeOK, States, Machines
<1>2 ASSUME NEW t \in Threads PROVE ThreadInv(t)
  <2>1 /\ t # Root /\ t # None /\ state[t] = "none" /\ os[t] = "none" /\ slot[t] = "no"
       /\ owner[t] = None
    BY RootAssumption, Zenon DEF ThreadsInit, Machines
  <2>2 ~joined[t] /\ ~spent[t] /\ ~reachable[t] BY Zenon DEF ThreadsInit
  <2> QED BY <2>1, <2>2, Zenon DEF ThreadInv, Running, Freeing
<1>3 ASSUME NEW v \in Machines PROVE MachineInv(v)
  <2>1 state[v] \in {"run", "none"} BY DEF ThreadsInit
  <2>2 \A t \in Threads : owner[t] # v BY RootAssumption DEF ThreadsInit, Machines
  <2> QED BY <2>1, <2>2, Zenon DEF MachineInv, Busy
<1> QED BY <1>1, <1>2, <1>3, Zenon DEF OwnersInv

\* ThreadJoinedOnce, for any number of Threads: Thread#join, the collector and the
\* owner's end together join a Thread at most once, and never free a running one;
\* only a join that ran out of memory afterwards is repeated.
THEOREM ThreadsAreJoinedOnce == ThreadsSpec => []ThreadJoinedOnce
<1>1 ThreadsTypeOK /\ OwnersInv => ThreadJoinedOnce
  <2> SUFFICES ASSUME ThreadsTypeOK, OwnersInv, NEW t \in Threads
               PROVE  /\ state[t] \in Freeing => os[t] # "running" /\ os[t] # "ended"
                      /\ ~spent[t] => os[t] # "joined twice" /\ (joined[t] <=> os[t] = "joined")
    BY Zenon DEF ThreadJoinedOnce, Freeing
  <2>1 ThreadInv(t) BY Zenon DEF OwnersInv
  <2>2 state[t] \in Freeing => os[t] # "running" /\ os[t] # "ended" BY <2>1 DEF ThreadInv
  <2> QED BY <2>1, <2>2, Zenon DEF ThreadInv
<1> QED BY <1>1, OwnersInit, OwnersStep, PTL DEF ThreadsSpec

-----------------------------------------------------------------------------
(***************************************************************************)
(* The counters.                                                           *)
(***************************************************************************)
INSTANCE FiniteSetTheorems

\* The users of a job are the VM that waits for it and its helper thread.
LEMMA JobUsers ==
  ASSUME NEW j \in Jobs, what[j] \in {"free", "resolver", "connect"}, JobInv(j)
  PROVE  LET users == Cardinality(Waiters(j)) +
                        IF helper[j] \in {"running", "finished"} THEN 1 ELSE 0
         IN /\ what[j] = "free" <=> users = 0
            /\ what[j] = "resolver" => refs[j] = users
<1> DEFINE helpers == IF helper[j] \in {"running", "finished"} THEN 1 ELSE 0
<1>1 Waiters(j) = {} => Cardinality(Waiters(j)) = 0 BY FS_EmptySet, Zenon
<1>2 Held(j) => Cardinality(Waiters(j)) = 1 BY FS_Singleton, Zenon DEF Held
<1>3 CASE what[j] = "free"
  <2>1 Cardinality(Waiters(j)) = 0 /\ helpers = 0 BY <1>1, <1>3 DEF JobInv
  <2> QED BY <1>3, <2>1
<1>4 CASE what[j] = "connect"
  <2>1 (Held(j) \/ Waiters(j) = {}) /\ (Held(j) \/ helper[j] = "running")
    BY <1>4, Zenon DEF JobInv
  <2>2 /\ Cardinality(Waiters(j)) = 1 \/ (Cardinality(Waiters(j)) = 0 /\ helpers = 1)
       /\ helpers \in {0, 1}
    BY <1>1, <1>2, <2>1, Zenon
  <2> QED BY <1>4, <2>2
<1>5 CASE what[j] = "resolver"
  <2>1 \/ Cardinality(Waiters(j)) = 1 /\ helpers = 1 /\ refs[j] = 2
       \/ Cardinality(Waiters(j)) = 0 /\ helpers = 1 /\ refs[j] = 1
       \/ Cardinality(Waiters(j)) = 1 /\ helpers = 0 /\ refs[j] = 1
    BY <1>1, <1>2, <1>5, Zenon DEF JobInv, Helped
  <2> QED BY <1>5, <2>1
<1> QED BY <1>3, <1>4, <1>5, Zenon

\* active is exact and within the limit.
ActiveInv == active = Cardinality(Resolving) /\ active <= ResolverLimit

\* Every step keeps it so.
LEMMA ActiveStep == ActiveInv /\ active \in Int /\ ResolvingMoves => ActiveInv'
<1> SUFFICES ASSUME active = Cardinality(Resolving), active <= ResolverLimit, active \in Int,
                    ResolvingMoves
             PROVE  ActiveInv'
  BY Zenon DEF ActiveInv
<1>1 IsFiniteSet(Resolving) BY JobsAssumption, FS_Subset, Zenon DEF Resolving
<1>2 ASSUME NEW j \in Jobs \ Resolving PROVE Cardinality(Resolving \cup {j}) = active + 1
  BY <1>1, FS_AddElement, Zenon
<1>3 ASSUME NEW j \in Resolving PROVE Cardinality(Resolving \ {j}) = active - 1
  BY <1>1, FS_RemoveElement, Zenon
<1>4 CASE active' = active /\ Resolving' = Resolving BY <1>4, Zenon DEF ActiveInv
<1>5 ASSUME NEW j \in Jobs \ Resolving, active < ResolverLimit, active' = active + 1,
            Resolving' = Resolving \cup {j}
     PROVE  ActiveInv'
  <2>1 active + 1 <= ResolverLimit BY <1>5, ResolverAssumption
  <2> QED BY <1>2, <1>5, <2>1, Zenon DEF ActiveInv
<1>6 ASSUME NEW j \in Resolving, active' = active - 1, Resolving' = Resolving \ {j}
     PROVE  ActiveInv'
  <2>1 active - 1 <= ResolverLimit BY ResolverAssumption
  <2> QED BY <1>3, <1>6, <2>1, Zenon DEF ActiveInv
<1> QED BY <1>4, <1>5, <1>6, Zenon DEF ResolvingMoves

\* JobsAreHeld, for any number of VMs and jobs: a job is freed once, by the last of
\* the VM and the helper thread to use it, and the resolver slots are counted exactly.
THEOREM JobsStayHeld == InterruptsSpec => []JobsAreHeld
<1> DEFINE I == HelperType /\ HeldInv /\ ActiveInv
<1>1 InterruptsInit => I
  <2> SUFFICES ASSUME InterruptsInit PROVE I
    OBVIOUS
  <2>1 HelperType BY DEF InterruptsInit, HelperType, Places
  <2>2 \A v \in Supervised : WaitInv(v) BY DEF InterruptsInit, WaitInv
  <2>3 \A j \in Jobs : Waiters(j) = {} BY JobsAssumption DEF InterruptsInit, Waiters
  <2>4 \A j \in Jobs : JobInv(j) BY <2>3 DEF InterruptsInit, JobInv
  <2>5 Resolving = {} BY DEF InterruptsInit, Resolving
  <2>6 ActiveInv BY <2>5, FS_EmptySet, ResolverAssumption DEF InterruptsInit, ActiveInv
  <2> QED BY <2>1, <2>2, <2>4, <2>6, Zenon DEF HeldInv
<1>2 I /\ [InterruptsNext]_stopvars => I'
  BY HeldStep, ActiveStep, Zenon DEF Kept, HelperType
<1>3 I => JobsAreHeld
  <2> SUFFICES ASSUME HelperType, HeldInv, ActiveInv PROVE JobsAreHeld
    OBVIOUS
  <2>1 \A j \in Jobs : what[j] \in {"free", "resolver", "connect"} /\ JobInv(j)
    BY Zenon DEF HelperType, HeldInv
  <2> QED BY <2>1, JobUsers, Zenon DEF JobsAreHeld, ActiveInv, Resolving
<1> QED BY <1>1, <1>2, <1>3, PTL DEF InterruptsSpec

\* What the slots and the count say together.
CountInv ==
  /\ Cardinality(Counted("reserved")) <= Limit
  /\ count = Cardinality(Counted("reserved")) + Cardinality(Counted("surplus"))

\* Every step keeps it so.
LEMMA CountsStep == ThreadsTypeOK /\ CountInv /\ SlotsMove => CountInv'
<1> SUFFICES ASSUME ThreadsTypeOK, CountInv, SlotsMove PROVE CountInv'
  OBVIOUS
<1> DEFINE R == Counted("reserved")
           S == Counted("surplus")
<1>t slot \in [Threads -> {"no", "reserved", "surplus"}] BY Zenon DEF ThreadsTypeOK
<1>f IsFiniteSet(R) /\ IsFiniteSet(S) BY ThreadsAssumption, FS_Subset, Zenon DEF Counted
<1>n Cardinality(R) \in Nat /\ Cardinality(S) \in Nat BY <1>f, FS_CardinalityType, Zenon
<1>c count = Cardinality(R) + Cardinality(S) /\ Cardinality(R) <= Limit BY Zenon DEF CountInv
<1>1 CASE UNCHANGED <<slot, count>>
  BY <1>1, Zenon DEF CountInv, Counted
<1>2 ASSUME NEW t \in Threads, slot[t] = "no", count' = count + 1,
            slot' = [slot EXCEPT ![t] = IF count < Limit THEN "reserved" ELSE "surplus"]
     PROVE  CountInv'
  <2>1 CASE count < Limit
    <3>1 R' = R \cup {t} /\ S' = S /\ t \notin R BY <1>t, <1>2, <2>1 DEF Counted
    <3>2 Cardinality(R') = Cardinality(R) + 1 BY <1>f, <3>1, FS_AddElement, Zenon
    <3>3 \A r, s \in Nat : r + s < Limit => r + 1 <= Limit /\ (r + s) + 1 = (r + 1) + s
      BY LimitAssumption
    <3> QED BY <1>2, <1>c, <1>n, <2>1, <3>1, <3>2, <3>3, Zenon DEF CountInv
  <2>2 CASE ~(count < Limit)
    <3>1 S' = S \cup {t} /\ R' = R /\ t \notin S BY <1>t, <1>2, <2>2 DEF Counted
    <3>2 Cardinality(S') = Cardinality(S) + 1 BY <1>f, <3>1, FS_AddElement, Zenon
    <3>3 \A r, s \in Nat : (r + s) + 1 = r + (s + 1) OBVIOUS
    <3> QED BY <1>2, <1>c, <1>n, <3>1, <3>2, <3>3, Zenon DEF CountInv
  <2> QED BY <2>1, <2>2, Zenon
<1>3 ASSUME NEW t \in Threads, slot[t] # "no", count' = count - 1,
            slot' = [slot EXCEPT ![t] = "no"]
     PROVE  CountInv'
  <2>1 CASE slot[t] = "reserved"
    <3>1 R' = R \ {t} /\ S' = S /\ t \in R BY <1>t, <1>3, <2>1 DEF Counted
    <3>2 Cardinality(R') = Cardinality(R) - 1 BY <1>f, <3>1, FS_RemoveElement, Zenon
    <3>3 \A r, s \in Nat : (r <= Limit => r - 1 <= Limit) /\ (r + s) - 1 = (r - 1) + s
      BY LimitAssumption
    <3>4 count' = (Cardinality(R) - 1) + Cardinality(S) /\ Cardinality(R) - 1 <= Limit
      BY <1>3, <1>c, <1>n, <3>3, Zenon
    <3> QED BY <3>1, <3>2, <3>4, Zenon DEF CountInv
  <2>2 CASE slot[t] = "surplus"
    <3>1 S' = S \ {t} /\ R' = R /\ t \in S BY <1>t, <1>3, <2>2 DEF Counted
    <3>2 Cardinality(S') = Cardinality(S) - 1 BY <1>f, <3>1, FS_RemoveElement, Zenon
    <3>3 \A r, s \in Nat : (r + s) - 1 = r + (s - 1) OBVIOUS
    <3>4 count' = Cardinality(R) + (Cardinality(S) - 1) BY <1>3, <1>c, <1>n, <3>3, Zenon
    <3> QED BY <3>4, <1>c, <1>n, <3>1, <3>2, <3>3, Zenon DEF CountInv
  <2>3 slot[t] \in {"reserved", "surplus"} BY <1>t, <1>3
  <2> QED BY <2>1, <2>2, <2>3, Zenon
<1> QED BY <1>1, <1>2, <1>3, Zenon DEF SlotsMove

\* ThreadsWithinLimit, for any number of Threads and any limit: however many VMs
\* create Threads at once, the live ones are counted exactly and within the limit.
THEOREM ThreadsStayWithinLimit == ThreadsSpec => []ThreadsWithinLimit
<1> DEFINE I == ThreadsTypeOK /\ OwnersInv /\ CountInv
<1>1 ThreadsInit => I
  <2> SUFFICES ASSUME ThreadsInit PROVE CountInv
    BY OwnersInit, Zenon
  <2>1 Counted("reserved") = {} /\ Counted("surplus") = {} BY DEF ThreadsInit, Counted
  <2> QED BY <2>1, FS_EmptySet, LimitAssumption DEF ThreadsInit, CountInv
<1>2 I /\ [ThreadsNext]_threadvars => I'
  BY OwnersStep, SlotsStep, CountsStep, Zenon
<1>3 I => ThreadsWithinLimit
  BY Zenon DEF OwnersInv, ThreadInv, CountInv, ThreadsWithinLimit
<1> QED BY <1>1, <1>2, <1>3, PTL DEF ThreadsSpec

=============================================================================
