------------------------- MODULE SupervisorProofs -------------------------
(***************************************************************************)
(* Proofs about the Supervisor, for any number of children, any restart    *)
(* limits and any number of crashes.                                       *)
(*                                                                         *)
(* None of the invariants is inductive by itself.  They are proved         *)
(* together with what the code relies on between two holds of the lock:    *)
(* which slots of the children table have a thread (Counting), what is     *)
(* true of a child at each place of its retry loop (LoopInv), what the     *)
(* flags of the supervisor imply (Flags), and how far the join loop has    *)
(* come (Joining).                                                         *)
(***************************************************************************)
EXTENDS Supervisor, TLAPS

\* The slots that have a thread are the counted ones, but for the one whose
\* thread add_child is creating.
Counting ==
  /\ owner = "adding" => child_count < MaxChildren
  /\ owner = "creating" => child_count > 0
  /\ owner \in {"adding", "creating"} => ~stopped
  /\ \A c \in Children :
       pc[c] = "absent" <=> c > child_count \/ (owner = "creating" /\ c = child_count)

\* An attempt that starts now is armed.
Arms == strategy # "one_for_one" \/ max_restarts >= 0 \/ stop_forced

\* The places where restart_count has the attempt about to start.
AheadOfStart(c) == pc[c] \in {"top", "crashed", "interrupted", "backoff"}

\* What holds of child c at each place of its loop.
LoopInv(c) ==
  /\ running_vm[c] # "none" <=> pc[c] = "running"
  /\ done[c] <=> pc[c] \in {"exit", "ended"}
  /\ stale[c] => InAttempt(c) /\ interrupt[c]
  /\ interrupt[c] => c <= child_count /\ Arms
  /\ pc[c] = "running" /\ interrupt[c] => running_vm[c] = "armed"
  /\ failed /\ InAttempt(c) => interrupt[c]
  /\ pc[c] = "absent" => starts[c] = 0
  /\ InAttempt(c) => starts[c] > 0
  /\ ~stop_requested /\ starts[c] < MaxCounted =>
       restart_count[c] = IF starts[c] = 0 THEN 0
                          ELSE starts[c] - (IF AheadOfStart(c) THEN 0 ELSE 1)

\* What the supervisor's flags imply.
Flags ==
  /\ failed \/ stop_forced \/ owner = "stop_wait" => stop_requested
  /\ failed \/ crash_time_count # 0 => \E c \in Children : pc[c] # "absent"
  /\ IntensityExact

\* What the join loop has done.
Joining ==
  /\ owner = "joining" => cursor <= child_count
  /\ owner \in {"stop_wait", "join", "joining"} =>
       \A c \in Children : c < cursor => pc[c] = "ended"
  /\ \A c \in Children :
       joined[c] => pc[c] = "ended" \/ (owner = "joining" /\ c = cursor)
  /\ owner = "freed" \/ (stopped /\ owner = "idle") =>
       \A c \in Children : c <= child_count => pc[c] = "ended"

\* The inductive invariant.
IInv == /\ TypeOK /\ Counting /\ Joining /\ Flags
        /\ \A c \in Children : LoopInv(c)

-----------------------------------------------------------------------------
(***************************************************************************)
(* The steps, by what they leave alone.                                    *)
(***************************************************************************)

\* A step of the thread of child c.
ChildNext(c) ==
  \/ LoopTop(c) \/ OutOfMemory(c) \/ AttemptStarts(c) \/ AttemptReturns(c)
  \/ AttemptInterrupted(c) \/ AttemptCrashes(c) \/ AfterAttempt(c)
  \/ BackoffEnds(c) \/ mark_supervised_child_done(c) \/ Exits(c)

\* A step of the owning thread that changes no child's state.
OwnerNext ==
  \/ \E limit \in Limits \cup {-1} : RestartPolicy(limit)
  \/ AddChecks \/ AddRefused \/ AddCounts
  \/ Stop("join") \/ Stop("stop_wait") \/ Join \/ Free
  \/ JoinMarks \/ JoinWaits \/ JoinReturns
  \/ UNCHANGED vars

\* Every step is one of these.
LEMMA StepCases ==
  ASSUME [Next]_vars
  PROVE  \/ OwnerNext \/ AddStarts \/ AddFails \/ StopForces
         \/ \E c \in Children : ChildNext(c)
BY Zenon DEF Next, OwnerNext, ChildNext, Terminated

\* The owning thread alone changes nothing of the children.
LEMMA OwnerFrame ==
  ASSUME OwnerNext
  PROVE  UNCHANGED <<strategy, stop_forced, failed, crash_time_count, done, interrupt,
                     restart_count, running_vm, pc, starts, stale>>
BY Zenon DEF OwnerNext, RestartPolicy, AddChecks, AddRefused, AddCounts, Stop, Join, Free,
       JoinMarks, JoinWaits, JoinReturns, childState, policy, vars

\* A child's thread moves only itself, between places of its loop, and leaves
\* the owning thread's fields alone.
LEMMA ChildFrame ==
  ASSUME TypeOK, NEW c \in Children, ChildNext(c)
  PROVE  /\ UNCHANGED <<strategy, max_restarts, child_count, stopped, joined, owner, call,
                        cursor, stop_forced>>
         /\ pc[c] \notin {"absent", "ended"}
         /\ \E where \in {"top", "setup", "running", "crashed", "interrupted", "backoff",
                          "stopping", "exit", "ended"} : pc' = [pc EXCEPT ![c] = where]
<1> USE DEF policy, owned, loopState, Goto
<1>1. CASE LoopTop(c)
  BY <1>1, Zenon DEF LoopTop
<1>2. CASE OutOfMemory(c)
  BY <1>2, Zenon DEF OutOfMemory
<1>3. CASE AttemptStarts(c)
  BY <1>3, Zenon DEF AttemptStarts
<1>4. CASE AttemptReturns(c)
  BY <1>4, Zenon DEF AttemptReturns
<1>5. CASE AttemptInterrupted(c)
  BY <1>5, Zenon DEF AttemptInterrupted
<1>6. CASE AttemptCrashes(c)
  BY <1>6, Zenon DEF AttemptCrashes
<1>7. CASE AfterAttempt(c)
  BY <1>7, Zenon DEF AfterAttempt
<1>8. CASE BackoffEnds(c)
  BY <1>8, Zenon DEF BackoffEnds
<1>9. CASE mark_supervised_child_done(c) \/ Exits(c)
  BY <1>9, Zenon DEF mark_supervised_child_done, Exits
<1> QED
  BY <1>1, <1>2, <1>3, <1>4, <1>5, <1>6, <1>7, <1>8, <1>9, Zenon DEF ChildNext

-----------------------------------------------------------------------------
(***************************************************************************)
(* The type invariant.                                                     *)
(***************************************************************************)

\* At first there are no children.
LEMMA InvInit == Init => IInv
<1> SUFFICES ASSUME Init PROVE IInv
  OBVIOUS
<1> USE DEF Init
<1>1. /\ stopped \in BOOLEAN /\ stop_requested \in BOOLEAN
      /\ stop_forced \in BOOLEAN /\ failed \in BOOLEAN
  BY Zenon
<1>2. TypeOK
  BY <1>1, ChildrenAssumption DEF TypeOK, Children
<1>3. Counting /\ Joining
  BY DEF Counting, Joining, Children
<1>4. Flags
  BY DEF Flags, IntensityExact
<1>5. \A c \in Children : LoopInv(c)
  BY Zenon DEF LoopInv, InAttempt, AheadOfStart
<1> QED
  BY <1>2, <1>3, <1>4, <1>5, Zenon DEF IInv

\* The owning thread keeps the types.
LEMMA OwnerType == ASSUME TypeOK, Counting, Joining, OwnerNext PROVE TypeOK'
<1> USE ChildrenAssumption DEF TypeOK
<1>1. UNCHANGED <<strategy, stop_forced, failed, crash_time_count, done, interrupt,
                  restart_count, running_vm, pc, starts, stale>>
  BY OwnerFrame, Zenon
<1>2. max_restarts' \in Limits \cup {-1}
  BY Zenon DEF OwnerNext, RestartPolicy, AddChecks, AddRefused, AddCounts, Stop, Join, Free,
         JoinMarks, JoinWaits, JoinReturns, childState, policy, vars
<1>3. stopped' \in BOOLEAN /\ stop_requested' \in BOOLEAN
  BY Zenon DEF OwnerNext, RestartPolicy, AddChecks, AddRefused, AddCounts, Stop, Join, Free,
         JoinMarks, JoinWaits, JoinReturns, vars
<1>4. child_count' \in 0..MaxChildren
  BY DEF OwnerNext, RestartPolicy, AddChecks, AddRefused, AddCounts, Stop, Join, Free,
         JoinMarks, JoinWaits, JoinReturns, Counting, vars
<1>5. /\ owner' \in {"idle", "adding", "creating", "stop_wait", "join", "joining", "freed"}
      /\ call' \in {"none", "stop", "join", "free"}
      /\ cursor' \in 1..(MaxChildren + 1)
  BY DEF OwnerNext, RestartPolicy, AddChecks, AddRefused, AddCounts, Stop, Join, Free,
         JoinMarks, JoinWaits, JoinReturns, Joining, vars
<1>6. joined' \in [Children -> BOOLEAN]
  <2>1. joined' = joined \/ joined' = [joined EXCEPT ![cursor] = TRUE]
    BY Zenon DEF OwnerNext, RestartPolicy, AddChecks, AddRefused, AddCounts, Stop, Join, Free,
         JoinMarks, JoinWaits, JoinReturns, vars
  <2> QED
    BY <2>1, Zenon
<1> QED
  BY <1>1, <1>2, <1>3, <1>4, <1>5, <1>6, Zenon

\* So do add_child's last step and the forced part of stop.
LEMMA AddStopType ==
  ASSUME TypeOK, Counting, AddStarts \/ AddFails \/ StopForces PROVE TypeOK'
<1> USE ChildrenAssumption DEF TypeOK, policy
<1>1. CASE AddStarts
  BY <1>1, Zenon DEF AddStarts, Goto
<1>2. CASE AddFails
  <2>1. child_count' \in 0..MaxChildren /\ owner' = "idle"
    BY <1>2 DEF AddFails, Counting
  <2>2. interrupt' \in [Children -> BOOLEAN]
    BY <1>2, Zenon DEF AddFails
  <2>3. UNCHANGED <<strategy, max_restarts, stop_forced, failed, crash_time_count, done,
                    restart_count, running_vm, pc, starts, stale, stop_requested,
                    stopped, joined, call, cursor>>
    BY <1>2, Zenon DEF AddFails
  <2> QED
    BY <2>1, <2>2, <2>3, Zenon
<1>3. CASE StopForces
  <2>1. /\ running_vm' \in [Children -> {"none", "unarmed", "armed"}]
        /\ UNCHANGED <<strategy, max_restarts, failed, crash_time_count, done, restart_count,
                       pc, starts, stale, stop_requested, child_count, stopped,
                       joined, call, cursor>>
        /\ owner' = "join"
    BY <1>3, Zenon DEF StopForces, Published
  <2>2. stop_forced' \in BOOLEAN /\ interrupt' \in [Children -> BOOLEAN]
    BY <1>3, Zenon DEF StopForces, supervisor_interrupt_child
  <2> QED
    BY <2>1, <2>2, Zenon
<1> QED
  BY <1>1, <1>2, <1>3, Zenon

\* And so does every step of a child's thread.
LEMMA ChildType == ASSUME TypeOK, NEW c \in Children, ChildNext(c) PROVE TypeOK'
<1>a. /\ UNCHANGED <<strategy, max_restarts, child_count, stopped, joined, owner, call,
                     cursor, stop_forced>>
      /\ pc' \in [Children -> {"absent", "top", "setup", "running", "crashed",
                               "interrupted", "backoff", "stopping", "exit", "ended"}]
  BY ChildFrame DEF TypeOK
<1> USE DEF TypeOK
<1> DEFINE Rest == /\ stop_requested' \in BOOLEAN /\ failed' \in BOOLEAN
                   /\ crash_time_count' \in Nat
                   /\ done' \in [Children -> BOOLEAN]
                   /\ interrupt' \in [Children -> BOOLEAN]
                   /\ restart_count' \in [Children -> Nat]
                   /\ running_vm' \in [Children -> {"none", "unarmed", "armed"}]
                   /\ starts' \in [Children -> Nat]
                   /\ stale' \in [Children -> BOOLEAN]
<1>b. SUFFICES Rest
  BY <1>a
<1>u. \A n \in Nat : Up(n) \in Nat
  BY CountedAssumption DEF Up
<1>1. CASE LoopTop(c)
  <2>1. done' \in [Children -> BOOLEAN] /\ interrupt' \in [Children -> BOOLEAN]
    BY <1>1, Zenon DEF LoopTop
  <2>2. starts' \in [Children -> Nat]
    BY <1>1, <1>u DEF LoopTop
  <2> QED
    BY <1>1, <2>1, <2>2, Zenon DEF LoopTop
<1>2. CASE OutOfMemory(c)
  BY <1>2, Zenon DEF OutOfMemory
<1>3. CASE AttemptStarts(c)
  BY <1>3, Zenon DEF AttemptStarts
<1>4. CASE AttemptReturns(c)
  BY <1>4, Zenon DEF AttemptReturns, Published
<1>5. CASE AttemptInterrupted(c)
  BY <1>5, <1>u DEF AttemptInterrupted, Published
<1>6. CASE AttemptCrashes(c)
  <2>1. done' = done /\ starts' = starts
    BY <1>6, Zenon DEF AttemptCrashes
  <2>2. PICK kept \in 0..crash_time_count : CrashGivesUp(c, kept) \/ CrashRestarts(c, kept)
    BY <1>6, Zenon DEF AttemptCrashes
  <2>3. stop_requested' \in BOOLEAN /\ failed' \in BOOLEAN
    BY <2>2, Zenon DEF CrashGivesUp, CrashRestarts
  <2>4. interrupt' \in [Children -> BOOLEAN] /\ stale' \in [Children -> BOOLEAN]
    BY <2>2, Zenon DEF CrashGivesUp, CrashRestarts, supervisor_interrupt_child
  <2>5. running_vm' \in [Children -> {"none", "unarmed", "armed"}]
    BY <2>2, Zenon DEF CrashGivesUp, CrashRestarts, Published
  <2>6. restart_count' = restart_count \/ restart_count' = [restart_count EXCEPT ![c] = Up(@)]
    BY <2>2, Zenon DEF CrashGivesUp, CrashRestarts
  <2>7. crash_time_count' = crash_time_count \/ crash_time_count' = kept + 1
    BY <2>2, Zenon DEF CrashGivesUp, CrashRestarts
  <2>8. restart_count' \in [Children -> Nat] /\ crash_time_count' \in Nat
    BY <1>u, <2>6, <2>7
  <2> QED
    BY <2>1, <2>3, <2>4, <2>5, <2>8, Zenon
<1>7. CASE AfterAttempt(c) \/ BackoffEnds(c) \/ mark_supervised_child_done(c) \/ Exits(c)
  BY <1>7, Zenon DEF AfterAttempt, BackoffEnds, mark_supervised_child_done, Exits, loopState
<1> QED
  BY <1>1, <1>2, <1>3, <1>4, <1>5, <1>6, <1>7, Zenon DEF ChildNext

-----------------------------------------------------------------------------
(***************************************************************************)
(* The children table and the join loop.                                   *)
(***************************************************************************)

\* A child's thread neither appears nor disappears by a step of its own, and
\* one that has ended takes no step.
LEMMA ChildTable ==
  ASSUME TypeOK, Counting, Joining, NEW c \in Children, ChildNext(c)
  PROVE  Counting' /\ Joining'
<1>1. /\ UNCHANGED <<child_count, stopped, joined, owner, cursor>>
      /\ pc[c] \notin {"absent", "ended"} /\ pc'[c] # "absent"
      /\ \A d \in Children \ {c} : pc'[d] = pc[d]
  BY ChildFrame, Zenon DEF TypeOK
<1>2. Counting'
  BY <1>1, Zenon DEF Counting, TypeOK, Children
<1>3. Joining'
  BY <1>1, Zenon DEF Joining, TypeOK, Children
<1> QED
  BY <1>2, <1>3, Zenon

\* The owning thread counts a child before its thread starts, takes the count
\* back when it does not start, and joins each counted child once.
LEMMA OwnerTable ==
  ASSUME TypeOK, Counting, Joining, OwnerNext \/ AddStarts \/ AddFails \/ StopForces
  PROVE  Counting' /\ Joining'
<1> USE ChildrenAssumption DEF TypeOK, Children
<1>1. CASE (\E limit \in Limits \cup {-1} : RestartPolicy(limit)) \/ AddChecks \/ AddRefused
  <2>1. /\ UNCHANGED <<child_count, stopped, pc, joined>>
        /\ owner \in {"idle", "adding"} /\ owner' \in {"idle", "adding"}
        /\ owner' = "adding" => ~stopped /\ child_count < MaxChildren
    BY <1>1, Zenon DEF RestartPolicy, AddChecks, AddRefused, childState
  <2> QED
    BY <2>1, Zenon DEF Counting, Joining
<1>2. CASE AddCounts
  <2>1. /\ UNCHANGED <<stopped, pc, joined>> /\ child_count' = child_count + 1
        /\ owner = "adding" /\ owner' = "creating"
    BY <1>2, Zenon DEF AddCounts, childState
  <2> QED
    BY <2>1 DEF Counting, Joining
<1>3. CASE AddStarts
  BY <1>3 DEF AddStarts, Goto, Counting, Joining
<1>4. CASE AddFails
  BY <1>4 DEF AddFails, Counting, Joining
<1>5. CASE Stop("join") \/ Stop("stop_wait") \/ StopForces \/ Join \/ Free
  <2>1. /\ UNCHANGED <<child_count, pc, joined>>
        /\ owner \in {"idle", "stop_wait"} /\ owner' \in {"stop_wait", "join"}
        /\ cursor' = 1 \/ (owner = "stop_wait" /\ cursor' = cursor)
    BY <1>5, Zenon DEF Stop, StopForces, Join, Free, childState
  <2>2. Counting'
    BY <2>1, Zenon DEF Counting
  <2>3. Joining'
    BY <2>1 DEF Joining
  <2> QED
    BY <2>2, <2>3, Zenon
<1>6. CASE JoinMarks
  <2>1. /\ UNCHANGED <<child_count, stopped, pc>>
        /\ owner = "join" /\ cursor <= child_count
        /\ joined' = [joined EXCEPT ![cursor] = TRUE]
        /\ \/ joined[cursor] /\ cursor' = cursor + 1 /\ owner' = "join"
           \/ owner' = "joining" /\ cursor' = cursor
    BY <1>6, Zenon DEF JoinMarks, childState
  <2>2. Counting'
    BY <2>1, Zenon DEF Counting
  <2>c. cursor \in Children
    BY <2>1
  <2>3. \A c \in Children : joined'[c] => joined[c] \/ c = cursor
    BY <2>1, Zenon
  <2>4. \A c \in Children : c < cursor' => pc[c] = "ended"
    BY <2>1 DEF Joining
  <2>5. \A c \in Children : joined'[c] => pc[c] = "ended" \/ (owner' = "joining" /\ c = cursor')
    BY <2>1, <2>3, <2>c, Zenon DEF Joining
  <2>6. Joining'
    BY <2>1, <2>4, <2>5, Zenon DEF Joining
  <2> QED
    BY <2>2, <2>6, Zenon
<1>7. CASE JoinWaits
  <2>1. /\ UNCHANGED <<child_count, stopped, pc, joined>>
        /\ owner = "joining" /\ pc[cursor] = "ended"
        /\ owner' = "join" /\ cursor' = cursor + 1
    BY <1>7, Zenon DEF JoinWaits, childState
  <2>2. Counting'
    BY <2>1, Zenon DEF Counting
  <2>3. \A c \in Children : c < cursor' => pc[c] = "ended"
    BY <2>1 DEF Joining
  <2> QED
    BY <2>1, <2>2, <2>3 DEF Joining
<1>8. CASE JoinReturns
  <2>1. /\ UNCHANGED <<child_count, stopped, pc, joined>>
        /\ owner = "join" /\ cursor > child_count /\ owner' \in {"idle", "freed"}
    BY <1>8, Zenon DEF JoinReturns, childState
  <2> QED
    BY <2>1 DEF Counting, Joining
<1>9. CASE UNCHANGED vars
  BY <1>9, Zenon DEF Counting, Joining, vars
<1> QED
  BY <1>1, <1>2, <1>3, <1>4, <1>5, <1>6, <1>7, <1>8, <1>9, Zenon DEF OwnerNext

-----------------------------------------------------------------------------
(***************************************************************************)
(* The flags of the supervisor and the states of the children.             *)
(***************************************************************************)

\* The owning thread gives no child a new state.  The restart policy changes
\* only while there are no children.
LEMMA OwnerLoops ==
  ASSUME IInv, OwnerNext PROVE Flags' /\ \A c \in Children : LoopInv(c)'
<1> USE DEF IInv
<1>1. UNCHANGED <<strategy, stop_forced, failed, crash_time_count, done, interrupt,
                  restart_count, running_vm, pc, starts, stale>>
  BY OwnerFrame, Zenon
<1>2. /\ stop_requested => stop_requested'
      /\ owner' = "stop_wait" => stop_requested' \/ owner = "stop_wait"
      /\ \A c \in Children : c <= child_count => c <= child_count'
  <2>1. /\ stop_requested => stop_requested'
        /\ owner' = "stop_wait" => stop_requested' \/ owner = "stop_wait"
        /\ child_count' = child_count \/ child_count' = child_count + 1
    BY DEF OwnerNext, RestartPolicy, AddChecks, AddRefused, AddCounts, Stop, Join, Free,
                JoinMarks, JoinWaits, JoinReturns, childState, vars
  <2>2. \A c \in Children : c <= child_count => c <= child_count'
    BY <2>1, ChildrenAssumption DEF TypeOK, Children
  <2> QED
    BY <2>1, <2>2, Zenon
<1>3. max_restarts' = max_restarts \/ child_count = 0
  BY Zenon DEF OwnerNext, RestartPolicy, AddChecks, AddRefused, AddCounts, Stop, Join, Free,
         JoinMarks, JoinWaits, JoinReturns, childState, policy, vars
<1>4. CASE max_restarts' = max_restarts
  <2>1. Flags'
    BY <1>1, <1>2, <1>4, Zenon DEF Flags, IntensityExact
  <2>2. \A c \in Children : LoopInv(c)'
    BY <1>1, <1>2, <1>4, Zenon DEF LoopInv, InAttempt, AheadOfStart, Arms
  <2> QED
    BY <2>1, <2>2, Zenon
<1>5. CASE child_count = 0
  <2>1. \A c \in Children : pc[c] = "absent" /\ ~interrupt[c]
    BY <1>5 DEF Counting, LoopInv, Children
  <2>2. ~failed /\ crash_time_count = 0
    BY <2>1, Zenon DEF Flags
  <2>3. max_restarts' \in Nat \cup {-1}
    BY OwnerType, LimitsAssumption, Zenon DEF TypeOK
  <2>4. IntensityExact'
    <3>1. ~failed' /\ crash_time_count' = 0
      BY <1>1, <2>2, Zenon
    <3>2. CASE max_restarts' \in Nat
      <4>0. \A m \in Nat : ~(0 > m) /\ 0 <= m + 1
        OBVIOUS
      <4>1. ~(crash_time_count' > max_restarts') /\ crash_time_count' <= max_restarts' + 1
        BY <3>1, <3>2, <4>0, Zenon
      <4> QED
        BY <3>1, <4>1, Zenon DEF IntensityExact
    <3>3. CASE max_restarts' = -1
      BY <3>1, <3>3 DEF IntensityExact
    <3> QED
      BY <2>3, <3>2, <3>3, Zenon
  <2>5. Flags'
    BY <1>1, <1>2, <2>4, Zenon DEF Flags
  <2>6. \A c \in Children : LoopInv(c)'
    BY <1>1, <1>2, <2>1, Zenon DEF LoopInv, InAttempt, AheadOfStart
  <2> QED
    BY <2>5, <2>6, Zenon
<1> QED
  BY <1>3, <1>4, <1>5, Zenon

\* A slot that gets a thread, or is given back, had no state yet.
LEMMA AddLoops ==
  ASSUME IInv, AddStarts \/ AddFails PROVE Flags' /\ \A c \in Children : LoopInv(c)'
<1> USE ChildrenAssumption DEF IInv, TypeOK, policy
<1>1. UNCHANGED <<strategy, max_restarts, stop_requested, stop_forced, failed,
                  crash_time_count, done, restart_count, running_vm, starts, stale>>
  BY Zenon DEF AddStarts, AddFails
<1>2. child_count \in Children /\ pc[child_count] = "absent" /\ owner = "creating"
  BY DEF AddStarts, AddFails, Counting, Children
<1>3. CASE AddStarts
  <2>1. /\ pc' = [pc EXCEPT ![child_count] = "top"] /\ owner' = "idle"
        /\ UNCHANGED <<child_count, interrupt>>
    BY <1>3, Zenon DEF AddStarts, Goto
  <2>2. Flags'
    BY <1>1, <1>2, <2>1, Zenon DEF Flags, IntensityExact
  <2>3. \A c \in Children : LoopInv(c)'
    BY <1>1, <1>2, <2>1 DEF LoopInv, InAttempt, AheadOfStart, Arms
  <2> QED
    BY <2>2, <2>3, Zenon
<1>4. CASE AddFails
  <2>1. /\ interrupt' = [interrupt EXCEPT ![child_count] = FALSE] /\ owner' = "idle"
        /\ child_count' = child_count - 1 /\ pc' = pc
    BY <1>4, Zenon DEF AddFails
  <2>2. Flags'
    BY <1>1, <2>1, Zenon DEF Flags, IntensityExact
  <2>3. \A c \in Children : interrupt'[c] => interrupt[c] /\ c # child_count
    BY <1>2, <2>1, Zenon
  <2>4. \A c \in Children : interrupt[c] /\ c # child_count => interrupt'[c]
    BY <1>2, <2>1, Zenon
  <2>5. \A c \in Children : LoopInv(c)'
    BY <1>1, <1>2, <2>1, <2>3, <2>4 DEF LoopInv, InAttempt, AheadOfStart, Arms, Children
  <2> QED
    BY <2>2, <2>5, Zenon
<1> QED
  BY <1>3, <1>4, Zenon

\* A forced stop interrupts and arms every attempt it finds.
LEMMA StopLoops ==
  ASSUME IInv, StopForces PROVE Flags' /\ \A c \in Children : LoopInv(c)'
<1> USE ChildrenAssumption DEF IInv, TypeOK, policy
<1> DEFINE left == {c \in Counted : ~done[c]}
<1>1. /\ UNCHANGED <<strategy, max_restarts, failed, crash_time_count, done, restart_count,
                     pc, starts, stale, stop_requested, child_count>>
      /\ owner = "stop_wait" /\ owner' = "join"
  BY Zenon DEF StopForces
<1>2. stop_forced' = (stop_forced \/ left # {})
  BY Zenon DEF StopForces
<1>3. Flags'
  BY <1>1, Zenon DEF Flags, IntensityExact
<1>4. SUFFICES ASSUME NEW c \in Children PROVE LoopInv(c)'
  BY <1>3, Zenon
<1>5. interrupt'[c] <=> interrupt[c] \/ c \in left
  BY Zenon DEF StopForces, supervisor_interrupt_child
<1>6. running_vm'[c] = IF c \in left /\ running_vm[c] # "none" THEN "armed" ELSE running_vm[c]
  BY DEF StopForces, Published, Children
<1>7. c \in left => stop_forced' /\ c <= child_count
  <2>1. c \in left => c <= child_count
    BY DEF Counted, Children
  <2> QED
    BY <1>2, <2>1, Zenon
<1>8. Arms => Arms'
  BY <1>1, <1>2, Zenon DEF Arms
<1> HIDE DEF left
<1> QED
  BY <1>1, <1>5, <1>6, <1>7, <1>8, Zenon DEF LoopInv, InAttempt, AheadOfStart, Arms

\* The fields of the children other than c, and the flags, in a step of c's
\* thread that is no crash.
LEMMA ChildAlone ==
  ASSUME TypeOK, NEW c \in Children, ChildNext(c), ~AttemptCrashes(c)
  PROVE  /\ UNCHANGED <<stop_requested, failed, crash_time_count>>
         /\ \A d \in Children \ {c} :
              /\ done'[d] = done[d] /\ interrupt'[d] = interrupt[d]
              /\ restart_count'[d] = restart_count[d] /\ running_vm'[d] = running_vm[d]
              /\ pc'[d] = pc[d] /\ starts'[d] = starts[d] /\ stale'[d] = stale[d]
<1> USE DEF TypeOK, Goto, Published, loopState
<1>1. CASE LoopTop(c)
  BY <1>1, Zenon DEF LoopTop
<1>2. CASE OutOfMemory(c) \/ AttemptStarts(c)
  BY <1>2, Zenon DEF OutOfMemory, AttemptStarts
<1>3. CASE AttemptReturns(c)
  BY <1>3, Zenon DEF AttemptReturns
<1>4. CASE AttemptInterrupted(c)
  BY <1>4, Zenon DEF AttemptInterrupted
<1>5. CASE AfterAttempt(c) \/ BackoffEnds(c)
  BY <1>5, Zenon DEF AfterAttempt, BackoffEnds
<1>6. CASE mark_supervised_child_done(c) \/ Exits(c)
  BY <1>6, Zenon DEF mark_supervised_child_done, Exits
<1> QED
  BY <1>1, <1>2, <1>3, <1>4, <1>5, <1>6, Zenon DEF ChildNext

\* Every step of a retry loop that is no crash leads to the state of the
\* child's next place.
LEMMA QuietLoops ==
  ASSUME IInv, NEW c \in Children, ChildNext(c), ~AttemptCrashes(c)
  PROVE  Flags' /\ \A d \in Children : LoopInv(d)'
<1>1. TypeOK /\ Flags /\ LoopInv(c) /\ \A d \in Children : LoopInv(d)
  BY Zenon DEF IInv
<1>2. /\ UNCHANGED <<strategy, max_restarts, child_count, owner, stop_forced>>
      /\ pc'[c] # "absent"
  BY <1>1, ChildFrame, Zenon DEF TypeOK
<1>3. /\ UNCHANGED <<stop_requested, failed, crash_time_count>>
      /\ \A d \in Children \ {c} :
           /\ done'[d] = done[d] /\ interrupt'[d] = interrupt[d]
           /\ restart_count'[d] = restart_count[d] /\ running_vm'[d] = running_vm[d]
           /\ pc'[d] = pc[d] /\ starts'[d] = starts[d] /\ stale'[d] = stale[d]
  BY <1>1, ChildAlone, Zenon
<1>4. Flags'
  BY <1>1, <1>2, <1>3, Zenon DEF Flags, IntensityExact
<1>5. \A d \in Children \ {c} : LoopInv(d)'
  BY <1>1, <1>2, <1>3 DEF LoopInv, InAttempt, AheadOfStart, Arms
<1>6. SUFFICES LoopInv(c)'
  BY <1>4, <1>5, Zenon
<1>7. failed \/ stop_forced => stop_requested
  BY <1>1, Zenon DEF Flags
<1> USE <1>1, <1>2, <1>3 DEF LoopInv, InAttempt, AheadOfStart, Arms, TypeOK, Goto, Published
<1>8. CASE LoopTop(c)
  BY <1>7, <1>8, CountedAssumption DEF LoopTop, Up
<1>9. CASE OutOfMemory(c)
  BY <1>9 DEF OutOfMemory
<1>10. CASE AttemptStarts(c)
  BY <1>10 DEF AttemptStarts
<1>11. CASE AttemptReturns(c)
  BY <1>11 DEF AttemptReturns
<1>12. CASE AttemptInterrupted(c)
  BY <1>7, <1>12, CountedAssumption DEF AttemptInterrupted, Up
<1>13. CASE AfterAttempt(c)
  BY <1>13 DEF AfterAttempt, StopSeen, loopState
<1>14. CASE BackoffEnds(c)
  BY <1>14 DEF BackoffEnds, StopSeen, loopState
<1>15. CASE mark_supervised_child_done(c)
  BY <1>15 DEF mark_supervised_child_done, loopState
<1>16. CASE Exits(c)
  BY <1>16 DEF Exits, loopState
<1> QED
  BY <1>8, <1>9, <1>10, <1>11, <1>12, <1>13, <1>14, <1>15, <1>16, Zenon DEF ChildNext

\* A crash that makes the supervisor give up interrupts every attempt there is.
LEMMA GiveUpLoops ==
  ASSUME IInv, NEW c \in Children, AttemptCrashes(c),
         NEW kept \in 0..crash_time_count, CrashGivesUp(c, kept)
  PROVE  Flags' /\ \A d \in Children : LoopInv(d)'
<1>1. TypeOK /\ Counting /\ Flags /\ \A d \in Children : LoopInv(d)
  BY Zenon DEF IInv
<1>2. /\ UNCHANGED <<strategy, max_restarts, child_count, owner, stop_forced, done, starts,
                     restart_count>>
      /\ pc[c] = "running" /\ pc' = [pc EXCEPT ![c] = "crashed"]
      /\ failed' /\ stop_requested' /\ max_restarts >= 0 /\ ~failed
      /\ crash_time_count' = kept + 1 /\ kept + 1 > max_restarts
      /\ stale' = [stale EXCEPT ![c] = FALSE]
  BY Zenon DEF AttemptCrashes, CrashGivesUp, CountsAgainst, Goto, policy, owned
<1>3. \A d \in Children : interrupt'[d] <=> interrupt[d] \/ d \in Reached(Children \ {c})
  BY Zenon DEF CrashGivesUp, supervisor_interrupt_child
<1>4. \A d \in Children :
        running_vm'[d] = IF d = c THEN "none"
                         ELSE IF d \in Reached(Children \ {c}) /\ running_vm[d] # "none"
                           THEN "armed" ELSE running_vm[d]
  BY Zenon DEF CrashGivesUp, Published
<1>5. \A d \in Children :
        d \in Reached(Children \ {c}) <=> d # c /\ d <= child_count /\ ~done[d]
  BY <1>1, ChildrenAssumption DEF Reached, Counted, Children, TypeOK
<1>6. \A d \in Children : pc[d] # "absent" => d <= child_count
  BY <1>1, ChildrenAssumption DEF Counting, Children, TypeOK
<1>7. IntensityExact'
  <2>1. crash_time_count <= max_restarts /\ max_restarts \in Nat /\ kept \in Nat
    BY <1>1, <1>2, LimitsAssumption DEF Flags, IntensityExact, TypeOK
  <2>2. kept + 1 <= max_restarts + 1
    BY <1>1, <2>1 DEF TypeOK
  <2> QED
    BY <1>2, <2>2, Zenon DEF IntensityExact
<1>8. Flags'
  BY <1>1, <1>2, <1>7, Zenon DEF Flags, TypeOK
<1>9. LoopInv(c)'
  <2>1. /\ pc'[c] = "crashed" /\ ~stale'[c] /\ running_vm'[c] = "none"
        /\ interrupt'[c] <=> interrupt[c]
    BY <1>1, <1>2, <1>3, <1>4, <1>5, Zenon DEF TypeOK
  <2> QED
    BY <1>1, <1>2, <2>1, Zenon DEF LoopInv, InAttempt, Arms
<1>10. ASSUME NEW d \in Children \ {c} PROVE LoopInv(d)'
  <2>1. LoopInv(d) /\ pc'[d] = pc[d] /\ stale'[d] = stale[d] /\ c # d
    BY <1>1, <1>2, Zenon DEF TypeOK
  <2>2. d \in Reached(Children \ {c}) \/ pc[d] \in {"absent", "exit", "ended"}
    BY <1>5, <1>6, <2>1, Zenon DEF LoopInv
  <2>3. interrupt'[d] => d <= child_count
    BY <1>3, <1>5, <2>1, Zenon DEF LoopInv
  <2> QED
    BY <1>2, <1>3, <1>4, <2>1, <2>2, <2>3, Zenon DEF LoopInv, InAttempt, Arms
<1> QED
  BY <1>8, <1>9, <1>10, Zenon

\* Any other crash interrupts the attempts that the strategy restarts.
LEMMA RestartLoops ==
  ASSUME IInv, NEW c \in Children, AttemptCrashes(c),
         NEW kept \in 0..crash_time_count, CrashRestarts(c, kept)
  PROVE  Flags' /\ \A d \in Children : LoopInv(d)'
<1> DEFINE reached == IF failed \/ stop_requested THEN {} ELSE Reached(Siblings(c))
<1>1. TypeOK /\ Counting /\ Flags /\ \A d \in Children : LoopInv(d)
  BY Zenon DEF IInv
<1>2. /\ UNCHANGED <<strategy, max_restarts, child_count, owner, stop_forced, done, starts,
                     failed, stop_requested>>
      /\ pc[c] = "running" /\ pc' = [pc EXCEPT ![c] = "crashed"]
      /\ restart_count' = [restart_count EXCEPT ![c] = Up(@)]
  BY Zenon DEF AttemptCrashes, CrashRestarts, Goto, policy, owned
<1>3. \A d \in Children : interrupt'[d] <=> interrupt[d] \/ d \in reached
  BY Zenon DEF CrashRestarts, supervisor_interrupt_child
<1>4. \A d \in Children :
        running_vm'[d] = IF d = c THEN "none"
                         ELSE IF d \in reached /\ running_vm[d] # "none"
                           THEN "armed" ELSE running_vm[d]
  BY Zenon DEF CrashRestarts, Published
<1>5. \A d \in Children :
        stale'[d] <=> /\ d # c
                      /\ \/ stale[d]
                         \/ ~failed /\ ~stop_requested /\ d \in Siblings(c) /\ InAttempt(d)
  BY Zenon DEF CrashRestarts
<1>6. \A d \in Children :
        d \in reached <=> ~failed /\ ~stop_requested /\ d \in Siblings(c)
                          /\ d <= child_count /\ ~done[d]
  BY <1>1, ChildrenAssumption DEF Reached, Counted, Children, TypeOK
<1>7. \A d \in Siblings(c) : d # c /\ strategy # "one_for_one"
  BY <1>1 DEF Siblings, TypeOK, Children
<1>8. \A d \in Children : pc[d] # "absent" => d <= child_count
  BY <1>1, ChildrenAssumption DEF Counting, Children, TypeOK
<1>9. IntensityExact'
  <2>1. CASE CountsAgainst
    <3>1. /\ crash_time_count' = kept + 1 /\ kept + 1 <= max_restarts
          /\ ~failed /\ max_restarts \in Nat /\ kept \in Nat
      BY <1>1, <2>1, LimitsAssumption DEF CrashRestarts, CountsAgainst, TypeOK
    <3> QED
      BY <1>2, <3>1 DEF IntensityExact
  <2>2. CASE ~CountsAgainst
    BY <1>1, <1>2, <2>2 DEF CrashRestarts, Flags, IntensityExact
  <2> QED
    BY <2>1, <2>2, Zenon
<1>10. Flags'
  BY <1>1, <1>2, <1>9, Zenon DEF Flags, TypeOK
<1> HIDE DEF reached
<1>11. \A d \in Children : LoopInv(d)'
  BY <1>1, <1>2, <1>3, <1>4, <1>5, <1>6, <1>7, <1>8,
     CountedAssumption DEF LoopInv, InAttempt, AheadOfStart, Arms, TypeOK, Up
<1> QED
  BY <1>10, <1>11, Zenon

-----------------------------------------------------------------------------
(***************************************************************************)
(* The theorems.                                                           *)
(***************************************************************************)

\* Every step keeps the invariant.
LEMMA InvStep == IInv /\ [Next]_vars => IInv'
<1> SUFFICES ASSUME IInv, [Next]_vars PROVE IInv'
  OBVIOUS
<1>1. TypeOK /\ Counting /\ Joining
  BY Zenon DEF IInv
<1>2. CASE OwnerNext
  BY <1>1, <1>2, OwnerType, OwnerTable, OwnerLoops, Zenon DEF IInv
<1>3. CASE AddStarts \/ AddFails
  BY <1>1, <1>3, AddStopType, OwnerTable, AddLoops, Zenon DEF IInv
<1>4. CASE StopForces
  BY <1>1, <1>4, AddStopType, OwnerTable, StopLoops, Zenon DEF IInv
<1>5. ASSUME NEW c \in Children, ChildNext(c) PROVE IInv'
  <2>1. TypeOK' /\ Counting' /\ Joining'
    BY <1>1, <1>5, ChildType, ChildTable, Zenon
  <2>2. Flags' /\ \A d \in Children : LoopInv(d)'
    <3>1. CASE AttemptCrashes(c)
      BY <3>1, GiveUpLoops, RestartLoops, Zenon DEF AttemptCrashes
    <3>2. CASE ~AttemptCrashes(c)
      BY <1>5, <3>2, QuietLoops, Zenon
    <3> QED
      BY <3>1, <3>2, Zenon
  <2> QED
    BY <2>1, <2>2, Zenon DEF IInv
<1> QED
  BY <1>2, <1>3, <1>4, <1>5, StepCases, Zenon

\* The invariant holds throughout.
THEOREM Invariance == Spec => []IInv
BY InvInit, InvStep, PTL DEF Spec

\* An interrupt raised for a running attempt is one its VM looks for, however
\* the raise and the publication of running_vm interleave.
THEOREM InterruptsAreArmed == Spec => []InterruptArmed
<1>1. IInv => InterruptArmed
  BY Zenon DEF IInv, LoopInv, InterruptArmed
<1> QED
  BY <1>1, Invariance, PTL

\* An attempt that a sibling's crash asked to restart keeps its interrupt
\* until it ends.
THEOREM RestartsAreKept == Spec => []StaleInterrupted
<1>1. IInv => StaleInterrupted
  BY Zenon DEF IInv, LoopInv, StaleInterrupted
<1> QED
  BY <1>1, Invariance, PTL

\* Once the supervisor gave up, every attempt in progress has been interrupted.
THEOREM GivingUpReachesAll == Spec => []GiveUpReachesAll
<1>1. IInv => GiveUpReachesAll
  BY Zenon DEF IInv, LoopInv, GiveUpReachesAll
<1> QED
  BY <1>1, Invariance, PTL

\* When stop has returned, and when the supervisor is freed, every child's
\* thread has ended.
THEOREM StopOutlivesChildren == Spec => []NoChildOutlives
<1>1. IInv => NoChildOutlives
  BY ChildrenAssumption DEF IInv, TypeOK, Joining, LoopInv, NoChildOutlives, Counted, Children
<1> QED
  BY <1>1, Invariance, PTL

\* The supervisor gives up exactly when more than max_restarts crashes are in
\* the window, whose array holds one more.
THEOREM IntensityIsExact == Spec => []IntensityExact
<1>1. IInv => IntensityExact
  BY Zenon DEF IInv, Flags
<1> QED
  BY <1>1, Invariance, PTL

\* Until a stop, restart_count is the number of attempts after the first.
THEOREM RestartsAreCounted == Spec => []RestartCountExact
<1>1. IInv => RestartCountExact
  BY Zenon DEF IInv, LoopInv, AheadOfStart, RestartCountExact
<1> QED
  BY <1>1, Invariance, PTL

=============================================================================
