---------------------------- MODULE Supervisor ----------------------------
(***************************************************************************)
(* One Supervisor (struct DiamondSupervisor), the thread that owns its     *)
(* handle, and the retry loops of its children, each on a thread of its    *)
(* own (supervisor_child_entry_trampoline).                                *)
(*                                                                         *)
(* A step is one hold of the supervisor's lock, or one read of the atomic  *)
(* stop_requested outside it.  A worker's code is arbitrary: an attempt    *)
(* may return, crash, or run until its interrupt flag stops it.  Times are *)
(* left out: a pause or a timeout may end at any moment, and any of the    *)
(* older crashes may have left the restart-intensity window.               *)
(***************************************************************************)
EXTENDS Integers, FiniteSets

CONSTANTS
  MaxChildren,  \* DIAMOND_MAX_SUPERVISOR_CHILDREN
  Limits,       \* the values restart_policy may give max_restarts; -1 is no limit
  MaxCounted    \* bound: how far attempts and restarts are counted

ASSUME ChildrenAssumption == MaxChildren \in Nat
ASSUME LimitsAssumption == Limits \subseteq Nat
ASSUME CountedAssumption == MaxCounted \in Nat \ {0}

Children == 1..MaxChildren

VARIABLES
  strategy, max_restarts,
  child_count,
  stopped, stop_requested, stop_forced, failed,
  crash_time_count,  \* crashes inside the window
  done, joined, interrupt, restart_count,
  running_vm,        \* the published attempt: "none", or whether its
                     \* per-instruction interrupt check is armed
  pc,                \* where each child's thread is
  owner,             \* where the owning thread is
  call,              \* the method it is in
  cursor,            \* index of the join loop
  starts,            \* history: attempts begun, per child
  stale              \* history: a crash asked for the attempt's restart

policy == <<strategy, max_restarts>>
owned == <<child_count, stopped, joined, owner, call, cursor>>
vars == <<strategy, max_restarts, child_count, stopped, stop_requested,
          stop_forced, failed, crash_time_count, done, joined, interrupt,
          restart_count, running_vm, pc, owner, call, cursor, starts, stale>>

Counted == 1..child_count

\* A child between the top of its loop and the end of its attempt.
InAttempt(c) == pc[c] \in {"setup", "running"}

TypeOK ==
  /\ strategy \in {"one_for_one", "one_for_all", "rest_for_one"}
  /\ max_restarts \in Limits \cup {-1}
  /\ child_count \in 0..MaxChildren
  /\ stopped \in BOOLEAN /\ stop_requested \in BOOLEAN
  /\ stop_forced \in BOOLEAN /\ failed \in BOOLEAN
  /\ crash_time_count \in Nat
  /\ done \in [Children -> BOOLEAN]
  /\ joined \in [Children -> BOOLEAN]
  /\ interrupt \in [Children -> BOOLEAN]
  /\ restart_count \in [Children -> Nat]
  /\ running_vm \in [Children -> {"none", "unarmed", "armed"}]
  /\ pc \in [Children -> {"absent", "top", "setup", "running", "crashed",
                          "interrupted", "backoff", "stopping", "exit", "ended"}]
  /\ owner \in {"idle", "adding", "creating", "stop_wait", "join", "joining", "freed"}
  /\ call \in {"none", "stop", "join", "free"}
  /\ cursor \in 1..(MaxChildren + 1)
  /\ starts \in [Children -> Nat]
  /\ stale \in [Children -> BOOLEAN]

Init ==
  /\ strategy \in {"one_for_one", "one_for_all", "rest_for_one"}
  /\ max_restarts = -1
  /\ child_count = 0
  /\ stopped = FALSE /\ stop_requested = FALSE
  /\ stop_forced = FALSE /\ failed = FALSE
  /\ crash_time_count = 0
  /\ done = [c \in Children |-> FALSE]
  /\ joined = [c \in Children |-> FALSE]
  /\ interrupt = [c \in Children |-> FALSE]
  /\ restart_count = [c \in Children |-> 0]
  /\ running_vm = [c \in Children |-> "none"]
  /\ pc = [c \in Children |-> "absent"]
  /\ owner = "idle" /\ call = "none" /\ cursor = 1
  /\ starts = [c \in Children |-> 0]
  /\ stale = [c \in Children |-> FALSE]

\* supervisor_interrupt_child, for each child of S.
supervisor_interrupt_child(S) ==
  interrupt' = [c \in Children |-> interrupt[c] \/ c \in S]

\* The running_vm of every child, with child c's attempt over and those of S armed.
Published(c, S) ==
  [d \in Children |-> IF d = c THEN "none"
                      ELSE IF d \in S /\ running_vm[d] # "none" THEN "armed"
                      ELSE running_vm[d]]

\* One more, as far as it is counted.
Up(n) == IF n < MaxCounted THEN n + 1 ELSE n

Goto(c, where) == pc' = [pc EXCEPT ![c] = where]

-----------------------------------------------------------------------------
(* The owning thread *)

\* Accepted only before the first child.
RestartPolicy(limit) ==
  /\ owner = "idle" /\ child_count = 0
  /\ max_restarts' = limit
  /\ UNCHANGED <<strategy, child_count, stopped, stop_requested, stop_forced, failed,
                 crash_time_count, done, joined, interrupt, restart_count, running_vm,
                 pc, owner, call, cursor, starts, stale>>

childState == <<policy, stop_forced, failed, crash_time_count, done, interrupt,
                restart_count, running_vm, pc, starts, stale>>

\* add_child's checks; the program, the arguments and the thread slot follow
\* without the lock, and may be refused.
AddChecks ==
  /\ owner = "idle" /\ ~stopped /\ ~failed /\ child_count < MaxChildren
  /\ owner' = "adding"
  /\ UNCHANGED <<childState, stop_requested, child_count, stopped, joined, call, cursor>>

AddRefused ==
  /\ owner = "adding"
  /\ owner' = "idle"
  /\ UNCHANGED <<childState, stop_requested, child_count, stopped, joined, call, cursor>>

\* The child is counted before its thread starts.
AddCounts ==
  /\ owner = "adding"
  /\ child_count' = child_count + 1
  /\ owner' = "creating"
  /\ UNCHANGED <<childState, stop_requested, stopped, joined, call, cursor>>

AddStarts ==
  /\ owner = "creating"
  /\ Goto(child_count, "top")
  /\ owner' = "idle"
  /\ UNCHANGED <<policy, stop_forced, failed, crash_time_count, done, interrupt,
                 restart_count, running_vm, starts, stale, stop_requested,
                 child_count, stopped, joined, call, cursor>>

\* No thread: the count is rolled back and the slot cleared.
AddFails ==
  /\ owner = "creating"
  /\ child_count' = child_count - 1
  /\ interrupt' = [interrupt EXCEPT ![child_count] = FALSE]
  /\ owner' = "idle"
  /\ UNCHANGED <<policy, stop_forced, failed, crash_time_count, done, restart_count,
                 running_vm, pc, starts, stale, stop_requested, stopped,
                 joined, call, cursor>>

\* stop() joins at once, stop(timeout_ms) gives the attempts time first.
Stop(where) ==
  /\ owner = "idle"
  /\ stopped' = TRUE
  /\ stop_requested' = TRUE
  /\ owner' = where /\ call' = "stop" /\ cursor' = 1
  /\ UNCHANGED <<childState, child_count, joined>>

\* The time is up, or every child is done: interrupt whatever is left.
StopForces ==
  /\ owner = "stop_wait"
  /\ LET left == {c \in Counted : ~done[c]} IN
     /\ stop_forced' = (stop_forced \/ left # {})
     /\ supervisor_interrupt_child(left)
     /\ running_vm' = Published(0, left)
  /\ owner' = "join"
  /\ UNCHANGED <<policy, failed, crash_time_count, done, restart_count, pc, starts,
                 stale, stop_requested, child_count, stopped, joined, call, cursor>>

Join ==
  /\ owner = "idle"
  /\ owner' = "join" /\ call' = "join" /\ cursor' = 1
  /\ UNCHANGED <<childState, stop_requested, child_count, stopped, joined>>

\* The last reference goes away.
Free ==
  /\ owner = "idle"
  /\ stop_requested' = TRUE
  /\ owner' = "join" /\ call' = "free" /\ cursor' = 1
  /\ UNCHANGED <<childState, child_count, stopped, joined>>

\* Mutant: a child that is done is not joined.
JoinMarksUndone ==
  /\ owner = "join" /\ cursor <= child_count
  /\ joined' = [joined EXCEPT ![cursor] = TRUE]
  /\ IF joined[cursor] \/ done[cursor]
       THEN cursor' = cursor + 1 /\ UNCHANGED owner
       ELSE owner' = "joining" /\ UNCHANGED cursor
  /\ UNCHANGED <<childState, stop_requested, child_count, stopped, call>>

\* One turn of supervisor_join_all_children.
JoinMarks ==
  /\ owner = "join" /\ cursor <= child_count
  /\ joined' = [joined EXCEPT ![cursor] = TRUE]
  /\ IF joined[cursor]
       THEN cursor' = cursor + 1 /\ UNCHANGED owner
       ELSE owner' = "joining" /\ UNCHANGED cursor
  /\ UNCHANGED <<childState, stop_requested, child_count, stopped, call>>

JoinWaits ==
  /\ owner = "joining" /\ pc[cursor] = "ended"
  /\ owner' = "join" /\ cursor' = cursor + 1
  /\ UNCHANGED <<childState, stop_requested, child_count, stopped, joined, call>>

JoinReturns ==
  /\ owner = "join" /\ cursor > child_count
  /\ owner' = IF call = "free" THEN "freed" ELSE "idle"
  /\ call' = "none" /\ cursor' = 1
  /\ UNCHANGED <<childState, stop_requested, child_count, stopped, joined>>

-----------------------------------------------------------------------------
(* The retry loop of child c *)

\* Mutant: a child that starts does not look whether the supervisor gave up.
LoopTopUnchecked(c) ==
  /\ pc[c] = "top"
  /\ interrupt' = [interrupt EXCEPT ![c] = FALSE]
  /\ starts' = [starts EXCEPT ![c] = Up(@)]
  /\ Goto(c, "setup")
  /\ UNCHANGED <<policy, owned, stop_requested, stop_forced, failed, crash_time_count,
                 done, restart_count, running_vm, stale>>

\* The top of the loop: clear the interrupt under the lock a giving-up sibling
\* holds when it raises it.
LoopTop(c) ==
  /\ pc[c] = "top"
  /\ IF failed
       THEN /\ done' = [done EXCEPT ![c] = TRUE]
            /\ Goto(c, "exit")
            /\ UNCHANGED <<interrupt, starts>>
       ELSE /\ interrupt' = [interrupt EXCEPT ![c] = FALSE]
            /\ starts' = [starts EXCEPT ![c] = Up(@)]
            /\ Goto(c, "setup")
            /\ UNCHANGED done
  /\ UNCHANGED <<policy, owned, stop_requested, stop_forced, failed, crash_time_count,
                 restart_count, running_vm, stale>>

\* No memory for the attempt's VM: the child gives up for good.
OutOfMemory(c) ==
  /\ pc[c] = "setup"
  /\ done' = [done EXCEPT ![c] = TRUE]
  /\ stale' = [stale EXCEPT ![c] = FALSE]
  /\ Goto(c, "exit")
  /\ UNCHANGED <<policy, owned, stop_requested, stop_forced, failed, crash_time_count,
                 interrupt, restart_count, running_vm, starts>>

\* Mutant: a forced stop does not arm the attempts that start after it.
AttemptStartsUnarmed(c) ==
  /\ pc[c] = "setup"
  /\ running_vm' = [running_vm EXCEPT ![c] =
       IF strategy # "one_for_one" \/ max_restarts >= 0 THEN "armed" ELSE "unarmed"]
  /\ Goto(c, "running")
  /\ UNCHANGED <<policy, owned, stop_requested, stop_forced, failed, crash_time_count,
                 done, interrupt, restart_count, starts, stale>>

\* Mutant: the interrupt flag is cleared when the attempt starts running.
AttemptStartsClearing(c) ==
  /\ pc[c] = "setup"
  /\ running_vm' = [running_vm EXCEPT ![c] =
       IF strategy # "one_for_one" \/ max_restarts >= 0 \/ stop_forced
         THEN "armed" ELSE "unarmed"]
  /\ interrupt' = [interrupt EXCEPT ![c] = FALSE]
  /\ Goto(c, "running")
  /\ UNCHANGED <<policy, owned, stop_requested, stop_forced, failed, crash_time_count,
                 done, restart_count, starts, stale>>

\* prepare_supervised_attempt, then the attempt's VM is published.
AttemptStarts(c) ==
  /\ pc[c] = "setup"
  /\ running_vm' = [running_vm EXCEPT ![c] =
       IF strategy # "one_for_one" \/ max_restarts >= 0 \/ stop_forced
         THEN "armed" ELSE "unarmed"]
  /\ Goto(c, "running")
  /\ UNCHANGED <<policy, owned, stop_requested, stop_forced, failed, crash_time_count,
                 done, interrupt, restart_count, starts, stale>>

AttemptReturns(c) ==
  /\ pc[c] = "running"
  /\ running_vm' = Published(c, {})
  /\ done' = [done EXCEPT ![c] = TRUE]
  /\ stale' = [stale EXCEPT ![c] = FALSE]
  /\ Goto(c, "exit")
  /\ UNCHANGED <<policy, owned, stop_requested, stop_forced, failed, crash_time_count,
                 interrupt, restart_count, starts>>

\* Mutant: a restart that a sibling asked for is not counted.
AttemptInterruptedUncounted(c) ==
  /\ pc[c] = "running" /\ interrupt[c]
  /\ running_vm' = Published(c, {})
  /\ stale' = [stale EXCEPT ![c] = FALSE]
  /\ Goto(c, "interrupted")
  /\ UNCHANGED <<policy, owned, stop_requested, stop_forced, failed, crash_time_count,
                 done, interrupt, restart_count, starts>>

\* DIAMOND_VM_INTERRUPTED: a restart, unless the supervisor is shutting down.
AttemptInterrupted(c) ==
  /\ pc[c] = "running" /\ interrupt[c]
  /\ running_vm' = Published(c, {})
  /\ restart_count' = [restart_count EXCEPT ![c] =
                         IF failed \/ stop_forced THEN @ ELSE Up(@)]
  /\ stale' = [stale EXCEPT ![c] = FALSE]
  /\ Goto(c, "interrupted")
  /\ UNCHANGED <<policy, owned, stop_requested, stop_forced, failed, crash_time_count,
                 done, interrupt, starts>>

\* The siblings that c's crash restarts under the strategy.
Siblings(c) ==
  CASE strategy = "one_for_one" -> {}
    [] strategy = "one_for_all" -> Children \ {c}
    [] strategy = "rest_for_one" -> {d \in Children : d > c}

\* Of a set of children, those an interrupt is raised for.
Reached(S) == {d \in S \cap Counted : ~done[d]}

\* Mutant: crashes are counted after the supervisor gave up, too.
CountsAgainstAlways == max_restarts >= 0

\* The crash counts against the restart intensity.
CountsAgainst == max_restarts >= 0 /\ ~failed /\ ~stop_requested

\* count_crash_against_intensity with kept older crashes in the window; the
\* supervisor gives up.
CrashGivesUp(c, kept) ==
  /\ CountsAgainst /\ kept + 1 > max_restarts
  /\ crash_time_count' = kept + 1
  /\ failed' = TRUE
  /\ stop_requested' = TRUE
  /\ supervisor_interrupt_child(Reached(Children \ {c}))
  /\ running_vm' = Published(c, Reached(Children \ {c}))
  /\ stale' = [stale EXCEPT ![c] = FALSE]
  /\ UNCHANGED restart_count

\* The supervisor goes on: the strategy's siblings restart too.
CrashRestarts(c, kept) ==
  /\ IF CountsAgainst
       THEN kept + 1 <= max_restarts /\ crash_time_count' = kept + 1
       ELSE UNCHANGED crash_time_count
  /\ restart_count' = [restart_count EXCEPT ![c] = Up(@)]
  /\ LET reached == IF failed \/ stop_requested THEN {} ELSE Reached(Siblings(c)) IN
     /\ supervisor_interrupt_child(reached)
     /\ running_vm' = Published(c, reached)
  /\ stale' = [d \in Children |->
       IF d = c THEN FALSE
       ELSE stale[d] \/ (~failed /\ ~stop_requested /\ d \in Siblings(c) /\ InAttempt(d))]
  /\ UNCHANGED <<failed, stop_requested>>

AttemptCrashes(c) ==
  /\ pc[c] = "running"
  /\ \E kept \in 0..crash_time_count : CrashGivesUp(c, kept) \/ CrashRestarts(c, kept)
  /\ Goto(c, "crashed")
  /\ UNCHANGED <<policy, owned, stop_forced, done, starts>>

loopState == <<policy, owned, stop_requested, stop_forced, failed, crash_time_count,
               interrupt, restart_count, running_vm, starts, stale>>

\* Mutant: the loop looks for a forced stop only.
StopSeenForced == stop_forced

\* What the loop looks at, without the lock, before it goes round again.
StopSeen == stop_requested

\* The first look, after the attempt's VM was freed.
AfterAttempt(c) ==
  /\ pc[c] \in {"crashed", "interrupted"}
  /\ Goto(c, CASE StopSeen -> "stopping"
               [] ~StopSeen /\ pc[c] = "interrupted" -> "top"
               [] OTHER -> "backoff")
  /\ UNCHANGED <<loopState, done>>

\* The second, after the pause.
BackoffEnds(c) ==
  /\ pc[c] = "backoff"
  /\ Goto(c, IF StopSeen THEN "stopping" ELSE "top")
  /\ UNCHANGED <<loopState, done>>

mark_supervised_child_done(c) ==
  /\ pc[c] = "stopping"
  /\ done' = [done EXCEPT ![c] = TRUE]
  /\ Goto(c, "exit")
  /\ UNCHANGED loopState

Exits(c) ==
  /\ pc[c] = "exit"
  /\ Goto(c, "ended")
  /\ UNCHANGED <<loopState, done>>

-----------------------------------------------------------------------------

Terminated == owner = "freed" /\ UNCHANGED vars

Next ==
  \/ \E limit \in Limits \cup {-1} : RestartPolicy(limit)
  \/ AddChecks \/ AddRefused \/ AddCounts \/ AddStarts \/ AddFails
  \/ Stop("join") \/ Stop("stop_wait") \/ StopForces
  \/ Join \/ Free \/ JoinMarks \/ JoinWaits \/ JoinReturns
  \/ \E c \in Children :
       \/ LoopTop(c) \/ OutOfMemory(c) \/ AttemptStarts(c) \/ AttemptReturns(c)
       \/ AttemptInterrupted(c) \/ AttemptCrashes(c) \/ AfterAttempt(c)
       \/ BackoffEnds(c) \/ mark_supervised_child_done(c) \/ Exits(c)
  \/ Terminated

Spec == Init /\ [][Next]_vars

\* Every thread runs on.  An armed attempt looks at its interrupt flag at its
\* next instruction; nothing makes a worker return or crash.
Fairness ==
  /\ WF_vars(AddCounts \/ AddRefused) /\ WF_vars(AddStarts \/ AddFails)
  /\ WF_vars(StopForces) /\ WF_vars(JoinMarks) /\ WF_vars(JoinWaits) /\ WF_vars(JoinReturns)
  /\ \A c \in Children :
       /\ WF_vars(LoopTop(c)) /\ WF_vars(OutOfMemory(c) \/ AttemptStarts(c))
       /\ WF_vars(running_vm[c] = "armed" /\ AttemptInterrupted(c))
       /\ WF_vars(AfterAttempt(c)) /\ WF_vars(BackoffEnds(c))
       /\ WF_vars(mark_supervised_child_done(c)) /\ WF_vars(Exits(c))

FairSpec == Spec /\ Fairness

-----------------------------------------------------------------------------
(* Properties *)

\* An interrupt raised for a running attempt is one its VM looks for: the
\* per-instruction check is armed, however the raise and the publication of
\* running_vm interleave.
InterruptArmed ==
  \A c \in Children : pc[c] = "running" /\ interrupt[c] => running_vm[c] = "armed"

\* An attempt that a sibling's crash asked to restart keeps its interrupt until
\* it ends: neither its own start nor a child being added at that moment
\* loses it.
StaleInterrupted ==
  \A c \in Children : stale[c] /\ InAttempt(c) => interrupt[c]

\* Once the supervisor gave up, every attempt still in progress has been
\* interrupted, those of children counted or started meanwhile included.
GiveUpReachesAll ==
  failed => \A c \in Children : InAttempt(c) => interrupt[c]

\* After stop has returned, and when the supervisor's memory is freed, no
\* child thread is left that could touch it, and alive? is false.
NoChildOutlives ==
  owner = "freed" \/ (stopped /\ owner = "idle") =>
    \A c \in Counted : pc[c] = "ended" /\ done[c]

\* The supervisor gives up exactly when more than max_restarts crashes are in
\* the window, and never has more than the max_restarts + 1 its array holds.
IntensityExact ==
  /\ failed <=> max_restarts >= 0 /\ crash_time_count > max_restarts
  /\ max_restarts >= 0 => crash_time_count <= max_restarts + 1

\* While nothing was stopped, restart_count is the number of attempts after the
\* first, the one about to start included (as far as attempts are counted).
RestartCountExact ==
  ~stop_requested =>
    \A c \in Children :
      starts[c] < MaxCounted => restart_count[c] =
        IF starts[c] = 0 THEN 0
        ELSE starts[c] - (IF pc[c] \in {"top", "crashed", "interrupted", "backoff"} THEN 0 ELSE 1)

\* A supervisor that gave up ends all of its children, workers that loop
\* forever included, so join returns to raise the failure.
GiveUpEndsAll ==
  failed ~> \A c \in Counted : pc[c] = "ended"

\* An attempt asked to restart does end.
SiblingsRestart == \A c \in Children : stale[c] ~> ~stale[c]

\* Every worker's attempt ends by itself.
FiniteAttempts == \A c \in Children : WF_vars(AttemptReturns(c) \/ AttemptCrashes(c))

\* stop, with or without a timeout, returns if every attempt ends by itself, also
\* when every one crashes: stop_requested ends each loop at its next look, wherever
\* the call found the child, and children that join or an earlier stop has joined
\* are not joined again.
StopReturns == FiniteAttempts => (call = "stop" ~> call = "none")

\* stop(timeout_ms) returns whatever the workers do: "stop(0) interrupts
\* immediately", and an attempt that starts later arms itself.
ForcedStopReturns == owner = "stop_wait" ~> call = "none"

=============================================================================
