# TLA+ specifications of the Diamond runtime

Diamond is a language with a register virtual machine written in C and packages
written in the language itself. These modules specify the parts that are hardest
to test: what several operating-system threads do to one Channel or Supervisor,
what the program and the garbage collector do to one heap, how the compiled code
leaves nested `begin` blocks, how child processes, library calls and Threads end
while others wait for them, and how workers share the job queue. TLC checks them
on small instances; TLAPS proves the safety properties that the passing runs check,
except that compiled code does what it was written for, for every value of the
constants.

Paths are relative to the repository. `PROJECT.json` maps every definition that
models code to its lines, and lists the runs, mutants, findings, hazards and
theorems.

## 1. The system

Every Diamond Thread is an operating-system thread with a VM and a heap of its
own. Nothing is shared between heaps: a value that crosses is copied. A few
native objects are shared by pointer, behind a mutex: the Channel, the
Supervisor, the result of a Thread, and a job that a VM has given to a helper
thread. Within one VM, Fibers are cooperative, each with its own C stack and
frames, and one collector serves them all. The process's descriptors, children
and live-thread count belong to all VMs.

| Part | State | Operations | What makes it hard | Module |
|---|---|---|---|---|
| Channel (`src/vm_concurrency.c`, `src/vm_limits.c`) | ring buffer, `closed`, `sent`, `taken`, `receivers_waiting`, two condition variables, list of readiness waiters with a pipe each | `send`, `try_send`, `receive`, `try_receive`, `close`, `wait_readable`, `wait_writable` | one signal per slot, handoff of a rendezvous, waits cut into slices that look at an interrupt flag, a failed copy after a wakeup | `Channel`, `Mailbox` |
| Waits for several channels (`src/vm_outlined.c`, `src/vm_concurrency.c`) | one pipe, registered with many channels; which were seen drained | `Channel.select`, `Channel.select_send`, the waits that channels cancel | one lock at a time: any channel may change between two of them | `Select` |
| Supervisor (`src/vm_concurrency.c`) | child slots, `stop_requested`, `stop_forced`, `failed`, crash times, and each child's `interrupt`, `running_vm`, `done`, `joined` | `restart_policy`, `add_child`, `stop`, `stop(timeout_ms)`, `join`, free of the handle, the child's retry loop | interrupts raised while an attempt starts or ends, children added during a crash, stop racing restarts | `Supervisor` |
| Garbage collector (`src/vm_gc.c`) | young and old lists, remembered set and bits, card tables | allocation, three write barriers, minor and major collection | a missed barrier is visible only at a later collection, on some other object | `GC` |
| Fibers (`src/vm.c`, `src/vm_concurrency.c`) | `state`, frames, `resumer_fiber`, transfer value | new, `resume`, `yield`, end, failure | references that live only in a suspended stack or in a value being passed | `GC`, as far as references move |
| Unwinding (`src/compiler_control.c`, `src/compiler_flow.c`, `src/vm_run_chunk.c`, `src/vm_exceptions.c`) | a stack of handlers per frame, the exception and its text, the pending exit of an `ensure` clause | `raise`, `retry`, `return`, `break`, `next`, `redo`, blocks that leave their method | nested clauses, each of which may be left in every way | `Unwind`, `UnwindSemantics` |
| Child processes (`src/vm_process_io.c`, `src/vm_gc.c`) | pids, descriptors, `reaped`, the handle and stream objects | `Process.run`, `Process.spawn`, wait, running?, signals, close, finalizers | the kernel gives a pid or a descriptor out again as soon as it is free | `Processes` |
| Interruptible library calls (`src/vm_limits.c`, `src/vm_database.c`, `src/vm_network.c`, `src/vm_outlined.c`) | interrupt flag, registered call, jobs of helper threads with counts | database calls, `MySQL.open`, host-name lookups, interrupt | an interrupt before, during and after the call; a job that two threads may free | `Interrupts` |
| Threads (`src/vm_concurrency.c`, `src/vm_limits.c`, `src/vm.c`) | live-thread count, `joined`, owner | new, join, finalizer, end of the owner | compare-and-swap on a limit, failure paths that give the slot back, three places that join | `Threads` |
| Jobs package (`packages/jobs`) | rows with status, attempts, lock time and run time; recurring schedules | enqueue, claim, succeed, retry, reap, fire | workers that crash between two statements, rows read and then updated by id | `JobQueue` |
| Interpreter, JIT, compiler, type checker, loader, other native services, strings, debugger, command line, other packages | | | sequential, or thin layers over the operating system | none, see section 7 |

The parts meet in few places. Channel, Select, Supervisor, Interrupts and Threads
read the interrupt flag of the VM that waits in them. A Supervisor's child is a
thread with a new VM per attempt, which ends as in `Threads`. A Channel's copy
allocates in the receiving VM, where a collection may run, and a collection runs
the finalizers of `Processes` and `Threads`. Each specification takes its
neighbour's effect as an input that may happen at any time (an interrupt; an
attempt that returns or crashes; a collection at any point; a send or a close by
another thread in `Select`), which allows at least what the neighbour does.

## 2. Modules

| Module | Models |
|---|---|
| `Mailbox` | what a Channel promises: a bounded first-in first-out mailbox in which each send call ends accepted or refused |
| `Channel` | one Channel and the threads that use it |
| `Select` | calls that wait for several channels |
| `MCChannel`, `MCSelect` | instances for TLC |
| `ChannelProofs`, `SelectProofs` | safety of a Channel and that it implements `Mailbox`; no missed channel |
| `Supervisor`, `MCSupervisor` | one Supervisor, its owner thread and its children's loops |
| `SupervisorProofs` | safety of the Supervisor |
| `GC`, `MCGC` | heap, barriers, Fibers and collections of one VM |
| `GCInvariant` | the inductive invariant of the collector, its card arithmetic, and the program's writes with their barriers |
| `GCProofs` | Fibers and collections keep the invariant; safety of the collector |
| `Unwind`, `UnwindProofs` | the interpreter of the bytecode that leaves blocks, for any bytecode; proofs |
| `UnwindSemantics`, `UnwindTerms` | what the control statements mean; the terms it shares with the interpreter |
| `UnwindCompiler`, `MCUnwind` | the bytecode of the control statements, run against their meaning; the programs that TLC runs |
| `Processes` | child processes and their pipes |
| `Interrupts` | library calls that another thread interrupts |
| `Threads` | creation, join and end of Threads |
| `NativesProofs` | proofs about `Interrupts` and `Threads` |
| `JobQueue` | the jobs package |
| `ProcessesProofs` | proofs about `Processes` and `JobQueue`, the processes beside a VM: its children and the workers of a queue |
| `MCNatives` | instances of `Processes`, `Interrupts`, `Threads` and `JobQueue`, which share no state: a behaviour is one of one part |

### Channel

A method holds the channel's mutex from its first access to its return, except
while a condition wait sleeps. One action is one stretch between two points
where the mutex is free. `channel_send_helper` is `Send`/`TrySend` up to its
first sleep and `SendWakes`/`HandoffWakes` from a wakeup on; each is a
disjunction of the ways that stretch can end (`SendBlocks`, `SendClosed`,
`SendCopyFails`, `SendEnqueues`, `SendOffers`, ...), in the code's order of
tests. Receiving is laid out in the same way.

A sleeper is `asleep`, or has been signalled or timed out and competes for the
mutex with newcomers, which may overtake it. `Signal` chooses the sleeper that a
signal wakes; a broadcast wakes them all. `SpuriousWakeup` is what POSIX allows
and `TimesOut` is the end of a slice of `channel_wait_bounded`. The readiness
waits register and test under the lock, poll without it, and unlink under it.

Values are numbered by send call. `fate` and `delivered` are history variables;
no guard reads them. `CopyFaults` says in which direction a copy may be refused.

### Select

A step is one hold of one channel's lock. `TryNext`, `TryCompletes` and
`CopyFails` are a pass over the channels, `PassEnds` its end; `Registers`,
`Polls`, `PollReturns`, `Unlinks` and `WaitEnds` are `cancellable_wait_helper`,
which serves every kind of wait with one readiness test, `IsReady`. A channel is
the number of its values, whether it is closed and whether a receive is parked;
what other threads do to it are single steps that notify as the code does
(`Channel` has the details). `outcome` tells nil before the deadline from the
other ways a call ends.

### Supervisor

A step is one hold of the supervisor's lock, or one read of the atomic
`stop_requested` outside it. The child's loop is `LoopTop`, `AttemptStarts`, one
of `AttemptReturns`, `AttemptInterrupted` and `AttemptCrashes`, then
`AfterAttempt` and `BackoffEnds`. `AttemptCrashes` is the whole of
`record_attempt_failure`: the window, the give-up and the interrupts of the
siblings that the strategy covers. The owner's calls go through `JoinMarks`,
`JoinWaits` and `JoinReturns`, which `stop`, `join` and the free share as in the
code.

`running_vm` is `armed` when the attempt's VM has its per-instruction check
switched on: a raised flag that the VM does not look at stops nothing. A pause or
a timeout ends at any moment, and any of the older crashes may have left the
window. Children may crash for ever; `restart_count` and the history variable
`starts` count up to `MaxCounted` and then stay, which no guard notices.

### GC

An object is an address with a generation, slots, a remembered bit and, for an
Array or a Hash, a set of dirty cards with the size of its table. An Instance
stands for all objects with a fixed set of references. A Hash entry is one
reference, since key and value are written, moved and scanned together.

Program steps are named for what they do: `SetField`, `SetIndex`, `Push`,
`ArrayPop`, `SetRange`, `hash_delete`, `HashClear`, `Read`, the allocations, and
`Resume`, `Yield`, `Complete` and `Fail` for Fibers. Each includes its barrier,
with the capacity the code passes. `Drop` is a register that is overwritten.
`CollectMinor` and `CollectMajor` mark, sweep, promote and clear the remembered
set as the code does; they may happen at any point where the VM may allocate, so
no threshold has to be modelled.

A register is a set member, not a numbered slot: two registers with the same
value cannot be told apart by a collector.

### Unwind

One step of `Unwind` is one instruction of `run_chunk`, or the return of a call
into the frame that made it. The code is a parameter, `CodeOf`. Two things are
assumed: a frame has room for a natural number of handlers, and in the code the
instruction after a `CLOSURE` is the `CALL` that the block is written for, as
`enter_block_body` and its callers emit it. The loops of `catch_exception`,
`unwind_for_jump` and `RETURN`, which pop handlers one by one, are one step each:
`Innermost` is the handler at which such a loop stops, and `Unwound` what the pops
above it leave, with the continuation that the outermost active `ensure` had kept.

`UnwindCompiler` gives `CodeOf` its value. `Compile` turns a statement into the
instructions that the compiler emits: handlers that are pushed and popped, one copy
of the `ensure` clause, and the jumps of `break`, `next`, `redo`, `retry` and
`return` with the number of `begin` levels they leave. A register is named for the
`begin` block whose exception it holds. A def is `wide` if these registers come after
the first 256: a bare `raise`, which names its register in one byte, then raises what
another register holds, a value of class `Ordinary`. `UnwindSemantics` runs the
same statement by structural recursion, with no code at all, and `RunsAsWritten`
compares what happened, in which order, and how the program ended. It excepts the
programs for which the compiler does not check that its code will do (`Fits`): those
with such a `raise`, and those that nest more `begin` blocks in one def than a frame
has handlers for. These two are
recursive, and only TLC uses them. `ExitsHaveAPlace` and `EnsureRunsOnce` are about
the machine alone, whatever code it runs.

### Processes

The kernel's process and descriptor tables are variables of their own, with for
whom each entry was made; pids and descriptors are given out again at once, also
to processes that are no children. `process_wait_helper` is every path that
reaps a handle's child, `RunStarts` to `RunReaps` are `Process.run`, with its
interruption. `SweepHandle` and `SweepStream` are the finalizers; `Forget` is the
program losing a reference, after which they may run at any time.

### Interrupts

The VM registers a database call, starts it, returns from it and unregisters; the
interrupting thread sets the flag, then looks for a registration and cancels what
it finds, under the VM's lock. What a cancel does to a call that has not started
or is over depends on the library and is modelled per database. A PostgreSQL query
for which there is no cancel object runs without a registration
(`RunsUnregistered`). The helper threads of `MySQL.open` and of lookups share a job
with the VM through `done` and a reference count; a lookup whose helper cannot be
started gives its slot back (`HelperNotStarted`).

### Threads

`NewBegins`, `NewReserves`, `NewFails` and `NewStarts` are `Thread.new`. A Thread
that ends is joined by `join`, by the finalizer of its handle or by the end of
its owner, which frees the Threads it owns one after the other and waits for
each. The root is the VM of a supervised attempt. In `JoinRunsOutOfMemory` the write
barrier of a `join` fails after `pthread_join`: the code returns without setting
`joined`, and the VM that joined ends. `JoinFailureRescued` is the same in a VM that
has been over a memory limit before, where the failure can be rescued. The history
variable `spent` marks the Thread.

### JobQueue

One step is one SQL statement of a worker, or the handler. Times are relative to
now, and `Tick` moves them all. `Crash` may come between any two statements, and a
worker may pause between any two, for any time. The history variable `stalled` says
that a `reap_stale!` has updated a row the first backoff or more after it selected it.

## 3. Properties and runs

| Run | Instance | Properties |
|---|---|---|
| `channel_bounded` | 3 threads, 1 interruptible, capacity 2, 4 sends; a caller over 3 channels of capacity 0 or 1 | `NoSenderOversleeps`, `NoReceiverOversleeps`, `SelectMissesNothing` |
| `channel_rendezvous` | 3 threads, capacity 0, 2 sends, copies refused both ways, fairness | `ClosedWakesAll`, `HandoffOwnsSlot`, `ReceiversCounted`, `ReadinessNotMissed`, `NothingLostOrDuplicated`, `ImplementsMailbox`, `CloseUnblocks`, `InterruptUnblocks` |
| `channel_copy_fault` | capacity 1, a sent value may be refused | violation of `NoSenderOversleeps` |
| `supervisor` | 2 children, every strategy, limit 0 or 1, any number of crashes, fairness | `InterruptArmed`, `StaleInterrupted`, `GiveUpReachesAll`, `NoChildOutlives`, `IntensityExact`, `RestartCountExact`, `GiveUpEndsAll`, `SiblingsRestart`, `StopReturns` |
| `supervisor_forced_stop` | 1 child, fairness | violation of `ForcedStopReturns` |
| `gc_containers` | an Array and a Hash of up to 3 elements, cards of 2 | `TypeOK`, `NoDangling`, `OldToYoungRecorded`, `RememberedExact`, `CardTableCovers` |
| `gc_fibers` | 2 Fibers and an Instance | `NoDangling`, `RunningHandleHeld` |
| `unwind` | the programs of `MCPrograms` | `RunsAsWritten`, `ExitsHaveAPlace`, `EnsureRunsOnce` |
| `unwind_retry` | a `retry` inside a `begin` block of a rescue clause | violation of `RunsAsWritten` |
| `unwind_message` | an exception that an `ensure` clause discards | violation of `MessageIsItsOwn` |
| `natives` | 1 VM and 2 handles, 2 pids, 2 descriptors; 2 VMs and 2 jobs; 3 Threads with limit 2; 2 workers, 2 rows, 1 crash | `ChildAwaitsItsOwner`, `DescriptorIsItsOwners`, `InterruptMeetsCall`, `JobsAreHeld`, `ThreadsWithinLimit`, `ThreadJoinedOnce`, `JobRunsAlone`, `AttemptsCounted`, `FiresOncePerInterval`, `JobSettles` |
| `failed_spawn` | 1 VM and 2 handles | violation of `EveryChildAwaits` |

What they show:

* **No lost wakeup.** One signal per freed or filled slot is enough on a bounded
  channel, although signalled threads may be overtaken, time out or be
  interrupted. A rendezvous channel broadcasts where a signal could go to the
  wrong kind of waiter. A poller whose condition holds has a byte in its pipe,
  also when it waits for several channels, whose states it has seen at different
  moments; and a select that returns nil early has not missed a value.
* **A handoff is atomic.** The sender that empties the slot finds its own value
  in it. A send that reports success was delivered; one that raises left
  nothing, even when the channel is closed between the take and the sender's
  next look. This is the refinement `ImplementsMailbox`, with `queue` as the
  abstract mailbox.
* **No lost interrupt.** A crash that asks siblings to restart, and a give-up,
  reach every attempt in progress, however an attempt's start and a new child's
  registration interleave with it. An interrupt and a database call meet: the
  call is found, or the VM sees the flag before or after it, except for a
  PostgreSQL query that could not be given a cancel object.
* **No thread outlives its supervisor**, and the restart limit is exact. `stop`
  returns if every attempt ends, also if all of them crash. Threads stay within
  their limit, and a Thread is joined once, unless a `join` of it ran out of memory
  after `pthread_join` (section 4).
* **The barriers are sufficient.** Every reference from an old object to a young
  one is where the next minor collection looks, so no collection frees what is
  in use. This covers growing containers, entries that move between cards, and
  the argument of a resume, which is stored without a barrier until control
  comes back.
* **Clauses run as written.** The handlers that the compiled code pushes and pops
  run each clause when, and as often as, the statements say, in defs that need no
  more handlers than a frame has and have no bare `raise` beyond 256 registers.
* **Pids and descriptors stay with their owners**, although the kernel gives them
  out again, until a `Process.spawn` fails to start.
* **A job is run by one worker at a time and every claim is one attempt, as long
  as no worker stalls inside `reap_stale!`** for the first backoff (5 seconds)
  between selecting a row and updating it, and jobs end before their lock expires.
  The code ensures neither; section 4 has what follows from such a stall. Under the
  second condition alone, a recurring job fires at most once per interval and every
  job is settled, although workers die, pause, and use rows that have changed.

### Bounds

Three threads are enough for two waiters of one kind and a third thread that
wakes them or overtakes them, which is how a wakeup is lost; with one more send
than slots, both ends block. The interruptible thread differs from the others
only in its sliced waits, so one is enough. One caller over three channels meets
a change before, at and after each registration; a second caller would do to the
channels what the other threads do. Two children give a crashing one and a
sibling on either side of it in each strategy; two crashes within the window pass
limit 1, and attempts and restarts are told apart up to three (`MaxCounted`),
beyond which `RestartCountExact` says nothing. With
cards of two slots, three elements make a full and a partial card. Two Fibers
make a chain that is deeper than the one that runs. `MaxRegisters` bounds the
references held in all frames together: three hold a source, a target and a
value.

The programs of `unwind` put every way of leaving a clause in every clause, in a
loop, in another `begin` block and across a block, with two repetitions (`Fuel`).
`Deep` nests blocks until all of the sixteen handlers are used, in bodies and in
`ensure` clauses, and one further; `Wide` has exceptions beyond the first 256
registers. The programs leave out the two shapes of the violation runs.

In `natives`, two handles and a `Process.run` compete for two pids and two
descriptors, fewer than they would like to have, so that each number is used again.
`FewOwners` keeps at most two of the three in use at a time and one handle with
streams, and lets no further stream be made after a spawn that failed: what a second
failure would do is what the first does. `SpawnEnds` has the options with both pipes.
`OneInterrupted` lets one of the two VMs of `Interrupts` be interrupted at a time; the
other still competes for the jobs and the resolver's slots. Three Threads and a limit
of two make a Thread that owns another and one that is refused. Two rows, one of them
without a handler, two workers and one crash give a row that is claimed, lost, found
stale by both workers and claimed again; `Late` ends the counting of how long a row is
overdue, and `MaxLag` that of how long a worker pauses; a pause of `MaxLag` is as long
as the first backoff and the interval. `StallsAlone` follows a `reap_stale!` that stalls
only where no recurring job is scheduled: such a job meets the rows by enqueueing one,
which the application does as well. The proofs of section 5 remove these bounds from
the properties they are about.

`FewOwners`, `OneInterrupted` and `StallsAlone` are state constraints in a run with
liveness. The first two only cut behaviours of `Processes` and `Interrupts`, and
`JobSettles` is about `JobQueue`. The third leaves `JobSettles` unchecked, for two
things at once only: a stall, and a recurring job. `JobSettles` says that the table
comes to rest with no job open. That is as strong as to say it of each job, since
a row is enqueued once, and it is one formula for TLC and not one for each row.

Symmetry permutes threads, or addresses of one kind. It is not used in runs with
a temporal property.

### Fairness

Fairness is weak, and only on what the code or the operating system drives on
its own: a thread that was woken gets the mutex, a written pipe ends a poll, a
sliced wait ends, a running thread takes its next step, and an armed VM looks at
its interrupt flag at its next instruction. Nothing makes a thread call a
method, close a channel or wake up spuriously, and nothing makes a worker return
or crash. `StopReturns` states the extra assumption it needs
(`FiniteAttempts`) in the property. POSIX mutexes promise no more than that
some contender gets in; weak fairness on each woken thread is a real assumption
about the scheduler, which matters for `CloseUnblocks` and `InterruptUnblocks`
only while other threads keep calling.

In `JobQueue` the clock ticks and a worker that is up takes its next step; a
worker that died is started again, as a process manager does. The clock carries
a second assumption, `InTime`, which is about safety too: a handler ends before
its lock expires, as the package's README asks. Nothing is assumed of the time that
a worker takes between two statements. `JobRunsAlone` and `AttemptsCounted` state
the condition that they need of it, `~stalled`, in the property.

Deadlock is checked in every run. The Supervisor ends in `Terminated`, a stutter
after the handle is freed, so the check means there that no other state is a dead
end. It says little of the Channel, where a sleeper may always wake up
spuriously, and of the heap, where a collection may always run: what must happen
to a blocked caller is in the no-oversleeping and liveness properties.

### Mutants

Each property of a passing run has a mutant in `PROJECT.json`, an operator next
to the definition it replaces: a signal sent only when the queue was full, a
`close` that forgets a condition variable, an attempt that starts without arming
its check, a card marked with the capacity from before a growth, a stream that
keeps its descriptor after close, a claim that does not look at the status, and
so on. TLC finds the property violated under the run's own configuration.

## 4. Where the code and its documents disagree

* **`channel_copy_fault`** (`src/vm_concurrency.c:802`). A sender woken for a
  free slot whose value cannot be copied raises without passing the wakeup on.
  Another sender then sleeps beside the free slot until a later receive.
* **`supervisor_forced_stop`** (`src/vm_concurrency.c:477`). The top of a
  child's loop clears an interrupt that `stop(timeout_ms)` raised while the child
  was between two attempts. The next attempt arms its check, but the flag it
  looks at is gone, and the join waits for as long as the worker runs.
* **`unwind_retry`** (`src/compiler_control.c:532`). A `retry` inside a `begin`
  block of a rescue clause jumps without unwinding: that block's `ensure` clause
  does not run, and the enclosing one then fails with invalid bytecode.
* **`unwind_message`** (`src/vm_exceptions.c:15`). The report of an exception that
  an `ensure` clause discards stays in `vm->error`, and the next runtime error
  takes it for its message.
* **`failed_spawn`** (`src/vm_gc.c:575`). A spawn that fails leaves a handle with
  pid 0, whose finalizer waits for any child and takes another handle's exit
  status. `ChildAwaitsItsOwner` is the same property until the first such
  failure.

Smaller ones met on the way have no run of their own:

* `restart_count` is incremented for a crash recorded after `stop` although no
  restart follows (`src/vm_concurrency.c:356`, against the comment at 334);
  `RestartCountExact` is stated only while nothing was stopped for this reason.
* Deleting the last entry of an old Hash remembers it without making a card table
  (`src/vm_gc.c:723`, against the comment at 243); the collector then scans the
  whole container, which is safe, and `OldToYoungRecorded` allows it.
* A rendezvous `try_send` trusts `receivers_waiting`, which still counts a
  receiver that has been interrupted (`src/vm_concurrency.c:764`). The value
  stays in the slot for a later receive, where `docs/threads.md:194` says that
  nothing is buffered.
* A cancel that reaches SQLite or PostgreSQL between the registration of a call
  and its start is lost (`src/vm_limits.c:246`), where `docs/threads.md:362` lists
  database calls among those that a stop interrupts. `InterruptMeetsCall` asks
  only that the interrupting thread saw the call.
* An attempt that returns with an unjoined Thread that blocks keeps
  `stop(timeout_ms)` waiting in the end of its VM (`src/vm.c:447`), where
  `docs/threads.md:342` says the timeout bounds the wait.
* `reap_stale!` and `retry_or_fail!` of the jobs package update a row by its id
  alone (`packages/jobs/lib/jobs/worker.d6:55`), and nothing bounds the time
  between the two. Two workers select the same stale row; one puts it back, waits
  out the backoff and claims it again; the other then makes the row pending under
  the handler that runs, and a third claim runs it a second time, uncounted. TLC
  reaches this in 17 states if `~stalled` is taken out of `JobRunsAlone`.
* The write barrier of a `join` may run out of memory after `pthread_join`, and
  returns without setting `joined` (`src/vm_concurrency.c:706`). The VM ends, and its
  end frees the Thread and joins it again; or, after a memory limit was exceeded
  before, the program rescues the error, and a later `join` joins again. The comment
  at 685 says of another path that leaving `joined` false there "made a later join (or
  free_thread) join it a second time, which is undefined behavior". In a supervised
  attempt the program goes on after that. `ThreadJoinedOnce` excepts such a Thread.
* A bare `raise` casts the number of its register to `uint8_t`
  (`src/compiler_control.c:229`), while registers go to 4096 and `RAISE` reads two
  bytes. In a def where the exception's register is not among the first 256 it
  raises what another register holds. `docs/internal/design.md:1144` says that it
  "emits the ordinary raise opcode against that register". `RunsAsWritten` excepts
  such a `raise`.
* Nothing counts the handlers that a def needs (`src/vm_run_chunk.c:3425`). The ninth
  `begin` block nested in bodies fails with invalid bytecode as it is entered,
  which no clause around it can rescue and after which no `ensure` clause runs.

## 5. Proofs

The proofs use the assumptions named in `Channel`, `Supervisor`, `GC`, `Unwind`,
`Processes`, `Interrupts` and `Threads`, and for `Select` and `JobQueue` the
predicates `Configured` and `Interval` on their constants: the sets of threads, VMs
and jobs are finite, capacities, limits and bounds are naturals, cards are not
empty, the kinds of object are disjoint, pids are positive, the first backoff is not
above the cap.

**`ChannelProofs`**, for any number of threads, any capacity and any number of sends.

* `TypeCorrect`: `TypeOK`.
* `HandoffSafe`: `HandoffOwnsSlot`. By itself it is not inductive: a second sender
  in the handoff could own the same slot. `SlotInv` adds that `sent` is `taken`
  plus the length of the queue on a rendezvous channel, that the pending sender's
  sequence number is `taken + 1` with its item in the slot, and that at most one
  sender is pending. The proof has one lemma per stretch of code, and one frame
  lemma for all that leave the slot alone.
* `CloseWakesEveryone`: `ClosedWakesAll`. From here on the proofs use the ways a
  stretch can end (`StepKinds`) in place of the actions.
* `NoReadinessMissed`: `ReadinessNotMissed`. It is inductive together with
  `PollersRegistered`: a thread that polls is in the list that
  `notify_channel_waiters` goes through.
* `ValuesAreKept`: `NothingLostOrDuplicated`. `Books` adds who has the values on
  their way: the item of a sender that waits for room was never queued, the one of
  a sender in its handoff is in the slot or among the delivered, and no two
  senders have the same. The lemmas before it say what `Append`, `Tail` and the
  concatenation do to a sequence that lists a set.
* `ChannelImplementsMailbox`: every step is a step of `Mailbox` or leaves it
  alone. A withdrawal is the refusal of the abstract send, for which the proof
  needs `SlotInv`: the value that is removed is the sender's own.
* `ReceiversAreCounted`: `ReceiversCounted`.
* `ReceiversWake` and `SendersWake`: `NoReceiverOversleeps` and
  `NoSenderOversleeps`, under the condition that `channel_copy_fault` shows to be
  needed: no received value is refused, and on a bounded channel no sent one.
  They are statements about numbers of threads, and the proof separates the two.
  `Matches` says with sets what a step may do to the threads asleep and to those
  on their way: need no more of them than before, or wake a sleeper for one more,
  or take one away and what it came for with it. `CoverStep` counts once and for
  all. Bounded senders also need `ClosedWakesAll`, since nobody is woken for the
  room that a closed channel has; on a rendezvous channel a sender sleeps only
  while the slot is taken (`SlotTakenInv`).

**`SupervisorProofs`**, for any number of children, every strategy and any limit.
`Invariance` proves `IInv`; from it follow `InterruptsAreArmed`, `RestartsAreKept`,
`GivingUpReachesAll`, `StopOutlivesChildren`, `IntensityIsExact` and
`RestartsAreCounted`, one for each safety property of the run. `IInv` has four
parts. `Counting` ties the slots that have a thread to `child_count`, with the one
exception that `add_child` makes between counting a child and starting it.
`LoopInv` says of each place of a child's loop which flags are up; its core is
that a flag is raised only where every attempt that starts arms itself (`Arms`):
under a strategy or a limit by which children interrupt each other, or after a
forced stop. `Flags`
relates `failed`, `stop_forced` and the crash count to `stop_requested`: a give-up
stops the loops that have not started an attempt. `Joining` follows the cursor of
the join loop.

**`SelectProofs`.** `SelectsMissNothing` proves `SelectMissesNothing`. A caller that
polls has looked at its channels at different moments. The invariant says what
is left of that while it still registers: for every channel it is registered
with, there is nothing to do, or it was ready when the caller looked, or a byte
has come since (`ToldInv`); and for every channel of a pass without an open one,
it is over, which lasts (`PassInv`). `ReadinessIsEnough` is the fact about the code
on which it rests: the one test for sleeping covers what each kind of call can do
next. `ToldOfChange` is the frame lemma for everything that happens to a channel
under its lock with a notification.

**`GCInvariant` and `GCProofs`.** `Invariance` proves `IInv` inductive; from it follow

* `NothingFreedEarly` (`NoDangling`): no reference is ever to a freed object;
* `BarriersRecord` (`OldToYoungRecorded`);
* `RememberedBits` (`RememberedExact`);
* `CardTables` (`CardTableCovers`);
* `RunningHandles` (`RunningHandleHeld`) and `TypeCorrect`.

`NoDangling` needs the rest. A minor collection frees a young object that
neither a root nor the remembered set leads to, so every old reference to it
must be recorded (`RecordInv`). A recorded slot must stay recorded when its
container grows or its entries move, so the dirty cards must lie inside the
table and the container (`CardsInv`, with the arithmetic of `CardBound` and
`CardMonotone`), and empty slots must be empty (`SlotsInv`, `FreeInv`).
`RecordInv` has one exception, the argument of a resume in progress, and
`ChainInv` pays for it: the argument is also in the frames of the resumer, which
is on the chain of running Fibers and hence a root. The mark phase is the least
closed set, so the proof uses that it contains the roots and is closed under
references, and needs no induction over paths.

`GCInvariant` states the invariant and what any one write does to it, with a lemma
for each action of the program on its heap; `GCProofs` has those of the Fibers and
of the two collections and puts them together.

**`UnwindProofs`**, for every bytecode, of any size and with any nesting, in which a
block is followed by its call, and every size of the handler array.

* `ExitsLand`: `ExitsHaveAPlace`. It is not inductive: whether a `break` that starts
  has a place depends on the block it starts in. `Closures` says of every block that
  the machine can still call that its frame, if it is there, has a call at the block's
  offset; `Serials` that a serial means one frame and is not handed out again, so that
  a frame found by its serial is the one the block was written in; `Shape` that frames,
  handlers and the machine are records of the right fields and that statuses are known
  ones. The test `Live` of `BLOCK_BREAK` is what starts an exit with a place. After
  that the frames below the one that runs do not move, and what an `ensure` clause
  kept comes back in the frame that kept it. A `break` carries, as history, the offset
  of the call its block is written for, and finds its frame at that very call.
* `ClausesRunOnce`: the action property `EnsureRunsOnce`, from the same invariant. Each
  way of leaving code ends in `Takes` of a frame that goes on or is left, and the
  lemmas say of each what it does to the handlers: it stops at the innermost `ensure`
  that has not started, and starts it, or there is none.
* `HandlersFit`: no frame has more than `MaxHandlers` handlers, the length of the array
  on the C stack, which `PUSH_RESCUE` and `PUSH_ENSURE` test.

`Outermost` and `Innermost` are choices of a least and a greatest number. That they
exist is the lemma `Least`: every nonempty set of naturals has a least element, from
the well-foundedness of `<` in the library. `unwind_retry` is no exception to
`ClausesRunOnce`: there the compiler emits a plain jump, no step of the machine skips
the clause, and its handler stays behind on the stack until the frame fails with
invalid bytecode.

**`ProcessesProofs`, the children of a VM.** `DescriptorsStayWithTheirOwners` proves
`DescriptorIsItsOwners`, which with the types is inductive: what is claimed of a
descriptor names its owner, and only the owner closes it.
`ChildrenAwaitTheirOwners` proves `ChildAwaitsItsOwner`, until the first spawn that
fails to start; `OwnersAreStarted` adds that a handle in use has a pid, which is
what such a failure breaks. `StrangersAreSpared` has, from the same invariant, that
no signal reaches a process that was given a reaped child's pid.

**`ProcessesProofs`, the jobs package.** `JobsRunAlone` proves `JobRunsAlone` and
`AttemptsAreCounted` `AttemptsCounted`. What a worker has read may be out of date when
it uses it, and the invariant says how far: a row that was selected as stale is still
stale, or another worker has put it back with one more attempt and it is not due
before the selection is a first backoff old, or it has failed (`Selected`); a claimed
row is running, in time, and claimed by nobody else (`Holding`); and claims and
attempts differ by one exactly while a row runs or has succeeded (`Counted`).
`RecurringFiresOnce` proves the action property `FiresOncePerInterval`, whatever
workers pause for: a worker that goes to claim the recurring job has read a time that
was due (`ReadWasDue`), and while the last firing is less than an interval old the
row's time is not (`RowAhead`), so the condition of the `UPDATE` fails.

The invariant holds until a `reap_stale!` uses a selection later than that, and so the
theorems are about the time before (`JobsUntilStall`). It needs that no backoff is
shorter than the first: a row put back must not be due while another worker may still
update it by its id. `BackoffsDoGrow` proves it of `backoff_seconds`, which doubles
and caps, by induction on the attempts. The library's induction theorems cannot be
used here, so the lemmas take a least counterexample (`Least` again): first that the
recursion of `Doubled` has a solution (`DoubledExists`), then that its values do not
fall below the first.

**`NativesProofs`**, for any number of VMs, jobs and Threads and any limits.

* `InterruptsMeetCalls`: `InterruptMeetsCall`, from `CallInv`, which is about one
  VM: a call is registered from its begin to its end, what it is registered by is
  usable meanwhile, the flag is up from the start of an interruption to the next
  attempt, and a registration that was seen is still there while the lock is held.
* `JobsStayHeld`: `JobsAreHeld`. `JobInv` lists who has a job: a VM and its
  helper, or one of them, with the value of `done` or of the count that tells
  which; `WaitInv` says what a waiting VM may rely on. No two VMs have the same
  job. `ActiveInv` counts the resolver's slots.
* `ThreadsAreJoinedOnce`: `ThreadJoinedOnce`. A Thread may be joined from three
  places, so the invariant is about owners: a VM that is busy with a Thread owns
  it, and joins only what was started and not joined (`MachineInv`); the
  operating-system thread lives as long as its VM runs, and a Thread without a VM
  is free or is being created by its owner (`ThreadInv`). A Thread that is `spent`
  may be joined twice, and still not freed while it runs.
* `ThreadsStayWithinLimit`: `ThreadsWithinLimit`, with the same invariant and
  `CountInv`. Each step changes the slot of one Thread (`SlotsMove`).

## 6. What is only model-checked

* Liveness under fairness: the prover does not handle it, nor `ENABLED`.
  These are `CloseUnblocks`, `InterruptUnblocks`, `GiveUpEndsAll`,
  `SiblingsRestart`, `StopReturns` and `JobSettles`.
* `RunsAsWritten`. It is about every program, so its proof is an induction over
  statements with the compiler on one side and the meaning on the other, both
  recursive operators, which the prover does not handle. It is also not true of every
  program that `Fits`: `unwind_retry` is one for which it fails.

`TypeOK` of `Channel` is proved (`TypeCorrect`) and not among the properties of a run.

## 7. What is not modelled, and why

* The instructions of the interpreter other than those that leave blocks, the
  JIT and the rest of the compiler: several hundred sequential instructions whose
  state space is that of the program.
* The type checker, loader, formatting, strings, regular expressions, JSON, big
  integers, semantic versions and the package resolver: sequential computations
  with no state that outlives a call. An instance of them that TLC can enumerate
  is far from the inputs that matter, and what the prover does about recursion is
  an induction over numbers, not over the structure of an input.
* Files, sockets, statements, cryptography, the debugger and the command line:
  input and output, one object of one VM at a time. What could go
  wrong there and has no model: a File looked up before the value to write is
  turned into a string, and the descriptor numbers of `IO.poll`.
* Budgets and signals: counters and flags of one VM, read at its own
  instructions.
* The cancellation package adds deadlines to what `Select` has. The registry and
  the database packages leave their concurrency to a database, of which
  everything would have to be assumed. The web packages are parsers over sockets.
* Failure of the host allocator, except where the code carries on after it
  (`AddFails`, `OutOfMemory` in `Supervisor`, `SpawnRunsOutOfMemory` in
  `Processes`, `NewFails`, `JoinRunsOutOfMemory` and
  `JoinFailureRescued` in `Threads`, `HelperNotStarted`
  in `Interrupts`, `RegistersNothing` in `Select`).
* In `Channel`: `size`, `closed?` and the reference count of a handle shared by
  several VMs. In `Supervisor`: the lengths of pauses. In Fibers: the stack
  switch, the guard page and the errors of an illegal resume. In `Processes`: the
  bytes. In `Unwind`: Fibers, backtraces and user-defined classes.
* A timed wait that consumes a signal and still reports a timeout, which POSIX
  allows: a signal goes to a waiter that is asleep, and a waiter that timed out
  no longer receives one.
