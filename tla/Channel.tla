------------------------------ MODULE Channel ------------------------------
(***************************************************************************)
(* One Channel (struct DiamondChannel) shared by a set of threads: the     *)
(* blocking and non-blocking send and receive, close, and the readiness    *)
(* waits wait_readable and wait_writable.                                  *)
(*                                                                         *)
(* Every method body holds the channel's mutex from its first access to    *)
(* its return, except while pthread_cond_wait sleeps.  One action is       *)
(* therefore one stretch of code between two points at which the mutex is  *)
(* free: from the call, or from a wakeup, to the next sleep or the return. *)
(*                                                                         *)
(* A thread asleep on a condition variable leaves it signalled (a signal   *)
(* or broadcast, or a spurious wakeup, which POSIX allows) or timed out,   *)
(* and then competes for the mutex like a new caller: a caller may overtake*)
(* it.  The values sent are opaque to the code, so the model numbers them: *)
(* item n is the value of the n-th send call.                              *)
(***************************************************************************)
EXTENDS Integers, Sequences, FiniteSets

CONSTANTS
  Procs,          \* the threads that hold a handle on the channel
  Interruptible,  \* those whose VM has an interrupt flag, so that waits are sliced
  Capacity,       \* the argument of Channel.new; 0 makes a rendezvous channel
  MaxItems,       \* bound: how many send calls are made
  CopyFaults      \* the methods in which copy_value_into_vm may refuse a value

ASSUME ProcsAssumption == IsFiniteSet(Procs) /\ Interruptible \subseteq Procs
ASSUME CapacityAssumption == Capacity \in Nat
ASSUME ItemsAssumption == MaxItems \in Nat
ASSUME CopyAssumption == CopyFaults \subseteq {"send", "receive"}

Items == 1..MaxItems

Rendezvous == Capacity = 0

Slots == IF Capacity = 0 THEN 1 ELSE Capacity

VARIABLES
  queue,              \* the queued items, oldest first
  closed,
  sent,               \* values placed in the queue (a withdrawal takes one back)
  taken,              \* values removed by a receiver
  receivers_waiting,  \* blocking receives parked on the channel
  waiters,            \* the threads with a linked readiness registration
  pipe,               \* those whose registration's pipe holds a byte
  pc,                 \* the wait each thread is in, or "idle" between calls
  sleep,              \* how a thread in a condition wait stands
  item,               \* the item a thread is sending
  sequence,           \* the local of channel_send_helper
  interrupt,          \* the threads' interrupt flags
  issued,             \* number of send calls made so far
  fate,               \* history: what became of each send call
  delivered           \* history: the items received, in order

chan == <<queue, closed, sent, taken, receivers_waiting>>
vars == <<queue, closed, sent, taken, receivers_waiting, waiters, pipe, pc,
          sleep, item, sequence, interrupt, issued, fate, delivered>>

Waits == {"not_full", "handoff", "not_empty", "readable", "writable", "unlink"}

TypeOK ==
  /\ queue \in Seq(Items)
  /\ closed \in BOOLEAN
  /\ sent \in Int
  /\ taken \in Int
  /\ receivers_waiting \in Int
  /\ waiters \subseteq Procs
  /\ pipe \subseteq Procs
  /\ pc \in [Procs -> Waits \cup {"idle"}]
  /\ sleep \in [Procs -> {"awake", "asleep", "signalled", "timedout"}]
  /\ item \in [Procs -> Items \cup {0}]
  /\ sequence \in [Procs -> Int]
  /\ interrupt \in [Procs -> BOOLEAN]
  /\ issued \in 0..MaxItems
  /\ fate \in [Items -> {"fresh", "offered", "accepted", "refused"}]
  /\ delivered \in Seq(Items)

Init ==
  /\ queue = << >>
  /\ closed = FALSE
  /\ sent = 0
  /\ taken = 0
  /\ receivers_waiting = 0
  /\ waiters = {}
  /\ pipe = {}
  /\ pc = [p \in Procs |-> "idle"]
  /\ sleep = [p \in Procs |-> "awake"]
  /\ item = [p \in Procs |-> 0]
  /\ sequence = [p \in Procs |-> 0]
  /\ interrupt = [p \in Procs |-> FALSE]
  /\ issued = 0
  /\ fate = [i \in Items |-> "fresh"]
  /\ delivered = << >>

-----------------------------------------------------------------------------
(* Condition variables and the waiters' pipes *)

\* The threads asleep on each of the channel's two condition variables.
NotFullSleepers ==
  {p \in Procs : sleep[p] = "asleep" /\ pc[p] \in {"not_full", "handoff"}}
NotEmptySleepers ==
  {p \in Procs : sleep[p] = "asleep" /\ pc[p] = "not_empty"}

\* pthread_cond_signal wakes one sleeper if there is one: the sets it may wake.
Signal(S) == IF S = {} THEN {{}} ELSE {{p} : p \in S}

\* notify_channel_waiters: a byte into every registered pipe.
notify_channel_waiters == pipe' = pipe \cup waiters

\* What a readiness wait of the given kind waits for.
Ready(kind, q, c, rw) ==
  \/ c
  \/ kind = "readable" /\ Len(q) > 0
  \/ kind = "writable" /\ Len(q) < Slots /\ (Rendezvous => rw > 0)

\* The thread leaves its call; the threads in w wake up.
Return(p, w) ==
  /\ pc' = [pc EXCEPT ![p] = "idle"]
  /\ sleep' = [q \in Procs |-> IF q = p THEN "awake"
                               ELSE IF q \in w THEN "signalled" ELSE sleep[q]]

\* channel_wait_bounded goes to sleep, in the wait named k.
Sleep(p, k, w) ==
  /\ pc' = [pc EXCEPT ![p] = k]
  /\ sleep' = [q \in Procs |-> IF q = p THEN "asleep"
                               ELSE IF q \in w THEN "signalled" ELSE sleep[q]]

-----------------------------------------------------------------------------
(* channel_send_helper, with the mutex just acquired *)

MustWait(try) ==
  \/ Len(queue) = Slots
  \/ try /\ Rendezvous /\ receivers_waiting = 0

SendFails(p, i) ==
  /\ Return(p, {})
  /\ fate' = [fate EXCEPT ![i] = "refused"]
  /\ UNCHANGED <<chan, pipe, item, sequence, delivered>>

\* No room: WouldBlockError, or the wait on not_full, which an interrupt
\* flag that is already set turns into an immediate return.
SendBlocks(p, i, try) ==
  /\ ~closed /\ MustWait(try)
  /\ IF try \/ interrupt[p]
       THEN SendFails(p, i)
       ELSE /\ Sleep(p, "not_full", {})
            /\ item' = [item EXCEPT ![p] = i]
            /\ UNCHANGED <<chan, pipe, sequence, fate, delivered>>

SendClosed(p, i) == closed /\ SendFails(p, i)

SendCopyFails(p, i, try) ==
  /\ ~closed /\ ~MustWait(try) /\ "send" \in CopyFaults
  /\ SendFails(p, i)

\* Mutant: not_empty is signalled only when the queue was empty.
SendEnqueuesSignalOnce(p, i, try) ==
  /\ ~closed /\ ~MustWait(try) /\ (Rendezvous => try)
  /\ queue' = Append(queue, i)
  /\ sent' = sent + 1
  /\ notify_channel_waiters
  /\ \E w \in IF queue = << >> THEN Signal(NotEmptySleepers) ELSE {{}} : Return(p, w)
  /\ fate' = [fate EXCEPT ![i] = "accepted"]
  /\ UNCHANGED <<closed, taken, receivers_waiting, item, sequence, delivered>>

\* The value is queued and the call returns: a bounded channel, or try_send.
SendEnqueues(p, i, try) ==
  /\ ~closed /\ ~MustWait(try) /\ (Rendezvous => try)
  /\ queue' = Append(queue, i)
  /\ sent' = sent + 1
  /\ notify_channel_waiters
  /\ \E w \in Signal(NotEmptySleepers) : Return(p, w)
  /\ fate' = [fate EXCEPT ![i] = "accepted"]
  /\ UNCHANGED <<closed, taken, receivers_waiting, item, sequence, delivered>>

\* A rendezvous sender queues its value and waits for it to be taken.
SendOffers(p, i) ==
  /\ ~closed /\ ~MustWait(FALSE) /\ Rendezvous /\ ~interrupt[p]
  /\ queue' = Append(queue, i)
  /\ sent' = sent + 1
  /\ sequence' = [sequence EXCEPT ![p] = sent + 1]
  /\ item' = [item EXCEPT ![p] = i]
  /\ notify_channel_waiters
  /\ \E w \in Signal(NotEmptySleepers) : Sleep(p, "handoff", w)
  /\ fate' = [fate EXCEPT ![i] = "offered"]
  /\ UNCHANGED <<closed, taken, receivers_waiting, delivered>>

\* The same with the interrupt flag already set: queued and withdrawn within
\* one hold of the mutex, with the wakeups of both.
SendOffersInterrupted(p, i) ==
  /\ ~closed /\ ~MustWait(FALSE) /\ Rendezvous /\ interrupt[p]
  /\ notify_channel_waiters
  /\ \E w \in Signal(NotEmptySleepers) : Return(p, w \cup NotFullSleepers)
  /\ fate' = [fate EXCEPT ![i] = "refused"]
  /\ UNCHANGED <<chan, item, sequence, delivered>>

SendLocked(p, i, try) ==
  \/ SendBlocks(p, i, try)
  \/ SendClosed(p, i)
  \/ SendCopyFails(p, i, try)
  \/ SendEnqueues(p, i, try)
  \/ ~try /\ SendOffers(p, i)
  \/ ~try /\ SendOffersInterrupted(p, i)

Send(p) ==
  /\ pc[p] = "idle" /\ issued < MaxItems
  /\ issued' = issued + 1
  /\ SendLocked(p, issued + 1, FALSE)
  /\ UNCHANGED <<waiters, interrupt>>

TrySend(p) ==
  /\ pc[p] = "idle" /\ issued < MaxItems
  /\ issued' = issued + 1
  /\ SendLocked(p, issued + 1, TRUE)
  /\ UNCHANGED <<waiters, interrupt>>

\* The wait for room ends: channel_wait_bounded looks at the interrupt flag
\* only when it timed out, otherwise the loop tests its condition again.
SendWakes(p) ==
  /\ pc[p] = "not_full" /\ sleep[p] \in {"signalled", "timedout"}
  /\ IF sleep[p] = "timedout" /\ interrupt[p]
       THEN SendFails(p, item[p])
       ELSE SendLocked(p, item[p], FALSE)
  /\ UNCHANGED <<waiters, interrupt, issued>>

-----------------------------------------------------------------------------
(* The rendezvous half of channel_send_helper *)

\* Mutant: a closed channel ends the handoff wait as a success.
HandoffTakenOrClosed(p) ==
  /\ taken >= sequence[p] \/ closed
  /\ Return(p, {})
  /\ fate' = [fate EXCEPT ![item[p]] = "accepted"]
  /\ UNCHANGED <<queue, sent, pipe>>

HandoffTaken(p) ==
  /\ taken >= sequence[p]
  /\ Return(p, {})
  /\ fate' = [fate EXCEPT ![item[p]] = "accepted"]
  /\ UNCHANGED <<queue, sent, pipe>>

\* Mutant: the withdrawal does not take back its sequence number.
HandoffWithdrawsKeepSent(p) ==
  /\ taken < sequence[p] /\ (closed \/ interrupt[p])
  /\ queue' = << >>
  /\ Return(p, NotFullSleepers)
  /\ notify_channel_waiters
  /\ fate' = [fate EXCEPT ![item[p]] = "refused"]
  /\ UNCHANGED sent

\* Mutant: the withdrawal leaves the value in the slot.
HandoffWithdrawsNothing(p) ==
  /\ taken < sequence[p] /\ (closed \/ interrupt[p])
  /\ sent' = sent - 1
  /\ Return(p, NotFullSleepers)
  /\ notify_channel_waiters
  /\ fate' = [fate EXCEPT ![item[p]] = "refused"]
  /\ UNCHANGED queue

\* Giving up empties the slot, which still holds the sender's own value.
HandoffWithdraws(p) ==
  /\ taken < sequence[p] /\ (closed \/ interrupt[p])
  /\ queue' = << >>
  /\ sent' = sent - 1
  /\ Return(p, NotFullSleepers)
  /\ notify_channel_waiters
  /\ fate' = [fate EXCEPT ![item[p]] = "refused"]

HandoffWaitsOn(p) ==
  /\ taken < sequence[p] /\ ~closed /\ ~interrupt[p]
  /\ Sleep(p, "handoff", {})
  /\ UNCHANGED <<queue, sent, pipe, fate>>

HandoffWakes(p) ==
  /\ pc[p] = "handoff" /\ sleep[p] \in {"signalled", "timedout"}
  /\ HandoffTaken(p) \/ HandoffWithdraws(p) \/ HandoffWaitsOn(p)
  /\ UNCHANGED <<closed, taken, receivers_waiting, waiters, item, sequence,
                 interrupt, issued, delivered>>

-----------------------------------------------------------------------------
(* channel_receive_helper; rw is the count of parked receivers without p *)

ReceiveWouldBlock(p, rw) ==
  /\ queue = << >> /\ ~closed
  /\ Return(p, {})
  /\ receivers_waiting' = rw
  /\ UNCHANGED <<queue, taken, pipe, delivered>>

\* Mutant: parking on a rendezvous channel does not tell the waiters.
ReceiveParksSilently(p, rw) ==
  /\ queue = << >> /\ ~closed
  /\ IF interrupt[p]
       THEN Return(p, {}) /\ receivers_waiting' = rw
       ELSE Sleep(p, "not_empty", {}) /\ receivers_waiting' = rw + 1
  /\ UNCHANGED <<queue, taken, pipe, delivered>>

\* Parking tells a rendezvous channel's waiters, even when the interrupt flag
\* ends the wait at once.
ReceiveParks(p, rw) ==
  /\ queue = << >> /\ ~closed
  /\ IF Rendezvous THEN notify_channel_waiters ELSE UNCHANGED pipe
  /\ IF interrupt[p]
       THEN Return(p, {}) /\ receivers_waiting' = rw
       ELSE Sleep(p, "not_empty", {}) /\ receivers_waiting' = rw + 1
  /\ UNCHANGED <<queue, taken, delivered>>

ReceiveDrained(p, rw) ==
  /\ queue = << >> /\ closed
  /\ Return(p, {})
  /\ receivers_waiting' = rw
  /\ UNCHANGED <<queue, taken, pipe, delivered>>

ReceiveCopyFails(p, rw) ==
  /\ queue # << >> /\ "receive" \in CopyFaults
  /\ Return(p, {})
  /\ receivers_waiting' = rw
  /\ UNCHANGED <<queue, taken, pipe, delivered>>

\* Mutant: not_full is signalled only when the queue was full, and by a single
\* signal on a rendezvous channel too.
ReceiveTakesSignalOnce(p, rw) ==
  /\ queue # << >>
  /\ queue' = Tail(queue)
  /\ taken' = taken + 1
  /\ receivers_waiting' = rw
  /\ notify_channel_waiters
  /\ \E w \in IF Len(queue) = Slots THEN Signal(NotFullSleepers) ELSE {{}} : Return(p, w)
  /\ delivered' = Append(delivered, Head(queue))

ReceiveTakes(p, rw) ==
  /\ queue # << >>
  /\ queue' = Tail(queue)
  /\ taken' = taken + 1
  /\ receivers_waiting' = rw
  /\ notify_channel_waiters
  /\ \E w \in IF Rendezvous THEN {NotFullSleepers} ELSE Signal(NotFullSleepers) :
       Return(p, w)
  /\ delivered' = Append(delivered, Head(queue))

ReceiveLocked(p, rw) ==
  ReceiveDrained(p, rw) \/ ReceiveCopyFails(p, rw) \/ ReceiveTakes(p, rw)

Receive(p) ==
  /\ pc[p] = "idle"
  /\ ReceiveParks(p, receivers_waiting) \/ ReceiveLocked(p, receivers_waiting)
  /\ UNCHANGED <<closed, sent, waiters, item, sequence, interrupt, issued, fate>>

TryReceive(p) ==
  /\ pc[p] = "idle"
  /\ ReceiveWouldBlock(p, receivers_waiting) \/ ReceiveLocked(p, receivers_waiting)
  /\ UNCHANGED <<closed, sent, waiters, item, sequence, interrupt, issued, fate>>

\* Mutant: the interrupted receiver stays counted.
ReceiveInterruptedCounted(p) ==
  /\ sleep[p] = "timedout" /\ interrupt[p]
  /\ Return(p, {})
  /\ UNCHANGED <<queue, taken, receivers_waiting, pipe, delivered>>

ReceiveInterrupted(p) ==
  /\ sleep[p] = "timedout" /\ interrupt[p]
  /\ Return(p, {})
  /\ receivers_waiting' = receivers_waiting - 1
  /\ UNCHANGED <<queue, taken, pipe, delivered>>

ReceiveRetests(p) ==
  /\ sleep[p] = "signalled" \/ (sleep[p] = "timedout" /\ ~interrupt[p])
  /\ \/ ReceiveParks(p, receivers_waiting - 1)
     \/ ReceiveLocked(p, receivers_waiting - 1)

ReceiveWakes(p) ==
  /\ pc[p] = "not_empty"
  /\ ReceiveInterrupted(p) \/ ReceiveRetests(p)
  /\ UNCHANGED <<closed, sent, waiters, item, sequence, interrupt, issued, fate>>

-----------------------------------------------------------------------------
(* channel_invoke_helper's close *)

\* Mutant: close broadcasts not_empty only.
CloseWakesReceivers(p) ==
  /\ pc[p] = "idle" /\ ~closed
  /\ closed' = TRUE
  /\ notify_channel_waiters
  /\ Return(p, NotEmptySleepers)
  /\ UNCHANGED <<queue, sent, taken, receivers_waiting, waiters, item, sequence,
                 interrupt, issued, fate, delivered>>

Close(p) ==
  /\ pc[p] = "idle" /\ ~closed
  /\ closed' = TRUE
  /\ notify_channel_waiters
  /\ Return(p, NotEmptySleepers \cup NotFullSleepers)
  /\ UNCHANGED <<queue, sent, taken, receivers_waiting, waiters, item, sequence,
                 interrupt, issued, fate, delivered>>

-----------------------------------------------------------------------------
(* wait_readable and wait_writable: cancellable_wait_helper on one channel *)

waitVars == <<waiters, pipe, pc>>
others == <<chan, sleep, item, sequence, interrupt, issued, fate, delivered>>

\* Link the registration and look at the channel, under one hold of its mutex.
WaitRegisters(p, kind) ==
  /\ pc[p] = "idle"
  /\ waiters' = waiters \cup {p}
  /\ pc' = [pc EXCEPT ![p] =
       IF Ready(kind, queue, closed, receivers_waiting) THEN "unlink" ELSE kind]
  /\ UNCHANGED <<others, pipe>>

\* poll returns because of the pipe; or the deadline passed, a signal came in
\* or the interrupt flag is set.
WaitPollReturns(p) ==
  /\ pc[p] \in {"readable", "writable"} /\ p \in pipe
  /\ pc' = [pc EXCEPT ![p] = "unlink"]
  /\ UNCHANGED <<others, waiters, pipe>>

\* Mutant: the poll is not sliced, so the interrupt flag is not seen.
WaitGivesUpUnsliced(p) ==
  /\ pc[p] \in {"readable", "writable"} /\ ~interrupt[p]
  /\ pc' = [pc EXCEPT ![p] = "unlink"]
  /\ UNCHANGED <<others, waiters, pipe>>

WaitGivesUp(p) ==
  /\ pc[p] \in {"readable", "writable"}
  /\ pc' = [pc EXCEPT ![p] = "unlink"]
  /\ UNCHANGED <<others, waiters, pipe>>

\* Unlink under the mutex, then close the pipe.
WaitUnlinks(p) ==
  /\ pc[p] = "unlink"
  /\ waiters' = waiters \ {p}
  /\ pipe' = pipe \ {p}
  /\ pc' = [pc EXCEPT ![p] = "idle"]
  /\ UNCHANGED others

-----------------------------------------------------------------------------
(* The threads' environment *)

\* A supervisor or the wall-clock budget asks a thread to give up.
Interrupt(p) ==
  /\ p \in Interruptible /\ ~interrupt[p]
  /\ interrupt' = [interrupt EXCEPT ![p] = TRUE]
  /\ UNCHANGED <<chan, waitVars, sleep, item, sequence, issued, fate, delivered>>

\* A sliced wait ends with ETIMEDOUT.
TimesOut(p) ==
  /\ p \in Interruptible /\ sleep[p] = "asleep"
  /\ sleep' = [sleep EXCEPT ![p] = "timedout"]
  /\ UNCHANGED <<chan, waitVars, item, sequence, interrupt, issued, fate, delivered>>

SpuriousWakeup(p) ==
  /\ sleep[p] = "asleep"
  /\ sleep' = [sleep EXCEPT ![p] = "signalled"]
  /\ UNCHANGED <<chan, waitVars, item, sequence, interrupt, issued, fate, delivered>>

Wakes(p) == SendWakes(p) \/ HandoffWakes(p) \/ ReceiveWakes(p)

Next ==
  \E p \in Procs :
    \/ Send(p) \/ TrySend(p) \/ SendWakes(p) \/ HandoffWakes(p)
    \/ Receive(p) \/ TryReceive(p) \/ ReceiveWakes(p) \/ Close(p)
    \/ WaitRegisters(p, "readable") \/ WaitRegisters(p, "writable")
    \/ WaitPollReturns(p) \/ WaitGivesUp(p) \/ WaitUnlinks(p)
    \/ Interrupt(p) \/ TimesOut(p) \/ SpuriousWakeup(p)

Spec == Init /\ [][Next]_vars

\* A woken thread eventually gets the mutex, a written pipe ends its poll, and
\* a sliced wait ends.  Nothing makes a thread call, close or wake up unasked.
Fairness ==
  \A p \in Procs :
    /\ WF_vars(Wakes(p))
    /\ WF_vars(WaitPollReturns(p))
    /\ WF_vars(interrupt[p] /\ WaitGivesUp(p))
    /\ WF_vars(WaitUnlinks(p))
    /\ WF_vars(TimesOut(p))

FairSpec == Spec /\ Fairness

-----------------------------------------------------------------------------
(* Properties *)

WaitingIn(k, how) == {p \in Procs : pc[p] = k /\ sleep[p] = how}

\* No sender sleeps while there is room for it: as long as a sender is asleep
\* in the wait for room, at least as many woken senders are on their way to
\* the mutex as there are free slots.  receive signals not_full once per slot
\* it frees, and this is what makes one signal per slot enough.
NoSenderOversleeps ==
  WaitingIn("not_full", "asleep") # {} =>
    Slots - Len(queue) <= Cardinality(WaitingIn("not_full", "signalled"))

\* No receiver sleeps while a value waits for it: a sleeping receiver means
\* that every queued value has a woken receiver coming for it.
NoReceiverOversleeps ==
  WaitingIn("not_empty", "asleep") # {} =>
    Len(queue) <= Cardinality(WaitingIn("not_empty", "signalled"))

\* close wakes every blocked sender and receiver, and none goes back to sleep.
ClosedWakesAll == closed => NotFullSleepers \cup NotEmptySleepers = {}

\* A sender that still waits for its handoff owns the slot, so that the
\* withdrawal, which empties the slot, takes back its own value and no other.
HandoffOwnsSlot ==
  \A p \in Procs :
    pc[p] = "handoff" /\ taken < sequence[p] => queue = <<item[p]>>

\* receivers_waiting, which is all the room a rendezvous try_send sees, counts
\* the receivers inside the parked wait and only those.
ReceiversCounted ==
  receivers_waiting = Cardinality({p \in Procs : pc[p] = "not_empty"})

\* The received items followed by the queued ones are the items of the sends
\* that succeeded or are still offered, each once: a send that raised has left
\* nothing behind, and no value is lost or received twice.
NothingLostOrDuplicated ==
  LET all == delivered \o queue IN
  /\ {all[n] : n \in DOMAIN all} = {i \in Items : fate[i] \in {"offered", "accepted"}}
  /\ \A m, n \in DOMAIN all : all[m] = all[n] => m = n

\* A thread that polls for readiness after its check under the mutex does not
\* miss the moment the channel becomes ready: its pipe has a byte by then.
ReadinessNotMissed ==
  \A p \in Procs :
    pc[p] \in {"readable", "writable"} /\ Ready(pc[p], queue, closed, receivers_waiting)
      => p \in pipe

\* Every call blocked when the channel closes ends.
CloseUnblocks ==
  \A p \in Procs : (closed /\ pc[p] # "idle") ~> pc[p] = "idle"

\* Every blocked call of a thread whose interrupt flag is set ends.
InterruptUnblocks ==
  \A p \in Procs : (interrupt[p] /\ pc[p] # "idle") ~> pc[p] = "idle"

-----------------------------------------------------------------------------
\* The channel implements the mailbox: values are delivered in the order they
\* were queued, a rendezvous send succeeds only when its value was delivered,
\* and a send that raises has left nothing to deliver.
Abstract == INSTANCE Mailbox WITH mailbox <- queue

ImplementsMailbox == Abstract!Spec

=============================================================================
