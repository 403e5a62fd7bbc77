------------------------------- MODULE Select -------------------------------
(***************************************************************************)
(* Calls that wait for several Channels at once: Channel.select,           *)
(* Channel.select_send, and wait_readable, wait_writable or IO.poll with   *)
(* channels that cancel it.  cancellable_wait_helper takes the lock of one *)
(* channel at a time, so everything may change between two of them.        *)
(*                                                                         *)
(* A channel is its number of values and whether it is closed.  What other *)
(* threads do to it (Channel has the details) are single steps here.       *)
(***************************************************************************)
EXTENDS Integers

CONSTANTS
  Callers,     \* the threads in these calls
  N,           \* the channels are 1..N, in the order of the array
  Capacities   \* the capacities the channels may have, 0 for a rendezvous channel

Chans == 1..N
Calls == {"select", "select_send", "wait_readable", "wait_writable", "io_poll"}
Selects == {"select", "select_send"}
Steps == {"idle", "try", "register", "poll", "unlink", "unlink_failed"}
Outcomes == {"unknown", "done", "nothing", "late", "error"}

VARIABLES
  capacity,
  values,      \* the number of values in a channel
  parked,      \* 1 if a receive is parked on it (receivers_waiting > 0), of a rendezvous channel
  shut,        \* whether it is closed
  call,        \* the call that a caller is in, or was last in
  step,        \* where it is
  index,       \* the channel it has come to
  still_open,  \* open_count of the pass
  drained,     \* the channels that select has found drained, select_send closed
  ready,       \* the local of cancellable_wait_helper
  linked,      \* the channels with a registration of the caller
  woken,       \* the pipe of the registrations holds a byte
  outcome

selectvars == <<capacity, values, parked, shut, call, step, index, still_open, drained, ready,
                linked, woken, outcome>>
channels == <<values, parked, shut>>
locals == <<call, still_open, drained>>

SlotsOf(c) == IF capacity[c] = 0 THEN 1 ELSE capacity[c]
NoBuffer(c) == capacity[c] = 0

SelectTypeOK ==
  /\ capacity \in [Chans -> Nat]
  /\ values \in [Chans -> Nat] /\ parked \in [Chans -> 0..1] /\ shut \in [Chans -> BOOLEAN]
  /\ call \in [Callers -> Calls]
  /\ step \in [Callers -> Steps]
  /\ index \in [Callers -> 1..(N + 1)]
  /\ still_open \in [Callers -> Nat]
  /\ drained \in [Callers -> SUBSET Chans] /\ linked \in [Callers -> SUBSET Chans]
  /\ ready \in [Callers -> BOOLEAN] /\ woken \in [Callers -> BOOLEAN]
  /\ outcome \in [Callers -> Outcomes]

SelectInit ==
  /\ capacity \in [Chans -> Capacities]
  /\ values = [c \in Chans |-> 0]
  /\ parked = [c \in Chans |-> 0]
  /\ shut = [c \in Chans |-> FALSE]
  /\ call = [p \in Callers |-> "select"]
  /\ step = [p \in Callers |-> "idle"]
  /\ index = [p \in Callers |-> 1]
  /\ still_open = [p \in Callers |-> 0]
  /\ drained = [p \in Callers |-> {}]
  /\ ready = [p \in Callers |-> FALSE]
  /\ linked = [p \in Callers |-> {}]
  /\ woken = [p \in Callers |-> FALSE]
  /\ outcome = [p \in Callers |-> "unknown"]

\* A byte for every registration on the channel.
notify_waiters(c) == woken' = [p \in Callers |-> woken[p] \/ c \in linked[p]]

-----------------------------------------------------------------------------
(***************************************************************************)
(* The other threads.                                                      *)
(***************************************************************************)

Elsewhere == UNCHANGED <<capacity, locals, step, index, ready, linked, outcome>>

\* send or try_send queues a value.
Sent(c) ==
  /\ ~shut[c] /\ values[c] < SlotsOf(c)
  /\ values' = [values EXCEPT ![c] = @ + 1]
  /\ notify_waiters(c)
  /\ UNCHANGED <<parked, shut>> /\ Elsewhere

\* A receive takes one; or, of a rendezvous channel, the sender withdraws it.
Taken(c) ==
  /\ values[c] > 0
  /\ values' = [values EXCEPT ![c] = @ - 1]
  /\ notify_waiters(c)
  /\ UNCHANGED <<parked, shut>> /\ Elsewhere

\* A receive parks on an empty rendezvous channel, and leaves.
Parks(c) ==
  /\ NoBuffer(c) /\ values[c] = 0 /\ ~shut[c] /\ parked[c] = 0
  /\ parked' = [parked EXCEPT ![c] = 1]
  /\ notify_waiters(c)
  /\ UNCHANGED <<values, shut>> /\ Elsewhere

Leaves(c) ==
  /\ parked[c] = 1
  /\ parked' = [parked EXCEPT ![c] = 0]
  /\ UNCHANGED <<values, shut, woken>> /\ Elsewhere

Closed(c) ==
  /\ ~shut[c]
  /\ shut' = [shut EXCEPT ![c] = TRUE]
  /\ notify_waiters(c)
  /\ UNCHANGED <<values, parked>> /\ Elsewhere

-----------------------------------------------------------------------------
(***************************************************************************)
(* Channel.select and Channel.select_send: a pass over the channels.       *)
(***************************************************************************)

Goto(p, place, i) ==
  /\ step' = [step EXCEPT ![p] = place]
  /\ index' = [index EXCEPT ![p] = i]

CallReturns(p, result) ==
  /\ Goto(p, "idle", 1)
  /\ outcome' = [outcome EXCEPT ![p] = result]

\* select_send raises TypeError if it is given a rendezvous channel.
Begin(p, method) ==
  /\ step[p] = "idle"
  /\ method = "select_send" => \A c \in Chans : ~NoBuffer(c)
  /\ call' = [call EXCEPT ![p] = method]
  /\ Goto(p, IF method \in Selects THEN "try" ELSE "register", 1)
  /\ still_open' = [still_open EXCEPT ![p] = 0]
  /\ drained' = [drained EXCEPT ![p] = {}]
  /\ outcome' = [outcome EXCEPT ![p] = "unknown"]
  /\ UNCHANGED <<capacity, channels, ready, linked, woken>>

\* Whether the call has nothing to do on channel c, and will never have.
Over(p, c) == shut[c] /\ (call[p] = "select" => values[c] = 0)
\* Whether it can complete on c.
Completes(p, c) ==
  IF call[p] = "select" THEN values[c] > 0 ELSE ~shut[c] /\ values[c] < SlotsOf(c)

TryNext(p) ==
  LET c == index[p] IN
  /\ step[p] = "try" /\ c <= N /\ ~Completes(p, c)
  /\ drained' = [drained EXCEPT ![p] = IF Over(p, c) THEN @ \cup {c} ELSE @]
  /\ still_open' = [still_open EXCEPT ![p] = IF Over(p, c) THEN @ ELSE @ + 1]
  /\ Goto(p, "try", c + 1)
  /\ UNCHANGED <<capacity, channels, call, ready, linked, woken, outcome>>

\* It takes a value, or queues one.  select's pair may then not be allocated,
\* and the value is gone.
TryCompletes(p, result) ==
  LET c == index[p] IN
  /\ step[p] = "try" /\ c <= N /\ Completes(p, c)
  /\ values' = [values EXCEPT ![c] = IF call[p] = "select" THEN @ - 1 ELSE @ + 1]
  /\ notify_waiters(c)
  /\ result = "error" => call[p] = "select"
  /\ CallReturns(p, result)
  /\ UNCHANGED <<capacity, parked, shut, locals, ready, linked>>

CopyFails(p) ==
  /\ step[p] = "try" /\ index[p] <= N /\ Completes(p, index[p])
  /\ CallReturns(p, "error")
  /\ UNCHANGED <<capacity, channels, locals, ready, linked, woken>>

\* No channel is open, or the deadline has passed: nil.  Otherwise it waits.
PassEnds(p) ==
  /\ step[p] = "try" /\ index[p] > N
  /\ \/ still_open[p] = 0 /\ CallReturns(p, "nothing")
     \/ still_open[p] > 0 /\ CallReturns(p, "late")
     \/ /\ still_open[p] > 0
        /\ Goto(p, "register", 1)
        /\ UNCHANGED outcome
  /\ UNCHANGED <<capacity, channels, locals, ready, linked, woken>>

-----------------------------------------------------------------------------
(***************************************************************************)
(* cancellable_wait_helper.                                                *)
(***************************************************************************)

Room(c) == values[c] < SlotsOf(c) /\ (NoBuffer(c) => parked[c] > 0)

\* Mutant: a select does not look for channels that were closed since its pass.
IsReadyBeforeClose(p, c) ==
  \/ call[p] = "select" /\ values[c] > 0
  \/ call[p] = "select_send" /\ Room(c) /\ ~shut[c]
  \/ call[p] = "wait_readable" /\ c = 1 /\ values[c] > 0
  \/ call[p] = "wait_writable" /\ c = 1 /\ Room(c)
  \/ call[p] \notin Selects /\ shut[c]

\* What the caller waits for on channel c.  A wait_readable or wait_writable has
\* channel 1 for its target; the others, and all those of an IO.poll, cancel it.
IsReady(p, c) ==
  \/ call[p] = "select" /\ values[c] > 0
  \/ call[p] = "select_send" /\ Room(c) /\ ~shut[c]
  \/ call[p] \in Selects /\ shut[c] /\ c \notin drained[p]
  \/ call[p] = "wait_readable" /\ c = 1 /\ values[c] > 0
  \/ call[p] = "wait_writable" /\ c = 1 /\ Room(c)
  \/ call[p] \notin Selects /\ shut[c]

\* There is no memory for the registrations, or no pipe.
RegistersNothing(p) ==
  /\ step[p] = "register" /\ index[p] = 1
  /\ CallReturns(p, "error")
  /\ UNCHANGED <<capacity, channels, locals, ready, linked, woken>>

\* Under the lock of channel c.
Registers(p) ==
  LET c == index[p] IN
  /\ step[p] = "register" /\ c <= N
  /\ linked' = [linked EXCEPT ![p] = @ \cup {c}]
  /\ ready' = [ready EXCEPT ![p] = @ \/ IsReady(p, c)]
  /\ Goto(p, "register", c + 1)
  /\ UNCHANGED <<capacity, channels, locals, woken, outcome>>

Polls(p) ==
  /\ step[p] = "register" /\ index[p] > N
  /\ Goto(p, IF ready[p] THEN "unlink" ELSE "poll", 1)
  /\ ready' = [ready EXCEPT ![p] = FALSE]
  /\ UNCHANGED <<capacity, channels, locals, linked, woken, outcome>>

\* The poll returns: a byte in the pipe, a descriptor of IO.poll, the deadline or
\* a signal; or an interrupt, a spent budget or an error.
PollReturns(p, how) ==
  /\ step[p] = "poll"
  /\ Goto(p, how, 1)
  /\ UNCHANGED <<capacity, channels, locals, ready, linked, woken, outcome>>

\* Under the lock of each channel in turn; then the pipe is closed.  select tries
\* again, a plain wait and a call that failed return.
Unlinks(p) ==
  LET c == index[p] IN
  /\ step[p] \in {"unlink", "unlink_failed"} /\ c <= N
  /\ linked' = [linked EXCEPT ![p] = @ \ {c}]
  /\ Goto(p, step[p], c + 1)
  /\ UNCHANGED <<capacity, channels, locals, ready, woken, outcome>>

WaitEnds(p) ==
  /\ step[p] \in {"unlink", "unlink_failed"} /\ index[p] > N
  /\ woken' = [woken EXCEPT ![p] = FALSE]
  /\ still_open' = [still_open EXCEPT ![p] = 0]
  /\ IF step[p] = "unlink" /\ call[p] \in Selects
     THEN Goto(p, "try", 1) /\ UNCHANGED outcome
     ELSE CallReturns(p, IF step[p] = "unlink" THEN "done" ELSE "error")
  /\ UNCHANGED <<capacity, channels, call, drained, ready, linked>>

-----------------------------------------------------------------------------
SelectNext ==
  \/ \E c \in Chans : Sent(c) \/ Taken(c) \/ Parks(c) \/ Leaves(c) \/ Closed(c)
  \/ \E p \in Callers :
       \/ \E method \in Calls : Begin(p, method)
       \/ TryNext(p) \/ CopyFails(p) \/ PassEnds(p)
       \/ \E result \in {"done", "error"} : TryCompletes(p, result)
       \/ RegistersNothing(p) \/ Registers(p) \/ Polls(p)
       \/ \E how \in {"unlink", "unlink_failed"} : PollReturns(p, how)
       \/ Unlinks(p) \/ WaitEnds(p)

SelectSpec == SelectInit /\ [][SelectNext]_selectvars

-----------------------------------------------------------------------------
(***************************************************************************)
(* Properties.                                                             *)
(***************************************************************************)

\* Whether the caller, were it to go on, would find something to do on channel c:
\* the next pass of a select completes there or learns that it is over; the
\* try_receive or try_send that follows a plain wait does not raise WouldBlock; the
\* wait is cancelled.
CouldGoOn(p, c) ==
  IF call[p] \in Selects
  THEN Completes(p, c) \/ (Over(p, c) /\ c \notin drained[p])
  ELSE \/ shut[c]
       \/ c = 1 /\ call[p] = "wait_readable" /\ values[c] > 0
       \/ c = 1 /\ call[p] = "wait_writable" /\ Room(c)

\* A call that waits for several channels misses none of them.  While it polls its
\* pipe holds a byte if it could go on with any of them, whatever happened while
\* it registered with one after the other; a select that returns nil before its
\* deadline leaves every channel closed, and for select drained; and no channel
\* has a registration, with its pipe, of a call that is not waiting.
SelectMissesNothing ==
  \A p \in Callers :
    /\ step[p] = "poll" /\ (\E c \in Chans : CouldGoOn(p, c)) => woken[p]
    /\ outcome[p] = "nothing" => \A c \in Chans : Over(p, c)
    /\ step[p] \in {"idle", "try"} => linked[p] = {}

=============================================================================
