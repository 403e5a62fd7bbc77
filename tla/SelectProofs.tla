---------------------------- MODULE SelectProofs ----------------------------
(***************************************************************************)
(* Proofs about calls that wait for several channels, for any number of    *)
(* calls and channels and any capacities.                                  *)
(*                                                                         *)
(* A caller has seen the channels it has registered with at different      *)
(* moments.  The invariant says what is left of that: for each of them it  *)
(* was ready when the caller looked, or nothing can be done there, or a    *)
(* byte came since.                                                        *)
(***************************************************************************)
EXTENDS Select, TLAPS

Configured == N \in Nat /\ Capacities \subseteq Nat

\* The channels that hold a registration of the caller.
LinkedInv(p) ==
  /\ step[p] \in {"idle", "try"} => linked[p] = {}
  /\ step[p] = "register" => \A c \in Chans : c \in linked[p] <=> c < index[p]
  /\ step[p] = "poll" => \A c \in Chans : c \in linked[p]
  /\ step[p] \in {"unlink", "unlink_failed"} => \A c \in linked[p] : c >= index[p]

\* What the caller knows of them.
ToldInv(p) ==
  /\ step[p] # "register" \/ index[p] = 1 => ~ready[p]
  /\ step[p] \in {"register", "poll"} =>
       \A c \in linked[p] : CouldGoOn(p, c) => ready[p] \/ woken[p]

\* What it knows of the channels it has tried.
PassInv(p) ==
  /\ step[p] = "try" /\ still_open[p] = 0 => \A c \in Chans : c < index[p] => Over(p, c)
  /\ outcome[p] = "nothing" => \A c \in Chans : Over(p, c)

\* select_send has refused rendezvous channels.
SendInv(p) == call[p] = "select_send" => \A c \in Chans : ~NoBuffer(c)

CallerInv(p) == LinkedInv(p) /\ ToldInv(p) /\ PassInv(p) /\ SendInv(p)
Inv == SelectTypeOK /\ \A p \in Callers : CallerInv(p)

-----------------------------------------------------------------------------
\* The readiness test of cancellable_wait_helper, one expression for every kind
\* of wait, is true whenever the caller could go on.
LEMMA ReadinessIsEnough ==
  ASSUME SelectTypeOK, NEW p \in Callers, NEW c \in Chans, CouldGoOn(p, c), SendInv(p)
  PROVE  IsReady(p, c)
BY Zenon DEF SelectTypeOK, CouldGoOn, IsReady, Selects, Calls, Completes, Over, Room, SlotsOf,
             NoBuffer,
   SendInv

\* The flags stay flags.
LEMMA NotifyTyped ==
  ASSUME NEW c, notify_waiters(c)
  PROVE  woken' \in [Callers -> BOOLEAN]
BY Zenon DEF notify_waiters

\* A caller that does not move keeps its part of the invariant if what is over
\* stays so and it is told of what it could go on with.
LEMMA Undisturbed ==
  ASSUME Inv, NEW p \in Callers, capacity' = capacity,
         call'[p] = call[p], step'[p] = step[p], index'[p] = index[p],
         still_open'[p] = still_open[p], drained'[p] = drained[p], ready'[p] = ready[p],
         linked'[p] = linked[p], outcome'[p] = outcome[p],
         woken[p] => woken'[p],
         \A c \in Chans : Over(p, c) => Over(p, c)',
         \A c \in linked[p] : CouldGoOn(p, c)' => CouldGoOn(p, c) \/ woken'[p]
  PROVE  CallerInv(p)'
<1>0. CallerInv(p)
  BY Zenon DEF Inv
<1>1. LinkedInv(p)'
  BY <1>0, Zenon DEF CallerInv, LinkedInv
<1>2. ToldInv(p)'
  BY <1>0, Zenon DEF CallerInv, ToldInv
<1>3. PassInv(p)'
  BY <1>0, Zenon DEF CallerInv, PassInv
<1>4. SendInv(p)'
  BY <1>0, Zenon DEF CallerInv, SendInv, NoBuffer
<1> QED BY <1>1, <1>2, <1>3, <1>4, Zenon DEF CallerInv

\* What happens to channel c, under its lock and with a byte for everyone
\* registered with it, disturbs no caller that does not move.
LEMMA ToldOfChange ==
  ASSUME Inv, NEW p \in Callers, NEW c \in Chans, capacity' = capacity,
         call'[p] = call[p], step'[p] = step[p], index'[p] = index[p],
         still_open'[p] = still_open[p], drained'[p] = drained[p], ready'[p] = ready[p],
         linked'[p] = linked[p], outcome'[p] = outcome[p],
         notify_waiters(c),
         \A d \in Chans \ {c} :
           values'[d] = values[d] /\ parked'[d] = parked[d] /\ shut'[d] = shut[d],
         shut[c] => shut'[c] /\ (values[c] = 0 => values'[c] = 0)
  PROVE  CallerInv(p)'
<1>1. woken'[p] = (woken[p] \/ c \in linked[p])
  BY Zenon DEF notify_waiters
<1>2. ASSUME NEW d \in Chans, Over(p, d) PROVE Over(p, d)'
  BY <1>2, Zenon DEF Over
<1>3. ASSUME NEW d \in linked[p], CouldGoOn(p, d)' PROVE CouldGoOn(p, d) \/ woken'[p]
  <2>1. CASE d = c
    BY <2>1, <1>1, <1>3, Zenon
  <2>2. CASE d # c
    <3>1. d \in Chans
      BY Zenon DEF Inv, SelectTypeOK
    <3>2. values'[d] = values[d] /\ parked'[d] = parked[d] /\ shut'[d] = shut[d]
      BY <2>2, <3>1, Zenon
    <3> QED BY <3>2, <1>3, Zenon DEF CouldGoOn, Completes, Over, Room, SlotsOf, NoBuffer
  <2> QED BY <2>1, <2>2, Zenon
<1>4. woken[p] => woken'[p]
  BY <1>1, Zenon
<1> QED BY <1>2, <1>3, <1>4, Undisturbed, Zenon

-----------------------------------------------------------------------------
\* The calls of other threads.
LEMMA ElsewhereStep ==
  ASSUME Inv, NEW c \in Chans,
         Sent(c) \/ Taken(c) \/ Parks(c) \/ Leaves(c) \/ Closed(c)
  PROVE  Inv'
<1>t. SelectTypeOK
  BY Zenon DEF Inv
<1>1. SelectTypeOK'
  <2>1. woken' \in [Callers -> BOOLEAN]
    <3>1. CASE Leaves(c)
      BY <1>t, <3>1, Zenon DEF SelectTypeOK, Leaves
    <3>2. CASE notify_waiters(c)
      BY <3>2, NotifyTyped, Zenon
    <3> QED BY <3>1, <3>2, Zenon DEF Sent, Taken, Parks, Closed
  <2>2. values' \in [Chans -> Nat]
    BY <1>t DEF SelectTypeOK, Sent, Taken, Parks, Leaves, Closed
  <2>3. parked' \in [Chans -> 0..1]
    BY <1>t DEF SelectTypeOK, Sent, Taken, Parks, Leaves, Closed
  <2>4. shut' \in [Chans -> BOOLEAN]
    BY <1>t, Zenon DEF SelectTypeOK, Sent, Taken, Parks, Leaves, Closed
  <2>5. UNCHANGED <<capacity, call, still_open, drained, step, index, ready, linked,
     outcome>>
    BY Zenon DEF Sent, Taken, Parks, Leaves, Closed, Elsewhere, locals
  <2> QED BY <1>t, <2>1, <2>2, <2>3, <2>4, <2>5, Zenon DEF SelectTypeOK
<1>2. ASSUME NEW p \in Callers PROVE CallerInv(p)'
  <2>0. /\ capacity' = capacity
        /\ call'[p] = call[p] /\ step'[p] = step[p] /\ index'[p] = index[p]
        /\ still_open'[p] = still_open[p] /\ drained'[p] = drained[p] /\ ready'[p] = ready[p]
        /\ linked'[p] = linked[p] /\ outcome'[p] = outcome[p]
    BY Zenon DEF Sent, Taken, Parks, Leaves, Closed, Elsewhere, locals
  <2>1. CASE Sent(c) \/ Taken(c) \/ Parks(c) \/ Closed(c)
    <3>1. notify_waiters(c)
      BY <2>1, Zenon DEF Sent, Taken, Parks, Closed
    <3>2. \A d \in Chans \ {c} :
            values'[d] = values[d] /\ parked'[d] = parked[d] /\ shut'[d] = shut[d]
      BY <1>t, <2>1, Zenon DEF SelectTypeOK, Sent, Taken, Parks, Closed
    <3>3. shut[c] => shut'[c] /\ (values[c] = 0 => values'[c] = 0)
      BY <1>t, <2>1 DEF SelectTypeOK, Sent, Taken, Parks, Closed
    <3> QED BY <2>0, <3>1, <3>2, <3>3, ToldOfChange, Zenon
  <2>2. CASE Leaves(c)
    <3>1. values' = values /\ shut' = shut /\ woken' = woken
      BY <2>2, Zenon DEF Leaves
    <3>2. \A d \in Chans : parked'[d] > 0 => parked[d] > 0
      BY <1>t, <2>2 DEF SelectTypeOK, Leaves
    <3>3. \A d \in Chans : Over(p, d) => Over(p, d)'
      BY <2>0, <3>1, Zenon DEF Over
    <3>4. ASSUME NEW d \in linked[p], CouldGoOn(p, d)' PROVE CouldGoOn(p, d)
      <4>1. d \in Chans
        BY <1>t, Zenon DEF SelectTypeOK
      <4> QED BY <4>1, <2>0, <3>1, <3>2, <3>4, Zenon
              DEF CouldGoOn, Completes, Over, Room, SlotsOf, NoBuffer
    <3> QED BY <2>0, <3>1, <3>3, <3>4, Undisturbed, Zenon
  <2> QED BY <2>1, <2>2, Zenon
<1> QED BY <1>1, <1>2, Zenon DEF Inv

-----------------------------------------------------------------------------
\* A step of another caller that leaves the channels alone.
LEMMA OthersStay ==
  ASSUME Inv, NEW p \in Callers, UNCHANGED <<capacity, channels>>,
         call'[p] = call[p], step'[p] = step[p], index'[p] = index[p],
         still_open'[p] = still_open[p], drained'[p] = drained[p], ready'[p] = ready[p],
         linked'[p] = linked[p], outcome'[p] = outcome[p], woken'[p] = woken[p]
  PROVE  CallerInv(p)'
<1>1. values' = values /\ parked' = parked /\ shut' = shut /\ capacity' = capacity
  BY Zenon DEF channels
<1>2. \A c \in Chans : Over(p, c) => Over(p, c)'
  BY <1>1, Zenon DEF Over
<1>3. \A c \in linked[p] : CouldGoOn(p, c)' => CouldGoOn(p, c) \/ woken'[p]
  BY <1>1, Zenon DEF CouldGoOn, Completes, Over, Room, SlotsOf, NoBuffer
<1> QED BY <1>1, <1>2, <1>3, Undisturbed, Zenon

\* A call begins.
LEMMA BeginStep ==
  ASSUME Configured, Inv, NEW q \in Callers, NEW method \in Calls, Begin(q, method)
  PROVE  Inv'
<1>t. SelectTypeOK /\ CallerInv(q)
  BY Zenon DEF Inv
<1>1. SelectTypeOK'
  BY <1>t DEF Configured, SelectTypeOK, Calls, Steps, Outcomes, Begin, Goto, channels, Selects
<1>2. ASSUME NEW p \in Callers \ {q} PROVE CallerInv(p)'
  BY <1>t, OthersStay, Zenon DEF SelectTypeOK, Begin, Goto, channels
<1>3. values' = values /\ parked' = parked /\ shut' = shut /\ capacity' = capacity
  BY Zenon DEF Begin, channels
<1>4. LinkedInv(q)'
  BY <1>t DEF Configured, SelectTypeOK, Chans, CallerInv, LinkedInv, Begin, Goto, Selects
<1>5. ToldInv(q)'
  BY <1>t, <1>3, Zenon DEF SelectTypeOK, CallerInv, LinkedInv, ToldInv, Begin, Goto, Selects
<1>6. PassInv(q)'
  BY <1>t, <1>3 DEF Configured, SelectTypeOK, Chans, CallerInv, PassInv, Over, Begin, Goto,
     Selects
<1>7. SendInv(q)'
  BY <1>t, <1>3, Zenon DEF SelectTypeOK, CallerInv, SendInv, NoBuffer, Begin
<1> QED BY <1>1, <1>2, <1>4, <1>5, <1>6, <1>7, Zenon DEF Inv, CallerInv

\* A pass goes on to the next channel.
LEMMA TryNextStep ==
  ASSUME Configured, Inv, NEW q \in Callers, TryNext(q)
  PROVE  Inv'
<1>t. SelectTypeOK /\ CallerInv(q)
  BY Zenon DEF Inv
<1>1. SelectTypeOK'
  <2>1. index' \in [Callers -> 1..(N + 1)]
    BY <1>t DEF Configured, SelectTypeOK, Chans, TryNext, Goto
  <2>2. step' \in [Callers -> Steps]
    BY <1>t, Zenon DEF SelectTypeOK, Steps, TryNext, Goto
  <2>3. drained' \in [Callers -> SUBSET Chans]
    BY <1>t DEF SelectTypeOK, Chans, TryNext
  <2>4. still_open' \in [Callers -> Nat]
    BY <1>t DEF SelectTypeOK, TryNext
  <2>5. UNCHANGED <<capacity, values, parked, shut, call, ready, linked, woken, outcome>>
    BY Zenon DEF TryNext, Goto, channels, locals
  <2> QED BY <1>t, <2>1, <2>2, <2>3, <2>4, <2>5, Zenon DEF SelectTypeOK
<1>2. ASSUME NEW p \in Callers \ {q} PROVE CallerInv(p)'
  BY <1>t, OthersStay, Zenon DEF SelectTypeOK, TryNext, Goto, channels
<1>3. values' = values /\ parked' = parked /\ shut' = shut /\ capacity' = capacity
  BY Zenon DEF TryNext, channels
<1>4. LinkedInv(q)'
  BY <1>t, Zenon DEF SelectTypeOK, CallerInv, LinkedInv, TryNext, Goto
<1>5. ToldInv(q)'
  BY <1>t, <1>3, Zenon DEF SelectTypeOK, CallerInv, LinkedInv, ToldInv, TryNext, Goto
<1>6. PassInv(q)'
  BY <1>t, <1>3 DEF Configured, SelectTypeOK, Chans, CallerInv, PassInv, Over, TryNext, Goto
<1>7. SendInv(q)'
  BY <1>t, <1>3, Zenon DEF CallerInv, SendInv, NoBuffer, TryNext
<1> QED BY <1>1, <1>2, <1>4, <1>5, <1>6, <1>7, Zenon DEF Inv, CallerInv

\* A value cannot be copied.
LEMMA CopyFailsStep ==
  ASSUME Configured, Inv, NEW q \in Callers, CopyFails(q)
  PROVE  Inv'
<1>t. SelectTypeOK /\ CallerInv(q)
  BY Zenon DEF Inv
<1>1. SelectTypeOK'
  <2>1. index' \in [Callers -> 1..(N + 1)]
    BY <1>t DEF Configured, SelectTypeOK, Chans, CopyFails, CallReturns, Goto
  <2>2. step' \in [Callers -> Steps]
    BY <1>t, Zenon DEF SelectTypeOK, Steps, CopyFails, CallReturns, Goto
  <2>3. outcome' \in [Callers -> Outcomes]
    BY <1>t, Zenon DEF SelectTypeOK, Outcomes, CopyFails, CallReturns
  <2>4. UNCHANGED <<capacity, values, parked, shut, call, still_open, drained, ready,
     linked, woken>>
    BY Zenon DEF CopyFails, CallReturns, Goto, channels, locals
  <2> QED BY <1>t, <2>1, <2>2, <2>3, <2>4, Zenon DEF SelectTypeOK
<1>2. ASSUME NEW p \in Callers \ {q} PROVE CallerInv(p)'
  BY <1>t, OthersStay, Zenon DEF SelectTypeOK, CopyFails, CallReturns, Goto, channels, locals
<1>3. values' = values /\ parked' = parked /\ shut' = shut /\ capacity' = capacity
  BY Zenon DEF CopyFails, channels
<1>4. LinkedInv(q)'
  BY <1>t, Zenon DEF SelectTypeOK, CallerInv, LinkedInv, CopyFails, CallReturns, Goto
<1>5. ToldInv(q)'
  BY <1>t, <1>3, Zenon DEF SelectTypeOK, CallerInv, LinkedInv, ToldInv, CopyFails, CallReturns, Goto
<1>6. PassInv(q)'
  BY <1>t, <1>3, Zenon DEF SelectTypeOK, CallerInv, PassInv, Over, CopyFails, CallReturns, Goto,
                           locals
<1>7. SendInv(q)'
  BY <1>t, <1>3, Zenon DEF CallerInv, SendInv, NoBuffer, CopyFails, locals
<1> QED BY <1>1, <1>2, <1>4, <1>5, <1>6, <1>7, Zenon DEF Inv, CallerInv

\* A pass ends.
LEMMA PassEndsStep ==
  ASSUME Configured, Inv, NEW q \in Callers, PassEnds(q)
  PROVE  Inv'
<1>t. SelectTypeOK /\ CallerInv(q)
  BY Zenon DEF Inv
<1>1. SelectTypeOK'
  <2>g. (\E place \in Steps : Goto(q, place, 1)) /\ 1 \in 1..(N + 1)
    BY <1>t DEF Configured, Steps, CallReturns, PassEnds
  <2>1. index' \in [Callers -> 1..(N + 1)]
    BY <1>t, <2>g, Zenon DEF SelectTypeOK, Goto
  <2>2. step' \in [Callers -> Steps]
    BY <1>t, <2>g, Zenon DEF SelectTypeOK, Goto
  <2>3. outcome' \in [Callers -> Outcomes]
    BY <1>t, Zenon DEF SelectTypeOK, Outcomes, PassEnds, CallReturns
  <2>4. UNCHANGED <<capacity, values, parked, shut, call, still_open, drained, ready,
     linked, woken>>
    BY Zenon DEF PassEnds, CallReturns, Goto, channels, locals
  <2> QED BY <1>t, <2>1, <2>2, <2>3, <2>4, Zenon DEF SelectTypeOK
<1>2. ASSUME NEW p \in Callers \ {q} PROVE CallerInv(p)'
  BY <1>t, OthersStay, Zenon DEF SelectTypeOK, PassEnds, CallReturns, Goto, channels, locals
<1>3. values' = values /\ parked' = parked /\ shut' = shut /\ capacity' = capacity
  BY Zenon DEF PassEnds, channels
<1>4. LinkedInv(q)'
  BY <1>t DEF Configured, SelectTypeOK, Chans, CallerInv, LinkedInv, PassEnds, CallReturns, Goto
<1>5. ToldInv(q)'
  BY <1>t, <1>3, Zenon DEF SelectTypeOK, CallerInv, LinkedInv, ToldInv, PassEnds, CallReturns, Goto
<1>6. PassInv(q)'
  BY <1>t, <1>3 DEF Configured, SelectTypeOK, Chans, CallerInv, PassInv, Over, PassEnds,
                    CallReturns,
     Goto, locals
<1>7. SendInv(q)'
  BY <1>t, <1>3, Zenon DEF CallerInv, SendInv, NoBuffer, PassEnds, locals
<1> QED BY <1>1, <1>2, <1>4, <1>5, <1>6, <1>7, Zenon DEF Inv, CallerInv

\* No registration can be made.
LEMMA RegistersNothingStep ==
  ASSUME Configured, Inv, NEW q \in Callers, RegistersNothing(q)
  PROVE  Inv'
<1>t. SelectTypeOK /\ CallerInv(q)
  BY Zenon DEF Inv
<1>1. SelectTypeOK'
  BY <1>t, Zenon DEF Configured, SelectTypeOK, Steps, Outcomes, RegistersNothing, CallReturns, Goto,
     channels, locals
<1>2. ASSUME NEW p \in Callers \ {q} PROVE CallerInv(p)'
  BY <1>t, OthersStay, Zenon DEF SelectTypeOK, RegistersNothing, CallReturns, Goto, channels, locals
<1>3. values' = values /\ parked' = parked /\ shut' = shut /\ capacity' = capacity
  BY Zenon DEF RegistersNothing, channels
<1>4. LinkedInv(q)'
  BY <1>t DEF Configured, SelectTypeOK, Chans, CallerInv, LinkedInv, RegistersNothing, CallReturns,
     Goto
<1>5. ToldInv(q)'
  BY <1>t, <1>3, Zenon DEF SelectTypeOK, CallerInv, LinkedInv, ToldInv, RegistersNothing,
                           CallReturns, Goto
<1>6. PassInv(q)'
  BY <1>t, <1>3, Zenon DEF SelectTypeOK, CallerInv, PassInv, Over, RegistersNothing, CallReturns,
                           Goto, locals
<1>7. SendInv(q)'
  BY <1>t, <1>3, Zenon DEF CallerInv, SendInv, NoBuffer, RegistersNothing, locals
<1> QED BY <1>1, <1>2, <1>4, <1>5, <1>6, <1>7, Zenon DEF Inv, CallerInv

\* A registration is linked, and the channel looked at.
LEMMA RegistersStep ==
  ASSUME Configured, Inv, NEW q \in Callers, Registers(q)
  PROVE  Inv'
<1>t. SelectTypeOK /\ CallerInv(q)
  BY Zenon DEF Inv
<1>1. SelectTypeOK'
  <2>1. index' \in [Callers -> 1..(N + 1)]
    BY <1>t DEF Configured, SelectTypeOK, Chans, Registers, Goto
  <2>2. step' \in [Callers -> Steps]
    BY <1>t, Zenon DEF SelectTypeOK, Steps, Registers, Goto
  <2>3. linked' \in [Callers -> SUBSET Chans]
    BY <1>t DEF SelectTypeOK, Chans, Registers
  <2>4. ready' \in [Callers -> BOOLEAN]
    BY <1>t, Zenon DEF SelectTypeOK, Registers, IsReady
  <2>5. UNCHANGED <<capacity, values, parked, shut, call, still_open, drained, woken,
     outcome>>
    BY Zenon DEF Registers, Goto, channels, locals
  <2> QED BY <1>t, <2>1, <2>2, <2>3, <2>4, <2>5, Zenon DEF SelectTypeOK
<1>2. ASSUME NEW p \in Callers \ {q} PROVE CallerInv(p)'
  BY <1>t, OthersStay, Zenon DEF SelectTypeOK, Registers, Goto, channels, locals
<1>3. values' = values /\ parked' = parked /\ shut' = shut /\ capacity' = capacity
  BY Zenon DEF Registers, channels
<1>4. LinkedInv(q)'
  BY <1>t DEF Configured, SelectTypeOK, Chans, CallerInv, LinkedInv, Registers, Goto
<1>5. ToldInv(q)'
  <2>0. /\ index[q] \in Chans /\ linked'[q] = linked[q] \cup {index[q]}
        /\ ready'[q] = (ready[q] \/ IsReady(q, index[q]))
        /\ step'[q] = "register" /\ index'[q] # 1
        /\ step[q] = "register" /\ woken'[q] = woken[q]
    BY <1>t DEF Configured, SelectTypeOK, Chans, Registers, Goto
  <2>1. ASSUME NEW c \in linked'[q], CouldGoOn(q, c)' PROVE ready'[q] \/ woken'[q]
    <3>1. CouldGoOn(q, c)
      BY <1>3, <2>1, Zenon DEF CouldGoOn, Completes, Over, Room, SlotsOf, NoBuffer, Registers,
         locals
    <3>2. CASE c = index[q]
      BY <1>t, <2>0, <3>1, <3>2, ReadinessIsEnough, Zenon DEF CallerInv
    <3>3. CASE c \in linked[q]
      BY <1>t, <2>0, <3>1, <3>3, Zenon DEF CallerInv, ToldInv
    <3> QED BY <2>0, <3>2, <3>3, Zenon
  <2> QED BY <2>0, <2>1, Zenon DEF ToldInv
<1>6. PassInv(q)'
  BY <1>t, <1>3, Zenon DEF SelectTypeOK, CallerInv, PassInv, Over, Registers, Goto, locals
<1>7. SendInv(q)'
  BY <1>t, <1>3, Zenon DEF CallerInv, SendInv, NoBuffer, Registers, locals
<1> QED BY <1>1, <1>2, <1>4, <1>5, <1>6, <1>7, Zenon DEF Inv, CallerInv

\* The caller polls, unless a channel was ready.
LEMMA PollsStep ==
  ASSUME Configured, Inv, NEW q \in Callers, Polls(q)
  PROVE  Inv'
<1>t. SelectTypeOK /\ CallerInv(q)
  BY Zenon DEF Inv
<1>1. SelectTypeOK'
  BY <1>t DEF Configured, SelectTypeOK, Steps, Polls, Goto, channels, locals
<1>2. ASSUME NEW p \in Callers \ {q} PROVE CallerInv(p)'
  BY <1>t, OthersStay, Zenon DEF SelectTypeOK, Polls, Goto, channels, locals
<1>3. values' = values /\ parked' = parked /\ shut' = shut /\ capacity' = capacity
  BY Zenon DEF Polls, channels
<1>4. LinkedInv(q)'
  BY <1>t DEF Configured, SelectTypeOK, Chans, CallerInv, LinkedInv, Polls, Goto
<1>5. ToldInv(q)'
  BY <1>t, <1>3, Zenon DEF SelectTypeOK, CallerInv, LinkedInv, ToldInv, CouldGoOn, Completes, Over,
     Room, SlotsOf, NoBuffer, Polls, Goto, locals
<1>6. PassInv(q)'
  BY <1>t, <1>3, Zenon DEF SelectTypeOK, CallerInv, PassInv, Over, Polls, Goto, locals
<1>7. SendInv(q)'
  BY <1>t, <1>3, Zenon DEF CallerInv, SendInv, NoBuffer, Polls, locals
<1> QED BY <1>1, <1>2, <1>4, <1>5, <1>6, <1>7, Zenon DEF Inv, CallerInv

\* The poll returns.
LEMMA PollReturnsStep ==
  ASSUME Configured, Inv, NEW q \in Callers, NEW how \in {"unlink", "unlink_failed"},
         PollReturns(q, how)
  PROVE  Inv'
<1>t. SelectTypeOK /\ CallerInv(q)
  BY Zenon DEF Inv
<1>1. SelectTypeOK'
  BY <1>t DEF Configured, SelectTypeOK, Steps, PollReturns, Goto, channels, locals
<1>2. ASSUME NEW p \in Callers \ {q} PROVE CallerInv(p)'
  BY <1>t, OthersStay, Zenon DEF SelectTypeOK, PollReturns, Goto, channels, locals
<1>3. values' = values /\ parked' = parked /\ shut' = shut /\ capacity' = capacity
  BY Zenon DEF PollReturns, channels
<1>4. LinkedInv(q)'
  BY <1>t DEF Configured, SelectTypeOK, Chans, CallerInv, LinkedInv, PollReturns, Goto
<1>5. ToldInv(q)'
  BY <1>t, <1>3, Zenon DEF SelectTypeOK, CallerInv, LinkedInv, ToldInv, PollReturns, Goto
<1>6. PassInv(q)'
  BY <1>t, <1>3, Zenon DEF SelectTypeOK, CallerInv, PassInv, Over, PollReturns, Goto, locals
<1>7. SendInv(q)'
  BY <1>t, <1>3, Zenon DEF CallerInv, SendInv, NoBuffer, PollReturns, locals
<1> QED BY <1>1, <1>2, <1>4, <1>5, <1>6, <1>7, Zenon DEF Inv, CallerInv

\* A registration is unlinked.
LEMMA UnlinksStep ==
  ASSUME Configured, Inv, NEW q \in Callers, Unlinks(q)
  PROVE  Inv'
<1>t. SelectTypeOK /\ CallerInv(q)
  BY Zenon DEF Inv
<1>1. SelectTypeOK'
  <2>1. index' \in [Callers -> 1..(N + 1)]
    BY <1>t DEF Configured, SelectTypeOK, Chans, Unlinks, Goto
  <2>2. step' \in [Callers -> Steps]
    BY <1>t, Zenon DEF SelectTypeOK, Steps, Unlinks, Goto
  <2>3. linked' \in [Callers -> SUBSET Chans]
    BY <1>t, Zenon DEF SelectTypeOK, Unlinks
  <2>4. UNCHANGED <<capacity, values, parked, shut, call, still_open, drained, ready,
     woken, outcome>>
    BY Zenon DEF Unlinks, Goto, channels, locals
  <2> QED BY <1>t, <2>1, <2>2, <2>3, <2>4, Zenon DEF SelectTypeOK
<1>2. ASSUME NEW p \in Callers \ {q} PROVE CallerInv(p)'
  BY <1>t, OthersStay, Zenon DEF SelectTypeOK, Unlinks, Goto, channels, locals
<1>3. values' = values /\ parked' = parked /\ shut' = shut /\ capacity' = capacity
  BY Zenon DEF Unlinks, channels
<1>4. LinkedInv(q)'
  <2>1. /\ step'[q] = step[q] /\ step[q] \in {"unlink", "unlink_failed"}
        /\ index'[q] = index[q] + 1 /\ linked'[q] = linked[q] \ {index[q]}
    BY <1>t, Zenon DEF SelectTypeOK, Unlinks, Goto
  <2>2. linked[q] \subseteq Int /\ index[q] \in Int
    BY <1>t DEF Configured, SelectTypeOK, Chans
  <2>3. \A c \in linked[q] : c >= index[q]
    BY <1>t, <2>1, Zenon DEF CallerInv, LinkedInv
  <2> QED BY <2>1, <2>2, <2>3 DEF LinkedInv
<1>5. ToldInv(q)'
  BY <1>t, <1>3, Zenon DEF SelectTypeOK, CallerInv, LinkedInv, ToldInv, Unlinks, Goto
<1>6. PassInv(q)'
  BY <1>t, <1>3, Zenon DEF SelectTypeOK, CallerInv, PassInv, Over, Unlinks, Goto, locals
<1>7. SendInv(q)'
  BY <1>t, <1>3, Zenon DEF CallerInv, SendInv, NoBuffer, Unlinks, locals
<1> QED BY <1>1, <1>2, <1>4, <1>5, <1>6, <1>7, Zenon DEF Inv, CallerInv

\* The wait ends.
LEMMA WaitEndsStep ==
  ASSUME Configured, Inv, NEW q \in Callers, WaitEnds(q)
  PROVE  Inv'
<1>t. SelectTypeOK /\ CallerInv(q)
  BY Zenon DEF Inv
<1>1. SelectTypeOK'
  <2>g. (\E place \in Steps : Goto(q, place, 1)) /\ 1 \in 1..(N + 1)
    BY <1>t DEF Configured, Steps, CallReturns, WaitEnds
  <2>1. index' \in [Callers -> 1..(N + 1)]
    BY <1>t, <2>g, Zenon DEF SelectTypeOK, Goto
  <2>2. step' \in [Callers -> Steps]
    BY <1>t, <2>g, Zenon DEF SelectTypeOK, Goto
  <2>3. woken' \in [Callers -> BOOLEAN]
    BY <1>t, Zenon DEF SelectTypeOK, WaitEnds
  <2>4. still_open' \in [Callers -> Nat]
    BY <1>t, Zenon DEF SelectTypeOK, WaitEnds
  <2>5. outcome' \in [Callers -> Outcomes]
    BY <1>t, Zenon DEF SelectTypeOK, Outcomes, WaitEnds, CallReturns
  <2>6. UNCHANGED <<capacity, values, parked, shut, call, drained, ready, linked>>
    BY Zenon DEF WaitEnds, CallReturns, Goto, channels, locals
  <2> QED BY <1>t, <2>1, <2>2, <2>3, <2>4, <2>5, <2>6, Zenon DEF SelectTypeOK
<1>2. ASSUME NEW p \in Callers \ {q} PROVE CallerInv(p)'
  BY <1>t, OthersStay, Zenon DEF SelectTypeOK, WaitEnds, CallReturns, Goto, channels
<1>3. values' = values /\ parked' = parked /\ shut' = shut /\ capacity' = capacity
  BY Zenon DEF WaitEnds, channels
<1>4. LinkedInv(q)'
  BY <1>t DEF Configured, SelectTypeOK, Chans, CallerInv, LinkedInv, WaitEnds, CallReturns, Goto,
     Selects
<1>5. ToldInv(q)'
  BY <1>t, <1>3, Zenon DEF SelectTypeOK, CallerInv, LinkedInv, ToldInv, WaitEnds, CallReturns,
                           Goto, Selects
<1>6. PassInv(q)'
  BY <1>t, <1>3 DEF Configured, SelectTypeOK, Chans, CallerInv, PassInv, Over, WaitEnds,
                    CallReturns,
     Goto, Selects
<1>7. SendInv(q)'
  BY <1>t, <1>3, Zenon DEF CallerInv, SendInv, NoBuffer, WaitEnds
<1> QED BY <1>1, <1>2, <1>4, <1>5, <1>6, <1>7, Zenon DEF Inv, CallerInv

\* The call completes on a channel, and the others are told.
LEMMA TryCompletesStep ==
  ASSUME Configured, Inv, NEW q \in Callers, NEW result \in {"done", "error"},
         TryCompletes(q, result)
  PROVE  Inv'
<1> DEFINE c == index[q]
<1>t. SelectTypeOK /\ CallerInv(q)
  BY Zenon DEF Inv
<1>0. c \in Chans /\ notify_waiters(c) /\ capacity' = capacity
  BY <1>t DEF Configured, SelectTypeOK, Chans, TryCompletes
<1>v. values' \in [Chans -> Nat]
  BY <1>t, <1>0 DEF SelectTypeOK, TryCompletes, Completes
<1>1. SelectTypeOK'
  <2>1. woken' \in [Callers -> BOOLEAN]
    BY <1>0, NotifyTyped, Zenon
  <2>2. index' \in [Callers -> 1..(N + 1)]
    BY <1>t DEF Configured, SelectTypeOK, TryCompletes, CallReturns, Goto
  <2>3. step' \in [Callers -> Steps] /\ outcome' \in [Callers -> Outcomes]
    BY <1>t, Zenon DEF SelectTypeOK, Steps, Outcomes, TryCompletes, CallReturns, Goto
  <2>4. UNCHANGED <<capacity, parked, shut, call, still_open, drained, ready, linked>>
    BY Zenon DEF TryCompletes, locals
  <2> QED BY <1>t, <1>v, <2>1, <2>2, <2>3, <2>4, Zenon DEF SelectTypeOK
<1>2. ASSUME NEW p \in Callers \ {q} PROVE CallerInv(p)'
  <2>1. /\ call'[p] = call[p] /\ step'[p] = step[p] /\ index'[p] = index[p]
        /\ still_open'[p] = still_open[p] /\ drained'[p] = drained[p] /\ ready'[p] = ready[p]
        /\ linked'[p] = linked[p] /\ outcome'[p] = outcome[p]
    BY <1>t, Zenon DEF SelectTypeOK, TryCompletes, CallReturns, Goto, locals
  <2>2. \A d \in Chans \ {c} :
          values'[d] = values[d] /\ parked'[d] = parked[d] /\ shut'[d] = shut[d]
    BY <1>t, Zenon DEF SelectTypeOK, TryCompletes
  <2>3. shut[c] => shut'[c] /\ (values[c] = 0 => values'[c] = 0)
    BY <1>t, <1>0 DEF SelectTypeOK, TryCompletes, Completes
  <2> QED BY <1>0, <2>1, <2>2, <2>3, ToldOfChange, Zenon
<1>3. step'[q] = "idle" /\ outcome'[q] # "nothing"
  BY <1>t, Zenon DEF SelectTypeOK, TryCompletes, CallReturns, Goto
<1>4. /\ step[q] = "try" /\ linked'[q] = linked[q] /\ ready'[q] = ready[q] /\ call'[q] = call[q]
  BY Zenon DEF TryCompletes, locals
<1>5. CallerInv(q)'
  BY <1>t, <1>0, <1>3, <1>4, Zenon
     DEF CallerInv, LinkedInv, ToldInv, PassInv, SendInv, NoBuffer
<1> QED BY <1>1, <1>2, <1>5, Zenon DEF Inv

-----------------------------------------------------------------------------
\* The invariant holds before any call.
LEMMA InitInv == ASSUME Configured PROVE SelectInit => Inv
<1> SUFFICES ASSUME SelectInit PROVE Inv
  OBVIOUS
<1>1. SelectTypeOK
  <2>1. capacity \in [Chans -> Nat]
    BY Zenon DEF Configured, SelectInit
  <2>2. index \in [Callers -> 1..(N + 1)]
    BY DEF Configured, SelectInit
  <2> QED BY <2>1, <2>2 DEF SelectInit, SelectTypeOK, Calls, Steps, Outcomes
<1>2. ASSUME NEW p \in Callers PROVE CallerInv(p)
  BY Zenon DEF SelectInit, CallerInv, LinkedInv, ToldInv, PassInv, SendInv
<1> QED BY <1>1, <1>2, Zenon DEF Inv

\* Every step keeps it.
LEMMA NextInv == ASSUME Configured PROVE Inv /\ [SelectNext]_selectvars => Inv'
<1> SUFFICES ASSUME Inv, [SelectNext]_selectvars PROVE Inv'
  OBVIOUS
<1>1. CASE UNCHANGED selectvars
  <2>1. UNCHANGED <<capacity, values, parked, shut, call, step, index, still_open, drained,
                    ready, linked, woken, outcome>>
    BY <1>1, Zenon DEF selectvars
  <2>2. SelectTypeOK'
    BY <2>1, Zenon DEF Inv, SelectTypeOK
  <2>3. ASSUME NEW p \in Callers PROVE CallerInv(p)'
    BY <2>1, OthersStay, Zenon DEF channels
  <2> QED BY <2>2, <2>3, Zenon DEF Inv
<1>2. CASE \E c \in Chans : Sent(c) \/ Taken(c) \/ Parks(c) \/ Leaves(c) \/ Closed(c)
  BY <1>2, ElsewhereStep, Zenon
<1>3. ASSUME NEW p \in Callers, NEW method \in Calls, Begin(p, method) PROVE Inv'
  BY <1>3, BeginStep, Zenon
<1>4. ASSUME NEW p \in Callers, TryNext(p) \/ CopyFails(p) \/ PassEnds(p) PROVE Inv'
  BY <1>4, TryNextStep, CopyFailsStep, PassEndsStep, Zenon
<1>5. ASSUME NEW p \in Callers, NEW result \in {"done", "error"}, TryCompletes(p, result)
      PROVE  Inv'
  BY <1>5, TryCompletesStep, Zenon
<1>6. ASSUME NEW p \in Callers, RegistersNothing(p) \/ Registers(p) \/ Polls(p) PROVE Inv'
  BY <1>6, RegistersNothingStep, RegistersStep, PollsStep, Zenon
<1>7. ASSUME NEW p \in Callers, NEW how \in {"unlink", "unlink_failed"}, PollReturns(p, how)
      PROVE  Inv'
  BY <1>7, PollReturnsStep, Zenon
<1>8. ASSUME NEW p \in Callers, Unlinks(p) \/ WaitEnds(p) PROVE Inv'
  BY <1>8, UnlinksStep, WaitEndsStep, Zenon
<1> QED BY <1>1, <1>2, <1>3, <1>4, <1>5, <1>6, <1>7, <1>8, Zenon DEF SelectNext

\* And the property follows from it: a caller that polls is registered with every
\* channel, and has found none of them ready.
LEMMA InvImplies == Inv => SelectMissesNothing
<1> SUFFICES ASSUME Inv, NEW p \in Callers
    PROVE  /\ step[p] = "poll" /\ (\E c \in Chans : CouldGoOn(p, c)) => woken[p]
           /\ outcome[p] = "nothing" => \A c \in Chans : Over(p, c)
           /\ step[p] \in {"idle", "try"} => linked[p] = {}
  BY Zenon DEF SelectMissesNothing
<1> QED BY Zenon DEF Inv, CallerInv, LinkedInv, ToldInv, PassInv

\* Channel.select, Channel.select_send and the waits that channels cancel, over any
\* number of channels of any capacity: no caller polls beside a channel on which
\* it could go on, and nil before the deadline means that all of them are over.
THEOREM SelectsMissNothing ==
  ASSUME Configured PROVE SelectSpec => []SelectMissesNothing
<1>1. SelectInit => Inv
  BY InitInv, Zenon
<1>2. Inv /\ [SelectNext]_selectvars => Inv'
  BY NextInv, Zenon
<1> QED BY <1>1, <1>2, InvImplies, PTL DEF SelectSpec

=============================================================================
