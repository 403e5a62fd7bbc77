--------------------------- MODULE ChannelProofs ---------------------------
(***************************************************************************)
(* Theorems about Channel, for any set of threads, any capacity and any    *)
(* number of send calls.                                                   *)
(***************************************************************************)
EXTENDS Channel, TLAPS

\* A sender in one of its two waits holds an item.
SendersHoldItems ==
  \A p \in Procs : pc[p] \in {"not_full", "handoff"} => item[p] \in Items

IndType == TypeOK /\ SendersHoldItems

\* The steps that queue an item, told apart from the ones that fail.
LEMMA SendLockedType ==
  ASSUME IndType, NEW p \in Procs, NEW i \in Items, NEW try \in BOOLEAN,
         SendLocked(p, i, try), issued' \in 0..MaxItems,
         UNCHANGED <<waiters, interrupt>>
  PROVE  IndType'
<1> USE DEF IndType, TypeOK, SendersHoldItems, Waits, chan
<1>f ASSUME SendFails(p, i) PROVE IndType'
  BY <1>f, Zenon DEF SendFails, Return
<1>1 CASE SendBlocks(p, i, try)
  <2>1 CASE try \/ interrupt[p] BY <1>f, <1>1, <2>1 DEF SendBlocks
  <2>2 CASE ~(try \/ interrupt[p])
    <3>1 /\ Sleep(p, "not_full", {})
         /\ item' = [item EXCEPT ![p] = i]
         /\ UNCHANGED <<chan, pipe, sequence, fate, delivered>>
      BY <1>1, <2>2, Zenon DEF SendBlocks
    <3> QED BY <3>1, Zenon DEF Sleep
  <2> QED BY <2>1, <2>2, Zenon
<1>2 CASE SendClosed(p, i) BY <1>f, <1>2 DEF SendClosed
<1>3 CASE SendCopyFails(p, i, try) BY <1>f, <1>3 DEF SendCopyFails
<1>4 CASE SendEnqueues(p, i, try)
  <2>1 PICK w \in Signal(NotEmptySleepers) : Return(p, w)
    BY <1>4, Zenon DEF SendEnqueues
  <2>2 pc' \in [Procs -> Waits \cup {"idle"}] /\ pc' = [pc EXCEPT ![p] = "idle"]
    BY <2>1, Zenon DEF Return
  <2>3 sleep' \in [Procs -> {"awake", "asleep", "signalled", "timedout"}]
    BY <2>1, Zenon DEF Return
  <2>4 queue' \in Seq(Items) BY <1>4 DEF SendEnqueues
  <2>5 pipe' \subseteq Procs BY <1>4 DEF SendEnqueues, notify_channel_waiters
  <2>6 fate' \in [Items -> {"fresh", "offered", "accepted", "refused"}]
    BY <1>4, Zenon DEF SendEnqueues
  <2>7 sent' \in Int BY <1>4 DEF SendEnqueues
  <2> QED BY <1>4, <2>2, <2>3, <2>4, <2>5, <2>6, <2>7, Zenon DEF SendEnqueues
<1>5 CASE SendOffers(p, i)
  <2>1 PICK w \in Signal(NotEmptySleepers) : Sleep(p, "handoff", w)
    BY <1>5, Zenon DEF SendOffers
  <2>2 pc' \in [Procs -> Waits \cup {"idle"}] /\ pc' = [pc EXCEPT ![p] = "handoff"]
    BY <2>1, Zenon DEF Sleep
  <2>3 sleep' \in [Procs -> {"awake", "asleep", "signalled", "timedout"}]
    BY <2>1, Zenon DEF Sleep
  <2>4 queue' \in Seq(Items) BY <1>5 DEF SendOffers
  <2>5 pipe' \subseteq Procs BY <1>5 DEF SendOffers, notify_channel_waiters
  <2>6 fate' \in [Items -> {"fresh", "offered", "accepted", "refused"}]
    BY <1>5, Zenon DEF SendOffers
  <2>7 sent' \in Int BY <1>5 DEF SendOffers
  <2> QED BY <1>5, <2>2, <2>3, <2>4, <2>5, <2>6, <2>7, Zenon DEF SendOffers
<1>6 CASE SendOffersInterrupted(p, i)
  <2>1 PICK w \in Signal(NotEmptySleepers) : Return(p, w \cup NotFullSleepers)
    BY <1>6, Zenon DEF SendOffersInterrupted
  <2>2 pc' \in [Procs -> Waits \cup {"idle"}] /\ pc' = [pc EXCEPT ![p] = "idle"]
    BY <2>1, Zenon DEF Return
  <2>3 sleep' \in [Procs -> {"awake", "asleep", "signalled", "timedout"}]
    BY <2>1, Zenon DEF Return
  <2> QED BY <1>6, <2>2, <2>3, Zenon DEF SendOffersInterrupted, notify_channel_waiters
<1> QED BY <1>1, <1>2, <1>3, <1>4, <1>5, <1>6, Zenon DEF SendLocked

\* What a step of channel_receive_helper leaves well typed.
LEMMA ReceiveType ==
  ASSUME IndType, NEW p \in Procs, NEW rw \in Int,
         \/ ReceiveWouldBlock(p, rw)
         \/ ReceiveParks(p, rw)
         \/ ReceiveLocked(p, rw),
         UNCHANGED <<closed, sent, waiters, item, sequence, interrupt, issued, fate>>
  PROVE  IndType'
<1> USE DEF IndType, TypeOK, SendersHoldItems, Waits
<1>r ASSUME NEW w, Return(p, w),
            queue' \in Seq(Items), taken' \in Int, receivers_waiting' \in Int,
            pipe' \subseteq Procs, delivered' \in Seq(Items)
     PROVE  IndType'
  <2>1 /\ pc' = [pc EXCEPT ![p] = "idle"]
       /\ sleep' \in [Procs -> {"awake", "asleep", "signalled", "timedout"}]
    BY <1>r, Zenon DEF Return
  <2> QED BY <1>r, <2>1, Zenon
<1>1 CASE ReceiveWouldBlock(p, rw) BY <1>1, <1>r DEF ReceiveWouldBlock
<1>2 CASE ReceiveParks(p, rw)
  <2>1 /\ pipe' \subseteq Procs
       /\ UNCHANGED <<queue, taken, delivered>>
    BY <1>2, Zenon DEF ReceiveParks, notify_channel_waiters
  <2>2 CASE interrupt[p] BY <1>2, <1>r, <2>1, <2>2 DEF ReceiveParks
  <2>3 CASE ~interrupt[p]
    <3>1 Sleep(p, "not_empty", {}) /\ receivers_waiting' = rw + 1
      BY <1>2, <2>3, Zenon DEF ReceiveParks
    <3>2 /\ pc' = [pc EXCEPT ![p] = "not_empty"]
         /\ sleep' \in [Procs -> {"awake", "asleep", "signalled", "timedout"}]
      BY <3>1, Zenon DEF Sleep
    <3> QED BY <2>1, <3>1, <3>2
  <2> QED BY <2>2, <2>3, Zenon
<1>3 CASE ReceiveDrained(p, rw) BY <1>3, <1>r DEF ReceiveDrained
<1>4 CASE ReceiveCopyFails(p, rw) BY <1>4, <1>r DEF ReceiveCopyFails
<1>5 CASE ReceiveTakes(p, rw)
  <2>1 PICK w : Return(p, w) BY <1>5 DEF ReceiveTakes
  <2>2 queue' \in Seq(Items) /\ delivered' \in Seq(Items)
    BY <1>5 DEF ReceiveTakes
  <2>3 pipe' \subseteq Procs BY <1>5 DEF ReceiveTakes, notify_channel_waiters
  <2>4 taken' \in Int /\ receivers_waiting' \in Int BY <1>5 DEF ReceiveTakes
  <2> QED BY <1>r, <2>1, <2>2, <2>3, <2>4, Zenon
<1> QED BY <1>1, <1>2, <1>3, <1>4, <1>5, Zenon DEF ReceiveLocked

\* Every step keeps the types.
LEMMA TypeStep == IndType /\ [Next]_vars => IndType'
<1> SUFFICES ASSUME IndType, [Next]_vars PROVE IndType' OBVIOUS
<1> USE DEF IndType, TypeOK, SendersHoldItems, Waits
<1>0 CASE UNCHANGED vars BY <1>0 DEF vars
<1>1 ASSUME NEW p \in Procs, Send(p) \/ TrySend(p) PROVE IndType'
  <2>0 /\ issued < MaxItems
       /\ issued' = issued + 1
       /\ UNCHANGED <<waiters, interrupt>>
    BY <1>1, Zenon DEF Send, TrySend
  <2>1 issued + 1 \in Items /\ issued' \in 0..MaxItems
    BY <2>0, ItemsAssumption DEF Items
  <2>2 SendLocked(p, issued + 1, FALSE) \/ SendLocked(p, issued + 1, TRUE)
    BY <1>1, Zenon DEF Send, TrySend
  <2> QED BY <2>0, <2>1, <2>2, SendLockedType, Zenon
<1>2 ASSUME NEW p \in Procs, SendWakes(p) PROVE IndType'
  <2>1 item[p] \in Items BY <1>2 DEF SendWakes
  <2>2 UNCHANGED <<waiters, interrupt, issued>> BY <1>2 DEF SendWakes
  <2>3 CASE SendLocked(p, item[p], FALSE) BY <2>1, <2>2, <2>3, SendLockedType, Zenon
  <2>4 CASE SendFails(p, item[p])
    BY <2>1, <2>2, <2>4, Zenon DEF SendFails, Return, chan
  <2> QED BY <1>2, <2>3, <2>4, Zenon DEF SendWakes
<1>3 ASSUME NEW p \in Procs, HandoffWakes(p) PROVE IndType'
  <2>1 UNCHANGED <<closed, taken, receivers_waiting, waiters, item, sequence,
                   interrupt, issued, delivered>>
    BY <1>3, Zenon DEF HandoffWakes
  <2>a queue' = << >> \/ queue' = queue
    BY <1>3, Zenon DEF HandoffWakes, HandoffTaken, HandoffWithdraws, HandoffWaitsOn
  <2>b sent' \in Int
    BY <1>3 DEF HandoffWakes, HandoffTaken, HandoffWithdraws, HandoffWaitsOn
  <2>c pipe' \subseteq Procs
    BY <1>3, Zenon DEF HandoffWakes, HandoffTaken, HandoffWithdraws, HandoffWaitsOn,
                notify_channel_waiters
  <2>d fate' \in [Items -> {"fresh", "offered", "accepted", "refused"}]
    BY <1>3, Zenon DEF HandoffWakes, HandoffTaken, HandoffWithdraws, HandoffWaitsOn
  <2>e << >> \in Seq(Items) OBVIOUS
  <2>2 queue' \in Seq(Items) BY <2>a, <2>e, Zenon
  <2>3 /\ pc' = [pc EXCEPT ![p] = "idle"] \/ pc' = [pc EXCEPT ![p] = "handoff"]
       /\ pc[p] = "handoff"
       /\ sleep' \in [Procs -> {"awake", "asleep", "signalled", "timedout"}]
    BY <1>3 DEF HandoffWakes, HandoffTaken, HandoffWithdraws, HandoffWaitsOn,
                Return, Sleep
  <2> QED BY <2>1, <2>2, <2>3, <2>b, <2>c, <2>d, Zenon
<1>4 ASSUME NEW p \in Procs, Receive(p) \/ TryReceive(p) PROVE IndType'
  BY <1>4, ReceiveType, Zenon DEF Receive, TryReceive
<1>5 ASSUME NEW p \in Procs, ReceiveWakes(p) PROVE IndType'
  <2>1 UNCHANGED <<closed, sent, waiters, item, sequence, interrupt, issued, fate>>
    BY <1>5, Zenon DEF ReceiveWakes
  <2>2 CASE ReceiveInterrupted(p)
    BY <2>1, <2>2 DEF ReceiveInterrupted, Return
  <2>3 CASE ReceiveRetests(p)
    <3>1 receivers_waiting - 1 \in Int OBVIOUS
    <3> QED BY <2>1, <2>3, <3>1, ReceiveType, Zenon DEF ReceiveRetests
  <2> QED BY <1>5, <2>2, <2>3, Zenon DEF ReceiveWakes
<1>6 ASSUME NEW p \in Procs, Close(p) PROVE IndType'
  BY <1>6, Zenon DEF Close, Return, notify_channel_waiters
<1>7 ASSUME NEW p \in Procs, NEW kind \in {"readable", "writable"},
            WaitRegisters(p, kind)
     PROVE  IndType'
  BY <1>7, Zenon DEF WaitRegisters, others, chan
<1>8 ASSUME NEW p \in Procs, WaitPollReturns(p) \/ WaitGivesUp(p) \/ WaitUnlinks(p)
     PROVE  IndType'
  BY <1>8, Zenon DEF WaitPollReturns, WaitGivesUp, WaitUnlinks, others, chan
<1>9 ASSUME NEW p \in Procs, Interrupt(p) \/ TimesOut(p) \/ SpuriousWakeup(p)
     PROVE  IndType'
  BY <1>9, Zenon DEF Interrupt, TimesOut, SpuriousWakeup, chan, waitVars
<1> QED BY <1>0, <1>1, <1>2, <1>3, <1>4, <1>5, <1>6, <1>7, <1>8, <1>9, Zenon DEF Next

\* The initial state has them.
LEMMA InitType == Init => IndType
<1> SUFFICES ASSUME Init PROVE IndType OBVIOUS
<1>1 queue \in Seq(Items) /\ delivered \in Seq(Items) BY DEF Init
<1>2 issued \in 0..MaxItems BY ItemsAssumption DEF Init
<1>3 SendersHoldItems BY DEF Init, SendersHoldItems
<1>4 /\ pc \in [Procs -> Waits \cup {"idle"}]
     /\ sleep \in [Procs -> {"awake", "asleep", "signalled", "timedout"}]
     /\ item \in [Procs -> Items \cup {0}]
     /\ fate \in [Items -> {"fresh", "offered", "accepted", "refused"}]
  BY Zenon DEF Init
<1>5 sequence \in [Procs -> Int] /\ interrupt \in [Procs -> BOOLEAN]
  BY DEF Init
<1>a closed \in BOOLEAN BY Zenon DEF Init
<1>b sent \in Int /\ taken \in Int /\ receivers_waiting \in Int BY DEF Init
<1>6 waiters \subseteq Procs /\ pipe \subseteq Procs BY DEF Init
<1> QED BY <1>1, <1>2, <1>3, <1>4, <1>5, <1>6, <1>a, <1>b, Zenon DEF IndType, TypeOK

\* Every reachable state is well typed.
THEOREM TypeCorrect == Spec => []TypeOK
<1>1 IndType => TypeOK BY DEF IndType
<1> QED BY <1>1, InitType, TypeStep, PTL DEF Spec

-----------------------------------------------------------------------------
(* The slot of a rendezvous channel *)

\* A sender whose offered value has not been taken yet.
Pending(p) == pc[p] = "handoff" /\ taken < sequence[p]

\* sent and taken differ by what is in the slot, and a pending sender is the
\* only one, has the next sequence number to be taken, and owns the slot.
SlotInv ==
  /\ Len(queue) <= Slots
  /\ Rendezvous => sent = taken + Len(queue)
  /\ \A p \in Procs : pc[p] = "handoff" => Rendezvous
  /\ \A p \in Procs : Pending(p) => sequence[p] = taken + 1 /\ queue = <<item[p]>>
  /\ \A p, q \in Procs : Pending(p) /\ Pending(q) => p = q

\* A step that leaves the queue and its counters alone, and brings no new
\* sender into the handoff, preserves the slot invariant.
LEMMA SlotFrame ==
  ASSUME TypeOK, SlotInv, UNCHANGED <<queue, sent, taken>>,
         \A q \in Procs : pc'[q] = "handoff" =>
           pc[q] = "handoff" /\ item'[q] = item[q] /\ sequence'[q] = sequence[q]
  PROVE  SlotInv'
  BY Zenon DEF SlotInv, Pending, Slots, Rendezvous

\* A length that is at most one and not one is zero.
LEMMA NoneOfOne == \A n \in Nat : n # 1 /\ n <= 1 => n = 0
  OBVIOUS

\* send_locked puts a value in the handoff slot only when it is free.
LEMMA SlotSendLocked ==
  ASSUME TypeOK, SlotInv, NEW p \in Procs, NEW i \in Items, NEW try \in BOOLEAN,
         pc[p] # "handoff", SendLocked(p, i, try)
  PROVE  SlotInv'
<1>t /\ Len(queue) \in Nat /\ queue \in Seq(Items)
     /\ pc \in [Procs -> Waits \cup {"idle"}] /\ item \in [Procs -> Items \cup {0}]
     /\ sequence \in [Procs -> Int] /\ sent \in Int /\ taken \in Int
  BY DEF TypeOK
<1>n Len(queue) \in Nat BY <1>t
<1>f ASSUME SendFails(p, i) PROVE SlotInv'
  <2>1 /\ UNCHANGED <<queue, sent, taken, item, sequence>>
       /\ pc' = [pc EXCEPT ![p] = "idle"]
    BY <1>f, Zenon DEF SendFails, Return, chan
  <2> QED BY <1>t, <2>1, SlotFrame, Zenon
<1>1 CASE SendBlocks(p, i, try)
  <2>1 CASE try \/ interrupt[p] BY <1>f, <1>1, <2>1 DEF SendBlocks
  <2>2 CASE ~(try \/ interrupt[p])
    <3>1 /\ UNCHANGED <<queue, sent, taken, sequence>>
         /\ pc' = [pc EXCEPT ![p] = "not_full"]
         /\ item' = [item EXCEPT ![p] = i]
      BY <1>1, <2>2, Zenon DEF SendBlocks, Sleep, chan
    <3> QED BY <1>t, <3>1, SlotFrame, Zenon
  <2> QED BY <2>1, <2>2, Zenon
<1>2 CASE SendClosed(p, i) BY <1>f, <1>2 DEF SendClosed
<1>3 CASE SendCopyFails(p, i, try) BY <1>f, <1>3 DEF SendCopyFails
<1>4 CASE SendEnqueues(p, i, try)
  <2>1 /\ queue' = Append(queue, i) /\ sent' = sent + 1
       /\ UNCHANGED <<taken, item, sequence>>
       /\ pc' = [pc EXCEPT ![p] = "idle"]
    BY <1>4, Zenon DEF SendEnqueues, Return
  <2>2 Len(queue) # Slots BY <1>4 DEF SendEnqueues, MustWait
  <2>3 Len(queue') = Len(queue) + 1 BY <1>t, <2>1
  <2>4 Slots \in Nat BY CapacityAssumption DEF Slots
  <2>b Len(queue) <= Slots BY DEF SlotInv
  <2>d Rendezvous => Slots = 1 BY DEF Slots, Rendezvous
  <2>e Rendezvous => Len(queue) # 1 /\ Len(queue) <= 1 BY <2>2, <2>b, <2>d
  <2>5 Rendezvous => Len(queue) = 0 BY <1>n, <2>e, NoneOfOne, Zenon
  <2>6 ASSUME NEW q \in Procs, Pending(q) PROVE FALSE
    <3>1 Rendezvous /\ queue = <<item[q]>> BY <2>6 DEF SlotInv, Pending
    <3> QED BY <3>1, <2>5
  <2>7 \A q \in Procs : ~Pending(q)'
    BY <1>t, <2>1, <2>6, Zenon DEF Pending
  <2>8 Len(queue') <= Slots BY <1>n, <2>2, <2>3, <2>4, <2>b
  <2>9 Rendezvous => sent' = taken' + Len(queue')
    BY <1>t, <2>1, <2>3 DEF SlotInv
  <2>c \A q \in Procs : pc'[q] = "handoff" => Rendezvous
    BY <1>t, <2>1, Zenon DEF SlotInv
  <2> QED BY <2>7, <2>8, <2>9, <2>c, Zenon DEF SlotInv, Rendezvous, Slots
<1>5 CASE SendOffers(p, i)
  <2>1 /\ queue' = Append(queue, i) /\ sent' = sent + 1
       /\ UNCHANGED taken
       /\ item' = [item EXCEPT ![p] = i]
       /\ sequence' = [sequence EXCEPT ![p] = sent + 1]
       /\ pc' = [pc EXCEPT ![p] = "handoff"]
    BY <1>5, Zenon DEF SendOffers, Sleep
  <2>a Rendezvous /\ Len(queue) # Slots /\ Len(queue) <= Slots
    BY <1>5, Zenon DEF SendOffers, MustWait, SlotInv
  <2>b Slots = 1 BY <2>a DEF Slots, Rendezvous
  <2>d Len(queue) # 1 /\ Len(queue) <= 1 BY <2>a, <2>b
  <2>2 Rendezvous /\ Len(queue) = 0 BY <1>n, <2>a, <2>d, NoneOfOne, Zenon
  <2>3 queue = << >> BY <1>t, <2>2
  <2>4 queue' = <<i>> /\ Len(queue') = 1 BY <2>1, <2>3
  <2>5 ASSUME NEW q \in Procs, Pending(q) PROVE FALSE
    <3>1 queue = <<item[q]>> BY <2>5 DEF SlotInv
    <3> QED BY <3>1, <2>2
  <2>6 \A q \in Procs : Pending(q)' => q = p
    BY <1>t, <2>1, <2>5, Zenon DEF Pending
  <2>7 sequence'[p] = taken' + 1 /\ item'[p] = i
    BY <1>t, <2>1, <2>2 DEF SlotInv
  <2> QED BY <1>t, <2>1, <2>2, <2>4, <2>6, <2>7 DEF SlotInv, Rendezvous, Slots
<1>6 CASE SendOffersInterrupted(p, i)
  <2>1 /\ UNCHANGED <<queue, sent, taken, item, sequence>>
       /\ pc' = [pc EXCEPT ![p] = "idle"]
    BY <1>6, Zenon DEF SendOffersInterrupted, Return, chan
  <2> QED BY <1>t, <2>1, SlotFrame, Zenon
<1> QED BY <1>1, <1>2, <1>3, <1>4, <1>5, <1>6, Zenon DEF SendLocked

\* A receive empties the slot and advances taken.
LEMMA SlotReceive ==
  ASSUME TypeOK, SlotInv, NEW p \in Procs, NEW rw \in Int, pc[p] # "handoff",
         \/ ReceiveWouldBlock(p, rw)
         \/ ReceiveParks(p, rw)
         \/ ReceiveLocked(p, rw),
         UNCHANGED <<closed, sent, waiters, item, sequence, interrupt, issued, fate>>
  PROVE  SlotInv'
<1>t /\ pc \in [Procs -> Waits \cup {"idle"}] /\ item \in [Procs -> Items \cup {0}]
     /\ sequence \in [Procs -> Int] /\ sent \in Int /\ taken \in Int
  BY Zenon DEF TypeOK
<1>1 CASE ReceiveTakes(p, rw)
  <2>1 /\ queue # << >> /\ queue' = Tail(queue) /\ taken' = taken + 1
       /\ pc' = [pc EXCEPT ![p] = "idle"]
    BY <1>1, Zenon DEF ReceiveTakes, Return
  <2>q queue \in Seq(Items) BY Zenon DEF TypeOK
  <2>2 Len(queue') = Len(queue) - 1 BY <2>1, <2>q
  <2>3 ASSUME NEW q \in Procs, Pending(q)' PROVE FALSE
    <3>1 pc[q] = "handoff" /\ taken + 1 < sequence[q]
      BY <1>t, <2>1, <2>3, Zenon DEF Pending
    <3>2 Pending(q) BY <1>t, <3>1 DEF Pending
    <3>3 sequence[q] = taken + 1 BY <3>2 DEF SlotInv
    <3> QED BY <1>t, <3>1, <3>3
  <2>4 Len(queue') <= Slots
    <3>1 Len(queue) \in Nat BY <2>q
    <3>2 Len(queue) <= Slots BY DEF SlotInv
    <3>3 Slots \in Nat BY CapacityAssumption DEF Slots
    <3> QED BY <2>2, <3>1, <3>2, <3>3
  <2>5 Rendezvous => sent' = taken' + Len(queue')
    <3>1 Len(queue) \in Nat BY <2>q
    <3> QED BY <1>t, <2>1, <2>2, <3>1 DEF SlotInv, Rendezvous
  <2>6 \A q \in Procs : pc'[q] = "handoff" => Rendezvous
    BY <1>t, <2>1, Zenon DEF SlotInv
  <2> QED BY <2>3, <2>4, <2>5, <2>6, Zenon DEF SlotInv, Rendezvous, Slots
<1>2 CASE ~ ReceiveTakes(p, rw)
  <2>1 /\ UNCHANGED <<queue, taken>>
       /\ pc' = [pc EXCEPT ![p] = "idle"] \/ pc' = [pc EXCEPT ![p] = "not_empty"]
    BY <1>2, Zenon DEF ReceiveWouldBlock, ReceiveParks, ReceiveLocked, ReceiveDrained,
                ReceiveCopyFails, Return, Sleep
  <2> QED BY <1>t, <2>1, SlotFrame, Zenon
<1> QED BY <1>1, <1>2, Zenon

\* A handoff that ends leaves the slot free or to its receiver.
LEMMA SlotHandoff ==
  ASSUME TypeOK, SlotInv, NEW p \in Procs, HandoffWakes(p)
  PROVE  SlotInv'
<1>t /\ pc \in [Procs -> Waits \cup {"idle"}] /\ item \in [Procs -> Items \cup {0}]
     /\ sequence \in [Procs -> Int] /\ sent \in Int /\ taken \in Int
  BY Zenon DEF TypeOK
<1>0 /\ UNCHANGED <<taken, item, sequence>>
     /\ pc[p] = "handoff"
  BY Zenon DEF HandoffWakes
<1>1 CASE HandoffTaken(p)
  <2>1 UNCHANGED <<queue, sent>> /\ pc' = [pc EXCEPT ![p] = "idle"]
    BY <1>1, Zenon DEF HandoffTaken, Return
  <2> QED BY <1>t, <1>0, <2>1, SlotFrame, Zenon
<1>2 CASE HandoffWaitsOn(p)
  <2>1 UNCHANGED <<queue, sent>> /\ pc' = [pc EXCEPT ![p] = "handoff"]
    BY <1>2, Zenon DEF HandoffWaitsOn, Sleep
  <2> QED BY <1>t, <1>0, <2>1, SlotFrame, Zenon
<1>3 CASE HandoffWithdraws(p)
  <2>1 /\ queue' = << >> /\ sent' = sent - 1 /\ taken < sequence[p]
       /\ pc' = [pc EXCEPT ![p] = "idle"]
    BY <1>3, Zenon DEF HandoffWithdraws, Return
  <2>2 Pending(p) BY <1>0, <2>1 DEF Pending
  <2>3 Rendezvous /\ queue = <<item[p]>> BY <1>0, <2>2 DEF SlotInv
  <2>4 Len(queue) = 1 /\ Len(queue') = 0 BY <2>1, <2>3
  <2>5 \A q \in Procs : Pending(q)' => Pending(q) /\ q # p
    BY <1>t, <1>0, <2>1, Zenon DEF Pending
  <2>6 \A q \in Procs : ~Pending(q)'
    BY <2>2, <2>5, Zenon DEF SlotInv
  <2>7 sent' = taken' + Len(queue')
    BY <1>t, <1>0, <2>1, <2>3, <2>4 DEF SlotInv
  <2>8 Len(queue') <= Slots BY <2>4, CapacityAssumption DEF Slots
  <2> QED BY <2>3, <2>6, <2>7, <2>8, Zenon DEF SlotInv, Rendezvous, Slots
<1> QED BY <1>1, <1>2, <1>3, Zenon DEF HandoffWakes

\* Every step keeps the invariant of the handoff slot.
LEMMA SlotStep == IndType /\ SlotInv /\ [Next]_vars => SlotInv'
<1> SUFFICES ASSUME IndType, SlotInv, [Next]_vars PROVE SlotInv' OBVIOUS
<1>i TypeOK /\ SendersHoldItems BY DEF IndType
<1>t /\ pc \in [Procs -> Waits \cup {"idle"}] /\ receivers_waiting \in Int
     /\ issued \in 0..MaxItems
  BY <1>i, Zenon DEF TypeOK
<1>0 CASE UNCHANGED vars BY <1>0, <1>i, SlotFrame DEF vars
<1>1 ASSUME NEW p \in Procs, Send(p) \/ TrySend(p) PROVE SlotInv'
  <2>1 pc[p] # "handoff" /\ issued < MaxItems BY <1>1, Zenon DEF Send, TrySend
  <2>2 issued + 1 \in Items BY <1>t, <2>1, ItemsAssumption DEF Items
  <2>3 SendLocked(p, issued + 1, FALSE) \/ SendLocked(p, issued + 1, TRUE)
    BY <1>1, Zenon DEF Send, TrySend
  <2> QED BY <1>i, <2>1, <2>2, <2>3, SlotSendLocked, Zenon
<1>2 ASSUME NEW p \in Procs, SendWakes(p) PROVE SlotInv'
  <2>1 item[p] \in Items /\ pc[p] # "handoff"
    BY <1>i, <1>2, Zenon DEF SendWakes, SendersHoldItems
  <2>2 CASE SendLocked(p, item[p], FALSE) BY <1>i, <2>1, <2>2, SlotSendLocked, Zenon
  <2>3 CASE SendFails(p, item[p])
    <3>1 /\ UNCHANGED <<queue, sent, taken, item, sequence>>
         /\ pc' = [pc EXCEPT ![p] = "idle"]
      BY <2>3, Zenon DEF SendFails, Return, chan
    <3> QED BY <1>i, <1>t, <3>1, SlotFrame, Zenon
  <2> QED BY <1>2, <2>2, <2>3, Zenon DEF SendWakes
<1>3 ASSUME NEW p \in Procs, HandoffWakes(p) PROVE SlotInv'
  BY <1>i, <1>3, SlotHandoff, Zenon
<1>4 ASSUME NEW p \in Procs, Receive(p) \/ TryReceive(p) PROVE SlotInv'
  <2>1 pc[p] # "handoff" BY <1>4 DEF Receive, TryReceive
  <2> QED BY <1>i, <1>t, <1>4, <2>1, SlotReceive, Zenon DEF Receive, TryReceive
<1>5 ASSUME NEW p \in Procs, ReceiveWakes(p) PROVE SlotInv'
  <2>1 /\ UNCHANGED <<closed, sent, waiters, item, sequence, interrupt, issued, fate>>
       /\ pc[p] # "handoff"
    BY <1>5, Zenon DEF ReceiveWakes
  <2>2 CASE ReceiveInterrupted(p)
    <3>1 /\ UNCHANGED <<queue, taken>> /\ pc' = [pc EXCEPT ![p] = "idle"]
      BY <2>2, Zenon DEF ReceiveInterrupted, Return
    <3> QED BY <1>i, <1>t, <2>1, <3>1, SlotFrame, Zenon
  <2>3 CASE ReceiveRetests(p)
    <3>1 receivers_waiting - 1 \in Int BY <1>t
    <3>2 \/ ReceiveParks(p, receivers_waiting - 1)
         \/ ReceiveLocked(p, receivers_waiting - 1)
      BY <2>3, Zenon DEF ReceiveRetests
    <3> QED BY <1>i, <2>1, <3>1, <3>2, SlotReceive, Zenon
  <2> QED BY <1>5, <2>2, <2>3, Zenon DEF ReceiveWakes
<1>6 ASSUME NEW p \in Procs, Close(p) PROVE SlotInv'
  <2>1 /\ UNCHANGED <<queue, sent, taken, item, sequence>>
       /\ pc' = [pc EXCEPT ![p] = "idle"]
    BY <1>6, Zenon DEF Close, Return
  <2> QED BY <1>i, <1>t, <2>1, SlotFrame, Zenon
<1>7 ASSUME NEW p \in Procs, NEW kind \in {"readable", "writable"},
            WaitRegisters(p, kind)
     PROVE  SlotInv'
  <2>1 /\ UNCHANGED <<queue, sent, taken, item, sequence>>
       /\ pc' = [pc EXCEPT ![p] = "unlink"] \/ pc' = [pc EXCEPT ![p] = kind]
    BY <1>7, Zenon DEF WaitRegisters, others, chan
  <2> QED BY <1>i, <1>t, <2>1, SlotFrame, Zenon
<1>8 ASSUME NEW p \in Procs, WaitPollReturns(p) \/ WaitGivesUp(p) \/ WaitUnlinks(p)
     PROVE  SlotInv'
  <2>1 /\ UNCHANGED <<queue, sent, taken, item, sequence>>
       /\ pc' = [pc EXCEPT ![p] = "unlink"] \/ pc' = [pc EXCEPT ![p] = "idle"]
    BY <1>8, Zenon DEF WaitPollReturns, WaitGivesUp, WaitUnlinks, others, chan
  <2> QED BY <1>i, <1>t, <2>1, SlotFrame, Zenon
<1>9 ASSUME NEW p \in Procs, Interrupt(p) \/ TimesOut(p) \/ SpuriousWakeup(p)
     PROVE  SlotInv'
  <2>1 UNCHANGED <<queue, sent, taken, item, sequence, pc>>
    BY <1>9, Zenon DEF Interrupt, TimesOut, SpuriousWakeup, chan, waitVars
  <2> QED BY <1>i, <2>1, SlotFrame, Zenon
<1> QED BY <1>0, <1>1, <1>2, <1>3, <1>4, <1>5, <1>6, <1>7, <1>8, <1>9, Zenon DEF Next

\* The withdrawal of a rendezvous sender (count=0 in channel_send_helper) takes
\* back its own value: as long as it is not taken, the slot holds that value.
THEOREM HandoffSafe == Spec => []HandoffOwnsSlot
<1>2 Init => SlotInv
  <2> SUFFICES ASSUME Init PROVE SlotInv OBVIOUS
  <2>1 Len(queue) = 0 /\ sent = 0 /\ taken = 0 BY DEF Init
  <2>2 \A p \in Procs : pc[p] # "handoff" BY DEF Init
  <2>3 Len(queue) <= Slots BY <2>1, CapacityAssumption DEF Slots
  <2> QED BY <2>1, <2>2, <2>3 DEF SlotInv, Pending
<1>3 SlotInv => HandoffOwnsSlot BY DEF SlotInv, HandoffOwnsSlot, Pending
<1> QED BY <1>2, <1>3, InitType, TypeStep, SlotStep, PTL DEF Spec

-----------------------------------------------------------------------------
(***************************************************************************)
(* The steps by what they do to the channel, whichever call they end or    *)
(* continue.                                                               *)
(***************************************************************************)

\* Thread p is in channel_send_helper with item i, just called or just woken.
Sends(p, i) ==
  /\ \/ pc[p] = "idle" /\ i = issued + 1 /\ issued' = i
     \/ /\ pc[p] = "not_full" /\ i = item[p] /\ UNCHANGED issued
        /\ sleep[p] \in {"signalled", "timedout"}
  /\ UNCHANGED <<waiters, interrupt>>

\* A signalled sender leaves an open channel that has room only when the copy
\* of its value failed.
SendRefused(p, i) ==
  /\ Sends(p, i) /\ SendFails(p, i)
  /\ \/ pc[p] = "idle" \/ sleep[p] = "timedout" \/ closed \/ Len(queue) = Slots
     \/ "send" \in CopyFaults

SendParks(p, i) ==
  /\ Sends(p, i) /\ ~closed /\ Len(queue) = Slots
  /\ Sleep(p, "not_full", {})
  /\ item' = [item EXCEPT ![p] = i]
  /\ UNCHANGED <<chan, pipe, sequence, fate, delivered>>

SendEnds(p, i) ==
  \/ SendRefused(p, i)
  \/ SendParks(p, i)
  \/ Sends(p, i) /\ \E try \in BOOLEAN : SendEnqueues(p, i, try)
  \/ Sends(p, i) /\ SendOffers(p, i)
  \/ Sends(p, i) /\ SendOffersInterrupted(p, i)

\* Thread p is in channel_receive_helper, and rw other receivers are parked.
Receives(p, rw) ==
  /\ \/ pc[p] = "idle" /\ rw = receivers_waiting
     \/ /\ pc[p] = "not_empty" /\ rw = receivers_waiting - 1
        /\ sleep[p] \in {"signalled", "timedout"}
  /\ UNCHANGED <<closed, sent, waiters, item, sequence, interrupt, issued, fate>>

\* A signalled receiver leaves a channel with a value only when the copy failed.
ReceiveLeaves(p, rw) ==
  /\ Receives(p, rw)
  /\ \/ pc[p] = "idle" \/ sleep[p] = "timedout" \/ queue = << >> \/ "receive" \in CopyFaults
  /\ Return(p, {})
  /\ receivers_waiting' = rw
  /\ UNCHANGED pipe \/ notify_channel_waiters
  /\ UNCHANGED <<queue, taken, delivered>>

ReceiveSleeps(p, rw) ==
  /\ Receives(p, rw)
  /\ queue = << >> /\ ~closed
  /\ Sleep(p, "not_empty", {})
  /\ receivers_waiting' = rw + 1
  /\ IF Rendezvous THEN notify_channel_waiters ELSE UNCHANGED pipe
  /\ UNCHANGED <<queue, taken, delivered>>

ReceiveEnds(p, rw) ==
  \/ ReceiveLeaves(p, rw)
  \/ ReceiveSleeps(p, rw)
  \/ Receives(p, rw) /\ ReceiveTakes(p, rw)

\* The steps of a readiness wait and of the environment.
WaitStep(p) ==
  \/ WaitRegisters(p, "readable") \/ WaitRegisters(p, "writable")
  \/ WaitPollReturns(p) \/ WaitGivesUp(p) \/ WaitUnlinks(p)

OutsideStep(p) == Interrupt(p) \/ TimesOut(p) \/ SpuriousWakeup(p)

StepOf(p) ==
  \/ \E i \in Items : SendEnds(p, i)
  \/ HandoffWakes(p)
  \/ \E rw \in Int : ReceiveEnds(p, rw)
  \/ Close(p)
  \/ WaitStep(p)
  \/ OutsideStep(p)

\* A call of channel_send_helper, or a wakeup in it, ends in one of these ways.
LEMMA SendKinds ==
  ASSUME NEW p, NEW i, NEW try \in BOOLEAN, Sends(p, i), SendLocked(p, i, try),
         try => pc[p] = "idle"
  PROVE  SendEnds(p, i)
<1>1 CASE SendBlocks(p, i, try)
  <2>1 CASE try \/ interrupt[p]
    <3>1 SendFails(p, i) /\ (Len(queue) = Slots \/ try)
      BY <1>1, <2>1, Zenon DEF SendBlocks, MustWait
    <3> QED BY <3>1, Zenon DEF SendEnds, SendRefused
  <2>2 CASE ~(try \/ interrupt[p])
    BY <1>1, <2>2, Zenon DEF SendBlocks, MustWait, SendEnds, SendParks
  <2> QED BY <2>1, <2>2, Zenon
<1>2 CASE SendClosed(p, i)
  BY <1>2, Zenon DEF SendClosed, SendEnds, SendRefused
<1>3 CASE SendCopyFails(p, i, try)
  BY <1>3, Zenon DEF SendCopyFails, SendEnds, SendRefused
<1>4 CASE SendEnqueues(p, i, try)
  BY <1>4, Zenon DEF SendEnds
<1>5 CASE SendOffers(p, i) \/ SendOffersInterrupted(p, i)
  BY <1>5, Zenon DEF SendEnds
<1> QED BY <1>1, <1>2, <1>3, <1>4, <1>5, Zenon DEF SendLocked

\* So does one of channel_receive_helper.
LEMMA ReceiveKinds ==
  ASSUME NEW p, NEW rw, Receives(p, rw),
         \/ ReceiveWouldBlock(p, rw)
         \/ ReceiveParks(p, rw)
         \/ ReceiveLocked(p, rw)
  PROVE  ReceiveEnds(p, rw)
<1>1 CASE ReceiveWouldBlock(p, rw) \/ ReceiveDrained(p, rw)
  BY <1>1, Zenon DEF ReceiveWouldBlock, ReceiveDrained, ReceiveEnds, ReceiveLeaves
<1>2 CASE ReceiveParks(p, rw)
  <2>1 CASE interrupt[p]
    BY <1>2, <2>1, Zenon DEF ReceiveParks, ReceiveEnds, ReceiveLeaves
  <2>2 CASE ~interrupt[p]
    BY <1>2, <2>2, Zenon DEF ReceiveParks, ReceiveEnds, ReceiveSleeps
  <2> QED BY <2>1, <2>2, Zenon
<1>3 CASE ReceiveCopyFails(p, rw)
  BY <1>3, Zenon DEF ReceiveCopyFails, ReceiveEnds, ReceiveLeaves
<1>4 CASE ReceiveTakes(p, rw)
  BY <1>4, Zenon DEF ReceiveEnds
<1> QED BY <1>1, <1>2, <1>3, <1>4, Zenon DEF ReceiveLocked

\* Every step of the channel is a step of one of these kinds.
LEMMA StepKinds ==
  IndType /\ [Next]_vars => UNCHANGED vars \/ \E p \in Procs : StepOf(p)
<1> SUFFICES ASSUME IndType, NEW p \in Procs,
                    \/ Send(p) \/ TrySend(p) \/ SendWakes(p)
                    \/ Receive(p) \/ TryReceive(p) \/ ReceiveWakes(p)
             PROVE  StepOf(p)
  BY Zenon DEF Next, StepOf, WaitStep, OutsideStep
<1>t /\ issued \in 0..MaxItems /\ receivers_waiting \in Int
     /\ pc[p] = "not_full" => item[p] \in Items
  BY Zenon DEF IndType, TypeOK, SendersHoldItems
<1>1 CASE Send(p) \/ TrySend(p)
  <2>1 /\ Sends(p, issued + 1) /\ pc[p] = "idle" /\ issued < MaxItems
       /\ \E try \in BOOLEAN : SendLocked(p, issued + 1, try)
    BY <1>1, Zenon DEF Send, TrySend, Sends
  <2>2 issued + 1 \in Items BY <1>t, <2>1, ItemsAssumption DEF Items
  <2> QED BY <2>1, <2>2, SendKinds, Zenon DEF StepOf
<1>2 CASE SendWakes(p)
  <2>1 Sends(p, item[p]) /\ item[p] \in Items
    BY <1>2, <1>t, Zenon DEF SendWakes, Sends
  <2>2 CASE SendLocked(p, item[p], FALSE)
    BY <2>1, <2>2, SendKinds, Zenon DEF StepOf
  <2>3 CASE sleep[p] = "timedout" /\ SendFails(p, item[p])
    BY <2>1, <2>3, Zenon DEF StepOf, SendEnds, SendRefused
  <2> QED BY <1>2, <2>2, <2>3, Zenon DEF SendWakes
<1>3 CASE Receive(p) \/ TryReceive(p)
  <2>1 Receives(p, receivers_waiting)
    BY <1>3, Zenon DEF Receive, TryReceive, Receives
  <2> QED BY <1>3, <1>t, <2>1, ReceiveKinds, Zenon DEF Receive, TryReceive, StepOf
<1>4 CASE ReceiveWakes(p)
  <2>1 receivers_waiting - 1 \in Int BY <1>t
  <2>2 Receives(p, receivers_waiting - 1)
    BY <1>4, Zenon DEF ReceiveWakes, ReceiveInterrupted, ReceiveRetests, Receives
  <2>3 CASE ReceiveInterrupted(p)
    BY <2>1, <2>2, <2>3, Zenon DEF ReceiveInterrupted, StepOf, ReceiveEnds, ReceiveLeaves
  <2>4 CASE ReceiveRetests(p)
    BY <2>1, <2>2, <2>4, ReceiveKinds, Zenon DEF ReceiveRetests, StepOf
  <2> QED BY <1>4, <2>3, <2>4, Zenon DEF ReceiveWakes
<1> QED BY <1>1, <1>2, <1>3, <1>4, Zenon

-----------------------------------------------------------------------------
(***************************************************************************)
(* Close                                                                   *)
(***************************************************************************)

\* Close wakes the sleepers on both condition variables, and a thread goes to
\* sleep only on an open channel.
LEMMA ClosedStep == IndType /\ ClosedWakesAll /\ [Next]_vars => ClosedWakesAll'
<1> SUFFICES ASSUME IndType, ClosedWakesAll, [Next]_vars, closed' PROVE ClosedWakesAll'
  BY Zenon DEF ClosedWakesAll
<1>s SUFFICES ASSUME NEW q \in Procs, sleep'[q] = "asleep",
                     pc'[q] \in {"not_full", "handoff", "not_empty"}
              PROVE  FALSE
  BY Zenon DEF ClosedWakesAll, NotFullSleepers, NotEmptySleepers
<1>t /\ pc \in [Procs -> Waits \cup {"idle"}]
     /\ sleep \in [Procs -> {"awake", "asleep", "signalled", "timedout"}]
  BY Zenon DEF IndType, TypeOK
<1>c closed => ~(sleep[q] = "asleep" /\ pc[q] \in {"not_full", "handoff", "not_empty"})
  BY Zenon DEF ClosedWakesAll, NotFullSleepers, NotEmptySleepers
<1>r ASSUME NEW p \in Procs, NEW w, Return(p, w), closed PROVE FALSE
  BY <1>s, <1>t, <1>c, <1>r, Zenon DEF Return
<1>0 CASE UNCHANGED vars BY <1>0, <1>s, <1>c, Zenon DEF vars
<1>1 ASSUME NEW p \in Procs, NEW i \in Items, SendEnds(p, i) PROVE FALSE
  <2>1 closed /\ SendRefused(p, i)
    BY <1>1, Zenon DEF SendEnds, SendParks, SendEnqueues, SendOffers, SendOffersInterrupted,
                SendRefused, SendFails, chan
  <2> QED BY <1>r, <2>1, Zenon DEF SendRefused, SendFails
<1>2 ASSUME NEW p \in Procs, HandoffWakes(p) PROVE FALSE
  <2>1 closed /\ (HandoffTaken(p) \/ HandoffWithdraws(p))
    BY <1>2, Zenon DEF HandoffWakes, HandoffWaitsOn
  <2> QED BY <1>r, <2>1, Zenon DEF HandoffTaken, HandoffWithdraws
<1>3 ASSUME NEW p \in Procs, NEW rw \in Int, ReceiveEnds(p, rw) PROVE FALSE
  <2>1 closed /\ (ReceiveLeaves(p, rw) \/ ReceiveTakes(p, rw))
    BY <1>3, Zenon DEF ReceiveEnds, ReceiveLeaves, ReceiveSleeps, Receives
  <2> QED BY <1>r, <2>1, Zenon DEF ReceiveLeaves, ReceiveTakes
<1>4 ASSUME NEW p \in Procs, Close(p) PROVE FALSE
  BY <1>s, <1>t, <1>4, Zenon DEF Close, Return, NotFullSleepers, NotEmptySleepers
<1>5 ASSUME NEW p \in Procs, WaitStep(p) PROVE FALSE
  <2>1 /\ UNCHANGED <<closed, sleep>> 
       /\ \E k \in {"idle", "readable", "writable", "unlink"} : pc' = [pc EXCEPT ![p] = k]
    BY <1>5, Zenon DEF WaitStep, WaitRegisters, WaitPollReturns, WaitGivesUp, WaitUnlinks,
                others, chan
  <2> QED BY <1>s, <1>t, <1>c, <2>1, Zenon
<1>6 ASSUME NEW p \in Procs, OutsideStep(p) PROVE FALSE
  <2>1 /\ UNCHANGED <<closed, pc>>
       /\ sleep'[q] = "asleep" => sleep[q] = "asleep"
    BY <1>6, <1>t, Zenon DEF OutsideStep, Interrupt, TimesOut, SpuriousWakeup, chan, waitVars
  <2> QED BY <1>s, <1>c, <2>1, Zenon
<1> QED BY <1>0, <1>1, <1>2, <1>3, <1>4, <1>5, <1>6, StepKinds, Zenon DEF StepOf

\* No thread sleeps in send or receive on a closed channel.
THEOREM CloseWakesEveryone == Spec => []ClosedWakesAll
<1>1 Init => ClosedWakesAll BY Zenon DEF Init, ClosedWakesAll
<1> QED BY <1>1, InitType, TypeStep, ClosedStep, PTL DEF Spec

-----------------------------------------------------------------------------
(* Readiness *)

\* A thread that polls is registered.  This is what makes the wakeup invariant
\* inductive: notify_channel_waiters reaches the registered threads only.
PollersRegistered ==
  \A p \in Procs : pc[p] \in {"readable", "writable"} => p \in waiters

\* A step that writes every registered pipe, and leaves the registrations and
\* the polls alone, keeps the invariant whatever it does to the channel.
LEMMA ReadyNotified ==
  ASSUME PollersRegistered, notify_channel_waiters, UNCHANGED waiters,
         \A q \in Procs : pc'[q] \in {"readable", "writable"} => pc'[q] = pc[q]
  PROVE  PollersRegistered' /\ ReadinessNotMissed'
  BY Zenon DEF PollersRegistered, ReadinessNotMissed, notify_channel_waiters

\* A step that makes no channel ready does not have to.
LEMMA ReadyFrame ==
  ASSUME PollersRegistered, ReadinessNotMissed, UNCHANGED <<queue, closed, waiters>>,
         receivers_waiting' > 0 => receivers_waiting > 0,
         pipe \subseteq pipe',
         \A q \in Procs : pc'[q] \in {"readable", "writable"} => pc'[q] = pc[q]
  PROVE  PollersRegistered' /\ ReadinessNotMissed'
<1>1 PollersRegistered' BY Zenon DEF PollersRegistered
<1>2 ASSUME NEW q \in Procs, pc'[q] \in {"readable", "writable"},
            Ready(pc'[q], queue', closed', receivers_waiting')
     PROVE  q \in pipe'
  <2>1 pc'[q] = pc[q] /\ Ready(pc[q], queue, closed, receivers_waiting)
    BY <1>2, Zenon DEF Ready, Slots, Rendezvous
  <2> QED BY <1>2, <2>1, Zenon DEF ReadinessNotMissed
<1> QED BY <1>1, <1>2, Zenon DEF ReadinessNotMissed

\* Every step that makes the channel ready writes the registered pipes.
LEMMA ReadyStep ==
  IndType /\ PollersRegistered /\ ReadinessNotMissed /\ [Next]_vars
    => PollersRegistered' /\ ReadinessNotMissed'
<1> SUFFICES ASSUME IndType, PollersRegistered, ReadinessNotMissed, [Next]_vars
             PROVE  PollersRegistered' /\ ReadinessNotMissed'
  OBVIOUS
<1>t pc \in [Procs -> Waits \cup {"idle"}] /\ receivers_waiting \in Int
  BY Zenon DEF IndType, TypeOK
<1>p ASSUME NEW p \in Procs, NEW k \in {"idle", "not_full", "handoff", "not_empty", "unlink"},
            pc' = [pc EXCEPT ![p] = k]
     PROVE  \A q \in Procs : pc'[q] \in {"readable", "writable"} => pc'[q] = pc[q]
  BY <1>t, <1>p
<1>0 CASE UNCHANGED vars BY <1>0, ReadyFrame, Zenon DEF vars
<1>1 ASSUME NEW p \in Procs, NEW i \in Items, SendEnds(p, i)
     PROVE  PollersRegistered' /\ ReadinessNotMissed'
  <2>1 /\ UNCHANGED waiters
       /\ \E k \in {"idle", "not_full", "handoff"} : pc' = [pc EXCEPT ![p] = k]
    BY <1>1, Zenon DEF SendEnds, Sends, SendRefused, SendParks, SendFails, SendEnqueues,
                SendOffers, SendOffersInterrupted, Return, Sleep
  <2>2 notify_channel_waiters \/ UNCHANGED <<queue, closed, receivers_waiting, pipe>>
    BY <1>1, Zenon DEF SendEnds, SendRefused, SendParks, SendFails, SendEnqueues, SendOffers,
                SendOffersInterrupted, chan
  <2> QED BY <1>p, <2>1, <2>2, ReadyFrame, ReadyNotified, Zenon
<1>2 ASSUME NEW p \in Procs, HandoffWakes(p)
     PROVE  PollersRegistered' /\ ReadinessNotMissed'
  <2>1 /\ UNCHANGED <<waiters, closed, receivers_waiting>>
       /\ \E k \in {"idle", "handoff"} : pc' = [pc EXCEPT ![p] = k]
       /\ notify_channel_waiters \/ UNCHANGED <<queue, pipe>>
    BY <1>2, Zenon DEF HandoffWakes, HandoffTaken, HandoffWithdraws, HandoffWaitsOn, Return, Sleep
  <2> QED BY <1>p, <2>1, ReadyFrame, ReadyNotified, Zenon
<1>3 ASSUME NEW p \in Procs, NEW rw \in Int, ReceiveEnds(p, rw)
     PROVE  PollersRegistered' /\ ReadinessNotMissed'
  <2>1 UNCHANGED <<waiters, closed>> /\ (rw = receivers_waiting \/ rw = receivers_waiting - 1)
    BY <1>3, Zenon DEF ReceiveEnds, ReceiveLeaves, ReceiveSleeps, Receives
  <2>2 \E k \in {"idle", "not_empty"} : pc' = [pc EXCEPT ![p] = k]
    BY <1>3, Zenon DEF ReceiveEnds, ReceiveLeaves, ReceiveSleeps, ReceiveTakes, Return, Sleep
  <2>3 CASE notify_channel_waiters BY <1>p, <2>1, <2>2, <2>3, ReadyNotified, Zenon
  <2>4 CASE ReceiveLeaves(p, rw) /\ UNCHANGED pipe
    <3>1 receivers_waiting' > 0 => receivers_waiting > 0
      BY <1>t, <2>1, <2>4 DEF ReceiveLeaves
    <3> QED BY <1>p, <2>1, <2>2, <2>4, <3>1, ReadyFrame, Zenon DEF ReceiveLeaves
  <2>5 CASE ReceiveSleeps(p, rw) /\ ~Rendezvous
    <3>1 UNCHANGED <<queue, pipe, waiters, closed>>
      BY <2>1, <2>5, Zenon DEF ReceiveSleeps
    <3>2 \A q \in Procs : pc'[q] \in {"readable", "writable"} => pc'[q] = pc[q]
      BY <1>p, <2>2, Zenon
    <3>3 \A kind : Ready(kind, queue', closed', receivers_waiting')
                     => Ready(kind, queue, closed, receivers_waiting)
      BY <2>5, <3>1, Zenon DEF Ready, Slots, Rendezvous
    <3> QED BY <3>1, <3>2, <3>3, Zenon DEF PollersRegistered, ReadinessNotMissed
  <2> QED
    BY <1>3, <2>3, <2>4, <2>5, Zenon DEF ReceiveEnds, ReceiveLeaves, ReceiveSleeps, ReceiveTakes
<1>4 ASSUME NEW p \in Procs, Close(p) PROVE PollersRegistered' /\ ReadinessNotMissed'
  <2>1 notify_channel_waiters /\ UNCHANGED waiters /\ pc' = [pc EXCEPT ![p] = "idle"]
    BY <1>4, Zenon DEF Close, Return
  <2> QED BY <1>p, <2>1, ReadyNotified, Zenon
<1>5 ASSUME NEW p \in Procs, WaitStep(p) PROVE PollersRegistered' /\ ReadinessNotMissed'
  <2>0 UNCHANGED <<queue, closed, receivers_waiting>>
    BY <1>5, Zenon DEF WaitStep, WaitRegisters, WaitPollReturns, WaitGivesUp, WaitUnlinks,
                others, chan
  <2>1 ASSUME NEW kind \in {"readable", "writable"}, WaitRegisters(p, kind)
       PROVE  PollersRegistered' /\ ReadinessNotMissed'
    <3>1 /\ waiters' = waiters \cup {p} /\ UNCHANGED pipe
         /\ pc' = [pc EXCEPT ![p] =
              IF Ready(kind, queue, closed, receivers_waiting) THEN "unlink" ELSE kind]
      BY <2>1, Zenon DEF WaitRegisters
    <3>2 /\ \A q \in Procs \ {p} : pc'[q] = pc[q]
         /\ pc'[p] \in {"readable", "writable"} =>
              pc'[p] = kind /\ ~Ready(kind, queue, closed, receivers_waiting)
      BY <1>t, <3>1, Zenon
    <3>3 PollersRegistered' BY <3>1, <3>2, Zenon DEF PollersRegistered
    <3>4 ASSUME NEW q \in Procs, pc'[q] \in {"readable", "writable"},
                Ready(pc'[q], queue', closed', receivers_waiting')
         PROVE  q \in pipe'
      <4>1 Ready(pc'[q], queue, closed, receivers_waiting)
        BY <2>0, <3>4, Zenon DEF Ready, Slots, Rendezvous
      <4> QED BY <3>1, <3>2, <3>4, <4>1, Zenon DEF ReadinessNotMissed
    <3> QED BY <3>3, <3>4, Zenon DEF ReadinessNotMissed
  <2>2 CASE WaitPollReturns(p) \/ WaitGivesUp(p)
    <3>1 UNCHANGED <<waiters, pipe>> /\ pc' = [pc EXCEPT ![p] = "unlink"]
      BY <2>2, Zenon DEF WaitPollReturns, WaitGivesUp
    <3> QED BY <1>p, <2>0, <3>1, ReadyFrame, Zenon
  <2>3 CASE WaitUnlinks(p)
    <3>1 /\ waiters' = waiters \ {p} /\ pipe' = pipe \ {p}
         /\ \A q \in Procs : pc'[q] = IF q = p THEN "idle" ELSE pc[q]
      BY <1>t, <2>3, Zenon DEF WaitUnlinks
    <3>2 PollersRegistered' BY <3>1 DEF PollersRegistered
    <3>3 ASSUME NEW q \in Procs, pc'[q] \in {"readable", "writable"},
                Ready(pc'[q], queue', closed', receivers_waiting')
         PROVE  q \in pipe'
      <4>1 q # p /\ pc'[q] = pc[q] BY <3>1, <3>3
      <4>2 Ready(pc[q], queue, closed, receivers_waiting)
        BY <2>0, <3>3, <4>1, Zenon DEF Ready, Slots, Rendezvous
      <4> QED BY <3>1, <3>3, <4>1, <4>2, Zenon DEF ReadinessNotMissed
    <3> QED BY <3>2, <3>3, Zenon DEF ReadinessNotMissed
  <2> QED BY <1>5, <2>1, <2>2, <2>3, Zenon DEF WaitStep
<1>6 ASSUME NEW p \in Procs, OutsideStep(p) PROVE PollersRegistered' /\ ReadinessNotMissed'
  <2>1 UNCHANGED <<queue, closed, receivers_waiting, waiters, pipe, pc>>
    BY <1>6, Zenon DEF OutsideStep, Interrupt, TimesOut, SpuriousWakeup, chan, waitVars
  <2> QED BY <2>1, ReadyFrame, Zenon
<1> QED BY <1>0, <1>1, <1>2, <1>3, <1>4, <1>5, <1>6, StepKinds, Zenon DEF StepOf

\* A thread that polls for readiness finds a byte in its pipe whenever the
\* channel is ready: no wakeup falls between its check and its poll.
THEOREM NoReadinessMissed == Spec => []ReadinessNotMissed
<1>1 Init => PollersRegistered /\ ReadinessNotMissed
  BY DEF Init, PollersRegistered, ReadinessNotMissed
<1> QED BY <1>1, InitType, TypeStep, ReadyStep, PTL DEF Spec

-----------------------------------------------------------------------------
(***************************************************************************)
(* The values: what was delivered, what is queued, what each sender holds. *)
(***************************************************************************)

\* The sequence s lists the elements of T, each once.
Lists(s, T) ==
  /\ {s[n] : n \in DOMAIN s} = T
  /\ \A m, n \in DOMAIN s : s[m] = s[n] => m = n

\* Where Append puts its value.
LEMMA AppendIndices ==
  ASSUME NEW S, NEW s \in Seq(S), NEW e \in S
  PROVE  /\ Len(s) \in Nat /\ DOMAIN s = 1..Len(s)
         /\ DOMAIN Append(s, e) = 1..(Len(s) + 1)
         /\ \A n \in 1..Len(s) : Append(s, e)[n] = s[n]
         /\ Append(s, e)[Len(s) + 1] = e
  OBVIOUS

\* A new value at the end of a list of the elements of T.
LEMMA ListsAppend ==
  ASSUME NEW S, NEW s \in Seq(S), NEW T, Lists(s, T), NEW e \in S, e \notin T
  PROVE  Lists(Append(s, e), T \cup {e})
<1> DEFINE r == Append(s, e)
<1>1 /\ Len(s) \in Nat /\ DOMAIN s = 1..Len(s) /\ DOMAIN r = 1..(Len(s) + 1)
     /\ \A n \in 1..Len(s) : r[n] = s[n]
     /\ r[Len(s) + 1] = e
  BY AppendIndices
<1> HIDE DEF r
<1>2 \A n \in DOMAIN r : n \in DOMAIN s \/ n = Len(s) + 1 BY <1>1
<1>3 DOMAIN s \subseteq DOMAIN r /\ Len(s) + 1 \in DOMAIN r BY <1>1
<1>4 \A n \in DOMAIN s : r[n] = s[n] /\ s[n] \in T BY <1>1, Zenon DEF Lists
<1>5 {r[n] : n \in DOMAIN r} = T \cup {e}
  <2>1 \A n \in DOMAIN r : r[n] \in T \cup {e} BY <1>1, <1>2, <1>4, Zenon
  <2>2 ASSUME NEW x \in T PROVE \E n \in DOMAIN r : r[n] = x
    <3>1 PICK n \in DOMAIN s : s[n] = x BY <2>2, Zenon DEF Lists
    <3> QED BY <1>3, <1>4, <3>1, Zenon
  <2>3 \E n \in DOMAIN r : r[n] = e BY <1>1, <1>3, Zenon
  <2> QED BY <2>1, <2>2, <2>3
<1>6 \A m, n \in DOMAIN r : r[m] = r[n] => m = n
  BY <1>1, <1>2, <1>4, Zenon DEF Lists
<1> QED BY <1>5, <1>6, Zenon DEF Lists, r

\* A value taken back from the end of the list.
LEMMA ListsUnappend ==
  ASSUME NEW S, NEW s \in Seq(S), NEW e \in S, NEW T, Lists(Append(s, e), T)
  PROVE  Lists(s, T \ {e})
<1> DEFINE r == Append(s, e)
<1>1 /\ Len(s) \in Nat /\ DOMAIN s = 1..Len(s) /\ DOMAIN r = 1..(Len(s) + 1)
     /\ \A n \in 1..Len(s) : r[n] = s[n]
     /\ r[Len(s) + 1] = e
  BY AppendIndices
<1>l Lists(r, T) OBVIOUS
<1> HIDE DEF r
<1>2 \A n \in DOMAIN r : n \in DOMAIN s \/ n = Len(s) + 1 BY <1>1
<1>3 DOMAIN s \subseteq DOMAIN r /\ Len(s) + 1 \in DOMAIN r /\ Len(s) + 1 \notin DOMAIN s
  BY <1>1
<1>4 \A n \in DOMAIN s : r[n] = s[n] BY <1>1, Zenon
<1>5 \A m, n \in DOMAIN s : s[m] = s[n] => m = n
  BY <1>3, <1>4, <1>l, Zenon DEF Lists
<1>6 \A n \in DOMAIN s : s[n] # e /\ s[n] \in T
  BY <1>1, <1>3, <1>4, <1>l, Zenon DEF Lists
<1>7 ASSUME NEW x \in T, x # e PROVE \E n \in DOMAIN s : x = s[n]
  <2>1 PICK n \in DOMAIN r : r[n] = x BY <1>7, <1>l, Zenon DEF Lists
  <2> QED BY <1>1, <1>2, <1>4, <1>7, <2>1, Zenon
<1>8 {s[n] : n \in DOMAIN s} = T \ {e}
  BY <1>6, <1>7, Zenon
<1> QED BY <1>5, <1>8, Zenon DEF Lists
\* Queueing and taking a value, as seen in delivered \o queue.
LEMMA ConcatFacts ==
  ASSUME NEW S, NEW s \in Seq(S), NEW t \in Seq(S)
  PROVE  /\ s \o t \in Seq(S) /\ s \o << >> = s
         /\ \A e \in S : s \o Append(t, e) = Append(s \o t, e) /\ s \o <<e>> = Append(s, e)
         /\ t # << >> => Append(s, Head(t)) \o Tail(t) = s \o t
<1>1 s \o t \in Seq(S) /\ s \o << >> = s OBVIOUS
<1>2 ASSUME NEW e \in S PROVE s \o Append(t, e) = Append(s \o t, e) OBVIOUS
<1>3 ASSUME NEW e \in S PROVE s \o <<e>> = Append(s, e) OBVIOUS
<1>4 ASSUME t # << >> PROVE Append(s, Head(t)) \o Tail(t) = s \o t BY <1>4
<1> QED BY <1>1, <1>2, <1>3, <1>4, Zenon

\* The items of the send calls that succeeded or still offer their value.
Out == {i \in Items : fate[i] \in {"offered", "accepted"}}

Sending(p) == pc[p] \in {"not_full", "handoff"}

\* The item of a sender that waits for room was never queued; the one of a
\* sender in the handoff is offered, and delivered once its number was taken.
Holds(p) ==
  /\ Sending(p) => item[p] <= issued
  /\ pc[p] = "not_full" => fate[item[p]] = "fresh"
  /\ pc[p] = "handoff" =>
       /\ fate[item[p]] = "offered"
       /\ ~Pending(p) => \E n \in DOMAIN delivered : delivered[n] = item[p]

\* No two senders hold the same item, and the next call gets an unused one.
Books ==
  /\ \A i \in Items : i > issued => fate[i] = "fresh"
  /\ \A p \in Procs : Holds(p)
  /\ \A p, q \in Procs : p # q /\ Sending(p) /\ Sending(q) => item[p] # item[q]
  /\ Lists(delivered \o queue, Out)

\* A step that touches neither the values nor a sender.
LEMMA BooksFrame ==
  ASSUME Books, UNCHANGED <<queue, delivered, fate, issued, taken>>,
         \A q \in Procs : Sending(q)' =>
           pc'[q] = pc[q] /\ item'[q] = item[q] /\ sequence'[q] = sequence[q]
  PROVE  Books'
<1>1 \A q \in Procs : Sending(q)' => Sending(q) /\ item'[q] = item[q]
  BY Zenon DEF Sending
<1>2 ASSUME NEW q \in Procs PROVE Holds(q)'
  <2>1 CASE Sending(q)'
    <3>1 Holds(q) /\ Sending(q) /\ pc'[q] = pc[q] BY <1>1, <2>1, Zenon DEF Books
    <3>2 Pending(q)' <=> Pending(q) BY <2>1, Zenon DEF Pending
    <3> QED BY <1>1, <2>1, <3>1, <3>2, Zenon DEF Holds
  <2>2 CASE ~Sending(q)' BY <2>2, Zenon DEF Holds, Sending
  <2> QED BY <2>1, <2>2, Zenon
<1>3 Out' = Out BY Zenon DEF Out
<1> QED BY <1>1, <1>2, <1>3, Zenon DEF Books

\* The item of a send call is unused, and no other sender holds it.
LEMMA FreshItem ==
  ASSUME IndType, Books, NEW p \in Procs, NEW i \in Items, Sends(p, i)
  PROVE  /\ fate[i] = "fresh" /\ i <= issued' /\ issued <= issued'
         /\ \A q \in Procs \ {p} : Sending(q) => item[q] # i
<1>t issued \in Nat /\ \A q \in Procs : Sending(q) => item[q] \in Nat
  BY ItemsAssumption DEF IndType, TypeOK, SendersHoldItems, Sending, Items
<1>1 CASE pc[p] = "idle" /\ i = issued + 1 /\ issued' = i
  <2>1 i > issued BY <1>1, <1>t
  <2>2 \A n \in Nat : n <= issued => n # i BY <1>1, <1>t
  <2>3 i <= issued' /\ issued <= issued' BY <1>1, <1>t
  <2> QED BY <1>t, <2>1, <2>2, <2>3, Zenon DEF Books, Holds
<1>2 CASE pc[p] = "not_full" /\ i = item[p] /\ UNCHANGED issued
  <2>1 issued <= issued BY <1>t
  <2> QED BY <1>2, <2>1, Zenon DEF Books, Holds, Sending
<1> QED BY <1>1, <1>2, Zenon DEF Sends

\* What a sender's step leaves to the other senders: it may change the fate of
\* its own item only.
LEMMA OthersHold ==
  ASSUME IndType, IndType', Books, NEW p \in Procs, NEW i \in Items,
         \A q \in Procs \ {p} : /\ pc'[q] = pc[q] /\ item'[q] = item[q]
                                /\ sequence'[q] = sequence[q]
                                /\ Sending(q) => item[q] # i,
         \A j \in Items \ {i} : fate'[j] = fate[j],
         i <= issued', issued <= issued', UNCHANGED <<taken, delivered>>
  PROVE  /\ \A q \in Procs \ {p} : Holds(q)'
         /\ \A j \in Items : j > issued' => fate'[j] = "fresh"
         /\ \A q, r \in Procs \ {p} : q # r /\ Sending(q)' /\ Sending(r)' => item'[q] # item'[r]
<1>t /\ issued \in Nat /\ issued' \in Nat /\ Items \subseteq Nat
     /\ \A q \in Procs : Sending(q) => item[q] \in Items
  BY ItemsAssumption DEF IndType, TypeOK, SendersHoldItems, Sending, Items
<1>1 ASSUME NEW q \in Procs \ {p} PROVE Holds(q)'
  <2>1 CASE Sending(q)
    <3>1 Holds(q) /\ item[q] \in Items \ {i} BY <1>t, <2>1, Zenon DEF Books
    <3>2 item'[q] = item[q] /\ pc'[q] = pc[q] /\ fate'[item[q]] = fate[item[q]]
      BY <3>1, Zenon
    <3>3 Pending(q)' <=> Pending(q) BY Zenon DEF Pending
    <3>4 item'[q] <= issued'
      <4>1 item[q] <= issued BY <2>1, <3>1, Zenon DEF Holds
      <4>2 \A a, b, c \in Nat : a <= b /\ b <= c => a <= c OBVIOUS
      <4> QED BY <1>t, <3>1, <3>2, <4>1, <4>2, Zenon
    <3> QED BY <3>1, <3>2, <3>3, <3>4, Zenon DEF Holds
  <2>2 CASE ~Sending(q) BY <2>2, Zenon DEF Holds, Sending
  <2> QED BY <2>1, <2>2, Zenon
<1>2 ASSUME NEW j \in Items, j > issued' PROVE fate'[j] = "fresh"
  <2>1 j # i /\ j > issued BY <1>t, <1>2
  <2> QED BY <2>1, Zenon DEF Books
<1>3 ASSUME NEW q \in Procs \ {p}, NEW r \in Procs \ {p}, q # r, Sending(q)', Sending(r)'
     PROVE  item'[q] # item'[r]
  <2>1 /\ Sending(q) /\ item'[q] = item[q]
       /\ Sending(r) /\ item'[r] = item[r]
    BY <1>3, Zenon DEF Sending
  <2>2 item[q] # item[r] BY <1>3, <2>1, Zenon DEF Books
  <2> QED BY <2>1, <2>2, Zenon
<1> QED BY <1>1, <1>2, <1>3, Zenon

\* Each way in which channel_send_helper returns, sleeps or queues its value.
LEMMA BooksSend ==
  ASSUME IndType, IndType', SlotInv, Books, NEW p \in Procs, NEW i \in Items, SendEnds(p, i)
  PROVE  Books'
<1>t /\ pc \in [Procs -> Waits \cup {"idle"}] /\ item \in [Procs -> Items \cup {0}]
     /\ sequence \in [Procs -> Int] /\ sent \in Int /\ taken \in Int
     /\ fate \in [Items -> {"fresh", "offered", "accepted", "refused"}]
     /\ queue \in Seq(Items) /\ delivered \in Seq(Items)
  BY Zenon DEF IndType, TypeOK
<1>s Sends(p, i) BY Zenon DEF SendEnds, SendRefused, SendParks
<1>f /\ fate[i] = "fresh" /\ i <= issued' /\ issued <= issued'
     /\ \A q \in Procs \ {p} : Sending(q) => item[q] # i
  BY <1>s, FreshItem, Zenon
<1>n i \notin Out BY <1>f, Zenon DEF Out
<1>l Lists(delivered \o queue, Out) BY Zenon DEF Books
<1>q ASSUME NEW k \in Waits \cup {"idle"}, pc' = [pc EXCEPT ![p] = k],
            UNCHANGED <<taken, delivered>>,
            \A q \in Procs \ {p} : item'[q] = item[q] /\ sequence'[q] = sequence[q],
            \A j \in Items \ {i} : fate'[j] = fate[j],
            Lists(delivered' \o queue', Out'),
            Sending(p)' => item'[p] = i /\ Holds(p)'
     PROVE  Books'
  <2>1 \A q \in Procs \ {p} : pc'[q] = pc[q] BY <1>t, <1>q, Zenon
  <2>2 /\ \A q \in Procs \ {p} : Holds(q)'
       /\ \A j \in Items : j > issued' => fate'[j] = "fresh"
       /\ \A q, r \in Procs \ {p} : q # r /\ Sending(q)' /\ Sending(r)' => item'[q] # item'[r]
    BY <1>f, <1>q, <2>1, OthersHold, Zenon
  <2>3 Holds(p)' BY <1>q, Zenon DEF Holds, Sending
  <2>4 \A q \in Procs \ {p} : Sending(p)' /\ Sending(q)' => item'[p] # item'[q]
    BY <1>f, <1>q, <2>1, Zenon DEF Sending
  <2>5 \A q, r \in Procs : q # r /\ Sending(q)' /\ Sending(r)' => item'[q] # item'[r]
    BY <2>2, <2>4, Zenon
  <2> QED BY <1>q, <2>2, <2>3, <2>5, Zenon DEF Books
<1>1 CASE SendRefused(p, i) \/ SendOffersInterrupted(p, i)
  <2>1 /\ pc' = [pc EXCEPT ![p] = "idle"] /\ fate' = [fate EXCEPT ![i] = "refused"]
       /\ UNCHANGED <<queue, taken, delivered, item, sequence>>
    BY <1>1, Zenon DEF SendRefused, SendOffersInterrupted, SendFails, Return, chan
  <2>2 Out' = Out BY <1>t, <1>f, <2>1, Zenon DEF Out
  <2>3 ~Sending(p)' /\ \A j \in Items \ {i} : fate'[j] = fate[j]
    BY <1>t, <2>1, Zenon DEF Sending
  <2>4 Lists(delivered' \o queue', Out') BY <1>l, <2>1, <2>2, Zenon
  <2> QED BY <1>q, <2>1, <2>3, <2>4, Zenon
<1>2 CASE SendParks(p, i)
  <2>1 /\ pc' = [pc EXCEPT ![p] = "not_full"] /\ item' = [item EXCEPT ![p] = i]
       /\ UNCHANGED <<queue, taken, delivered, sequence, fate>>
    BY <1>2, Zenon DEF SendParks, Sleep, chan
  <2>2 Out' = Out BY <2>1, Zenon DEF Out
  <2>3 /\ item'[p] = i /\ pc'[p] = "not_full"
       /\ \A q \in Procs \ {p} : item'[q] = item[q]
    BY <1>t, <2>1, Zenon
  <2>4 Holds(p)' BY <1>f, <2>1, <2>3, Zenon DEF Holds
  <2>5 Lists(delivered' \o queue', Out') BY <1>l, <2>1, <2>2, Zenon
  <2>6 "not_full" \in Waits \cup {"idle"} BY Zenon DEF Waits
  <2> QED BY <1>q, <2>1, <2>3, <2>4, <2>5, <2>6, Zenon
<1>3 ASSUME queue' = Append(queue, i), UNCHANGED delivered, NEW o \in {"offered", "accepted"},
            fate' = [fate EXCEPT ![i] = o]
     PROVE  Lists(delivered' \o queue', Out') /\ \A j \in Items \ {i} : fate'[j] = fate[j]
  <2>1 Out' = Out \cup {i} BY <1>t, <1>3 DEF Out
  <2>2 delivered' \o queue' = Append(delivered \o queue, i) BY <1>t, <1>3, ConcatFacts
  <2>3 delivered \o queue \in Seq(Items) BY <1>t, ConcatFacts
  <2>4 Lists(Append(delivered \o queue, i), Out \cup {i}) BY <1>l, <1>n, <2>3, ListsAppend
  <2> QED BY <1>t, <1>3, <2>1, <2>2, <2>4, Zenon
<1>4 ASSUME NEW try \in BOOLEAN, SendEnqueues(p, i, try) PROVE Books'
  <2>1 /\ pc' = [pc EXCEPT ![p] = "idle"] /\ fate' = [fate EXCEPT ![i] = "accepted"]
       /\ queue' = Append(queue, i) /\ UNCHANGED <<taken, delivered, item, sequence>>
    BY <1>4, Zenon DEF SendEnqueues, Return
  <2>2 ~Sending(p)' BY <1>t, <2>1, Zenon DEF Sending
  <2> QED BY <1>3, <1>q, <2>1, <2>2, Zenon
<1>5 CASE SendOffers(p, i)
  <2>1 /\ pc' = [pc EXCEPT ![p] = "handoff"] /\ fate' = [fate EXCEPT ![i] = "offered"]
       /\ item' = [item EXCEPT ![p] = i] /\ sequence' = [sequence EXCEPT ![p] = sent + 1]
       /\ queue' = Append(queue, i) /\ UNCHANGED <<taken, delivered>> /\ Rendezvous
    BY <1>5, Zenon DEF SendOffers, Sleep
  <2>2 /\ pc'[p] = "handoff" /\ item'[p] = i /\ fate'[i] = "offered"
       /\ sequence'[p] = sent + 1
       /\ \A q \in Procs \ {p} : item'[q] = item[q] /\ sequence'[q] = sequence[q]
    BY <1>t, <2>1, Zenon
  <2>3 taken < sent + 1
    <3>1 sent = taken + Len(queue) /\ Len(queue) \in Nat BY <1>t, <2>1 DEF SlotInv
    <3> QED BY <1>t, <3>1
  <2>4 Pending(p)' BY <2>1, <2>2, <2>3, Zenon DEF Pending
  <2>5 Holds(p)' BY <1>f, <2>2, <2>4, Zenon DEF Holds
  <2>6 "handoff" \in Waits \cup {"idle"} BY Zenon DEF Waits
  <2> QED BY <1>3, <1>q, <2>1, <2>2, <2>5, <2>6, Zenon
<1> QED BY <1>1, <1>2, <1>4, <1>5, Zenon DEF SendEnds

\* The end of a handoff: the sender learns of the delivery, or takes its value
\* back from the slot.
LEMMA BooksHandoff ==
  ASSUME IndType, IndType', SlotInv, Books, NEW p \in Procs, HandoffWakes(p)
  PROVE  Books'
<1>t /\ pc \in [Procs -> Waits \cup {"idle"}] /\ item[p] \in Items
     /\ fate \in [Items -> {"fresh", "offered", "accepted", "refused"}]
     /\ queue \in Seq(Items) /\ delivered \in Seq(Items) /\ issued \in 0..MaxItems
  BY Zenon DEF IndType, TypeOK, SendersHoldItems, HandoffWakes
<1>0 /\ UNCHANGED <<taken, item, sequence, issued, delivered>>
     /\ pc[p] = "handoff"
  BY Zenon DEF HandoffWakes
<1>l Lists(delivered \o queue, Out) BY Zenon DEF Books
<1>h Holds(p) /\ Sending(p) /\ fate[item[p]] = "offered" BY <1>0, Zenon DEF Books, Holds, Sending
<1>i item[p] <= issued' /\ issued <= issued'
  <2>1 item[p] <= issued BY <1>h, Zenon DEF Holds
  <2>2 issued <= issued BY <1>t, ItemsAssumption
  <2> QED BY <1>0, <2>1, <2>2, Zenon
<1>q ASSUME pc' = [pc EXCEPT ![p] = "idle"], NEW o, fate' = [fate EXCEPT ![item[p]] = o],
            Lists(delivered' \o queue', Out')
     PROVE  Books'
  <2>1 /\ \A q \in Procs \ {p} : pc'[q] = pc[q] /\ (Sending(q) => item[q] # item[p])
       /\ ~Sending(p)' /\ \A j \in Items \ {item[p]} : fate'[j] = fate[j]
    BY <1>t, <1>h, <1>q, Zenon DEF Sending, Books
  <2>2 /\ \A q \in Procs \ {p} : Holds(q)'
       /\ \A j \in Items : j > issued' => fate'[j] = "fresh"
       /\ \A q, r \in Procs \ {p} : q # r /\ Sending(q)' /\ Sending(r)' => item'[q] # item'[r]
    BY <1>t, <1>0, <1>i, <2>1, OthersHold, Zenon
  <2>3 Holds(p)' BY <2>1, Zenon DEF Holds, Sending
  <2>4 \A q, r \in Procs : q # r /\ Sending(q)' /\ Sending(r)' => item'[q] # item'[r]
    BY <2>1, <2>2, Zenon
  <2> QED BY <1>q, <2>2, <2>3, <2>4, Zenon DEF Books
<1>1 CASE HandoffTaken(p)
  <2>1 /\ UNCHANGED queue /\ pc' = [pc EXCEPT ![p] = "idle"]
       /\ fate' = [fate EXCEPT ![item[p]] = "accepted"]
    BY <1>1, Zenon DEF HandoffTaken, Return
  <2>2 Out' = Out BY <1>t, <1>h, <2>1, Zenon DEF Out
  <2> QED BY <1>0, <1>l, <1>q, <2>1, <2>2, Zenon
<1>2 CASE HandoffWaitsOn(p)
  <2>1 UNCHANGED <<queue, fate>> /\ pc' = [pc EXCEPT ![p] = "handoff"]
    BY <1>2, Zenon DEF HandoffWaitsOn, Sleep
  <2>2 \A q \in Procs : pc'[q] = pc[q] BY <1>t, <1>0, <2>1, Zenon
  <2> QED BY <1>0, <2>1, <2>2, BooksFrame, Zenon
<1>3 CASE HandoffWithdraws(p)
  <2>1 /\ queue' = << >> /\ pc' = [pc EXCEPT ![p] = "idle"]
       /\ fate' = [fate EXCEPT ![item[p]] = "refused"]
       /\ taken < sequence[p]
    BY <1>3, Zenon DEF HandoffWithdraws, Return
  <2>2 queue = <<item[p]>> BY <1>0, <2>1, Zenon DEF SlotInv, Pending
  <2>3 Out' = Out \ {item[p]} BY <1>t, <2>1 DEF Out
  <2>4 delivered \o queue = Append(delivered, item[p]) /\ delivered' \o queue' = delivered
    BY <1>t, <1>0, <2>1, <2>2, ConcatFacts
  <2>5 Lists(delivered, Out \ {item[p]})
    BY <1>t, <1>l, <2>4, ListsUnappend
  <2> QED BY <1>q, <2>1, <2>3, <2>4, <2>5, Zenon
<1> QED BY <1>1, <1>2, <1>3, Zenon DEF HandoffWakes

\* A receiver moves the oldest queued value to the delivered ones; when it was
\* offered in the slot, its sender is no longer pending.
LEMMA BooksReceive ==
  ASSUME IndType, SlotInv, Books, NEW p \in Procs, NEW rw \in Int, ReceiveEnds(p, rw)
  PROVE  Books'
<1>t /\ pc \in [Procs -> Waits \cup {"idle"}] /\ taken \in Int
     /\ queue \in Seq(Items) /\ delivered \in Seq(Items)
  BY Zenon DEF IndType, TypeOK
<1>0 /\ UNCHANGED <<item, sequence, issued, fate>> /\ pc[p] \in {"idle", "not_empty"}
  BY Zenon DEF ReceiveEnds, ReceiveLeaves, ReceiveSleeps, Receives
<1>1 \E k \in {"idle", "not_empty"} : pc' = [pc EXCEPT ![p] = k]
  BY Zenon DEF ReceiveEnds, ReceiveLeaves, ReceiveSleeps, ReceiveTakes, Return, Sleep
<1>2 /\ \A q \in Procs : pc'[q] = pc[q] \/ ~Sending(q)'
     /\ \A q \in Procs : Sending(q)' => Sending(q)
  BY <1>t, <1>0, <1>1, Zenon DEF Sending
<1>3 CASE UNCHANGED <<queue, taken, delivered>>
  BY <1>0, <1>2, <1>3, BooksFrame, Zenon
<1>4 CASE ReceiveTakes(p, rw)
  <2>1 /\ queue # << >> /\ queue' = Tail(queue) /\ taken' = taken + 1
       /\ delivered' = Append(delivered, Head(queue))
    BY <1>4, Zenon DEF ReceiveTakes
  <2>2 delivered' \o queue' = delivered \o queue /\ Out' = Out
    BY <1>t, <1>0, <2>1, ConcatFacts DEF Out
  <2>3 /\ Head(queue) \in Items /\ DOMAIN delivered = 1..Len(delivered)
       /\ Len(delivered) \in Nat
    BY <1>t, <2>1
  <2>4 /\ DOMAIN delivered' = 1..(Len(delivered) + 1)
       /\ \A n \in DOMAIN delivered : delivered'[n] = delivered[n]
       /\ delivered'[Len(delivered) + 1] = Head(queue)
    BY <1>t, <2>1, <2>3, AppendIndices
  <2>5 DOMAIN delivered \subseteq DOMAIN delivered' /\ Len(delivered) + 1 \in DOMAIN delivered'
    BY <2>3, <2>4
  <2>6 ASSUME NEW q \in Procs, Sending(q)' PROVE Holds(q)'
    <3>1 Holds(q) /\ pc'[q] = pc[q] /\ Sending(q) BY <1>2, <2>6, Zenon DEF Books
    <3>2 ASSUME pc[q] = "handoff" PROVE \E n \in DOMAIN delivered' : delivered'[n] = item[q]
      <4>1 CASE Pending(q)
        <5>1 queue = <<item[q]>> BY <4>1, Zenon DEF SlotInv
        <5>2 Head(queue) = item[q] BY <5>1
        <5> QED BY <2>4, <2>5, <5>2, Zenon
      <4>2 CASE ~Pending(q)
        BY <2>4, <2>5, <3>1, <3>2, <4>2, Zenon DEF Holds
      <4> QED BY <4>1, <4>2, Zenon
    <3> QED BY <1>0, <3>1, <3>2, Zenon DEF Holds
  <2>7 \A q \in Procs : Holds(q)' BY <2>6, Zenon DEF Holds, Sending
  <2>8 \A q, r \in Procs : q # r /\ Sending(q)' /\ Sending(r)' => item'[q] # item'[r]
    BY <1>0, <1>2, Zenon DEF Books
  <2> QED BY <1>0, <2>2, <2>7, <2>8, Zenon DEF Books
<1> QED BY <1>3, <1>4, Zenon DEF ReceiveEnds, ReceiveLeaves, ReceiveSleeps

\* Every step keeps the books.
LEMMA BooksStep == IndType /\ IndType' /\ SlotInv /\ Books /\ [Next]_vars => Books'
<1> SUFFICES ASSUME IndType, IndType', SlotInv, Books, [Next]_vars PROVE Books' OBVIOUS
<1>t pc \in [Procs -> Waits \cup {"idle"}] BY Zenon DEF IndType, TypeOK
<1>0 CASE UNCHANGED vars BY <1>0, BooksFrame, Zenon DEF vars
<1>1 ASSUME NEW p \in Procs, Close(p) \/ WaitStep(p) PROVE Books'
  <2>1 /\ UNCHANGED <<queue, delivered, fate, issued, taken, item, sequence>>
       /\ \E k \in {"idle", "readable", "writable", "unlink"} : pc' = [pc EXCEPT ![p] = k]
    BY <1>1, Zenon DEF Close, Return, WaitStep, WaitRegisters, WaitPollReturns, WaitGivesUp,
                WaitUnlinks, others, chan
  <2>2 \A q \in Procs : Sending(q)' => pc'[q] = pc[q] BY <1>t, <2>1, Zenon DEF Sending
  <2> QED BY <2>1, <2>2, BooksFrame, Zenon
<1>2 ASSUME NEW p \in Procs, OutsideStep(p) PROVE Books'
  <2>1 UNCHANGED <<queue, delivered, fate, issued, taken, item, sequence, pc>>
    BY <1>2, Zenon DEF OutsideStep, Interrupt, TimesOut, SpuriousWakeup, chan, waitVars
  <2> QED BY <2>1, BooksFrame, Zenon
<1> QED
  BY <1>0, <1>1, <1>2, BooksSend, BooksHandoff, BooksReceive, StepKinds, Zenon DEF StepOf

\* They start empty.
LEMMA BooksInit == Init => SlotInv /\ Books
<1> SUFFICES ASSUME Init PROVE SlotInv /\ Books OBVIOUS
<1>1 Len(queue) = 0 /\ sent = 0 /\ taken = 0 BY DEF Init
<1>2 \A p \in Procs : pc[p] = "idle" BY Zenon DEF Init
<1>3 Len(queue) <= Slots BY <1>1, CapacityAssumption DEF Slots
<1>4 SlotInv BY <1>1, <1>2, <1>3 DEF SlotInv, Pending
<1>5 Out = {} BY Zenon DEF Init, Out
<1>6 delivered \o queue = << >> BY DEF Init
<1>7 Lists(<< >>, {}) BY DEF Lists
<1>8 \A p \in Procs : Holds(p) /\ ~Sending(p) BY <1>2, Zenon DEF Holds, Sending
<1>9 \A i \in Items : fate[i] = "fresh" BY Zenon DEF Init
<1> QED BY <1>4, <1>5, <1>6, <1>7, <1>8, <1>9, Zenon DEF Books

\* No value is lost, duplicated or left behind by a send that raised.
THEOREM ValuesAreKept == Spec => []NothingLostOrDuplicated
<1>1 Books => NothingLostOrDuplicated
  BY Zenon DEF Books, Lists, Out, NothingLostOrDuplicated
<1> QED BY <1>1, BooksInit, InitType, TypeStep, SlotStep, BooksStep, PTL DEF Spec

-----------------------------------------------------------------------------
(***************************************************************************)
(* The channel implements the mailbox.                                     *)
(***************************************************************************)

\* A send call that ends refuses, accepts or offers its value in the mailbox;
\* one that sleeps does not touch it.
LEMMA SendImplements ==
  ASSUME IndType, SlotInv, Books, NEW p \in Procs, NEW i \in Items, SendEnds(p, i)
  PROVE  Abstract!Next \/ UNCHANGED Abstract!mvars
<1>i i \in Abstract!Calls BY Zenon DEF Items, Abstract!Calls
<1>f fate[i] = "fresh"
  BY FreshItem, Zenon DEF SendEnds, SendRefused, SendParks
<1>1 CASE SendRefused(p, i) \/ SendOffersInterrupted(p, i)
  <2>1 Abstract!Refuse(i)
    BY <1>1, <1>f, Zenon DEF SendRefused, SendFails, SendOffersInterrupted, chan, Abstract!Refuse
  <2> QED BY <1>i, <2>1, Zenon DEF Abstract!Next
<1>2 CASE SendParks(p, i) BY <1>2, Zenon DEF SendParks, chan, Abstract!mvars
<1>r ASSUME Len(queue) # Slots PROVE Len(queue) < Abstract!Size
  <2>1 Len(queue) \in Nat BY DEF IndType, TypeOK
  <2>2 Len(queue) <= Slots BY Zenon DEF SlotInv
  <2>3 Slots \in Nat /\ Abstract!Size = Slots BY CapacityAssumption DEF Slots, Abstract!Size
  <2> QED BY <1>r, <2>1, <2>2, <2>3
<1>3 ASSUME NEW try \in BOOLEAN, SendEnqueues(p, i, try) PROVE Abstract!Next
  <2>1 Abstract!Accept(i)
    BY <1>3, <1>f, <1>r, Zenon DEF SendEnqueues, MustWait, Abstract!Accept, Abstract!Enter
  <2> QED BY <1>i, <2>1, Zenon DEF Abstract!Next
<1>4 CASE SendOffers(p, i)
  <2>1 Abstract!Offer(i)
    BY <1>4, <1>f, <1>r, Zenon DEF SendOffers, MustWait, Rendezvous, Abstract!Offer, Abstract!Enter
  <2> QED BY <1>i, <2>1, Zenon DEF Abstract!Next
<1> QED BY <1>1, <1>2, <1>3, <1>4, Zenon DEF SendEnds

\* The end of a handoff confirms the offer or withdraws it.
LEMMA HandoffImplements ==
  ASSUME IndType, SlotInv, Books, NEW p \in Procs, HandoffWakes(p)
  PROVE  Abstract!Next \/ UNCHANGED Abstract!mvars
<1>0 /\ UNCHANGED <<closed, delivered>> /\ pc[p] = "handoff"
     /\ item[p] \in Abstract!Calls /\ fate[item[p]] = "offered"
  BY Zenon DEF HandoffWakes, Books, Holds, IndType, SendersHoldItems, Items, Abstract!Calls
<1>t taken \in Int /\ sequence[p] \in Int /\ delivered \in Seq(Items)
  BY Zenon DEF IndType, TypeOK
<1>1 CASE HandoffTaken(p)
  <2>1 ~Pending(p) BY <1>1, <1>t DEF HandoffTaken, Pending
  <2>2 \E n \in DOMAIN delivered : delivered[n] = item[p]
    BY <1>0, <2>1, Zenon DEF Books, Holds
  <2>3 DOMAIN delivered = 1..Len(delivered) BY <1>t
  <2>4 Abstract!Delivered(item[p]) BY <2>2, <2>3, Zenon DEF Abstract!Delivered
  <2>5 Abstract!Confirm(item[p])
    BY <1>0, <1>1, <2>4, Zenon DEF HandoffTaken, Abstract!Confirm
  <2> QED BY <1>0, <2>5, Zenon DEF Abstract!Next
<1>2 CASE HandoffWaitsOn(p) BY <1>0, <1>2, Zenon DEF HandoffWaitsOn, Abstract!mvars
<1>3 CASE HandoffWithdraws(p)
  <2>1 queue = <<item[p]>> BY <1>0, <1>3, Zenon DEF HandoffWithdraws, SlotInv, Pending
  <2>2 Abstract!Withdraw(item[p])
    BY <1>0, <1>3, <2>1, Zenon DEF HandoffWithdraws, Abstract!Withdraw
  <2> QED BY <1>0, <2>2, Zenon DEF Abstract!Next
<1> QED BY <1>1, <1>2, <1>3, Zenon DEF HandoffWakes

\* Every step of the channel is a step of the mailbox or leaves it alone.
LEMMA StepImplements ==
  IndType /\ SlotInv /\ Books /\ [Next]_vars => [Abstract!Next]_(Abstract!mvars)
<1> SUFFICES ASSUME IndType, SlotInv, Books, [Next]_vars
             PROVE  Abstract!Next \/ UNCHANGED Abstract!mvars
  BY Zenon
<1>0 CASE UNCHANGED vars BY <1>0, Zenon DEF vars, Abstract!mvars
<1>1 ASSUME NEW p \in Procs, NEW rw \in Int, ReceiveEnds(p, rw)
     PROVE  Abstract!Next \/ UNCHANGED Abstract!mvars
  <2>1 UNCHANGED <<closed, fate>>
    BY <1>1, Zenon DEF ReceiveEnds, ReceiveLeaves, ReceiveSleeps, Receives
  <2>2 CASE UNCHANGED <<queue, delivered>> BY <2>1, <2>2, Zenon DEF Abstract!mvars
  <2>3 CASE ReceiveTakes(p, rw)
    <3>1 Abstract!Deliver BY <2>1, <2>3, Zenon DEF ReceiveTakes, Abstract!Deliver
    <3> QED BY <3>1, Zenon DEF Abstract!Next
  <2> QED BY <1>1, <2>2, <2>3, Zenon DEF ReceiveEnds, ReceiveLeaves, ReceiveSleeps
<1>2 ASSUME NEW p \in Procs, Close(p) PROVE Abstract!Next
  <2>1 Abstract!Shut BY <1>2, Zenon DEF Close, Abstract!Shut
  <2> QED BY <2>1, Zenon DEF Abstract!Next
<1>3 ASSUME NEW p \in Procs, WaitStep(p) \/ OutsideStep(p) PROVE UNCHANGED Abstract!mvars
  BY <1>3, Zenon DEF WaitStep, WaitRegisters, WaitPollReturns, WaitGivesUp, WaitUnlinks, others,
       OutsideStep, Interrupt, TimesOut, SpuriousWakeup, chan, Abstract!mvars
<1> QED
  BY <1>0, <1>1, <1>2, <1>3, SendImplements, HandoffImplements, StepKinds, Zenon DEF StepOf

\* The channel is a first-in first-out mailbox: what the mutex, the condition
\* variables, the sequence numbers and the withdrawal of struct DiamondChannel
\* do together is what Mailbox says.
THEOREM ChannelImplementsMailbox == Spec => ImplementsMailbox
<1>1 Init => Abstract!Init
  BY Zenon DEF Init, Abstract!Init, Abstract!Calls, Items
<1> QED
  BY <1>1, BooksInit, InitType, TypeStep, SlotStep, BooksStep, StepImplements, PTL
  DEF Spec, ImplementsMailbox, Abstract!Spec

-----------------------------------------------------------------------------
(***************************************************************************)
(* The threads asleep and the threads woken.                               *)
(***************************************************************************)

\* The threads asleep in, and on their way out of, the wait named k.
Asleep(k) == WaitingIn(k, "asleep")
Signalled(k) == WaitingIn(k, "signalled")

\* A step after which m woken threads are needed for the wait named k, when n
\* were before: nobody sleeps any more; none is needed; no more are needed and
\* none left; a woken thread left and one fewer is needed; or one more is
\* needed and a sleeper was woken.
Matches(k, m, n) ==
  \/ Asleep(k)' = {}
  \/ m <= 0
  \/ /\ Asleep(k)' \subseteq Asleep(k)
     /\ \/ m <= n /\ Signalled(k) \subseteq Signalled(k)'
        \/ m <= n - 1 /\ \E p \in Procs : Signalled(k) \ {p} \subseteq Signalled(k)'
  \/ m <= n + 1 /\ \E q \in Asleep(k) : Signalled(k) \cup {q} \subseteq Signalled(k)'

\* A thread that returns, or goes to sleep elsewhere, and the threads it wakes.
LEMMA ReturnWaiting ==
  ASSUME IndType, NEW p \in Procs, NEW w \in SUBSET Procs, NEW k,
         Return(p, w) \/ \E j : j # k /\ Sleep(p, j, w), k # "idle"
  PROVE  /\ Asleep(k)' = Asleep(k) \ (w \cup {p})
         /\ (Signalled(k) \ {p}) \cup {q \in w \ {p} : pc[q] = k} \subseteq Signalled(k)'
<1>t /\ pc \in [Procs -> Waits \cup {"idle"}]
     /\ sleep \in [Procs -> {"awake", "asleep", "signalled", "timedout"}]
  BY Zenon DEF IndType, TypeOK
<1>1 /\ pc'[p] # k /\ \A q \in Procs \ {p} : pc'[q] = pc[q]
     /\ \A q \in Procs \ {p} : sleep'[q] = IF q \in w THEN "signalled" ELSE sleep[q]
  BY <1>t, Zenon DEF Return, Sleep
<1>2 \A q \in Procs : q \in Asleep(k)' <=> q \in Asleep(k) \ (w \cup {p})
  BY <1>1, Zenon DEF Asleep, WaitingIn
<1>3 \A q \in Procs : q \in (Signalled(k) \ {p}) \cup {r \in w \ {p} : pc[r] = k}
                        => q \in Signalled(k)'
  BY <1>1, Zenon DEF Signalled, WaitingIn
<1> QED BY <1>2, <1>3, Zenon DEF Asleep, Signalled, WaitingIn

\* A step that takes no thread out of the woken ones and puts none to sleep.
LEMMA WaitingFrame ==
  ASSUME NEW k,
         \A q \in Procs : /\ pc[q] = k <=> pc'[q] = k
                          /\ sleep'[q] = sleep[q] \/ (sleep'[q] # "asleep" /\ sleep[q] = "asleep")
  PROVE  Asleep(k)' \subseteq Asleep(k) /\ Signalled(k) \subseteq Signalled(k)'
  BY Zenon DEF Asleep, Signalled, WaitingIn

\* A readiness wait, a timeout, a spurious wakeup and an interrupt put nobody to
\* sleep in send or receive and take no woken thread away.
LEMMA QuietWaiting ==
  ASSUME IndType, NEW k \in {"not_full", "not_empty"},
         UNCHANGED vars \/ \E p \in Procs : WaitStep(p) \/ OutsideStep(p)
  PROVE  /\ Asleep(k)' \subseteq Asleep(k) /\ Signalled(k) \subseteq Signalled(k)'
         /\ queue' = queue
<1>t /\ pc \in [Procs -> Waits \cup {"idle"}]
     /\ sleep \in [Procs -> {"awake", "asleep", "signalled", "timedout"}]
  BY Zenon DEF IndType, TypeOK
<1>0 CASE UNCHANGED vars BY <1>0, WaitingFrame, Zenon DEF vars
<1>1 ASSUME NEW p \in Procs, WaitStep(p)
     PROVE  /\ Asleep(k)' \subseteq Asleep(k) /\ Signalled(k) \subseteq Signalled(k)'
            /\ queue' = queue
  <2>1 UNCHANGED <<queue, sleep>> /\ pc[p] \in {"idle", "readable", "writable", "unlink"}
    BY <1>1, Zenon DEF WaitStep, WaitRegisters, WaitPollReturns, WaitGivesUp, WaitUnlinks,
                others, chan
  <2>2 \E j \in {"idle", "readable", "writable", "unlink"} : pc' = [pc EXCEPT ![p] = j]
    BY <1>1, Zenon DEF WaitStep, WaitRegisters, WaitPollReturns, WaitGivesUp, WaitUnlinks
  <2>3 \A q \in Procs : pc[q] = k <=> pc'[q] = k BY <1>t, <2>1, <2>2, Zenon
  <2> QED BY <2>1, <2>3, WaitingFrame, Zenon
<1>2 ASSUME NEW p \in Procs, OutsideStep(p)
     PROVE  /\ Asleep(k)' \subseteq Asleep(k) /\ Signalled(k) \subseteq Signalled(k)'
            /\ queue' = queue
  <2>1 UNCHANGED <<queue, pc>>
    BY <1>2, Zenon DEF OutsideStep, Interrupt, TimesOut, SpuriousWakeup, chan, waitVars
  <2>2 \A q \in Procs : sleep'[q] = sleep[q] \/ (sleep'[q] # "asleep" /\ sleep[q] = "asleep")
    BY <1>2, <1>t, Zenon DEF OutsideStep, Interrupt, TimesOut, SpuriousWakeup
  <2> QED BY <2>1, <2>2, WaitingFrame, Zenon
<1> QED BY <1>0, <1>1, <1>2, Zenon

\* A thread that closes the channel or ends a handoff wakes others, takes no
\* woken thread from the two waits and puts nobody into them.
LEMMA HandoffWaiting ==
  ASSUME IndType, NEW k \in {"not_full", "not_empty"}, NEW p \in Procs,
         HandoffWakes(p) \/ Close(p)
  PROVE  /\ Asleep(k)' \subseteq Asleep(k) /\ Signalled(k) \subseteq Signalled(k)'
         /\ queue' = queue \/ queue' = << >>
         /\ Close(p) => Asleep(k)' = {}
         /\ queue' # queue => Asleep("not_full")' = {}
<1>k k # "idle" /\ k # "handoff" OBVIOUS
<1>p p \notin Signalled(k) /\ p \notin Asleep(k)
  BY Zenon DEF HandoffWakes, Close, Signalled, Asleep, WaitingIn
<1>w /\ NotFullSleepers \in SUBSET Procs /\ NotFullSleepers \cup NotEmptySleepers \in SUBSET Procs
     /\ {} \in SUBSET Procs
     /\ NotEmptySleepers \cup NotFullSleepers \in SUBSET Procs
     /\ Asleep(k) \subseteq NotEmptySleepers \cup NotFullSleepers
     /\ Asleep("not_full") \subseteq NotFullSleepers
  BY Zenon DEF NotFullSleepers, NotEmptySleepers, Asleep, WaitingIn
<1>r ASSUME NEW w \in SUBSET Procs, Return(p, w) \/ Sleep(p, "handoff", w)
     PROVE  /\ Asleep(k)' \subseteq Asleep(k) \ w /\ Signalled(k) \subseteq Signalled(k)'
            /\ Asleep("not_full")' \subseteq Asleep("not_full") \ w
  <2>1 /\ Asleep(k)' = Asleep(k) \ (w \cup {p})
       /\ (Signalled(k) \ {p}) \cup {q \in w \ {p} : pc[q] = k} \subseteq Signalled(k)'
    BY <1>k, <1>r, ReturnWaiting, Zenon
  <2>2 "not_full" # "idle" /\ "not_full" # "handoff" OBVIOUS
  <2>3 Asleep("not_full")' = Asleep("not_full") \ (w \cup {p})
    BY <1>r, <2>2, ReturnWaiting, Zenon
  <2> QED BY <1>p, <2>1, <2>3, Zenon
<1>1 CASE Close(p)
  <2>1 Return(p, NotEmptySleepers \cup NotFullSleepers) /\ queue' = queue
    BY <1>1, Zenon DEF Close
  <2>2 /\ Asleep(k)' \subseteq Asleep(k) \ (NotEmptySleepers \cup NotFullSleepers)
       /\ Signalled(k) \subseteq Signalled(k)'
    BY <1>r, <1>w, <2>1, Zenon
  <2> QED BY <1>w, <2>1, <2>2, Zenon
<1>2 CASE HandoffWakes(p)
  <2>0 ~Close(p) BY <1>2 DEF HandoffWakes, Close
  <2>1 CASE HandoffTaken(p) \/ HandoffWaitsOn(p)
    <3>1 queue' = queue /\ (Return(p, {}) \/ Sleep(p, "handoff", {}))
      BY <2>1, Zenon DEF HandoffTaken, HandoffWaitsOn
    <3>2 Asleep(k)' \subseteq Asleep(k) \ {} /\ Signalled(k) \subseteq Signalled(k)'
      BY <1>r, <1>w, <3>1, Zenon
    <3> QED BY <2>0, <3>1, <3>2, Zenon
  <2>2 CASE HandoffWithdraws(p)
    <3>1 queue' = << >> /\ Return(p, NotFullSleepers)
      BY <2>2, Zenon DEF HandoffWithdraws
    <3>2 /\ Asleep(k)' \subseteq Asleep(k) \ NotFullSleepers /\ Signalled(k) \subseteq Signalled(k)'
         /\ Asleep("not_full")' \subseteq Asleep("not_full") \ NotFullSleepers
      BY <1>r, <1>w, <3>1, Zenon
    <3> QED BY <1>w, <2>0, <3>1, <3>2, Zenon
  <2> QED BY <1>2, <2>1, <2>2, Zenon DEF HandoffWakes
<1> QED BY <1>1, <1>2, Zenon

\* A value that is queued wakes a sleeping receiver.
LEMMA ReceiverSend ==
  ASSUME IndType, NEW p \in Procs, NEW i \in Items,
         SendEnds(p, i)
  PROVE  Matches("not_empty", Len(queue'), Len(queue))
<1>t queue \in Seq(Items) /\ Len(queue) \in Nat BY DEF IndType, TypeOK
<1>p p \notin Signalled("not_empty") /\ p \notin Asleep("not_empty")
  BY Zenon DEF SendEnds, SendRefused, SendParks, Sends, Signalled, Asleep, WaitingIn
<1>w NotEmptySleepers = Asleep("not_empty") /\ NotFullSleepers \subseteq Procs
     /\ NotEmptySleepers \subseteq Procs
  BY Zenon DEF NotEmptySleepers, NotFullSleepers, Asleep, WaitingIn
<1>r ASSUME NEW w \in SUBSET Procs, Return(p, w) \/ \E j : j # "not_empty" /\ Sleep(p, j, w)
     PROVE  /\ Asleep("not_empty")' = Asleep("not_empty") \ w
            /\ Signalled("not_empty") \cup (w \cap Asleep("not_empty")) \subseteq Signalled("not_empty")'
  <2>1 /\ Asleep("not_empty")' = Asleep("not_empty") \ (w \cup {p})
       /\ (Signalled("not_empty") \ {p}) \cup {q \in w \ {p} : pc[q] = "not_empty"}
            \subseteq Signalled("not_empty")'
    BY <1>r, ReturnWaiting, Zenon
  <2>2 \A q \in Asleep("not_empty") : pc[q] = "not_empty" BY Zenon DEF Asleep, WaitingIn
  <2> QED BY <1>p, <2>1, <2>2, Zenon
<1>1 CASE queue' = queue
  <2>1 PICK w \in SUBSET Procs : Return(p, w) \/ \E j : j # "not_empty" /\ Sleep(p, j, w)
    <3>1 CASE SendRefused(p, i) BY <3>1, Zenon DEF SendRefused, SendFails
    <3>2 CASE SendParks(p, i)
      <4>1 "not_full" # "not_empty" OBVIOUS
      <4> QED BY <3>2, <4>1, Zenon DEF SendParks
    <3>3 CASE SendOffersInterrupted(p, i)
      BY <1>w, <3>3, Zenon DEF SendOffersInterrupted, Signal
    <3>4 CASE queue' = Append(queue, i)
      BY <1>t, <1>1, <3>4
    <3> QED BY <3>1, <3>2, <3>3, <3>4, Zenon DEF SendEnds, SendEnqueues, SendOffers
  <2>2 Len(queue) <= Len(queue) BY <1>t
  <2>3 Asleep("not_empty")' \subseteq Asleep("not_empty") /\ Signalled("not_empty") \subseteq Signalled("not_empty")'
    BY <1>r, <2>1, Zenon
  <2> QED BY <1>1, <2>2, <2>3, Zenon DEF Matches
<1>2 CASE queue' # queue
  <2>1 /\ queue' = Append(queue, i)
       /\ \E w \in Signal(Asleep("not_empty")) : Return(p, w) \/ Sleep(p, "handoff", w)
    BY <1>2, <1>w, Zenon DEF SendEnds, SendRefused, SendParks, SendFails, SendEnqueues, SendOffers,
                SendOffersInterrupted, chan
  <2>2 PICK w \in Signal(Asleep("not_empty")) : Return(p, w) \/ Sleep(p, "handoff", w)
    BY <2>1, Zenon
  <2>3 Len(queue') = Len(queue) + 1 BY <1>t, <2>1
  <2>4 w \in SUBSET Procs /\ (Asleep("not_empty") = {} \/ \E q \in Asleep("not_empty") : w = {q})
    BY <1>w, <2>2, Zenon DEF Signal
  <2>5 "handoff" # "not_empty" OBVIOUS
  <2>6 /\ Asleep("not_empty")' = Asleep("not_empty") \ w
       /\ Signalled("not_empty") \cup (w \cap Asleep("not_empty")) \subseteq Signalled("not_empty")'
    BY <1>r, <2>2, <2>4, <2>5, Zenon
  <2>7 ASSUME NEW q \in Asleep("not_empty"), w = {q}
       PROVE  Signalled("not_empty") \cup {q} \subseteq Signalled("not_empty")'
    BY <2>6, <2>7
  <2>8 Len(queue') <= Len(queue) + 1 BY <1>t, <2>3
  <2>9 Asleep("not_empty") = {} => Asleep("not_empty")' = {} BY <2>6
  <2> QED BY <2>4, <2>7, <2>8, <2>9, Zenon DEF Matches
<1> QED BY <1>1, <1>2, Zenon

\* A receiver on its way takes a value, or finds none.
LEMMA ReceiverReceive ==
  ASSUME IndType, "receive" \notin CopyFaults,
         NEW p \in Procs, NEW rw \in Int, ReceiveEnds(p, rw)
  PROVE  Matches("not_empty", Len(queue'), Len(queue))
<1>t queue \in Seq(Items) /\ Len(queue) \in Nat BY DEF IndType, TypeOK
<1>1 CASE ReceiveSleeps(p, rw) \/ (ReceiveLeaves(p, rw) /\ queue = << >>)
  <2>1 queue' = << >> BY <1>1, Zenon DEF ReceiveSleeps, ReceiveLeaves
  <2>2 Len(queue') <= 0 BY <2>1
  <2> QED BY <2>2, Zenon DEF Matches
<1>2 CASE ReceiveLeaves(p, rw) /\ queue # << >>
  <2>1 Return(p, {}) /\ queue' = queue /\ p \notin Signalled("not_empty")
    BY <1>2, Zenon DEF ReceiveLeaves, Signalled, WaitingIn
  <2>2 {} \in SUBSET Procs /\ "not_empty" # "idle" OBVIOUS
  <2>3 /\ Asleep("not_empty")' = Asleep("not_empty") \ ({} \cup {p})
       /\ (Signalled("not_empty") \ {p}) \cup {q \in {} \ {p} : pc[q] = "not_empty"}
            \subseteq Signalled("not_empty")'
    BY <2>1, <2>2, ReturnWaiting, Zenon
  <2>4 Asleep("not_empty")' \subseteq Asleep("not_empty") /\ Signalled("not_empty") \subseteq Signalled("not_empty")'
    BY <2>1, <2>3, Zenon
  <2>5 Len(queue) <= Len(queue) BY <1>t
  <2> QED BY <2>1, <2>4, <2>5, Zenon DEF Matches
<1>3 CASE ReceiveTakes(p, rw)
  <2>1 queue # << >> /\ queue' = Tail(queue) BY <1>3, Zenon DEF ReceiveTakes
  <2>2 PICK w \in SUBSET Procs : Return(p, w)
    BY <1>3, Zenon DEF ReceiveTakes, Signal, NotFullSleepers
  <2>3 "not_empty" # "idle" OBVIOUS
  <2>4 /\ Asleep("not_empty")' = Asleep("not_empty") \ (w \cup {p})
       /\ (Signalled("not_empty") \ {p}) \cup {q \in w \ {p} : pc[q] = "not_empty"}
            \subseteq Signalled("not_empty")'
    BY <2>2, <2>3, ReturnWaiting, Zenon
  <2>5 Asleep("not_empty")' \subseteq Asleep("not_empty") /\ Signalled("not_empty") \ {p} \subseteq Signalled("not_empty")'
    BY <2>4, Zenon
  <2>6 Len(queue') <= Len(queue) - 1 BY <1>t, <2>1
  <2> QED BY <2>5, <2>6, Zenon DEF Matches
<1> QED BY <1>1, <1>2, <1>3, Zenon DEF ReceiveEnds

\* Every step keeps as many receivers on their way as there are values, as long
\* as the copy out of the queue succeeds.
LEMMA ReceiverMatches ==
  ASSUME IndType, "receive" \notin CopyFaults, [Next]_vars
  PROVE  Matches("not_empty", Len(queue'), Len(queue))
<1>t queue \in Seq(Items) /\ Len(queue) <= Len(queue)
  BY DEF IndType, TypeOK
<1>0 CASE UNCHANGED vars \/ \E p \in Procs : WaitStep(p) \/ OutsideStep(p)
  <2>1 /\ Asleep("not_empty")' \subseteq Asleep("not_empty")
       /\ Signalled("not_empty") \subseteq Signalled("not_empty")' /\ queue' = queue
    BY <1>0, QuietWaiting, Zenon
  <2> QED BY <1>t, <2>1, Zenon DEF Matches
<1>1 ASSUME NEW p \in Procs, HandoffWakes(p) \/ Close(p)
     PROVE  Matches("not_empty", Len(queue'), Len(queue))
  <2>1 /\ Asleep("not_empty")' \subseteq Asleep("not_empty")
       /\ Signalled("not_empty") \subseteq Signalled("not_empty")'
       /\ queue' = queue \/ queue' = << >>
    BY <1>1, HandoffWaiting, Zenon
  <2>2 queue' = << >> => Len(queue') <= 0 OBVIOUS
  <2> QED BY <1>t, <2>1, <2>2, Zenon DEF Matches
<1> QED BY <1>0, <1>1, ReceiverSend, ReceiverReceive, StepKinds, Zenon DEF StepOf

\* What a step of channel_send_helper does to the senders asleep.
LEMMA SenderWaiting ==
  ASSUME IndType, NEW p \in Procs, NEW i \in Items, SendEnds(p, i), ~SendParks(p, i)
  PROVE  /\ Asleep("not_full")' \subseteq Asleep("not_full")
         /\ Signalled("not_full") \ {p} \subseteq Signalled("not_full")'
<1>1 PICK w \in SUBSET Procs : Return(p, w) \/ \E j : j # "not_full" /\ Sleep(p, j, w)
  <2>1 CASE SendRefused(p, i) BY <2>1, Zenon DEF SendRefused, SendFails
  <2>2 NotEmptySleepers \in SUBSET Procs /\ NotFullSleepers \in SUBSET Procs
    BY Zenon DEF NotEmptySleepers, NotFullSleepers
  <2>3 \A w \in Signal(NotEmptySleepers) : w \in SUBSET Procs /\ w \cup NotFullSleepers \in SUBSET Procs
    BY <2>2, Zenon DEF Signal
  <2>4 "handoff" # "not_full" OBVIOUS
  <2>5 CASE SendOffers(p, i) BY <2>3, <2>4, <2>5, Zenon DEF SendOffers
  <2>6 CASE SendOffersInterrupted(p, i) BY <2>3, <2>6, Zenon DEF SendOffersInterrupted
  <2>7 CASE \E try \in BOOLEAN : SendEnqueues(p, i, try) BY <2>3, <2>7, Zenon DEF SendEnqueues
  <2> QED BY <2>1, <2>5, <2>6, <2>7, Zenon DEF SendEnds
<1>2 "not_full" # "idle" OBVIOUS
<1>3 /\ Asleep("not_full")' = Asleep("not_full") \ (w \cup {p})
     /\ (Signalled("not_full") \ {p}) \cup {q \in w \ {p} : pc[q] = "not_full"}
          \subseteq Signalled("not_full")'
  BY <1>1, <1>2, ReturnWaiting, Zenon
<1> QED BY <1>3, Zenon

\* A receiver wakes the senders on a rendezvous channel, and one of them on a
\* bounded one, when it takes a value.
LEMMA SenderReceive ==
  ASSUME IndType, SlotInv, NEW p \in Procs, NEW rw \in Int, ReceiveEnds(p, rw)
  PROVE  /\ Asleep("not_full")' \subseteq Asleep("not_full")
         /\ Signalled("not_full") \subseteq Signalled("not_full")'
         /\ queue' # queue /\ Rendezvous => Asleep("not_full")' = {}
         /\ queue' # queue /\ ~Rendezvous /\ Asleep("not_full") # {} =>
              \E q \in Asleep("not_full") : q \in Signalled("not_full")'
         /\ queue' = queue \/ (queue # << >> /\ queue' = Tail(queue))
<1>p p \notin Signalled("not_full") /\ p \notin Asleep("not_full")
  BY Zenon DEF ReceiveEnds, ReceiveLeaves, ReceiveSleeps, Receives, Signalled, Asleep, WaitingIn
<1>w NotFullSleepers \in SUBSET Procs /\ {} \in SUBSET Procs
  BY Zenon DEF NotFullSleepers
<1>r ASSUME NEW w \in SUBSET Procs, Return(p, w) \/ Sleep(p, "not_empty", w)
     PROVE  /\ Asleep("not_full")' \subseteq Asleep("not_full") \ w
            /\ Signalled("not_full") \subseteq Signalled("not_full")'
            /\ \A q \in w : q \in Asleep("not_full") => q \in Signalled("not_full")'
  <2>1 "not_full" # "idle" /\ "not_full" # "not_empty" OBVIOUS
  <2>2 /\ Asleep("not_full")' = Asleep("not_full") \ (w \cup {p})
       /\ (Signalled("not_full") \ {p}) \cup {q \in w \ {p} : pc[q] = "not_full"}
            \subseteq Signalled("not_full")'
    BY <1>r, <2>1, ReturnWaiting, Zenon
  <2>3 \A q \in Asleep("not_full") : pc[q] = "not_full" BY Zenon DEF Asleep, WaitingIn
  <2> QED BY <1>p, <2>2, <2>3, Zenon
<1>1 CASE ReceiveLeaves(p, rw) \/ ReceiveSleeps(p, rw)
  <2>1 queue' = queue /\ (Return(p, {}) \/ Sleep(p, "not_empty", {}))
    BY <1>1, Zenon DEF ReceiveLeaves, ReceiveSleeps
  <2>2 Asleep("not_full")' \subseteq Asleep("not_full") \ {} /\ Signalled("not_full") \subseteq Signalled("not_full")'
    BY <1>r, <1>w, <2>1, Zenon
  <2> QED BY <2>1, <2>2, Zenon
<1>2 CASE ReceiveTakes(p, rw) /\ Rendezvous
  <2>1 queue # << >> /\ queue' = Tail(queue) /\ Return(p, NotFullSleepers)
    BY <1>2, Zenon DEF ReceiveTakes
  <2>2 /\ Asleep("not_full")' \subseteq Asleep("not_full") \ NotFullSleepers
       /\ Signalled("not_full") \subseteq Signalled("not_full")'
    BY <1>r, <1>w, <2>1, Zenon
  <2>3 Asleep("not_full") \subseteq NotFullSleepers
    BY Zenon DEF Asleep, WaitingIn, NotFullSleepers
  <2> QED BY <1>2, <2>1, <2>2, <2>3, Zenon
<1>3 CASE ReceiveTakes(p, rw) /\ ~Rendezvous
  <2>1 queue # << >> /\ queue' = Tail(queue) /\ \E w \in Signal(NotFullSleepers) : Return(p, w)
    BY <1>3, Zenon DEF ReceiveTakes
  <2>2 NotFullSleepers = Asleep("not_full")
    BY <1>3, Zenon DEF NotFullSleepers, Asleep, WaitingIn, SlotInv
  <2>3 PICK w \in Signal(Asleep("not_full")) : Return(p, w) BY <2>1, <2>2, Zenon
  <2>4 w \in SUBSET Procs /\ (Asleep("not_full") # {} => \E q \in Asleep("not_full") : q \in w)
    BY <1>w, <2>2, <2>3, Zenon DEF Signal
  <2>5 /\ Asleep("not_full")' \subseteq Asleep("not_full") \ w
       /\ Signalled("not_full") \subseteq Signalled("not_full")'
       /\ \A q \in w : q \in Asleep("not_full") => q \in Signalled("not_full")'
    BY <1>r, <2>3, <2>4, Zenon
  <2>6 Asleep("not_full") # {} => \E q \in Asleep("not_full") : q \in Signalled("not_full")'
    BY <2>4, <2>5, Zenon
  <2>7 Asleep("not_full")' \subseteq Asleep("not_full") BY <2>5
  <2> QED BY <1>3, <2>1, <2>5, <2>6, <2>7, Zenon
<1> QED BY <1>1, <1>2, <1>3, Zenon DEF ReceiveEnds

\* On a rendezvous channel a sender sleeps only while the slot is taken: what
\* empties the slot wakes every sender.
SlotTakenInv == Rendezvous /\ Asleep("not_full") # {} => Len(queue) = Slots

\* The slot of a rendezvous channel.
LEMMA SlotTakenStep == IndType /\ SlotInv /\ SlotTakenInv /\ [Next]_vars => SlotTakenInv'
<1> SUFFICES ASSUME IndType, SlotInv, SlotTakenInv, [Next]_vars, Rendezvous, Asleep("not_full")' # {}
             PROVE  Len(queue') = Slots
  BY Zenon DEF SlotTakenInv, Rendezvous, Slots
<1>f ASSUME Asleep("not_full")' \subseteq Asleep("not_full") PROVE Len(queue) = Slots
  <2>1 Asleep("not_full") # {} BY <1>f
  <2> QED BY <2>1, Zenon DEF SlotTakenInv
<1>0 CASE UNCHANGED vars \/ \E p \in Procs : WaitStep(p) \/ OutsideStep(p)
  <2>1 Asleep("not_full")' \subseteq Asleep("not_full") /\ queue' = queue
    BY <1>0, QuietWaiting, Zenon
  <2> QED BY <1>f, <2>1, Zenon
<1>1 ASSUME NEW p \in Procs, HandoffWakes(p) \/ Close(p) PROVE Len(queue') = Slots
  <2>1 Asleep("not_full")' \subseteq Asleep("not_full") /\ queue' = queue
    BY <1>1, HandoffWaiting, Zenon
  <2> QED BY <1>f, <2>1, Zenon
<1>2 ASSUME NEW p \in Procs, NEW rw \in Int, ReceiveEnds(p, rw) PROVE Len(queue') = Slots
  <2>1 Asleep("not_full")' \subseteq Asleep("not_full") /\ queue' = queue
    BY <1>2, SenderReceive, Zenon
  <2> QED BY <1>f, <2>1, Zenon
<1>3 ASSUME NEW p \in Procs, NEW i \in Items, SendEnds(p, i) PROVE Len(queue') = Slots
  <2>1 CASE SendParks(p, i) BY <2>1, Zenon DEF SendParks, chan
  <2>2 CASE ~SendParks(p, i)
    <3>1 Len(queue) = Slots BY <1>3, <1>f, <2>2, SenderWaiting, Zenon
    <3>2 SendRefused(p, i)
      BY <1>3, <2>2, <3>1, Zenon DEF SendEnds, SendEnqueues, SendOffers, SendOffersInterrupted, MustWait
    <3> QED BY <3>1, <3>2, Zenon DEF SendRefused, SendFails, chan
  <2> QED BY <2>1, <2>2, Zenon
<1> QED BY <1>0, <1>1, <1>2, <1>3, StepKinds, Zenon DEF StepOf

\* Every step keeps as many senders on their way as a bounded channel has free
\* slots, as long as the copy into the queue succeeds.
LEMMA RoomMatches ==
  ASSUME IndType, SlotInv, ClosedWakesAll, [Next]_vars, ~Rendezvous, "send" \notin CopyFaults
  PROVE  Matches("not_full", Slots - Len(queue'), Slots - Len(queue))
<1>t /\ queue \in Seq(Items) /\ Len(queue) \in Nat /\ Slots \in Nat
     /\ Slots - Len(queue) <= Slots - Len(queue)
  <2>1 queue \in Seq(Items) BY Zenon DEF IndType, TypeOK
  <2>2 Len(queue) \in Nat BY <2>1
  <2>3 Slots \in Nat BY CapacityAssumption DEF Slots
  <2> QED BY <2>1, <2>2, <2>3
<1>f ASSUME Asleep("not_full")' \subseteq Asleep("not_full"),
            Signalled("not_full") \subseteq Signalled("not_full")', queue' = queue
     PROVE  Matches("not_full", Slots - Len(queue'), Slots - Len(queue))
  BY <1>t, <1>f, Zenon DEF Matches
<1>0 CASE UNCHANGED vars \/ \E p \in Procs : WaitStep(p) \/ OutsideStep(p)
  BY <1>0, <1>f, QuietWaiting, Zenon
<1>1 ASSUME NEW p \in Procs, HandoffWakes(p) \/ Close(p)
     PROVE  Matches("not_full", Slots - Len(queue'), Slots - Len(queue))
  <2>1 CASE queue' = queue BY <1>1, <1>f, <2>1, HandoffWaiting, Zenon
  <2>2 CASE queue' # queue BY <1>1, <2>2, HandoffWaiting, Zenon DEF Matches
  <2> QED BY <2>1, <2>2, Zenon
<1>2 ASSUME NEW p \in Procs, NEW rw \in Int, ReceiveEnds(p, rw)
     PROVE  Matches("not_full", Slots - Len(queue'), Slots - Len(queue))
  <2>1 CASE queue' = queue BY <1>2, <1>f, <2>1, SenderReceive, Zenon
  <2>2 CASE queue' # queue
    <3>1 /\ Asleep("not_full")' \subseteq Asleep("not_full")
         /\ Signalled("not_full") \subseteq Signalled("not_full")'
         /\ Asleep("not_full") # {} => \E q \in Asleep("not_full") : q \in Signalled("not_full")'
         /\ queue # << >> /\ queue' = Tail(queue)
      BY <1>2, <2>2, SenderReceive, Zenon
    <3>2 Slots - Len(queue') <= (Slots - Len(queue)) + 1 BY <1>t, <3>1
    <3>3 ASSUME NEW q \in Asleep("not_full"), q \in Signalled("not_full")'
         PROVE  Signalled("not_full") \cup {q} \subseteq Signalled("not_full")'
      BY <3>1, <3>3
    <3>4 Asleep("not_full") = {} => Asleep("not_full")' = {} BY <3>1
    <3> QED BY <3>1, <3>2, <3>3, <3>4, Zenon DEF Matches
  <2> QED BY <2>1, <2>2, Zenon
<1>3 ASSUME NEW p \in Procs, NEW i \in Items, SendEnds(p, i)
     PROVE  Matches("not_full", Slots - Len(queue'), Slots - Len(queue))
  <2>1 ASSUME Len(queue') = Slots
       PROVE  Matches("not_full", Slots - Len(queue'), Slots - Len(queue))
    <3>1 Slots - Len(queue') <= 0 BY <1>t, <2>1
    <3> QED BY <3>1, Zenon DEF Matches
  <2>2 CASE SendParks(p, i) BY <2>1, <2>2, Zenon DEF SendParks, chan
  <2>3 CASE SendRefused(p, i)
    <3>1 queue' = queue BY <2>3, Zenon DEF SendRefused, SendFails, chan
    <3>2 CASE Len(queue) = Slots BY <2>1, <3>1, <3>2, Zenon
    <3>3 CASE closed
      <4>1 Asleep("not_full") = {}
        BY <3>3, Zenon DEF ClosedWakesAll, NotFullSleepers, Asleep, WaitingIn
      <4>2 ~SendParks(p, i) BY <3>3, Zenon DEF SendParks
      <4>3 Asleep("not_full")' = {} BY <1>3, <4>1, <4>2, SenderWaiting
      <4> QED BY <4>3, Zenon DEF Matches
    <3>4 CASE ~closed /\ Len(queue) # Slots
      <4>1 p \notin Signalled("not_full")
        BY <2>3, <3>4, Zenon DEF SendRefused, Signalled, WaitingIn
      <4>2 ~SendParks(p, i) BY <3>4, Zenon DEF SendParks
      <4>3 /\ Asleep("not_full")' \subseteq Asleep("not_full")
           /\ Signalled("not_full") \ {p} \subseteq Signalled("not_full")'
        BY <1>3, <4>2, SenderWaiting, Zenon
      <4>4 Signalled("not_full") \subseteq Signalled("not_full")' BY <4>1, <4>3
      <4> QED BY <1>f, <3>1, <4>3, <4>4, Zenon
    <3> QED BY <3>2, <3>3, <3>4, Zenon
  <2>4 ASSUME NEW try \in BOOLEAN, SendEnqueues(p, i, try)
       PROVE  Matches("not_full", Slots - Len(queue'), Slots - Len(queue))
    <3>1 queue' = Append(queue, i) /\ Len(queue) # Slots
      BY <2>4, Zenon DEF SendEnqueues, MustWait
    <3>2 Slots - Len(queue') <= (Slots - Len(queue)) - 1 BY <1>t, <3>1
    <3>3 ~SendParks(p, i) BY <3>1, Zenon DEF SendParks
    <3>4 /\ Asleep("not_full")' \subseteq Asleep("not_full")
         /\ Signalled("not_full") \ {p} \subseteq Signalled("not_full")'
      BY <1>3, <3>3, SenderWaiting, Zenon
    <3> QED BY <3>2, <3>4, Zenon DEF Matches
  <2> QED BY <1>3, <2>2, <2>3, <2>4, Zenon DEF SendEnds, SendOffers, SendOffersInterrupted
<1> QED BY <1>0, <1>1, <1>2, <1>3, StepKinds, Zenon DEF StepOf

-----------------------------------------------------------------------------
(***************************************************************************)
(* The parked receivers.                                                   *)
(***************************************************************************)

Parked == {p \in Procs : pc[p] = "not_empty"}

\* receivers_waiting moves with the set of parked receivers.
ReceiversMove ==
  \/ receivers_waiting' = receivers_waiting /\ Parked' = Parked
  \/ \E p \in Procs \ Parked :
       receivers_waiting' = receivers_waiting + 1 /\ Parked' = Parked \cup {p}
  \/ \E p \in Parked :
       receivers_waiting' = receivers_waiting - 1 /\ Parked' = Parked \ {p}

\* A step that moves no thread into or out of the parked wait.
LEMMA ParkedFrame ==
  ASSUME UNCHANGED receivers_waiting,
         \A q \in Procs : pc'[q] = "not_empty" <=> pc[q] = "not_empty"
  PROVE  ReceiversMove
<1>1 Parked' = Parked BY Zenon DEF Parked
<1> QED BY <1>1, Zenon DEF ReceiversMove

\* A receiver counts itself when it parks and no longer when it leaves.
LEMMA ReceiveMoves ==
  ASSUME IndType, NEW p \in Procs, NEW rw \in Int, ReceiveEnds(p, rw)
  PROVE  ReceiversMove
<1>t pc \in [Procs -> Waits \cup {"idle"}] /\ receivers_waiting \in Int
  BY Zenon DEF IndType, TypeOK
<1>1 \/ p \notin Parked /\ rw = receivers_waiting
     \/ p \in Parked /\ rw = receivers_waiting - 1
  BY Zenon DEF ReceiveEnds, ReceiveLeaves, ReceiveSleeps, Receives, Parked
<1>2 CASE pc' = [pc EXCEPT ![p] = "idle"] /\ receivers_waiting' = rw
  <2>1 Parked' = Parked \ {p} BY <1>t, <1>2 DEF Parked
  <2>2 p \notin Parked => Parked \ {p} = Parked OBVIOUS
  <2> QED BY <1>1, <1>2, <2>1, <2>2, Zenon DEF ReceiversMove
<1>3 CASE ReceiveSleeps(p, rw)
  <2>1 pc' = [pc EXCEPT ![p] = "not_empty"] /\ receivers_waiting' = rw + 1
    BY <1>3, Zenon DEF ReceiveSleeps, Sleep
  <2>2 Parked' = Parked \cup {p} BY <1>t, <2>1 DEF Parked
  <2>3 p \in Parked => Parked \cup {p} = Parked OBVIOUS
  <2>4 rw = receivers_waiting - 1 => rw + 1 = receivers_waiting BY <1>t
  <2> QED BY <1>1, <2>1, <2>2, <2>3, <2>4, Zenon DEF ReceiversMove
<1> QED BY <1>2, <1>3, Zenon DEF ReceiveEnds, ReceiveLeaves, ReceiveTakes, Return

\* Every step moves them together.
LEMMA ParkedStep == IndType /\ [Next]_vars => ReceiversMove
<1> SUFFICES ASSUME IndType, [Next]_vars PROVE ReceiversMove
  OBVIOUS
<1>t pc \in [Procs -> Waits \cup {"idle"}] BY Zenon DEF IndType, TypeOK
<1>0 CASE UNCHANGED vars BY <1>0, ParkedFrame, Zenon DEF vars
<1>1 ASSUME NEW p \in Procs, NEW i \in Items, SendEnds(p, i) PROVE ReceiversMove
  <2>1 UNCHANGED receivers_waiting /\ pc[p] # "not_empty"
    BY <1>1, Zenon DEF SendEnds, SendRefused, SendParks, Sends, SendFails, SendEnqueues, SendOffers,
                SendOffersInterrupted, chan
  <2>2 \E k \in {"idle", "not_full", "handoff"} : pc' = [pc EXCEPT ![p] = k]
    BY <1>1, Zenon DEF SendEnds, SendRefused, SendParks, SendFails, SendEnqueues, SendOffers,
                SendOffersInterrupted, Return, Sleep
  <2> QED BY <1>t, <2>1, <2>2, ParkedFrame, Zenon
<1>2 ASSUME NEW p \in Procs, HandoffWakes(p) PROVE ReceiversMove
  <2>1 UNCHANGED receivers_waiting /\ pc[p] = "handoff"
    BY <1>2, Zenon DEF HandoffWakes
  <2>2 \E k \in {"idle", "handoff"} : pc' = [pc EXCEPT ![p] = k]
    BY <1>2, Zenon DEF HandoffWakes, HandoffTaken, HandoffWithdraws, HandoffWaitsOn, Return, Sleep
  <2> QED BY <1>t, <2>1, <2>2, ParkedFrame, Zenon
<1>3 ASSUME NEW p \in Procs, Close(p) \/ WaitStep(p) PROVE ReceiversMove
  <2>1 UNCHANGED receivers_waiting /\ pc[p] # "not_empty"
    BY <1>3, Zenon DEF Close, WaitStep, WaitRegisters, WaitPollReturns, WaitGivesUp, WaitUnlinks,
                others, chan
  <2>2 \E k \in {"idle", "readable", "writable", "unlink"} : pc' = [pc EXCEPT ![p] = k]
    BY <1>3, Zenon DEF Close, Return, WaitStep, WaitRegisters, WaitPollReturns, WaitGivesUp,
                WaitUnlinks
  <2> QED BY <1>t, <2>1, <2>2, ParkedFrame, Zenon
<1>4 ASSUME NEW p \in Procs, OutsideStep(p) PROVE ReceiversMove
  <2>1 UNCHANGED <<receivers_waiting, pc>>
    BY <1>4, Zenon DEF OutsideStep, Interrupt, TimesOut, SpuriousWakeup, chan, waitVars
  <2> QED BY <2>1, ParkedFrame, Zenon
<1> QED BY <1>0, <1>1, <1>2, <1>3, <1>4, ReceiveMoves, StepKinds, Zenon DEF StepOf

-----------------------------------------------------------------------------
(***************************************************************************)
(* Counting.  The step lemmas above speak of sets of threads; what follows *)
(* turns them into statements about their cardinalities.                   *)
(***************************************************************************)
INSTANCE FiniteSetTheorems

\* Every step keeps the count of the parked receivers.
LEMMA CountStep == ReceiversCounted /\ ReceiversMove => ReceiversCounted'
<1> SUFFICES ASSUME receivers_waiting = Cardinality(Parked), ReceiversMove
             PROVE  receivers_waiting' = Cardinality(Parked')
  BY Zenon DEF ReceiversCounted, Parked
<1>1 Parked \in SUBSET Procs BY Zenon DEF Parked
<1>2 IsFiniteSet(Parked) BY <1>1, ProcsAssumption, FS_Subset, Zenon
<1>3 ASSUME NEW p \in Procs \ Parked PROVE Cardinality(Parked \cup {p}) = Cardinality(Parked) + 1
  BY <1>2, FS_AddElement, Zenon
<1>4 ASSUME NEW p \in Parked PROVE Cardinality(Parked \ {p}) = Cardinality(Parked) - 1
  BY <1>2, FS_RemoveElement, Zenon
<1>5 CASE receivers_waiting' = receivers_waiting /\ Parked' = Parked BY <1>5, Zenon
<1>6 ASSUME NEW p \in Procs \ Parked, receivers_waiting' = receivers_waiting + 1,
            Parked' = Parked \cup {p}
     PROVE  receivers_waiting' = Cardinality(Parked')
  BY <1>3, <1>6, Zenon
<1>7 ASSUME NEW p \in Parked, receivers_waiting' = receivers_waiting - 1, Parked' = Parked \ {p}
     PROVE  receivers_waiting' = Cardinality(Parked')
  BY <1>4, <1>7, Zenon
<1> QED BY <1>5, <1>6, <1>7, Zenon DEF ReceiversMove

\* receivers_waiting is exactly the number of parked receivers, so that a
\* rendezvous try_send sees room if and only if a receiver waits for it.
THEOREM ReceiversAreCounted == Spec => []ReceiversCounted
<1>1 Init => ReceiversCounted
  <2> SUFFICES ASSUME Init PROVE ReceiversCounted OBVIOUS
  <2>1 {p \in Procs : pc[p] = "not_empty"} = {} BY DEF Init
  <2> QED BY <2>1, FS_EmptySet, Zenon DEF Init, ReceiversCounted
<1> QED BY <1>1, InitType, TypeStep, ParkedStep, CountStep, PTL DEF Spec

\* While a thread sleeps in the wait named k, n others are on their way.
Covered(k, n) == Asleep(k) # {} => n <= Cardinality(Signalled(k))

\* Counting them.
LEMMA SignalledFinite ==
  ASSUME NEW k, NEW p
  PROVE  /\ IsFiniteSet(Signalled(k)) /\ Cardinality(Signalled(k)) \in Nat
         /\ IsFiniteSet(Signalled(k) \ {p}) /\ Cardinality(Signalled(k) \ {p}) \in Nat
         /\ Cardinality(Signalled(k) \ {p}) =
              IF p \in Signalled(k) THEN Cardinality(Signalled(k)) - 1
              ELSE Cardinality(Signalled(k))
<1>1 Signalled(k) \in SUBSET Procs BY Zenon DEF Signalled, WaitingIn
<1>2 IsFiniteSet(Signalled(k)) BY <1>1, ProcsAssumption, FS_Subset, Zenon
<1>3 IsFiniteSet(Signalled(k) \ {p}) BY <1>2, FS_RemoveElement, Zenon
<1> QED BY <1>2, <1>3, FS_CardinalityType, FS_RemoveElement, Zenon

\* The same in the next state.
LEMMA SignalledAfter ==
  ASSUME NEW k PROVE IsFiniteSet(Signalled(k)') /\ Cardinality(Signalled(k)') \in Nat
<1>1 Signalled(k)' \in SUBSET Procs BY Zenon DEF Signalled, WaitingIn
<1>2 IsFiniteSet(Signalled(k)') BY <1>1, ProcsAssumption, FS_Subset, Zenon
<1> QED BY <1>2, FS_CardinalityType, Zenon

\* More threads on their way are a larger number.
LEMMA SignalledMore ==
  ASSUME NEW k, NEW S, S \subseteq Signalled(k)'
  PROVE  Cardinality(S) <= Cardinality(Signalled(k)')
  BY SignalledAfter, FS_Subset, Zenon

\* A matched step keeps the wait covered.
LEMMA CoverStep ==
  ASSUME NEW k, NEW m \in Int, NEW n \in Int, Covered(k, n), Matches(k, m, n)
  PROVE  Asleep(k)' # {} => m <= Cardinality(Signalled(k)')
<1> DEFINE before == Cardinality(Signalled(k))
           after == Cardinality(Signalled(k)')
<1>1 before \in Nat /\ after \in Nat BY SignalledFinite, SignalledAfter, Zenon
<1>2 CASE m <= 0
  <2>1 \A b \in Nat : m <= b BY <1>2
  <2> QED BY <1>1, <2>1, Zenon
<1>3 CASE Asleep(k)' \subseteq Asleep(k) /\ m <= n /\ Signalled(k) \subseteq Signalled(k)'
  <2>1 before <= after BY <1>3, SignalledMore, Zenon
  <2>2 \A a, b \in Nat : a <= b /\ n <= a => m <= b BY <1>3
  <2> QED BY <1>1, <1>3, <2>1, <2>2, Zenon DEF Covered
<1>4 ASSUME Asleep(k)' \subseteq Asleep(k), m <= n - 1,
            NEW p \in Procs, Signalled(k) \ {p} \subseteq Signalled(k)'
     PROVE  Asleep(k)' # {} => m <= after
  <2>1 before <= after \/ before - 1 <= after BY <1>4, SignalledMore, SignalledFinite, Zenon
  <2>2 \A a, b \in Nat : (a <= b \/ a - 1 <= b) /\ n <= a => m <= b BY <1>4
  <2> QED BY <1>1, <1>4, <2>1, <2>2, Zenon DEF Covered
<1>5 ASSUME m <= n + 1, NEW q \in Asleep(k), Signalled(k) \cup {q} \subseteq Signalled(k)'
     PROVE  m <= after
  <2>1 q \notin Signalled(k) BY DEF Asleep, Signalled, WaitingIn
  <2>2 Cardinality(Signalled(k) \cup {q}) = before + 1
    BY <2>1, SignalledFinite, FS_AddElement, Zenon
  <2>3 before + 1 <= after BY <1>5, <2>2, SignalledMore, Zenon
  <2>4 \A a, b \in Nat : a + 1 <= b /\ n <= a => m <= b BY <1>5
  <2> QED BY <1>1, <1>5, <2>3, <2>4, Zenon DEF Covered
<1> QED BY <1>2, <1>3, <1>4, <1>5, Zenon DEF Matches

\* The queued values are covered by the receivers on their way.
ReceiverInv == "receive" \notin CopyFaults => Covered("not_empty", Len(queue))

\* Every step keeps them covered.
LEMMA ReceiverStep == IndType /\ IndType' /\ ReceiverInv /\ [Next]_vars => ReceiverInv'
<1> SUFFICES ASSUME IndType, IndType', [Next]_vars, "receive" \notin CopyFaults,
                    Covered("not_empty", Len(queue))
             PROVE  Covered("not_empty", Len(queue))'
  BY Zenon DEF ReceiverInv
<1>1 Len(queue) \in Int /\ Len(queue') \in Int BY DEF IndType, TypeOK
<1>2 Matches("not_empty", Len(queue'), Len(queue)) BY ReceiverMatches, Zenon
<1> QED BY <1>1, <1>2, CoverStep, Zenon DEF Covered

\* The free slots of a bounded channel are covered by the senders on their way.
RoomInv ==
  ~Rendezvous /\ "send" \notin CopyFaults => Covered("not_full", Slots - Len(queue))

\* Every step keeps them covered.
LEMMA RoomStep ==
  IndType /\ IndType' /\ SlotInv /\ ClosedWakesAll /\ RoomInv /\ [Next]_vars => RoomInv'
<1> SUFFICES ASSUME IndType, IndType', SlotInv, ClosedWakesAll, [Next]_vars,
                    ~Rendezvous, "send" \notin CopyFaults, Covered("not_full", Slots - Len(queue))
             PROVE  Covered("not_full", Slots - Len(queue))'
  BY Zenon DEF RoomInv, Rendezvous
<1>1 Slots - Len(queue) \in Int /\ Slots - Len(queue') \in Int
  BY CapacityAssumption DEF IndType, TypeOK, Slots
<1>2 Matches("not_full", Slots - Len(queue'), Slots - Len(queue)) BY RoomMatches, Zenon
<1> QED BY <1>1, <1>2, CoverStep, Zenon DEF Covered, Slots

\* A receiver never sleeps beside a value that nobody is coming for, unless
\* copying a received value into the receiver's VM may fail.
THEOREM ReceiversWake ==
  Spec => []("receive" \notin CopyFaults => NoReceiverOversleeps)
<1>1 Init => ReceiverInv
  BY Zenon DEF Init, ReceiverInv, Covered, Asleep, WaitingIn
<1>2 ReceiverInv => ("receive" \notin CopyFaults => NoReceiverOversleeps)
  BY Zenon DEF ReceiverInv, Covered, Asleep, Signalled, NoReceiverOversleeps
<1> QED BY <1>1, <1>2, InitType, TypeStep, ReceiverStep, PTL DEF Spec

\* A sender never sleeps beside a free slot that nobody is coming for, unless
\* on a bounded channel copying the value into the channel may fail.
THEOREM SendersWake ==
  Spec => [](Rendezvous \/ "send" \notin CopyFaults => NoSenderOversleeps)
<1>1 Init => SlotTakenInv /\ RoomInv
  <2> SUFFICES ASSUME Init PROVE Asleep("not_full") = {}
    BY Zenon DEF SlotTakenInv, RoomInv, Covered
  <2> QED BY Zenon DEF Init, Asleep, WaitingIn
<1>2 SlotTakenInv /\ RoomInv => (Rendezvous \/ "send" \notin CopyFaults => NoSenderOversleeps)
  <2> SUFFICES ASSUME SlotTakenInv, RoomInv, Rendezvous \/ "send" \notin CopyFaults,
                      Asleep("not_full") # {}
               PROVE  Slots - Len(queue) <= Cardinality(Signalled("not_full"))
    BY Zenon DEF NoSenderOversleeps, Asleep, Signalled
  <2>1 CASE Rendezvous
    <3>1 Len(queue) = Slots BY <2>1, Zenon DEF SlotTakenInv
    <3>2 Slots - Len(queue) = 0 BY <3>1, CapacityAssumption DEF Slots
    <3>3 Cardinality(Signalled("not_full")) \in Nat BY SignalledFinite, Zenon
    <3>4 \A n \in Nat : 0 <= n OBVIOUS
    <3> QED BY <3>2, <3>3, <3>4, Zenon
  <2>2 CASE ~Rendezvous BY <2>2, Zenon DEF RoomInv, Covered
  <2> QED BY <2>1, <2>2, Zenon
<1>3 Init => ClosedWakesAll BY Zenon DEF Init, ClosedWakesAll
<1> QED
  BY <1>1, <1>2, <1>3, BooksInit, InitType, TypeStep, SlotStep, ClosedStep, SlotTakenStep,
     RoomStep, PTL DEF Spec

=============================================================================
