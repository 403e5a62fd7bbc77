-------------------------- MODULE ProcessesProofs --------------------------
(***************************************************************************)
(* Proofs about the processes beside a VM: the children of Process.run and *)
(* Process.spawn, for any number of VMs, handles, pids and descriptors,    *)
(* and the workers of the jobs package.                                    *)
(*                                                                         *)
(* Descriptors need no strengthening beyond their types: what is claimed   *)
(* of a descriptor names its owner, and only the owner closes it.  For the *)
(* children the invariant adds that an allocated handle has a pid, which   *)
(* is true until the first Process.spawn that fails to start.              *)
(***************************************************************************)
EXTENDS Processes, JobQueue, TLAPS

\* What the finalizers and the operations of a handle rely on.
OwnersAreStarted ==
  /\ \A h \in Handles : /\ held[h] \subseteq there[h]
                        /\ "handle" \in there[h] => pid[h] \in Pids
  /\ \A v \in Vms : at[v] # "idle" => pid[v] \in Pids

\* The inductive invariant about children.
ChildInv == TypeOK /\ OwnersAreStarted /\ EveryChildAwaits /\ NoneStruck

-----------------------------------------------------------------------------
(***************************************************************************)
(* New descriptors.                                                        *)
(***************************************************************************)

\* The descriptors of new pipes are free ones, one for each end that is kept.
LEMMA NewEndsAreNew ==
  ASSUME NEW K \in SUBSET Ends, CanOpen(K)
  PROVE  NewEnds(K) \in [Ends -> Fds \cup {NoFd}] /\ IsNew(NewEnds(K), K)
BY Zenon DEF CanOpen, NewEnds

\* Only ends of a pipe are kept.
LEMMA KeptEnds == ASSUME NEW K \in SpawnEnds PROVE K \subseteq Ends
BY EndsAssumption, Zenon DEF Ends

-----------------------------------------------------------------------------
(***************************************************************************)
(* The type invariant.                                                     *)
(***************************************************************************)

\* At first nothing is started and nothing is open.
LEMMA TypeInit == Init => TypeOK
<1> SUFFICES ASSUME Init PROVE TypeOK
  OBVIOUS
<1>1. failed \in BOOLEAN
  BY Zenon DEF Init
<1> QED
  BY <1>1, Zenon DEF Init, TypeOK, Owners, Objects, Closed

\* Every step of Process.run, Process.spawn, the handles and the kernel keeps
\* the tables well formed.
LEMMA TypeStep == TypeOK /\ [Next]_vars => TypeOK'
<1> SUFFICES ASSUME TypeOK, [Next]_vars PROVE TypeOK'
  OBVIOUS
<1> USE DEF TypeOK, Owners, Objects
<1>1. ASSUME NEW p \in Pids, ChildExits(p) \/ OtherStarts(p) \/ OtherEnds(p) PROVE TypeOK'
  BY <1>1, Zenon DEF ChildExits, OtherStarts, OtherEnds
<1>2. ASSUME NEW h \in Handles, NEW p \in Pids, NEW K \in SpawnEnds,
             process_spawn_with_options(h, p, K)
      PROVE  TypeOK'
  <2>1. K \subseteq Ends /\ NewEnds(K) \in [Ends -> Fds \cup {NoFd}]
    BY <1>2, KeptEnds, NewEndsAreNew, Zenon DEF process_spawn_with_options
  <2>2. table' \in [Fds -> Owners \cup {Nobody}]
    BY <1>2, Zenon DEF process_spawn_with_options, Opened
  <2> QED
    BY <1>2, <2>1, <2>2, Zenon DEF process_spawn_with_options, Start
<1>3. ASSUME NEW h \in Handles, NEW p \in Pids, NEW K \in SpawnEnds,
             NEW made \in SUBSET K, NEW open \in SUBSET K,
             SpawnRunsOutOfMemory(h, p, K, made, open)
      PROVE  TypeOK'
  <2>1. K \subseteq Ends /\ NewEnds(K) \in [Ends -> Fds \cup {NoFd}]
    BY <1>3, KeptEnds, NewEndsAreNew, Zenon DEF SpawnRunsOutOfMemory
  <2>2. table' \in [Fds -> Owners \cup {Nobody}]
    BY <1>3, Zenon DEF SpawnRunsOutOfMemory, Opened
  <2>3. ends' \in [Owners -> [Ends -> Fds \cup {NoFd}]]
    BY <1>3, <2>1, Zenon DEF SpawnRunsOutOfMemory
  <2> QED
    BY <1>3, <2>1, <2>2, <2>3, Zenon DEF SpawnRunsOutOfMemory, Start
<1>4. ASSUME NEW h \in Handles, SpawnFailsToStart(h) PROVE TypeOK'
  BY <1>4, Zenon DEF SpawnFailsToStart
<1>5. ASSUME NEW h \in Handles, Wait(h) PROVE TypeOK'
  BY <1>5, Zenon DEF Wait, process_wait_helper, Reap
<1>6. ASSUME NEW h \in Handles, Signal(h) PROVE TypeOK'
  BY <1>6, Zenon DEF Signal, Strike
<1>7. ASSUME NEW h \in Handles, NEW keep \in SUBSET Ends, Forget(h, keep) PROVE TypeOK'
  BY <1>7, Zenon DEF Forget
<1>8. ASSUME NEW h \in Handles, SweepHandle(h) PROVE TypeOK'
  <2>1. /\ st' \in [Pids -> {"free", "running", "zombie", "other", "struck"}]
        /\ of' \in [Pids -> Owners \cup {Nobody}]
    BY <1>8 DEF SweepHandle, Reap
  <2> QED
    BY <1>8, <2>1, Zenon DEF SweepHandle
<1>9. ASSUME NEW h \in Handles, NEW e \in Ends, Close(h, e) \/ SweepStream(h, e)
      PROVE  TypeOK'
  <2>1. table' \in [Fds -> Owners \cup {Nobody}]
    BY <1>9 DEF Close, CloseStream, SweepStream, Shut
  <2>2. ends' = [ends EXCEPT ![h][e] = NoFd]
    BY <1>9, Zenon DEF Close, CloseStream, SweepStream
  <2>3. ends' \in [Owners -> [Ends -> Fds \cup {NoFd}]]
    BY <2>2, Zenon
  <2>4. there' \in [Handles -> SUBSET Objects]
    BY <1>9 DEF Close, SweepStream
  <2>5. UNCHANGED <<st, of, pid, reaped, held, at, failed>>
    BY <1>9, Zenon DEF Close, SweepStream
  <2> QED
    BY <2>1, <2>3, <2>4, <2>5, Zenon
<1>10. ASSUME NEW v \in Vms, NEW p \in Pids, NEW K \in SUBSET Ends, RunStarts(v, p, K)
       PROVE  TypeOK'
  <2>1. NewEnds(K) \in [Ends -> Fds \cup {NoFd}]
    BY <1>10, NewEndsAreNew, Zenon DEF RunStarts
  <2>2. table' \in [Fds -> Owners \cup {Nobody}]
    BY <1>10, Zenon DEF RunStarts, Opened
  <2> QED
    BY <1>10, <2>1, <2>2, Zenon DEF RunStarts, Start
<1>11. ASSUME NEW v \in Vms, NEW e \in Ends, RunClosesEnd(v, e) PROVE TypeOK'
  BY <1>11, Zenon DEF RunClosesEnd, Shut
<1>12. ASSUME NEW v \in Vms, NEW next \in {"reap", "interrupted"}, RunLeavesLoop(v, next)
       PROVE  TypeOK'
  BY <1>12, Zenon DEF RunLeavesLoop, Shut, Closed
<1>13. ASSUME NEW v \in Vms, RunInterrupted(v) \/ RunKills(v) \/ RunReaps(v) PROVE TypeOK'
  <2>1. CASE RunInterrupted(v)
    BY <2>1, Zenon DEF RunInterrupted
  <2>2. CASE RunKills(v)
    BY <2>2, Zenon DEF RunKills, Strike
  <2>3. CASE RunReaps(v)
    <3>1. /\ st' \in [Pids -> {"free", "running", "zombie", "other", "struck"}]
          /\ of' \in [Pids -> Owners \cup {Nobody}]
      BY <2>3, Zenon DEF RunReaps, Reap
    <3> QED
      BY <2>3, <3>1, Zenon DEF RunReaps
  <2> QED
    BY <1>13, <2>1, <2>2, <2>3, Zenon
<1>14. CASE UNCHANGED vars
  BY <1>14, Zenon DEF vars
<1> QED
  BY <1>1, <1>2, <1>3, <1>4, <1>5, <1>6, <1>7, <1>8, <1>9, <1>10, <1>11, <1>12, <1>13,
     <1>14, Zenon DEF Next

-----------------------------------------------------------------------------
(***************************************************************************)
(* Descriptors.                                                            *)
(***************************************************************************)

\* Opening free descriptors for an owner's ends takes none away from another.
LEMMA OpeningKeepsOwners ==
  ASSUME TypeOK, DescriptorIsItsOwners,
         NEW o \in Owners, NEW K \in SUBSET Ends, CanOpen(K), NEW made \in SUBSET K,
         NEW open \in SUBSET K, made \subseteq open,
         table' = Opened(NewEnds(K), open, o),
         ends' = [ends EXCEPT ![o] = [e \in Ends |-> IF e \in made THEN NewEnds(K)[e] ELSE NoFd]],
         \A h \in Handles \ {o} : there'[h] = there[h],
         o \in Handles => made \subseteq there'[o]
  PROVE  DescriptorIsItsOwners'
<1> DEFINE new == NewEnds(K)
<1>1. /\ \A e \in K : new[e] \in Fds /\ table[new[e]] = Nobody
      /\ \A e, d \in K : new[e] = new[d] => e = d
  BY NewEndsAreNew, Zenon DEF IsNew
<1>2. \A f \in Fds : table'[f] = IF \E e \in open : new[e] = f THEN o ELSE table[f]
  BY Zenon DEF Opened
<1> HIDE DEF new
<1>3. \A e \in Ends : ends'[o][e] = IF e \in made THEN new[e] ELSE NoFd
  BY Zenon DEF TypeOK, new
<1>4. \A q \in Owners \ {o} : ends'[q] = ends[q]
  BY Zenon DEF TypeOK
<1>5. SUFFICES ASSUME NEW q \in Owners, NEW e \in Ends, ends'[q][e] # NoFd
               PROVE  /\ table'[ends'[q][e]] = q
                      /\ \A d \in Ends : ends'[q][d] = ends'[q][e] => d = e
                      /\ q \in Handles => e \in there'[q]
  BY Zenon DEF DescriptorIsItsOwners
<1>6. CASE q = o
  BY <1>1, <1>2, <1>3, <1>5, <1>6
<1>7. CASE q # o
  <2>1. ends[q][e] \in Fds /\ table[ends[q][e]] = q
    BY <1>4, <1>5, <1>7 DEF TypeOK, DescriptorIsItsOwners
  <2>2. table[ends[q][e]] # Nobody
    BY <2>1, OwnersAssumption, Zenon DEF Owners
  <2>3. table'[ends[q][e]] = q
    BY <1>1, <1>2, <2>1, <2>2
  <2> QED
    BY <1>4, <1>5, <1>7, <2>3 DEF DescriptorIsItsOwners
<1> QED
  BY <1>6, <1>7, Zenon

\* Closing an owner's ends takes none away from another, nor another end of its own.
LEMMA ClosingKeepsOwners ==
  ASSUME TypeOK, DescriptorIsItsOwners,
         NEW o \in Owners, NEW K \in SUBSET Ends,
         table' = Shut(ends[o], K),
         \A e \in Ends : ends'[o][e] = IF e \in K THEN NoFd ELSE ends[o][e],
         \A q \in Owners \ {o} : ends'[q] = ends[q],
         \A h \in Handles \ {o} : there'[h] = there[h],
         o \in Handles => there[o] \ K \subseteq there'[o]
  PROVE  DescriptorIsItsOwners'
<1>1. \A f \in Fds : table'[f] = IF \E e \in K : ends[o][e] = f THEN Nobody ELSE table[f]
  BY Zenon DEF Shut
<1>2. SUFFICES ASSUME NEW q \in Owners, NEW e \in Ends, ends'[q][e] # NoFd
               PROVE  /\ table'[ends'[q][e]] = q
                      /\ \A d \in Ends : ends'[q][d] = ends'[q][e] => d = e
                      /\ q \in Handles => e \in there'[q]
  BY Zenon DEF DescriptorIsItsOwners
<1>3. ends'[q][e] = ends[q][e] /\ ends[q][e] \in Fds
  BY <1>2 DEF TypeOK
<1>4. CASE q = o
  <2>1. e \notin K
    BY <1>2, <1>4, Zenon
  <2>2. table'[ends[q][e]] = table[ends[q][e]]
    BY <1>1, <1>2, <1>3, <1>4, <2>1 DEF DescriptorIsItsOwners
  <2> QED
    BY <1>2, <1>3, <1>4, <2>1, <2>2 DEF DescriptorIsItsOwners
<1>5. CASE q # o
  <2>1. \A d \in K : ends[o][d] # ends[q][e]
    BY <1>2, <1>3, <1>5 DEF DescriptorIsItsOwners
  <2> QED
    BY <1>1, <1>2, <1>3, <1>5, <2>1 DEF DescriptorIsItsOwners
<1> QED
  BY <1>4, <1>5, Zenon

\* A step that leaves descriptors and streams alone.
LEMMA SameDescriptors ==
  ASSUME DescriptorIsItsOwners, table' = table, ends' = ends,
         \A h \in Handles : there[h] \cap Ends \subseteq there'[h]
  PROVE  DescriptorIsItsOwners'
BY DEF DescriptorIsItsOwners

\* Every step keeps each descriptor with its owner.
LEMMA DescriptorStep == TypeOK /\ DescriptorIsItsOwners /\ [Next]_vars => DescriptorIsItsOwners'
<1> SUFFICES ASSUME TypeOK, DescriptorIsItsOwners, [Next]_vars PROVE DescriptorIsItsOwners'
  OBVIOUS
<1>1. ASSUME NEW p \in Pids, ChildExits(p) \/ OtherStarts(p) \/ OtherEnds(p)
      PROVE  DescriptorIsItsOwners'
  BY <1>1, SameDescriptors, Zenon DEF ChildExits, OtherStarts, OtherEnds
<1>2. ASSUME NEW h \in Handles, NEW p \in Pids, NEW K \in SpawnEnds,
             process_spawn_with_options(h, p, K)
      PROVE  DescriptorIsItsOwners'
  <2>1. K \subseteq Ends /\ CanOpen(K) /\ h \in Owners
    BY <1>2, KeptEnds, Zenon DEF process_spawn_with_options, Owners
  <2>2. NewEnds(K) = [e \in Ends |-> IF e \in K THEN NewEnds(K)[e] ELSE NoFd]
    BY <2>1, NewEndsAreNew DEF IsNew
  <2>3. table' = Opened(NewEnds(K), K, h) /\ ends' = [ends EXCEPT ![h] = NewEnds(K)]
    BY <1>2, Zenon DEF process_spawn_with_options
  <2>4. K \subseteq there'[h] /\ \A k \in Handles \ {h} : there'[k] = there[k]
    BY <1>2, Zenon DEF process_spawn_with_options, TypeOK
  <2> QED
    BY <2>1, <2>2, <2>3, <2>4, OpeningKeepsOwners, Zenon
<1>3. ASSUME NEW h \in Handles, NEW p \in Pids, NEW K \in SpawnEnds,
             NEW made \in SUBSET K, NEW open \in SUBSET K,
             SpawnRunsOutOfMemory(h, p, K, made, open)
      PROVE  DescriptorIsItsOwners'
  <2>1. K \subseteq Ends /\ CanOpen(K) /\ h \in Owners /\ made \subseteq open
    BY <1>3, KeptEnds, Zenon DEF SpawnRunsOutOfMemory, Owners
  <2>2. made \subseteq there'[h] /\ \A k \in Handles \ {h} : there'[k] = there[k]
    BY <1>3, Zenon DEF SpawnRunsOutOfMemory, TypeOK
  <2> QED
    BY <1>3, <2>1, <2>2, OpeningKeepsOwners, Zenon DEF SpawnRunsOutOfMemory
<1>4. ASSUME NEW h \in Handles, SpawnFailsToStart(h) \/ SweepHandle(h)
      PROVE  DescriptorIsItsOwners'
  <2>1. \A k \in Handles : there[k] \cap Ends \subseteq there'[k]
    BY <1>4 DEF SpawnFailsToStart, SweepHandle, TypeOK, Ends
  <2> QED
    BY <1>4, <2>1, SameDescriptors, Zenon DEF SpawnFailsToStart, SweepHandle
<1>5. ASSUME NEW h \in Handles,
             Wait(h) \/ Signal(h) \/ (\E keep \in SUBSET Ends : Forget(h, keep))
      PROVE  DescriptorIsItsOwners'
  BY <1>5, SameDescriptors, Zenon DEF Wait, Signal, Forget
<1>6. ASSUME NEW h \in Handles, NEW e \in Ends, Close(h, e) \/ SweepStream(h, e)
      PROVE  DescriptorIsItsOwners'
  <2>1. table' = Shut(ends[h], {e}) /\ ends' = [ends EXCEPT ![h][e] = NoFd]
    BY <1>6, Zenon DEF Close, CloseStream, SweepStream
  <2>2. /\ \A d \in Ends : ends'[h][d] = IF d \in {e} THEN NoFd ELSE ends[h][d]
        /\ \A q \in Owners \ {h} : ends'[q] = ends[q]
    BY <2>1, Zenon DEF TypeOK, Owners
  <2>3. /\ there[h] \ {e} \subseteq there'[h]
        /\ \A k \in Handles \ {h} : there'[k] = there[k]
    BY <1>6, Zenon DEF Close, SweepStream, TypeOK
  <2>4. h \in Owners
    BY Zenon DEF Owners
  <2> QED
    BY <2>1, <2>2, <2>3, <2>4, ClosingKeepsOwners
<1>7. ASSUME NEW v \in Vms, NEW p \in Pids, NEW K \in SUBSET Ends, RunStarts(v, p, K)
      PROVE  DescriptorIsItsOwners'
  <2>1. CanOpen(K) /\ v \in Owners /\ v \notin Handles
    BY <1>7, OwnersAssumption, Zenon DEF RunStarts, Owners
  <2>2. NewEnds(K) = [e \in Ends |-> IF e \in K THEN NewEnds(K)[e] ELSE NoFd]
    BY <2>1, NewEndsAreNew, Zenon DEF IsNew
  <2>3. /\ table' = Opened(NewEnds(K), K, v)
        /\ ends' = [ends EXCEPT ![v] = NewEnds(K)] /\ there' = there
    BY <1>7, Zenon DEF RunStarts
  <2> QED
    BY <2>1, <2>2, <2>3, OpeningKeepsOwners, Zenon
<1>8. ASSUME NEW v \in Vms, NEW e \in Ends, RunClosesEnd(v, e) PROVE DescriptorIsItsOwners'
  <2>1. table' = Shut(ends[v], {e}) /\ ends' = [ends EXCEPT ![v][e] = NoFd] /\ there' = there
    BY <1>8, Zenon DEF RunClosesEnd
  <2>2. /\ \A d \in Ends : ends'[v][d] = IF d \in {e} THEN NoFd ELSE ends[v][d]
        /\ \A q \in Owners \ {v} : ends'[q] = ends[q]
    BY <2>1, Zenon DEF TypeOK, Owners
  <2>3. v \in Owners /\ v \notin Handles
    BY OwnersAssumption, Zenon DEF Owners
  <2> QED
    BY <2>1, <2>2, <2>3, ClosingKeepsOwners
<1>9. ASSUME NEW v \in Vms, NEW next \in {"reap", "interrupted"}, RunLeavesLoop(v, next)
      PROVE  DescriptorIsItsOwners'
  <2>1. table' = Shut(ends[v], Ends) /\ ends' = [ends EXCEPT ![v] = Closed] /\ there' = there
    BY <1>9, Zenon DEF RunLeavesLoop
  <2>2. /\ \A d \in Ends : ends'[v][d] = IF d \in Ends THEN NoFd ELSE ends[v][d]
        /\ \A q \in Owners \ {v} : ends'[q] = ends[q]
    BY <2>1, Zenon DEF TypeOK, Owners, Closed
  <2>3. v \in Owners /\ v \notin Handles
    BY OwnersAssumption, Zenon DEF Owners
  <2> QED
    BY <2>1, <2>2, <2>3, ClosingKeepsOwners, Zenon
<1>10. ASSUME NEW v \in Vms, RunInterrupted(v) \/ RunKills(v) \/ RunReaps(v)
       PROVE  DescriptorIsItsOwners'
  BY <1>10, SameDescriptors, Zenon DEF RunInterrupted, RunKills, RunReaps
<1>11. CASE UNCHANGED vars
  BY <1>11, SameDescriptors, Zenon DEF vars
<1> QED
  BY <1>1, <1>2, <1>3, <1>4, <1>5, <1>6, <1>7, <1>8, <1>9, <1>10, <1>11, Zenon DEF Next

\* However Process.run, Process.spawn, close, the finalizers and the failures of
\* a spawn interleave, every descriptor that is held was opened for its holder.
THEOREM DescriptorsStayWithTheirOwners == Spec => []DescriptorIsItsOwners
<1>1. Init => TypeOK /\ DescriptorIsItsOwners
  BY TypeInit DEF Init, DescriptorIsItsOwners, Closed
<1>2. TypeOK /\ DescriptorIsItsOwners /\ [Next]_vars => (TypeOK /\ DescriptorIsItsOwners)'
  BY TypeStep, DescriptorStep, Zenon
<1> QED
  BY <1>1, <1>2, PTL DEF Spec

-----------------------------------------------------------------------------
(***************************************************************************)
(* Children.                                                               *)
(***************************************************************************)

\* A child started for an owner that awaits none disturbs no other owner.
LEMMA StartKeepsChildren ==
  ASSUME ChildInv, NEW o \in Owners, NEW p \in Pids, Start(p, o),
         \A q \in Owners \ {o} : Awaits(q)' => Awaits(q)
  PROVE  EveryChildAwaits' /\ NoneStruck'
<1> USE DEF ChildInv
<1>1. /\ st' = [st EXCEPT ![p] = "running"] /\ of' = [of EXCEPT ![p] = o]
      /\ pid' = [pid EXCEPT ![o] = p] /\ st[p] = "free"
  BY Zenon DEF Start
<1>2. NoneStruck'
  BY <1>1, Zenon DEF TypeOK, NoneStruck
<1>3. ASSUME NEW q \in Owners, Awaits(q)', pid'[q] # 0
      PROVE  st'[pid'[q]] \in {"running", "zombie"} /\ of'[pid'[q]] = q
  <2>1. CASE q = o
    BY <1>1, <2>1, Zenon DEF TypeOK, IsChild
  <2>2. CASE q # o
    <3>1. pid'[q] = pid[q] /\ pid[q] \in Pids /\ IsChild(pid[q]) /\ of[pid[q]] = q
      BY <1>1, <1>3, <2>2, Zenon DEF TypeOK, EveryChildAwaits
    <3>2. pid[q] # p
      BY <1>1, <3>1, Zenon DEF IsChild
    <3> QED
      BY <1>1, <3>1, <3>2, Zenon DEF TypeOK, IsChild
  <2> QED
    BY <2>1, <2>2, Zenon
<1>4. EveryChildAwaits'
  BY <1>3, Zenon DEF EveryChildAwaits, IsChild
<1> QED
  BY <1>2, <1>4, Zenon

\* A child that its own owner reaps, after which it awaits none, is no other's.
LEMMA ReapKeepsChildren ==
  ASSUME ChildInv, NEW o \in Owners, Awaits(o), pid[o] \in Pids, Reap(pid[o]), ~Awaits(o)',
         \A q \in Owners \ {o} : pid'[q] = pid[q] /\ (Awaits(q)' => Awaits(q))
  PROVE  EveryChildAwaits' /\ NoneStruck'
<1> USE DEF ChildInv
<1>1. /\ st' = [st EXCEPT ![pid[o]] = "free"] /\ of' = [of EXCEPT ![pid[o]] = Nobody]
      /\ of[pid[o]] = o
  BY PidsAssumption, Zenon DEF Reap, EveryChildAwaits
<1>2. NoneStruck'
  BY <1>1, Zenon DEF TypeOK, NoneStruck
<1>3. ASSUME NEW q \in Owners, Awaits(q)', pid'[q] # 0
      PROVE  st'[pid'[q]] \in {"running", "zombie"} /\ of'[pid'[q]] = q
  <2>1. q # o /\ pid'[q] = pid[q] /\ pid[q] \in Pids /\ IsChild(pid[q]) /\ of[pid[q]] = q
    BY <1>3, Zenon DEF TypeOK, EveryChildAwaits
  <2>2. pid[q] # pid[o]
    BY <1>1, <2>1, Zenon
  <2> QED
    BY <1>1, <2>1, <2>2, Zenon DEF TypeOK, IsChild
<1>4. EveryChildAwaits'
  BY <1>3, Zenon DEF EveryChildAwaits, IsChild
<1> QED
  BY <1>2, <1>4, Zenon

\* A signal to an awaited child leaves it a child.
LEMMA StrikeKeepsChildren ==
  ASSUME ChildInv, NEW o \in Owners, Awaits(o), pid[o] \in Pids, Strike(pid[o]),
         of' = of, pid' = pid, \A q \in Owners : Awaits(q)' => Awaits(q)
  PROVE  EveryChildAwaits' /\ NoneStruck'
<1> USE DEF ChildInv
<1>1. st[pid[o]] \in {"running", "zombie"}
  BY PidsAssumption, Zenon DEF EveryChildAwaits, IsChild
<1>2. st' = [st EXCEPT ![pid[o]] = "zombie"]
  BY <1>1, Zenon DEF Strike, TypeOK
<1>3. NoneStruck'
  BY <1>2, Zenon DEF TypeOK, NoneStruck
<1>4. \A q \in Pids : IsChild(q) => IsChild(q)'
  BY <1>2, Zenon DEF TypeOK, IsChild
<1>5. EveryChildAwaits'
  BY <1>4 DEF TypeOK, EveryChildAwaits, IsChild
<1> QED
  BY <1>3, <1>5, Zenon

\* A step that leaves the process table alone.
LEMMA SameChildren ==
  ASSUME ChildInv, st' = st, of' = of,
         \A q \in Owners : Awaits(q)' => Awaits(q) /\ pid'[q] = pid[q]
  PROVE  EveryChildAwaits' /\ NoneStruck'
BY Zenon DEF ChildInv, EveryChildAwaits, NoneStruck, IsChild

\* Every step keeps the children with their owners, unless a spawn fails to start.
LEMMA ChildStep ==
  ASSUME ~failed', ChildInv, [Next]_vars
  PROVE  OwnersAreStarted' /\ EveryChildAwaits' /\ NoneStruck'
<1> DEFINE Goal == OwnersAreStarted' /\ EveryChildAwaits' /\ NoneStruck'
<1>0. TypeOK /\ OwnersAreStarted
  BY Zenon DEF ChildInv
<1>a. /\ \A v \in Vms : v \notin Handles /\ v \in Owners
      /\ \A h \in Handles : h \notin Vms /\ h \in Owners
  BY OwnersAssumption, Zenon DEF Owners
<1>b. 0 \notin Pids
  BY PidsAssumption, Zenon
<1>1. ASSUME NEW p \in Pids, ChildExits(p) \/ OtherStarts(p) \/ OtherEnds(p) PROVE Goal
  <2>1. UNCHANGED <<of, pid, reaped, there, held, at>>
    BY <1>1, Zenon DEF ChildExits, OtherStarts, OtherEnds
  <2>2. OwnersAreStarted'
    BY <1>0, <2>1, Zenon DEF OwnersAreStarted
  <2>3. NoneStruck'
    BY <1>0, <1>1, Zenon DEF ChildInv, NoneStruck, ChildExits, OtherStarts, OtherEnds, TypeOK
  <2>4. \A q \in Pids : st[q] \in {"running", "zombie"} => st'[q] \in {"running", "zombie"}
    BY <1>0, <1>1, Zenon DEF ChildExits, OtherStarts, OtherEnds, TypeOK
  <2>5. EveryChildAwaits'
    BY <1>0, <2>1, <2>4 DEF ChildInv, EveryChildAwaits, Awaits, IsChild, TypeOK
  <2> QED
    BY <2>2, <2>3, <2>5, Zenon
<1>2. ASSUME NEW h \in Handles, NEW p \in Pids, NEW K \in SpawnEnds,
             \/ process_spawn_with_options(h, p, K)
             \/ \E made, open \in SUBSET K : SpawnRunsOutOfMemory(h, p, K, made, open)
      PROVE  Goal
  <2>1. /\ Start(p, h) /\ at' = at
        /\ \A k \in Handles \ {h} :
             there'[k] = there[k] /\ held'[k] = held[k] /\ reaped'[k] = reaped[k]
        /\ held'[h] \subseteq there'[h]
    <3>1. CASE process_spawn_with_options(h, p, K)
      BY <1>0, <3>1, Zenon DEF process_spawn_with_options, TypeOK
    <3>2. CASE \E made, open \in SUBSET K : SpawnRunsOutOfMemory(h, p, K, made, open)
      BY <1>0, <3>2, Zenon DEF SpawnRunsOutOfMemory, TypeOK, OwnersAreStarted
    <3> QED
      BY <1>2, <3>1, <3>2, Zenon
  <2>2. pid' = [pid EXCEPT ![h] = p]
    BY <2>1, Zenon DEF Start
  <2>3. OwnersAreStarted'
    BY <1>0, <1>a, <2>1, <2>2, Zenon DEF OwnersAreStarted, TypeOK
  <2>4. \A q \in Owners \ {h} : Awaits(q)' => Awaits(q)
    BY <1>a, <2>1, Zenon DEF Awaits, Owners
  <2> QED
    BY <1>a, <2>1, <2>3, <2>4, StartKeepsChildren, Zenon
<1>3. ASSUME NEW h \in Handles, SpawnFailsToStart(h) PROVE Goal
  BY <1>3, Zenon DEF SpawnFailsToStart
<1>4. ASSUME NEW h \in Handles, Wait(h) PROVE Goal
  <2>1. /\ Reap(pid[h]) /\ reaped' = [reaped EXCEPT ![h] = TRUE]
        /\ "handle" \in held[h] /\ ~reaped[h] /\ UNCHANGED <<pid, there, held, at>>
    BY <1>4, Zenon DEF Wait, process_wait_helper
  <2>2. OwnersAreStarted'
    BY <1>0, <2>1, Zenon DEF OwnersAreStarted
  <2>3. pid[h] \in Pids /\ Awaits(h) /\ ~Awaits(h)'
    BY <1>0, <1>a, <2>1, Zenon DEF OwnersAreStarted, Awaits, TypeOK
  <2>4. \A q \in Owners \ {h} : Awaits(q)' => Awaits(q)
    BY <1>0, <1>a, <2>1, Zenon DEF Awaits, Owners, TypeOK
  <2> QED
    BY <1>a, <2>1, <2>2, <2>3, <2>4, ReapKeepsChildren, Zenon
<1>5. ASSUME NEW h \in Handles, Signal(h) PROVE Goal
  <2>1. /\ Strike(pid[h]) /\ "handle" \in held[h] /\ ~reaped[h]
        /\ UNCHANGED <<of, pid, reaped, there, held, at>>
    BY <1>5, Zenon DEF Signal
  <2>2. OwnersAreStarted' /\ pid[h] \in Pids /\ Awaits(h)
    BY <1>0, <1>a, <2>1, Zenon DEF OwnersAreStarted, Awaits
  <2>3. \A q \in Owners : Awaits(q)' => Awaits(q)
    BY <2>1, Zenon DEF Awaits
  <2> QED
    BY <1>a, <2>1, <2>2, <2>3, StrikeKeepsChildren, Zenon
<1>6. ASSUME NEW h \in Handles, NEW keep \in SUBSET Ends, Forget(h, keep) PROVE Goal
  <2>1. /\ UNCHANGED <<st, of, pid, reaped, there, at>>
        /\ held' = [held EXCEPT ![h] = keep] /\ keep \subseteq Reached(h)
    BY <1>6, Zenon DEF Forget
  <2>2. OwnersAreStarted'
    BY <1>0, <2>1, Zenon DEF OwnersAreStarted, Reached, TypeOK
  <2>3. \A q \in Owners : (Awaits(q)' => Awaits(q)) /\ pid'[q] = pid[q]
    BY <2>1, Zenon DEF Awaits
  <2> QED
    BY <2>1, <2>2, <2>3, SameChildren, Zenon
<1>7. ASSUME NEW h \in Handles, SweepHandle(h) PROVE Goal
  <2>1. /\ "handle" \in there[h] /\ "handle" \notin Reached(h)
        /\ there' = [there EXCEPT ![h] = @ \ {"handle"}]
        /\ pid' = [pid EXCEPT ![h] = 0] /\ reaped' = [reaped EXCEPT ![h] = FALSE]
        /\ UNCHANGED <<held, at>>
    BY <1>7, Zenon DEF SweepHandle
  <2>2. pid[h] \in Pids /\ "handle" \notin held[h]
    BY <1>0, <2>1, Zenon DEF OwnersAreStarted, Reached
  <2>3. OwnersAreStarted'
    BY <1>0, <1>a, <2>1, <2>2, Zenon DEF OwnersAreStarted, TypeOK, Owners
  <2>4. /\ ~Awaits(h)'
        /\ \A q \in Owners \ {h} : pid'[q] = pid[q] /\ (Awaits(q)' => Awaits(q))
    BY <1>0, <1>a, <2>1, Zenon DEF Awaits, Owners, TypeOK
  <2>5. CASE ~reaped[h] /\ Reap(pid[h])
    <3>1. Awaits(h)
      BY <1>a, <2>1, <2>5, Zenon DEF Awaits
    <3> QED
      BY <1>a, <2>2, <2>3, <2>4, <2>5, <3>1, ReapKeepsChildren, Zenon
  <2>6. CASE of' = [p \in Pids |-> IF of[p] = h THEN Nobody ELSE of[p]] /\ UNCHANGED st
    <3>1. NoneStruck'
      BY <2>6, Zenon DEF ChildInv, NoneStruck
    <3>2. EveryChildAwaits'
      BY <1>0, <2>4, <2>6 DEF ChildInv, EveryChildAwaits, IsChild, TypeOK
    <3> QED
      BY <2>3, <3>1, <3>2, Zenon
  <2> QED
    BY <1>7, <1>b, <2>2, <2>5, <2>6, Zenon DEF SweepHandle
<1>8. ASSUME NEW h \in Handles, NEW e \in Ends, Close(h, e) \/ SweepStream(h, e) PROVE Goal
  <2>1. /\ UNCHANGED <<st, of, pid, reaped, held, at, failed>>
        /\ \A k \in Handles : "handle" \in there'[k] => "handle" \in there[k]
        /\ \A k \in Handles : held'[k] \subseteq there'[k]
    BY <1>0, <1>8 DEF Close, SweepStream, Reached, TypeOK, OwnersAreStarted, Ends
  <2>2. OwnersAreStarted'
    BY <1>0, <2>1, Zenon DEF OwnersAreStarted
  <2>3. \A q \in Owners : (Awaits(q)' => Awaits(q)) /\ pid'[q] = pid[q]
    BY <1>a, <2>1, Zenon DEF Awaits, Owners
  <2> QED
    BY <2>1, <2>2, <2>3, SameChildren, Zenon
<1>9. ASSUME NEW v \in Vms, NEW p \in Pids, NEW K \in SUBSET Ends, RunStarts(v, p, K)
      PROVE  Goal
  <2>1. /\ Start(p, v) /\ UNCHANGED <<reaped, there, held>>
        /\ at' = [at EXCEPT ![v] = "pipes"]
    BY <1>9, Zenon DEF RunStarts
  <2>2. pid' = [pid EXCEPT ![v] = p]
    BY <2>1, Zenon DEF Start
  <2>3. OwnersAreStarted'
    BY <1>0, <1>a, <2>1, <2>2, Zenon DEF OwnersAreStarted, TypeOK
  <2>4. \A q \in Owners \ {v} : Awaits(q)' => Awaits(q)
    BY <1>0, <1>a, <2>1, Zenon DEF Awaits, Owners, TypeOK
  <2> QED
    BY <1>a, <2>1, <2>3, <2>4, StartKeepsChildren, Zenon
<1>10. ASSUME NEW v \in Vms,
              \/ \E e \in Ends : RunClosesEnd(v, e)
              \/ \E next \in {"reap", "interrupted"} : RunLeavesLoop(v, next)
              \/ RunInterrupted(v)
       PROVE  Goal
  <2>1. /\ UNCHANGED <<st, of, pid, reaped, there, held>>
        /\ \A w \in Vms : at'[w] # "idle" => at[w] # "idle"
    BY <1>0, <1>10, Zenon DEF RunClosesEnd, RunLeavesLoop, RunInterrupted, TypeOK
  <2>2. OwnersAreStarted'
    BY <1>0, <2>1, Zenon DEF OwnersAreStarted
  <2>3. \A q \in Owners : (Awaits(q)' => Awaits(q)) /\ pid'[q] = pid[q]
    BY <1>a, <2>1, Zenon DEF Awaits, Owners
  <2> QED
    BY <2>1, <2>2, <2>3, SameChildren, Zenon
<1>11. ASSUME NEW v \in Vms, RunKills(v) PROVE Goal
  <2>1. /\ Strike(pid[v]) /\ at[v] = "interrupted" /\ at' = [at EXCEPT ![v] = "killed"]
        /\ UNCHANGED <<of, pid, reaped, there, held>>
    BY <1>11, Zenon DEF RunKills
  <2>2. OwnersAreStarted' /\ pid[v] \in Pids /\ Awaits(v)
    BY <1>0, <1>a, <2>1, Zenon DEF OwnersAreStarted, Awaits, TypeOK
  <2>3. \A q \in Owners : Awaits(q)' => Awaits(q)
    BY <1>0, <1>a, <2>1, Zenon DEF Awaits, Owners, TypeOK
  <2> QED
    BY <1>a, <2>1, <2>2, <2>3, StrikeKeepsChildren, Zenon
<1>12. ASSUME NEW v \in Vms, RunReaps(v) PROVE Goal
  <2>1. /\ at[v] # "idle" /\ at' = [at EXCEPT ![v] = "idle"] /\ pid' = [pid EXCEPT ![v] = 0]
        /\ UNCHANGED <<reaped, there, held>>
    BY <1>12, Zenon DEF RunReaps
  <2>2. pid[v] \in Pids /\ Awaits(v) /\ ~Awaits(v)'
    BY <1>0, <1>a, <2>1, Zenon DEF OwnersAreStarted, Awaits, TypeOK
  <2>3. OwnersAreStarted'
    BY <1>0, <1>a, <2>1, Zenon DEF OwnersAreStarted, TypeOK
  <2>4. \A q \in Owners \ {v} : pid'[q] = pid[q] /\ (Awaits(q)' => Awaits(q))
    BY <1>0, <1>a, <2>1, Zenon DEF Awaits, Owners, TypeOK
  <2>5. IsChild(pid[v])
    BY <1>a, <1>b, <2>2, Zenon DEF ChildInv, EveryChildAwaits
  <2>6. Reap(pid[v])
    BY <1>12, <2>5, Zenon DEF RunReaps
  <2> QED
    BY <1>a, <2>2, <2>3, <2>4, <2>6, ReapKeepsChildren, Zenon
<1>13. CASE UNCHANGED vars
  <2>1. OwnersAreStarted'
    BY <1>0, <1>13, Zenon DEF vars, OwnersAreStarted
  <2> QED
    BY <1>13, <2>1, SameChildren, Zenon DEF vars, Awaits
<1> QED
  BY <1>1, <1>2, <1>3, <1>4, <1>5, <1>6, <1>7, <1>8, <1>9, <1>10, <1>11, <1>12, <1>13, Zenon DEF Next

\* Nothing is spawned at first.
LEMMA ChildInit == Init => ChildInv
BY TypeInit, Zenon DEF Init, ChildInv, OwnersAreStarted, EveryChildAwaits, NoneStruck, Awaits

\* A spawn that has failed to start stays so.
LEMMA FailureStays == failed /\ [Next]_vars => failed'
<1> SUFFICES ASSUME failed, [Next]_vars PROVE failed'
  OBVIOUS
<1>1. ASSUME NEW p \in Pids, ChildExits(p) \/ OtherStarts(p) \/ OtherEnds(p) PROVE failed'
  BY <1>1, Zenon DEF ChildExits, OtherStarts, OtherEnds
<1>2. ASSUME NEW h \in Handles, NEW p \in Pids, NEW K \in SpawnEnds,
             \/ process_spawn_with_options(h, p, K)
             \/ \E made, open \in SUBSET K : SpawnRunsOutOfMemory(h, p, K, made, open)
      PROVE  failed'
  BY <1>2, Zenon DEF process_spawn_with_options, SpawnRunsOutOfMemory
<1>3. ASSUME NEW h \in Handles,
             \/ SpawnFailsToStart(h) \/ Wait(h) \/ Signal(h) \/ SweepHandle(h)
             \/ \E keep \in SUBSET Ends : Forget(h, keep)
             \/ \E e \in Ends : Close(h, e) \/ SweepStream(h, e)
      PROVE  failed'
  BY <1>3, Zenon DEF SpawnFailsToStart, Wait, Signal, Forget, SweepHandle, Close, SweepStream
<1>4. ASSUME NEW v \in Vms,
             \/ \E p \in Pids, K \in SUBSET Ends : RunStarts(v, p, K)
             \/ \E e \in Ends : RunClosesEnd(v, e)
             \/ \E next \in {"reap", "interrupted"} : RunLeavesLoop(v, next)
             \/ RunInterrupted(v) \/ RunKills(v) \/ RunReaps(v)
      PROVE  failed'
  BY <1>4, Zenon DEF RunStarts, RunClosesEnd, RunLeavesLoop, RunInterrupted, RunKills, RunReaps
<1>5. CASE UNCHANGED vars
  BY <1>5, Zenon DEF vars
<1> QED
  BY <1>1, <1>2, <1>3, <1>4, <1>5, Zenon DEF Next

\* Children keep their owners until a spawn fails to start.
LEMMA ChildrenUntilFailure == Spec => [](failed \/ ChildInv)
<1> DEFINE Inv == TypeOK /\ (failed \/ ChildInv)
<1>1. Init => Inv
  BY ChildInit, Zenon DEF ChildInv
<1>2. Inv /\ [Next]_vars => Inv'
  <2> SUFFICES ASSUME Inv, [Next]_vars PROVE Inv'
    OBVIOUS
  <2>1. TypeOK'
    BY TypeStep, Zenon
  <2>2. CASE failed
    BY <2>1, <2>2, FailureStays, Zenon
  <2>3. CASE ~failed
    BY <2>1, <2>3, ChildStep, Zenon DEF ChildInv
  <2> QED
    BY <2>2, <2>3, Zenon
<1> QED
  BY <1>1, <1>2, PTL DEF Spec

\* Until a Process.spawn fails before its child has started, a handle or a
\* Process.run that awaits a child is the only one to reap it, whatever handles
\* are dropped and swept meanwhile.
THEOREM ChildrenAwaitTheirOwners == Spec => []ChildAwaitsItsOwner
<1>1. (failed \/ ChildInv) => ChildAwaitsItsOwner
  BY Zenon DEF ChildInv, ChildAwaitsItsOwner
<1> QED
  BY <1>1, ChildrenUntilFailure, PTL

\* Until then kill, terminate and an interrupted Process.run signal no process
\* that was given a recycled pid.
THEOREM StrangersAreSpared == Spec => []NoStrangerStruck
<1>1. (failed \/ ChildInv) => NoStrangerStruck
  BY Zenon DEF ChildInv, NoStrangerStruck
<1> QED
  BY <1>1, ChildrenUntilFailure, PTL

-----------------------------------------------------------------------------
(***************************************************************************)
(* The jobs package, for any number of workers and rows, any max_attempts  *)
(* and any timeout and backoff.                                            *)
(*                                                                         *)
(* What a worker has read may be out of date when it uses it.  The         *)
(* invariant says how far: a row that reap_stale! has selected is still    *)
(* stale, or another worker has put it back, or has given up on it, and a  *)
(* row put back is not due before FirstBackoff has passed since.  A        *)
(* selection used later than that ends the claim: stalled.                 *)
(***************************************************************************)

\* The code's numbers: a timeout, and a backoff that starts at FirstBackoff.
Configured ==
  /\ 0 \notin Rows
  /\ max_attempts \in Nat \ {0}
  /\ lock_timeout_seconds \in Nat \ {0}
  /\ FirstBackoff \in Nat \ {0} /\ MaxBackoff \in Nat /\ FirstBackoff <= MaxBackoff
  /\ Late \in Nat /\ MaxLag \in Nat /\ FirstBackoff <= MaxLag

\* What backoff_seconds makes of them: no backoff is shorter than the first.
BackoffsGrow == \A n \in 1..max_attempts : backoff_seconds(n) \in Int /\ backoff_seconds(n) >= FirstBackoff
Timed == Configured /\ BackoffsGrow

Types ==
  /\ status \in [Rows -> {"none", "pending", "running", "succeeded", "failed"}]
  /\ run_at \in [Rows -> Int]
  /\ attempts \in [Rows -> Nat] /\ age \in [Rows -> Nat] /\ claims \in [Rows -> Nat]
  /\ place \in [Workers -> {"down", "top", "reap", "run", "succeed", "retry", "tick", "due", "enqueue"}]
  /\ claimed \in [Workers -> Rows \cup {0}] /\ tried \in [Workers -> Nat]
  /\ stale \in [Workers -> SUBSET (Rows \X Nat)] /\ lag \in [Workers -> Nat]

\* What a worker that has claimed a row may rely on.
Holds(w) ==
  /\ place[w] \in {"run", "succeed", "retry"}
  /\ status[claimed[w]] = "running" /\ tried[w] = attempts[claimed[w]]
  /\ age[claimed[w]] < lock_timeout_seconds
  /\ \A u \in Workers \ {w} : claimed[u] # claimed[w]
Holding ==
  \A w \in Workers :
    /\ claimed[w] # 0 => Holds(w)
    /\ place[w] \in {"run", "succeed", "retry"} => claimed[w] # 0

\* What has become of a row that was selected as stale some time ago, with a attempts.
Reapable(j, a, time) ==
  \/ status[j] = "running" /\ age[j] >= lock_timeout_seconds /\ attempts[j] = a
  \/ status[j] = "pending" /\ attempts[j] = a + 1 /\ run_at[j] + time >= FirstBackoff
  \/ status[j] = "failed" /\ attempts[j] = a + 1
Selected ==
  \A w \in Workers : \A r \in stale[w] :
    place[w] = "reap" /\ (lag[w] < FirstBackoff => Reapable(r[1], r[2], lag[w]))

CountOf(j) ==
  /\ status[j] = "none" => claims[j] = 0 /\ attempts[j] = 0
  /\ status[j] \in {"pending", "failed"} => claims[j] = attempts[j]
  /\ status[j] \in {"running", "succeeded"} => claims[j] = attempts[j] + 1
  /\ status[j] \in {"pending", "running"} => attempts[j] < max_attempts
  /\ claims[j] <= max_attempts
Counted == \A j \in Rows : CountOf(j)

Inv == Types /\ Holding /\ Selected /\ Counted

-----------------------------------------------------------------------------
\* A row that a worker has claimed is in no recent selection of stale rows.
LEMMA ClaimedIsNotSelected ==
  ASSUME Timed, Inv, NEW w \in Workers, claimed[w] # 0, NEW u \in Workers, NEW r \in stale[u],
         lag[u] < FirstBackoff
  PROVE  r[1] # claimed[w]
<1>1. claimed[w] \in Rows /\ r \in Rows \X Nat
  BY Zenon DEF Inv, Types
<1>2. status[claimed[w]] = "running" /\ age[claimed[w]] < lock_timeout_seconds
  BY Zenon DEF Inv, Holding, Holds
<1>3. Reapable(r[1], r[2], lag[u])
  BY Zenon DEF Inv, Selected
<1> QED
  BY <1>1, <1>2, <1>3 DEF Reapable, Timed, Configured, Inv, Types

\* The statement that ends a run of a claimed row, whatever its outcome.
LEMMA RunEnds ==
  ASSUME Timed, Inv, NEW w \in Workers, place[w] \in {"run", "succeed", "retry"},
         NEW s \in {"pending", "succeeded", "failed"}, NEW a \in Nat,
         status' = [status EXCEPT ![claimed[w]] = s],
         attempts' = [attempts EXCEPT ![claimed[w]] = a],
         run_at' \in [Rows -> Int], \A j \in Rows \ {claimed[w]} : run_at'[j] = run_at[j],
         UNCHANGED <<age, claims>>,
         s = "succeeded" => a = attempts[claimed[w]],
         s # "succeeded" => a = attempts[claimed[w]] + 1,
         s = "pending" => a < max_attempts,
         Goto(w, "tick")
  PROVE  Inv'
<1> DEFINE j == claimed[w]
<1>1. j \in Rows /\ status[j] = "running" /\ j # 0
  BY DEF Timed, Configured, Inv, Types, Holding, Holds
<1>2. Types'
  BY <1>1, Zenon DEF Inv, Types, Goto
<1>3. Counted'
  <2> SUFFICES ASSUME NEW k \in Rows PROVE CountOf(k)'
    BY Zenon DEF Counted
  <2>1. CASE k = j
    BY <1>1, <2>1, Zenon DEF Inv, Counted, CountOf, Types, Timed, Configured
  <2>2. CASE k # j
    BY <1>1, <2>2, Zenon DEF Inv, Counted, CountOf, Types
  <2> QED
    BY <2>1, <2>2, Zenon
<1>4. Holding'
  <2> SUFFICES ASSUME NEW u \in Workers
               PROVE  /\ claimed'[u] # 0 => Holds(u)'
                      /\ place'[u] \in {"run", "succeed", "retry"} => claimed'[u] # 0
    BY Zenon DEF Holding
  <2>1. CASE u = w
    BY <2>1, Zenon DEF Inv, Types, Goto
  <2>2. CASE u # w
    <3>1. claimed'[u] = claimed[u] /\ place'[u] = place[u] /\ tried'[u] = tried[u]
      BY <2>2, Zenon DEF Inv, Types, Goto
    <3>2. ASSUME claimed[u] # 0 PROVE Holds(u)'
      <4>1. Holds(u) /\ claimed[u] \in Rows /\ claimed[u] # j
        BY <2>2, <3>2, <1>1 DEF Inv, Types, Holding, Holds
      <4> QED
        BY <1>1, <3>1, <3>2, <4>1, Zenon DEF Holds, Inv, Types, Goto
    <3> QED
      BY <3>1, <3>2, Zenon DEF Inv, Holding
  <2> QED
    BY <2>1, <2>2, Zenon
<1>5. Selected'
  <2> SUFFICES ASSUME NEW u \in Workers, NEW r \in stale'[u]
               PROVE  place'[u] = "reap" /\ (lag'[u] < FirstBackoff => Reapable(r[1], r[2], lag[u])')
    BY Zenon DEF Selected, Reapable
  <2>1. u # w /\ r \in stale[u] /\ place'[u] = place[u] /\ lag'[u] = lag[u]
    BY Zenon DEF Inv, Types, Goto
  <2>2. r[1] \in Rows /\ (lag[u] < FirstBackoff => r[1] # j)
    BY <1>1, <2>1, ClaimedIsNotSelected DEF Inv, Types
  <2>3. place[u] = "reap" /\ (lag[u] < FirstBackoff => Reapable(r[1], r[2], lag[u]))
    BY <2>1, Zenon DEF Inv, Selected
  <2> QED
    BY <1>1, <2>1, <2>2, <2>3, Zenon DEF Reapable, Inv, Types
<1> QED
  BY <1>2, <1>3, <1>4, <1>5, Zenon DEF Inv

\* A worker that leaves the table alone, and selects nothing.
LEMMA WorkerMoves ==
  ASSUME Inv, UNCHANGED columns,
         Types',
         \A u \in Workers :
           /\ stale'[u] # {} => stale'[u] = stale[u] /\ place'[u] = place[u] /\ lag'[u] = lag[u]
           /\ claimed'[u] # 0 => claimed'[u] = claimed[u] /\ tried'[u] = tried[u]
           /\ claimed'[u] # 0 <=> place'[u] \in {"run", "succeed", "retry"}
  PROVE  Inv'
<1>1. Counted'
  BY Zenon DEF Inv, Counted, CountOf, columns
<1>2. Holding'
  BY DEF Inv, Holding, Holds, columns
<1>3. Selected'
  BY DEF Inv, Selected, Reapable, columns
<1> QED
  BY <1>1, <1>2, <1>3, Zenon DEF Inv

\* reap_stale! updates a row that it has selected less than FirstBackoff ago.
LEMMA ReapStep == ASSUME Timed, Inv, NEW w \in Workers, ReapStale(w), ~stalled' PROVE Inv'
<1>1. PICK r \in stale[w] : retry_or_fail(r[1], r[2]) /\ stale' = [stale EXCEPT ![w] = @ \ {r}]
  BY Zenon DEF ReapStale
<1>2. UNCHANGED <<place, claimed, tried>>
  BY Zenon DEF ReapStale
<1>0. /\ lag' \in [Workers -> Nat] /\ lag[w] < FirstBackoff
      /\ \A u \in Workers : stale'[u] # {} => lag'[u] = lag[u]
  <2>1. lag' = [lag EXCEPT ![w] = IF stale'[w] = {} THEN 0 ELSE @]
    BY Zenon DEF ReapStale
  <2>2. ~(lag[w] >= FirstBackoff)
    BY Zenon DEF ReapStale
  <2>3. lag[w] \in Nat /\ FirstBackoff \in Nat /\ lag \in [Workers -> Nat]
    BY Zenon DEF Inv, Types, Timed, Configured
  <2> QED
    BY <2>1, <2>2, <2>3
<1> DEFINE j == r[1]
           a == r[2]
<1>3. j \in Rows /\ a \in Nat /\ Reapable(j, a, lag[w])
  BY <1>0 DEF Inv, Types, Selected
<1>4. \A u \in Workers : claimed[u] # j
  BY <1>0, <1>3, ClaimedIsNotSelected, Zenon DEF Timed, Configured
<1>5. /\ a + 1 <= max_attempts
      /\ status[j] \in {"running", "pending", "failed"}
      /\ status[j] = "running" => attempts[j] = a
      /\ status[j] # "running" => attempts[j] = a + 1
  BY <1>3 DEF Inv, Counted, CountOf, Reapable, Types, Timed, Configured
<1> DEFINE s == IF a + 1 >= max_attempts THEN "failed" ELSE "pending"
<1>6. /\ attempts' = [attempts EXCEPT ![j] = a + 1] /\ status' = [status EXCEPT ![j] = s]
      /\ run_at' = [run_at EXCEPT ![j] = IF a + 1 >= max_attempts THEN @ ELSE backoff_seconds(a + 1)]
      /\ UNCHANGED <<age, claims>>
  BY <1>1, Zenon DEF retry_or_fail
<1>7. s = "pending" => backoff_seconds(a + 1) \in Int /\ backoff_seconds(a + 1) >= FirstBackoff
  BY <1>3, <1>5 DEF Timed, Configured, BackoffsGrow
<1> HIDE DEF j, a, s
<1>8. s \in {"pending", "failed"} /\ (s = "pending" <=> a + 1 < max_attempts)
  BY <1>3 DEF s, Timed, Configured
<1>9. Types'
  BY <1>0, <1>1, <1>2, <1>3, <1>6, <1>7, <1>8 DEF Inv, Types, s
<1>10. Counted'
  <2> SUFFICES ASSUME NEW k \in Rows PROVE CountOf(k)'
    BY Zenon DEF Counted
  <2>1. CASE k = j
    <3>1. status'[k] = s /\ attempts'[k] = a + 1 /\ claims'[k] = claims[k]
      BY <1>3, <1>6, <2>1, Zenon DEF Inv, Types
    <3>2. claims[k] = a + 1
      BY <1>3, <1>5, <2>1, Zenon DEF Inv, Counted, CountOf
    <3> QED
      BY <1>3, <1>5, <1>8, <3>1, <3>2, Zenon DEF CountOf, Timed, Configured
  <2>2. CASE k # j
    BY <1>3, <1>6, <2>2, Zenon DEF Inv, Counted, CountOf, Types
  <2> QED
    BY <2>1, <2>2, Zenon
<1>11. Holding'
  <2>1. ASSUME NEW u \in Workers, claimed[u] # 0 PROVE Holds(u)'
    <3>1. Holds(u) /\ claimed[u] \in Rows /\ claimed[u] # j
      BY <1>4, <2>1, Zenon DEF Inv, Types, Holding
    <3> QED
      BY <1>2, <1>3, <1>6, <3>1, Zenon DEF Holds, Inv, Types
  <2> QED
    BY <1>2, <2>1, Zenon DEF Inv, Holding
<1>12. Selected'
  <2> SUFFICES ASSUME NEW u \in Workers, NEW q \in stale'[u]
               PROVE  place'[u] = "reap" /\ (lag'[u] < FirstBackoff => Reapable(q[1], q[2], lag[u])')
    BY Zenon DEF Selected, Reapable
  <2>1. q \in stale[u] /\ q[1] \in Rows /\ q[2] \in Nat
    BY <1>1 DEF Inv, Types
  <2>2. place[u] = "reap" /\ (lag[u] < FirstBackoff => Reapable(q[1], q[2], lag[u])) /\ lag[u] \in Nat
    BY <2>1, Zenon DEF Inv, Selected, Types
  <2>3. lag'[u] = lag[u]
    BY <1>0, Zenon
  <2> SUFFICES ASSUME lag[u] < FirstBackoff PROVE Reapable(q[1], q[2], lag[u])'
    BY <1>2, <2>2, <2>3, Zenon
  <2>4. CASE q[1] # j
    BY <1>2, <1>3, <1>6, <2>1, <2>2, <2>3, <2>4, Zenon DEF Reapable, Inv, Types
  <2>5. CASE q[1] = j
    <3>1. q[2] = a
      BY <1>3, <1>5, <2>1, <2>2, <2>5 DEF Reapable
    <3>2. status'[j] = s /\ attempts'[j] = a + 1
      BY <1>3, <1>6, Zenon DEF Inv, Types
    <3>3. s = "pending" => run_at'[j] = backoff_seconds(a + 1)
      BY <1>3, <1>6, <1>8 DEF Inv, Types, Timed, Configured
    <3> QED
      BY <1>7, <1>8, <2>2, <2>3, <2>5, <3>1, <3>2, <3>3 DEF Reapable, Timed, Configured
  <2> QED
    BY <2>4, <2>5, Zenon
<1> QED
  BY <1>9, <1>10, <1>11, <1>12, Zenon DEF Inv

\* claim_next takes a row that is due, so none that is still to be reaped.
LEMMA ClaimStep == ASSUME Timed, Inv, NEW w \in Workers, NEW j \in Rows, Claim(w, j) PROVE Inv'
<1>1. /\ status[j] = "pending" /\ run_at[j] <= 0
      /\ status' = [status EXCEPT ![j] = "running"] /\ age' = [age EXCEPT ![j] = 0]
      /\ claims' = [claims EXCEPT ![j] = IF @ > max_attempts THEN @ ELSE @ + 1]
      /\ UNCHANGED <<run_at, attempts>>
  BY Zenon DEF Claim, claim_next, Due
<1>2. /\ stale[w] = {} /\ place[w] = "reap"
      /\ place' = [place EXCEPT ![w] = "run"] /\ lag' = [lag EXCEPT ![w] = 0]
      /\ claimed' = [claimed EXCEPT ![w] = j] /\ tried' = [tried EXCEPT ![w] = attempts[j]]
      /\ UNCHANGED stale
  BY Zenon DEF Claim
<1>3. j # 0
  BY Zenon DEF Timed, Configured
<1>4. Types'
  BY <1>1, <1>2 DEF Inv, Types
<1>5. Counted'
  <2> SUFFICES ASSUME NEW k \in Rows PROVE CountOf(k)'
    BY Zenon DEF Counted
  <2>1. CASE k = j
    BY <1>1, <2>1 DEF Inv, Counted, CountOf, Types, Timed, Configured
  <2>2. CASE k # j
    BY <1>1, <2>2, Zenon DEF Inv, Counted, CountOf, Types
  <2> QED
    BY <2>1, <2>2, Zenon
<1>6. \A u \in Workers : claimed[u] # j
  BY <1>1, <1>3, Zenon DEF Inv, Holding, Holds
<1>7. Holding'
  <2> SUFFICES ASSUME NEW u \in Workers
               PROVE  /\ claimed'[u] # 0 => Holds(u)'
                      /\ place'[u] \in {"run", "succeed", "retry"} => claimed'[u] # 0
    BY Zenon DEF Holding
  <2>1. CASE u = w
    BY <1>1, <1>2, <1>3, <1>6, <2>1 DEF Holds, Inv, Types, Timed, Configured
  <2>2. CASE u # w
    <3>1. claimed'[u] = claimed[u] /\ place'[u] = place[u] /\ tried'[u] = tried[u]
      BY <1>2, <2>2, Zenon DEF Inv, Types
    <3>2. ASSUME claimed[u] # 0 PROVE Holds(u)'
      <4>1. Holds(u) /\ claimed[u] \in Rows /\ claimed[u] # j
        BY <1>6, <3>2, Zenon DEF Inv, Types, Holding
      <4> QED
        BY <1>1, <1>2, <3>1, <4>1, Zenon DEF Holds, Inv, Types
    <3> QED
      BY <3>1, <3>2, Zenon DEF Inv, Holding
  <2> QED
    BY <2>1, <2>2, Zenon
<1>8. Selected'
  <2> SUFFICES ASSUME NEW u \in Workers, NEW q \in stale'[u]
               PROVE  place'[u] = "reap" /\ (lag'[u] < FirstBackoff => Reapable(q[1], q[2], lag[u])')
    BY Zenon DEF Selected, Reapable
  <2>1. u # w /\ q \in stale[u] /\ q[1] \in Rows /\ q[2] \in Nat
    BY <1>2 DEF Inv, Types
  <2>2. place[u] = "reap" /\ (lag[u] < FirstBackoff => Reapable(q[1], q[2], lag[u])) /\ lag[u] \in Nat
    BY <2>1, Zenon DEF Inv, Selected, Types
  <2>3. lag[u] < FirstBackoff => q[1] # j
    BY <1>1, <2>1, <2>2 DEF Reapable, Timed, Configured, Inv, Types
  <2> QED
    BY <1>1, <1>2, <2>1, <2>2, <2>3, Zenon DEF Reapable, Inv, Types
<1> QED
  BY <1>4, <1>5, <1>7, <1>8, Zenon DEF Inv

\* A new row is nobody's.
LEMMA EnqueueStep ==
  ASSUME Timed, Inv, NEW j \in Rows, NEW t \in Int, status[j] = "none", enqueue(j, t),
         Types',
         \A u \in Workers :
           /\ stale'[u] # {} => stale'[u] = stale[u] /\ place'[u] = place[u] /\ lag'[u] = lag[u]
           /\ claimed'[u] = claimed[u] /\ (claimed[u] # 0 => tried'[u] = tried[u])
           /\ place'[u] = place[u] \/ (claimed[u] = 0 /\ place'[u] = "top")
  PROVE  Inv'
<1>1. /\ status' = [status EXCEPT ![j] = "pending"] /\ run_at' = [run_at EXCEPT ![j] = t]
      /\ UNCHANGED <<attempts, age, claims>>
  BY Zenon DEF enqueue
<1>2. Counted'
  <2> SUFFICES ASSUME NEW k \in Rows PROVE CountOf(k)'
    BY Zenon DEF Counted
  <2>1. CASE k = j
    BY <1>1, <2>1 DEF Inv, Counted, CountOf, Types, Timed, Configured
  <2>2. CASE k # j
    BY <1>1, <2>2, Zenon DEF Inv, Counted, CountOf, Types
  <2> QED
    BY <2>1, <2>2, Zenon
<1>3. Holding'
  <2>1. ASSUME NEW u \in Workers, claimed[u] # 0 PROVE Holds(u)'
    <3>1. Holds(u) /\ claimed[u] \in Rows /\ claimed[u] # j
      BY <2>1 DEF Inv, Types, Holding, Holds
    <3> QED
      BY <1>1, <2>1, <3>1 DEF Holds, Inv, Types
  <2> QED
    BY <2>1, Zenon DEF Inv, Holding
<1>4. Selected'
  <2> SUFFICES ASSUME NEW u \in Workers, NEW q \in stale'[u]
               PROVE  place'[u] = "reap" /\ (lag'[u] < FirstBackoff => Reapable(q[1], q[2], lag[u])')
    BY Zenon DEF Selected, Reapable
  <2>1. q \in stale[u] /\ q[1] \in Rows /\ place'[u] = place[u] /\ lag'[u] = lag[u]
    BY DEF Inv, Types
  <2>2. place[u] = "reap" /\ (lag[u] < FirstBackoff => Reapable(q[1], q[2], lag[u]))
    BY <2>1, Zenon DEF Inv, Selected
  <2> QED
    BY <1>1, <2>1, <2>2, Zenon DEF Reapable, Inv, Types
<1> QED
  BY <1>2, <1>3, <1>4, Zenon DEF Inv

\* reap_stale! selects rows that nobody has claimed.
LEMMA FindStep == ASSUME Timed, Inv, NEW w \in Workers, FindStale(w) PROVE Inv'
<1>1. /\ place[w] = "top" /\ place' = [place EXCEPT ![w] = "reap"]
      /\ stale' = [stale EXCEPT ![w] = {<<j, attempts[j]>> : j \in Stale}]
      /\ lag' = [lag EXCEPT ![w] = 0]
      /\ UNCHANGED <<status, run_at, attempts, age, claims, claimed, tried>>
  BY Zenon DEF FindStale, columns
<1>2. Types'
  BY <1>1 DEF Inv, Types, Stale
<1>3. Counted'
  BY <1>1, Zenon DEF Inv, Counted, CountOf
<1>4. Holding'
  <2> SUFFICES ASSUME NEW u \in Workers
               PROVE  /\ claimed'[u] # 0 => Holds(u)'
                      /\ place'[u] \in {"run", "succeed", "retry"} => claimed'[u] # 0
    BY Zenon DEF Holding
  <2>1. claimed[w] = 0
    BY <1>1, Zenon DEF Inv, Holding, Holds
  <2>2. u # w => place'[u] = place[u]
    BY <1>1, Zenon DEF Inv, Types
  <2>3. place'[w] = "reap"
    BY <1>1, Zenon DEF Inv, Types
  <2> QED
    BY <1>1, <2>1, <2>2, <2>3, Zenon DEF Inv, Holding, Holds
<1>5. Selected'
  <2> SUFFICES ASSUME NEW u \in Workers, NEW q \in stale'[u]
               PROVE  place'[u] = "reap" /\ (lag'[u] < FirstBackoff => Reapable(q[1], q[2], lag[u])')
    BY Zenon DEF Selected, Reapable
  <2>1. CASE u = w
    <3>1. PICK j \in Stale : q = <<j, attempts[j]>>
      BY <1>1, <2>1, Zenon DEF Inv, Types
    <3> QED
      BY <1>1, <2>1, <3>1 DEF Reapable, Stale, Timed, Configured, Inv, Types
  <2>2. CASE u # w
    BY <1>1, <2>2, Zenon DEF Reapable, Inv, Types, Selected
  <2> QED
    BY <2>1, <2>2, Zenon
<1> QED
  BY <1>2, <1>3, <1>4, <1>5, Zenon DEF Inv

\* While time passes, a row put back comes nearer to being due as fast as the
\* selection ages.
LEMMA TickStep == ASSUME Timed, Inv, Tick PROVE Inv'
<1> USE DEF Timed, Configured
<1>1. /\ InTime
      /\ run_at' = [j \in Rows |-> IF status[j] = "pending" THEN Earlier(run_at[j]) ELSE 0]
      /\ age' = [j \in Rows |-> CASE status[j] # "running" -> 0
                                  [] age[j] = lock_timeout_seconds -> age[j]
                                  [] OTHER -> age[j] + 1]
      /\ lag' = [w \in Workers |->
                   IF (stale[w] # {} \/ place[w] \in {"due", "enqueue"}) /\ lag[w] < MaxLag
                   THEN lag[w] + 1 ELSE lag[w]]
      /\ UNCHANGED <<status, attempts, claims, place, claimed, tried, stale>>
  BY Zenon DEF Tick
<1>2. \A j \in Rows : /\ age'[j] \in Nat
                      /\ status[j] = "running" =>
                           age'[j] \in {age[j], age[j] + 1}
  BY <1>1 DEF Inv, Types
<1>3. Types'
  <2>1. run_at' \in [Rows -> Int]
    BY <1>1 DEF Inv, Types, Earlier
  <2>2. lag' \in [Workers -> Nat]
    BY <1>1 DEF Inv, Types
  <2>3. age' \in [Rows -> Nat]
    BY <1>1, <1>2, Zenon
  <2> QED
    BY <1>1, <2>1, <2>2, <2>3, Zenon DEF Inv, Types
<1>4. Counted'
  BY <1>1, Zenon DEF Inv, Counted, CountOf
<1>5. Holding'
  <2>1. ASSUME NEW u \in Workers, claimed[u] # 0 PROVE Holds(u)'
    <3>1. Holds(u) /\ claimed[u] \in Rows /\ age[claimed[u]] + 1 < lock_timeout_seconds
      BY <1>1, <2>1, Zenon DEF Inv, Types, Holding, InTime
    <3>2. age'[claimed[u]] < lock_timeout_seconds
      BY <1>2, <3>1, Zenon DEF Holds, Inv, Types
    <3> QED
      BY <1>1, <3>1, <3>2, Zenon DEF Holds
  <2> QED
    BY <1>1, <2>1, Zenon DEF Inv, Holding
<1>6. Selected'
  <2> SUFFICES ASSUME NEW u \in Workers, NEW q \in stale'[u]
               PROVE  place'[u] = "reap" /\ (lag'[u] < FirstBackoff => Reapable(q[1], q[2], lag[u])')
    BY Zenon DEF Selected, Reapable
  <2>1. q \in stale[u] /\ q[1] \in Rows /\ q[2] \in Nat /\ stale[u] # {}
    BY <1>1 DEF Inv, Types
  <2>0. place[u] = "reap" /\ lag[u] \in Nat
        /\ (lag[u] < FirstBackoff => Reapable(q[1], q[2], lag[u]))
    BY <2>1, Zenon DEF Inv, Selected, Types
  <2> SUFFICES ASSUME lag'[u] < FirstBackoff PROVE Reapable(q[1], q[2], lag[u])'
    BY <1>1, <2>0, Zenon
  <2>3. lag'[u] = lag[u] + 1 /\ lag[u] + 1 < FirstBackoff
    BY <1>1, <2>0, <2>1
  <2>2. Reapable(q[1], q[2], lag[u]) /\ lag[u] \in Nat
    BY <2>0, <2>3
  <2>4. CASE status[q[1]] = "running"
    <3>1. age'[q[1]] >= lock_timeout_seconds
      BY <1>2, <2>1, <2>2, <2>4 DEF Reapable, Inv, Types
    <3> QED
      BY <1>1, <2>2, <2>3, <2>4, <3>1, Zenon DEF Reapable
  <2>5. CASE status[q[1]] = "pending"
    <3>1. run_at'[q[1]] >= run_at[q[1]] - 1 /\ run_at[q[1]] \in Int
      BY <1>1, <2>1, <2>5 DEF Earlier, Inv, Types
    <3>2. run_at'[q[1]] \in Int
      BY <1>3, <2>1, Zenon DEF Types
    <3> QED
      BY <1>1, <2>2, <2>3, <2>5, <3>1, <3>2 DEF Reapable
  <2>6. CASE status[q[1]] = "failed"
    BY <1>1, <2>2, <2>3, <2>6, Zenon DEF Reapable
  <2> QED
    BY <2>2, <2>4, <2>5, <2>6, Zenon DEF Reapable
<1> QED
  BY <1>3, <1>4, <1>5, <1>6, Zenon DEF Inv

\* The handler returns or raises, or the statement after it raises.
LEMMA RunGoesOn ==
  ASSUME Inv, NEW w \in Workers, UNCHANGED columns, UNCHANGED <<lag, claimed, tried, stale>>,
         place[w] \in {"run", "succeed"}, NEW p \in {"succeed", "retry"},
         place' = [place EXCEPT ![w] = p]
  PROVE  Inv'
<1>1. Types'
  BY Zenon DEF Inv, Types, columns
<1>2. \A u \in Workers :
        /\ stale[u] # {} => place[u] = "reap"
        /\ claimed[u] # 0 <=> place[u] \in {"run", "succeed", "retry"}
  BY Zenon DEF Inv, Holding, Holds, Selected
<1>3. \A u \in Workers : place'[u] = IF u = w THEN p ELSE place[u]
  BY Zenon DEF Inv, Types
<1>4. \A u \in Workers :
        /\ stale'[u] # {} => stale'[u] = stale[u] /\ place'[u] = place[u] /\ lag'[u] = lag[u]
        /\ claimed'[u] # 0 => claimed'[u] = claimed[u] /\ tried'[u] = tried[u]
        /\ claimed'[u] # 0 <=> place'[u] \in {"run", "succeed", "retry"}
  BY <1>2, <1>3, Zenon
<1> QED
  BY <1>1, <1>4, WorkerMoves, Zenon

-----------------------------------------------------------------------------
\* Every step of a worker keeps the invariant, but for a late reap_stale!.
LEMMA WorkerStep == ASSUME Timed, Inv, NEW w \in Workers, Step(w), ~stalled' PROVE Inv'
<1>1. CASE StartWorker(w) \/ ClaimNothing(w)
  <2>1. /\ UNCHANGED columns /\ place[w] \in {"down", "reap"}
        /\ Goto(w, "top") \/ Goto(w, "tick")
    BY <1>1, Zenon DEF StartWorker, ClaimNothing
  <2>2. PICK p \in {"top", "tick"} : Goto(w, p)
    BY <2>1, Zenon
  <2>3. Types'
    BY <2>1, <2>2, Zenon DEF Goto, Inv, Types, columns
  <2>4. /\ stale'[w] = {} /\ claimed'[w] = 0 /\ place'[w] \notin {"run", "succeed", "retry"}
        /\ \A u \in Workers \ {w} : /\ stale'[u] = stale[u] /\ place'[u] = place[u]
                                     /\ lag'[u] = lag[u] /\ tried'[u] = tried[u]
                                     /\ claimed'[u] = claimed[u]
    BY <2>2, Zenon DEF Goto, Inv, Types
  <2>5. \A u \in Workers : claimed[u] # 0 <=> place[u] \in {"run", "succeed", "retry"}
    BY Zenon DEF Inv, Holding, Holds
  <2>6. \A u \in Workers :
          /\ stale'[u] # {} => stale'[u] = stale[u] /\ place'[u] = place[u] /\ lag'[u] = lag[u]
          /\ claimed'[u] # 0 => claimed'[u] = claimed[u] /\ tried'[u] = tried[u]
          /\ claimed'[u] # 0 <=> place'[u] \in {"run", "succeed", "retry"}
    BY <2>4, <2>5
  <2> QED
    BY <2>1, <2>3, <2>6, WorkerMoves, Zenon
<1>2. CASE FindStale(w)
  BY <1>2, FindStep, Zenon
<1>3. CASE ReapStale(w)
  BY <1>3, ReapStep, Zenon
<1>4. CASE \E j \in Rows : Claim(w, j)
  BY <1>4, ClaimStep, Zenon
<1>5. CASE fail_unhandled(w)
  <2>1. claimed[w] \in Rows /\ attempts[claimed[w]] \in Nat
    BY <1>5, Zenon DEF fail_unhandled, Inv, Types, Holding, Timed, Configured
  <2>2. /\ status' = [status EXCEPT ![claimed[w]] = "failed"]
        /\ attempts' = [attempts EXCEPT ![claimed[w]] = attempts[claimed[w]] + 1]
        /\ UNCHANGED <<run_at, age, claims>> /\ Goto(w, "tick") /\ place[w] = "run"
    BY <1>5, Zenon DEF fail_unhandled
  <2>3. run_at' \in [Rows -> Int] /\ \A j \in Rows \ {claimed[w]} : run_at'[j] = run_at[j]
    BY <2>2, Zenon DEF Inv, Types
  <2>4. attempts[claimed[w]] + 1 \in Nat
    BY <2>1
  <2> QED
    BY <2>2, <2>3, <2>4, RunEnds, Zenon
<1>6. CASE \E result \in {"succeed", "retry"} : HandlerEnds(w, result)
  <2>1. /\ UNCHANGED columns /\ UNCHANGED <<lag, claimed, tried, stale>>
        /\ place[w] \in {"run", "succeed"}
        /\ \E p \in {"succeed", "retry"} : place' = [place EXCEPT ![w] = p]
    BY <1>6, Zenon DEF HandlerEnds, Resume
  <2> QED
    BY <2>1, RunGoesOn, Zenon
<1>7. CASE succeed(w)
  <2>1. claimed[w] \in Rows /\ attempts[claimed[w]] \in Nat
    BY <1>7, Zenon DEF succeed, Inv, Types, Holding, Timed, Configured
  <2>2. /\ status' = [status EXCEPT ![claimed[w]] = "succeeded"]
        /\ UNCHANGED <<run_at, attempts, age, claims>> /\ Goto(w, "tick") /\ place[w] = "succeed"
    BY <1>7, Zenon DEF succeed
  <2>3. attempts' = [attempts EXCEPT ![claimed[w]] = attempts[claimed[w]]]
    BY <2>1, <2>2, Zenon DEF Inv, Types
  <2>4. run_at' \in [Rows -> Int] /\ \A j \in Rows \ {claimed[w]} : run_at'[j] = run_at[j]
    BY <2>2, Zenon DEF Inv, Types
  <2> QED
    BY <2>1, <2>2, <2>3, <2>4, RunEnds, Zenon
<1>8. CASE SucceedRaises(w)
  <2>1. /\ UNCHANGED columns /\ UNCHANGED <<lag, claimed, tried, stale>>
        /\ place[w] \in {"run", "succeed"}
        /\ \E p \in {"succeed", "retry"} : place' = [place EXCEPT ![w] = p]
    BY <1>8, Zenon DEF SucceedRaises, Resume
  <2> QED
    BY <2>1, RunGoesOn, Zenon
<1>9. CASE Retry(w)
  <2>1. claimed[w] \in Rows /\ tried[w] = attempts[claimed[w]] /\ tried[w] \in Nat
    BY <1>9 DEF Retry, Inv, Types, Holding, Holds, Timed, Configured
  <2>2. tried[w] + 1 <= max_attempts
    BY <1>9, <2>1 DEF Retry, Inv, Holding, Holds, Counted, CountOf, Timed, Configured
  <2>3. backoff_seconds(tried[w] + 1) \in Int
    BY <2>1, <2>2 DEF Timed, Configured, BackoffsGrow
  <2>4. /\ attempts' = [attempts EXCEPT ![claimed[w]] = tried[w] + 1]
        /\ status' = [status EXCEPT ![claimed[w]] =
                        IF tried[w] + 1 >= max_attempts THEN "failed" ELSE "pending"]
        /\ run_at' = [run_at EXCEPT ![claimed[w]] =
                        IF tried[w] + 1 >= max_attempts THEN @ ELSE backoff_seconds(tried[w] + 1)]
        /\ UNCHANGED <<age, claims>> /\ Goto(w, "tick") /\ place[w] = "retry"
    BY <1>9, Zenon DEF Retry, retry_or_fail
  <2>5. run_at' \in [Rows -> Int] /\ \A j \in Rows \ {claimed[w]} : run_at'[j] = run_at[j]
    BY <2>1, <2>3, <2>4, Zenon DEF Inv, Types
  <2>6. CASE tried[w] + 1 >= max_attempts
    <3>1. status' = [status EXCEPT ![claimed[w]] = "failed"]
      BY <2>4, <2>6, Zenon
    <3>2. tried[w] + 1 \in Nat
      BY <2>1
    <3> QED
      BY <2>1, <2>4, <2>5, <3>1, <3>2, RunEnds, Zenon
  <2>7. CASE ~(tried[w] + 1 >= max_attempts)
    <3>1. status' = [status EXCEPT ![claimed[w]] = "pending"]
      BY <2>4, <2>7, Zenon
    <3>2. tried[w] + 1 \in Nat /\ tried[w] + 1 < max_attempts
      BY <2>1, <2>7 DEF Timed, Configured
    <3> QED
      BY <2>1, <2>4, <2>5, <3>1, <3>2, RunEnds, Zenon
  <2> QED
    BY <2>6, <2>7, Zenon
<1>10. CASE FindDue(w)
  BY <1>10, WorkerMoves, Zenon DEF FindDue, Inv, Types, columns, Holding, Holds, Selected
<1>11. CASE ClaimRecurring(w)
  <2>1. UNCHANGED columns /\ place[w] = "due" /\ (ToEnqueue(w) \/ Goto(w, "top"))
    BY <1>11, Zenon DEF ClaimRecurring
  <2>2. claimed[w] = 0 /\ stale[w] = {}
    BY <2>1, Zenon DEF Inv, Holding, Holds, Selected
  <2>3. CASE Goto(w, "top")
    BY <2>1, <2>3, WorkerMoves, Zenon DEF Goto, Inv, Types, columns, Holding, Holds
  <2>4. CASE ToEnqueue(w)
    <3>1. /\ UNCHANGED <<lag, claimed, tried, stale>>
          /\ \A u \in Workers : place'[u] = IF u = w THEN "enqueue" ELSE place[u]
      BY <2>4, Zenon DEF ToEnqueue, Inv, Types
    <3>2. Types'
      BY <2>1, <2>4, Zenon DEF ToEnqueue, Inv, Types, columns
    <3> QED
      BY <2>1, <2>2, <3>1, <3>2, WorkerMoves, Zenon DEF Inv, Holding, Holds
  <2> QED
    BY <2>1, <2>3, <2>4, Zenon
<1>12. CASE EnqueueRecurring(w)
  <2>1. place[w] = "enqueue" /\ Goto(w, "top") /\ claimed[w] = 0
    BY <1>12, Zenon DEF EnqueueRecurring, Inv, Holding, Holds
  <2>2. CASE \E j \in Rows : status[j] = "none"
    <3>1. PICK j \in Rows : status[j] = "none" /\ enqueue(j, Since(0, w))
      BY <1>12, <2>2, Zenon DEF EnqueueRecurring
    <3>2. Since(0, w) \in Int
      BY DEF Since, Inv, Types, Timed, Configured
    <3>3. Types'
      <4>1. status' \in [Rows -> {"none", "pending", "running", "succeeded", "failed"}]
            /\ run_at' \in [Rows -> Int] /\ UNCHANGED <<attempts, age, claims>>
        BY <3>1, <3>2, Zenon DEF Inv, Types, enqueue
      <4>2. /\ place' \in [Workers -> {"down", "top", "reap", "run", "succeed", "retry", "tick",
                                       "due", "enqueue"}]
            /\ claimed' \in [Workers -> Rows \cup {0}] /\ tried' \in [Workers -> Nat]
            /\ stale' \in [Workers -> SUBSET (Rows \X Nat)] /\ lag' \in [Workers -> Nat]
        BY <2>1, Zenon DEF Inv, Types, Goto
      <4> QED
        BY <4>1, <4>2, Zenon DEF Inv, Types
    <3>5. stale'[w] = {} /\ claimed'[w] = 0 /\ place'[w] = "top"
      BY <2>1, Zenon DEF Goto, Inv, Types
    <3>4. \A u \in Workers \ {w} : /\ stale'[u] = stale[u] /\ place'[u] = place[u]
                                   /\ lag'[u] = lag[u] /\ tried'[u] = tried[u]
                                   /\ claimed'[u] = claimed[u]
      BY <2>1, Zenon DEF Goto, Inv, Types
    <3> QED
      BY <2>1, <3>1, <3>2, <3>3, <3>4, <3>5, EnqueueStep, Zenon
  <2>3. CASE UNCHANGED columns
    BY <2>1, <2>3, WorkerMoves, Zenon DEF Goto, Inv, Types, columns, Holding, Holds
  <2> QED
    BY <1>12, <2>2, <2>3, Zenon DEF EnqueueRecurring
<1> QED
  BY <1>1, <1>2, <1>3, <1>4, <1>5, <1>6, <1>7, <1>8, <1>9, <1>10, <1>11, <1>12, Zenon DEF Step

\* So does every other step.
LEMMA InvStep == ASSUME Timed, Inv, [JobsNext]_jobvars, ~stalled' PROVE Inv'
<1>1. ASSUME NEW j \in Rows, NEW delay \in 0..1, Enqueue(j, delay) PROVE Inv'
  <2>1. enqueue(j, delay) /\ status[j] = "none" /\ UNCHANGED <<place, claimed, tried, stale, lag>>
    BY <1>1, Zenon DEF Enqueue
  <2>2. Types'
    BY <2>1 DEF enqueue, Inv, Types
  <2> QED
    BY <2>1, <2>2, EnqueueStep
<1>2. CASE schedule_recurring
  BY <1>2, WorkerMoves, Zenon DEF schedule_recurring, Inv, Types, columns, Holding, Holds
<1>3. ASSUME NEW w \in Workers, Step(w) PROVE Inv'
  BY <1>3, WorkerStep, Zenon
<1>4. ASSUME NEW w \in Workers, Crash(w) PROVE Inv'
  BY <1>4, WorkerMoves, Zenon DEF Crash, Inv, Types, columns, Holding, Holds
<1>5. CASE Tick
  BY <1>5, TickStep, Zenon
<1>6. CASE UNCHANGED jobvars
  BY <1>6, WorkerMoves, Zenon DEF jobvars, Inv, Types, columns, Holding, Holds
<1> QED
  BY <1>1, <1>2, <1>3, <1>4, <1>5, <1>6, Zenon DEF JobsNext

\* What has been late stays so.
LEMMA StallStays == ASSUME stalled, [JobsNext]_jobvars PROVE stalled'
<1>1. ASSUME NEW w \in Workers, Step(w) PROVE stalled'
  BY <1>1, Zenon DEF Step, StartWorker, FindStale, ReapStale, Claim, ClaimNothing, fail_unhandled,
                     HandlerEnds, succeed, SucceedRaises, Retry, FindDue, ClaimRecurring,
                     EnqueueRecurring, ToEnqueue, Goto, Resume, history
<1> QED
  BY <1>1, Zenon DEF JobsNext, Enqueue, schedule_recurring, Crash, Tick, jobvars, history

\* The table is empty at first.
LEMMA InvInit == ASSUME Timed PROVE JobsInit => Inv
BY DEF Timed, Configured, JobsInit, Inv, Types, Holding, Selected, Counted, CountOf
-----------------------------------------------------------------------------
(***************************************************************************)
(* The recurring job.  A worker that has read a next_run_at read one that  *)
(* was due; while the last firing is less than an interval old, the row's  *)
(* own next_run_at is not.  So a worker whose claim still finds the value  *)
(* that it read is not the second one in the interval.                     *)
(***************************************************************************)

Interval == every_seconds \in Nat \ {0} /\ Late \in Nat /\ MaxLag \in Nat

Spots == {"down", "top", "reap", "run", "succeed", "retry", "tick", "due", "enqueue"}
RecurTypes ==
  /\ scheduled \in BOOLEAN /\ next_run_at \in Int /\ fired \in Int
  /\ due \in [Workers -> Int] /\ lag \in [Workers -> Int]
  /\ place \in [Workers -> Spots]
RowAhead == fired < every_seconds => scheduled /\ next_run_at >= every_seconds - fired
ReadWasDue == \A w \in Workers : place[w] = "due" => scheduled /\ due[w] <= 0
Recurring == RecurTypes /\ RowAhead /\ ReadWasDue

\* A step that leaves the row alone and in which no worker reads it.
LEMMA OtherWork ==
  ASSUME Recurring, UNCHANGED recurring, RecurTypes',
         \A w \in Workers : place'[w] = "due" => place[w] = "due" /\ due'[w] = due[w]
  PROVE  Recurring'
<1>1. RowAhead'
  BY Zenon DEF Recurring, RowAhead, recurring
<1>2. ReadWasDue'
  BY Zenon DEF Recurring, ReadWasDue, recurring
<1> QED
  BY <1>1, <1>2, Zenon DEF Recurring

\* A worker that goes on elsewhere, with or without what it has read.
LEMMA MovesOn ==
  ASSUME Recurring, UNCHANGED recurring, NEW w \in Workers, NEW p \in Spots, p # "due",
         Goto(w, p) \/ Resume(w, p)
  PROVE  Recurring'
<1>1. RecurTypes'
  BY DEF Goto, Resume, Recurring, RecurTypes, Spots, recurring
<1>2. \A u \in Workers : place'[u] = "due" => place[u] = "due" /\ due'[u] = due[u]
  BY DEF Goto, Resume, Recurring, RecurTypes, Spots
<1> QED
  BY <1>1, <1>2, OtherWork, Zenon

\* tick_recurring's select takes a value that is due.
LEMMA RecurFind == ASSUME Interval, Recurring, NEW w \in Workers, FindDue(w) PROVE Recurring'
<1>1. RecurTypes'
  BY DEF Interval, FindDue, Recurring, RecurTypes, Spots, recurring
<1>2. RowAhead'
  BY Zenon DEF FindDue, Recurring, RowAhead, recurring
<1>3. ReadWasDue'
  BY DEF FindDue, Recurring, RecurTypes, Spots, ReadWasDue, recurring
<1> QED
  BY <1>1, <1>2, <1>3, Zenon DEF Recurring

\* Its update finds that value only when the last firing is an interval old.
LEMMA RecurClaim ==
  ASSUME Interval, Recurring, NEW w \in Workers, ClaimRecurring(w)
  PROVE  Recurring' /\ (fired' < fired => fired >= every_seconds)
<1>1. ASSUME claim_recurring(w), UNCHANGED scheduled, ToEnqueue(w),
             fired' = IF lag[w] < every_seconds THEN lag[w] ELSE every_seconds
      PROVE  Recurring' /\ (fired' < fired => fired >= every_seconds)
  <2>1. scheduled /\ next_run_at <= 0
    BY <1>1 DEF ClaimRecurring, claim_recurring, Recurring, ReadWasDue
  <2>2. fired >= every_seconds
    BY <2>1 DEF Interval, Recurring, RecurTypes, Spots, RowAhead
  <2>3. RecurTypes'
    BY <1>1 DEF Interval, claim_recurring, Since, ToEnqueue, Recurring, RecurTypes, Spots
  <2>4. RowAhead'
    BY <1>1, <2>1 DEF Interval, claim_recurring, Since, Recurring, RecurTypes, Spots, RowAhead
  <2>5. ReadWasDue'
    BY <1>1, <2>1 DEF ToEnqueue, Recurring, RecurTypes, Spots, ReadWasDue
  <2> QED
    BY <2>2, <2>3, <2>4, <2>5, Zenon DEF Recurring
<1>2. ASSUME Goto(w, "top"), UNCHANGED recurring
      PROVE  Recurring' /\ (fired' < fired => fired >= every_seconds)
  <2>1. Recurring'
    BY <1>2, MovesOn DEF Spots
  <2> QED
    BY <1>2, <2>1 DEF Recurring, RecurTypes, Spots, recurring
<1> QED
  BY <1>1, <1>2, Zenon DEF ClaimRecurring

\* Every other step of a worker leaves the recurring row alone.
LEMMA RecurWork ==
  ASSUME Interval, Recurring, NEW w \in Workers, Step(w) \/ Crash(w), ~ClaimRecurring(w)
  PROVE  Recurring' /\ (FindDue(w) \/ UNCHANGED recurring)
<1>1. ASSUME FindStale(w) \/ ReapStale(w) \/ (\E j \in Rows : Claim(w, j)) \/ Crash(w)
      PROVE  Recurring' /\ UNCHANGED recurring
  <2>1. UNCHANGED recurring
    BY <1>1, Zenon DEF FindStale, ReapStale, Claim, Crash
  <2>2. RecurTypes'
    <3>1. CASE FindStale(w) \/ (\E j \in Rows : Claim(w, j)) \/ Crash(w)
      BY <2>1, <3>1 DEF FindStale, Claim, Crash, Recurring, RecurTypes, Spots, recurring
    <3>2. CASE ReapStale(w)
      <4>1. UNCHANGED <<due, place>> /\ lag' = [lag EXCEPT ![w] = IF stale'[w] = {} THEN 0 ELSE @]
        BY <3>2, Zenon DEF ReapStale
      <4> QED
        BY <2>1, <4>1 DEF Recurring, RecurTypes, recurring
    <3> QED
      BY <1>1, <3>1, <3>2, Zenon
  <2>3. \A u \in Workers : place'[u] = "due" => place[u] = "due" /\ due'[u] = due[u]
    BY <1>1 DEF FindStale, ReapStale, Claim, Crash, Recurring, RecurTypes, Spots
  <2> QED
    BY <2>1, <2>2, <2>3, OtherWork, Zenon
<1>2. ASSUME StartWorker(w) \/ EnqueueRecurring(w) PROVE Recurring' /\ UNCHANGED recurring
  BY <1>2, MovesOn DEF StartWorker, EnqueueRecurring, Spots
<1>3. ASSUME ClaimNothing(w) \/ fail_unhandled(w) \/ succeed(w) \/ Retry(w)
      PROVE  Recurring' /\ UNCHANGED recurring
  BY <1>3, MovesOn DEF ClaimNothing, fail_unhandled, succeed, Retry, Spots
<1>4. ASSUME SucceedRaises(w) \/ \E result \in {"succeed", "retry"} : HandlerEnds(w, result)
      PROVE  Recurring' /\ UNCHANGED recurring
  BY <1>4, MovesOn DEF SucceedRaises, HandlerEnds, Spots
<1>5. ASSUME FindDue(w) PROVE Recurring'
  BY <1>5, RecurFind, Zenon
<1> QED
  BY <1>1, <1>2, <1>3, <1>4, <1>5, Zenon DEF Step

\* Time brings the row's next_run_at nearer as it makes the last firing older.
LEMMA RecurTick ==
  ASSUME Interval, Recurring, Tick PROVE Recurring' /\ fired' >= fired
<1>1. RecurTypes'
  BY DEF Interval, Tick, Earlier, Recurring, RecurTypes, Spots
<1>2. RowAhead' /\ fired' >= fired
  BY DEF Interval, Tick, Earlier, Recurring, RecurTypes, Spots, RowAhead
<1>3. ReadWasDue'
  BY DEF Interval, Tick, Earlier, Recurring, RecurTypes, Spots, ReadWasDue
<1> QED
  BY <1>1, <1>2, <1>3, Zenon DEF Recurring

\* Only a claim makes the last firing younger.
LEMMA RecurStep ==
  ASSUME Interval, Recurring, [JobsNext]_jobvars
  PROVE  Recurring' /\ (fired' < fired => fired >= every_seconds)
<1>0. ASSUME Recurring', UNCHANGED fired \/ fired' >= fired PROVE ~(fired' < fired)
  BY <1>0 DEF Recurring, RecurTypes, Spots
<1>1. ASSUME NEW j \in Rows, NEW delay \in 0..1, Enqueue(j, delay)
      PROVE  Recurring' /\ UNCHANGED fired
  BY <1>1, OtherWork, Zenon DEF Enqueue, Recurring, RecurTypes, Spots, recurring
<1>2. ASSUME schedule_recurring PROVE Recurring' /\ UNCHANGED fired
  BY <1>2 DEF schedule_recurring, Interval, Recurring, RecurTypes, Spots, RowAhead, ReadWasDue
<1>3. ASSUME NEW w \in Workers, Step(w) \/ Crash(w), ~ClaimRecurring(w)
      PROVE  Recurring' /\ UNCHANGED fired
  BY <1>3, RecurWork, Zenon DEF FindDue, recurring
<1>4. ASSUME UNCHANGED jobvars PROVE Recurring' /\ UNCHANGED fired
  BY <1>4, OtherWork, Zenon DEF jobvars, Recurring, RecurTypes, Spots, recurring
<1> QED
  BY <1>0, <1>1, <1>2, <1>3, <1>4, RecurClaim, RecurTick, Zenon DEF JobsNext

\* However many workers find the recurring job due, and whatever each of them does
\* between its select and its update, one of them fires it in an interval: the
\* update of claim_recurring repeats the next_run_at that the select has read.
THEOREM RecurringFiresOnce == ASSUME Interval PROVE JobsSpec => FiresOncePerInterval
<1>1. JobsInit => Recurring
  <2>0. JobsInit => scheduled \in BOOLEAN /\ ReadWasDue
    BY Zenon DEF JobsInit, ReadWasDue
  <2>1. JobsInit => RecurTypes
    BY <2>0 DEF Interval, JobsInit, RecurTypes, Spots
  <2>2. JobsInit => RowAhead
    <3>1. ~(every_seconds < every_seconds)
      BY DEF Interval
    <3> QED
      BY <3>1, Zenon DEF JobsInit, RowAhead
  <2> QED
    BY <2>0, <2>1, <2>2, Zenon DEF Recurring
<1>2. Recurring /\ [JobsNext]_jobvars => Recurring' /\ (fired' < fired => fired >= every_seconds)
  BY RecurStep, Zenon
<1>3. Recurring /\ [JobsNext]_jobvars => [fired' < fired => fired >= every_seconds]_jobvars
  BY <1>2, Zenon
<1> QED
  BY <1>1, <1>2, <1>3, PTL DEF JobsSpec, FiresOncePerInterval

-----------------------------------------------------------------------------
(***************************************************************************)
(* The backoff, by induction on the attempts: a least counterexample.      *)
(***************************************************************************)

INSTANCE WellFoundedInduction

\* Every nonempty set of natural numbers has a least element.
LEMMA Least == ASSUME NEW T \in SUBSET Nat, T # {} PROVE \E x \in T : \A y \in T : x <= y
<1>1. PICK x \in T : \A y \in T : ~(<<y, x>> \in OpToRel(<, Nat))
  BY NatLessThanWellFounded, WFMin, Zenon
<1>2. \A y \in T : ~(y < x)
  BY <1>1, Zenon DEF OpToRel
<1> QED BY <1>2

\* The recursion of Doubled, up to some attempt.
IsDoubled(f, m) == f = [n \in 1..m |-> IF n = 1 THEN FirstBackoff ELSE 2 * f[n - 1]]

\* There is such a function, so that Doubled is one.
LEMMA DoubledExists == ASSUME NEW k \in Nat PROVE \E f : IsDoubled(f, k)
<1> DEFINE T == {m \in Nat : ~ \E f : IsDoubled(f, m)}
<1>1. SUFFICES ASSUME T # {} PROVE FALSE
  OBVIOUS
<1>2. PICK m \in T : \A y \in T : m <= y
  BY <1>1, Least
<1>3. CASE m = 0
  <2>1. IsDoubled([n \in 1..0 |-> 0], 0)
    BY DEF IsDoubled
  <2> QED BY <1>3, <2>1
<1>4. CASE m # 0
  <2>1. m - 1 \in Nat /\ m - 1 \notin T
    BY <1>2, <1>4
  <2>2. PICK f : IsDoubled(f, m - 1)
    BY <2>1
  <2> DEFINE g == [n \in 1..m |-> IF n = m THEN (IF n = 1 THEN FirstBackoff ELSE 2 * f[n - 1]) ELSE f[n]]
  <2>3. \A n \in 1..m : g[n] = IF n = 1 THEN FirstBackoff ELSE 2 * g[n - 1]
    BY <2>1, <2>2 DEF IsDoubled
  <2>4. IsDoubled(g, m)
    BY <2>3 DEF IsDoubled
  <2> QED BY <2>4
<1> QED BY <1>3, <1>4

\* Doubled obeys its recursion.
LEMMA DoubledDef == ASSUME max_attempts \in Nat PROVE IsDoubled(Doubled, max_attempts)
  BY DoubledExists DEF Doubled, IsDoubled

\* What it doubles is a number of seconds, and never less than the first.
LEMMA DoubledGrows ==
  ASSUME Configured, NEW n \in 1..max_attempts
  PROVE  Doubled[n] \in Nat /\ Doubled[n] >= FirstBackoff
<1> DEFINE T == {m \in 1..max_attempts : ~(Doubled[m] \in Nat /\ Doubled[m] >= FirstBackoff)}
<1>1. SUFFICES ASSUME T # {} PROVE FALSE
  OBVIOUS
<1>2. T \in SUBSET Nat /\ max_attempts \in Nat /\ FirstBackoff \in Nat
  BY DEF Configured
<1>3. PICK m \in T : \A y \in T : m <= y
  BY <1>1, <1>2, Least
<1>4. Doubled[m] = IF m = 1 THEN FirstBackoff ELSE 2 * Doubled[m - 1]
  BY <1>2, DoubledDef DEF IsDoubled
<1>5. m # 1 => m - 1 \in 1..max_attempts /\ m - 1 \notin T
  BY <1>2, <1>3
<1> QED BY <1>2, <1>4, <1>5

\* backoff_seconds: the cap is no shorter than the first backoff either.
LEMMA BackoffsDoGrow == ASSUME Configured PROVE Timed
<1> SUFFICES ASSUME NEW n \in 1..max_attempts
             PROVE  backoff_seconds(n) \in Int /\ backoff_seconds(n) >= FirstBackoff
  BY Zenon DEF Timed, BackoffsGrow
<1>1. Doubled[n] \in Nat /\ Doubled[n] >= FirstBackoff
  BY DoubledGrows
<1> QED BY <1>1 DEF backoff_seconds, Configured

\* Until a reap_stale! is late, the invariant holds.
LEMMA JobsUntilStall == ASSUME Configured PROVE JobsSpec => [](stalled \/ Inv)
<1>1. JobsInit => Inv
  BY BackoffsDoGrow, InvInit, Zenon
<1>2. Inv /\ [JobsNext]_jobvars => stalled' \/ Inv'
  BY BackoffsDoGrow, InvStep, Zenon
<1>3. stalled /\ [JobsNext]_jobvars => stalled'
  BY StallStays, Zenon
<1> QED
  BY <1>1, <1>2, <1>3, PTL DEF JobsSpec

\* With jobs that end before their lock expires, and until a reap_stale! is held up
\* for FirstBackoff, no row is taken from the worker that runs it, however many
\* workers reap and claim and die.
THEOREM JobsRunAlone == ASSUME Configured PROVE JobsSpec => []JobRunsAlone
<1>1. stalled \/ Inv => JobRunsAlone
  BY Zenon DEF Inv, Holding, Holds, JobRunsAlone
<1> QED
  BY <1>1, JobsUntilStall, PTL

\* Under the same conditions every claim is one attempt, and there are at most
\* max_attempts of them.
THEOREM AttemptsAreCounted == ASSUME Configured PROVE JobsSpec => []AttemptsCounted
<1>1. stalled \/ Inv => AttemptsCounted
  BY Zenon DEF Inv, Counted, CountOf, AttemptsCounted
<1> QED
  BY <1>1, JobsUntilStall, PTL

=============================================================================
