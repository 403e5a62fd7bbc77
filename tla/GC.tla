--------------------------------- MODULE GC ---------------------------------
(***************************************************************************)
(* The generational collector of one VM: the program's reads and writes    *)
(* with their write barriers, the switches between Fibers, and the minor   *)
(* and major collections, which may run before any allocation.             *)
(*                                                                         *)
(* An Instance stands for every object with a fixed set of references      *)
(* (Cell, Closure, exception, Thread handle, ...).  A Hash entry is one    *)
(* reference: its key and value are always written, moved and scanned      *)
(* together.  The Main context stands for the frames below every Fiber and *)
(* for the roots that are in no frame (constants, class variables,         *)
(* protected values).  A slot past an object's count is kept at Nil, since *)
(* nothing reads one.  Failures of the host allocator are left out: they   *)
(* end the program.                                                        *)
(***************************************************************************)
EXTENDS Integers, FiniteSets

CONSTANTS
  Instances, Arrays, Hashes, Fibers,  \* the addresses each kind may live at
  Main, Nil,
  CardSize,    \* DIAMOND_GC_CARD_SIZE
  FirstGrowth, \* the capacity a container first grows to: 8 in the code
  MaxCount,    \* bound: slots of one object
  MaxLiteral   \* bound: elements of an Array literal

ASSUME KindsDisjoint ==
  /\ Instances \cap (Arrays \cup Hashes \cup Fibers) = {}
  /\ Arrays \cap (Hashes \cup Fibers) = {}
  /\ Hashes \cap Fibers = {}
ASSUME NamesDistinct ==
  /\ Main # Nil
  /\ {Main, Nil} \cap (Instances \cup Arrays \cup Hashes \cup Fibers) = {}
ASSUME SizesAssumption ==
  /\ CardSize \in Nat \ {0}
  /\ FirstGrowth \in Nat \ {0}
  /\ MaxCount \in Nat /\ MaxCount >= 3
  /\ MaxLiteral \in 0..MaxCount

Containers == Arrays \cup Hashes
Objects == Instances \cup Containers \cup Fibers
Values == Objects \cup {Nil}
Contexts == Fibers \cup {Main}
Slots == 0..(MaxCount - 1)

VARIABLES
  gen,              \* "free", "young" (young_objects) or "old" (old_objects)
  slot,             \* references an object holds, by index
  count, capacity,
  remembered,       \* the header's bit
  remembered_set,
  dirty_cards,      \* indices of the cards that are set
  card_capacity,    \* dirty_card_capacity; 0 when there is no card table
  frames,           \* the registers of each context's frames
  state,            \* of each Fiber
  running_fiber,    \* the context that runs
  resumer           \* resumer_fiber, and with it resumer_frames

cardvars == <<dirty_cards, card_capacity>>
barriervars == <<remembered, remembered_set, dirty_cards, card_capacity>>
fibervars == <<state, running_fiber, resumer>>
vars == <<gen, slot, count, capacity, remembered, remembered_set, dirty_cards,
          card_capacity, frames, state, running_fiber, resumer>>

TypeOK ==
  /\ gen \in [Objects -> {"free", "young", "old"}]
  /\ slot \in [Objects -> [Slots -> Values]]
  /\ count \in [Objects -> 0..MaxCount]
  /\ capacity \in [Objects -> Nat]
  /\ remembered \in [Objects -> BOOLEAN]
  /\ remembered_set \in SUBSET Objects
  /\ dirty_cards \in [Objects -> SUBSET Nat]
  /\ card_capacity \in [Objects -> Nat]
  /\ frames \in [Contexts -> SUBSET Objects]
  /\ state \in [Fibers -> {"runnable", "running", "suspended", "done"}]
  /\ running_fiber \in Contexts
  /\ resumer \in [Fibers -> Contexts \cup {Nil}]

NoRefs == [i \in Slots |-> Nil]

\* ARGV and ENV, which diamond_vm_init allocates last, are roots like others.
Init ==
  /\ gen = [o \in Objects |-> "free"]
  /\ slot = [o \in Objects |-> NoRefs]
  /\ count = [o \in Objects |-> 0]
  /\ capacity = [o \in Objects |-> 0]
  /\ remembered = [o \in Objects |-> FALSE]
  /\ remembered_set = {}
  /\ dirty_cards = [o \in Objects |-> {}]
  /\ card_capacity = [o \in Objects |-> 0]
  /\ frames = [c \in Contexts |-> {}]
  /\ state = [f \in Fibers |-> "runnable"]
  /\ running_fiber = Main
  /\ resumer = [f \in Fibers |-> Nil]

\* What the running code has in its registers.
Registers == frames[running_fiber]
Operands == Registers \cup {Nil}

\* A Fiber's code also reads the captures of its entry closure.
Readable ==
  (Registers \ Fibers) \cup
    ({slot[f][0] : f \in {g \in Fibers : g = running_fiber}} \ {Nil})

Loaded(v) == [frames EXCEPT ![running_fiber] = @ \cup ({v} \ {Nil})]

-----------------------------------------------------------------------------
(* The write barriers.                                                     *)

Card(i) == i \div CardSize
CardCount(cap) == (cap + CardSize - 1) \div CardSize

gc_write_barrier(o) ==
  IF gen[o] = "old" /\ ~remembered[o]
  THEN /\ remembered_set' = remembered_set \cup {o}
       /\ remembered' = [remembered EXCEPT ![o] = TRUE]
  ELSE UNCHANGED <<remembered, remembered_set>>

\* The card table is created or grown to the container's capacity first.
mark_cards_dirty(o, cards, cap) ==
  /\ card_capacity' =
       [card_capacity EXCEPT ![o] =
          IF @ = 0 /\ CardCount(cap) = 0 THEN 1
          ELSE IF CardCount(cap) > @ THEN CardCount(cap) ELSE @]
  /\ dirty_cards' = [dirty_cards EXCEPT ![o] = @ \cup cards]

gc_write_barrier_range(o, start, n, cap) ==
  /\ gc_write_barrier(o)
  /\ IF gen[o] = "old" /\ n > 0
     THEN mark_cards_dirty(o, Card(start)..Card(start + n - 1), cap)
     ELSE UNCHANGED cardvars

gc_write_barrier_index(o, i, cap) == gc_write_barrier_range(o, i, 1, cap)

-----------------------------------------------------------------------------
(* The program.                                                            *)

\* Every allocation makes a young object and puts it in a register.
Allocate(o, refs, n, cap) ==
  /\ gen[o] = "free"
  /\ gen' = [gen EXCEPT ![o] = "young"]
  /\ slot' = [slot EXCEPT ![o] = refs]
  /\ count' = [count EXCEPT ![o] = n]
  /\ capacity' = [capacity EXCEPT ![o] = cap]
  /\ frames' = Loaded(o)
  /\ UNCHANGED barriervars

AllocateInstance(o) == Allocate(o, NoRefs, 1, 0) /\ UNCHANGED fibervars

\* An Array literal has no spare capacity.
AllocateArray(o, n, refs) ==
  /\ Allocate(o, [i \in Slots |-> IF i < n THEN refs[i] ELSE Nil], n, n)
  /\ UNCHANGED fibervars

AllocateHash(o) == Allocate(o, NoRefs, 0, 0) /\ UNCHANGED fibervars

\* A Fiber holds its entry closure, its last result and the value of its
\* last resume, in slots 0, 1 and 2.
AllocateFiber(f, closure) ==
  /\ Allocate(f, [NoRefs EXCEPT ![0] = closure], 3, 0)
  /\ state' = [state EXCEPT ![f] = "runnable"]
  /\ UNCHANGED <<running_fiber, resumer>>

Read(o, i) ==
  /\ i < count[o]
  /\ frames' = Loaded(slot[o][i])
  /\ UNCHANGED <<gen, slot, count, capacity, barriervars, fibervars>>

SetField(o, i, v) ==
  /\ i < count[o]
  /\ slot' = [slot EXCEPT ![o][i] = v]
  /\ gc_write_barrier(o)
  /\ UNCHANGED <<gen, count, capacity, cardvars, frames, fibervars>>

\* Array#[]= with an Int index, and Hash#[]= of a key that is present.
SetIndex(o, i, v) ==
  /\ i < count[o]
  /\ slot' = [slot EXCEPT ![o][i] = v]
  /\ gc_write_barrier_index(o, i, capacity[o])
  /\ UNCHANGED <<gen, count, capacity, frames, fibervars>>

Grown(o) ==
  IF count[o] < capacity[o] THEN capacity[o]
  ELSE IF capacity[o] < FirstGrowth THEN FirstGrowth ELSE 2 * capacity[o]

\* Mutant: the card table is sized for the capacity before the growth.
PushSizedBefore(o, v) ==
  /\ count[o] < MaxCount
  /\ capacity' = [capacity EXCEPT ![o] = Grown(o)]
  /\ slot' = [slot EXCEPT ![o][count[o]] = v]
  /\ count' = [count EXCEPT ![o] = @ + 1]
  /\ gc_write_barrier_index(o, count[o], capacity[o])
  /\ UNCHANGED <<gen, frames, fibervars>>

\* Mutant: the count is advanced twice.
PushCountsTwice(o, v) ==
  /\ count[o] < MaxCount
  /\ capacity' = [capacity EXCEPT ![o] = Grown(o)]
  /\ slot' = [slot EXCEPT ![o][count[o]] = v]
  /\ count' = [count EXCEPT ![o] = @ + 2]
  /\ gc_write_barrier_index(o, count[o], Grown(o))
  /\ UNCHANGED <<gen, frames, fibervars>>

\* array_push, and Hash#[]= of a key that is absent.
Push(o, v) ==
  /\ count[o] < MaxCount
  /\ capacity' = [capacity EXCEPT ![o] = Grown(o)]
  /\ slot' = [slot EXCEPT ![o][count[o]] = v]
  /\ count' = [count EXCEPT ![o] = @ + 1]
  /\ gc_write_barrier_index(o, count[o], Grown(o))
  /\ UNCHANGED <<gen, frames, fibervars>>

ArrayPop(o) ==
  /\ count[o] > 0
  /\ frames' = Loaded(slot[o][count[o] - 1])
  /\ slot' = [slot EXCEPT ![o][count[o] - 1] = Nil]
  /\ count' = [count EXCEPT ![o] = @ - 1]
  /\ UNCHANGED <<gen, capacity, barriervars, fibervars>>

\* Array#[]= with a Range: the replacement has exactly the range's length.
SetRange(o, start, p) ==
  /\ start + count[p] <= count[o]
  /\ slot' = [slot EXCEPT ![o] = [i \in Slots |->
       IF start <= i /\ i < start + count[p] THEN slot[p][i - start]
       ELSE slot[o][i]]]
  /\ gc_write_barrier_range(o, start, count[p], capacity[o])
  /\ UNCHANGED <<gen, count, capacity, frames, fibervars>>

\* Mutant: the cards of the entries that moved are not dirtied.
hash_delete_undirtied(o, i) ==
  /\ i < count[o]
  /\ frames' = Loaded(slot[o][i])
  /\ slot' = [slot EXCEPT ![o] = [j \in Slots |->
       IF j < i THEN slot[o][j]
       ELSE IF j + 1 < count[o] THEN slot[o][j + 1] ELSE Nil]]
  /\ count' = [count EXCEPT ![o] = @ - 1]
  /\ UNCHANGED <<gen, capacity, barriervars, fibervars>>

\* The later entries move down one place.
hash_delete(o, i) ==
  /\ i < count[o]
  /\ frames' = Loaded(slot[o][i])
  /\ slot' = [slot EXCEPT ![o] = [j \in Slots |->
       IF j < i THEN slot[o][j]
       ELSE IF j + 1 < count[o] THEN slot[o][j + 1] ELSE Nil]]
  /\ count' = [count EXCEPT ![o] = @ - 1]
  /\ gc_write_barrier_range(o, i, count[o] - 1 - i, capacity[o])
  /\ UNCHANGED <<gen, capacity, fibervars>>

HashClear(o) ==
  /\ slot' = [slot EXCEPT ![o] = NoRefs]
  /\ count' = [count EXCEPT ![o] = 0]
  /\ UNCHANGED <<gen, capacity, barriervars, frames, fibervars>>

\* The registers a context keeps while a Fiber it resumed runs: the receiver
\* and the argument of the call.
Pinned(c) ==
  UNION {{f, slot[f][2]} : f \in {g \in Fibers : state[g] = "running" /\ resumer[g] = c}}

\* The running code overwrites a register, or anyone a root outside frames.
Drop(c, o) ==
  /\ c \in {running_fiber, Main} /\ o \in frames[c] \ Pinned(c)
  /\ frames' = [frames EXCEPT ![c] = @ \ {o}]
  /\ UNCHANGED <<gen, slot, count, capacity, barriervars, fibervars>>

\* A constant or a class variable is set.
Publish(o) ==
  /\ frames' = [frames EXCEPT ![Main] = @ \cup {o}]
  /\ UNCHANGED <<gen, slot, count, capacity, barriervars, fibervars>>

\* A Fiber that has yielded before finds the value in a register.
Resume(f, v) ==
  /\ state[f] \in {"runnable", "suspended"}
  /\ slot' = [slot EXCEPT ![f][2] = v]
  /\ state' = [state EXCEPT ![f] = "running"]
  /\ resumer' = [resumer EXCEPT ![f] = running_fiber]
  /\ running_fiber' = f
  /\ frames' = IF state[f] = "suspended" /\ v # Nil
               THEN [frames EXCEPT ![f] = @ \cup {v}] ELSE frames
  /\ UNCHANGED <<gen, count, capacity, barriervars>>

\* Control goes back to the resumer with v.  It runs the write barrier on the
\* Fiber's handle before anything else.
SwitchBack(f, result, left, outcome, v) ==
  /\ running_fiber = f
  /\ slot' = [slot EXCEPT ![f][1] = result]
  /\ state' = [state EXCEPT ![f] = outcome]
  /\ running_fiber' = resumer[f]
  /\ resumer' = [resumer EXCEPT ![f] = Nil]
  /\ frames' = [[frames EXCEPT ![f] = left] EXCEPT ![resumer[f]] = @ \cup ({v} \ {Nil})]
  /\ gc_write_barrier(f)
  /\ UNCHANGED <<gen, count, capacity, cardvars>>

Yield(f, v) == SwitchBack(f, v, frames[f], "suspended", v)
Complete(f, v) == SwitchBack(f, v, {}, "done", v)

\* The exception is a root; the last result stays where it is.
Fail(f, exception) == SwitchBack(f, slot[f][1], {}, "done", exception)

-----------------------------------------------------------------------------
(* The collector.                                                          *)

Refs(o) == {slot[o][i] : i \in Slots} \ {Nil}

\* Mutant: the frames of a suspended Fiber are not marked.
mark_object_children_unframed(o) == Refs(o)

\* The frames of a running Fiber are reached from the roots, the frames of
\* any other from its handle.
mark_object_children(o) ==
  Refs(o) \cup (IF o \in Fibers /\ state[o] # "running" THEN frames[o] ELSE {})

\* Mutant: the frames of the resumers are left out.
ActiveTop == {Main, running_fiber}

Active == {Main} \cup {f \in Fibers : state[f] = "running"}
RootRefs == UNION {frames[c] : c \in Active}

\* What marking from the references in roots reaches, stepping only on the
\* objects in space.
mark_object(roots, space) ==
  {o \in space : \A S \in SUBSET space :
     (/\ roots \cap space \subseteq S
      /\ \A p \in S : mark_object_children(p) \cap space \subseteq S) => o \in S}

\* Mutant: the last, partial card is left out.
ScannedWhole(o) ==
  {k \in dirty_cards[o] : k < capacity[o] \div CardSize /\ k < card_capacity[o]}

\* The cards of a remembered container that a minor collection scans.
Scanned(o) ==
  {k \in dirty_cards[o] : k < CardCount(capacity[o]) /\ k < card_capacity[o]}

RememberedRefs(o) ==
  IF o \in Containers /\ card_capacity[o] > 0
  THEN {slot[o][i] : i \in {j \in Slots : Card(j) \in Scanned(o)}} \ {Nil}
  ELSE mark_object_children(o)

Of(generation) == {o \in Objects : gen[o] = generation}

MinorMarked ==
  mark_object(RootRefs \cup UNION {RememberedRefs(o) : o \in remembered_set}, Of("young"))

MajorMarked == mark_object(RootRefs, Of("young") \cup Of("old"))

\* An object that is freed or pooled loses everything it had.
sweep_list(dead, promoted) ==
  /\ gen' = [o \in Objects |-> IF o \in dead THEN "free"
                               ELSE IF o \in promoted THEN "old" ELSE gen[o]]
  /\ slot' = [o \in Objects |-> IF o \in dead THEN NoRefs ELSE slot[o]]
  /\ count' = [o \in Objects |-> IF o \in dead THEN 0 ELSE count[o]]
  /\ capacity' = [o \in Objects |-> IF o \in dead THEN 0 ELSE capacity[o]]
  /\ remembered' = [o \in Objects |-> o \notin dead /\ remembered[o]]
  /\ card_capacity' = [o \in Objects |-> IF o \in dead THEN 0 ELSE card_capacity[o]]
  /\ frames' = [c \in Contexts |-> IF c \in dead THEN {} ELSE frames[c]]

\* Every survivor is promoted, and every scanned card is clean again.
CollectMinor ==
  /\ sweep_list(Of("young") \ MinorMarked, MinorMarked)
  /\ dirty_cards' = [o \in Objects |->
       IF o \in remembered_set \cap Containers THEN dirty_cards[o] \ Scanned(o)
       ELSE dirty_cards[o]]
  /\ UNCHANGED <<remembered_set, fibervars>>

\* Mutant: the remembered set is not filtered.
CollectMajorUnfiltered ==
  LET dead == (Of("young") \cup Of("old")) \ MajorMarked IN
  /\ sweep_list(dead, {})
  /\ dirty_cards' = [o \in Objects |-> IF o \in dead THEN {} ELSE dirty_cards[o]]
  /\ UNCHANGED <<remembered_set, fibervars>>

\* A survivor stays in its generation.
CollectMajor ==
  LET dead == (Of("young") \cup Of("old")) \ MajorMarked IN
  /\ remembered_set' = remembered_set \cap MajorMarked
  /\ sweep_list(dead, {})
  /\ dirty_cards' = [o \in Objects |-> IF o \in dead THEN {} ELSE dirty_cards[o]]
  /\ UNCHANGED fibervars

-----------------------------------------------------------------------------
Next ==
  \/ \E o \in Instances : AllocateInstance(o)
  \/ \E o \in Arrays, n \in 0..MaxLiteral : \E refs \in [0..(n - 1) -> Operands] :
       AllocateArray(o, n, refs)
  \/ \E o \in Hashes : AllocateHash(o)
  \/ \E f \in Fibers, closure \in Registers \cap Instances : AllocateFiber(f, closure)
  \/ \E o \in Readable, i \in Slots : Read(o, i)
  \/ \E o \in Registers \cap Instances, i \in Slots, v \in Operands : SetField(o, i, v)
  \/ \E o \in Registers \cap Containers, i \in Slots, v \in Operands : SetIndex(o, i, v)
  \/ \E o \in Registers \cap Containers, v \in Operands : Push(o, v)
  \/ \E o \in Registers \cap Arrays : ArrayPop(o)
  \/ \E o, p \in Registers \cap Arrays, start \in 0..MaxCount : SetRange(o, start, p)
  \/ \E o \in Registers \cap Hashes, i \in Slots : hash_delete(o, i)
  \/ \E o \in Registers \cap Hashes : HashClear(o)
  \/ \E c \in Contexts, o \in Objects : Drop(c, o)
  \/ \E o \in Registers : Publish(o)
  \/ \E f \in Registers \cap Fibers, v \in Operands : Resume(f, v)
  \/ \E f \in Fibers, v \in Operands : Yield(f, v) \/ Complete(f, v) \/ Fail(f, v)
  \/ CollectMinor
  \/ CollectMajor

Spec == Init /\ [][Next]_vars

-----------------------------------------------------------------------------
(* Properties.                                                             *)

Allocated == Of("young") \cup Of("old")

\* Whatever the program or an object refers to is allocated: no collection
\* frees something that can still be used (mark_object, sweep_list).
NoDangling ==
  /\ RootRefs \subseteq Allocated
  /\ \A o \in Allocated : mark_object_children(o) \subseteq Allocated

\* A young object referred to by an old one is found by the next minor
\* collection, which never steps on old objects: through the remembered set
\* and the cards it scans, or, for the argument of a resume, which is stored
\* with no barrier until control comes back, through the resumer's registers.
OldToYoungRecorded ==
  \A o \in Of("old") : \A y \in mark_object_children(o) \cap Of("young") :
    \/ o \in remembered_set /\ y \in RememberedRefs(o)
    \/ o \in Fibers /\ state[o] = "running" /\ y \in frames[resumer[o]]

\* The remembered set holds exactly the objects whose bit is set, all of them
\* old and none of them freed: what makes the bit safe to test instead of the
\* set, and mark_remembered_set safe to follow.
RememberedExact ==
  /\ remembered_set = {o \in Objects : remembered[o]}
  /\ remembered_set \subseteq Of("old")

\* A card table always covers its container, however it grew before or after
\* the table was made, so that mark_card_dirty writes inside it and the bounds
\* of mark_remembered_set's loop leave out no dirty card.
CardTableCovers ==
  \A o \in Objects :
    /\ \A k \in dirty_cards[o] : k < card_capacity[o] /\ k < CardCount(capacity[o])
    /\ card_capacity[o] > 0 => CardCount(capacity[o]) <= card_capacity[o]

\* A Fiber that runs, or that waits for one it resumed, keeps its handle, whose
\* sweep would unmap the stack it runs on.
RunningHandleHeld ==
  \A f \in Fibers : state[f] = "running" =>
    gen[f] # "free" /\ resumer[f] \in Active /\ f \in frames[resumer[f]]


=============================================================================
