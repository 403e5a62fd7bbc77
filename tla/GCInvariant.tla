---------------------------- MODULE GCInvariant -----------------------------
(***************************************************************************)
(* The inductive invariant of the collector, the arithmetic of its cards,  *)
(* what one write with its barrier, whatever it is, does to the invariant, *)
(* and then each step of the program that allocates, reads or writes.      *)
(***************************************************************************)
EXTENDS GC, TLAPS

-----------------------------------------------------------------------------
(* Card arithmetic.                                                        *)

\* Integer division by the card size, as the two inequalities it stands for.
LEMMA DivBounds ==
  ASSUME NEW n \in Nat
  PROVE  /\ n \div CardSize \in Nat
         /\ CardSize * (n \div CardSize) <= n
         /\ n < CardSize * (n \div CardSize) + CardSize
BY SizesAssumption, SMTT(30)

\* A product with the card size orders as its factors do.
LEMMA TimesMonotone ==
  ASSUME NEW p \in Nat, NEW q \in Nat, p < q
  PROVE  CardSize * p + CardSize <= CardSize * q
BY SizesAssumption, SMTT(30)

\* The card of an index is inside the cards of its container (mark_card_dirty's
\* needed_cards).
LEMMA CardBound ==
  ASSUME NEW i \in Nat, NEW cap \in Nat, i < cap
  PROVE  Card(i) \in Nat /\ CardCount(cap) \in Nat /\ Card(i) < CardCount(cap)
<1>1. cap + CardSize - 1 \in Nat
  BY SizesAssumption
<1> DEFINE p == (cap + CardSize - 1) \div CardSize
           q == i \div CardSize
<1>2. p \in Nat /\ cap + CardSize - 1 < CardSize * p + CardSize
  BY <1>1, DivBounds, Zenon
<1>3. q \in Nat /\ CardSize * q <= i
  BY DivBounds, Zenon
<1>4. ASSUME p <= q PROVE FALSE
  <2>1. CASE p = q
    BY <2>1, <1>2, <1>3, SizesAssumption
  <2>2. CASE p < q
    <3>1. CardSize * p + CardSize <= CardSize * q
      BY <2>2, <1>2, <1>3, TimesMonotone, Zenon
    <3> HIDE DEF p, q
    <3> QED BY <3>1, <1>2, <1>3, SizesAssumption
  <2> HIDE DEF p, q
  <2> QED BY <2>1, <2>2, <1>4, <1>2, <1>3
<1>5. q < p
  <2> HIDE DEF p, q
  <2> QED BY <1>2, <1>3, <1>4
<1> QED BY <1>2, <1>3, <1>5, Zenon DEF Card, CardCount

\* Division by the card size keeps the order.
LEMMA DivMonotone ==
  ASSUME NEW m \in Nat, NEW n \in Nat, m <= n
  PROVE  m \div CardSize <= n \div CardSize
<1> DEFINE p == n \div CardSize
           q == m \div CardSize
<1>2. p \in Nat /\ n < CardSize * p + CardSize
  BY DivBounds, Zenon
<1>3. q \in Nat /\ CardSize * q <= m
  BY DivBounds, Zenon
<1>4. ASSUME p < q PROVE FALSE
  <2>1. CardSize * p + CardSize <= CardSize * q
    BY <1>4, <1>2, <1>3, TimesMonotone, Zenon
  <2> HIDE DEF p, q
  <2> QED BY <2>1, <1>2, <1>3, SizesAssumption
<1> HIDE DEF p, q
<1>5. q <= p
  BY <1>2, <1>3, <1>4
<1> QED BY <1>5, Zenon DEF p, q

\* The cards of an index and of a later one are in order, and so are the card
\* counts of a capacity and of a larger one.
LEMMA CardMonotone ==
  ASSUME NEW i \in Nat, NEW j \in Nat, i <= j
  PROVE  Card(i) \in Nat /\ Card(j) \in Nat /\ Card(i) <= Card(j)
BY DivBounds, DivMonotone, Zenon DEF Card

\* A larger container has at least as many cards.
LEMMA CardCountMonotone ==
  ASSUME NEW i \in Nat, NEW j \in Nat, i <= j
  PROVE  CardCount(i) \in Nat /\ CardCount(j) \in Nat /\ CardCount(i) <= CardCount(j)
<1>1. i + CardSize - 1 \in Nat /\ j + CardSize - 1 \in Nat
      /\ i + CardSize - 1 <= j + CardSize - 1
  BY SizesAssumption
<1> QED BY <1>1, DivBounds, DivMonotone, Zenon DEF CardCount

-----------------------------------------------------------------------------
(* The inductive invariant.                                                *)

\* Each container's cards are inside its table, the table covers the
\* container, and nothing but an old container has one.
CardsInv ==
  \A o \in Objects :
    /\ \A k \in dirty_cards[o] : k < card_capacity[o] /\ k < CardCount(capacity[o])
    /\ card_capacity[o] > 0 => CardCount(capacity[o]) <= card_capacity[o]
    /\ card_capacity[o] > 0 => gen[o] = "old" /\ o \in Containers

\* Slots past a container's count are empty, and the count is within the
\* capacity.
SlotsInv ==
  \A o \in Objects : o \in Containers =>
    /\ \A i \in Slots : i >= count[o] => slot[o][i] = Nil
    /\ count[o] <= capacity[o]

\* No reference, in a frame or in an object, is to a free address.
RefsInv ==
  /\ \A c \in Contexts : \A y \in frames[c] : gen[y] # "free"
  /\ \A o \in Objects, i \in Slots : slot[o][i] # Nil => gen[slot[o][i]] # "free"

\* A free address holds nothing.
FreeInv ==
  \A o \in Objects : gen[o] = "free" =>
    /\ \A i \in Slots : slot[o][i] = Nil
    /\ o \in Fibers => frames[o] = {} /\ state[o] # "running"

\* The card of a container's slot is dirty, even if the container has no card
\* table yet: the first card made later must not hide an older reference.
SlotRecorded(o, i) ==
  remembered[o] /\ (o \in Containers => Card(i) \in dirty_cards[o])

\* A slot of an old object that refers to a young one is recorded, except for
\* the argument of a resume that has not come back.
RecordInv ==
  /\ \A o \in Objects, i \in Slots :
       gen[o] = "old" /\ slot[o][i] # Nil /\ gen[slot[o][i]] = "young" =>
         SlotRecorded(o, i) \/ (o \in Fibers /\ state[o] = "running" /\ i = 2)
  /\ \A f \in Fibers :
       gen[f] = "old" /\ state[f] # "running" =>
         \A y \in frames[f] : gen[y] = "young" => remembered[f]

\* The running Fibers form a chain of resumers below the one that runs, each
\* held, with the argument of its resume, in the frames of its resumer.
ChainInv ==
  /\ running_fiber \in Active
  /\ \A f \in Fibers : state[f] = "running" =>
       /\ resumer[f] \in Active
       /\ f \in frames[resumer[f]]
       /\ slot[f][2] # Nil => slot[f][2] \in frames[resumer[f]]
       /\ resumer[f] # running_fiber
  /\ \A f, g \in Fibers :
       state[f] = "running" /\ state[g] = "running" /\ resumer[f] = resumer[g] => f = g

IInv ==
  /\ TypeOK /\ RememberedExact /\ CardsInv /\ SlotsInv /\ RefsInv /\ FreeInv
  /\ RecordInv /\ ChainInv

-----------------------------------------------------------------------------
(* The write barriers and the program's writes.                            *)

\* gc_write_barrier keeps the remembered set and the bits in step, forgets
\* nothing and records an old owner.
LEMMA Barrier ==
  ASSUME TypeOK, RememberedExact, NEW o \in Objects, gc_write_barrier(o), gen' = gen
  PROVE  /\ remembered' \in [Objects -> BOOLEAN] /\ remembered_set' \in SUBSET Objects
         /\ RememberedExact'
         /\ \A p \in Objects : remembered[p] => remembered'[p]
         /\ gen[o] = "old" => remembered'[o]
<1>1. CASE gen[o] = "old" /\ ~remembered[o]
  <2>1. /\ remembered_set' = remembered_set \cup {o}
        /\ remembered' = [remembered EXCEPT ![o] = TRUE]
    BY <1>1, Zenon DEF gc_write_barrier
  <2>2. \A p \in Objects : remembered'[p] = IF p = o THEN TRUE ELSE remembered[p]
    BY <2>1, Zenon DEF TypeOK
  <2>3. remembered' \in [Objects -> BOOLEAN] /\ remembered_set' \in SUBSET Objects
    BY <2>1, Zenon DEF TypeOK
  <2>4. RememberedExact'
    BY <2>1, <2>2, <2>3, <1>1, Zenon DEF RememberedExact, Of
  <2> QED BY <2>2, <2>3, <2>4, Zenon
<1>2. CASE ~(gen[o] = "old" /\ ~remembered[o])
  BY <1>2, Zenon DEF gc_write_barrier, TypeOK, RememberedExact, Of
<1> QED BY <1>1, <1>2, Zenon

\* gc_write_barrier_range moreover keeps every card inside a table that covers
\* the container, and dirties the card of every index in the range.
LEMMA RangeBarrier ==
  ASSUME TypeOK, RememberedExact, CardsInv,
         NEW o \in Containers, NEW start \in Nat, NEW n \in Nat, NEW cap \in Nat,
         capacity[o] <= cap, start + n <= cap, n = 0 => cap = capacity[o],
         capacity' = [capacity EXCEPT ![o] = cap], gen' = gen,
         gc_write_barrier_range(o, start, n, cap)
  PROVE  /\ remembered' \in [Objects -> BOOLEAN] /\ remembered_set' \in SUBSET Objects
         /\ dirty_cards' \in [Objects -> SUBSET Nat]
         /\ card_capacity' \in [Objects -> Nat]
         /\ RememberedExact' /\ CardsInv'
         /\ \A p \in Objects : remembered[p] => remembered'[p]
         /\ \A p \in Objects : dirty_cards[p] \subseteq dirty_cards'[p]
         /\ gen[o] = "old" => remembered'[o]
         /\ \A i \in Nat : gen[o] = "old" /\ start <= i /\ i < start + n =>
              Card(i) \in dirty_cards'[o]
<1>o. o \in Objects
  BY Zenon DEF Objects
<1>1. gc_write_barrier(o)
  BY Zenon DEF gc_write_barrier_range
<1>2. /\ remembered' \in [Objects -> BOOLEAN] /\ remembered_set' \in SUBSET Objects
      /\ RememberedExact'
      /\ \A p \in Objects : remembered[p] => remembered'[p]
      /\ gen[o] = "old" => remembered'[o]
  BY <1>o, <1>1, Barrier, Zenon
<1>3. capacity[o] \in Nat /\ CardCount(capacity[o]) \in Nat /\ CardCount(cap) \in Nat
      /\ CardCount(capacity[o]) <= CardCount(cap)
  BY <1>o, CardCountMonotone, Zenon DEF TypeOK
<1>4. CASE gen[o] = "old" /\ n > 0
  <2>1. /\ dirty_cards' = [dirty_cards EXCEPT ![o] = @ \cup (Card(start)..Card(start + n - 1))]
        /\ card_capacity' =
             [card_capacity EXCEPT ![o] =
                IF @ = 0 /\ CardCount(cap) = 0 THEN 1
                ELSE IF CardCount(cap) > @ THEN CardCount(cap) ELSE @]
    BY <1>4, Zenon DEF gc_write_barrier_range, mark_cards_dirty
  <2>2. start + n - 1 \in Nat /\ start <= start + n - 1 /\ start + n - 1 < cap
    BY <1>4
  <2>3. Card(start) \in Nat /\ Card(start + n - 1) \in Nat
        /\ Card(start + n - 1) < CardCount(cap)
    BY <2>2, CardBound, CardMonotone, Zenon
  <2>4. \A i \in Nat : start <= i /\ i < start + n =>
          Card(i) \in Card(start)..Card(start + n - 1)
    <3> SUFFICES ASSUME NEW i \in Nat, start <= i, i < start + n
                 PROVE  Card(i) \in Card(start)..Card(start + n - 1)
      OBVIOUS
    <3>1. i <= start + n - 1
      OBVIOUS
    <3>2. Card(i) \in Nat /\ Card(start) <= Card(i) /\ Card(i) <= Card(start + n - 1)
      BY <3>1, <2>2, CardMonotone, Zenon
    <3> QED BY <3>2, <2>3
  <2>5. dirty_cards' \in [Objects -> SUBSET Nat] /\ card_capacity' \in [Objects -> Nat]
    BY <2>1, <2>3, <1>3, <1>o DEF TypeOK
  <2>6. card_capacity'[o] >= CardCount(cap) /\ card_capacity'[o] >= card_capacity[o]
        /\ card_capacity[o] \in Nat
    BY <2>1, <1>3, <1>o DEF TypeOK
  <2>7. \A k \in dirty_cards'[o] : k < card_capacity'[o] /\ k < CardCount(cap)
    <3> SUFFICES ASSUME NEW k \in dirty_cards'[o]
                 PROVE  k < card_capacity'[o] /\ k < CardCount(cap)
      OBVIOUS
    <3>1. k \in Nat /\ card_capacity'[o] \in Nat
      BY <2>5, <1>o, Zenon
    <3>2. k < CardCount(cap)
      <4>1. CASE k \in dirty_cards[o]
        BY <4>1, <3>1, <1>3, <1>o DEF CardsInv
      <4>2. CASE k \in Card(start)..Card(start + n - 1)
        BY <4>2, <2>3, <1>3, <3>1
      <4> QED BY <4>1, <4>2, <2>1, <1>o, Zenon DEF TypeOK
    <3> QED BY <3>1, <3>2, <2>6, <1>3
  <2>8. CardsInv'
    <3> SUFFICES ASSUME NEW p \in Objects
                 PROVE  /\ \A k \in dirty_cards'[p] :
                             k < card_capacity'[p] /\ k < CardCount(capacity'[p])
                        /\ card_capacity'[p] > 0 => CardCount(capacity'[p]) <= card_capacity'[p]
                        /\ card_capacity'[p] > 0 => gen'[p] = "old" /\ p \in Containers
      BY Zenon DEF CardsInv, CardCount
    <3>1. CASE p = o
      BY <3>1, <2>6, <2>7, <1>4, <1>o, Zenon DEF TypeOK
    <3>2. CASE p # o
      BY <3>2, <2>1, <1>o, Zenon DEF TypeOK, CardsInv
    <3> QED BY <3>1, <3>2, Zenon
  <2>9. \A p \in Objects : dirty_cards[p] \subseteq dirty_cards'[p]
    BY <2>1, Zenon DEF TypeOK
  <2>10. \A i \in Nat : start <= i /\ i < start + n => Card(i) \in dirty_cards'[o]
    BY <2>1, <2>4, <1>o, Zenon DEF TypeOK
  <2> QED BY <1>2, <2>5, <2>8, <2>9, <2>10, Zenon
<1>5. CASE ~(gen[o] = "old" /\ n > 0)
  <2>1. dirty_cards' = dirty_cards /\ card_capacity' = card_capacity
    BY <1>5, Zenon DEF gc_write_barrier_range, cardvars
  <2>2. CardsInv'
    <3> SUFFICES ASSUME NEW p \in Objects
                 PROVE  /\ \A k \in dirty_cards'[p] :
                             k < card_capacity'[p] /\ k < CardCount(capacity'[p])
                        /\ card_capacity'[p] > 0 => CardCount(capacity'[p]) <= card_capacity'[p]
                        /\ card_capacity'[p] > 0 => gen'[p] = "old" /\ p \in Containers
      BY Zenon DEF CardsInv, CardCount
    <3>1. CASE p # o
      BY <3>1, <2>1, <1>o, Zenon DEF TypeOK, CardsInv
    <3>2. CASE p = o /\ gen[o] # "old"
      BY <3>2, <2>1, <1>o, <1>3 DEF TypeOK, CardsInv
    <3>3. CASE p = o /\ gen[o] = "old"
      BY <3>3, <2>1, <1>o, <1>3, <1>5 DEF TypeOK, CardsInv
    <3> QED BY <3>1, <3>2, <3>3, Zenon
  <2>3. \A i \in Nat : ~(gen[o] = "old" /\ start <= i /\ i < start + n)
    BY <1>5
  <2>4. /\ dirty_cards' \in [Objects -> SUBSET Nat] /\ card_capacity' \in [Objects -> Nat]
        /\ \A p \in Objects : dirty_cards[p] \subseteq dirty_cards'[p]
    BY <2>1, Zenon DEF TypeOK
  <2> QED BY <1>2, <2>2, <2>3, <2>4, Zenon
<1> QED BY <1>4, <1>5, Zenon

\* A step that only adds references to allocated objects to the active frames,
\* and rewrites the slots of some objects with references to allocated objects, each
\* recorded if its owner is old and the reference young, keeps the parts of
\* the invariant about references.
LEMMA WriteStep ==
  ASSUME IInv, NEW W \in SUBSET (Objects \ Fibers), \A o \in W : gen[o] # "free",
         gen' = gen, UNCHANGED fibervars,
         \A p \in Objects : remembered[p] => remembered'[p],
         \A p \in Objects : dirty_cards[p] \subseteq dirty_cards'[p],
         \A p \in Objects \ W : slot'[p] = slot[p],
         \A o \in W, i \in Slots : slot'[o][i] # Nil => gen[slot'[o][i]] # "free",
         \A o \in W, i \in Slots :
           gen[o] = "old" /\ slot'[o][i] # Nil /\ gen[slot'[o][i]] = "young" =>
             SlotRecorded(o, i)',
         \A c \in Contexts : frames[c] \subseteq frames'[c],
         \A c \in Contexts \ Active : frames'[c] = frames[c],
         \A c \in Contexts : \A y \in frames'[c] : gen[y] # "free"
  PROVE  RefsInv' /\ FreeInv' /\ RecordInv' /\ ChainInv'
<1>0. state' = state /\ running_fiber' = running_fiber /\ resumer' = resumer
  BY Zenon DEF fibervars
<1>1. RefsInv'
  <2>1. ASSUME NEW p \in Objects, NEW i \in Slots, slot'[p][i] # Nil
        PROVE  gen'[slot'[p][i]] # "free"
    <3>1. CASE p \in W
      BY <3>1, <2>1, Zenon
    <3>2. CASE p \notin W
      BY <3>2, <2>1 DEF IInv, RefsInv
    <3> QED BY <3>1, <3>2, Zenon
  <2>2. \A c \in Contexts : \A y \in frames'[c] : gen'[y] # "free"
    OBVIOUS
  <2> QED BY <2>1, <2>2, Zenon DEF RefsInv
<1>2. FreeInv'
  <2> SUFFICES ASSUME NEW p \in Objects, gen'[p] = "free"
               PROVE  /\ \A i \in Slots : slot'[p][i] = Nil
                      /\ p \in Fibers => frames'[p] = {} /\ state'[p] # "running"
    BY Zenon DEF FreeInv
  <2>1. p \notin W /\ slot'[p] = slot[p] /\ \A i \in Slots : slot[p][i] = Nil
    BY Zenon DEF IInv, FreeInv
  <2>2. ASSUME p \in Fibers
        PROVE  frames'[p] = {} /\ state'[p] # "running"
    <3>1. frames[p] = {} /\ state[p] # "running"
      BY <2>2, Zenon DEF IInv, FreeInv
    <3>2. p \in Contexts \ Active
      BY <2>2, <3>1, NamesDistinct, Zenon DEF Active, Contexts
    <3> QED BY <3>1, <3>2, <1>0, Zenon
  <2> QED BY <2>1, <2>2, Zenon
<1>3. RecordInv'
  <2>1. ASSUME NEW p \in Objects, NEW i \in Slots,
               gen'[p] = "old", slot'[p][i] # Nil, gen'[slot'[p][i]] = "young"
        PROVE  SlotRecorded(p, i)' \/ (p \in Fibers /\ state'[p] = "running" /\ i = 2)
    <3>1. CASE p \in W
      BY <3>1, <2>1, Zenon
    <3>2. CASE p \notin W
      <4>1. SlotRecorded(p, i) \/ (p \in Fibers /\ state[p] = "running" /\ i = 2)
        BY <3>2, <2>1 DEF IInv, RecordInv
      <4> QED BY <4>1, <1>0, Zenon DEF SlotRecorded, Card
    <3> QED BY <3>1, <3>2, Zenon
  <2>2. ASSUME NEW f \in Fibers, gen'[f] = "old", state'[f] # "running",
               NEW y \in frames'[f], gen'[y] = "young"
        PROVE  remembered'[f]
    <3>1. f \in Contexts \ Active /\ f \in Objects
      BY <2>2, <1>0, NamesDistinct, Zenon DEF Active, Contexts, Objects
    <3>2. y \in frames[f]
      BY <3>1, <2>2, Zenon
    <3> QED BY <3>1, <3>2, <2>2, <1>0, Zenon DEF IInv, RecordInv
  <2> QED BY <2>1, <2>2, Zenon DEF RecordInv
<1>4. ChainInv'
  <2>1. Active' = Active
    BY <1>0, Zenon DEF Active
  <2>2. ASSUME NEW f \in Fibers, state[f] = "running"
        PROVE  /\ resumer[f] \in Active /\ resumer[f] \in Contexts
               /\ f \in frames'[resumer[f]]
               /\ slot'[f][2] # Nil => slot'[f][2] \in frames'[resumer[f]]
               /\ resumer[f] # running_fiber
    <3>1. slot'[f] = slot[f]
      <4>1. f \in Objects \ W
        BY Zenon DEF Objects
      <4> QED BY <4>1, Zenon
    <3>2. /\ resumer[f] \in Active
          /\ f \in frames[resumer[f]]
          /\ slot[f][2] # Nil => slot[f][2] \in frames[resumer[f]]
          /\ resumer[f] # running_fiber
      BY <2>2, Zenon DEF IInv, ChainInv
    <3>3. resumer[f] \in Contexts
      BY <3>2, Zenon DEF Active, Contexts
    <3> QED BY <3>1, <3>2, <3>3, Zenon
  <2> QED BY <2>1, <2>2, <1>0, Zenon DEF IInv, ChainInv
<1> QED BY <1>1, <1>2, <1>3, <1>4, Zenon

\* What marking yields is in the space, holds the roots, and is closed.
LEMMA Marking ==
  ASSUME NEW roots, NEW space, NEW o \in mark_object(roots, space)
  PROVE  o \in space /\ mark_object_children(o) \cap space \subseteq mark_object(roots, space)
BY Zenon DEF mark_object

\* Marking reaches its roots.
LEMMA MarkingRoots ==
  ASSUME NEW roots, NEW space
  PROVE  roots \cap space \subseteq mark_object(roots, space)
BY Zenon DEF mark_object

\* What a register holds is allocated.
LEMMA RegisterFacts ==
  ASSUME IInv
  PROVE  /\ running_fiber \in Contexts /\ running_fiber \in Active
         /\ \A y \in Registers : y \in Objects /\ gen[y] # "free"
         /\ \A v \in Operands : v \in Values /\ (v # Nil => v \in Registers)
         /\ Nil \notin Objects
<1>1. running_fiber \in Contexts /\ running_fiber \in Active
  BY Zenon DEF IInv, TypeOK, ChainInv
<1>2. \A y \in Registers : y \in Objects /\ gen[y] # "free"
  BY <1>1, Zenon DEF IInv, TypeOK, RefsInv, Registers
<1>3. \A v \in Operands : v \in Values /\ (v # Nil => v \in Registers)
  BY <1>2, Zenon DEF Operands, Values
<1>4. Nil \notin Objects
  BY NamesDistinct, Zenon DEF Objects, Containers
<1> QED BY <1>1, <1>2, <1>3, <1>4, Zenon

\* The new frames of a step, as WriteStep wants them.
FramesGrow ==
  /\ frames' \in [Contexts -> SUBSET Objects]
  /\ \A c \in Contexts : frames[c] \subseteq frames'[c]
  /\ \A c \in Contexts \ Active : frames'[c] = frames[c]
  /\ \A c \in Contexts : \A y \in frames'[c] : gen[y] # "free"

\* Frames left alone satisfy what the steps below ask of them.
LEMMA FramesSame ==
  ASSUME IInv, frames' = frames
  PROVE  FramesGrow
BY Zenon DEF IInv, TypeOK, RefsInv, FramesGrow

\* So do frames into which an allocated value was loaded.
LEMMA FramesLoaded ==
  ASSUME IInv, NEW v \in Values, v # Nil => gen[v] # "free", frames' = Loaded(v)
  PROVE  FramesGrow
<1> USE RegisterFacts
<1>1. {v} \ {Nil} \subseteq Objects /\ \A y \in {v} \ {Nil} : gen[y] # "free"
  BY Zenon DEF Values
<1>2. \A c \in Contexts :
        frames'[c] = IF c = running_fiber THEN frames[c] \cup ({v} \ {Nil}) ELSE frames[c]
  BY Zenon DEF Loaded, IInv, TypeOK
<1>3. frames' \in [Contexts -> SUBSET Objects]
  BY <1>1, Zenon DEF Loaded, IInv, TypeOK
<1>4. \A c \in Contexts : \A y \in frames'[c] : gen[y] # "free"
  BY <1>1, <1>2, Zenon DEF IInv, RefsInv
<1> QED BY <1>2, <1>3, <1>4, Zenon DEF FramesGrow

\* A write to a container, behind a barrier over all the slots that change
\* other than to Nil, keeps the whole invariant.
LEMMA ContainerStep ==
  ASSUME IInv, NEW o \in Registers \cap Containers,
         NEW start \in Nat, NEW n \in Nat, NEW cap \in Nat,
         capacity[o] <= cap, start + n <= cap, n = 0 => cap = capacity[o],
         capacity' = [capacity EXCEPT ![o] = cap], gen' = gen,
         gc_write_barrier_range(o, start, n, cap),
         UNCHANGED fibervars, FramesGrow,
         slot' \in [Objects -> [Slots -> Values]],
         \A p \in Objects \ {o} : slot'[p] = slot[p],
         \A j \in Slots : slot'[o][j] # Nil => gen[slot'[o][j]] # "free",
         \A j \in Slots :
           ~(start <= j /\ j < start + n) => slot'[o][j] \in {slot[o][j], Nil},
         count' \in [Objects -> 0..MaxCount],
         \A p \in Objects \ {o} : count'[p] = count[p],
         count'[o] <= cap, \A j \in Slots : j >= count'[o] => slot'[o][j] = Nil
  PROVE  IInv'
<1>o. o \in Objects \ Fibers /\ o \in Containers /\ gen[o] # "free"
  BY RegisterFacts, KindsDisjoint, Zenon DEF Containers
<1>t. TypeOK /\ RememberedExact /\ CardsInv /\ SlotsInv
  BY Zenon DEF IInv
<1>1. /\ remembered' \in [Objects -> BOOLEAN] /\ remembered_set' \in SUBSET Objects
      /\ dirty_cards' \in [Objects -> SUBSET Nat]
      /\ card_capacity' \in [Objects -> Nat]
      /\ RememberedExact' /\ CardsInv'
      /\ \A p \in Objects : remembered[p] => remembered'[p]
      /\ \A p \in Objects : dirty_cards[p] \subseteq dirty_cards'[p]
      /\ gen[o] = "old" => remembered'[o]
      /\ \A i \in Nat : gen[o] = "old" /\ start <= i /\ i < start + n =>
           Card(i) \in dirty_cards'[o]
  BY <1>o, <1>t, RangeBarrier, Zenon
<1>2. \A j \in Slots :
        gen[o] = "old" /\ slot'[o][j] # Nil /\ gen[slot'[o][j]] = "young" =>
          SlotRecorded(o, j)'
  <2> SUFFICES ASSUME NEW j \in Slots, gen[o] = "old", slot'[o][j] # Nil,
                      gen[slot'[o][j]] = "young"
               PROVE  remembered'[o] /\ Card(j) \in dirty_cards'[o]
    BY <1>o, Zenon DEF SlotRecorded, Card
  <2>1. CASE start <= j /\ j < start + n
    <3>1. j \in Nat
      BY SizesAssumption, SMTT(30) DEF Slots
    <3> QED BY <3>1, <2>1, <1>1, Zenon
  <2>2. CASE ~(start <= j /\ j < start + n)
    <3>1. slot'[o][j] = slot[o][j]
      BY <2>2, Zenon
    <3>2. SlotRecorded(o, j)
      BY <3>1, <1>o DEF IInv, RecordInv
    <3> QED BY <3>2, <1>1, <1>o, Zenon DEF SlotRecorded
  <2> QED BY <2>1, <2>2, Zenon
<1>3. RefsInv' /\ FreeInv' /\ RecordInv' /\ ChainInv'
  <2>1. \A c \in Contexts : frames[c] \subseteq frames'[c]
    BY Zenon DEF FramesGrow
  <2>2. \A c \in Contexts \ Active : frames'[c] = frames[c]
    BY Zenon DEF FramesGrow
  <2>3. \A c \in Contexts : \A y \in frames'[c] : gen[y] # "free"
    BY Zenon DEF FramesGrow
  <2> DEFINE W == {o}
  <2>4. W \in SUBSET (Objects \ Fibers) /\ \A p \in W : gen[p] # "free"
    BY <1>o, Zenon
  <2>5. \A p \in W, i \in Slots : slot'[p][i] # Nil => gen[slot'[p][i]] # "free"
    BY Zenon
  <2>6. \A p \in W, i \in Slots :
          gen[p] = "old" /\ slot'[p][i] # Nil /\ gen[slot'[p][i]] = "young" =>
            SlotRecorded(p, i)'
    BY <1>2, Zenon
  <2>7. \A p \in Objects \ W : slot'[p] = slot[p]
    BY Zenon
  <2> HIDE DEF W
  <2> QED BY <1>1, <2>1, <2>2, <2>3, <2>4, <2>5, <2>6, <2>7, WriteStep, Zenon
<1>4. TypeOK'
  <2>1. capacity' \in [Objects -> Nat]
    BY <1>t, Zenon DEF TypeOK
  <2>2. state' = state /\ running_fiber' = running_fiber /\ resumer' = resumer
    BY Zenon DEF fibervars
  <2>3. frames' \in [Contexts -> SUBSET Objects]
    BY Zenon DEF FramesGrow
  <2> QED BY <1>1, <1>t, <2>1, <2>2, <2>3, Zenon DEF TypeOK
<1>5. SlotsInv'
  <2> SUFFICES ASSUME NEW p \in Objects, p \in Containers
               PROVE  /\ \A i \in Slots : i >= count'[p] => slot'[p][i] = Nil
                      /\ count'[p] <= capacity'[p]
    BY Zenon DEF SlotsInv
  <2>1. CASE p = o
    BY <2>1, <1>o, <1>t, Zenon DEF TypeOK
  <2>2. CASE p # o
    BY <2>2, <1>t, SMTT(30) DEF TypeOK, SlotsInv
  <2> QED BY <2>1, <2>2, Zenon
<1> QED BY <1>1, <1>3, <1>4, <1>5, Zenon DEF IInv

\* A step of the program that leaves the cards alone keeps the whole invariant:
\* it writes no container, or only empties slots of one.
LEMMA PlainStep ==
  ASSUME IInv, NEW W \in SUBSET (Objects \ Fibers), \A o \in W : gen[o] # "free",
         gen' = gen, capacity' = capacity, UNCHANGED fibervars, UNCHANGED cardvars,
         remembered' \in [Objects -> BOOLEAN], remembered_set' \in SUBSET Objects,
         RememberedExact',
         \A p \in Objects : remembered[p] => remembered'[p],
         slot' \in [Objects -> [Slots -> Values]],
         \A p \in Objects \ W : slot'[p] = slot[p],
         \A o \in W, i \in Slots : slot'[o][i] # Nil => gen[slot'[o][i]] # "free",
         \A o \in W, i \in Slots :
           slot'[o][i] \in {slot[o][i], Nil} \/
             (o \notin Containers /\ (gen[o] = "old" => remembered'[o])),
         count' \in [Objects -> 0..MaxCount],
         \A p \in Objects : count'[p] <= count[p],
         \A p \in Objects, i \in Slots : p \in Containers /\ i >= count'[p] => slot'[p][i] = Nil,
         FramesGrow
  PROVE  IInv'
<1>t. TypeOK /\ CardsInv /\ SlotsInv /\ RecordInv
  BY Zenon DEF IInv
<1>0. dirty_cards' = dirty_cards /\ card_capacity' = card_capacity
      /\ state' = state /\ running_fiber' = running_fiber /\ resumer' = resumer
  BY Zenon DEF fibervars, cardvars
<1>1. \A o \in W, i \in Slots :
        gen[o] = "old" /\ slot'[o][i] # Nil /\ gen[slot'[o][i]] = "young" =>
          SlotRecorded(o, i)'
  <2> SUFFICES ASSUME NEW o \in W, NEW i \in Slots, gen[o] = "old", slot'[o][i] # Nil,
                      gen[slot'[o][i]] = "young"
               PROVE  remembered'[o] /\ (o \in Containers => Card(i) \in dirty_cards'[o])
    BY Zenon DEF SlotRecorded, Card
  <2>1. CASE o \notin Containers /\ (gen[o] = "old" => remembered'[o])
    BY <2>1, Zenon
  <2>2. CASE slot'[o][i] \in {slot[o][i], Nil}
    <3>1. slot'[o][i] = slot[o][i]
      BY <2>2, Zenon
    <3>2. SlotRecorded(o, i)
      BY <3>1, <1>t, Zenon DEF RecordInv
    <3> QED BY <3>2, <1>0, Zenon DEF SlotRecorded
  <2> QED BY <2>1, <2>2, Zenon
<1>2. RefsInv' /\ FreeInv' /\ RecordInv' /\ ChainInv'
  <2>1. \A c \in Contexts : frames[c] \subseteq frames'[c]
    BY Zenon DEF FramesGrow
  <2>2. \A c \in Contexts \ Active : frames'[c] = frames[c]
    BY Zenon DEF FramesGrow
  <2>3. \A c \in Contexts : \A y \in frames'[c] : gen[y] # "free"
    BY Zenon DEF FramesGrow
  <2>4. \A p \in Objects : dirty_cards[p] \subseteq dirty_cards'[p]
    BY <1>0, Zenon
  <2> QED BY <1>1, <2>1, <2>2, <2>3, <2>4, WriteStep, Zenon
<1>3. TypeOK'
  <2>1. frames' \in [Contexts -> SUBSET Objects]
    BY Zenon DEF FramesGrow
  <2> QED BY <1>t, <1>0, <2>1, Zenon DEF TypeOK
<1>4. SlotsInv'
  BY <1>t, SMTT(30) DEF TypeOK, SlotsInv
<1>5. CardsInv'
  BY <1>t, <1>0, Zenon DEF CardsInv, CardCount
<1> QED BY <1>2, <1>3, <1>4, <1>5, Zenon DEF IInv

\* A step that changes only the frames.
LEMMA FramesStep ==
  ASSUME IInv, FramesGrow, UNCHANGED <<gen, slot, count, capacity, barriervars, fibervars>>
  PROVE  IInv'
<1>0. /\ gen' = gen /\ slot' = slot /\ count' = count /\ capacity' = capacity
      /\ UNCHANGED cardvars /\ UNCHANGED fibervars
      /\ remembered' = remembered /\ remembered_set' = remembered_set
  BY Zenon DEF barriervars, cardvars
<1>1. TypeOK /\ RememberedExact /\ SlotsInv
  BY Zenon DEF IInv
<1>2. RememberedExact'
  BY <1>0, <1>1, Zenon DEF RememberedExact, Of
<1>3. slot' \in [Objects -> [Slots -> Values]] /\ count' \in [Objects -> 0..MaxCount]
      /\ remembered' \in [Objects -> BOOLEAN] /\ remembered_set' \in SUBSET Objects
  BY <1>0, <1>1, Zenon DEF TypeOK
<1>4. /\ \A p \in Objects : count'[p] <= count[p]
      /\ \A p \in Objects, i \in Slots : p \in Containers /\ i >= count'[p] => slot'[p][i] = Nil
      /\ \A p \in Objects : remembered[p] => remembered'[p]
      /\ \A p \in Objects : slot'[p] = slot[p]
  BY <1>0, <1>1 DEF TypeOK, SlotsInv
<1> DEFINE W == {}
<1>5. /\ W \in SUBSET (Objects \ Fibers) /\ \A o \in W : gen[o] # "free"
      /\ \A p \in Objects \ W : slot'[p] = slot[p]
      /\ \A o \in W, i \in Slots : slot'[o][i] # Nil => gen[slot'[o][i]] # "free"
      /\ \A o \in W, i \in Slots :
           slot'[o][i] \in {slot[o][i], Nil} \/
             (o \notin Containers /\ (gen[o] = "old" => remembered'[o]))
  BY <1>4, Zenon
<1> HIDE DEF W
<1> QED BY <1>0, <1>2, <1>3, <1>4, <1>5, PlainStep, Zenon



\* A field, an element or a capture is read into a register.
LEMMA ReadStep ==
  ASSUME IInv, NEW o \in Readable, NEW i \in Slots, Read(o, i)
  PROVE  IInv'
<1>1. o \in Objects
  BY RegisterFacts, SizesAssumption DEF Readable, IInv, TypeOK, Objects, Values, Slots
<1>2. slot[o][i] \in Values /\ (slot[o][i] # Nil => gen[slot[o][i]] # "free")
  BY <1>1, Zenon DEF IInv, TypeOK, RefsInv
<1>3. FramesGrow
  BY <1>2, FramesLoaded, Zenon DEF Read
<1> QED BY <1>3, FramesStep, Zenon DEF Read

\* A register is stored in a constant or a class variable.
LEMMA PublishStep ==
  ASSUME IInv, NEW o \in Registers, Publish(o)
  PROVE  IInv'
<1>1. o \in Objects /\ gen[o] # "free"
  BY RegisterFacts, Zenon
<1>2. Main \in Contexts /\ Main \in Active
  BY Zenon DEF Contexts, Active
<1>3. \A c \in Contexts : frames'[c] = IF c = Main THEN frames[c] \cup {o} ELSE frames[c]
  BY Zenon DEF Publish, IInv, TypeOK
<1>4. frames' \in [Contexts -> SUBSET Objects]
  BY <1>1, Zenon DEF Publish, IInv, TypeOK
<1>5. \A c \in Contexts : \A y \in frames'[c] : gen[y] # "free"
  BY <1>1, <1>3, Zenon DEF IInv, RefsInv
<1>6. FramesGrow
  BY <1>2, <1>3, <1>4, <1>5, Zenon DEF FramesGrow
<1> QED BY <1>6, FramesStep, Zenon DEF Publish

\* One slot of one object is written.
LEMMA SlotWritten ==
  ASSUME TypeOK, NEW o \in Objects, NEW i \in Slots, NEW v \in Values,
         slot' = [slot EXCEPT ![o][i] = v]
  PROVE  /\ slot' \in [Objects -> [Slots -> Values]]
         /\ \A p \in Objects \ {o} : slot'[p] = slot[p]
         /\ \A j \in Slots : slot'[o][j] = IF j = i THEN v ELSE slot[o][j]
BY Zenon DEF TypeOK

\* An object with fixed references is written through gc_write_barrier.
LEMMA SetFieldStep ==
  ASSUME IInv, NEW o \in Registers \cap Instances, NEW i \in Slots, NEW v \in Operands,
         SetField(o, i, v)
  PROVE  IInv'
<1> DEFINE W == {o}
<1>t. TypeOK /\ RememberedExact /\ SlotsInv /\ RefsInv
  BY Zenon DEF IInv
<1>0. /\ gen' = gen /\ count' = count /\ capacity' = capacity /\ frames' = frames
      /\ UNCHANGED cardvars /\ UNCHANGED fibervars
      /\ slot' = [slot EXCEPT ![o][i] = v] /\ i < count[o] /\ gc_write_barrier(o)
  BY Zenon DEF SetField
<1>1. o \in Objects /\ o \notin Fibers /\ o \notin Containers /\ gen[o] # "free"
  BY RegisterFacts, KindsDisjoint, Zenon DEF Containers
<1>2. v \in Values /\ (v # Nil => gen[v] # "free")
  BY RegisterFacts, Zenon
<1>3. /\ slot' \in [Objects -> [Slots -> Values]]
      /\ \A p \in Objects \ {o} : slot'[p] = slot[p]
      /\ \A j \in Slots : slot'[o][j] = IF j = i THEN v ELSE slot[o][j]
  BY <1>0, <1>1, <1>2, <1>t, SlotWritten, Zenon
<1>4. /\ remembered' \in [Objects -> BOOLEAN] /\ remembered_set' \in SUBSET Objects
      /\ RememberedExact'
      /\ \A p \in Objects : remembered[p] => remembered'[p]
      /\ gen[o] = "old" => remembered'[o]
  BY <1>0, <1>1, <1>t, Barrier, Zenon
<1>5. FramesGrow
  BY <1>0, FramesSame, Zenon
<1>6. \A p \in W, j \in Slots : slot'[p][j] # Nil => gen[slot'[p][j]] # "free"
  BY <1>1, <1>2, <1>3, <1>t DEF RefsInv
<1>7. \A p \in W, j \in Slots :
        slot'[p][j] \in {slot[p][j], Nil} \/
          (p \notin Containers /\ (gen[p] = "old" => remembered'[p]))
  BY <1>1, <1>4, Zenon
<1>8. count' \in [Objects -> 0..MaxCount] /\ \A p \in Objects : count'[p] <= count[p]
  BY <1>0, <1>t DEF TypeOK
<1>9. \A p \in Objects, j \in Slots : p \in Containers /\ j >= count'[p] => slot'[p][j] = Nil
  <2> SUFFICES ASSUME NEW p \in Objects, NEW j \in Slots, p \in Containers, j >= count[p]
               PROVE  slot'[p][j] = Nil
    BY <1>0, Zenon
  <2>1. slot[p][j] = Nil
    BY <1>t, Zenon DEF SlotsInv
  <2>2. CASE p # o
    BY <2>1, <2>2, <1>3, Zenon
  <2>3. CASE p = o
    <3>1. j # i
      BY <2>3, <1>0, <1>1, <1>t, SizesAssumption, Zenon DEF TypeOK, Slots
    <3> QED BY <3>1, <2>1, <2>3, <1>3, Zenon
  <2> QED BY <2>2, <2>3, Zenon
<1>10. W \in SUBSET (Objects \ Fibers) /\ \A p \in W : gen[p] # "free"
  BY <1>1, Zenon
<1>11. \A p \in Objects \ W : slot'[p] = slot[p]
  BY <1>3, Zenon
<1> HIDE DEF W
<1> QED BY <1>0, <1>3, <1>4, <1>5, <1>6, <1>7, <1>8, <1>9, <1>10, <1>11, PlainStep, Zenon

\* A container whose slots are only emptied.
LEMMA EmptyingStep ==
  ASSUME IInv, NEW o \in Registers \cap Containers, FramesGrow,
         UNCHANGED <<gen, capacity, barriervars, fibervars>>,
         slot' \in [Objects -> [Slots -> Values]],
         \A p \in Objects \ {o} : slot'[p] = slot[p],
         \A j \in Slots : slot'[o][j] \in {slot[o][j], Nil},
         count' \in [Objects -> 0..MaxCount],
         \A p \in Objects \ {o} : count'[p] = count[p],
         count'[o] <= count[o],
         \A j \in Slots : j >= count'[o] => slot'[o][j] = Nil
  PROVE  IInv'
<1> DEFINE W == {o}
<1>t. TypeOK /\ RememberedExact /\ SlotsInv /\ RefsInv
  BY Zenon DEF IInv
<1>0. /\ gen' = gen /\ capacity' = capacity /\ UNCHANGED cardvars /\ UNCHANGED fibervars
      /\ remembered' = remembered /\ remembered_set' = remembered_set
  BY Zenon DEF barriervars, cardvars
<1>1. o \in Objects /\ o \notin Fibers /\ gen[o] # "free"
  BY RegisterFacts, KindsDisjoint, Zenon DEF Containers
<1>2. /\ remembered' \in [Objects -> BOOLEAN] /\ remembered_set' \in SUBSET Objects
      /\ \A p \in Objects : remembered[p] => remembered'[p]
  BY <1>0, <1>t, Zenon DEF TypeOK
<1>3. RememberedExact'
  BY <1>0, <1>t, Zenon DEF RememberedExact, Of
<1>4. \A p \in W, j \in Slots : slot'[p][j] # Nil => gen[slot'[p][j]] # "free"
  BY <1>1, <1>t DEF RefsInv
<1>5. \A p \in W, j \in Slots :
        slot'[p][j] \in {slot[p][j], Nil} \/
          (p \notin Containers /\ (gen[p] = "old" => remembered'[p]))
  OBVIOUS
<1>6. \A p \in Objects : count'[p] <= count[p]
  BY <1>t, SMTT(30) DEF TypeOK
<1>7. \A p \in Objects, j \in Slots : p \in Containers /\ j >= count'[p] => slot'[p][j] = Nil
  BY <1>1, <1>t DEF SlotsInv
<1>8. W \in SUBSET (Objects \ Fibers) /\ \A p \in W : gen[p] # "free"
  BY <1>1, Zenon
<1>9. \A p \in Objects \ W : slot'[p] = slot[p]
  OBVIOUS
<1> HIDE DEF W
<1> QED BY <1>0, <1>2, <1>3, <1>4, <1>5, <1>6, <1>7, <1>8, <1>9, PlainStep, Zenon

\* array_pop empties the last slot and needs no barrier.
LEMMA ArrayPopStep ==
  ASSUME IInv, NEW o \in Registers \cap Arrays, ArrayPop(o)
  PROVE  IInv'
<1> DEFINE last == count[o] - 1
<1>t. TypeOK /\ SlotsInv /\ RefsInv
  BY Zenon DEF IInv
<1>1. o \in Objects /\ o \in Containers
  BY RegisterFacts, Zenon DEF Containers
<1>2. last \in Slots /\ count[o] \in 0..MaxCount /\ count[o] > 0
  BY <1>1, <1>t, SizesAssumption DEF ArrayPop, TypeOK, Slots
<1>3. slot[o][last] \in Values /\ (slot[o][last] # Nil => gen[slot[o][last]] # "free")
  BY <1>1, <1>2, <1>t, Zenon DEF TypeOK, RefsInv
<1>4. FramesGrow
  BY <1>3, FramesLoaded, Zenon DEF ArrayPop
<1>5. /\ slot' \in [Objects -> [Slots -> Values]]
      /\ \A p \in Objects \ {o} : slot'[p] = slot[p]
      /\ \A j \in Slots : slot'[o][j] = IF j = last THEN Nil ELSE slot[o][j]
  BY <1>1, <1>2, <1>t, SlotWritten, Zenon DEF ArrayPop, Values
<1>6. /\ count' \in [Objects -> 0..MaxCount]
      /\ \A p \in Objects \ {o} : count'[p] = count[p]
      /\ count'[o] = last /\ count'[o] <= count[o]
  BY <1>1, <1>2, <1>t, SizesAssumption DEF ArrayPop, TypeOK
<1>7. \A j \in Slots : j >= count'[o] => slot'[o][j] = Nil
  <2> SUFFICES ASSUME NEW j \in Slots, j >= last PROVE slot'[o][j] = Nil
    BY <1>6, Zenon
  <2>1. j = last \/ j >= count[o]
    BY <1>2, SizesAssumption DEF Slots
  <2> QED BY <2>1, <1>1, <1>5, <1>t, Zenon DEF SlotsInv
<1> QED BY <1>1, <1>4, <1>5, <1>6, <1>7, EmptyingStep DEF ArrayPop

\* Nor does emptying a Hash.
LEMMA HashClearStep ==
  ASSUME IInv, NEW o \in Registers \cap Hashes, HashClear(o)
  PROVE  IInv'
<1>t. TypeOK
  BY Zenon DEF IInv
<1>1. o \in Objects /\ o \in Containers
  BY RegisterFacts, Zenon DEF Containers
<1>2. FramesGrow
  BY FramesSame, Zenon DEF HashClear
<1>3. /\ slot' \in [Objects -> [Slots -> Values]]
      /\ \A p \in Objects \ {o} : slot'[p] = slot[p]
      /\ \A j \in Slots : slot'[o][j] = Nil
  BY <1>1, <1>t, Zenon DEF HashClear, TypeOK, NoRefs, Values
<1>4. /\ count' \in [Objects -> 0..MaxCount]
      /\ \A p \in Objects \ {o} : count'[p] = count[p]
      /\ count'[o] <= count[o]
  BY <1>1, <1>t, SizesAssumption DEF HashClear, TypeOK
<1> QED BY <1>1, <1>2, <1>3, <1>4, EmptyingStep, Zenon DEF HashClear

\* An element in range is written through gc_write_barrier_index.
LEMMA SetIndexStep ==
  ASSUME IInv, NEW o \in Registers \cap Containers, NEW i \in Slots, NEW v \in Operands,
         SetIndex(o, i, v)
  PROVE  IInv'
<1>t. TypeOK /\ SlotsInv /\ RefsInv
  BY Zenon DEF IInv
<1>1. o \in Objects /\ o \in Containers
  BY RegisterFacts, Zenon
<1>2. v \in Values /\ (v # Nil => gen[v] # "free")
  BY RegisterFacts, Zenon
<1>3. /\ i \in Nat /\ capacity[o] \in Nat /\ count[o] \in Nat
      /\ i < count[o] /\ count[o] <= capacity[o]
  BY <1>1, <1>t, SizesAssumption DEF SetIndex, TypeOK, SlotsInv, Slots
<1>4. /\ slot' \in [Objects -> [Slots -> Values]]
      /\ \A p \in Objects \ {o} : slot'[p] = slot[p]
      /\ \A j \in Slots : slot'[o][j] = IF j = i THEN v ELSE slot[o][j]
  BY <1>1, <1>2, <1>t, SlotWritten, Zenon DEF SetIndex
<1>5. \A j \in Slots : slot'[o][j] # Nil => gen[slot'[o][j]] # "free"
  BY <1>1, <1>2, <1>4, <1>t DEF RefsInv
<1>6. \A j \in Slots : ~(i <= j /\ j < i + 1) => slot'[o][j] \in {slot[o][j], Nil}
  <2> SUFFICES ASSUME NEW j \in Slots, ~(i <= j /\ j < i + 1) PROVE j # i
    BY <1>4, Zenon
  <2> QED BY <1>3
<1>7. count' = count /\ gen' = gen /\ UNCHANGED fibervars /\ capacity' = capacity
      /\ frames' = frames /\ gc_write_barrier_range(o, i, 1, capacity[o])
  BY Zenon DEF SetIndex, gc_write_barrier_index
<1>8. /\ capacity' = [capacity EXCEPT ![o] = capacity[o]]
      /\ count' \in [Objects -> 0..MaxCount]
      /\ \A p \in Objects \ {o} : count'[p] = count[p]
      /\ count'[o] <= capacity[o]
  BY <1>1, <1>3, <1>7, <1>t, Zenon DEF TypeOK
<1>9. \A j \in Slots : j >= count'[o] => slot'[o][j] = Nil
  <2> SUFFICES ASSUME NEW j \in Slots, j >= count[o] PROVE slot'[o][j] = Nil
    BY <1>7, Zenon
  <2>1. j # i
    BY <1>3
  <2> QED BY <2>1, <1>1, <1>4, <1>t, Zenon DEF SlotsInv
<1>10. FramesGrow
  BY <1>7, FramesSame, Zenon
<1>11. capacity[o] <= capacity[o] /\ i + 1 <= capacity[o] /\ (1 = 0 => capacity[o] = capacity[o])
  BY <1>3, SMTT(30)
<1> QED BY <1>1, <1>3, <1>4, <1>5, <1>6, <1>7, <1>8, <1>9, <1>10, <1>11, ContainerStep, Zenon

\* array_push and hash_set may grow the container first: the barrier must see
\* the new capacity.
LEMMA PushStep ==
  ASSUME IInv, NEW o \in Registers \cap Containers, NEW v \in Operands, Push(o, v)
  PROVE  IInv'
<1> DEFINE i == count[o]
           cap == Grown(o)
<1>t. TypeOK /\ SlotsInv /\ RefsInv
  BY Zenon DEF IInv
<1>1. o \in Objects /\ o \in Containers
  BY RegisterFacts, Zenon
<1>2. v \in Values /\ (v # Nil => gen[v] # "free")
  BY RegisterFacts, Zenon
<1>3. i \in Nat /\ capacity[o] \in Nat /\ i <= capacity[o] /\ i < MaxCount /\ i \in Slots
  BY <1>1, <1>t, SizesAssumption DEF Push, TypeOK, SlotsInv, Slots
<1>4. cap \in Nat /\ capacity[o] <= cap /\ i + 1 <= cap
  BY <1>3, SizesAssumption DEF Grown
<1>5. /\ slot' \in [Objects -> [Slots -> Values]]
      /\ \A p \in Objects \ {o} : slot'[p] = slot[p]
      /\ \A j \in Slots : slot'[o][j] = IF j = i THEN v ELSE slot[o][j]
  BY <1>1, <1>2, <1>3, <1>t, SlotWritten, Zenon DEF Push
<1>6. \A j \in Slots : slot'[o][j] # Nil => gen[slot'[o][j]] # "free"
  BY <1>1, <1>2, <1>5, <1>t DEF RefsInv
<1>7. \A j \in Slots : ~(i <= j /\ j < i + 1) => slot'[o][j] \in {slot[o][j], Nil}
  <2> SUFFICES ASSUME NEW j \in Slots, ~(i <= j /\ j < i + 1) PROVE j # i
    BY <1>5, Zenon
  <2> QED BY <1>3
<1>8. gen' = gen /\ UNCHANGED fibervars /\ frames' = frames
      /\ capacity' = [capacity EXCEPT ![o] = cap]
      /\ gc_write_barrier_range(o, i, 1, cap)
  BY Zenon DEF Push, gc_write_barrier_index
<1>9. /\ count' \in [Objects -> 0..MaxCount]
      /\ \A p \in Objects \ {o} : count'[p] = count[p]
      /\ count'[o] = i + 1
  BY <1>1, <1>3, <1>t, SizesAssumption, SMTT(30) DEF Push, TypeOK
<1>10. \A j \in Slots : j >= count'[o] => slot'[o][j] = Nil
  <2> SUFFICES ASSUME NEW j \in Slots, j >= i + 1 PROVE slot'[o][j] = Nil
    BY <1>9, Zenon
  <2>1. j # i /\ j >= i
    BY <1>3, SizesAssumption DEF Slots
  <2> QED BY <2>1, <1>1, <1>5, <1>t, Zenon DEF SlotsInv
<1>11. FramesGrow
  BY <1>8, FramesSame, Zenon
<1>12. count'[o] <= cap /\ (1 = 0 => cap = capacity[o])
  BY <1>4, <1>9, SMTT(30)
<1> HIDE DEF i, cap
<1> QED BY <1>1, <1>3, <1>4, <1>5, <1>6, <1>7, <1>8, <1>9, <1>10, <1>11, <1>12, ContainerStep, Zenon

\* Array#[]= with a Range dirties every card it wrote, none past the count.
LEMMA SetRangeStep ==
  ASSUME IInv, NEW o \in Registers \cap Arrays, NEW p \in Registers \cap Arrays,
         NEW start \in 0..MaxCount, SetRange(o, start, p)
  PROVE  IInv'
<1> DEFINE n == count[p]
<1>t. TypeOK /\ SlotsInv /\ RefsInv
  BY Zenon DEF IInv
<1>1. o \in Objects /\ o \in Containers /\ o \in Registers \cap Containers /\ p \in Objects
  BY RegisterFacts, Zenon DEF Containers
<1>2. /\ start \in Nat /\ n \in Nat /\ n <= MaxCount /\ capacity[o] \in Nat /\ count[o] \in Nat
      /\ start + n <= count[o] /\ count[o] <= capacity[o]
  BY <1>1, <1>t, SizesAssumption DEF SetRange, TypeOK, SlotsInv
<1>3. \A j \in Slots : start <= j /\ j < start + n => j - start \in Slots
  BY <1>2, SizesAssumption DEF Slots
<1>4. /\ slot' \in [Objects -> [Slots -> Values]]
      /\ \A q \in Objects \ {o} : slot'[q] = slot[q]
      /\ \A j \in Slots :
           slot'[o][j] = IF start <= j /\ j < start + n THEN slot[p][j - start] ELSE slot[o][j]
  <2> DEFINE new == [j \in Slots |->
               IF start <= j /\ j < start + n THEN slot[p][j - start] ELSE slot[o][j]]
  <2>1. slot' = [slot EXCEPT ![o] = new]
    BY Zenon DEF SetRange
  <2>2. \A j \in Slots : (IF start <= j /\ j < start + n THEN slot[p][j - start]
                          ELSE slot[o][j]) \in Values
    BY <1>1, <1>3, <1>t, Zenon DEF TypeOK
  <2>3. new \in [Slots -> Values]
    BY <2>2, Zenon
  <2> HIDE DEF new
  <2>4. slot' \in [Objects -> [Slots -> Values]]
    BY <2>1, <2>3, <1>t, Zenon DEF TypeOK
  <2>5. slot'[o] = new /\ \A q \in Objects \ {o} : slot'[q] = slot[q]
    BY <2>1, <1>1, <1>t, Zenon DEF TypeOK
  <2> QED BY <2>4, <2>5, Zenon DEF new
<1>5. \A j \in Slots : slot'[o][j] # Nil => gen[slot'[o][j]] # "free"
  BY <1>1, <1>3, <1>4, <1>t DEF RefsInv
<1>6. \A j \in Slots : ~(start <= j /\ j < start + n) => slot'[o][j] \in {slot[o][j], Nil}
  BY <1>4, Zenon
<1>7. count' = count /\ gen' = gen /\ UNCHANGED fibervars /\ capacity' = capacity
      /\ frames' = frames /\ gc_write_barrier_range(o, start, n, capacity[o])
  BY Zenon DEF SetRange
<1>8. /\ capacity' = [capacity EXCEPT ![o] = capacity[o]]
      /\ count' \in [Objects -> 0..MaxCount]
      /\ \A q \in Objects \ {o} : count'[q] = count[q]
      /\ count'[o] <= capacity[o]
  BY <1>1, <1>2, <1>7, <1>t, Zenon DEF TypeOK
<1>9. \A j \in Slots : j >= count'[o] => slot'[o][j] = Nil
  <2> SUFFICES ASSUME NEW j \in Slots, j >= count[o] PROVE slot'[o][j] = Nil
    BY <1>7, Zenon
  <2>1. ~(j < start + n)
    BY <1>2, SizesAssumption DEF Slots
  <2> QED BY <2>1, <1>1, <1>4, <1>t, Zenon DEF SlotsInv
<1>10. FramesGrow
  BY <1>7, FramesSame, Zenon
<1>11. capacity[o] <= capacity[o] /\ start + n <= capacity[o]
       /\ (n = 0 => capacity[o] = capacity[o])
  BY <1>2, SMTT(30)
<1> HIDE DEF n
<1> QED BY <1>1, <1>2, <1>4, <1>5, <1>6, <1>7, <1>8, <1>9, <1>10, <1>11, ContainerStep, Zenon

\* hash_delete moves the later entries down and dirties the cards they land on;
\* an entry that moves takes its old-to-young reference to another card.
LEMMA HashDeleteStep ==
  ASSUME IInv, NEW o \in Registers \cap Hashes, NEW i \in Slots, hash_delete(o, i)
  PROVE  IInv'
<1> DEFINE n == count[o] - 1 - i
<1>t. TypeOK /\ SlotsInv /\ RefsInv
  BY Zenon DEF IInv
<1>1. o \in Objects /\ o \in Containers /\ o \in Registers \cap Containers
  BY RegisterFacts, Zenon DEF Containers
<1>2. /\ i \in Nat /\ n \in Nat /\ count[o] \in Nat /\ count[o] <= MaxCount
      /\ capacity[o] \in Nat /\ i + n = count[o] - 1 /\ count[o] <= capacity[o]
  <2>1. i \in Nat /\ i < count[o] /\ count[o] \in 0..MaxCount /\ capacity[o] \in Nat
    BY <1>1, <1>t, SizesAssumption DEF hash_delete, TypeOK, Slots
  <2>2. count[o] <= capacity[o]
    BY <1>1, <1>t, Zenon DEF SlotsInv
  <2> QED BY <2>1, <2>2, SizesAssumption
<1>3. \A j \in Slots : j + 1 < count[o] => j + 1 \in Slots
  BY <1>2, SizesAssumption DEF Slots
<1>4. /\ slot' \in [Objects -> [Slots -> Values]]
      /\ \A q \in Objects \ {o} : slot'[q] = slot[q]
      /\ \A j \in Slots :
           slot'[o][j] = IF j < i THEN slot[o][j]
                         ELSE IF j + 1 < count[o] THEN slot[o][j + 1] ELSE Nil
  <2> DEFINE new == [j \in Slots |-> IF j < i THEN slot[o][j]
                       ELSE IF j + 1 < count[o] THEN slot[o][j + 1] ELSE Nil]
  <2>1. slot' = [slot EXCEPT ![o] = new]
    BY Zenon DEF hash_delete
  <2>2. \A j \in Slots : (IF j < i THEN slot[o][j]
                          ELSE IF j + 1 < count[o] THEN slot[o][j + 1] ELSE Nil) \in Values
    BY <1>1, <1>3, <1>t DEF TypeOK, Values
  <2>3. new \in [Slots -> Values]
    BY <2>2, Zenon
  <2> HIDE DEF new
  <2>4. slot' \in [Objects -> [Slots -> Values]]
    BY <2>1, <2>3, <1>t, Zenon DEF TypeOK
  <2>5. slot'[o] = new /\ \A q \in Objects \ {o} : slot'[q] = slot[q]
    BY <2>1, <1>1, <1>t, Zenon DEF TypeOK
  <2> QED BY <2>4, <2>5, Zenon DEF new
<1>5. \A j \in Slots : slot'[o][j] # Nil => gen[slot'[o][j]] # "free"
  BY <1>1, <1>3, <1>4, <1>t, Zenon DEF RefsInv
<1>6. \A j \in Slots : ~(i <= j /\ j < i + n) => slot'[o][j] \in {slot[o][j], Nil}
  <2> SUFFICES ASSUME NEW j \in Slots, ~(i <= j /\ j < i + n)
               PROVE  slot'[o][j] \in {slot[o][j], Nil}
    OBVIOUS
  <2>1. j < i \/ ~(j + 1 < count[o])
    BY <1>2, SizesAssumption DEF Slots
  <2> QED BY <2>1, <1>4, Zenon
<1>7. gen' = gen /\ UNCHANGED fibervars /\ capacity' = capacity
      /\ frames' = Loaded(slot[o][i]) /\ gc_write_barrier_range(o, i, n, capacity[o])
  BY Zenon DEF hash_delete
<1>8. /\ capacity' = [capacity EXCEPT ![o] = capacity[o]]
      /\ count' \in [Objects -> 0..MaxCount]
      /\ \A q \in Objects \ {o} : count'[q] = count[q]
      /\ count'[o] = count[o] - 1 /\ count'[o] <= capacity[o]
  <2>1. count[o] - 1 \in 0..MaxCount /\ count[o] - 1 <= capacity[o]
    BY <1>2, SizesAssumption
  <2>2. count' = [count EXCEPT ![o] = count[o] - 1]
    BY Zenon DEF hash_delete
  <2>3. capacity' = [capacity EXCEPT ![o] = capacity[o]]
    BY <1>7, <1>1, <1>t, Zenon DEF TypeOK
  <2>4. /\ count' \in [Objects -> 0..MaxCount]
        /\ \A q \in Objects \ {o} : count'[q] = count[q]
        /\ count'[o] = count[o] - 1
    BY <2>1, <2>2, <1>1, <1>t, Zenon DEF TypeOK
  <2> QED BY <2>1, <2>3, <2>4, Zenon
<1>9. \A j \in Slots : j >= count'[o] => slot'[o][j] = Nil
  <2> SUFFICES ASSUME NEW j \in Slots, j >= count[o] - 1 PROVE slot'[o][j] = Nil
    BY <1>8, Zenon
  <2>1. ~(j < i) /\ ~(j + 1 < count[o])
    BY <1>2, SizesAssumption DEF Slots
  <2> QED BY <2>1, <1>4, Zenon
<1>10. FramesGrow
  <2>1. slot[o][i] \in Values /\ (slot[o][i] # Nil => gen[slot[o][i]] # "free")
    BY <1>1, <1>t, Zenon DEF TypeOK, RefsInv
  <2> QED BY <2>1, <1>7, FramesLoaded, Zenon
<1>11. capacity[o] <= capacity[o] /\ i + n <= capacity[o]
       /\ (n = 0 => capacity[o] = capacity[o])
  BY <1>2
<1> HIDE DEF n
<1> QED BY <1>1, <1>2, <1>4, <1>5, <1>6, <1>7, <1>8, <1>9, <1>10, <1>11, ContainerStep, Zenon

-----------------------------------------------------------------------------
(* Allocation.                                                             *)

\* A new object has no cards, and the other objects keep theirs.
LEMMA AllocateCards ==
  ASSUME IInv, NEW o \in Objects, NEW cap \in Nat, gen[o] = "free",
         \A p \in Objects : gen'[p] = IF p = o THEN "young" ELSE gen[p],
         \A p \in Objects : capacity'[p] = IF p = o THEN cap ELSE capacity[p],
         remembered' = remembered, remembered_set' = remembered_set,
         dirty_cards' = dirty_cards, card_capacity' = card_capacity
  PROVE  RememberedExact' /\ CardsInv'
<1>t. TypeOK /\ RememberedExact /\ CardsInv
  BY Zenon DEF IInv
<1>1. RememberedExact'
  BY <1>t, Zenon DEF RememberedExact, Of
<1>2. CardsInv'
  <2> SUFFICES ASSUME NEW p \in Objects
               PROVE  /\ \A k \in dirty_cards[p] :
                           k < card_capacity[p] /\ k < CardCount(capacity'[p])
                      /\ card_capacity[p] > 0 => CardCount(capacity'[p]) <= card_capacity[p]
                      /\ card_capacity[p] > 0 => gen'[p] = "old" /\ p \in Containers
    BY Zenon DEF CardsInv, CardCount
  <2>1. CASE p # o
    BY <2>1, <1>t, Zenon DEF CardsInv
  <2>2. CASE p = o
    <3>1. card_capacity[o] = 0 /\ dirty_cards[o] \in SUBSET Nat
      BY <1>t, SMTT(30) DEF CardsInv, TypeOK
    <3>2. dirty_cards[o] = {}
      BY <3>1, <1>t, SMTT(30) DEF CardsInv
    <3> QED BY <2>2, <3>1, <3>2
  <2> QED BY <2>1, <2>2, Zenon
<1> QED BY <1>1, <1>2, Zenon

\* A new object changes no old one, and only the register it is put in: what
\* was recorded is recorded still.
LEMMA AllocateRecords ==
  ASSUME IInv, NEW o \in Objects, gen[o] = "free",
         \A p \in Objects : gen'[p] = IF p = o THEN "young" ELSE gen[p],
         \A p \in Objects : p # o => slot'[p] = slot[p],
         \A c \in Contexts :
           frames'[c] = IF c = running_fiber THEN frames[c] \cup {o} ELSE frames[c],
         remembered' = remembered, dirty_cards' = dirty_cards,
         running_fiber' = running_fiber, resumer' = resumer,
         \A f \in Fibers : state'[f] = "running" <=> state[f] = "running"
  PROVE  RecordInv' /\ ChainInv'
<1>t. TypeOK /\ RefsInv /\ FreeInv /\ RecordInv /\ ChainInv
  BY Zenon DEF IInv
<1>r. running_fiber \in Contexts /\ running_fiber \in Active /\ Nil \notin Objects
  BY RegisterFacts, Zenon
<1>2. Active' = Active
  BY Zenon DEF Active
<1>3. \A y \in Objects : gen[y] # "free" => y # o /\ gen'[y] = gen[y]
  OBVIOUS
<1>4. RecordInv'
  <2>1. ASSUME NEW p \in Objects, NEW i \in Slots,
               gen'[p] = "old", slot'[p][i] # Nil, gen'[slot'[p][i]] = "young"
        PROVE  SlotRecorded(p, i)' \/ (p \in Fibers /\ state'[p] = "running" /\ i = 2)
    <3>1. p # o /\ gen[p] = "old" /\ slot'[p] = slot[p]
      BY <2>1, ZenonT(30)
    <3>2. slot[p][i] \in Objects /\ gen[slot[p][i]] # "free"
      BY <2>1, <3>1, <1>t, SMTT(30) DEF Values, TypeOK, RefsInv
    <3>3. gen[slot[p][i]] = "young"
      BY <2>1, <3>1, <3>2, <1>3, Zenon
    <3>4. SlotRecorded(p, i) \/ (p \in Fibers /\ state[p] = "running" /\ i = 2)
      BY <2>1, <3>1, <3>3, <1>t, SMTT(30) DEF RecordInv
    <3> QED BY <3>4, Zenon DEF SlotRecorded, Card
  <2>2. ASSUME NEW f \in Fibers, gen'[f] = "old", state'[f] # "running",
               NEW y \in frames'[f], gen'[y] = "young"
        PROVE  remembered'[f]
    <3>1. f \in Objects /\ f \in Contexts /\ f # o /\ gen[f] = "old" /\ state[f] # "running"
      BY <2>2, Zenon DEF Objects, Contexts
    <3>2. f # running_fiber
      BY <3>1, <1>r, NamesDistinct, Zenon DEF Active
    <3>3. y \in frames[f] /\ y \in Objects /\ gen[y] # "free"
      BY <2>2, <3>1, <3>2, <1>t, ZenonT(30) DEF TypeOK, RefsInv
    <3>4. gen[y] = "young"
      BY <2>2, <3>3, <1>3, Zenon
    <3> QED BY <3>1, <3>3, <3>4, <1>t, Zenon DEF RecordInv
  <2> QED BY <2>1, <2>2, Zenon DEF RecordInv
<1>5. ChainInv'
  <2>1. ASSUME NEW f \in Fibers, state[f] = "running"
        PROVE  /\ resumer[f] \in Active
               /\ f \in frames'[resumer[f]]
               /\ slot'[f][2] # Nil => slot'[f][2] \in frames'[resumer[f]]
               /\ resumer[f] # running_fiber
    <3>1. f # o /\ f \in Objects
      BY <2>1, <1>t, Zenon DEF FreeInv, Objects
    <3>2. slot'[f] = slot[f]
      BY <3>1, Zenon
    <3>3. /\ resumer[f] \in Active
          /\ f \in frames[resumer[f]]
          /\ slot[f][2] # Nil => slot[f][2] \in frames[resumer[f]]
          /\ resumer[f] # running_fiber
      BY <2>1, <1>t, Zenon DEF ChainInv
    <3>4. resumer[f] \in Contexts
      BY <3>3, Zenon DEF Active, Contexts
    <3>5. frames[resumer[f]] \subseteq frames'[resumer[f]]
      BY <3>4, Zenon
    <3> QED BY <3>2, <3>3, <3>5, Zenon
  <2> QED BY <2>1, <1>r, <1>t, <1>2, Zenon DEF ChainInv
<1> QED BY <1>4, <1>5, Zenon

\* A new object is young and nothing refers to it but the register it is put
\* in, so no barrier is needed whatever it is built from.
LEMMA AllocateStep ==
  ASSUME IInv, NEW o \in Objects, NEW refs \in [Slots -> Values],
         NEW n \in 0..MaxCount, NEW cap \in Nat,
         \A i \in Slots : refs[i] # Nil => gen[refs[i]] # "free",
         \A i \in Slots : i >= n => refs[i] = Nil,
         o \in Containers => n <= cap,
         Allocate(o, refs, n, cap),
         running_fiber' = running_fiber, resumer' = resumer,
         state' \in [Fibers -> {"runnable", "running", "suspended", "done"}],
         \A f \in Fibers : f # o => state'[f] = state[f],
         o \in Fibers => state'[o] # "running"
  PROVE  IInv'
<1>t. TypeOK /\ SlotsInv /\ RefsInv /\ FreeInv
  BY Zenon DEF IInv
<1>r. running_fiber \in Contexts /\ running_fiber \in Active /\ Nil \notin Objects
  BY RegisterFacts, Zenon
<1>0. /\ gen[o] = "free"
      /\ gen' = [gen EXCEPT ![o] = "young"] /\ slot' = [slot EXCEPT ![o] = refs]
      /\ count' = [count EXCEPT ![o] = n] /\ capacity' = [capacity EXCEPT ![o] = cap]
      /\ frames' = Loaded(o)
      /\ remembered' = remembered /\ remembered_set' = remembered_set
      /\ dirty_cards' = dirty_cards /\ card_capacity' = card_capacity
  BY Zenon DEF Allocate, barriervars
<1>1. /\ \A p \in Objects : gen'[p] = IF p = o THEN "young" ELSE gen[p]
      /\ \A p \in Objects : slot'[p] = IF p = o THEN refs ELSE slot[p]
      /\ \A p \in Objects : count'[p] = IF p = o THEN n ELSE count[p]
      /\ \A p \in Objects : capacity'[p] = IF p = o THEN cap ELSE capacity[p]
  BY <1>0, <1>t, Zenon DEF TypeOK
<1>2. \A c \in Contexts :
        frames'[c] = IF c = running_fiber THEN frames[c] \cup {o} ELSE frames[c]
  <2>1. {o} \ {Nil} = {o}
    BY <1>r, Zenon
  <2>2. frames' = [frames EXCEPT ![running_fiber] = frames[running_fiber] \cup {o}]
    BY <1>0, <2>1, Zenon DEF Loaded
  <2> QED BY <2>2, <1>r, <1>t, Zenon DEF TypeOK
<1>3. \A y \in Objects : gen[y] # "free" => y # o /\ gen'[y] = gen[y]
  BY <1>0, <1>1, Zenon
<1>4. \A f \in Fibers : state'[f] = "running" <=> state[f] = "running"
  BY <1>0, <1>t, Zenon DEF FreeInv, Objects
<1>5. TypeOK'
  <2>1. gen' \in [Objects -> {"free", "young", "old"}] /\ slot' \in [Objects -> [Slots -> Values]]
    BY <1>0, <1>t, Zenon DEF TypeOK
  <2>2. count' \in [Objects -> 0..MaxCount] /\ capacity' \in [Objects -> Nat]
    BY <1>0, <1>t, Zenon DEF TypeOK
  <2>3. frames' \in [Contexts -> SUBSET Objects]
    BY <1>0, <1>t, Zenon DEF TypeOK, Loaded
  <2> QED BY <2>1, <2>2, <2>3, <1>0, <1>t, Zenon DEF TypeOK
<1>6. RememberedExact' /\ CardsInv'
  BY <1>0, <1>1, AllocateCards, Zenon
<1>7. SlotsInv'
  BY <1>1, <1>t, SMTT(30) DEF SlotsInv
<1>8. RefsInv'
  <2>1. ASSUME NEW c \in Contexts, NEW y \in frames'[c]
        PROVE  gen'[y] # "free"
    <3>1. CASE y = o
      BY <3>1, <1>1, Zenon
    <3>2. CASE y \in frames[c]
      <4>1. y \in Objects /\ gen[y] # "free"
        BY <3>2, <1>t, Zenon DEF TypeOK, RefsInv
      <4> QED BY <4>1, <1>3, Zenon
    <3>3. y = o \/ y \in frames[c]
      <4>1. frames'[c] = frames[c] \cup {o} \/ frames'[c] = frames[c]
        BY <1>2, Zenon
      <4> QED BY <2>1, <4>1, Zenon
    <3> QED BY <3>1, <3>2, <3>3, Zenon
  <2>2. ASSUME NEW p \in Objects, NEW i \in Slots, slot'[p][i] # Nil
        PROVE  gen'[slot'[p][i]] # "free"
    <3>1. slot'[p][i] \in Objects /\ gen[slot'[p][i]] # "free"
      <4>1. CASE p = o
        BY <4>1, <2>2, <1>1 DEF Values
      <4>2. CASE p # o
        BY <4>2, <2>2, <1>1, <1>t DEF Values, TypeOK, RefsInv
      <4> QED BY <4>1, <4>2, Zenon
    <3> QED BY <3>1, <1>3, Zenon
  <2> QED BY <2>1, <2>2, Zenon DEF RefsInv
<1>9. FreeInv'
  <2> SUFFICES ASSUME NEW p \in Objects, gen'[p] = "free"
               PROVE  /\ \A i \in Slots : slot'[p][i] = Nil
                      /\ p \in Fibers => frames'[p] = {} /\ state'[p] # "running"
    BY Zenon DEF FreeInv
  <2>1. p # o /\ gen[p] = "free"
    BY <1>1, Zenon
  <2>2. \A i \in Slots : slot'[p][i] = Nil
    BY <2>1, <1>1, <1>t, SMTT(30) DEF FreeInv
  <2>3. ASSUME p \in Fibers PROVE frames'[p] = {} /\ state'[p] # "running"
    <3>1. frames[p] = {} /\ state[p] # "running"
      BY <2>1, <2>3, <1>t, Zenon DEF FreeInv
    <3>2. p # running_fiber /\ p \in Contexts
      BY <2>3, <3>1, <1>r, NamesDistinct, Zenon DEF Active, Contexts
    <3> QED BY <3>1, <3>2, <1>2, <2>1, <2>3, ZenonT(30)
  <2> QED BY <2>2, <2>3, Zenon
<1>10. RecordInv' /\ ChainInv'
  <2>1. \A p \in Objects : p # o => slot'[p] = slot[p]
    BY <1>1, Zenon
  <2> QED BY <1>0, <1>1, <1>2, <1>4, <2>1, AllocateRecords, Zenon
<1> QED BY <1>5, <1>6, <1>7, <1>8, <1>9, <1>10, Zenon DEF IInv

\* An Instance is allocated empty.
LEMMA AllocateInstanceStep ==
  ASSUME IInv, NEW o \in Instances, AllocateInstance(o)
  PROVE  IInv'
<1>1. o \in Objects /\ o \notin Containers /\ o \notin Fibers
  BY KindsDisjoint, Zenon DEF Objects, Containers
<1>2. NoRefs \in [Slots -> Values] /\ \A i \in Slots : NoRefs[i] = Nil
  BY Zenon DEF NoRefs, Values
<1>3. 1 \in 0..MaxCount /\ 0 \in Nat
  BY SizesAssumption
<1>4. state' \in [Fibers -> {"runnable", "running", "suspended", "done"}] /\ state' = state
  BY Zenon DEF AllocateInstance, fibervars, IInv, TypeOK
<1>5. Allocate(o, NoRefs, 1, 0) /\ running_fiber' = running_fiber /\ resumer' = resumer
  BY Zenon DEF AllocateInstance, fibervars
<1> QED BY <1>1, <1>2, <1>3, <1>4, <1>5, AllocateStep, Zenon

\* An Array literal is allocated with its elements.
LEMMA AllocateArrayStep ==
  ASSUME IInv, NEW o \in Arrays, NEW n \in 0..MaxLiteral,
         NEW refs \in [0..(n - 1) -> Operands], AllocateArray(o, n, refs)
  PROVE  IInv'
<1> DEFINE elements == [i \in Slots |-> IF i < n THEN refs[i] ELSE Nil]
<1>1. o \in Objects /\ o \notin Fibers
  BY KindsDisjoint, Zenon DEF Objects, Containers
<1>2. n \in 0..MaxCount /\ n \in Nat
  BY SizesAssumption
<1>3. \A i \in Slots : i < n => refs[i] \in Operands
  BY <1>2, SMTT(30) DEF Slots
<1>4. \A i \in Slots : elements[i] \in Values /\ (elements[i] # Nil => gen[elements[i]] # "free")
  BY <1>3, RegisterFacts, Zenon DEF Values
<1>5. elements \in [Slots -> Values]
  BY <1>4, Zenon
<1>6. \A i \in Slots : i >= n => elements[i] = Nil
  BY <1>2 DEF Slots
<1>7. state' \in [Fibers -> {"runnable", "running", "suspended", "done"}] /\ state' = state
  BY Zenon DEF AllocateArray, fibervars, IInv, TypeOK
<1>8. Allocate(o, elements, n, n) /\ running_fiber' = running_fiber /\ resumer' = resumer
  BY Zenon DEF AllocateArray, fibervars
<1> HIDE DEF elements
<1>9. o \in Containers => n <= n
  BY <1>2
<1> QED BY <1>1, <1>2, <1>4, <1>5, <1>6, <1>7, <1>8, <1>9, AllocateStep, Zenon

\* A Hash is allocated empty.
LEMMA AllocateHashStep ==
  ASSUME IInv, NEW o \in Hashes, AllocateHash(o)
  PROVE  IInv'
<1>1. o \in Objects /\ o \notin Fibers
  BY KindsDisjoint, Zenon DEF Objects, Containers
<1>2. NoRefs \in [Slots -> Values] /\ \A i \in Slots : NoRefs[i] = Nil
  BY Zenon DEF NoRefs, Values
<1>3. 0 \in 0..MaxCount /\ 0 \in Nat /\ 0 <= 0
  BY SizesAssumption
<1>4. state' \in [Fibers -> {"runnable", "running", "suspended", "done"}] /\ state' = state
  BY Zenon DEF AllocateHash, fibervars, IInv, TypeOK
<1>5. Allocate(o, NoRefs, 0, 0) /\ running_fiber' = running_fiber /\ resumer' = resumer
  BY Zenon DEF AllocateHash, fibervars
<1> QED BY <1>1, <1>2, <1>3, <1>4, <1>5, AllocateStep, Zenon

\* A Fiber is allocated with its entry closure, and runs nothing yet.
LEMMA AllocateFiberStep ==
  ASSUME IInv, NEW f \in Fibers, NEW closure \in Registers \cap Instances,
         AllocateFiber(f, closure)
  PROVE  IInv'
<1> DEFINE refs == [NoRefs EXCEPT ![0] = closure]
<1>1. f \in Objects /\ f \notin Containers
  BY KindsDisjoint, Zenon DEF Objects, Containers
<1>2. closure \in Values /\ gen[closure] # "free"
  BY RegisterFacts, Zenon DEF Values
<1>3. 0 \in Slots /\ \A i \in Slots : refs[i] = IF i = 0 THEN closure ELSE Nil
  BY SizesAssumption DEF NoRefs, Slots
<1>4. refs \in [Slots -> Values]
  BY <1>2, Zenon DEF NoRefs, Values
<1>5. \A i \in Slots : refs[i] # Nil => gen[refs[i]] # "free"
  BY <1>2, <1>3, Zenon
<1>6. \A i \in Slots : i >= 3 => refs[i] = Nil
  BY <1>3 DEF Slots
<1>7. 3 \in 0..MaxCount /\ 0 \in Nat
  BY SizesAssumption
<1>8. /\ state' \in [Fibers -> {"runnable", "running", "suspended", "done"}]
      /\ \A g \in Fibers : g # f => state'[g] = state[g]
      /\ state'[f] # "running"
  BY Zenon DEF AllocateFiber, IInv, TypeOK
<1>9. Allocate(f, refs, 3, 0) /\ running_fiber' = running_fiber /\ resumer' = resumer
  BY Zenon DEF AllocateFiber
<1> HIDE DEF refs
<1> QED BY <1>1, <1>4, <1>5, <1>6, <1>7, <1>8, <1>9, AllocateStep, Zenon

=============================================================================
