------------------------------ MODULE GCProofs ------------------------------
(***************************************************************************)
(* Proofs about the collector, for every set of addresses, card size and   *)
(* growth: no collection frees what the program can still use.  First the  *)
(* steps that drop references and switch Fibers, then the collections.     *)
(***************************************************************************)
EXTENDS GCInvariant

\* A register is overwritten, never one that a resume in progress needs.
LEMMA DropStep ==
  ASSUME IInv, NEW c \in Contexts, NEW o \in Objects, Drop(c, o)
  PROVE  IInv'
<1>t. /\ TypeOK /\ RememberedExact /\ CardsInv /\ SlotsInv /\ RefsInv /\ FreeInv
      /\ RecordInv /\ ChainInv
  BY Zenon DEF IInv
<1>0. /\ gen' = gen /\ slot' = slot /\ count' = count /\ capacity' = capacity
      /\ remembered' = remembered /\ remembered_set' = remembered_set
      /\ dirty_cards' = dirty_cards /\ card_capacity' = card_capacity
      /\ state' = state /\ running_fiber' = running_fiber /\ resumer' = resumer
      /\ o \notin Pinned(c)
      /\ frames' = [frames EXCEPT ![c] = frames[c] \ {o}]
  BY Zenon DEF Drop, barriervars, fibervars
<1>1. \A b \in Contexts : frames'[b] \subseteq frames[b] /\ frames[b] \subseteq frames'[b] \cup {o}
      /\ (b # c => frames'[b] = frames[b])
  BY <1>0, <1>t, Zenon DEF TypeOK
<1>2. TypeOK'
  BY <1>0, <1>t, Zenon DEF TypeOK
<1>3. RememberedExact' /\ CardsInv' /\ SlotsInv'
  BY <1>0, <1>t, Zenon DEF RememberedExact, CardsInv, SlotsInv, Of, CardCount
<1>4. RefsInv'
  BY <1>0, <1>1, <1>t, Zenon DEF RefsInv
<1>5. FreeInv'
  <2> SUFFICES ASSUME NEW p \in Objects, gen[p] = "free", p \in Fibers
               PROVE  frames'[p] = {}
    BY <1>0, <1>t, Zenon DEF FreeInv
  <2>1. frames[p] = {} /\ p \in Contexts
    BY <1>t, Zenon DEF FreeInv, Contexts
  <2> QED BY <2>1, <1>1, Zenon
<1>6. RecordInv'
  <2>1. \A p \in Objects, i \in Slots : SlotRecorded(p, i)' <=> SlotRecorded(p, i)
    BY <1>0, Zenon DEF SlotRecorded, Card
  <2>2. \A f \in Fibers : frames'[f] \subseteq frames[f]
    BY <1>1, Zenon DEF Contexts
  <2> QED BY <2>1, <2>2, <1>0, <1>t, Zenon DEF RecordInv
<1>7. ChainInv'
  <2>1. Active' = Active
    BY <1>0, Zenon DEF Active
  <2>2. ASSUME NEW f \in Fibers, state[f] = "running"
        PROVE  /\ f \in frames'[resumer[f]]
               /\ slot[f][2] # Nil => slot[f][2] \in frames'[resumer[f]]
    <3>1. /\ resumer[f] \in Contexts
          /\ f \in frames[resumer[f]]
          /\ slot[f][2] # Nil => slot[f][2] \in frames[resumer[f]]
      BY <2>2, <1>t, Zenon DEF ChainInv, Active, Contexts
    <3>2. CASE resumer[f] # c
      BY <3>1, <3>2, <1>1, Zenon
    <3>3. CASE resumer[f] = c
      <4>1. {f, slot[f][2]} \subseteq Pinned(c)
        BY <2>2, <3>3, Zenon DEF Pinned
      <4>2. o # f /\ o # slot[f][2]
        BY <4>1, <1>0, Zenon
      <4> QED BY <3>1, <4>2, <1>1, Zenon
    <3> QED BY <3>2, <3>3, Zenon
  <2> QED BY <2>1, <2>2, <1>0, <1>t, Zenon DEF ChainInv
<1> QED BY <1>2, <1>3, <1>4, <1>5, <1>6, <1>7, Zenon DEF IInv

\* A Fiber is resumed: its frames become roots, and the argument, stored in the
\* handle with no barrier, stays in the resumer's frames.
LEMMA ResumeStep ==
  ASSUME IInv, NEW f \in Registers \cap Fibers, NEW v \in Operands, Resume(f, v)
  PROVE  IInv'
<1>t. /\ TypeOK /\ RememberedExact /\ CardsInv /\ SlotsInv /\ RefsInv /\ FreeInv
      /\ RecordInv /\ ChainInv
  BY Zenon DEF IInv
<1>r. /\ running_fiber \in Contexts /\ running_fiber \in Active
      /\ f \in Objects /\ f \notin Containers /\ gen[f] # "free"
      /\ v \in Values /\ (v # Nil => gen[v] # "free" /\ v \in frames[running_fiber])
      /\ f \in frames[running_fiber] /\ f \in Contexts /\ f # Main
  <2>1. running_fiber \in Contexts /\ running_fiber \in Active
    BY RegisterFacts, Zenon
  <2>2. f \in Objects /\ gen[f] # "free" /\ v \in Values /\ (v # Nil => gen[v] # "free")
    BY RegisterFacts, Zenon DEF Values
  <2>3. f \in frames[running_fiber] /\ (v # Nil => v \in frames[running_fiber])
    BY Zenon DEF Registers, Operands
  <2>4. f \notin Containers /\ f \in Contexts /\ f # Main
    BY KindsDisjoint, NamesDistinct, Zenon DEF Containers, Contexts
  <2> QED BY <2>1, <2>2, <2>3, <2>4, Zenon
<1>0. /\ gen' = gen /\ count' = count /\ capacity' = capacity
      /\ remembered' = remembered /\ remembered_set' = remembered_set
      /\ dirty_cards' = dirty_cards /\ card_capacity' = card_capacity
      /\ state[f] # "running"
      /\ state' = [state EXCEPT ![f] = "running"]
      /\ slot' = [slot EXCEPT ![f][2] = v]
      /\ resumer' = [resumer EXCEPT ![f] = running_fiber]
      /\ running_fiber' = f
  BY Zenon DEF Resume, barriervars
<1>1. /\ \A p \in Objects : p # f => slot'[p] = slot[p]
      /\ slot'[f][2] = v
      /\ \A i \in Slots : i # 2 => slot'[f][i] = slot[f][i]
  <2>1. 2 \in Slots
    BY SizesAssumption DEF Slots
  <2> QED BY <2>1, <1>0, <1>r, <1>t, Zenon DEF TypeOK
<1>2. \A g \in Fibers : /\ g # f => state'[g] = state[g] /\ resumer'[g] = resumer[g]
                        /\ g = f => state'[g] = "running" /\ resumer'[g] = running_fiber
  BY <1>0, <1>t, Zenon DEF TypeOK
<1>3. \A c \in Contexts : /\ c # f => frames'[c] = frames[c]
                          /\ frames[c] \subseteq frames'[c]
                          /\ frames'[c] \subseteq frames[c] \cup ({v} \ {Nil})
  <2>1. CASE state[f] = "suspended" /\ v # Nil
    <3>1. frames' = [frames EXCEPT ![f] = frames[f] \cup {v}]
      BY <2>1, Zenon DEF Resume
    <3> QED BY <3>1, <2>1, <1>r, <1>t, Zenon DEF TypeOK
  <2>2. CASE ~(state[f] = "suspended" /\ v # Nil)
    BY <2>2, Zenon DEF Resume
  <2> QED BY <2>1, <2>2, Zenon
<1>4. Active' = Active \cup {f}
  BY <1>2, <1>r, Zenon DEF Active
<1>5. f \notin Active /\ f # running_fiber
  BY <1>0, <1>r, Zenon DEF Active
<1>6. TypeOK'
  <2>1. slot' \in [Objects -> [Slots -> Values]]
    BY <1>0, <1>r, <1>t, Zenon DEF TypeOK
  <2>2. frames' \in [Contexts -> SUBSET Objects]
    <3>1. v # Nil => v \in Objects
      BY <1>r, Zenon DEF Values
    <3>2. CASE state[f] = "suspended" /\ v # Nil
      <4>1. frames' = [frames EXCEPT ![f] = frames[f] \cup {v}]
        BY <3>2, Zenon DEF Resume
      <4> QED BY <3>1, <3>2, <4>1, <1>t, Zenon DEF TypeOK
    <3>3. CASE ~(state[f] = "suspended" /\ v # Nil)
      BY <3>3, <1>t, Zenon DEF Resume, TypeOK
    <3> QED BY <3>2, <3>3, Zenon
  <2>3. state' \in [Fibers -> {"runnable", "running", "suspended", "done"}]
    BY <1>0, <1>t, Zenon DEF TypeOK
  <2>4. running_fiber' \in Contexts /\ resumer' \in [Fibers -> Contexts \cup {Nil}]
    BY <1>0, <1>r, <1>t, Zenon DEF TypeOK
  <2> QED BY <2>1, <2>2, <2>3, <2>4, <1>0, <1>t, Zenon DEF TypeOK
<1>7. RememberedExact' /\ CardsInv'
  BY <1>0, <1>t, Zenon DEF RememberedExact, CardsInv, Of, CardCount
<1>8. SlotsInv'
  <2>1. \A p \in Containers : p \in Objects /\ p # f
    BY <1>r, Zenon DEF Objects
  <2> QED BY <2>1, <1>0, <1>1, <1>t DEF SlotsInv
<1>9. RefsInv'
  <2>1. \A c \in Contexts : \A y \in frames'[c] : gen[y] # "free"
    BY <1>3, <1>r, <1>t, Zenon DEF RefsInv
  <2>2. ASSUME NEW p \in Objects, NEW i \in Slots, slot'[p][i] # Nil
        PROVE  gen[slot'[p][i]] # "free"
    <3>1. CASE p = f /\ i = 2
      BY <3>1, <2>2, <1>1, <1>r, Zenon
    <3>2. CASE ~(p = f /\ i = 2)
      <4>1. slot'[p][i] = slot[p][i]
        BY <3>2, <1>1, Zenon
      <4> QED BY <4>1, <2>2, <1>t, Zenon DEF RefsInv
    <3> QED BY <3>1, <3>2, Zenon
  <2> QED BY <2>1, <2>2, <1>0, Zenon DEF RefsInv
<1>10. FreeInv'
  <2> SUFFICES ASSUME NEW p \in Objects, gen[p] = "free"
               PROVE  /\ \A i \in Slots : slot'[p][i] = Nil
                      /\ p \in Fibers => frames'[p] = {} /\ state'[p] # "running"
    BY <1>0, Zenon DEF FreeInv
  <2>1. p # f
    BY <1>r, Zenon
  <2>2. \A i \in Slots : slot'[p][i] = Nil
    BY <2>1, <1>1, <1>t DEF FreeInv
  <2>3. ASSUME p \in Fibers PROVE frames'[p] = {} /\ state'[p] # "running"
    <3>1. frames[p] = {} /\ state[p] # "running" /\ p \in Contexts
      BY <2>3, <1>t, Zenon DEF FreeInv, Contexts
    <3> QED BY <3>1, <2>1, <2>3, <1>2, <1>3, Zenon
  <2> QED BY <2>2, <2>3, Zenon
<1>11. RecordInv'
  <2>1. ASSUME NEW p \in Objects, NEW i \in Slots,
               gen'[p] = "old", slot'[p][i] # Nil, gen'[slot'[p][i]] = "young"
        PROVE  SlotRecorded(p, i)' \/ (p \in Fibers /\ state'[p] = "running" /\ i = 2)
    <3>1. CASE p = f /\ i = 2
      BY <3>1, <1>2, Zenon
    <3>2. CASE ~(p = f /\ i = 2)
      <4>1. slot'[p][i] = slot[p][i]
        BY <3>2, <1>1, Zenon
      <4>2. SlotRecorded(p, i) \/ (p \in Fibers /\ state[p] = "running" /\ i = 2)
        BY <4>1, <2>1, <1>0, <1>t, Zenon DEF RecordInv
      <4> QED BY <4>2, <1>0, <1>2, Zenon DEF SlotRecorded, Card
    <3> QED BY <3>1, <3>2, Zenon
  <2>2. ASSUME NEW g \in Fibers, gen'[g] = "old", state'[g] # "running",
               NEW y \in frames'[g], gen'[y] = "young"
        PROVE  remembered'[g]
    <3>1. g # f /\ g \in Contexts /\ state[g] # "running"
      BY <2>2, <1>2, Zenon DEF Contexts
    <3>2. y \in frames[g]
      BY <3>1, <2>2, <1>3, Zenon
    <3> QED BY <3>1, <3>2, <2>2, <1>0, <1>t, Zenon DEF RecordInv
  <2> QED BY <2>1, <2>2, Zenon DEF RecordInv
<1>12. ChainInv'
  <2>1. ASSUME NEW g \in Fibers, state'[g] = "running"
        PROVE  /\ resumer'[g] \in Active
               /\ g \in frames'[resumer'[g]]
               /\ slot'[g][2] # Nil => slot'[g][2] \in frames'[resumer'[g]]
    <3>1. CASE g = f
      BY <3>1, <1>1, <1>2, <1>3, <1>5, <1>r
    <3>2. CASE g # f
      <4>1. g \in Objects /\ slot'[g] = slot[g] /\ resumer'[g] = resumer[g] /\ state[g] = "running"
        BY <3>2, <2>1, <1>1, <1>2, Zenon DEF Objects
      <4>2. /\ resumer[g] \in Active
            /\ g \in frames[resumer[g]]
            /\ slot[g][2] # Nil => slot[g][2] \in frames[resumer[g]]
        BY <4>1, <1>t, Zenon DEF ChainInv
      <4>3. frames[resumer[g]] \subseteq frames'[resumer[g]]
        BY <4>2, <1>3, Zenon DEF Active, Contexts
      <4> QED BY <4>1, <4>2, <4>3, Zenon
    <3> QED BY <3>1, <3>2, Zenon
  <2>2. \A g \in Fibers : state'[g] = "running" => resumer'[g] # f
    BY <2>1, <1>5, Zenon
  <2>3. ASSUME NEW g \in Fibers, NEW h \in Fibers, state'[g] = "running",
               state'[h] = "running", resumer'[g] = resumer'[h]
        PROVE  g = h
    <3>1. \A e \in Fibers : e # f /\ state'[e] = "running" => resumer'[e] # running_fiber
      BY <1>2, <1>t, Zenon DEF ChainInv
    <3>2. CASE g = f \/ h = f
      BY <3>1, <3>2, <2>3, <1>2, Zenon
    <3>3. CASE g # f /\ h # f
      BY <3>3, <2>3, <1>2, <1>t, Zenon DEF ChainInv
    <3> QED BY <3>2, <3>3, Zenon
  <2> QED BY <2>1, <2>2, <2>3, <1>0, <1>4 DEF ChainInv
<1> QED BY <1>6, <1>7, <1>8, <1>9, <1>10, <1>11, <1>12, Zenon DEF IInv

\* Control comes back from a Fiber: the write barrier on the handle records
\* what the Fiber has stored, with no barrier of its own, while it ran.
LEMMA SwitchBackStep ==
  ASSUME IInv, NEW f \in Fibers, NEW result \in Values, NEW left \in SUBSET frames[f],
         NEW outcome \in {"suspended", "done"}, NEW v \in Operands,
         result # Nil => gen[result] # "free",
         SwitchBack(f, result, left, outcome, v)
  PROVE  IInv'
<1>t. /\ TypeOK /\ RememberedExact /\ CardsInv /\ SlotsInv /\ RefsInv /\ FreeInv
      /\ RecordInv /\ ChainInv
  BY Zenon DEF IInv
<1>0. /\ gen' = gen /\ count' = count /\ capacity' = capacity
      /\ dirty_cards' = dirty_cards /\ card_capacity' = card_capacity
      /\ running_fiber = f
      /\ state' = [state EXCEPT ![f] = outcome]
      /\ slot' = [slot EXCEPT ![f][1] = result]
      /\ resumer' = [resumer EXCEPT ![f] = Nil]
      /\ running_fiber' = resumer[f]
      /\ gc_write_barrier(f)
  BY Zenon DEF SwitchBack, cardvars
<1>r. /\ f \in Objects /\ f \notin Containers /\ f \in Contexts /\ f # Main
      /\ state[f] = "running" /\ gen[f] # "free"
      /\ resumer[f] \in Active /\ resumer[f] \in Contexts /\ resumer[f] # f
      /\ v \in Values /\ (v # Nil => v \in Objects /\ gen[v] # "free")
  <2>1. f \in Objects /\ f \notin Containers /\ f \in Contexts /\ f # Main
    BY KindsDisjoint, NamesDistinct, Zenon DEF Objects, Containers, Contexts
  <2>2. state[f] = "running"
    BY <1>0, <1>t, <2>1, Zenon DEF ChainInv, Active
  <2>3. resumer[f] \in Active /\ resumer[f] # f
    BY <1>0, <1>t, <2>2, Zenon DEF ChainInv
  <2>4. resumer[f] \in Contexts
    BY <2>3, Zenon DEF Active, Contexts
  <2>5. gen[f] # "free"
    BY <2>1, <2>2, <1>t, Zenon DEF FreeInv
  <2>6. v \in Values /\ (v # Nil => v \in Objects /\ gen[v] # "free")
    BY RegisterFacts, Zenon DEF Values
  <2> QED BY <2>1, <2>2, <2>3, <2>4, <2>5, <2>6, Zenon
<1>1. /\ \A p \in Objects : p # f => slot'[p] = slot[p]
      /\ slot'[f][1] = result
      /\ \A i \in Slots : i # 1 => slot'[f][i] = slot[f][i]
  <2>1. 1 \in Slots
    BY SizesAssumption DEF Slots
  <2> QED BY <2>1, <1>0, <1>r, <1>t, Zenon DEF TypeOK
<1>2. /\ \A g \in Fibers : g # f => state'[g] = state[g] /\ resumer'[g] = resumer[g]
      /\ state'[f] # "running"
  BY <1>0, <1>t, Zenon DEF TypeOK
<1>3. /\ frames' \in [Contexts -> SUBSET Objects]
      /\ frames'[f] = left
      /\ frames'[resumer[f]] = frames[resumer[f]] \cup ({v} \ {Nil})
      /\ \A c \in Contexts : c # f /\ c # resumer[f] => frames'[c] = frames[c]
  <2> DEFINE F == [frames EXCEPT ![f] = left]
  <2>1. F \in [Contexts -> SUBSET Objects]
    BY <1>r, <1>t, Zenon DEF TypeOK
  <2>2. F[f] = left /\ \A c \in Contexts : c # f => F[c] = frames[c]
    BY <1>r, <1>t, Zenon DEF TypeOK
  <2>3. frames' = [F EXCEPT ![resumer[f]] = F[resumer[f]] \cup ({v} \ {Nil})]
    BY Zenon DEF SwitchBack
  <2>4. {v} \ {Nil} \subseteq Objects
    BY <1>r, Zenon
  <2> HIDE DEF F
  <2> QED BY <2>1, <2>2, <2>3, <2>4, <1>r, Zenon
<1>4. \A c \in Contexts : /\ c # f => frames[c] \subseteq frames'[c]
                          /\ frames'[c] \subseteq frames[c] \cup ({v} \ {Nil})
  <2> TAKE c \in Contexts
  <2>1. CASE c = f
    BY <2>1, <1>3, <1>r, Zenon
  <2>2. CASE c = resumer[f]
    BY <2>2, <1>3, <1>r, Zenon
  <2>3. CASE c # f /\ c # resumer[f]
    BY <2>3, <1>3, Zenon
  <2> QED BY <2>1, <2>2, <2>3, Zenon
<1>5. Active' = Active \ {f}
  BY <1>2, <1>r, Zenon DEF Active
<1>6. /\ remembered' \in [Objects -> BOOLEAN] /\ remembered_set' \in SUBSET Objects
      /\ RememberedExact'
      /\ \A p \in Objects : remembered[p] => remembered'[p]
      /\ gen[f] = "old" => remembered'[f]
  <2>1. gen' = gen
    BY <1>0, Zenon
  <2> QED BY <2>1, <1>0, <1>r, <1>t, Barrier, Zenon
<1>7. TypeOK'
  <2>1. slot' \in [Objects -> [Slots -> Values]]
    BY <1>0, <1>r, <1>t, Zenon DEF TypeOK
  <2>2. state' \in [Fibers -> {"runnable", "running", "suspended", "done"}]
    BY <1>0, <1>t, Zenon DEF TypeOK
  <2>3. running_fiber' \in Contexts /\ resumer' \in [Fibers -> Contexts \cup {Nil}]
    BY <1>0, <1>r, <1>t, Zenon DEF TypeOK
  <2> QED BY <2>1, <2>2, <2>3, <1>0, <1>3, <1>6, <1>t, Zenon DEF TypeOK
<1>8. CardsInv'
  BY <1>0, <1>t, Zenon DEF CardsInv, CardCount
<1>9. SlotsInv'
  <2>1. \A p \in Containers : p # f
    BY <1>r, Zenon
  <2> QED BY <2>1, <1>0, <1>1, <1>t DEF SlotsInv
<1>10. RefsInv'
  <2>1. \A c \in Contexts : \A y \in frames'[c] : gen[y] # "free"
    BY <1>4, <1>r, <1>t, Zenon DEF RefsInv
  <2>2. ASSUME NEW p \in Objects, NEW i \in Slots, slot'[p][i] # Nil
        PROVE  gen[slot'[p][i]] # "free"
    <3>1. CASE p = f /\ i = 1
      BY <3>1, <2>2, <1>1, Zenon
    <3>2. CASE ~(p = f /\ i = 1)
      <4>1. slot'[p][i] = slot[p][i]
        BY <3>2, <1>1, Zenon
      <4> QED BY <4>1, <2>2, <1>t, Zenon DEF RefsInv
    <3> QED BY <3>1, <3>2, Zenon
  <2> QED BY <2>1, <2>2, <1>0, Zenon DEF RefsInv
<1>11. FreeInv'
  <2> SUFFICES ASSUME NEW p \in Objects, gen[p] = "free"
               PROVE  /\ \A i \in Slots : slot'[p][i] = Nil
                      /\ p \in Fibers => frames'[p] = {} /\ state'[p] # "running"
    BY <1>0, Zenon DEF FreeInv
  <2>1. p # f
    BY <1>r, Zenon
  <2>2. \A i \in Slots : slot'[p][i] = Nil
    BY <2>1, <1>1, <1>t, SMTT(30) DEF FreeInv
  <2>3. ASSUME p \in Fibers PROVE frames'[p] = {} /\ state'[p] # "running"
    <3>1. frames[p] = {} /\ state[p] # "running" /\ p \in Contexts
      BY <2>3, <1>t, Zenon DEF FreeInv, Contexts
    <3>2. p # resumer[f]
      BY <3>1, <2>3, <1>r, NamesDistinct, Zenon DEF Active
    <3> QED BY <3>1, <3>2, <2>1, <2>3, <1>2, <1>3, Zenon
  <2> QED BY <2>2, <2>3, Zenon
<1>12. RecordInv'
  <2>1. ASSUME NEW p \in Objects, NEW i \in Slots,
               gen'[p] = "old", slot'[p][i] # Nil, gen'[slot'[p][i]] = "young"
        PROVE  SlotRecorded(p, i)' \/ (p \in Fibers /\ state'[p] = "running" /\ i = 2)
    <3>1. CASE p = f
      BY <3>1, <2>1, <1>0, <1>6, <1>r, Zenon DEF SlotRecorded
    <3>2. CASE p # f
      <4>1. slot'[p][i] = slot[p][i]
        BY <3>2, <1>1, Zenon
      <4>2. SlotRecorded(p, i) \/ (p \in Fibers /\ state[p] = "running" /\ i = 2)
        BY <4>1, <2>1, <1>0, <1>t, Zenon DEF RecordInv
      <4> QED BY <4>2, <3>2, <1>0, <1>2, <1>6, Zenon DEF SlotRecorded, Card
    <3> QED BY <3>1, <3>2, Zenon
  <2>2. ASSUME NEW g \in Fibers, gen'[g] = "old", state'[g] # "running",
               NEW y \in frames'[g], gen'[y] = "young"
        PROVE  remembered'[g]
    <3>1. CASE g = f
      BY <3>1, <2>2, <1>0, <1>6, Zenon
    <3>2. CASE g # f
      <4>1. g \in Contexts /\ g \in Objects /\ state[g] # "running"
        BY <2>2, <3>2, <1>2, Zenon DEF Contexts, Objects
      <4>2. g # resumer[f]
        BY <4>1, <1>r, NamesDistinct, Zenon DEF Active
      <4>3. y \in frames[g]
        BY <3>2, <4>1, <4>2, <2>2, <1>3, Zenon
      <4> QED BY <4>1, <4>3, <2>2, <1>0, <1>6, <1>t, Zenon DEF RecordInv
    <3> QED BY <3>1, <3>2, Zenon
  <2> QED BY <2>1, <2>2, Zenon DEF RecordInv
<1>13. ChainInv'
  <2>1. ASSUME NEW g \in Fibers, state'[g] = "running"
        PROVE  /\ g # f /\ state[g] = "running" /\ resumer'[g] = resumer[g]
               /\ resumer[g] \in Active \ {f}
               /\ g \in frames'[resumer[g]]
               /\ slot'[g][2] # Nil => slot'[g][2] \in frames'[resumer[g]]
               /\ resumer[g] # resumer[f]
    <3>1. g # f /\ g \in Objects
      BY <2>1, <1>2, Zenon DEF Objects
    <3>2. slot'[g] = slot[g] /\ resumer'[g] = resumer[g] /\ state[g] = "running"
      BY <3>1, <2>1, <1>1, <1>2, Zenon
    <3>3. /\ resumer[g] \in Active
          /\ g \in frames[resumer[g]]
          /\ slot[g][2] # Nil => slot[g][2] \in frames[resumer[g]]
          /\ resumer[g] # f
          /\ resumer[g] # resumer[f]
      BY <3>1, <3>2, <1>0, <1>r, <1>t, Zenon DEF ChainInv
    <3>4. frames[resumer[g]] \subseteq frames'[resumer[g]]
      BY <3>3, <1>4, Zenon DEF Active, Contexts
    <3> QED BY <3>1, <3>2, <3>3, <3>4, Zenon
  <2>2. running_fiber' \in Active'
    BY <1>0, <1>5, <1>r, Zenon
  <2>3. \A g, h \in Fibers :
          state'[g] = "running" /\ state'[h] = "running" /\ resumer'[g] = resumer'[h] => g = h
    BY <2>1, <1>t, Zenon DEF ChainInv
  <2> QED BY <2>1, <2>2, <2>3, <1>0, <1>5, Zenon DEF ChainInv
<1> QED BY <1>6, <1>7, <1>8, <1>9, <1>10, <1>11, <1>12, <1>13, Zenon DEF IInv


\* A collection that frees nothing which a root, a survivor or the frames of
\* a surviving Fiber refer to, and that either promotes every survivor or
\* cleans no card of one, keeps the invariant.
LEMMA SweepStep ==
  ASSUME IInv, NEW dead \in SUBSET Objects, NEW promoted \in SUBSET Objects,
         sweep_list(dead, promoted), UNCHANGED fibervars,
         \A o \in dead : gen[o] # "free",
         \A o \in promoted : gen[o] = "young",
         \A c \in Active : frames[c] \cap dead = {},
         \A o \in Objects \ dead, i \in Slots : slot[o][i] \notin dead,
         \A f \in Fibers \ dead : state[f] # "running" => frames[f] \cap dead = {},
         remembered_set' = remembered_set \ dead,
         dirty_cards' \in [Objects -> SUBSET Nat],
         \A o \in Objects : dirty_cards'[o] \subseteq dirty_cards[o],
         \A o \in dead : dirty_cards'[o] = {},
         \/ \A o \in Objects : gen[o] = "young" => o \in dead \cup promoted
         \/ promoted = {} /\ \A o \in Objects \ dead : dirty_cards'[o] = dirty_cards[o]
  PROVE  IInv'
<1>t. /\ TypeOK /\ RememberedExact /\ CardsInv /\ SlotsInv /\ RefsInv /\ FreeInv
      /\ RecordInv /\ ChainInv
  BY Zenon DEF IInv
<1>0. state' = state /\ running_fiber' = running_fiber /\ resumer' = resumer
  BY Zenon DEF fibervars
<1>1. /\ \A o \in dead : gen'[o] = "free" /\ card_capacity'[o] = 0 /\ ~remembered'[o]
                         /\ capacity'[o] = 0 /\ count'[o] = 0 /\ slot'[o] = NoRefs
      /\ \A o \in Objects \ dead :
           /\ gen'[o] = (IF o \in promoted THEN "old" ELSE gen[o])
           /\ slot'[o] = slot[o] /\ count'[o] = count[o] /\ capacity'[o] = capacity[o]
           /\ card_capacity'[o] = card_capacity[o]
  BY Zenon DEF sweep_list
<1>2. \A o \in Objects \ dead : remembered'[o] <=> remembered[o]
  BY Zenon DEF sweep_list
<1>3. /\ \A c \in Contexts \ dead : frames'[c] = frames[c]
      /\ \A c \in Contexts : frames'[c] \subseteq frames[c]
      /\ \A c \in Contexts \cap dead : frames'[c] = {}
  BY Zenon DEF sweep_list
<1>4. \A o \in Objects : /\ gen'[o] = "free" <=> (gen[o] = "free" \/ o \in dead)
                         /\ gen[o] = "old" /\ o \notin dead => gen'[o] = "old"
  <2> TAKE o \in Objects
  <2>1. CASE o \in dead
    BY <2>1, <1>1, Zenon
  <2>2. CASE o \notin dead
    BY <2>2, <1>1, Zenon
  <2> QED BY <2>1, <2>2, Zenon
<1>5. Active' = Active
  BY <1>0, Zenon DEF Active
<1>6. \A f \in Fibers : state[f] = "running" => f \notin dead
  BY <1>t, Zenon DEF ChainInv
<1>7. \A c \in Active : c \in Contexts \ dead /\ frames'[c] = frames[c]
  <2>1. Main \notin Objects
    BY NamesDistinct, Zenon DEF Objects, Containers
  <2>2. \A c \in Active : c \in Contexts \ dead
    BY <2>1, <1>6 DEF Active, Contexts
  <2> QED BY <2>2, <1>3, Zenon
<1>8. TypeOK'
  <2>1. gen' \in [Objects -> {"free", "young", "old"}]
    BY <1>t, Zenon DEF sweep_list, TypeOK
  <2>2. slot' \in [Objects -> [Slots -> Values]]
    <3>1. NoRefs \in [Slots -> Values]
      BY Zenon DEF NoRefs, Values
    <3> QED BY <3>1, <1>t, Zenon DEF sweep_list, TypeOK
  <2>3. count' \in [Objects -> 0..MaxCount]
    BY SizesAssumption, <1>t DEF sweep_list, TypeOK
  <2>4. capacity' \in [Objects -> Nat] /\ card_capacity' \in [Objects -> Nat]
    BY <1>t, Zenon DEF sweep_list, TypeOK
  <2>5. remembered' \in [Objects -> BOOLEAN]
    <3>1. \A o \in Objects : (o \notin dead /\ remembered[o]) \in BOOLEAN
      OBVIOUS
    <3> QED BY <3>1, Zenon DEF sweep_list
  <2>6. frames' \in [Contexts -> SUBSET Objects]
    BY <1>t, Zenon DEF sweep_list, TypeOK
  <2>7. remembered_set' \in SUBSET Objects
    BY <1>t, Zenon DEF TypeOK
  <2> QED BY <2>1, <2>2, <2>3, <2>4, <2>5, <2>6, <2>7, <1>0, <1>t, Zenon DEF TypeOK
<1>9. RememberedExact'
  <2>1. \A o \in Objects : o \in remembered_set' <=> remembered'[o]
    <3> TAKE o \in Objects
    <3>1. CASE o \in dead
      BY <3>1, <1>1, Zenon
    <3>2. CASE o \notin dead
      BY <3>2, <1>2, <1>t, Zenon DEF RememberedExact
    <3> QED BY <3>1, <3>2, Zenon
  <2>2. \A o \in remembered_set' : o \in Objects /\ gen'[o] = "old"
    BY <1>4, <1>t, Zenon DEF RememberedExact, Of
  <2>3. remembered_set' = {o \in Objects : remembered'[o]}
    BY <2>1, <2>2, Zenon
  <2> QED BY <2>2, <2>3, Zenon DEF RememberedExact, Of
<1>10. CardsInv'
  <2> SUFFICES ASSUME NEW p \in Objects
               PROVE  /\ \A k \in dirty_cards'[p] :
                           k < card_capacity'[p] /\ k < CardCount(capacity'[p])
                      /\ card_capacity'[p] > 0 => CardCount(capacity'[p]) <= card_capacity'[p]
                      /\ card_capacity'[p] > 0 => gen'[p] = "old" /\ p \in Containers
    BY Zenon DEF CardsInv, CardCount
  <2>1. CASE p \in dead
    BY <2>1, <1>1
  <2>2. CASE p \notin dead
    <3>1. capacity'[p] = capacity[p] /\ card_capacity'[p] = card_capacity[p]
      BY <2>2, <1>1, Zenon
    <3>2. /\ \A k \in dirty_cards[p] :
               k < card_capacity[p] /\ k < CardCount(capacity[p])
          /\ card_capacity[p] > 0 => CardCount(capacity[p]) <= card_capacity[p]
          /\ card_capacity[p] > 0 => gen[p] = "old" /\ p \in Containers
      BY <1>t, Zenon DEF CardsInv
    <3> QED BY <2>2, <3>1, <3>2, <1>4, Zenon
  <2> QED BY <2>1, <2>2, Zenon
<1>11. SlotsInv'
  <2> SUFFICES ASSUME NEW p \in Objects, p \in Containers
               PROVE  /\ \A i \in Slots : i >= count'[p] => slot'[p][i] = Nil
                      /\ count'[p] <= capacity'[p]
    BY Zenon DEF SlotsInv
  <2>1. CASE p \in dead
    BY <2>1, <1>1 DEF NoRefs
  <2>2. CASE p \notin dead
    BY <2>2, <1>1, <1>t DEF SlotsInv
  <2> QED BY <2>1, <2>2, Zenon
<1>12. \A o \in Objects, i \in Slots : slot'[o][i] # Nil =>
         o \notin dead /\ slot'[o] = slot[o] /\ slot[o][i] \in Objects \ dead
           /\ gen[slot[o][i]] # "free"
  <2> SUFFICES ASSUME NEW o \in Objects, NEW i \in Slots, slot'[o][i] # Nil
               PROVE  o \notin dead /\ slot'[o] = slot[o] /\ slot[o][i] \in Objects \ dead
                        /\ gen[slot[o][i]] # "free"
    OBVIOUS
  <2>1. o \notin dead
    BY <1>1 DEF NoRefs
  <2>2. slot'[o] = slot[o]
    BY <2>1, <1>1, Zenon
  <2>3. slot[o][i] \in Objects /\ gen[slot[o][i]] # "free"
    BY <2>2, <1>t DEF TypeOK, Values, RefsInv
  <2> QED BY <2>1, <2>2, <2>3, Zenon
<1>13. \A c \in Contexts : \A y \in frames'[c] :
         c \notin dead /\ y \in frames[c] /\ y \in Objects \ dead /\ gen[y] # "free"
  <2> SUFFICES ASSUME NEW c \in Contexts, NEW y \in frames'[c]
               PROVE  c \notin dead /\ y \in frames[c] /\ y \in Objects \ dead /\ gen[y] # "free"
    OBVIOUS
  <2>1. c \notin dead /\ y \in frames[c]
    BY <1>3, Zenon
  <2>2. y \in Objects /\ gen[y] # "free"
    BY <2>1, <1>t, Zenon DEF TypeOK, RefsInv
  <2>3. y \notin dead
    <3>1. CASE c \in Active
      BY <3>1, <2>1, Zenon
    <3>2. CASE c \notin Active
      BY <3>2, <2>1, Zenon DEF Active, Contexts
    <3> QED BY <3>1, <3>2, Zenon
  <2> QED BY <2>1, <2>2, <2>3, Zenon
<1>14. RefsInv'
  BY <1>4, <1>12, <1>13 DEF RefsInv
<1>15. FreeInv'
  <2> SUFFICES ASSUME NEW p \in Objects, gen'[p] = "free"
               PROVE  /\ \A i \in Slots : slot'[p][i] = Nil
                      /\ p \in Fibers => frames'[p] = {} /\ state[p] # "running"
    BY <1>0, Zenon DEF FreeInv
  <2>1. CASE p \in dead
    BY <2>1, <1>1, <1>3, <1>6 DEF NoRefs, Contexts
  <2>2. CASE p \notin dead
    <3>1. gen[p] = "free"
      BY <2>2, <1>4, Zenon
    <3>2. \A i \in Slots : slot'[p][i] = Nil
      BY <2>2, <3>1, <1>1, <1>t DEF FreeInv
    <3>3. p \in Fibers => frames'[p] = {} /\ state[p] # "running"
      BY <3>1, <1>3, <1>t, Zenon DEF FreeInv, Contexts
    <3> QED BY <3>2, <3>3, Zenon
  <2> QED BY <2>1, <2>2, Zenon
<1>16. RecordInv'
  <2>1. CASE \A o \in Objects : gen[o] = "young" => o \in dead \cup promoted
    <3>1. \A o \in Objects : gen'[o] # "young"
      BY <2>1, <1>1, Zenon
    <3>2. \A o \in Objects, i \in Slots : slot'[o][i] # Nil => slot'[o][i] \in Objects
      BY <1>12, Zenon
    <3>3. \A c \in Fibers : \A y \in frames'[c] : y \in Objects
      BY <1>13, Zenon DEF Contexts
    <3> QED BY <3>1, <3>2, <3>3, Zenon DEF RecordInv
  <2>2. CASE promoted = {} /\ \A o \in Objects \ dead : dirty_cards'[o] = dirty_cards[o]
    <3>1. \A o \in Objects \ dead : gen'[o] = gen[o]
      BY <2>2, <1>1, Zenon
    <3>2. ASSUME NEW p \in Objects, NEW i \in Slots,
                 gen'[p] = "old", slot'[p][i] # Nil, gen'[slot'[p][i]] = "young"
          PROVE  SlotRecorded(p, i)' \/ (p \in Fibers /\ state'[p] = "running" /\ i = 2)
      <4>1. p \notin dead /\ slot'[p] = slot[p] /\ slot[p][i] \in Objects \ dead
        BY <3>2, <1>12, Zenon
      <4>2. gen[p] = "old" /\ gen[slot[p][i]] = "young" /\ slot[p][i] # Nil
        BY <3>1, <3>2, <4>1, Zenon
      <4>3. SlotRecorded(p, i) \/ (p \in Fibers /\ state[p] = "running" /\ i = 2)
        BY <4>2, <1>t, Zenon DEF RecordInv
      <4>4. SlotRecorded(p, i) => SlotRecorded(p, i)'
        <5>1. (remembered[p] <=> remembered'[p]) /\ dirty_cards'[p] = dirty_cards[p]
          BY <4>1, <2>2, <1>2, Zenon
        <5> QED BY <5>1, Zenon DEF SlotRecorded, Card
      <4> QED BY <4>3, <4>4, <1>0, Zenon
    <3>3. ASSUME NEW g \in Fibers, gen'[g] = "old", state'[g] # "running",
                 NEW y \in frames'[g], gen'[y] = "young"
          PROVE  remembered'[g]
      <4>1. g \in Objects \ dead /\ y \in frames[g] /\ y \in Objects \ dead
        BY <3>3, <1>13, Zenon DEF Contexts, Objects
      <4>2. gen[g] = "old" /\ gen[y] = "young" /\ state[g] # "running"
        BY <3>1, <3>3, <4>1, <1>0, Zenon
      <4>3. remembered[g]
        BY <4>1, <4>2, <1>t, Zenon DEF RecordInv
      <4> QED BY <4>1, <4>3, <1>2, Zenon
    <3> QED BY <3>2, <3>3, Zenon DEF RecordInv
  <2> QED BY <2>1, <2>2, Zenon
<1>17. ChainInv'
  <2>1. \A f \in Fibers : state[f] = "running" => slot'[f] = slot[f]
    BY <1>1, <1>6, Zenon DEF Objects
  <2> QED BY <2>1, <1>0, <1>5, <1>7, <1>t, Zenon DEF ChainInv
<1> QED BY <1>8, <1>9, <1>10, <1>11, <1>14, <1>15, <1>16, <1>17, Zenon DEF IInv

\* A minor collection marks every young object that a root or a survivor
\* refers to, although it follows no reference of an old object that is not
\* in the remembered set or not on a dirty card.
LEMMA CollectMinorStep ==
  ASSUME IInv, CollectMinor
  PROVE  IInv'
<1>t. /\ TypeOK /\ RememberedExact /\ CardsInv /\ RefsInv /\ FreeInv
      /\ RecordInv /\ ChainInv
  BY Zenon DEF IInv
<1> DEFINE roots == RootRefs \cup UNION {RememberedRefs(o) : o \in remembered_set}
           dead == Of("young") \ MinorMarked
<1>1. /\ \A y \in RootRefs : y \in Of("young") => y \in MinorMarked
      /\ \A o \in remembered_set : \A y \in RememberedRefs(o) :
           y \in Of("young") => y \in MinorMarked
      /\ MinorMarked \subseteq Of("young")
      /\ \A o \in MinorMarked : \A y \in mark_object_children(o) :
           y \in Of("young") => y \in MinorMarked
  <2>1. MinorMarked = mark_object(roots, Of("young"))
    BY Zenon DEF MinorMarked
  <2>2. roots \cap Of("young") \subseteq MinorMarked
    BY <2>1, MarkingRoots, Zenon
  <2>3. \A o \in MinorMarked : o \in Of("young")
                               /\ mark_object_children(o) \cap Of("young") \subseteq MinorMarked
    BY <2>1, Marking, Zenon
  <2> QED BY <2>2, <2>3, Zenon
<1>2. \A c \in Active : frames[c] \cap dead = {}
  BY <1>1, Zenon DEF RootRefs
<1>3. ASSUME NEW o \in Objects \ dead, NEW i \in Slots
      PROVE  slot[o][i] \notin dead
  <2> SUFFICES ASSUME slot[o][i] # Nil, slot[o][i] \in Of("young")
               PROVE  slot[o][i] \in MinorMarked
    <3>1. Nil \notin Objects
      BY RegisterFacts, Zenon
    <3> QED BY <3>1, Zenon DEF Of
  <2>1. slot[o][i] \in mark_object_children(o)
    BY Zenon DEF mark_object_children, Refs
  <2>2. CASE o \in MinorMarked
    BY <2>1, <2>2, <1>1, Zenon
  <2>3. CASE gen[o] = "free"
    BY <2>3, <1>t, Zenon DEF FreeInv
  <2>4. CASE gen[o] = "old"
    <3>1. SlotRecorded(o, i) \/ (o \in Fibers /\ state[o] = "running" /\ i = 2)
      BY <2>4, <1>t, Zenon DEF RecordInv, Of
    <3>2. CASE SlotRecorded(o, i)
      <4>1. o \in remembered_set
        BY <3>2, <1>t, Zenon DEF SlotRecorded, RememberedExact
      <4>2. slot[o][i] \in RememberedRefs(o)
        <5>1. CASE o \in Containers
          <6>1. Card(i) \in dirty_cards[o]
            BY <3>2, <5>1, Zenon DEF SlotRecorded
          <6>2. Card(i) \in Scanned(o)
            BY <6>1, <1>t, Zenon DEF CardsInv, Scanned
          <6> QED BY <5>1, <6>2, <2>1, Zenon DEF RememberedRefs
        <5>2. CASE o \notin Containers
          BY <5>2, <2>1, Zenon DEF RememberedRefs
        <5> QED BY <5>1, <5>2, Zenon
      <4> QED BY <4>1, <4>2, <1>1, Zenon
    <3>3. CASE o \in Fibers /\ state[o] = "running" /\ i = 2
      <4>1. resumer[o] \in Active /\ slot[o][i] \in frames[resumer[o]]
        BY <3>3, <1>t, Zenon DEF ChainInv
      <4> QED BY <4>1, <1>1, Zenon DEF RootRefs
    <3> QED BY <3>1, <3>2, <3>3, Zenon
  <2>5. gen[o] \in {"free", "young", "old"}
    BY <1>t, Zenon DEF TypeOK
  <2> QED BY <2>2, <2>3, <2>4, <2>5, Zenon DEF Of
<1>4. ASSUME NEW f \in Fibers \ dead, state[f] # "running"
      PROVE  frames[f] \cap dead = {}
  <2> SUFFICES ASSUME NEW y \in frames[f], y \in Of("young")
               PROVE  y \in MinorMarked
    OBVIOUS
  <2>1. f \in Objects /\ y \in mark_object_children(f)
    BY <1>4, Zenon DEF mark_object_children, Objects
  <2>2. CASE f \in MinorMarked
    BY <2>1, <2>2, <1>1, Zenon
  <2>3. CASE gen[f] = "free"
    BY <2>1, <2>3, <1>t, Zenon DEF FreeInv
  <2>4. CASE gen[f] = "old"
    <3>1. remembered[f]
      BY <2>4, <1>4, <1>t, Zenon DEF RecordInv, Of
    <3>2. f \in remembered_set
      BY <2>1, <3>1, <1>t, Zenon DEF RememberedExact
    <3>3. f \notin Containers
      BY KindsDisjoint, Zenon DEF Containers
    <3>4. y \in RememberedRefs(f)
      BY <3>3, <2>1, Zenon DEF RememberedRefs
    <3> QED BY <3>2, <3>4, <1>1, Zenon
  <2>5. gen[f] \in {"free", "young", "old"}
    BY <2>1, <1>t, Zenon DEF TypeOK
  <2> QED BY <2>1, <2>2, <2>3, <2>4, <2>5, Zenon DEF Of
<1>5. /\ sweep_list(dead, MinorMarked)
      /\ UNCHANGED fibervars
      /\ remembered_set' = remembered_set
      /\ dirty_cards' = [o \in Objects |->
           IF o \in remembered_set \cap Containers THEN dirty_cards[o] \ Scanned(o)
           ELSE dirty_cards[o]]
  BY Zenon DEF CollectMinor
<1>6. dead \in SUBSET Objects /\ MinorMarked \in SUBSET Objects
  BY <1>1, Zenon DEF Of
<1>7. /\ \A o \in dead : gen[o] # "free"
      /\ \A o \in MinorMarked : gen[o] = "young"
      /\ \A o \in Objects : gen[o] = "young" => o \in dead \cup MinorMarked
  BY <1>1, Zenon DEF Of
<1>8. remembered_set' = remembered_set \ dead
  BY <1>5, <1>t, Zenon DEF RememberedExact, Of
<1>9. /\ dirty_cards' \in [Objects -> SUBSET Nat]
      /\ \A o \in Objects : dirty_cards'[o] \subseteq dirty_cards[o]
  BY <1>5, <1>t, Zenon DEF TypeOK
<1>10. \A o \in dead : dirty_cards'[o] = {}
  <2> SUFFICES ASSUME NEW o \in dead, NEW k \in dirty_cards[o]
               PROVE  FALSE
    BY <1>6, <1>9, Zenon
  <2>1. o \in Objects /\ gen[o] = "young"
    BY Zenon DEF Of
  <2>2. card_capacity[o] \in Nat /\ ~(card_capacity[o] > 0) /\ k \in Nat
    BY <2>1, <1>t, Zenon DEF CardsInv, TypeOK
  <2>3. k < card_capacity[o]
    BY <2>1, <1>t, Zenon DEF CardsInv
  <2> QED BY <2>2, <2>3
<1> HIDE DEF dead
<1> QED BY <1>2, <1>3, <1>4, <1>5, <1>6, <1>7, <1>8, <1>9, <1>10, SweepStep, Zenon

\* A major collection marks whatever a root or a survivor refers to.
LEMMA CollectMajorStep ==
  ASSUME IInv, CollectMajor
  PROVE  IInv'
<1>t. /\ TypeOK /\ RememberedExact /\ RefsInv /\ FreeInv /\ ChainInv
  BY Zenon DEF IInv
<1> DEFINE space == Of("young") \cup Of("old")
           dead == space \ MajorMarked
           none == {}
<1>1. \A y \in Objects : y \in space <=> gen[y] # "free"
  BY <1>t, Zenon DEF TypeOK, Of
<1>2. /\ \A y \in RootRefs : y \in space => y \in MajorMarked
      /\ MajorMarked \subseteq space
      /\ \A o \in MajorMarked : \A y \in mark_object_children(o) :
           y \in space => y \in MajorMarked
  <2>1. MajorMarked = mark_object(RootRefs, space)
    BY Zenon DEF MajorMarked
  <2>2. RootRefs \cap space \subseteq MajorMarked
    BY <2>1, MarkingRoots, Zenon
  <2>3. \A o \in MajorMarked : o \in space
                               /\ mark_object_children(o) \cap space \subseteq MajorMarked
    BY <2>1, Marking, Zenon
  <2> QED BY <2>2, <2>3, Zenon
<1>3. \A c \in Active : frames[c] \cap dead = {}
  BY <1>2, Zenon DEF RootRefs
<1>4. \A o \in Objects \ dead : o \in MajorMarked \/ gen[o] = "free"
  BY <1>1, Zenon
<1>5. ASSUME NEW o \in Objects \ dead, NEW i \in Slots
      PROVE  slot[o][i] \notin dead
  <2>1. CASE slot[o][i] = Nil
    <3>1. Nil \notin Objects
      BY RegisterFacts, Zenon
    <3> QED BY <3>1, <2>1, Zenon DEF Of
  <2>2. CASE slot[o][i] # Nil
    <3>1. o \in MajorMarked
      BY <2>2, <1>4, <1>t, Zenon DEF FreeInv
    <3>2. slot[o][i] \in mark_object_children(o)
      BY <2>2, Zenon DEF mark_object_children, Refs
    <3> QED BY <3>1, <3>2, <1>2, Zenon
  <2> QED BY <2>1, <2>2, Zenon
<1>6. ASSUME NEW f \in Fibers \ dead, state[f] # "running"
      PROVE  frames[f] \cap dead = {}
  <2> SUFFICES ASSUME NEW y \in frames[f], y \in space
               PROVE  y \in MajorMarked
    OBVIOUS
  <2>1. f \in Objects /\ y \in mark_object_children(f)
    BY <1>6, Zenon DEF mark_object_children, Objects
  <2>2. f \in MajorMarked
    BY <2>1, <1>4, <1>t, Zenon DEF FreeInv
  <2> QED BY <2>1, <2>2, <1>2, Zenon
<1>7. /\ sweep_list(dead, none)
      /\ UNCHANGED fibervars
      /\ remembered_set' = remembered_set \cap MajorMarked
      /\ dirty_cards' = [o \in Objects |-> IF o \in dead THEN {} ELSE dirty_cards[o]]
  BY Zenon DEF CollectMajor
<1>8. /\ dead \in SUBSET Objects /\ none \in SUBSET Objects
      /\ \A o \in none : gen[o] = "young"
  BY Zenon DEF Of
<1>9. \A o \in dead : gen[o] # "free"
  BY <1>1, <1>8, Zenon
<1>10. remembered_set' = remembered_set \ dead
  BY <1>7, <1>t, Zenon DEF RememberedExact
<1>11. /\ dirty_cards' \in [Objects -> SUBSET Nat]
       /\ \A o \in Objects : dirty_cards'[o] \subseteq dirty_cards[o]
       /\ \A o \in dead : dirty_cards'[o] = {}
       /\ none = {} /\ \A o \in Objects \ dead : dirty_cards'[o] = dirty_cards[o]
  BY <1>7, <1>8, <1>t, Zenon DEF TypeOK
<1> HIDE DEF dead, none
<1> QED BY <1>3, <1>5, <1>6, <1>7, <1>8, <1>9, <1>10, <1>11, SweepStep, Zenon

-----------------------------------------------------------------------------

\* The invariant holds of the empty heap.
LEMMA InitInv == Init => IInv
<1> SUFFICES ASSUME Init PROVE IInv
  OBVIOUS
<1>1. TypeOK
  <2>1. NoRefs \in [Slots -> Values]
    BY Zenon DEF NoRefs, Values
  <2> QED BY <2>1, SizesAssumption DEF Init, TypeOK, Values, Contexts
<1>2. RememberedExact
  BY Zenon DEF Init, RememberedExact
<1>3. CardsInv /\ SlotsInv
  BY DEF Init, CardsInv, SlotsInv, NoRefs
<1>4. RefsInv /\ FreeInv
  BY Zenon DEF Init, RefsInv, FreeInv, NoRefs, Contexts
<1>5. RecordInv
  <2>1. /\ \A o \in Objects : gen[o] # "old"
        /\ \A f \in Fibers : gen[f] # "old"
    BY Zenon DEF Init, Objects
  <2> QED BY <2>1, Zenon DEF RecordInv
<1>6. ChainInv
  <2>1. running_fiber \in Active /\ \A f \in Fibers : state[f] # "running"
    BY Zenon DEF Init, Active
  <2> QED BY <2>1, Zenon DEF ChainInv
<1> QED BY <1>1, <1>2, <1>3, <1>4, <1>5, <1>6, Zenon DEF IInv

\* Every step keeps the invariant.
LEMMA NextInv == IInv /\ [Next]_vars => IInv'
<1> SUFFICES ASSUME IInv, [Next]_vars PROVE IInv'
  BY Zenon
<1>1. CASE UNCHANGED vars
  <2>1. TypeOK'
    BY <1>1, Zenon DEF vars, IInv, TypeOK
  <2>2. RememberedExact' /\ CardsInv' /\ SlotsInv'
    BY <1>1, Zenon DEF vars, IInv, RememberedExact, CardsInv, SlotsInv, CardCount, Of
  <2>3. RefsInv' /\ FreeInv'
    BY <1>1, Zenon DEF vars, IInv, RefsInv, FreeInv
  <2>4. RecordInv'
    BY <1>1, Zenon DEF vars, IInv, RecordInv, SlotRecorded, Card
  <2>5. ChainInv'
    BY <1>1, Zenon DEF vars, IInv, ChainInv, Active
  <2> QED
    BY <2>1, <2>2, <2>3, <2>4, <2>5, Zenon DEF IInv
<1>2. CASE \E o \in Instances : AllocateInstance(o)
  BY <1>2, AllocateInstanceStep, Zenon
<1>3. CASE \E o \in Arrays, n \in 0..MaxLiteral : \E refs \in [0..(n - 1) -> Operands] :
             AllocateArray(o, n, refs)
  BY <1>3, AllocateArrayStep, Zenon
<1>4. CASE \E o \in Hashes : AllocateHash(o)
  BY <1>4, AllocateHashStep, Zenon
<1>5. CASE \E f \in Fibers, closure \in Registers \cap Instances : AllocateFiber(f, closure)
  BY <1>5, AllocateFiberStep, Zenon
<1>6. CASE \E o \in Readable, i \in Slots : Read(o, i)
  BY <1>6, ReadStep, Zenon
<1>7. CASE \E o \in Registers \cap Instances, i \in Slots, v \in Operands : SetField(o, i, v)
  BY <1>7, SetFieldStep, Zenon
<1>8. CASE \E o \in Registers \cap Containers, i \in Slots, v \in Operands : SetIndex(o, i, v)
  BY <1>8, SetIndexStep, Zenon
<1>9. CASE \E o \in Registers \cap Containers, v \in Operands : Push(o, v)
  BY <1>9, PushStep, Zenon
<1>10. CASE \E o \in Registers \cap Arrays : ArrayPop(o)
  BY <1>10, ArrayPopStep, Zenon
<1>11. CASE \E o, p \in Registers \cap Arrays, start \in 0..MaxCount : SetRange(o, start, p)
  BY <1>11, SetRangeStep, Zenon
<1>12. CASE \E o \in Registers \cap Hashes, i \in Slots : hash_delete(o, i)
  BY <1>12, HashDeleteStep, Zenon
<1>13. CASE \E o \in Registers \cap Hashes : HashClear(o)
  BY <1>13, HashClearStep, Zenon
<1>14. CASE \E c \in Contexts, o \in Objects : Drop(c, o)
  BY <1>14, DropStep, Zenon
<1>15. CASE \E o \in Registers : Publish(o)
  BY <1>15, PublishStep, Zenon
<1>16. CASE \E f \in Registers \cap Fibers, v \in Operands : Resume(f, v)
  BY <1>16, ResumeStep, Zenon
<1>17. CASE \E f \in Fibers, v \in Operands : Yield(f, v) \/ Complete(f, v) \/ Fail(f, v)
  <2> PICK f \in Fibers, v \in Operands : Yield(f, v) \/ Complete(f, v) \/ Fail(f, v)
    BY <1>17, Zenon
  <2>1. v \in Values /\ (v # Nil => gen[v] # "free")
    BY RegisterFacts, Zenon DEF Values
  <2>2. CASE Yield(f, v)
    <3>1. frames[f] \in SUBSET frames[f]
      OBVIOUS
    <3> QED BY <2>1, <2>2, <3>1, SwitchBackStep, Zenon DEF Yield
  <2>3. CASE Complete(f, v)
    BY <2>1, <2>3, SwitchBackStep, Zenon DEF Complete
  <2>4. CASE Fail(f, v)
    <3>1. f \in Objects /\ 1 \in Slots
      BY SizesAssumption DEF Objects, Slots
    <3>2. slot[f][1] \in Values /\ (slot[f][1] # Nil => gen[slot[f][1]] # "free")
      BY <3>1, Zenon DEF IInv, TypeOK, RefsInv
    <3> QED BY <2>4, <3>2, SwitchBackStep, Zenon DEF Fail
  <2> QED BY <2>2, <2>3, <2>4, Zenon
<1>18. CASE CollectMinor
  BY <1>18, CollectMinorStep, Zenon
<1>19. CASE CollectMajor
  BY <1>19, CollectMajorStep, Zenon
<1> QED BY <1>1, <1>2, <1>3, <1>4, <1>5, <1>6, <1>7, <1>8, <1>9, <1>10, <1>11, <1>12,
        <1>13, <1>14, <1>15, <1>16, <1>17, <1>18, <1>19, Zenon DEF Next

\* The inductive invariant gives the properties.
LEMMA InvImplies ==
  IInv => NoDangling /\ OldToYoungRecorded /\ CardTableCovers /\ RunningHandleHeld
<1> SUFFICES ASSUME IInv
             PROVE  NoDangling /\ OldToYoungRecorded /\ CardTableCovers /\ RunningHandleHeld
  OBVIOUS
<1>t. /\ TypeOK /\ RememberedExact /\ CardsInv /\ RefsInv /\ FreeInv
      /\ RecordInv /\ ChainInv
  BY Zenon DEF IInv
<1>1. \A y \in Objects : gen[y] # "free" => y \in Allocated
  BY <1>t, Zenon DEF TypeOK, Allocated, Of
<1>2. \A c \in Contexts : frames[c] \subseteq Allocated
  BY <1>1, <1>t, Zenon DEF TypeOK, RefsInv
<1>3. \A o \in Objects, i \in Slots : slot[o][i] # Nil => slot[o][i] \in Allocated
  BY <1>1, <1>t DEF TypeOK, RefsInv, Values
<1>4. NoDangling
  <2>1. RootRefs \subseteq Allocated
    BY <1>2, Zenon DEF RootRefs, Active, Contexts
  <2>2. \A o \in Allocated : mark_object_children(o) \subseteq Allocated
    BY <1>2, <1>3 DEF mark_object_children, Refs, Contexts, Allocated, Of
  <2> QED BY <2>1, <2>2, Zenon DEF NoDangling
<1>5. OldToYoungRecorded
  <2> SUFFICES ASSUME NEW o \in Of("old"), NEW y \in mark_object_children(o), y \in Of("young")
               PROVE  \/ o \in remembered_set /\ y \in RememberedRefs(o)
                      \/ o \in Fibers /\ state[o] = "running" /\ y \in frames[resumer[o]]
    BY Zenon DEF OldToYoungRecorded
  <2>1. o \in Objects /\ gen[o] = "old" /\ gen[y] = "young"
    BY Zenon DEF Of
  <2>2. CASE y \in Refs(o)
    <3>1. PICK i \in Slots : y = slot[o][i] /\ slot[o][i] # Nil
      BY <2>2, Zenon DEF Refs
    <3>2. SlotRecorded(o, i) \/ (o \in Fibers /\ state[o] = "running" /\ i = 2)
      BY <2>1, <3>1, <1>t, Zenon DEF RecordInv
    <3>3. CASE SlotRecorded(o, i)
      <4>1. o \in remembered_set
        BY <2>1, <3>3, <1>t, Zenon DEF SlotRecorded, RememberedExact
      <4>2. CASE o \in Containers
        <5>1. Card(i) \in Scanned(o)
          BY <2>1, <3>3, <4>2, <1>t, Zenon DEF SlotRecorded, CardsInv, Scanned
        <5> QED BY <3>1, <4>1, <4>2, <5>1, Zenon DEF RememberedRefs, mark_object_children, Refs
      <4>3. CASE o \notin Containers
        BY <4>1, <4>3, Zenon DEF RememberedRefs
      <4> QED BY <4>2, <4>3, Zenon
    <3>4. CASE o \in Fibers /\ state[o] = "running" /\ i = 2
      BY <3>1, <3>4, <1>t, Zenon DEF ChainInv
    <3> QED BY <3>2, <3>3, <3>4, Zenon
  <2>3. CASE o \in Fibers /\ state[o] # "running" /\ y \in frames[o]
    <3>1. o \in remembered_set
      BY <2>1, <2>3, <1>t, Zenon DEF RecordInv, RememberedExact
    <3>2. o \notin Containers
      BY <2>3, KindsDisjoint, Zenon DEF Containers
    <3> QED BY <3>1, <3>2, Zenon DEF RememberedRefs
  <2> QED BY <2>2, <2>3, Zenon DEF mark_object_children
<1>6. CardTableCovers
  BY <1>t, Zenon DEF CardsInv, CardTableCovers
<1>7. RunningHandleHeld
  BY <1>t, Zenon DEF ChainInv, FreeInv, RunningHandleHeld, Objects
<1> QED BY <1>4, <1>5, <1>6, <1>7, Zenon

\* Every reachable state of the collector satisfies the inductive invariant.
THEOREM Invariance == Spec => []IInv
BY InitInv, NextInv, PTL DEF Spec

\* Type correctness.
THEOREM TypeCorrect == Spec => []TypeOK
<1>1. IInv => TypeOK
  BY Zenon DEF IInv
<1> QED BY <1>1, Invariance, PTL

\* Nothing that the program can still reach is freed by a collection of either
\* kind, whenever it runs (mark_object, sweep_list).
THEOREM NothingFreedEarly == Spec => []NoDangling
BY Invariance, InvImplies, PTL

\* The write barriers record every old-to-young reference (gc_write_barrier,
\* gc_write_barrier_range, mark_cards_dirty).
THEOREM BarriersRecord == Spec => []OldToYoungRecorded
BY Invariance, InvImplies, PTL

\* The remembered bits and the remembered set agree, and hold no freed object
\* (gc_write_barrier, collect_major's filter).
THEOREM RememberedBits == Spec => []RememberedExact
<1>1. IInv => RememberedExact
  BY Zenon DEF IInv
<1> QED BY <1>1, Invariance, PTL

\* No card index is ever outside its card table or its container
\* (mark_cards_dirty, mark_remembered_set).
THEOREM CardTables == Spec => []CardTableCovers
BY Invariance, InvImplies, PTL

\* The handle of a Fiber on the chain of resumers is never swept.
THEOREM RunningHandles == Spec => []RunningHandleHeld
BY Invariance, InvImplies, PTL

=============================================================================
