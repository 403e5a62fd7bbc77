----------------------------- MODULE UnwindProofs -----------------------------
(***************************************************************************)
(* Proofs about Unwind, for every bytecode in which a block is written for *)
(* the call that follows it and for every size of the handler array: a     *)
(* block's return or break finds the frame it is for, and an ensure clause *)
(* runs once whatever leaves the code around it.                           *)
(***************************************************************************)
EXTENDS Unwind, TLAPS

(***************************************************************************)
(* Sequences and records whose elements have no type.                      *)
(***************************************************************************)

\* A sequence of anything: the handlers of a frame, and the frames.
IsSeq(s) == \E S : s \in Seq(S)

\* The length and the domain of a sequence.
LEMMA SeqShape == ASSUME NEW s, IsSeq(s) PROVE Len(s) \in Nat /\ DOMAIN s = 1..Len(s)
  BY DEF IsSeq

\* Append keeps what is there and adds one element at the end.
LEMMA Pushed ==
  ASSUME NEW s, IsSeq(s), NEW e
  PROVE  /\ IsSeq(Append(s, e))
         /\ Len(Append(s, e)) = Len(s) + 1
         /\ \A n \in 1..Len(s) : Append(s, e)[n] = s[n]
         /\ Append(s, e)[Len(s) + 1] = e
<1>1. PICK S : s \in Seq(S)
  BY DEF IsSeq
<1>2. s \in Seq(S \cup {e}) /\ e \in S \cup {e}
  BY <1>1
<1>3. Append(s, e) \in Seq(S \cup {e})
  BY <1>2
<1> QED BY <1>2, <1>3 DEF IsSeq

\* SubSeq(s, 1, k) keeps the first k elements.
LEMMA Cut ==
  ASSUME NEW s, IsSeq(s), NEW k \in 0..Len(s)
  PROVE  /\ IsSeq(SubSeq(s, 1, k))
         /\ Len(SubSeq(s, 1, k)) = k
         /\ \A n \in 1..k : SubSeq(s, 1, k)[n] = s[n]
<1>1. PICK S : s \in Seq(S)
  BY DEF IsSeq
<1>2. SubSeq(s, 1, k) \in Seq(S)
  BY <1>1
<1> QED BY <1>1, <1>2 DEF IsSeq

\* Replacing the last element keeps the others.
LEMMA Replaced ==
  ASSUME NEW s, IsSeq(s), Len(s) > 0, NEW e
  PROVE  /\ IsSeq([s EXCEPT ![Len(s)] = e])
         /\ Len([s EXCEPT ![Len(s)] = e]) = Len(s)
         /\ \A n \in 1..(Len(s) - 1) : [s EXCEPT ![Len(s)] = e][n] = s[n]
         /\ [s EXCEPT ![Len(s)] = e][Len(s)] = e
<1>1. PICK S : s \in Seq(S)
  BY DEF IsSeq
<1>2. s \in Seq(S \cup {e}) /\ e \in S \cup {e}
  BY <1>1
<1>3. [s EXCEPT ![Len(s)] = e] \in Seq(S \cup {e})
  BY <1>2
<1> QED BY <1>2, <1>3 DEF IsSeq

\* A record is the function of its fields, so that EXCEPT can be computed.
IsRecord(r, fields) == r = [x \in fields |-> r[x]]

(***************************************************************************)
(* Frames, and what a frame may make of an event.                          *)
(***************************************************************************)
HandlerFields == {"kind", "target", "arg", "saved_pending"}
FrameFields == {"def", "ip", "handlers", "pending", "registers", "block_register", "serial", "closure", "home"}
MachineFields == {"error", "exception", "nonlocal"}
Seen == {"OK", "EXCEPTION", "NONLOCAL_EXIT", "RUNTIME_ERROR"}

\* What the fields of a frame and of its handlers are.
IsFrame(f) ==
  /\ IsRecord(f, FrameFields)
  /\ IsSeq(f.handlers)
  /\ \A k \in DOMAIN f.handlers : IsRecord(f.handlers[k], HandlerFields)

\* A later state of the same run_chunk call.
SameCall(f, g) ==
  /\ IsFrame(g)
  /\ g.def = f.def /\ g.serial = f.serial /\ g.closure = f.closure
  /\ g.block_register = f.block_register

\* What frame f makes of an event that may carry the given exits.  It goes on in
\* the same call with its ensure clauses kept, and any exit that waits in it waited
\* before or is one of those; or it is left, and then no clause of it is left out.
Handled(f, r, exits) ==
  /\ IsRecord(r.vm, MachineFields)
  /\ r.goes_on \in BOOLEAN
  /\ r.goes_on =>
       /\ SameCall(f, r.frame) /\ HandlersKept(f, r.frame)
       /\ Len(r.frame.handlers) <= Len(f.handlers)
       /\ \A p \in Waiting(r.frame) : p.kind = "NONLOCAL" => p \in Waiting(f) \/ p.value \in exits
  /\ ~r.goes_on =>
       /\ r.status.kind \in Seen \cup Unseen
       /\ Ensures(f) = {} \/ r.status.kind \in Unseen
       /\ r.status.kind = "NONLOCAL_EXIT" => r.vm.nonlocal \in exits

\* The ensure clauses that have not started are handlers of the frame.
LEMMA EnsuresAre ==
  ASSUME NEW f, IsFrame(f)
  PROVE  /\ Len(f.handlers) \in Nat /\ DOMAIN f.handlers = 1..Len(f.handlers)
         /\ Ensures(f) \in SUBSET (0..Len(f.handlers))
         /\ \A k \in Ensures(f) : k \in 1..Len(f.handlers) /\ f.handlers[k].kind = "ENSURE"
         /\ \A k \in 1..Len(f.handlers) : f.handlers[k].kind = "ENSURE" => k \in Ensures(f)
<1>1. Len(f.handlers) \in Nat /\ DOMAIN f.handlers = 1..Len(f.handlers)
  BY SeqShape DEF IsFrame
<1> QED BY <1>1 DEF Ensures

\* A frame that does not change keeps its handlers.
LEMMA KeptBySelf == ASSUME NEW f PROVE HandlersKept(f, f)
  BY Zenon DEF HandlersKept

(***************************************************************************)
(* The inductive invariant.                                                *)
(***************************************************************************)

\* The frames and the machine are records with their fields, no frame has more
\* handlers than its array holds, and the code is that of the program.
Shape ==
  /\ program \in Programs /\ code = CodeOf(program)
  /\ IsSeq(frames)
  /\ \A i \in 1..Len(frames) : IsFrame(frames[i]) /\ Len(frames[i].handlers) <= MaxHandlers
  /\ IsRecord(machine, MachineFields)
  /\ status = Running \/ status.kind \in Seen \cup Unseen

\* A serial belongs to one frame, and none is handed out twice.
Serials ==
  /\ frame_serial \in Nat
  /\ \A i \in 1..Len(frames) : frames[i].serial \in 1..frame_serial
  /\ \A i, j \in 1..Len(frames) : frames[i].serial = frames[j].serial => i = j

\* The frame that a block's break is for holds, at the block's offset, the call
\* that the block was written for.
Written(closure) ==
  /\ closure.break_target \in 0..frame_serial
  /\ \A j \in 1..Len(frames) : frames[j].serial = closure.break_target =>
       code[frames[j].def][closure.break_call_offset].op = "CALL"

\* That holds of every block the machine can still call.
Closures ==
  /\ Written(block)
  /\ \A i \in 1..Len(frames) : Written(frames[i].closure) /\ Written(frames[i].block_register)

\* ExitsHaveAPlace is not inductive: whether a break that starts has a place
\* depends on the block it starts in, and whose frame a serial means on the serials.
Inv == Shape /\ Serials /\ Closures /\ ExitsHaveAPlace

\* The exits that wait in frame f have a place among the first n frames.
Placed(f, n) == \A p \in Waiting(f) : p.kind = "NONLOCAL" => HasAPlace(p.value, n)

\* Init: one frame, no handler, no block.
LEMMA Initially == Init => Inv
<1> SUFFICES ASSUME Init PROVE Inv
  OBVIOUS
<1> DEFINE f == NewFrame("main", NoClosure, 1)
<1>1. /\ program \in Programs /\ code = CodeOf(program) /\ frames = <<f>> /\ status = Running
      /\ frame_serial = 1 /\ block = NoClosure
  BY DEF Init
<1>2. /\ IsRecord(f, FrameFields) /\ f.handlers = <<>> /\ f.pending = PendingNone
      /\ f.serial = 1 /\ f.closure = NoClosure /\ f.block_register = NoClosure
  BY DEF NewFrame, IsRecord, FrameFields
<1> HIDE DEF f
<1>3. IsSeq(<<>>) /\ DOMAIN <<>> = {} /\ Len(<<>>) = 0
  <2>1. <<>> \in Seq({})
    OBVIOUS
  <2> QED BY <2>1 DEF IsSeq
<1>4. IsFrame(f) /\ Len(f.handlers) = 0 /\ Waiting(f) = {PendingNone}
  <2>1. IsFrame(f)
    BY <1>2, <1>3, Zenon DEF IsFrame
  <2> QED BY <1>2, <1>3, <2>1 DEF Waiting
<1>5. IsSeq(frames) /\ Len(frames) = 1 /\ frames[1] = f
  <2>1. <<f>> \in Seq({f})
    OBVIOUS
  <2> QED BY <1>1, <2>1, Zenon DEF IsSeq
<1>6. \A i \in 1..Len(frames) : i = 1 /\ frames[i] = f
  BY <1>5
<1>7. Shape
  <2>1. IsRecord(machine, MachineFields)
    BY DEF Init, IsRecord, MachineFields
  <2>2. Len(f.handlers) <= MaxHandlers
    BY <1>4, MaxHandlersIsNat
  <2> QED BY <1>1, <1>4, <1>5, <1>6, <2>1, <2>2, Zenon DEF Shape
<1>8. Serials
  <2>1. frame_serial \in Nat /\ 1 \in 1..frame_serial
    BY <1>1
  <2> QED BY <1>2, <1>6, <2>1, Zenon DEF Serials
<1>9. Closures
  <2>1. NoClosure.break_target \in 0..frame_serial /\ NoClosure.break_target # 1
    BY <1>1 DEF NoClosure
  <2>2. Written(NoClosure)
    BY <1>2, <1>6, <2>1, Zenon DEF Written
  <2> QED BY <1>1, <1>2, <1>6, <2>2, Zenon DEF Closures
<1>10. ExitsHaveAPlace
  <2>1. PendingNone.kind # "NONLOCAL" /\ Running.kind # "NONLOCAL_EXIT"
    BY DEF PendingNone, Pending, Running, Status
  <2> QED BY <1>1, <1>4, <1>6, <2>1 DEF ExitsHaveAPlace
<1> QED BY <1>7, <1>8, <1>9, <1>10 DEF Inv

\* A step that changes nothing keeps the invariant and every clause.
LEMMA Stuttering == ASSUME Inv, UNCHANGED vars PROVE Inv' /\ EnsuresKept
<1>1. /\ program' = program /\ code' = code /\ frames' = frames /\ status' = status
      /\ machine' = machine /\ frame_serial' = frame_serial /\ block' = block
  BY DEF vars
<1>2. Inv'
  <2>1. Shape'
    BY <1>1 DEF Inv, Shape
  <2>2. Serials'
    BY <1>1 DEF Inv, Serials
  <2>3. Closures'
    BY <1>1, Zenon DEF Inv, Closures, Written
  <2>4. ExitsHaveAPlace'
    BY <1>1, Zenon DEF Inv, ExitsHaveAPlace, HasAPlace
  <2> QED BY <2>1, <2>2, <2>3, <2>4 DEF Inv
<1>3. EnsuresKept
  BY <1>1, KeptBySelf, Zenon DEF EnsuresKept
<1> QED BY <1>2, <1>3

(***************************************************************************)
(* What the three ways to change the stack of frames keep.                 *)
(***************************************************************************)

\* The frame that runs.
LEMMA TopFrame ==
  ASSUME Shape, frames # <<>>
  PROVE  /\ Len(frames) \in Nat /\ Len(frames) > 0 /\ DOMAIN frames = 1..Len(frames)
         /\ Len(frames) \in 1..Len(frames) /\ Frame = frames[Len(frames)]
         /\ IsFrame(Frame) /\ Len(Frame.handlers) <= MaxHandlers
<1>1. PICK S : frames \in Seq(S)
  BY DEF Shape, IsSeq
<1>2. Len(frames) \in Nat /\ Len(frames) > 0 /\ DOMAIN frames = 1..Len(frames)
  BY <1>1
<1>3. Len(frames) \in 1..Len(frames) /\ Frame = frames[Len(frames)]
  BY <1>2 DEF Frame, Top
<1> QED BY <1>2, <1>3, Zenon DEF Shape

\* Becomes: the top frame changes within its call.  The frames below, where the
\* exits land, are untouched, and its own serial, def and blocks stay good.
LEMMA FrameChanged ==
  ASSUME Inv, frames # <<>>, NEW g,
         IsFrame(g), Len(g.handlers) <= MaxHandlers,
         g.def = Frame.def, g.serial = Frame.serial, g.closure = Frame.closure,
         Written(g.block_register), Written(block'),
         Placed(g, Len(frames) - 1), HandlersKept(Frame, g),
         Becomes(g), status' = Running, IsRecord(machine', MachineFields),
         UNCHANGED <<program, code, frame_serial>>
  PROVE  Inv' /\ EnsuresKept
<1> DEFINE n == Len(frames)
<1>1. /\ n \in Nat /\ n > 0 /\ DOMAIN frames = 1..n /\ n \in 1..n
      /\ Frame = frames[n] /\ IsSeq(frames)
  BY TopFrame DEF Inv, Shape
<1>2. /\ IsSeq(frames') /\ Len(frames') = n
      /\ \A i \in 1..(n - 1) : frames'[i] = frames[i]
      /\ frames'[n] = g
  <2>1. frames' = [frames EXCEPT ![Len(frames)] = g]
    BY Zenon DEF Becomes
  <2>2. IsSeq(frames) /\ Len(frames) > 0
    BY <1>1
  <2> QED BY <2>1, <2>2, Replaced, Zenon
<1>3. DOMAIN frames' = 1..n
  BY <1>2, SeqShape
<1>4. \A i \in 1..n : i = n \/ (i \in 1..(n - 1) /\ frames'[i] = frames[i])
  <2>1. \A i \in 1..n : i = n \/ i \in 1..(n - 1)
    <3> HIDE DEF n
    <3> QED BY <1>1
  <2> QED BY <1>2, <2>1, Zenon
<1>5. \A i \in 1..n : /\ frames'[i].def = frames[i].def
                      /\ frames'[i].serial = frames[i].serial
                      /\ frames'[i].closure = frames[i].closure
  BY <1>1, <1>2, <1>4, Zenon
<1>6. \A i \in 1..n : frames'[i] = frames[i] \/ (i = n /\ frames'[i] = g)
  BY <1>2, <1>4, Zenon
<1> HIDE DEF n
<1>7. ASSUME NEW c, Written(c) PROVE Written(c)'
  <2>1. frame_serial' = frame_serial /\ code' = code /\ Len(frames') = n /\ n = Len(frames)
    BY <1>2 DEF n
  <2> QED BY <1>5, <1>7, <2>1, Zenon DEF Written
<1>8. Shape'
  <2>1. /\ program' \in Programs /\ code' = CodeOf(program') /\ Len(frames') = n
        /\ \A i \in 1..n : IsFrame(frames[i]) /\ Len(frames[i].handlers) <= MaxHandlers
    BY <1>2 DEF Inv, Shape, n
  <2>2. \A i \in 1..n : IsFrame(frames'[i]) /\ Len(frames'[i].handlers) <= MaxHandlers
    BY <1>6, <2>1, Zenon
  <2>3. (status = Running)'
    BY DEF Running, Status
  <2> QED BY <1>2, <2>1, <2>2, <2>3, Zenon DEF Shape
<1>9. Serials'
  <2>1. Len(frames') = n /\ n = Len(frames) /\ frame_serial' = frame_serial
    BY <1>2 DEF n
  <2> QED BY <1>5, <2>1, Zenon DEF Inv, Serials
<1>10. Closures'
  <2>1. Len(frames') = n /\ n = Len(frames)
    BY <1>2 DEF n
  <2>2. \A i \in 1..n : Written(frames[i].closure) /\ Written(frames[i].block_register)
    BY <2>1, Zenon DEF Inv, Closures
  <2>3. \A i \in 1..n : Written(frames'[i].closure) /\ Written(frames'[i].block_register)
    BY <1>5, <1>6, <2>2, Zenon
  <2>4. ASSUME NEW i \in 1..n PROVE (Written(frames[i].closure) /\ Written(frames[i].block_register))'
    <3>1. PICK c : c = frames'[i].closure
      OBVIOUS
    <3>2. PICK d : d = frames'[i].block_register
      OBVIOUS
    <3>3. Written(c)' /\ Written(d)'
      BY <1>7, <2>3, <3>1, <3>2, Zenon
    <3> QED BY <3>1, <3>2, <3>3, Zenon DEF Written
  <2>5. Written(block)'
    <3>1. PICK c : c = block'
      OBVIOUS
    <3>2. Written(c)'
      BY <1>7, <3>1, Zenon
    <3> QED BY <3>1, <3>2, Zenon DEF Written
  <2> QED BY <2>1, <2>4, <2>5, Zenon DEF Closures
<1>11. ExitsHaveAPlace'
  <2>1. ASSUME NEW e, NEW m \in 0..(n - 1), HasAPlace(e, m) PROVE HasAPlace(e, m)'
    <3>1. \A j \in 1..m : frames'[j] = frames[j]
      BY <1>1, <1>2, <2>1 DEF n
    <3> QED BY <2>1, <3>1, Zenon DEF HasAPlace
  <2>2. ASSUME NEW i \in 1..n, NEW p, p \in Waiting(frames'[i]), p.kind = "NONLOCAL"
        PROVE  HasAPlace(p.value, i - 1)'
    <3>1. HasAPlace(p.value, i - 1)
      <4>1. CASE frames'[i] = frames[i]
        BY <2>2, <4>1, Zenon DEF Inv, ExitsHaveAPlace, n
      <4>2. CASE i = n /\ frames'[i] = g
        BY <2>2, <4>2, Zenon DEF Placed, n
      <4> QED BY <1>6, <4>1, <4>2
    <3>2. i - 1 \in 0..(n - 1)
      BY <1>1, <2>2 DEF n
    <3> QED BY <2>1, <3>1, <3>2
  <2>3. Len(frames') = n /\ status'.kind # "NONLOCAL_EXIT"
    BY <1>2 DEF Running, Status, n
  <2> QED BY <2>2, <2>3, Zenon DEF ExitsHaveAPlace, Waiting
<1>12. EnsuresKept
  <2>1. ASSUME NEW i \in 1..n PROVE HandlersKept(frames[i], frames'[i])
    BY <1>1, <1>6, KeptBySelf, Zenon DEF n
  <2>2. DOMAIN frames = 1..n
    BY <1>1 DEF n
  <2> QED BY <1>3, <2>1, <2>2, Zenon DEF EnsuresKept
<1> QED BY <1>8, <1>9, <1>10, <1>11, <1>12 DEF Inv

\* The top frame is left: what waits below, or travels on, has its place below.
LEMMA FrameLeft ==
  ASSUME Inv, frames # <<>>, frames' = SubSeq(frames, 1, Len(frames) - 1),
         status'.kind \in Seen \cup Unseen,
         Ensures(Frame) = {} \/ status'.kind \in Unseen,
         status'.kind = "NONLOCAL_EXIT" => HasAPlace(machine'.nonlocal, Len(frames) - 1),
         IsRecord(machine', MachineFields),
         UNCHANGED <<program, code, frame_serial, block>>
  PROVE  Inv' /\ EnsuresKept
<1> DEFINE n == Len(frames)
<1>1. /\ n \in Nat /\ n > 0 /\ DOMAIN frames = 1..n /\ n \in 1..n
      /\ Frame = frames[n] /\ IsSeq(frames)
  BY TopFrame DEF Inv, Shape
<1>2. n - 1 \in 0..n /\ (\A i \in 1..(n - 1) : i \in 1..n) /\ \A i \in 1..n : i = n \/ i \in 1..(n - 1)
  <2> HIDE DEF n
  <2> QED BY <1>1
<1>3. /\ IsSeq(frames') /\ Len(frames') = n - 1
      /\ \A i \in 1..(n - 1) : frames'[i] = frames[i]
  BY <1>1, <1>2, Cut, Zenon
<1>4. DOMAIN frames' = 1..(n - 1)
  BY <1>3, SeqShape
<1>5. /\ n = Len(frames)
      /\ code' = code /\ program' = program /\ frame_serial' = frame_serial /\ block' = block
  OBVIOUS
<1> HIDE DEF n
<1>6. ASSUME NEW c, Written(c) PROVE Written(c)'
  <2>1. /\ c.break_target \in 0..frame_serial
        /\ \A j \in 1..n : frames[j].serial = c.break_target =>
             code[frames[j].def][c.break_call_offset].op = "CALL"
    BY <1>5, <1>6, Zenon DEF Written
  <2>2. \A j \in 1..(n - 1) : frames'[j].serial = c.break_target =>
          code[frames'[j].def][c.break_call_offset].op = "CALL"
    BY <1>2, <1>3, <2>1, Zenon
  <2> QED BY <1>3, <1>5, <2>1, <2>2, Zenon DEF Written
<1>7. Shape'
  <2>1. /\ program' \in Programs /\ code' = CodeOf(program')
        /\ \A i \in 1..n : IsFrame(frames[i]) /\ Len(frames[i].handlers) <= MaxHandlers
    BY <1>5, Zenon DEF Inv, Shape
  <2>2. \A i \in 1..(n - 1) : IsFrame(frames'[i]) /\ Len(frames'[i].handlers) <= MaxHandlers
    BY <1>2, <1>3, <2>1, Zenon
  <2> QED BY <1>3, <2>1, <2>2, Zenon DEF Shape
<1>8. Serials'
  <2>1. /\ frame_serial \in Nat
        /\ \A i \in 1..n : frames[i].serial \in 1..frame_serial
        /\ \A i, j \in 1..n : frames[i].serial = frames[j].serial => i = j
    BY <1>5, Zenon DEF Inv, Serials
  <2>2. /\ \A i \in 1..(n - 1) : frames'[i].serial \in 1..frame_serial
        /\ \A i, j \in 1..(n - 1) : frames'[i].serial = frames'[j].serial => i = j
    BY <1>2, <1>3, <2>1, Zenon
  <2> QED BY <1>3, <1>5, <2>1, <2>2, Zenon DEF Serials
<1>9. Closures'
  <2>1. ASSUME NEW i \in 1..(n - 1)
        PROVE  (Written(frames[i].closure) /\ Written(frames[i].block_register))'
    <3>1. PICK c : c = frames[i].closure
      OBVIOUS
    <3>2. PICK d : d = frames[i].block_register
      OBVIOUS
    <3>3. Written(c)' /\ Written(d)'
      BY <1>2, <1>5, <1>6, <3>1, <3>2, Zenon DEF Inv, Closures
    <3>4. c = frames'[i].closure /\ d = frames'[i].block_register
      BY <1>3, <3>1, <3>2, Zenon
    <3> QED BY <3>3, <3>4, Zenon DEF Written
  <2>2. Written(block)'
    <3>1. PICK c : c = block
      OBVIOUS
    <3>2. Written(c)'
      BY <1>6, <3>1, Zenon DEF Inv, Closures
    <3> QED BY <3>1, <3>2, Zenon DEF Written
  <2> QED BY <1>3, <2>1, <2>2, Zenon DEF Closures
<1>10. ExitsHaveAPlace'
  <2>1. ASSUME NEW e, NEW m \in 0..(n - 1), HasAPlace(e, m) PROVE HasAPlace(e, m)'
    <3>1. \A j \in 1..m : frames'[j] = frames[j]
      BY <1>1, <1>3, <1>5, <2>1
    <3>2. PICK j \in 1..m : /\ frames[j].serial = e.target
                            /\ e.is_break => /\ frames[j].ip = e.call
                                             /\ code[frames[j].def][frames[j].ip].op = "CALL"
      BY <2>1, Zenon DEF HasAPlace
    <3>3. frames'[j] = frames[j]
      BY <3>1, Zenon
    <3> QED BY <3>2, <3>3, Zenon DEF HasAPlace
  <2>2. ASSUME NEW i \in 1..(n - 1), NEW p, p \in Waiting(frames'[i]), p.kind = "NONLOCAL"
        PROVE  HasAPlace(p.value, i - 1)'
    <3>1. HasAPlace(p.value, i - 1)
      BY <1>2, <1>3, <1>5, <2>2, Zenon DEF Inv, ExitsHaveAPlace
    <3>2. i - 1 \in 0..(n - 1)
      BY <1>1, <1>5, <2>2
    <3> QED BY <2>1, <3>1, <3>2
  <2>3. ASSUME status'.kind = "NONLOCAL_EXIT" PROVE HasAPlace(machine.nonlocal, Len(frames))'
    <3>1. PICK e : e = machine'.nonlocal
      OBVIOUS
    <3>2. PICK m : m = n - 1
      OBVIOUS
    <3>3. HasAPlace(e, m) /\ m \in 0..(n - 1)
      <4>1. n - 1 \in 0..(n - 1)
        BY <1>1, <1>5
      <4> QED BY <1>5, <2>3, <3>1, <3>2, <4>1, Zenon
    <3>4. HasAPlace(e, m)'
      BY <2>1, <3>3
    <3>5. Len(frames') = m /\ e = machine'.nonlocal
      BY <1>3, <3>1, <3>2, Zenon
    <3> QED BY <3>4, <3>5, Zenon DEF HasAPlace
  <2> QED BY <1>3, <2>2, <2>3, Zenon DEF ExitsHaveAPlace, Waiting
<1>11. EnsuresKept
  <2>1. ASSUME NEW i \in 1..(n - 1) PROVE HandlersKept(frames[i], frames'[i])
    BY <1>3, KeptBySelf, Zenon
  <2>2. DOMAIN frames = 1..n /\ Frame = frames[n]
    BY <1>1, <1>5
  <2> QED BY <1>2, <1>4, <2>1, <2>2, Zenon DEF EnsuresKept
<1> QED BY <1>7, <1>8, <1>9, <1>10, <1>11 DEF Inv

\* Takes, the whole effect of an event, keeps the invariant and every clause.
LEMMA EventTaken ==
  ASSUME Inv, frames # <<>>, NEW r, NEW X, Handled(Frame, r, X), Takes(r),
         \A e \in X : HasAPlace(e, Len(frames) - 1),
         UNCHANGED <<program, code, frame_serial, block>>
  PROVE  Inv' /\ EnsuresKept
<1>1. /\ Len(frames) \in Nat /\ Len(frames) \in 1..Len(frames) /\ Frame = frames[Len(frames)]
      /\ IsFrame(Frame) /\ Len(Frame.handlers) <= MaxHandlers
  BY TopFrame DEF Inv
<1>2. CASE r.goes_on
  <2> DEFINE g == r.frame
  <2>1. /\ IsRecord(machine', MachineFields) /\ Becomes(g) /\ status' = Running
        /\ SameCall(Frame, g) /\ HandlersKept(Frame, g) /\ Len(g.handlers) <= Len(Frame.handlers)
        /\ \A p \in Waiting(g) : p.kind = "NONLOCAL" => p \in Waiting(Frame) \/ p.value \in X
    BY <1>2, Zenon DEF Handled, Takes
  <2>2. /\ IsFrame(g) /\ g.def = Frame.def /\ g.serial = Frame.serial /\ g.closure = Frame.closure
        /\ g.block_register = Frame.block_register
    BY <2>1, Zenon DEF SameCall
  <2>3. Placed(g, Len(frames) - 1)
    BY <1>1, <2>1, Zenon DEF Placed, Inv, ExitsHaveAPlace
  <2>4. Written(g.block_register) /\ Written(block')
    BY <1>1, <2>2, Zenon DEF Inv, Closures
  <2> HIDE DEF g
  <2>5. Len(g.handlers) <= MaxHandlers
    <3>1. Len(g.handlers) \in Nat /\ Len(Frame.handlers) \in Nat
      BY <1>1, <2>2, EnsuresAre
    <3> QED BY <1>1, <2>1, <3>1, MaxHandlersIsNat
  <2> QED BY <2>1, <2>2, <2>3, <2>4, <2>5, FrameChanged, Zenon
<1>3. CASE ~r.goes_on
  <2>1. /\ IsRecord(machine', MachineFields) /\ frames' = SubSeq(frames, 1, Len(frames) - 1)
        /\ status'.kind \in Seen \cup Unseen
        /\ Ensures(Frame) = {} \/ status'.kind \in Unseen
        /\ status'.kind = "NONLOCAL_EXIT" => machine'.nonlocal \in X
    BY <1>3, Zenon DEF Handled, Takes
  <2>2. status'.kind = "NONLOCAL_EXIT" => HasAPlace(machine'.nonlocal, Len(frames) - 1)
    BY <2>1, Zenon
  <2> QED BY <2>1, <2>2, FrameLeft, Zenon
<1> QED BY <1>2, <1>3

\* The same for a step that leaves the status and the machine alone.
LEMMA SameFrame ==
  ASSUME Inv, frames # <<>>, status = Running, NEW g, Handled(Frame, GoesOn(g, machine), {}),
         Becomes(g), UNCHANGED <<program, code, status, machine, frame_serial, block>>
  PROVE  Inv' /\ EnsuresKept
<1> DEFINE r == GoesOn(g, machine)
<1>1. r.goes_on = TRUE /\ r.frame = g /\ r.vm = machine
  BY DEF GoesOn
<1>2. status' = Running
  OBVIOUS
<1> HIDE DEF r
<1>3. Takes(r)
  BY <1>1, <1>2, Zenon DEF Takes
<1>4. Handled(Frame, r, {})
  BY DEF r
<1>5. PICK X : X = {}
  OBVIOUS
<1>6. Handled(Frame, r, X) /\ \A e \in X : HasAPlace(e, Len(frames) - 1)
  BY <1>4, <1>5
<1>7. UNCHANGED <<program, code, frame_serial, block>>
  OBVIOUS
<1> QED BY <1>3, <1>6, <1>7, EventTaken, Zenon

\* Calls: the new frame has a serial that no block and no waiting exit can mean,
\* and the frames below stay where their exits expect them.
LEMMA CallMade ==
  ASSUME Inv, frames # <<>>, status = Running, NEW def, NEW closure, Written(closure),
         Calls(def, closure), UNCHANGED <<program, code, status, machine, block>>
  PROVE  Inv' /\ EnsuresKept
<1> DEFINE n == Len(frames)
           g == NewFrame(def, closure, frame_serial + 1)
<1>1. n \in Nat /\ DOMAIN frames = 1..n /\ IsSeq(frames)
  BY TopFrame DEF Inv, Shape
<1>2. frames' = Append(frames, g) /\ frame_serial' = frame_serial + 1
  BY Zenon DEF Calls
<1>3. /\ IsFrame(g) /\ Len(g.handlers) = 0 /\ Waiting(g) = {PendingNone}
      /\ g.serial = frame_serial + 1 /\ g.closure = closure /\ g.block_register = NoClosure
  <2>1. /\ IsRecord(g, FrameFields) /\ g.handlers = <<>> /\ g.pending = PendingNone
        /\ g.serial = frame_serial + 1 /\ g.closure = closure /\ g.block_register = NoClosure
    BY DEF NewFrame, IsRecord, FrameFields
  <2> HIDE DEF g
  <2>2. IsSeq(<<>>) /\ DOMAIN <<>> = {} /\ Len(<<>>) = 0
    <3>1. <<>> \in Seq({})
      OBVIOUS
    <3> QED BY <3>1 DEF IsSeq
  <2>3. IsFrame(g)
    BY <2>1, <2>2, Zenon DEF IsFrame
  <2>4. Waiting(g) = {PendingNone}
    BY <2>1, <2>2 DEF Waiting
  <2> QED BY <2>1, <2>2, <2>3, <2>4
<1> HIDE DEF g
<1>4. /\ IsSeq(frames') /\ Len(frames') = n + 1
      /\ \A i \in 1..n : frames'[i] = frames[i]
      /\ frames'[n + 1] = g
  BY <1>1, <1>2, Pushed, Zenon
<1>5. DOMAIN frames' = 1..(n + 1)
  BY <1>4, SeqShape
<1>6. n = Len(frames)
  OBVIOUS
<1>7. /\ \A i \in 1..n : i \in 1..(n + 1) /\ i # n + 1
      /\ \A i \in 1..(n + 1) : i = n + 1 \/ i \in 1..n
      /\ n + 1 - 1 = n
  <2> HIDE DEF n
  <2> QED BY <1>1
<1> HIDE DEF n
<1>8. /\ frame_serial \in Nat /\ frame_serial' \in Nat
      /\ frame_serial + 1 \in 1..(frame_serial + 1)
      /\ \A s \in 1..frame_serial : s \in 1..(frame_serial + 1) /\ s # frame_serial + 1
      /\ \A s \in 0..frame_serial : s \in 0..(frame_serial + 1) /\ s # frame_serial + 1
  <2>1. frame_serial \in Nat
    BY DEF Inv, Serials
  <2> QED BY <1>2, <2>1
<1>9. ASSUME NEW c, Written(c) PROVE Written(c)'
  <2>1. c.break_target \in 0..(frame_serial + 1) /\ c.break_target # frame_serial + 1
    BY <1>8, <1>9, Zenon DEF Written
  <2>2. ASSUME NEW j \in 1..(n + 1), frames'[j].serial = c.break_target
        PROVE  code'[frames'[j].def][c.break_call_offset].op = "CALL"
    BY <1>3, <1>4, <1>6, <1>7, <1>9, <2>1, <2>2, Zenon DEF Written
  <2> QED BY <1>2, <1>4, <2>1, <2>2, Zenon DEF Written
<1>10. Written(NoClosure)
  <2>1. \A i \in 1..n : frames[i].serial # 0
    <3>1. \A i \in 1..n : frames[i].serial \in 1..frame_serial
      BY <1>6 DEF Inv, Serials
    <3>2. \A s \in 1..frame_serial : s # 0
      BY <1>8
    <3> QED BY <3>1, <3>2, Zenon
  <2>2. 0 \in 0..frame_serial /\ NoClosure.break_target = 0
    BY <1>8 DEF NoClosure
  <2> QED BY <1>6, <2>1, <2>2, Zenon DEF Written
<1>11. Shape'
  <2>1. /\ program' \in Programs /\ code' = CodeOf(program')
        /\ \A i \in 1..n : IsFrame(frames[i]) /\ Len(frames[i].handlers) <= MaxHandlers
    BY <1>6, Zenon DEF Inv, Shape
  <2>2. Len(g.handlers) <= MaxHandlers
    BY <1>3, MaxHandlersIsNat
  <2>3. \A i \in 1..(n + 1) : IsFrame(frames'[i]) /\ Len(frames'[i].handlers) <= MaxHandlers
    BY <1>3, <1>4, <1>7, <2>1, <2>2, Zenon
  <2>4. (status = Running)' /\ IsRecord(machine', MachineFields)
    BY DEF Running, Status, Inv, Shape
  <2> QED BY <1>4, <2>1, <2>3, <2>4, Zenon DEF Shape
<1>12. Serials'
  <2> DEFINE s == frame_serial + 1
  <2>4. /\ \A i \in 1..n : frames[i].serial \in 1..frame_serial
        /\ \A i, j \in 1..n : frames[i].serial = frames[j].serial => i = j
    BY <1>6, Zenon DEF Inv, Serials
  <2>5. s \in 1..s /\ g.serial = s /\ \A x \in 1..frame_serial : x \in 1..s /\ x # s
    BY <1>3, <1>8
  <2> HIDE DEF s
  <2>6. \A i \in 1..n : frames'[i].serial \in 1..s /\ frames'[i].serial # s
    BY <1>4, <2>4, <2>5, Zenon
  <2>1. \A i \in 1..(n + 1) : frames'[i].serial \in 1..(frame_serial + 1)
    <3>1. \A i \in 1..(n + 1) : frames'[i].serial \in 1..s
      BY <1>4, <1>7, <2>5, <2>6, Zenon
    <3> QED BY <3>1 DEF s
  <2>3. ASSUME NEW i \in 1..(n + 1), NEW j \in 1..(n + 1), frames'[i].serial = frames'[j].serial
        PROVE  i = j
    <3>1. CASE i \in 1..n /\ j \in 1..n
      BY <1>4, <2>3, <2>4, <3>1, Zenon
    <3>2. CASE i = n + 1 /\ j \in 1..n
      BY <1>4, <2>3, <2>5, <2>6, <3>2, Zenon
    <3>3. CASE i \in 1..n /\ j = n + 1
      BY <1>4, <2>3, <2>5, <2>6, <3>3, Zenon
    <3> QED BY <1>7, <3>1, <3>2, <3>3, Zenon
  <2> QED BY <1>2, <1>4, <1>8, <2>1, <2>3, Zenon DEF Serials
<1>13. Closures'
  <2>1. ASSUME NEW i \in 1..(n + 1)
        PROVE  (Written(frames[i].closure) /\ Written(frames[i].block_register))'
    <3>1. PICK c : c = frames'[i].closure
      OBVIOUS
    <3>2. PICK d : d = frames'[i].block_register
      OBVIOUS
    <3>3. Written(c) /\ Written(d)
      BY <1>3, <1>4, <1>6, <1>7, <1>10, <3>1, <3>2, Zenon DEF Inv, Closures
    <3>4. Written(c)' /\ Written(d)'
      BY <1>9, <3>3
    <3> QED BY <3>1, <3>2, <3>4, Zenon DEF Written
  <2>2. Written(block)'
    <3>1. PICK c : c = block
      OBVIOUS
    <3>2. Written(c)'
      BY <1>9, <3>1, Zenon DEF Inv, Closures
    <3> QED BY <3>1, <3>2, Zenon DEF Written
  <2> QED BY <1>4, <2>1, <2>2, Zenon DEF Closures
<1>14. ExitsHaveAPlace'
  <2>1. ASSUME NEW i \in 1..(n + 1), NEW p, p \in Waiting(frames'[i]), p.kind = "NONLOCAL"
        PROVE  HasAPlace(p.value, i - 1)'
    <3>1. i \in 1..n /\ frames'[i] = frames[i]
      <4>1. PendingNone.kind # "NONLOCAL"
        BY DEF PendingNone, Pending
      <4> QED BY <1>3, <1>4, <1>7, <2>1, <4>1, Zenon
    <3>2. HasAPlace(p.value, i - 1)
      BY <1>6, <2>1, <3>1, Zenon DEF Inv, ExitsHaveAPlace
    <3>3. \A j \in 1..(i - 1) : j \in 1..n
      BY <1>1, <1>6, <3>1
    <3>4. \A j \in 1..(i - 1) : frames'[j] = frames[j]
      BY <1>4, <3>3, Zenon
    <3> QED BY <3>2, <3>4, Zenon DEF HasAPlace
  <2>2. status'.kind # "NONLOCAL_EXIT"
    BY DEF Running, Status
  <2> QED BY <1>4, <2>1, <2>2, Zenon DEF ExitsHaveAPlace, Waiting
<1>15. EnsuresKept
  <2>1. ASSUME NEW i \in 1..n PROVE HandlersKept(frames[i], frames'[i])
    BY <1>4, KeptBySelf, Zenon
  <2>2. DOMAIN frames = 1..n
    BY <1>1, <1>6
  <2> QED BY <1>5, <1>7, <2>1, <2>2, Zenon DEF EnsuresKept
<1> QED BY <1>11, <1>12, <1>13, <1>14, <1>15 DEF Inv

(***************************************************************************)
(* The steps that do not look for a handler.                               *)
(***************************************************************************)

\* An instruction runs in the top frame, and only while no call returns.
LEMMA Started ==
  ASSUME NEW op, Executes(op)
  PROVE  /\ status = Running /\ frames # <<>> /\ Instruction.op = op
         /\ Frame.def \in DOMAIN code /\ Frame.ip \in DOMAIN code[Frame.def]
  BY Zenon DEF Executes

\* Moving the instruction pointer is no event to the handlers.
LEMMA Moved ==
  ASSUME NEW f, IsFrame(f), NEW ip, NEW vm, IsRecord(vm, MachineFields), NEW X
  PROVE  Handled(f, GoesOn([f EXCEPT !.ip = ip], vm), X)
<1> DEFINE g == [f EXCEPT !.ip = ip]
           r == GoesOn(g, vm)
<1>1. /\ IsRecord(g, FrameFields)
      /\ g.handlers = f.handlers /\ g.pending = f.pending
      /\ g.def = f.def /\ g.serial = f.serial /\ g.closure = f.closure
      /\ g.block_register = f.block_register
  BY DEF IsFrame, IsRecord, FrameFields
<1>2. r.goes_on = TRUE /\ r.frame = g /\ r.vm = vm
  BY DEF GoesOn
<1> HIDE DEF g, r
<1>3. SameCall(f, g) /\ HandlersKept(f, g) /\ Waiting(g) = Waiting(f)
  BY <1>1, Zenon DEF SameCall, IsFrame, HandlersKept, Waiting
<1>4. Len(g.handlers) <= Len(f.handlers)
  BY <1>1, EnsuresAre
<1>5. Handled(f, r, X)
  BY <1>2, <1>3, <1>4, Zenon DEF Handled
<1> QED BY <1>5 DEF g, r

\* A step that only moves the instruction pointer.
LEMMA MovedTo ==
  ASSUME Inv, frames # <<>>, status = Running, NEW ip, Becomes([Frame EXCEPT !.ip = ip]),
         UNCHANGED <<program, code, status, machine, frame_serial, block>>
  PROVE  Inv' /\ EnsuresKept
<1>1. IsFrame(Frame) /\ IsRecord(machine, MachineFields)
  BY TopFrame DEF Inv, Shape
<1> DEFINE g == [Frame EXCEPT !.ip = ip]
<1>2. Handled(Frame, GoesOn(g, machine), {})
  BY <1>1, Moved
<1>3. Becomes(g)
  OBVIOUS
<1> HIDE DEF g
<1> QED BY <1>2, <1>3, SameFrame, Zenon

\* A step to the next instruction.
LEMMA MovedOn ==
  ASSUME Inv, frames # <<>>, status = Running, Becomes(Next_ip),
         UNCHANGED <<program, code, status, machine, frame_serial, block>>
  PROVE  Inv' /\ EnsuresKept
<1>1. PICK ip : ip = Frame.ip + 1
  OBVIOUS
<1>2. Becomes([Frame EXCEPT !.ip = ip])
  BY <1>1 DEF Next_ip
<1> QED BY <1>2, MovedTo, Zenon

\* A statement happens.
LEMMA OpStep == ASSUME Inv, Op PROVE Inv' /\ EnsuresKept
<1>1. Executes("OP") /\ Becomes(Next_ip)
  BY Zenon DEF Op
<1>2. UNCHANGED <<program, code, status, machine, frame_serial, block>>
  BY DEF Op
<1> QED BY <1>1, <1>2, Started, MovedOn, Zenon

\* A condition holds, or jumps.
LEMMA ConditionStep == ASSUME Inv, Condition PROVE Inv' /\ EnsuresKept
<1>1. Executes("CONDITION") /\ (Becomes(Next_ip) \/ Becomes([Frame EXCEPT !.ip = Instruction.target]))
  BY Zenon DEF Condition
<1>2. UNCHANGED <<program, code, status, machine, frame_serial, block>>
  BY DEF Condition
<1> QED BY <1>1, <1>2, Started, MovedOn, MovedTo, Zenon

\* A jump within one begin level.
LEMMA JumpStep == ASSUME Inv, Jump PROVE Inv' /\ EnsuresKept
<1>1. Executes("JUMP") /\ Becomes([Frame EXCEPT !.ip = Instruction.target])
  BY Zenon DEF Jump
<1>2. UNCHANGED <<program, code, status, machine, frame_serial, block>>
  BY DEF Jump
<1> QED BY <1>1, <1>2, Started, MovedTo, Zenon

\* A rescue clause looks at the class of the exception.
LEMMA UnlessTypeStep == ASSUME Inv, UnlessType PROVE Inv' /\ EnsuresKept
<1>1. Executes("UNLESS_TYPE") /\ (Becomes(Next_ip) \/ Becomes([Frame EXCEPT !.ip = Instruction.target]))
  BY Zenon DEF UnlessType
<1>2. UNCHANGED <<program, code, status, machine, frame_serial, block>>
  BY DEF UnlessType
<1> QED BY <1>1, <1>2, Started, MovedOn, MovedTo, Zenon

\* A block is written: the next instruction is the call it is for, in the frame
\* that the block names by its serial.
LEMMA ClosureStep == ASSUME Inv, Closure PROVE Inv' /\ EnsuresKept
<1> DEFINE created == [break_target |-> Frame.serial, return_target |-> Frame.home,
                       break_call_offset |-> Frame.ip + 1, def |-> Instruction.arg]
           g == [Next_ip EXCEPT !.block_register = created]
<1>1. /\ UNCHANGED <<program, code, frame_serial>>
      /\ status' = status /\ machine' = machine
  BY DEF Closure
<1>2. /\ frames # <<>> /\ status = Running /\ Instruction.op = "CLOSURE"
      /\ Frame.def \in DOMAIN code /\ Frame.ip \in DOMAIN code[Frame.def]
  BY Started, Zenon DEF Closure
<1>3. Becomes(g) /\ block' \in {created, block}
  BY DEF Closure
<1>4. /\ Len(frames) \in 1..Len(frames) /\ Frame = frames[Len(frames)]
      /\ IsFrame(Frame) /\ Len(Frame.handlers) <= MaxHandlers
  BY <1>2, TopFrame, Zenon DEF Inv
<1>5. /\ IsRecord(g, FrameFields)
      /\ g.handlers = Frame.handlers /\ g.pending = Frame.pending
      /\ g.def = Frame.def /\ g.serial = Frame.serial /\ g.closure = Frame.closure
      /\ g.block_register = created
  BY <1>4, Zenon DEF Next_ip, IsFrame, IsRecord, FrameFields
<1>6. created.break_target = Frame.serial /\ created.break_call_offset = Frame.ip + 1
  OBVIOUS
<1> HIDE DEF g, created
<1>7. code[Frame.def][Frame.ip + 1].op = "CALL"
  <2>1. program \in Programs /\ code = CodeOf(program)
    BY DEF Inv, Shape
  <2>2. code[Frame.def][Frame.ip].op = "CLOSURE"
    BY <1>2 DEF Instruction
  <2> QED BY <1>2, <2>1, <2>2, BlocksHaveCalls, Zenon
<1>8. Written(created)
  <2>1. /\ frame_serial \in Nat /\ Frame.serial \in 1..frame_serial
        /\ \A j \in 1..Len(frames) : frames[j].serial = Frame.serial => j = Len(frames)
    BY <1>4, Zenon DEF Inv, Serials
  <2>2. Frame.serial \in 0..frame_serial
    BY <2>1
  <2>3. \A j \in 1..Len(frames) : frames[j].serial = created.break_target =>
          code[frames[j].def][created.break_call_offset].op = "CALL"
    BY <1>4, <1>6, <1>7, <2>1, Zenon
  <2> QED BY <1>6, <2>2, <2>3, Zenon DEF Written
<1>9. Written(g.block_register) /\ Written(block')
  <2>1. Written(block)
    BY Zenon DEF Inv, Closures
  <2> QED BY <1>3, <1>5, <1>8, <2>1, Zenon
<1>10. IsFrame(g) /\ HandlersKept(Frame, g) /\ Len(g.handlers) <= MaxHandlers
  BY <1>4, <1>5, Zenon DEF IsFrame, HandlersKept
<1>11. Placed(g, Len(frames) - 1)
  <2>1. Waiting(g) = Waiting(Frame)
    BY <1>5, Zenon DEF Waiting
  <2> QED BY <1>4, <2>1, Zenon DEF Placed, Inv, ExitsHaveAPlace
<1>12. status' = Running /\ IsRecord(machine', MachineFields)
  BY <1>1, <1>2 DEF Inv, Shape
<1> QED BY <1>1, <1>2, <1>3, <1>5, <1>9, <1>10, <1>11, <1>12, FrameChanged, Zenon

\* A call, with the block that was written for it.
LEMMA CallStep == ASSUME Inv, Call PROVE Inv' /\ EnsuresKept
<1>1. UNCHANGED <<program, code, status, machine, block>> /\ Calls(Instruction.arg, Frame.block_register)
  BY DEF Call
<1>2. frames # <<>> /\ status = Running
  BY Started, Zenon DEF Call
<1>3. Len(frames) \in 1..Len(frames) /\ Frame = frames[Len(frames)]
  BY <1>2, TopFrame, Zenon DEF Inv
<1>4. Written(Frame.block_register)
  BY <1>3, Zenon DEF Inv, Closures
<1> QED BY <1>1, <1>2, <1>4, CallMade, Zenon

\* A yield or a late call, of a block that was written before.
LEMMA CallClosureStep == ASSUME Inv, CallClosure PROVE Inv' /\ EnsuresKept
<1> DEFINE closure == IF Frame.closure = NoClosure THEN block ELSE Frame.closure
<1>1. UNCHANGED <<program, code, status, machine, block>>
  BY DEF CallClosure
<1>2. frames # <<>> /\ status = Running
  BY Started, Zenon DEF CallClosure
<1>3. Len(frames) \in 1..Len(frames) /\ Frame = frames[Len(frames)]
  BY <1>2, TopFrame, Zenon DEF Inv
<1>4. Written(closure)
  BY <1>3, Zenon DEF Inv, Closures
<1>5. (Becomes(Next_ip) /\ UNCHANGED frame_serial) \/ Calls(closure.def, closure)
  BY Zenon DEF CallClosure
<1> HIDE DEF closure
<1>6. CASE Becomes(Next_ip) /\ UNCHANGED frame_serial
  <2>1. UNCHANGED <<program, code, status, machine, frame_serial, block>>
    BY <1>1, <1>6
  <2> QED BY <1>2, <1>6, <2>1, MovedOn, Zenon
<1>7. CASE Calls(closure.def, closure)
  BY <1>1, <1>2, <1>4, <1>7, CallMade, Zenon
<1> QED BY <1>5, <1>6, <1>7

(***************************************************************************)
(* One frame: what pushing, entering and leaving a handler does.           *)
(***************************************************************************)

\* A pushed handler leaves the others alone, and nothing waits in it.
LEMMA PushedOn ==
  ASSUME NEW f, IsFrame(f), NEW kind, NEW pushed
  PROVE  LET g == Push(f, kind, pushed) IN
         /\ SameCall(f, g) /\ HandlersKept(f, g)
         /\ Len(g.handlers) = Len(f.handlers) + 1
         /\ Waiting(g) \subseteq Waiting(f) \cup {PendingNone}
<1> DEFINE top == Len(f.handlers)
           h == [kind |-> kind, target |-> pushed.target, arg |-> pushed.arg, saved_pending |-> PendingNone]
           g == Push(f, kind, pushed)
<1>1. top \in Nat /\ DOMAIN f.handlers = 1..top /\ IsSeq(f.handlers)
  BY SeqShape DEF IsFrame
<1>2. IsRecord(h, HandlerFields) /\ h.saved_pending = PendingNone
  BY DEF IsRecord, HandlerFields
<1>3. /\ IsRecord(g, FrameFields)
      /\ g.handlers = Append(f.handlers, h) /\ g.pending = f.pending
      /\ g.def = f.def /\ g.serial = f.serial /\ g.closure = f.closure
      /\ g.block_register = f.block_register
  BY Zenon DEF Push, IsFrame, IsRecord, FrameFields
<1> HIDE DEF g, h
<1>4. /\ IsSeq(g.handlers) /\ Len(g.handlers) = top + 1
      /\ \A n \in 1..top : g.handlers[n] = f.handlers[n]
      /\ g.handlers[top + 1] = h
  BY <1>1, <1>3, Pushed
<1>5. DOMAIN g.handlers = 1..(top + 1)
  BY <1>4, SeqShape
<1>6. (\A n \in 1..top : n \in 1..(top + 1)) /\ \A n \in 1..(top + 1) : n \in 1..top \/ n = top + 1
  <2> HIDE DEF top
  <2> QED BY <1>1
<1>7. SameCall(f, g)
  <2>1. \A n \in 1..(top + 1) : IsRecord(g.handlers[n], HandlerFields)
    BY <1>1, <1>2, <1>4, <1>6, Zenon DEF IsFrame
  <2> QED BY <1>3, <1>4, <1>5, <2>1, Zenon DEF SameCall, IsFrame
<1>8. HandlersKept(f, g)
  BY <1>1, <1>4, <1>5, <1>6, Zenon DEF HandlersKept
<1>9. Waiting(g) \subseteq Waiting(f) \cup {PendingNone}
  BY <1>1, <1>2, <1>3, <1>4, <1>5, <1>6 DEF Waiting
<1> QED BY <1>4, <1>7, <1>8, <1>9 DEF g

\* enter_ensure: the innermost handler becomes active and keeps what was pending;
\* the only new continuation is the one it is given.
LEMMA EnterIs ==
  ASSUME NEW f, IsFrame(f), Len(f.handlers) > 0, NEW next
  PROVE  LET g == enter_ensure(f, next) IN
         /\ SameCall(f, g)
         /\ Len(g.handlers) = Len(f.handlers)
         /\ \A n \in 1..(Len(f.handlers) - 1) : g.handlers[n] = f.handlers[n]
         /\ g.handlers[Len(f.handlers)].kind = "ACTIVE_ENSURE"
         /\ g.ip = f.handlers[Len(f.handlers)].target
         /\ Waiting(g) \subseteq Waiting(f) \cup {next}
<1> DEFINE top == Len(f.handlers)
           h == [f.handlers[top] EXCEPT !.kind = "ACTIVE_ENSURE", !.saved_pending = f.pending]
           g == enter_ensure(f, next)
<1>1. top \in Nat /\ DOMAIN f.handlers = 1..top /\ top \in 1..top
  BY SeqShape DEF IsFrame
<1>2. IsRecord(h, HandlerFields) /\ h.kind = "ACTIVE_ENSURE" /\ h.saved_pending = f.pending
  BY <1>1, Zenon DEF IsFrame, IsRecord, HandlerFields
<1>3. /\ IsRecord(g, FrameFields)
      /\ g.handlers = [f.handlers EXCEPT ![top] = h] /\ g.pending = next
      /\ g.ip = f.handlers[top].target
      /\ g.def = f.def /\ g.serial = f.serial /\ g.closure = f.closure
      /\ g.block_register = f.block_register
  BY Zenon DEF enter_ensure, IsFrame, IsRecord, FrameFields, Top
<1> HIDE DEF g, h
<1>4. /\ IsSeq(g.handlers) /\ Len(g.handlers) = top
      /\ \A n \in 1..(top - 1) : g.handlers[n] = f.handlers[n]
      /\ g.handlers[top] = h
  BY <1>3, Replaced DEF IsFrame
<1>5. DOMAIN g.handlers = 1..top
  BY <1>4, SeqShape
<1>6. \A n \in 1..top : n \in 1..(top - 1) \/ n = top
  BY <1>1
<1>7. Waiting(g) \subseteq Waiting(f) \cup {next}
  BY <1>1, <1>2, <1>3, <1>4, <1>5, <1>6 DEF Waiting
<1>8. SameCall(f, g)
  BY <1>1, <1>2, <1>3, <1>4, <1>5, <1>6, Zenon DEF SameCall, IsFrame
<1> QED BY <1>2, <1>3, <1>4, <1>7, <1>8 DEF g

\* A frame may ignore an event.
LEMMA Stays ==
  ASSUME NEW f, IsFrame(f), NEW vm, IsRecord(vm, MachineFields), NEW X
  PROVE  Handled(f, GoesOn(f, vm), X)
<1> DEFINE r == GoesOn(f, vm)
<1>1. r.goes_on = TRUE /\ r.frame = f /\ r.vm = vm
  BY DEF GoesOn
<1>2. SameCall(f, f) /\ HandlersKept(f, f)
  BY KeptBySelf, Zenon DEF SameCall
<1>3. Len(f.handlers) <= Len(f.handlers)
  BY EnsuresAre
<1> HIDE DEF r
<1>4. Handled(f, r, X)
  BY <1>1, <1>2, <1>3, Zenon DEF Handled
<1> QED BY <1>4 DEF r

\* The instruction pointer has no part in what a frame makes of an event.
LEMMA ThroughMove ==
  ASSUME NEW f, IsFrame(f), NEW ip, NEW r, NEW X, Handled([f EXCEPT !.ip = ip], r, X)
  PROVE  Handled(f, r, X)
<1> DEFINE g == [f EXCEPT !.ip = ip]
<1>1. /\ g.handlers = f.handlers /\ g.pending = f.pending
      /\ g.def = f.def /\ g.serial = f.serial /\ g.closure = f.closure
      /\ g.block_register = f.block_register
  BY DEF IsFrame, IsRecord, FrameFields
<1>2. Handled(g, r, X)
  OBVIOUS
<1> HIDE DEF g
<1>3. Waiting(g) = Waiting(f) /\ Ensures(g) = Ensures(f)
  BY <1>1 DEF Waiting, Ensures
<1>4. r.goes_on => SameCall(f, r.frame) /\ HandlersKept(f, r.frame)
  <2>1. ASSUME NEW h, SameCall(g, h), HandlersKept(g, h) PROVE SameCall(f, h) /\ HandlersKept(f, h)
    <3>1. SameCall(f, h)
      BY <1>1, <2>1, Zenon DEF SameCall
    <3>2. HandlersKept(f, h)
      BY <1>1, <2>1, Zenon DEF HandlersKept
    <3> QED BY <3>1, <3>2
  <2> QED BY <1>2, <2>1, Zenon DEF Handled
<1> QED BY <1>1, <1>2, <1>3, <1>4, Zenon DEF Handled

\* TopHandler is the kind of the innermost handler.
LEMMA TopHandlerIs ==
  ASSUME IsFrame(Frame), TopHandler # "none"
  PROVE  /\ Len(Frame.handlers) \in Nat /\ Len(Frame.handlers) > 0
         /\ Len(Frame.handlers) \in 1..Len(Frame.handlers)
         /\ DOMAIN Frame.handlers = 1..Len(Frame.handlers)
         /\ Frame.handlers[Len(Frame.handlers)].kind = TopHandler
<1>1. Frame.handlers # <<>>
  BY DEF TopHandler
<1>2. PICK S : Frame.handlers \in Seq(S)
  BY DEF IsFrame, IsSeq
<1>3. Len(Frame.handlers) \in Nat /\ Len(Frame.handlers) > 0 /\ DOMAIN Frame.handlers = 1..Len(Frame.handlers)
  BY <1>1, <1>2
<1>4. TopHandler = Frame.handlers[Len(Frame.handlers)].kind
  BY <1>1, Zenon DEF TopHandler, Top
<1> QED BY <1>3, <1>4

\* A frame is left with a status: right when it has no clause to run, or when the
\* status is one that no handler sees.
LEMMA LeftAtOnce ==
  ASSUME NEW f, NEW vm, IsRecord(vm, MachineFields), NEW failure, NEW X,
         failure.kind \in Seen \cup Unseen, failure.kind # "NONLOCAL_EXIT",
         Ensures(f) = {} \/ failure.kind \in Unseen
  PROVE  /\ Handled(f, IsLeft(failure, vm), X)
         /\ Handled(f, IsLeft(failure, RecordError(failure, vm)), X)
<1>1. ASSUME NEW v, IsRecord(v, MachineFields) PROVE Handled(f, IsLeft(failure, v), X)
  <2>1. /\ IsLeft(failure, v).goes_on = FALSE /\ IsLeft(failure, v).vm = v
        /\ IsLeft(failure, v).status = failure
    BY DEF IsLeft
  <2> QED BY <1>1, <2>1, Zenon DEF Handled
<1>2. IsRecord(RecordError(failure, vm), MachineFields)
  BY DEF RecordError, IsRecord, MachineFields
<1> QED BY <1>1, <1>2

\* INVALID_BYTECODE is no exit.
LEMMA InvalidIs == Invalid.kind \in Unseen \cup {"RUNTIME_ERROR", "NONLOCAL_EXIT"} /\ Invalid.kind # "NONLOCAL_EXIT"
  BY DEF Invalid, Status, Unseen

(***************************************************************************)
(* The search for a handler.                                               *)
(***************************************************************************)

INSTANCE WellFoundedInduction

\* Every nonempty set of natural numbers has a least element.
LEMMA Least == ASSUME NEW T \in SUBSET Nat, T # {} PROVE \E x \in T : \A y \in T : x <= y
<1>1. PICK x \in T : \A y \in T : ~(<<y, x>> \in OpToRel(<, Nat))
  BY NatLessThanWellFounded, WFMin, Zenon
<1>2. \A y \in T : ~(y < x)
  BY <1>1, Zenon DEF OpToRel
<1> QED BY <1>2

\* Innermost is the greatest of some handlers, and 0 when there are none.
LEMMA InnermostIs ==
  ASSUME NEW n \in Nat, NEW H \in SUBSET (0..n)
  PROVE  /\ Innermost(H) \in 0..n
         /\ Innermost(H) # 0 => Innermost(H) \in H
         /\ \A k \in H : k <= Innermost(H)
<1> DEFINE T == {n - k : k \in H \cup {0}}
<1>1. T \in SUBSET Nat /\ n - 0 \in T
  OBVIOUS
<1>2. PICK x \in T : \A y \in T : x <= y
  BY <1>1, Least, Zenon
<1>3. PICK m \in H \cup {0} : x = n - m
  OBVIOUS
<1>4. \A k \in H \cup {0} : k <= m
  <2> TAKE k \in H \cup {0}
  <2>1. n - k \in T
    OBVIOUS
  <2>2. n - m <= n - k
    BY <1>2, <1>3, <2>1
  <2>3. k \in Int /\ m \in Int
    OBVIOUS
  <2> QED BY <2>2, <2>3
<1>5. Innermost(H) \in H \cup {0} /\ \A k \in H : k <= Innermost(H)
  BY <1>4, Zenon DEF Innermost
<1>6. H \cup {0} \subseteq 0..n
  OBVIOUS
<1> HIDE DEF T
<1> QED BY <1>5, <1>6, Zenon

\* Outermost is one of the handlers it is given.
LEMMA LeastOf ==
  ASSUME NEW n \in Nat, NEW H \in SUBSET (1..n), H # {}
  PROVE  Outermost(H) \in H
<1>1. PICK x \in H : \A y \in H : x <= y
  BY Least
<1> QED BY <1>1, Zenon DEF Outermost

\* Unwound leaves the first k handlers as they are, and what it makes pending
\* was pending or kept in the frame.
LEMMA UnwoundIs ==
  ASSUME NEW f, IsFrame(f), NEW k \in 0..Len(f.handlers)
  PROVE  /\ SameCall(f, Unwound(f, k))
         /\ Len(Unwound(f, k).handlers) = k
         /\ \A n \in 1..k : Unwound(f, k).handlers[n] = f.handlers[n]
         /\ Waiting(Unwound(f, k)) \subseteq Waiting(f)
<1> DEFINE active == {n \in (k + 1)..Len(f.handlers) : f.handlers[n].kind = "ACTIVE_ENSURE"}
           pending == IF active = {} THEN f.pending ELSE f.handlers[Outermost(active)].saved_pending
           g == Unwound(f, k)
<1>1. Len(f.handlers) \in Nat /\ DOMAIN f.handlers = 1..Len(f.handlers)
  BY SeqShape DEF IsFrame
<1>2. /\ IsRecord(g, FrameFields)
      /\ g.handlers = SubSeq(f.handlers, 1, k) /\ g.pending = pending
      /\ g.def = f.def /\ g.serial = f.serial /\ g.closure = f.closure
      /\ g.block_register = f.block_register
  BY Zenon DEF Unwound, IsFrame, IsRecord, FrameFields
<1> HIDE DEF g
<1>3. /\ IsSeq(g.handlers) /\ Len(g.handlers) = k
      /\ \A n \in 1..k : g.handlers[n] = f.handlers[n]
  BY <1>2, Cut DEF IsFrame
<1>4. DOMAIN g.handlers = 1..k
  BY <1>3, SeqShape
<1>5. pending \in Waiting(f)
  <2>1. CASE active = {}
    BY <2>1 DEF Waiting
  <2>2. CASE active # {}
    <3>1. active \in SUBSET (1..Len(f.handlers))
      BY <1>1
    <3>2. Outermost(active) \in active
      BY <1>1, <2>2, <3>1, LeastOf, Zenon
    <3> QED BY <1>1, <2>2, <3>1, <3>2, Zenon DEF Waiting
  <2> QED BY <2>1, <2>2
<1> HIDE DEF active, pending
<1>6. \A n \in 1..k : n \in 1..Len(f.handlers)
  BY <1>1
<1>7. Waiting(g) \subseteq Waiting(f)
  BY <1>1, <1>2, <1>3, <1>4, <1>5, <1>6 DEF Waiting
<1>8. SameCall(f, g)
  BY <1>1, <1>2, <1>3, <1>4, <1>6 DEF SameCall, IsFrame
<1> QED BY <1>3, <1>7, <1>8 DEF g

\* Handlers above all the clauses that have not started may be taken off first:
\* what the smaller frame makes of the event is right for the larger one.
LEMMA ThroughUnwound ==
  ASSUME NEW f, IsFrame(f), NEW k \in 0..Len(f.handlers), \A n \in Ensures(f) : n <= k,
         NEW r, NEW X, Handled(Unwound(f, k), r, X)
  PROVE  Handled(f, r, X)
<1> DEFINE g == Unwound(f, k)
<1>1. /\ SameCall(f, g) /\ Len(g.handlers) = k
      /\ \A n \in 1..k : g.handlers[n] = f.handlers[n]
      /\ Waiting(g) \subseteq Waiting(f)
  BY UnwoundIs
<1> HIDE DEF g
<1>2. /\ Len(f.handlers) \in Nat /\ DOMAIN f.handlers = 1..Len(f.handlers)
      /\ DOMAIN g.handlers = 1..k
  BY <1>1, EnsuresAre DEF SameCall
<1>3. \A n \in Ensures(f) : n \in Ensures(g)
  BY <1>1, <1>2 DEF Ensures
<1>4. ASSUME NEW h, SameCall(g, h), HandlersKept(g, h), Len(h.handlers) <= k
      PROVE  SameCall(f, h) /\ HandlersKept(f, h) /\ Len(h.handlers) <= Len(f.handlers)
  <2>1. SameCall(f, h)
    BY <1>1, <1>4, Zenon DEF SameCall
  <2>2. DOMAIN h.handlers = 1..Len(h.handlers) /\ Len(h.handlers) \in Nat
    BY <1>4, SeqShape DEF SameCall, IsFrame
  <2>3. Len(h.handlers) <= Len(f.handlers)
    BY <1>2, <1>4, <2>2
  <2>4. ASSUME NEW n \in DOMAIN f.handlers
        PROVE  /\ f.handlers[n].kind = "ENSURE" =>
                    /\ n \in DOMAIN h.handlers
                    /\ \/ h.handlers[n] = f.handlers[n]
                       \/ h.handlers[n].kind = "ACTIVE_ENSURE" /\ h.ip = f.handlers[n].target
               /\ f.handlers[n].kind = "ACTIVE_ENSURE" /\ n \in DOMAIN h.handlers =>
                    h.handlers[n] = f.handlers[n]
    <3>1. CASE n \in 1..k
      BY <1>1, <1>2, <1>4, <3>1, Zenon DEF HandlersKept
    <3>2. CASE n \notin 1..k
      <4>1. n \notin Ensures(f) /\ n \notin DOMAIN h.handlers
        BY <1>2, <1>4, <2>2, <3>2
      <4> QED BY <2>4, <4>1 DEF Ensures
    <3> QED BY <3>1, <3>2
  <2> QED BY <2>1, <2>3, <2>4, Zenon DEF HandlersKept
<1>5. Handled(g, r, X)
  BY DEF g
<1>6. ASSUME r.goes_on
      PROVE  /\ SameCall(f, r.frame) /\ HandlersKept(f, r.frame)
             /\ Len(r.frame.handlers) <= Len(f.handlers)
             /\ \A p \in Waiting(r.frame) : p.kind = "NONLOCAL" => p \in Waiting(f) \/ p.value \in X
  BY <1>1, <1>4, <1>5, <1>6, Zenon DEF Handled
<1>7. ASSUME ~r.goes_on PROVE Ensures(f) = {} \/ r.status.kind \in Unseen
  BY <1>3, <1>5, <1>7, Zenon DEF Handled
<1> QED BY <1>5, <1>6, <1>7, Zenon DEF Handled

\* Entering the innermost clause that has not started is right.
LEMMA Entered ==
  ASSUME NEW f, IsFrame(f), NEW k \in Ensures(f), \A n \in Ensures(f) : n <= k,
         NEW next, NEW vm, IsRecord(vm, MachineFields), NEW X,
         next.kind = "NONLOCAL" => next.value \in X
  PROVE  Handled(f, GoesOn(enter_ensure(Unwound(f, k), next), vm), X)
<1> DEFINE g == Unwound(f, k)
           h == enter_ensure(g, next)
           r == GoesOn(h, vm)
<1>1. k \in 1..Len(f.handlers) /\ k \in 0..Len(f.handlers) /\ f.handlers[k].kind = "ENSURE"
  BY EnsuresAre
<1>2. /\ SameCall(f, g) /\ Len(g.handlers) = k
      /\ \A n \in 1..k : g.handlers[n] = f.handlers[n]
  BY <1>1, UnwoundIs
<1> HIDE DEF g
<1>3. k \in 1..k /\ k > 0
  BY <1>1, EnsuresAre
<1>4. /\ SameCall(g, h)
      /\ Len(h.handlers) = k
      /\ \A n \in 1..(k - 1) : h.handlers[n] = g.handlers[n]
      /\ h.handlers[k].kind = "ACTIVE_ENSURE"
      /\ h.ip = g.handlers[k].target
      /\ Waiting(h) \subseteq Waiting(g) \cup {next}
  BY <1>2, <1>3, EnterIs DEF SameCall
<1> HIDE DEF h
<1>5. DOMAIN g.handlers = 1..k /\ DOMAIN h.handlers = 1..k
  BY <1>2, <1>4, EnsuresAre DEF SameCall
<1>6. g.handlers[k].kind = "ENSURE"
  BY <1>1, <1>2, <1>3
<1>7. \A n \in 1..k : n \in 1..(k - 1) \/ n = k
  BY <1>3
<1>8. HandlersKept(g, h)
  BY <1>4, <1>5, <1>6, <1>7, Zenon DEF HandlersKept
<1>9. k <= k
  BY <1>3
<1>10. r.goes_on = TRUE /\ r.frame = h /\ r.vm = vm
  BY DEF GoesOn
<1> HIDE DEF r
<1>11. Handled(g, r, X)
  BY <1>2, <1>4, <1>8, <1>9, <1>10, Zenon DEF Handled
<1> QED BY <1>1, <1>11, ThroughUnwound DEF g, h, r

\* Innermost(Ensures(f)) is a clause, and 0 exactly when there is none.
LEMMA InnermostEnsure ==
  ASSUME NEW f, IsFrame(f)
  PROVE  LET k == Innermost(Ensures(f)) IN
         /\ k \in 0..Len(f.handlers)
         /\ k # 0 => k \in Ensures(f)
         /\ k = 0 => Ensures(f) = {}
         /\ \A n \in Ensures(f) : n <= k
<1> DEFINE k == Innermost(Ensures(f))
<1>1. /\ Len(f.handlers) \in Nat
      /\ Ensures(f) \in SUBSET (0..Len(f.handlers))
      /\ \A n \in Ensures(f) : n \in 1..Len(f.handlers)
  BY EnsuresAre
<1>2. /\ k \in 0..Len(f.handlers)
      /\ k # 0 => k \in Ensures(f)
      /\ \A n \in Ensures(f) : n <= k
  BY <1>1, InnermostIs
<1>3. k = 0 => Ensures(f) = {}
  BY <1>1, <1>2
<1> QED BY <1>2, <1>3

\* DropToEnsure stops at the innermost clause, or takes everything off.
LEMMA DroppedToEnsure ==
  ASSUME NEW f, IsFrame(f)
  PROVE  LET k == Innermost(Ensures(f)) IN
         /\ DropToEnsure(f) = Unwound(f, k)
         /\ DropToEnsure(f).handlers # <<>> => k \in Ensures(f) /\ \A n \in Ensures(f) : n <= k
         /\ DropToEnsure(f).handlers = <<>> => Ensures(f) = {}
         /\ IsFrame(DropToEnsure(f))
<1> DEFINE k == Innermost(Ensures(f))
<1>1. /\ k \in 0..Len(f.handlers)
      /\ k # 0 => k \in Ensures(f)
      /\ k = 0 => Ensures(f) = {}
      /\ \A n \in Ensures(f) : n <= k
  BY InnermostEnsure
<1>2. DropToEnsure(f) = Unwound(f, k)
  BY Zenon DEF DropToEnsure
<1> HIDE DEF k
<1> DEFINE g == Unwound(f, k)
<1>3. SameCall(f, g) /\ Len(g.handlers) = k
  BY <1>1, UnwoundIs
<1> HIDE DEF g
<1>4. k = 0 => g.handlers = <<>>
  <2>1. PICK S : g.handlers \in Seq(S)
    BY <1>3 DEF SameCall, IsFrame, IsSeq
  <2> QED BY <1>3, <2>1
<1>5. g.handlers = <<>> => k = 0
  BY <1>3
<1> QED BY <1>1, <1>2, <1>3, <1>4, <1>5 DEF k, g, SameCall

\* Dropping to the innermost clause and entering it is right.
LEMMA EnteredBelow ==
  ASSUME NEW f, IsFrame(f), DropToEnsure(f).handlers # <<>>,
         NEW next, NEW vm, IsRecord(vm, MachineFields), NEW X,
         next.kind = "NONLOCAL" => next.value \in X
  PROVE  Handled(f, GoesOn(enter_ensure(DropToEnsure(f), next), vm), X)
<1> DEFINE k == Innermost(Ensures(f))
<1>1. /\ DropToEnsure(f) = Unwound(f, k)
      /\ k \in Ensures(f) /\ \A n \in Ensures(f) : n <= k
  BY DroppedToEnsure
<1> HIDE DEF k
<1> QED BY <1>1, Entered

\* catch_exception: a rescue clause is taken only when no ensure clause that has
\* not started is above it.
LEMMA CaughtException ==
  ASSUME NEW f, IsFrame(f), NEW vm, IsRecord(vm, MachineFields), NEW X
  PROVE  Handled(f, catch_exception(f, vm), X)
<1> DEFINE rescues == {n \in DOMAIN f.handlers : f.handlers[n].kind = "RESCUE" /\ f.handlers[n].arg.enabled}
           k == Innermost(Ensures(f) \cup rescues)
           uncaught == Status("EXCEPTION", vm.exception.message)
           r == catch_exception(f, vm)
<1>1. /\ Len(f.handlers) \in Nat /\ DOMAIN f.handlers = 1..Len(f.handlers)
      /\ Ensures(f) \in SUBSET (0..Len(f.handlers))
      /\ \A n \in Ensures(f) : n \in 1..Len(f.handlers) /\ f.handlers[n].kind = "ENSURE"
  BY EnsuresAre
<1>2. Ensures(f) \cup rescues \in SUBSET (0..Len(f.handlers))
  BY <1>1
<1>3. /\ k \in 0..Len(f.handlers)
      /\ k # 0 => k \in Ensures(f) \cup rescues
      /\ \A n \in Ensures(f) \cup rescues : n <= k
  BY <1>1, <1>2, InnermostIs, Zenon
<1> DEFINE g == Unwound(f, k - 1)
           h == [Write(g, f.handlers[k].arg.register, vm.exception) EXCEPT !.ip = f.handlers[k].target]
           entered == GoesOn(enter_ensure(Unwound(f, k), Pending("EXCEPTION", vm.exception)), vm)
<1>4. /\ k = 0 => r = IsLeft(uncaught, RecordError(uncaught, vm))
      /\ k # 0 /\ k \in Ensures(f) => r = entered
      /\ k # 0 /\ k \notin Ensures(f) => r = GoesOn(h, [vm EXCEPT !.error = None])
  BY Zenon DEF catch_exception
<1>5. uncaught.kind = "EXCEPTION"
  BY DEF Status
<1> SUFFICES Handled(f, r, X)
  OBVIOUS
<1> HIDE DEF k, rescues, r, g, h, uncaught, entered
<1>6. CASE k = 0
  <2>1. Ensures(f) = {}
    <3> SUFFICES ASSUME NEW n \in Ensures(f) PROVE FALSE
      OBVIOUS
    <3>1. n <= k /\ n \in 1..Len(f.handlers)
      BY <1>1, <1>3
    <3> QED BY <1>1, <1>6, <3>1
  <2>2. IsRecord(RecordError(uncaught, vm), MachineFields)
    BY DEF RecordError, IsRecord, MachineFields
  <2>3. r.goes_on = FALSE /\ r.vm = RecordError(uncaught, vm) /\ r.status.kind = "EXCEPTION"
    BY <1>4, <1>5, <1>6 DEF IsLeft
  <2>4. "EXCEPTION" \in Seen \cup Unseen /\ "EXCEPTION" # "NONLOCAL_EXIT"
    BY DEF Seen
  <2> QED BY <2>1, <2>2, <2>3, <2>4, Zenon DEF Handled
<1>7. CASE k # 0 /\ k \in Ensures(f)
  <2>1. Pending("EXCEPTION", vm.exception).kind # "NONLOCAL"
    BY DEF Pending
  <2>2. \A n \in Ensures(f) : n <= k
    BY <1>3
  <2>3. Handled(f, entered, X)
    BY <1>7, <2>1, <2>2, Entered DEF entered
  <2> QED BY <1>4, <1>7, <2>3
<1>8. CASE k # 0 /\ k \notin Ensures(f)
  <2>1. k - 1 \in 0..Len(f.handlers) /\ \A n \in Ensures(f) : n <= k - 1
    BY <1>1, <1>3, <1>8
  <2>2. SameCall(f, g) /\ Len(g.handlers) = k - 1
    BY <2>1, UnwoundIs DEF g
  <2>3. SameCall(g, h) /\ h.handlers = g.handlers /\ h.pending = g.pending
    <3>1. /\ IsRecord(h, FrameFields)
          /\ h.handlers = g.handlers /\ h.pending = g.pending
          /\ h.def = g.def /\ h.serial = g.serial /\ h.closure = g.closure
          /\ h.block_register = g.block_register
      BY <2>2, Zenon DEF h, Write, SameCall, IsFrame, IsRecord, FrameFields
    <3> QED BY <2>2, <3>1, Zenon DEF SameCall, IsFrame
  <2>4. HandlersKept(g, h) /\ Waiting(h) = Waiting(g)
    BY <2>3, Zenon DEF HandlersKept, Waiting
  <2>5. Len(h.handlers) <= Len(g.handlers)
    BY <2>1, <2>2, <2>3
  <2>6. r.goes_on = TRUE /\ r.frame = h /\ IsRecord(r.vm, MachineFields)
    BY <1>4, <1>8 DEF GoesOn, IsRecord, MachineFields
  <2>7. Handled(g, r, X)
    BY <2>3, <2>4, <2>5, <2>6, Zenon DEF Handled
  <2> QED BY <2>1, <2>7, ThroughUnwound DEF g
<1> QED BY <1>6, <1>7, <1>8

\* A failure: an exception for the handlers, or a status that leaves the frame.
LEMMA Failed ==
  ASSUME NEW f, IsFrame(f), NEW vm, IsRecord(vm, MachineFields), NEW failure, NEW X,
         failure.kind \in Unseen \cup {"RUNTIME_ERROR"}
  PROVE  Handled(f, Fail(f, failure, vm), X)
<1>1. CASE f.handlers # <<>> /\ BecomesException(failure)
  <2> DEFINE text == IF vm.error = None THEN failure.at ELSE vm.error
             exception == [class |-> Runtime, at |-> failure.at, message |-> text]
             v == [vm EXCEPT !.exception = exception, !.error = text]
  <2>1. Fail(f, failure, vm) = catch_exception(f, v)
    BY <1>1, Zenon DEF Fail, catch_runtime_error
  <2>2. IsRecord(v, MachineFields)
    BY Zenon DEF IsRecord, MachineFields
  <2> HIDE DEF v
  <2> QED BY <2>1, <2>2, CaughtException
<1>2. CASE ~(f.handlers # <<>> /\ BecomesException(failure))
  <2>1. Fail(f, failure, vm) = IsLeft(failure, RecordError(failure, vm))
    BY <1>2, Zenon DEF Fail
  <2>2. failure.kind \in Seen \cup Unseen /\ failure.kind # "NONLOCAL_EXIT"
    BY DEF Seen, Unseen
  <2>3. Ensures(f) = {} \/ failure.kind \in Unseen
    <3>1. f.handlers = <<>> => Ensures(f) = {}
      BY DEF Ensures
    <3> QED BY <1>2, <3>1 DEF BecomesException
  <2> QED BY <2>1, <2>2, <2>3, LeftAtOnce
<1> QED BY <1>1, <1>2

\* nonlocal_exit_arrives: the exit lands here, or it waits for a clause, or it
\* travels on once the frame has no clause to run.
LEMMA NonlocalExit ==
  ASSUME NEW f, IsFrame(f), NEW vm, IsRecord(vm, MachineFields), NEW bottom \in BOOLEAN,
         NEW X, vm.nonlocal.target = f.serial \/ vm.nonlocal \in X
  PROVE  Handled(f, nonlocal_exit_arrives(f, vm, bottom), X)
<1> DEFINE exit == vm.nonlocal
           here == exit.target = f.serial
           lands == code[f.def][f.ip].op \in {"CALL", "CALL_CLOSURE"}
           g == DropToEnsure(f)
           cleared == [vm EXCEPT !.nonlocal.target = 0, !.nonlocal.value = None]
           invalid == Status("RUNTIME_ERROR", exit.value)
           broken == Fail(f, invalid, [vm EXCEPT !.error = exit.value])
           lost == Fail(g, invalid, [cleared EXCEPT !.error = exit.value])
           r == nonlocal_exit_arrives(f, vm, bottom)
<1>1. IsRecord(cleared, MachineFields)
  BY Zenon DEF IsRecord, MachineFields
<1>2. /\ IsRecord([vm EXCEPT !.error = exit.value], MachineFields)
      /\ IsRecord([cleared EXCEPT !.error = exit.value], MachineFields)
  BY <1>1, Zenon DEF IsRecord, MachineFields
<1>3. invalid.kind = "RUNTIME_ERROR"
  BY DEF Status
<1>4. IsFrame(g) /\ (g.handlers = <<>> => Ensures(f) = {})
  BY DroppedToEnsure
<1>5. CASE here /\ exit.is_break
  <2>1. r = IF lands THEN GoesOn([f EXCEPT !.ip = @ + 1], cleared) ELSE broken
    BY <1>5, Zenon DEF nonlocal_exit_arrives
  <2>2. Handled(f, GoesOn([f EXCEPT !.ip = @ + 1], cleared), X)
    BY <1>1, Moved
  <2>3. Handled(f, broken, X)
    BY <1>2, <1>3, Failed
  <2> HIDE DEF r, broken, cleared
  <2>4. Handled(f, r, X)
    BY <2>1, <2>2, <2>3
  <2> QED BY <2>4 DEF r
<1>6. CASE ~(here /\ exit.is_break) /\ g.handlers # <<>>
  <2> DEFINE returns == GoesOn(enter_ensure(g, Pending("RETURN", exit.value)), cleared)
             waits == GoesOn(enter_ensure(g, Pending("NONLOCAL", exit)), vm)
  <2>1. r = IF here THEN returns ELSE waits
    BY <1>6, Zenon DEF nonlocal_exit_arrives
  <2>2. Pending("RETURN", exit.value).kind # "NONLOCAL" /\ Pending("NONLOCAL", exit).value = exit
    BY DEF Pending
  <2>3. Handled(f, returns, X)
    BY <1>1, <1>6, <2>2, EnteredBelow
  <2>4. ~here => Handled(f, waits, X)
    BY <1>6, <2>2, EnteredBelow
  <2> HIDE DEF r, returns, waits
  <2>5. Handled(f, r, X)
    BY <2>1, <2>3, <2>4
  <2> QED BY <2>5 DEF r
<1>7. CASE here /\ ~exit.is_break /\ g.handlers = <<>>
  <2>1. r = IsLeft(Status("OK", exit.value), cleared)
    BY <1>7, Zenon DEF nonlocal_exit_arrives
  <2>2. Status("OK", exit.value).kind = "OK" /\ "OK" \in Seen \cup Unseen /\ "OK" # "NONLOCAL_EXIT"
    BY DEF Status, Seen
  <2> QED BY <1>1, <1>4, <1>7, <2>1, <2>2, LeftAtOnce
<1>8. CASE ~here /\ g.handlers = <<>>
  <2> DEFINE leaves == IsLeft(Status("NONLOCAL_EXIT", None), vm)
  <2>1. r = IF bottom THEN lost ELSE leaves
    BY <1>8, Zenon DEF nonlocal_exit_arrives
  <2>2. Handled(f, leaves, X)
    <3>1. /\ leaves.goes_on = FALSE /\ leaves.vm = vm
          /\ leaves.status.kind = "NONLOCAL_EXIT"
      BY DEF IsLeft, Status
    <3>2. "NONLOCAL_EXIT" \in Seen \cup Unseen
      BY DEF Seen
    <3> HIDE DEF leaves
    <3> QED BY <1>4, <1>8, <3>1, <3>2, Zenon DEF Handled
  <2>3. Handled(f, lost, X)
    <3> DEFINE v == [cleared EXCEPT !.error = exit.value]
    <3>1. lost = IsLeft(invalid, RecordError(invalid, v))
      BY <1>8, Zenon DEF Fail
    <3>2. invalid.kind \in Seen \cup Unseen /\ invalid.kind # "NONLOCAL_EXIT"
      BY <1>3 DEF Seen
    <3>3. IsRecord(v, MachineFields)
      BY <1>2
    <3> HIDE DEF v, invalid
    <3> QED BY <1>4, <1>8, <3>1, <3>2, <3>3, LeftAtOnce
  <2> HIDE DEF r, lost, leaves
  <2>4. Handled(f, r, X)
    BY <2>1, <2>2, <2>3
  <2> QED BY <2>4 DEF r
<1> HIDE DEF r, g, exit, lost, broken, cleared, lands, invalid, here
<1> QED BY <1>5, <1>6, <1>7, <1>8

\* Return: at once, or after the clauses.
LEMMA Returning ==
  ASSUME NEW f, IsFrame(f), NEW value, NEW vm, IsRecord(vm, MachineFields), NEW X
  PROVE  Handled(f, Return(f, value, vm), X)
<1>1. CASE DropToEnsure(f).handlers # <<>>
  <2>1. Return(f, value, vm) = GoesOn(enter_ensure(DropToEnsure(f), Pending("RETURN", value)), vm)
    BY <1>1, Zenon DEF Return
  <2>2. Pending("RETURN", value).kind # "NONLOCAL"
    BY DEF Pending
  <2> QED BY <1>1, <2>1, <2>2, EnteredBelow
<1>2. CASE DropToEnsure(f).handlers = <<>>
  <2>1. Return(f, value, vm) = IsLeft(Status("OK", value), vm)
    BY <1>2, Zenon DEF Return
  <2>2. Status("OK", value).kind = "OK" /\ "OK" \in Seen \cup Unseen /\ "OK" # "NONLOCAL_EXIT"
    BY DEF Status, Seen
  <2>3. Ensures(f) = {}
    BY <1>2, DroppedToEnsure
  <2> QED BY <2>1, <2>2, <2>3, LeftAtOnce
<1> QED BY <1>1, <1>2

\* unwind_for_jump: a jump out of begin levels meets every clause on its way.
LEMMA JumpedOut ==
  ASSUME NEW f, IsFrame(f), NEW levels, NEW target, NEW vm, IsRecord(vm, MachineFields), NEW X,
         unwind_for_jump(f, levels, target).valid
  PROVE  Handled(f, GoesOn(unwind_for_jump(f, levels, target).frame, vm), X)
<1> DEFINE left(n) == Cardinality({m \in (n + 1)..Len(f.handlers) : f.handlers[m].kind = "ACTIVE_ENSURE"})
           stops == {n \in 0..Len(f.handlers) : n \in Ensures(f) \/ left(n) = levels}
           k == Innermost(stops)
           j == unwind_for_jump(f, levels, target)
           next == Pending("JUMP", [continuation |-> target, levels |-> levels - left(k) - 1])
           jumped == [Unwound(f, k) EXCEPT !.ip = target]
           entered == enter_ensure(Unwound(f, k), next)
<1>1. j = IF left(k) = levels THEN [valid |-> TRUE, frame |-> jumped]
          ELSE IF k = 0 THEN [valid |-> FALSE, frame |-> f]
          ELSE [valid |-> TRUE, frame |-> entered]
  BY Zenon DEF unwind_for_jump
<1>2. /\ Len(f.handlers) \in Nat /\ Ensures(f) \in SUBSET (0..Len(f.handlers))
  BY EnsuresAre
<1>3. stops \in SUBSET (0..Len(f.handlers)) /\ Ensures(f) \subseteq stops
  BY <1>2
<1>4. k # 0 => k \in Ensures(f) \/ left(k) = levels
  <2> HIDE DEF left
  <2>1. k # 0 => k \in stops
    BY <1>2, <1>3, InnermostIs
  <2> HIDE DEF k
  <2> QED BY <2>1
<1>5. k \in 0..Len(f.handlers) /\ \A n \in stops : n <= k
  <2> HIDE DEF stops
  <2> QED BY <1>2, <1>3, InnermostIs
<1>6. \A n \in Ensures(f) : n <= k
  BY <1>3, <1>5, Zenon
<1>7. next.kind # "NONLOCAL"
  BY DEF Pending
<1> HIDE DEF left, stops, k, j, next, jumped, entered
<1>8. j.frame = IF left(k) = levels THEN jumped ELSE entered
  BY <1>1 DEF j
<1>9. left(k) # levels => k # 0
  BY <1>1 DEF j
<1>10. CASE left(k) = levels
  <2>1. IsFrame(Unwound(f, k))
    BY <1>5, UnwoundIs DEF SameCall
  <2>2. Handled(Unwound(f, k), GoesOn(jumped, vm), X)
    BY <2>1, Moved DEF jumped
  <2>3. Handled(f, GoesOn(jumped, vm), X)
    BY <1>5, <1>6, <2>2, ThroughUnwound
  <2> QED BY <1>8, <1>10, <2>3 DEF j
<1>11. CASE left(k) # levels
  <2>1. Handled(f, GoesOn(entered, vm), X)
    BY <1>4, <1>6, <1>7, <1>9, <1>11, Entered DEF entered
  <2> QED BY <1>8, <1>11, <2>1 DEF j
<1> QED BY <1>10, <1>11

\* VM_RETURN: a failure or an exit that starts in the frame.
LEMMA ReturnedWith ==
  ASSUME NEW f, IsFrame(f), NEW failure, NEW vm, IsRecord(vm, MachineFields),
         NEW bottom \in BOOLEAN, NEW X,
         failure.kind \in Unseen \cup {"RUNTIME_ERROR", "NONLOCAL_EXIT"},
         failure.kind = "NONLOCAL_EXIT" => vm.nonlocal.target = f.serial \/ vm.nonlocal \in X
  PROVE  Handled(f, VM_RETURN(f, failure, vm, bottom), X)
<1>1. CASE failure.kind = "NONLOCAL_EXIT"
  <2>1. VM_RETURN(f, failure, vm, bottom) = nonlocal_exit_arrives(f, vm, bottom)
    BY <1>1, Zenon DEF VM_RETURN
  <2> QED BY <1>1, <2>1, NonlocalExit
<1>2. CASE failure.kind # "NONLOCAL_EXIT"
  <2>1. VM_RETURN(f, failure, vm, bottom) = Fail(f, failure, vm)
    BY <1>2, Zenon DEF VM_RETURN
  <2>2. failure.kind \in Unseen \cup {"RUNTIME_ERROR"}
    BY <1>2
  <2> QED BY <2>1, <2>2, Failed
<1> QED BY <1>1, <1>2

\* VM_PROPAGATE: what a call that did not end well makes of its caller.
LEMMA PropagatedWith ==
  ASSUME NEW f, IsFrame(f), NEW failure, NEW vm, IsRecord(vm, MachineFields),
         NEW bottom \in BOOLEAN, NEW X,
         failure.kind \in Seen \cup Unseen, failure.kind # "OK",
         failure.kind = "NONLOCAL_EXIT" => vm.nonlocal.target = f.serial \/ vm.nonlocal \in X
  PROVE  Handled(f, VM_PROPAGATE(f, failure, vm, bottom), X)
<1>1. CASE failure.kind = "EXCEPTION"
  <2>1. VM_PROPAGATE(f, failure, vm, bottom) = catch_exception(f, vm)
    BY <1>1, Zenon DEF VM_PROPAGATE
  <2> QED BY <2>1, CaughtException
<1>2. CASE failure.kind # "EXCEPTION"
  <2>1. VM_PROPAGATE(f, failure, vm, bottom) = VM_RETURN(f, failure, vm, bottom)
    BY <1>2, Zenon DEF VM_PROPAGATE
  <2>2. failure.kind \in Unseen \cup {"RUNTIME_ERROR", "NONLOCAL_EXIT"}
    BY <1>2 DEF Seen
  <2> QED BY <2>1, <2>2, ReturnedWith
<1> QED BY <1>1, <1>2

\* ResumePending: whatever the clause that ends goes on with.
LEMMA Resumed ==
  ASSUME NEW f, IsFrame(f), NEW resume, NEW vm, IsRecord(vm, MachineFields),
         NEW bottom \in BOOLEAN, NEW X,
         resume.kind = "NONLOCAL" => resume.value.target = f.serial \/ resume.value \in X
  PROVE  Handled(f, ResumePending(f, resume, vm, bottom), X)
<1> DEFINE r == ResumePending(f, resume, vm, bottom)
           j == unwind_for_jump(f, resume.value.levels, resume.value.continuation)
           invalid == VM_RETURN(f, Invalid, vm, bottom)
<1>1. Handled(f, invalid, X)
  BY InvalidIs, ReturnedWith
<1>2. CASE resume.kind = "NORMAL"
  <2>1. r = GoesOn([f EXCEPT !.ip = resume.value], vm)
    BY <1>2 DEF ResumePending
  <2> QED BY <2>1, Moved
<1>3. CASE resume.kind = "JUMP"
  <2>1. r = IF j.valid THEN GoesOn(j.frame, vm) ELSE invalid
    BY <1>3 DEF ResumePending
  <2>2. j.valid => Handled(f, GoesOn(j.frame, vm), X)
    BY JumpedOut
  <2> HIDE DEF r, j, invalid
  <2>3. Handled(f, r, X)
    BY <1>1, <2>1, <2>2
  <2> QED BY <2>3 DEF r
<1>4. CASE resume.kind = "RETURN"
  <2>1. r = Return(f, resume.value, vm)
    BY <1>4 DEF ResumePending
  <2> QED BY <2>1, Returning
<1>5. CASE resume.kind = "NONLOCAL"
  <2> DEFINE v == [vm EXCEPT !.nonlocal = resume.value]
             exit == Status("NONLOCAL_EXIT", None)
  <2>1. r = VM_RETURN(f, exit, v, bottom)
    BY <1>5 DEF ResumePending
  <2>2. IsRecord(v, MachineFields) /\ v.nonlocal = resume.value
    BY DEF IsRecord, MachineFields
  <2>3. exit.kind = "NONLOCAL_EXIT"
    BY DEF Status
  <2> HIDE DEF v, exit
  <2>4. Handled(f, VM_RETURN(f, exit, v, bottom), X)
    BY <1>5, <2>2, <2>3, ReturnedWith
  <2> QED BY <2>1, <2>4
<1>6. CASE resume.kind = "EXCEPTION"
  <2> DEFINE v == [vm EXCEPT !.exception = resume.value]
  <2>1. r = catch_exception(f, v)
    BY <1>6 DEF ResumePending
  <2>2. IsRecord(v, MachineFields)
    BY DEF IsRecord, MachineFields
  <2> QED BY <2>1, <2>2, CaughtException
<1>7. CASE resume.kind \notin {"NORMAL", "JUMP", "RETURN", "NONLOCAL", "EXCEPTION"}
  <2>1. r = invalid
    BY <1>7 DEF ResumePending
  <2> QED BY <1>1, <2>1
<1> QED BY <1>2, <1>3, <1>4, <1>5, <1>6, <1>7

\* Taking no handler off changes nothing.
LEMMA UnwoundByNone == ASSUME NEW f, IsFrame(f) PROVE Unwound(f, Len(f.handlers)) = f
<1>1. PICK S : f.handlers \in Seq(S)
  BY DEF IsFrame, IsSeq
<1>2. SubSeq(f.handlers, 1, Len(f.handlers)) = f.handlers
  BY <1>1
<1>3. {n \in (Len(f.handlers) + 1)..Len(f.handlers) : f.handlers[n].kind = "ACTIVE_ENSURE"} = {}
  BY <1>1
<1> QED BY <1>2, <1>3, Zenon DEF Unwound, IsFrame, IsRecord, FrameFields

\* What the frame makes of an event after pop_unwind_handler is right for the frame
\* itself, unless the handler was a clause that has not started.
LEMMA PoppedTop ==
  ASSUME NEW f, IsFrame(f), Len(f.handlers) > 0, f.handlers[Len(f.handlers)].kind # "ENSURE",
         NEW r, NEW X, Handled(pop_unwind_handler(f), r, X)
  PROVE  Handled(f, r, X)
<1>1. PICK k : k = Len(f.handlers) - 1
  OBVIOUS
<1>2. k \in 0..Len(f.handlers) /\ \A n \in Ensures(f) : n <= k
  BY <1>1, EnsuresAre
<1>3. Handled(Unwound(f, k), r, X)
  BY <1>1 DEF pop_unwind_handler
<1> QED BY <1>2, <1>3, ThroughUnwound

\* pop_unwind_handler stays in the call.
LEMMA PoppedIs ==
  ASSUME NEW f, IsFrame(f), Len(f.handlers) > 0
  PROVE  SameCall(f, pop_unwind_handler(f))
<1>1. Len(f.handlers) - 1 \in 0..Len(f.handlers)
  BY EnsuresAre
<1> QED BY <1>1, UnwoundIs DEF pop_unwind_handler

(***************************************************************************)
(* The steps that look for a handler.                                      *)
(***************************************************************************)

\* An instruction fails with a status.
LEMMA FailureTaken ==
  ASSUME Inv, frames # <<>>, NEW st, st.kind \in Unseen \cup {"RUNTIME_ERROR"}, Fails(st),
         UNCHANGED <<program, code, frame_serial, block>>
  PROVE  Inv' /\ EnsuresKept
<1>1. IsFrame(Frame) /\ IsRecord(machine, MachineFields)
  BY TopFrame DEF Inv, Shape
<1>2. Bottom \in BOOLEAN
  BY DEF Bottom
<1>3. PICK X : X = {}
  OBVIOUS
<1>4. st.kind \in Unseen \cup {"RUNTIME_ERROR", "NONLOCAL_EXIT"} /\ st.kind # "NONLOCAL_EXIT"
  BY DEF Unseen
<1> DEFINE r == VM_RETURN(Frame, st, machine, Bottom)
<1>5. Handled(Frame, r, X)
  BY <1>1, <1>2, <1>4, ReturnedWith
<1>6. Takes(r)
  BY Zenon DEF Fails
<1>7. \A e \in X : HasAPlace(e, Len(frames) - 1)
  BY <1>3
<1> HIDE DEF r
<1> QED BY <1>5, <1>6, <1>7, EventTaken, Zenon

\* An instruction finds the handlers in a state the compiler never leaves.
LEMMA InvalidTaken ==
  ASSUME Inv, frames # <<>>, Fails(Invalid), UNCHANGED <<program, code, frame_serial, block>>
  PROVE  Inv' /\ EnsuresKept
<1>1. Invalid.kind \in Unseen \cup {"RUNTIME_ERROR"}
  BY DEF Invalid, Status, Unseen
<1> QED BY <1>1, FailureTaken, Zenon

\* A statement fails, or does not.
LEMMA FailOpStep == ASSUME Inv, FailOp PROVE Inv' /\ EnsuresKept
<1>1. Executes("FAIL") /\ UNCHANGED <<program, code, frame_serial, block>>
  BY DEF FailOp
<1>2. frames # <<>> /\ status = Running
  BY <1>1, Started, Zenon
<1>3. CASE Becomes(Next_ip) /\ UNCHANGED <<status, machine>>
  <2>1. UNCHANGED <<program, code, status, machine, frame_serial, block>>
    BY <1>1, <1>3
  <2> QED BY <1>2, <1>3, <2>1, MovedOn, Zenon
<1>4. ASSUME NEW st, st.kind \in {"INTERRUPTED", "RUNTIME_ERROR"}, Fails(st) PROVE Inv' /\ EnsuresKept
  <2>1. st.kind \in Unseen \cup {"RUNTIME_ERROR"}
    BY <1>4 DEF Unseen
  <2> QED BY <1>1, <1>2, <1>4, <2>1, FailureTaken, Zenon
<1> DEFINE failure == Status(IF Instruction.arg.kind = "stop" THEN "INTERRUPTED" ELSE "RUNTIME_ERROR", Instruction.arg.at)
<1>5. failure.kind \in {"INTERRUPTED", "RUNTIME_ERROR"}
  BY DEF Status
<1>6. (Becomes(Next_ip) /\ UNCHANGED <<status, machine>>) \/ Fails(failure)
  BY Zenon DEF FailOp
<1> HIDE DEF failure
<1> QED BY <1>3, <1>4, <1>5, <1>6

\* A raise.
LEMMA RaiseStep == ASSUME Inv, Raise PROVE Inv' /\ EnsuresKept
<1>1. Executes("RAISE") /\ UNCHANGED <<program, code, frame_serial, block>>
  BY DEF Raise
<1>2. frames # <<>>
  BY <1>1, Started, Zenon
<1>3. PICK value : Takes(catch_exception(Frame, [machine EXCEPT !.exception = value]))
  BY Zenon DEF Raise
<1>4. IsFrame(Frame) /\ IsRecord(machine, MachineFields)
  BY <1>2, TopFrame DEF Inv, Shape
<1> DEFINE vm == [machine EXCEPT !.exception = value]
<1>5. IsRecord(vm, MachineFields)
  BY <1>4 DEF IsRecord, MachineFields
<1>6. PICK X : X = {}
  BY Zenon
<1>7. Handled(Frame, catch_exception(Frame, vm), X) /\ Takes(catch_exception(Frame, vm))
  BY <1>3, <1>4, <1>5, CaughtException
<1>8. \A e \in X : HasAPlace(e, Len(frames) - 1)
  BY <1>6
<1> HIDE DEF vm
<1> QED BY <1>1, <1>2, <1>7, <1>8, EventTaken, Zenon

\* A return.
LEMMA ReturnOpStep == ASSUME Inv, ReturnOp PROVE Inv' /\ EnsuresKept
<1>1. Executes("RETURN") /\ UNCHANGED <<program, code, frame_serial, block>>
  BY DEF ReturnOp
<1>2. frames # <<>> /\ Takes(Return(Frame, Instruction.arg, machine))
  BY <1>1, Started, Zenon DEF ReturnOp
<1>3. IsFrame(Frame) /\ IsRecord(machine, MachineFields)
  BY <1>2, TopFrame DEF Inv, Shape
<1>4. PICK X : X = {}
  BY Zenon
<1>5. Handled(Frame, Return(Frame, Instruction.arg, machine), X)
  BY <1>3, Returning
<1>6. \A e \in X : HasAPlace(e, Len(frames) - 1)
  BY <1>4
<1> QED BY <1>1, <1>2, <1>5, <1>6, EventTaken, Zenon

\* A begin pushes a handler while the array has room for it.
LEMMA PushHandlerStep == ASSUME Inv, PushHandler PROVE Inv' /\ EnsuresKept
<1>1. UNCHANGED <<program, code, frame_serial, block>>
  BY DEF PushHandler
<1>2. frames # <<>> /\ status = Running
  BY Started, Zenon DEF PushHandler
<1>3. CASE Fails(Invalid)
  BY <1>1, <1>2, <1>3, InvalidTaken, Zenon
<1>4. ASSUME NEW kind, Len(Frame.handlers) # MaxHandlers, Becomes(Push(Frame, kind, Instruction)),
             UNCHANGED <<status, machine>>
      PROVE  Inv' /\ EnsuresKept
  <2> DEFINE g == Push(Frame, kind, Instruction)
  <2>1. /\ Len(frames) \in 1..Len(frames) /\ Frame = frames[Len(frames)]
        /\ IsFrame(Frame) /\ Len(Frame.handlers) <= MaxHandlers
    BY <1>2, TopFrame, Zenon DEF Inv
  <2>2. /\ SameCall(Frame, g) /\ HandlersKept(Frame, g)
        /\ Len(g.handlers) = Len(Frame.handlers) + 1
        /\ Waiting(g) \subseteq Waiting(Frame) \cup {PendingNone}
    BY <2>1, PushedOn
  <2>3. Becomes(g)
    BY <1>4
  <2> HIDE DEF g
  <2>4. /\ IsFrame(g) /\ g.def = Frame.def /\ g.serial = Frame.serial /\ g.closure = Frame.closure
        /\ g.block_register = Frame.block_register
    BY <2>2, Zenon DEF SameCall
  <2>5. Len(g.handlers) <= MaxHandlers
    <3>1. Len(Frame.handlers) \in Nat
      BY <2>1, EnsuresAre
    <3> QED BY <1>4, <2>1, <2>2, <3>1, MaxHandlersIsNat
  <2>6. Written(g.block_register) /\ Written(block')
    <3>1. block' = block
      BY <1>1
    <3> QED BY <2>1, <2>4, <3>1, Zenon DEF Inv, Closures
  <2>7. Placed(g, Len(frames) - 1)
    <3>1. PendingNone.kind # "NONLOCAL"
      BY DEF PendingNone, Pending
    <3>2. \A p \in Waiting(g) : p.kind = "NONLOCAL" => p \in Waiting(Frame)
      BY <2>2, <3>1
    <3> QED BY <2>1, <3>2, Zenon DEF Placed, Inv, ExitsHaveAPlace
  <2>8. /\ status' = Running /\ IsRecord(machine', MachineFields)
        /\ UNCHANGED <<program, code, frame_serial>>
    BY <1>1, <1>2, <1>4 DEF Inv, Shape
  <2> QED BY <1>2, <2>2, <2>3, <2>4, <2>5, <2>6, <2>7, <2>8, FrameChanged, Zenon
<1> QED BY <1>3, <1>4, Zenon DEF PushHandler

\* The body of a begin ends before its rescue clauses.
LEMMA PopRescueStep == ASSUME Inv, PopRescue PROVE Inv' /\ EnsuresKept
<1>1. UNCHANGED <<program, code, frame_serial, block>>
  BY DEF PopRescue
<1>2. frames # <<>> /\ status = Running
  BY Started, Zenon DEF PopRescue
<1>3. CASE Fails(Invalid)
  BY <1>1, <1>2, <1>3, InvalidTaken, Zenon
<1>4. ASSUME TopHandler = "RESCUE", Becomes(pop_unwind_handler(Next_ip)), UNCHANGED <<status, machine>>
      PROVE  Inv' /\ EnsuresKept
  <2>1. IsFrame(Frame) /\ IsRecord(machine, MachineFields)
    BY <1>2, TopFrame DEF Inv, Shape
  <2>2. Len(Frame.handlers) > 0 /\ Frame.handlers[Len(Frame.handlers)].kind # "ENSURE"
    BY <1>4, <2>1, TopHandlerIs
  <2>3. PICK ip : ip = Frame.ip + 1
    OBVIOUS
  <2> DEFINE f == [Frame EXCEPT !.ip = ip]
             g == pop_unwind_handler(f)
  <2>4. f.handlers = Frame.handlers /\ IsFrame(f)
    <3>1. IsRecord(f, FrameFields) /\ f.handlers = Frame.handlers
      BY <2>1 DEF IsFrame, IsRecord, FrameFields
    <3> QED BY <2>1, <3>1, Zenon DEF IsFrame
  <2>5. Becomes(g)
    BY <1>4, <2>3 DEF Next_ip
  <2>6. Handled(f, GoesOn(g, machine), {}) => Handled(Frame, GoesOn(g, machine), {})
    BY <2>1, ThroughMove
  <2> HIDE DEF f
  <2>7. IsFrame(g) /\ Len(f.handlers) > 0 /\ f.handlers[Len(f.handlers)].kind # "ENSURE"
    BY <2>2, <2>4, PoppedIs DEF SameCall
  <2>8. Handled(g, GoesOn(g, machine), {})
    BY <2>1, <2>7, Stays
  <2>9. Handled(f, GoesOn(g, machine), {})
    BY <2>4, <2>7, <2>8, PoppedTop
  <2>10. UNCHANGED <<program, code, status, machine, frame_serial, block>>
    BY <1>1, <1>4
  <2> HIDE DEF g
  <2> QED BY <1>2, <2>5, <2>6, <2>9, <2>10, SameFrame, Zenon
<1> QED BY <1>3, <1>4, Zenon DEF PopRescue

\* A break, next or retry out of begin levels.
LEMMA UnwindJumpStep == ASSUME Inv, UnwindJump PROVE Inv' /\ EnsuresKept
<1>1. UNCHANGED <<program, code, frame_serial, block>>
  BY DEF UnwindJump
<1>2. frames # <<>> /\ status = Running
  BY Started, Zenon DEF UnwindJump
<1> DEFINE j == unwind_for_jump(Frame, Instruction.arg, Instruction.target)
<1>3. CASE Fails(Invalid)
  BY <1>1, <1>2, <1>3, InvalidTaken, Zenon
<1>4. CASE j.valid /\ Becomes(j.frame) /\ UNCHANGED <<status, machine>>
  <2>1. IsFrame(Frame) /\ IsRecord(machine, MachineFields)
    BY <1>2, TopFrame DEF Inv, Shape
  <2>2. Handled(Frame, GoesOn(j.frame, machine), {})
    BY <1>4, <2>1, JumpedOut
  <2>3. UNCHANGED <<program, code, status, machine, frame_serial, block>>
    BY <1>1, <1>4
  <2> HIDE DEF j
  <2> QED BY <1>2, <1>4, <2>2, <2>3, SameFrame, Zenon
<1>5. Fails(Invalid) \/ (j.valid /\ Becomes(j.frame) /\ UNCHANGED <<status, machine>>)
  BY Zenon DEF UnwindJump
<1> HIDE DEF j
<1> QED BY <1>3, <1>4, <1>5

\* The body of a begin ends before its ensure clause, which starts.
LEMMA RunEnsureStep == ASSUME Inv, RunEnsure PROVE Inv' /\ EnsuresKept
<1>1. UNCHANGED <<program, code, frame_serial, block>>
  BY DEF RunEnsure
<1>2. frames # <<>> /\ status = Running
  BY Started, Zenon DEF RunEnsure
<1> DEFINE next == Pending("NORMAL", Instruction.target)
<1>3. CASE Fails(Invalid)
  BY <1>1, <1>2, <1>3, InvalidTaken, Zenon
<1>4. ASSUME TopHandler = "ENSURE", Becomes(enter_ensure(Frame, next)), UNCHANGED <<status, machine>>
      PROVE  Inv' /\ EnsuresKept
  <2>1. IsFrame(Frame) /\ IsRecord(machine, MachineFields)
    BY <1>2, TopFrame DEF Inv, Shape
  <2>2. PICK k : k = Len(Frame.handlers)
    BY Zenon
  <2>3. k \in Ensures(Frame) /\ \A n \in Ensures(Frame) : n <= k
    <3>1. k \in 1..k /\ DOMAIN Frame.handlers = 1..k /\ Frame.handlers[k].kind = "ENSURE"
      BY <1>4, <2>1, <2>2, TopHandlerIs
    <3> QED BY <2>1, <2>2, <3>1, EnsuresAre
  <2>4. next.kind # "NONLOCAL"
    BY DEF Pending
  <2> HIDE DEF next
  <2>5. Handled(Frame, GoesOn(enter_ensure(Unwound(Frame, k), next), machine), {})
    BY <2>1, <2>3, <2>4, Entered
  <2>6. Unwound(Frame, k) = Frame
    BY <2>1, <2>2, UnwoundByNone
  <2>7. UNCHANGED <<program, code, status, machine, frame_serial, block>>
    BY <1>1, <1>4
  <2> QED BY <1>2, <1>4, <2>5, <2>6, <2>7, SameFrame, Zenon
<1> QED BY <1>3, <1>4, Zenon DEF RunEnsure

\* An ensure clause ends: it goes on with what was pending, and an exit among that
\* has had its place since it began to wait.
LEMMA EndEnsureStep == ASSUME Inv, EndEnsure PROVE Inv' /\ EnsuresKept
<1>1. UNCHANGED <<program, code, frame_serial, block>>
  BY DEF EndEnsure
<1>2. frames # <<>> /\ status = Running
  BY Started, Zenon DEF EndEnsure
<1> DEFINE f == pop_unwind_handler(Frame)
           r == ResumePending(f, Frame.pending, machine, Bottom)
<1>3. CASE Fails(Invalid)
  BY <1>1, <1>2, <1>3, InvalidTaken, Zenon
<1>4. ASSUME TopHandler = "ACTIVE_ENSURE", Takes(r)
      PROVE  Inv' /\ EnsuresKept
  <2>1. /\ IsFrame(Frame) /\ IsRecord(machine, MachineFields)
        /\ Len(frames) \in 1..Len(frames) /\ Frame = frames[Len(frames)]
    BY <1>2, TopFrame DEF Inv, Shape
  <2>2. Len(Frame.handlers) > 0 /\ Frame.handlers[Len(Frame.handlers)].kind # "ENSURE"
    BY <1>4, <2>1, TopHandlerIs
  <2>3. IsFrame(f)
    BY <2>1, <2>2, PoppedIs DEF SameCall
  <2>4. PICK X : X = {p.value : p \in {q \in Waiting(Frame) : q.kind = "NONLOCAL"}}
    BY Zenon
  <2>5. Frame.pending.kind = "NONLOCAL" => Frame.pending.value \in X
    BY <2>4 DEF Waiting
  <2>6. Bottom \in BOOLEAN
    BY DEF Bottom
  <2> HIDE DEF f
  <2>7. Handled(f, r, X)
    BY <2>1, <2>3, <2>5, <2>6, Resumed, Zenon
  <2> HIDE DEF r
  <2>8. Handled(Frame, r, X)
    BY <2>1, <2>2, <2>7, PoppedTop DEF f
  <2>9. \A e \in X : HasAPlace(e, Len(frames) - 1)
    <3>1. \A p \in Waiting(Frame) : p.kind = "NONLOCAL" => HasAPlace(p.value, Len(frames) - 1)
      BY <2>1, Zenon DEF Inv, ExitsHaveAPlace
    <3> QED BY <2>4, <3>1
  <2> QED BY <1>1, <1>2, <1>4, <2>8, <2>9, EventTaken, Zenon
<1> QED BY <1>3, <1>4, Zenon DEF EndEnsure

\* A block's return or break starts only while the frame it is for is live, and a
\* break only while that frame is at the block's call.
LEMMA BlockExitStep == ASSUME Inv, BlockExit PROVE Inv' /\ EnsuresKept
<1> DEFINE n == Len(frames)
           is_break == Instruction.op = "BLOCK_BREAK"
           target == IF is_break THEN Frame.closure.break_target ELSE Frame.closure.return_target
           exit == [target |-> target, is_break |-> is_break, value |-> Instruction.arg,
                    call |-> Frame.closure.break_call_offset]
           vm == [machine EXCEPT !.nonlocal = exit]
           failing == [machine EXCEPT !.error = Instruction.arg]
           leaves == VM_RETURN(Frame, Status("NONLOCAL_EXIT", None), vm, Bottom)
           fails == VM_RETURN(Frame, Status("RUNTIME_ERROR", Instruction.arg), failing, Bottom)
<1>1. UNCHANGED <<program, code, frame_serial, block>>
  BY DEF BlockExit
<1>2. frames # <<>>
  BY Started, Zenon DEF BlockExit
<1>3. /\ IsFrame(Frame) /\ IsRecord(machine, MachineFields)
      /\ n \in Nat /\ n \in 1..n /\ Frame = frames[n]
  BY <1>2, TopFrame DEF Inv, Shape
<1>4. Bottom \in BOOLEAN
  BY DEF Bottom
<1>5. (Live(target, is_break) /\ Takes(leaves)) \/ Takes(fails)
  BY Zenon DEF BlockExit
<1>6. CASE Takes(fails)
  <2>1. IsRecord(failing, MachineFields)
    BY <1>3 DEF IsRecord, MachineFields
  <2>2. PICK X : X = {}
    BY Zenon
  <2>3. Status("RUNTIME_ERROR", Instruction.arg).kind = "RUNTIME_ERROR"
    BY DEF Status
  <2> HIDE DEF failing
  <2>4. Handled(Frame, fails, X)
    BY <1>3, <1>4, <2>1, <2>3, ReturnedWith
  <2>5. \A e \in X : HasAPlace(e, n - 1)
    BY <2>2
  <2> HIDE DEF fails
  <2> QED BY <1>1, <1>2, <1>6, <2>4, <2>5, EventTaken, Zenon
<1>7. CASE Live(target, is_break) /\ Takes(leaves)
  <2>1. /\ exit.target = target /\ exit.is_break = is_break
        /\ exit.call = Frame.closure.break_call_offset
    OBVIOUS
  <2>2. IsRecord(vm, MachineFields) /\ vm.nonlocal = exit
    BY <1>3 DEF IsRecord, MachineFields
  <2>3. is_break => target = Frame.closure.break_target
    OBVIOUS
  <2>4. Status("NONLOCAL_EXIT", None).kind = "NONLOCAL_EXIT"
    BY DEF Status
  <2>5. PICK X : X = {e \in {exit} : e.target # Frame.serial}
    BY Zenon
  <2> HIDE DEF exit, vm, target, is_break
  <2>6. vm.nonlocal.target = Frame.serial \/ vm.nonlocal \in X
    BY <2>2, <2>5
  <2>7. Handled(Frame, leaves, X)
    BY <1>3, <1>4, <2>2, <2>4, <2>6, ReturnedWith, Zenon
  <2>8. ASSUME exit.target # Frame.serial PROVE HasAPlace(exit, n - 1)
    <3>1. PICK i \in 1..n : /\ frames[i].serial = target
                            /\ is_break => frames[i].ip = Frame.closure.break_call_offset
      BY <1>7, Zenon DEF Live
    <3>2. i # n
      BY <1>3, <2>1, <2>8, <3>1, Zenon
    <3>3. i \in 1..(n - 1)
      <4> HIDE DEF n
      <4> QED BY <1>3, <3>1, <3>2
    <3>4. is_break => code[frames[i].def][frames[i].ip].op = "CALL"
      BY <1>3, <2>3, <3>1, Zenon DEF Inv, Closures, Written
    <3> QED BY <2>1, <3>1, <3>3, <3>4, Zenon DEF HasAPlace
  <2>9. \A e \in X : HasAPlace(e, n - 1)
    BY <2>5, <2>8, Zenon
  <2> HIDE DEF leaves
  <2> QED BY <1>1, <1>2, <1>7, <2>7, <2>9, EventTaken, Zenon
<1> HIDE DEF leaves, fails, target, is_break
<1> QED BY <1>5, <1>6, <1>7

\* A call ends, and its status arrives in the caller.
LEMMA ReturnedStep == ASSUME Inv, Returned PROVE Inv' /\ EnsuresKept
<1> DEFINE n == Len(frames)
           r == VM_PROPAGATE(Frame, status, machine, Bottom)
<1>1. UNCHANGED <<program, code, frame_serial, block>> /\ status # Running /\ frames # <<>>
  BY DEF Returned
<1>2. /\ IsFrame(Frame) /\ IsRecord(machine, MachineFields)
      /\ n \in Nat /\ n \in 1..n /\ Frame = frames[n]
  BY <1>1, TopFrame DEF Inv, Shape
<1>3. status.kind \in Seen \cup Unseen
  BY <1>1, Zenon DEF Inv, Shape
<1>4. PICK X : X = {e \in {machine.nonlocal} : status.kind = "NONLOCAL_EXIT" /\ e.target # Frame.serial}
  BY Zenon
<1>5. \A e \in X : HasAPlace(e, n - 1)
  <2> SUFFICES ASSUME status.kind = "NONLOCAL_EXIT", machine.nonlocal.target # Frame.serial
               PROVE  HasAPlace(machine.nonlocal, n - 1)
    BY <1>4, Zenon
  <2>1. PICK j \in 1..n : /\ frames[j].serial = machine.nonlocal.target
                          /\ machine.nonlocal.is_break =>
                               /\ frames[j].ip = machine.nonlocal.call
                               /\ code[frames[j].def][frames[j].ip].op = "CALL"
    BY Zenon DEF Inv, ExitsHaveAPlace, HasAPlace
  <2>2. j # n
    BY <1>2, <2>1, Zenon
  <2>3. j \in 1..(n - 1)
    <3> HIDE DEF n
    <3> QED BY <1>2, <2>1, <2>2
  <2> QED BY <2>1, <2>3, Zenon DEF HasAPlace
<1>6. CASE Becomes(Next_ip) /\ status' = Running /\ UNCHANGED machine
  <2>1. PICK ip : ip = Frame.ip + 1
    OBVIOUS
  <2> DEFINE g == GoesOn([Frame EXCEPT !.ip = ip], machine)
  <2>2. Handled(Frame, g, X)
    BY <1>2, Moved, Zenon
  <2>3. Takes(g)
    BY <1>6, <2>1 DEF Takes, GoesOn, Next_ip
  <2> HIDE DEF g
  <2> QED BY <1>1, <1>5, <2>2, <2>3, EventTaken, Zenon
<1>7. CASE status.kind # "OK" /\ Takes(r)
  <2>1. Bottom \in BOOLEAN
    BY DEF Bottom
  <2>2. status.kind = "NONLOCAL_EXIT" => machine.nonlocal.target = Frame.serial \/ machine.nonlocal \in X
    BY <1>4
  <2>3. Handled(Frame, r, X)
    BY <1>2, <1>3, <1>7, <2>1, <2>2, PropagatedWith
  <2> HIDE DEF r
  <2> QED BY <1>1, <1>5, <1>7, <2>3, EventTaken, Zenon
<1> HIDE DEF r
<1>8. (Becomes(Next_ip) /\ status' = Running /\ UNCHANGED machine) \/ (status.kind # "OK" /\ Takes(r))
  BY Zenon DEF Returned, r
<1> QED BY <1>6, <1>7, <1>8

\* Every step keeps the invariant, and every clause of every frame.
LEMMA StepKeeps == ASSUME Inv, Next PROVE Inv' /\ EnsuresKept
<1>1. CASE Ended
  <2>1. UNCHANGED vars
    BY <1>1, Zenon DEF Ended
  <2> QED BY <2>1, Stuttering, Zenon
<1> QED BY <1>1, OpStep, ConditionStep, JumpStep, UnlessTypeStep, FailOpStep, RaiseStep, ReturnOpStep,
           PushHandlerStep, PopRescueStep, UnwindJumpStep, RunEnsureStep, EndEnsureStep, ClosureStep,
           CallStep, CallClosureStep, BlockExitStep, ReturnedStep, Zenon DEF Next

(***************************************************************************)
(* The theorems.                                                           *)
(***************************************************************************)

\* The invariant holds in every state the interpreter reaches, whatever the
\* bytecode and the size of the handler array (run_chunk).
THEOREM Invariant == Spec => []Inv
<1>1. Inv /\ [Next]_vars => Inv'
  BY StepKeeps, Stuttering, Zenon
<1> QED BY <1>1, Initially, PTL DEF Spec

\* A block's return or break reaches the frame it is for: nonlocal_exit_arrives
\* never meets a break whose frame is gone, or is in another call than the one the
\* block was written for, even after ensure clauses on the way have run.
THEOREM ExitsLand == Spec => []ExitsHaveAPlace
<1>1. Inv => ExitsHaveAPlace
  BY Zenon DEF Inv
<1> QED BY <1>1, Invariant, PTL

\* Every ensure clause runs once: no return, raise, failure, jump or block's exit
\* leaves a frame with a clause that has not started, starts one twice, or loses
\* what was pending in one that has (enter_ensure, pop_unwind_handler).
THEOREM ClausesRunOnce == Spec => EnsureRunsOnce
<1>1. Inv /\ [Next]_vars => [EnsuresKept]_vars
  BY StepKeeps, Zenon
<1> QED BY <1>1, Invariant, PTL DEF Spec, EnsureRunsOnce

\* No frame has more handlers than its array holds (UnwindHandler
\* handlers[16], guarded only where a handler is pushed).
THEOREM HandlersFit == Spec => [](\A i \in 1..Len(frames) : Len(frames[i].handlers) <= MaxHandlers)
<1>1. Inv => \A i \in 1..Len(frames) : Len(frames[i].handlers) <= MaxHandlers
  BY Zenon DEF Inv, Shape
<1> QED BY <1>1, Invariant, PTL

=============================================================================
