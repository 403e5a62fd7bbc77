-------------------------------- MODULE Unwind --------------------------------
(***************************************************************************)
(* Leaving blocks of code: the interpreter that runs the bytecode of       *)
(* begin, rescue, else, ensure, retry, loops and blocks with a stack of    *)
(* handlers in each frame.                                                 *)
(*                                                                         *)
(* An instruction is [op, arg, target].  A CONDITION holds while there is  *)
(* fuel.  A text that vm->error may hold is named by the statement it is   *)
(* about.                                                                  *)
(***************************************************************************)
EXTENDS UnwindTerms, FiniteSets

CONSTANTS
  Programs,     \* the programs to run
  CodeOf(_),    \* the bytecode of a program: the instructions of each def
  MaxHandlers   \* the size of a frame's handler array: 16 in the code

ASSUME MaxHandlersIsNat == MaxHandlers \in Nat

\* A block is written for the call that follows it: its block_call_offset.
ASSUME BlocksHaveCalls ==
  \A p \in Programs : \A def \in DOMAIN CodeOf(p) : \A n \in DOMAIN CodeOf(p)[def] :
    CodeOf(p)[def][n].op = "CLOSURE" => CodeOf(p)[def][n + 1].op = "CALL"

VARIABLES
  program,       \* the program that runs
  code,          \* its bytecode
  frames,        \* the stack of run_chunk calls
  status,        \* Running, or what the call the top frame makes has returned
  machine,       \* vm->error, vm->exception and the vm->nonlocal_ fields; of a
                 \* block's exit also, as history, the call its block is written for
  fuel,          \* repetitions left
  trace,         \* the statements that happened
  frame_serial,  \* vm->frame_serial
  block          \* the block that the def last wrote

vars == <<program, code, frames, status, machine, fuel, trace, frame_serial, block>>

(***************************************************************************)
(* The handlers of a frame.                                                *)
(***************************************************************************)

Pending(kind, value) == [kind |-> kind, value |-> value]
PendingNone == Pending("NONE", None)
Top(s) == s[Len(s)]

Outermost(handlers) == CHOOSE k \in handlers : \A n \in handlers : k <= n

\* Takes the handlers above the k-th off.  An active ensure is a boundary that
\* kept what was pending: that comes back, of several the outermost's.
Unwound(f, k) ==
  LET active == {n \in (k + 1)..Len(f.handlers) : f.handlers[n].kind = "ACTIVE_ENSURE"}
  IN [f EXCEPT !.handlers = SubSeq(@, 1, k),
               !.pending = IF active = {} THEN @ ELSE f.handlers[Outermost(active)].saved_pending]

pop_unwind_handler(f) == Unwound(f, Len(f.handlers) - 1)

\* Mutant: the clause that is entered forgets what was pending.
EnterForgets(f, next) ==
  [f EXCEPT !.handlers[Len(f.handlers)] = [@ EXCEPT !.kind = "ACTIVE_ENSURE"],
            !.pending = next,
            !.ip = Top(f.handlers).target]

enter_ensure(f, next) ==
  [f EXCEPT !.handlers[Len(f.handlers)] = [@ EXCEPT !.kind = "ACTIVE_ENSURE",
                                                    !.saved_pending = f.pending],
            !.pending = next,
            !.ip = Top(f.handlers).target]

Push(f, kind, pushed) ==
  [f EXCEPT !.handlers = Append(@, [kind |-> kind, target |-> pushed.target,
                                    arg |-> pushed.arg, saved_pending |-> PendingNone]),
            !.ip = @ + 1]

\* The ensure clauses that have not started, and the innermost of some handlers,
\* 0 when there is none.
Ensures(f) == {k \in DOMAIN f.handlers : f.handlers[k].kind = "ENSURE"}
Innermost(handlers) == CHOOSE k \in handlers \cup {0} : \A n \in handlers : n <= k

DropToEnsure(f) == Unwound(f, Innermost(Ensures(f)))

\* Mutant: a jump leaves the ensure clauses that have not started as it leaves
\* the active ones.
JumpLeavesEnsures(f, levels, target) ==
  LET left(k) == Cardinality({n \in (k + 1)..Len(f.handlers) : f.handlers[n].kind # "RESCUE"})
      k == Innermost({n \in 0..Len(f.handlers) : left(n) = levels})
  IN [valid |-> left(k) = levels, frame |-> [Unwound(f, k) EXCEPT !.ip = target]]

\* Where a jump out of some begin levels takes the frame: to its target once it
\* has left as many active ensures, or into the first ensure that it meets.
unwind_for_jump(f, levels, target) ==
  LET left(k) == Cardinality({n \in (k + 1)..Len(f.handlers) : f.handlers[n].kind = "ACTIVE_ENSURE"})
      k == Innermost({n \in 0..Len(f.handlers) : n \in Ensures(f) \/ left(n) = levels})
  IN IF left(k) = levels THEN [valid |-> TRUE, frame |-> [Unwound(f, k) EXCEPT !.ip = target]]
     ELSE IF k = 0 THEN [valid |-> FALSE, frame |-> f]
     ELSE [valid |-> TRUE, frame |->
             enter_ensure(Unwound(f, k),
                          Pending("JUMP", [continuation |-> target, levels |-> levels - left(k) - 1]))]

\* What a frame makes of an event: it goes on, or it is left with a status.
GoesOn(f, vm) == [goes_on |-> TRUE, frame |-> f, vm |-> vm]
IsLeft(result, vm) == [goes_on |-> FALSE, status |-> result, vm |-> vm]
Status(kind, at) == [kind |-> kind, at |-> at]
Invalid == Status("INVALID_BYTECODE", None)

Write(f, register, value) ==
  [f EXCEPT !.registers = [r \in DOMAIN @ \cup {register} |-> IF r = register THEN value ELSE @[r]]]

\* RECORD_ERROR: vm.error keeps the first failure it is told of.
RecordError(failure, vm) ==
  IF failure.kind # "OK" /\ vm.error = None THEN [vm EXCEPT !.error = failure.at] ELSE vm

\* Looks for a handler of vm.exception.  Only a rescue clause forgets vm.error.
catch_exception(f, vm) ==
  LET rescues == {n \in DOMAIN f.handlers : f.handlers[n].kind = "RESCUE" /\ f.handlers[n].arg.enabled}
      k == Innermost(Ensures(f) \cup rescues)
      uncaught == Status("EXCEPTION", vm.exception.message)
  IN IF k = 0 THEN IsLeft(uncaught, RecordError(uncaught, vm))
     ELSE IF k \in Ensures(f)
     THEN GoesOn(enter_ensure(Unwound(f, k), Pending("EXCEPTION", vm.exception)), vm)
     ELSE GoesOn([Write(Unwound(f, k - 1), f.handlers[k].arg.register, vm.exception)
                    EXCEPT !.ip = f.handlers[k].target],
                 [vm EXCEPT !.error = None])

\* exception_class_for_status: the statuses that become an exception.
BecomesException(failure) == failure.kind = "RUNTIME_ERROR"
Unseen == {"INTERRUPTED", "INVALID_BYTECODE"}

\* Makes an exception of a status in the first frame that has a handler; its
\* message is the text in vm.error, when there is one.
catch_runtime_error(f, failure, vm) ==
  LET text == IF vm.error = None THEN failure.at ELSE vm.error
      exception == [class |-> Runtime, at |-> failure.at, message |-> text]
  IN catch_exception(f, [vm EXCEPT !.exception = exception, !.error = text])

\* A status that a frame with handlers may make an exception of.
Fail(f, failure, vm) ==
  IF f.handlers # <<>> /\ BecomesException(failure) THEN catch_runtime_error(f, failure, vm)
  ELSE IsLeft(failure, RecordError(failure, vm))

\* A frame starts or receives a non-local exit: its target lands a break in the
\* call it is in, or returns; every frame runs its ensure clauses first.
nonlocal_exit_arrives(f, vm, bottom) ==
  LET exit == vm.nonlocal
      here == exit.target = f.serial
      lands == code[f.def][f.ip].op \in {"CALL", "CALL_CLOSURE"}
      g == DropToEnsure(f)
      cleared == [vm EXCEPT !.nonlocal.target = 0, !.nonlocal.value = None]
      invalid == Status("RUNTIME_ERROR", exit.value)
  IN CASE here /\ exit.is_break ->
            IF lands THEN GoesOn([f EXCEPT !.ip = @ + 1], cleared)
            ELSE Fail(f, invalid, [vm EXCEPT !.error = exit.value])
       [] ~(here /\ exit.is_break) /\ g.handlers # <<>> ->
            IF here THEN GoesOn(enter_ensure(g, Pending("RETURN", exit.value)), cleared)
                    ELSE GoesOn(enter_ensure(g, Pending("NONLOCAL", exit)), vm)
       [] here /\ ~exit.is_break /\ g.handlers = <<>> ->
            IsLeft(Status("OK", exit.value), cleared)
       [] ~here /\ g.handlers = <<>> ->
            IF bottom THEN Fail(g, invalid, [cleared EXCEPT !.error = exit.value])
                      ELSE IsLeft(Status("NONLOCAL_EXIT", None), vm)

VM_RETURN(f, failure, vm, bottom) ==
  IF failure.kind = "NONLOCAL_EXIT" THEN nonlocal_exit_arrives(f, vm, bottom)
  ELSE Fail(f, failure, vm)

VM_PROPAGATE(f, failure, vm, bottom) ==
  IF failure.kind = "EXCEPTION" THEN catch_exception(f, vm)
  ELSE VM_RETURN(f, failure, vm, bottom)

\* A return, or one that an ensure clause delayed.
Return(f, value, vm) ==
  LET g == DropToEnsure(f)
  IN IF g.handlers # <<>> THEN GoesOn(enter_ensure(g, Pending("RETURN", value)), vm)
     ELSE IsLeft(Status("OK", value), vm)

(***************************************************************************)
(* The interpreter: one action for each kind of instruction, and one for   *)
(* the return of a call.                                                   *)
(***************************************************************************)
Running == Status("RUNNING", None)
NoClosure == [break_target |-> 0, return_target |-> 0, break_call_offset |-> 0, def |-> "none"]

NewFrame(def, closure, serial) ==
  [def |-> def, ip |-> 1, handlers |-> <<>>, pending |-> PendingNone, registers |-> <<>>,
   block_register |-> NoClosure, serial |-> serial, closure |-> closure,
   home |-> IF closure.def = def /\ closure.return_target # 0 THEN closure.return_target ELSE serial]

Init ==
  /\ program \in Programs /\ code = CodeOf(program)
  /\ frames = <<NewFrame("main", NoClosure, 1)>>
  /\ status = Running
  /\ machine = [error |-> None, exception |-> None,
                nonlocal |-> [target |-> 0, is_break |-> FALSE, value |-> None, call |-> 0]]
  /\ fuel = Fuel /\ trace = <<>> /\ frame_serial = 1 /\ block = NoClosure

Frame == Top(frames)
Bottom == Len(frames) = 1
Instruction == code[Frame.def][Frame.ip]
Executes(op) ==
  /\ status = Running /\ frames # <<>>
  /\ Frame.def \in DOMAIN code /\ Frame.ip \in DOMAIN code[Frame.def]
  /\ Instruction.op = op

Becomes(f) == frames' = [frames EXCEPT ![Len(frames)] = f]
Next_ip == [Frame EXCEPT !.ip = @ + 1]

\* The whole effect of an event on the top frame.
Takes(r) ==
  /\ machine' = r.vm
  /\ IF r.goes_on THEN Becomes(r.frame) /\ status' = Running
     ELSE frames' = SubSeq(frames, 1, Len(frames) - 1) /\ status' = r.status

Fails(st) == Takes(VM_RETURN(Frame, st, machine, Bottom))

Op ==
  /\ Executes("OP")
  /\ trace' = Append(trace, Instruction.arg)
  /\ Becomes(Next_ip)
  /\ UNCHANGED <<program, code, status, machine, fuel, frame_serial, block>>

Condition ==
  /\ Executes("CONDITION")
  /\ IF fuel > 0 THEN fuel' = fuel - 1 /\ Becomes(Next_ip)
     ELSE fuel' = fuel /\ Becomes([Frame EXCEPT !.ip = Instruction.target])
  /\ UNCHANGED <<program, code, status, machine, trace, frame_serial, block>>

Jump ==
  /\ Executes("JUMP")
  /\ Becomes([Frame EXCEPT !.ip = Instruction.target])
  /\ UNCHANGED <<program, code, status, machine, fuel, trace, frame_serial, block>>

UnlessType ==
  /\ Executes("UNLESS_TYPE")
  /\ Becomes(IF Frame.registers[Instruction.arg.register].class \in Instruction.arg.types
             THEN Next_ip ELSE [Frame EXCEPT !.ip = Instruction.target])
  /\ UNCHANGED <<program, code, status, machine, fuel, trace, frame_serial, block>>

\* An instruction that fails with a runtime error, for as long as there is fuel
\* if it is flaky, or with a status that no handler sees.
FailOp ==
  /\ Executes("FAIL")
  /\ LET kind == Instruction.arg.kind IN
     IF kind = "flaky" /\ fuel = 0
     THEN Becomes(Next_ip) /\ UNCHANGED <<status, machine>>
     ELSE Fails(Status(IF kind = "stop" THEN "INTERRUPTED" ELSE "RUNTIME_ERROR", Instruction.arg.at))
  /\ UNCHANGED <<program, code, fuel, trace, frame_serial, block>>

\* A register that no handler wrote holds a value that the def computed.
Register(f, r) ==
  IF r \in DOMAIN f.registers THEN f.registers[r]
  ELSE [class |-> Ordinary, at |-> r, message |-> r]

Raise ==
  /\ Executes("RAISE")
  /\ LET arg == Instruction.arg
         value == IF "register" \in DOMAIN arg THEN Register(Frame, arg.register)
                  ELSE [class |-> Raised, at |-> arg.value, message |-> arg.value]
     IN Takes(catch_exception(Frame, [machine EXCEPT !.exception = value]))
  /\ UNCHANGED <<program, code, fuel, trace, frame_serial, block>>

ReturnOp ==
  /\ Executes("RETURN")
  /\ Takes(Return(Frame, Instruction.arg, machine))
  /\ UNCHANGED <<program, code, fuel, trace, frame_serial, block>>

PushHandler ==
  /\ Executes("PUSH_RESCUE") \/ Executes("PUSH_ENSURE")
  /\ IF Len(Frame.handlers) = MaxHandlers THEN Fails(Invalid)
     ELSE /\ Becomes(Push(Frame, IF Instruction.op = "PUSH_RESCUE" THEN "RESCUE" ELSE "ENSURE",
                          Instruction))
          /\ UNCHANGED <<status, machine>>
  /\ UNCHANGED <<program, code, fuel, trace, frame_serial, block>>

TopHandler == IF Frame.handlers = <<>> THEN "none" ELSE Top(Frame.handlers).kind

PopRescue ==
  /\ Executes("POP_RESCUE")
  /\ IF TopHandler # "RESCUE" THEN Fails(Invalid)
     ELSE Becomes(pop_unwind_handler(Next_ip)) /\ UNCHANGED <<status, machine>>
  /\ UNCHANGED <<program, code, fuel, trace, frame_serial, block>>

UnwindJump ==
  /\ Executes("UNWIND_JUMP")
  /\ LET j == unwind_for_jump(Frame, Instruction.arg, Instruction.target)
     IN IF j.valid THEN Becomes(j.frame) /\ UNCHANGED <<status, machine>> ELSE Fails(Invalid)
  /\ UNCHANGED <<program, code, fuel, trace, frame_serial, block>>

RunEnsure ==
  /\ Executes("RUN_ENSURE")
  /\ IF TopHandler # "ENSURE" THEN Fails(Invalid)
     ELSE /\ Becomes(enter_ensure(Frame, Pending("NORMAL", Instruction.target)))
          /\ UNCHANGED <<status, machine>>
  /\ UNCHANGED <<program, code, fuel, trace, frame_serial, block>>

\* What an ensure clause that ends normally goes on with.
ResumePending(f, resume, vm, bottom) ==
  CASE resume.kind = "NORMAL"    -> GoesOn([f EXCEPT !.ip = resume.value], vm)
    [] resume.kind = "JUMP"      ->
         LET j == unwind_for_jump(f, resume.value.levels, resume.value.continuation)
         IN IF j.valid THEN GoesOn(j.frame, vm) ELSE VM_RETURN(f, Invalid, vm, bottom)
    [] resume.kind = "RETURN"    -> Return(f, resume.value, vm)
    [] resume.kind = "NONLOCAL"  ->
         VM_RETURN(f, Status("NONLOCAL_EXIT", None), [vm EXCEPT !.nonlocal = resume.value], bottom)
    [] resume.kind = "EXCEPTION" ->
         catch_exception(f, [vm EXCEPT !.exception = resume.value])
    [] OTHER                     -> VM_RETURN(f, Invalid, vm, bottom)

EndEnsure ==
  /\ Executes("END_ENSURE")
  /\ IF TopHandler # "ACTIVE_ENSURE" THEN Fails(Invalid)
     ELSE Takes(ResumePending(pop_unwind_handler(Frame), Frame.pending, machine, Bottom))
  /\ UNCHANGED <<program, code, fuel, trace, frame_serial, block>>

\* The closure of a block knows the call it is written for: the next instruction.
\* It stays in a register, and the def's own block stays within reach.
Closure ==
  /\ Executes("CLOSURE")
  /\ LET created == [break_target |-> Frame.serial, return_target |-> Frame.home,
                     break_call_offset |-> Frame.ip + 1, def |-> Instruction.arg]
     IN /\ Becomes([Next_ip EXCEPT !.block_register = created])
        /\ block' = IF created.def = "block" THEN created ELSE block
  /\ UNCHANGED <<program, code, status, machine, fuel, trace, frame_serial>>

Calls(def, closure) ==
  /\ frames' = Append(frames, NewFrame(def, closure, frame_serial + 1))
  /\ frame_serial' = frame_serial + 1

Call ==
  /\ Executes("CALL")
  /\ Calls(Instruction.arg, Frame.block_register)
  /\ UNCHANGED <<program, code, status, machine, fuel, trace, block>>

\* A yield calls the block that the frame was given; a late call the block that
\* the def wrote, if it has.
CallClosure ==
  /\ Executes("CALL_CLOSURE")
  /\ LET closure == IF Frame.closure = NoClosure THEN block ELSE Frame.closure
     IN IF closure = NoClosure THEN Becomes(Next_ip) /\ UNCHANGED frame_serial
        ELSE Calls(closure.def, closure)
  /\ UNCHANGED <<program, code, status, machine, fuel, trace, block>>

\* Mutant: a break for any call of the def that wrote the block.
LiveInAnyCall(target, is_break) ==
  \E i \in 1..Len(frames) : frames[i].serial = target /\ (is_break => i < Len(frames))

\* Is the frame that a block's return or break is for still there, and for a
\* break still in the call that the block was written for?
Live(target, is_break) ==
  \E i \in 1..Len(frames) :
    /\ frames[i].serial = target
    /\ is_break => i < Len(frames) /\ frames[i].ip = Frame.closure.break_call_offset

BlockExit ==
  /\ Executes("BLOCK_RETURN") \/ Executes("BLOCK_BREAK")
  /\ LET is_break == Instruction.op = "BLOCK_BREAK"
         target == IF is_break THEN Frame.closure.break_target ELSE Frame.closure.return_target
         exit == [target |-> target, is_break |-> is_break, value |-> Instruction.arg,
                  call |-> Frame.closure.break_call_offset]
     IN Takes(IF Live(target, is_break)
              THEN VM_RETURN(Frame, Status("NONLOCAL_EXIT", None),
                             [machine EXCEPT !.nonlocal = exit], Bottom)
              ELSE VM_RETURN(Frame, Status("RUNTIME_ERROR", Instruction.arg),
                             [machine EXCEPT !.error = Instruction.arg], Bottom))
  /\ UNCHANGED <<program, code, fuel, trace, frame_serial, block>>

\* The call that the top frame makes has ended.
Returned ==
  /\ status # Running /\ frames # <<>>
  /\ IF status.kind = "OK" THEN Becomes(Next_ip) /\ status' = Running /\ UNCHANGED machine
     ELSE Takes(VM_PROPAGATE(Frame, status, machine, Bottom))
  /\ UNCHANGED <<program, code, fuel, trace, frame_serial, block>>

\* The program is over.
Ended == frames = <<>> /\ UNCHANGED vars

Next ==
  \/ Op \/ Condition \/ Jump \/ UnlessType \/ FailOp \/ Raise \/ ReturnOp
  \/ PushHandler \/ PopRescue \/ UnwindJump \/ RunEnsure \/ EndEnsure
  \/ Closure \/ Call \/ CallClosure \/ BlockExit \/ Returned \/ Ended

Spec == Init /\ [][Next]_vars

(***************************************************************************)
(* Properties.                                                             *)
(***************************************************************************)

\* The waiting and the kept continuations of a frame.
Waiting(f) == {f.pending} \cup {f.handlers[k].saved_pending : k \in DOMAIN f.handlers}

\* The frame that a block's return or break is for, one of the first n: a break
\* finds it in the call that the block was written for.
HasAPlace(exit, n) ==
  \E j \in 1..n : /\ frames[j].serial = exit.target
                  /\ exit.is_break => /\ frames[j].ip = exit.call
                                      /\ code[frames[j].def][frames[j].ip].op = "CALL"

\* A block's return or break (BLOCK_RETURN, BLOCK_BREAK) reaches the frame it is
\* for: while it is under way, and while it waits for an ensure clause of some
\* frame to end, that frame is below, and for a break still in the call that the
\* block was written for, whatever the clause has run meanwhile.
ExitsHaveAPlace ==
  /\ status.kind = "NONLOCAL_EXIT" => HasAPlace(machine.nonlocal, Len(frames))
  /\ \A i \in 1..Len(frames) : \A p \in Waiting(frames[i]) :
       p.kind = "NONLOCAL" => HasAPlace(p.value, i - 1)

\* What one step may make of a frame's handlers: an ensure clause that has not
\* started stays, or starts at its target; one that has started does not start
\* again, and keeps what was pending until it ends.
HandlersKept(f, g) ==
  \A k \in DOMAIN f.handlers :
    /\ f.handlers[k].kind = "ENSURE" =>
         /\ k \in DOMAIN g.handlers
         /\ \/ g.handlers[k] = f.handlers[k]
            \/ g.handlers[k].kind = "ACTIVE_ENSURE" /\ g.ip = f.handlers[k].target
    /\ f.handlers[k].kind = "ACTIVE_ENSURE" /\ k \in DOMAIN g.handlers => g.handlers[k] = f.handlers[k]

\* A step keeps the handlers of every frame that stays; only a status that
\* becomes no exception ends a frame whose ensure clauses have not started.
EnsuresKept ==
  \A i \in DOMAIN frames :
    IF i \in DOMAIN frames' THEN HandlersKept(frames[i], frames'[i])
    ELSE Ensures(frames[i]) = {} \/ status'.kind \in Unseen

\* An ensure clause (PUSH_ENSURE) runs, and runs once, whatever leaves the code
\* around it: a return, a raise, a failure, a jump or a block's exit.
EnsureRunsOnce == [][EnsuresKept]_vars

\* A rescued exception carries its own message (catch_runtime_error takes it
\* from vm->error), whatever failed and was discarded before.
MessageIsItsOwn ==
  \A i \in 1..Len(frames) : \A r \in DOMAIN frames[i].registers :
    frames[i].registers[r].message = frames[i].registers[r].at

=============================================================================
