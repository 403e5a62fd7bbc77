--------------------------- MODULE UnwindCompiler ---------------------------
(***************************************************************************)
(* The bytecode that the compiler emits for begin, rescue, else, ensure,   *)
(* retry, loops and blocks, and the promise that running it does what the  *)
(* statements mean.                                                        *)
(*                                                                         *)
(* The program is one def, a method it calls with a block, and that block. *)
(* An ordinary instruction is one traced OP, the condition of a loop or a  *)
(* modifier one CONDITION, and the type test of a rescue clause one        *)
(* instruction.                                                            *)
(***************************************************************************)
EXTENDS Unwind, UnwindSemantics

LOCAL INSTANCE FiniteSetsExt

I(op, arg, target) == [op |-> op, arg |-> arg, target |-> target]

\* Targets that are patched once they are known.
BreakTarget == -1
RescueEnd == -2
patch_jump(emitted, placeholder, target) ==
  [i \in DOMAIN emitted |-> IF emitted[i].target = placeholder
                            THEN [emitted[i] EXCEPT !.target = target] ELSE emitted[i]]

\* The jump of a break, next or redo, which leaves the begin blocks inside the loop.
emit_loop_jump(c, target) ==
  IF c.begin_depth = c.loop.begin_depth THEN <<I("JUMP", None, target)>>
  ELSE <<I("UNWIND_JUMP", c.begin_depth - c.loop.begin_depth, target)>>

\* The jump of a retry, to the installation of the rescue handler.
compile_retry(c) == <<I("JUMP", None, c.retry_target)>>

\* What follows a condition: code that is skipped when it does not hold.
When(base, guarded) == <<I("CONDITION", None, base + 1 + Len(guarded))>> \o guarded

compile_return(at, c) ==
  IF c.def \in Blocks THEN <<I("BLOCK_RETURN", at, 0)>> ELSE <<I("RETURN", at, 0)>>

\* The register whose number is the low byte of another's: that register itself
\* among the first 256, and one of some other value beyond them.
Narrowed == <<"narrowed">>
LowByte(register, c) == IF c.wide THEN Narrowed ELSE register

\* A bare raise names the register of the rescued exception in one byte.
compile_raise(kind, at, c) ==
  <<I("RAISE", IF kind = "reraise" THEN [register |-> LowByte(c.exception, c)]
               ELSE [value |-> at], 0)>>

compile_loop_control(kind, at, c, base) ==
  CASE kind = "next" /\ ~c.loop.inside  -> <<I("RETURN", at, 0)>>
    [] kind = "break" /\ ~c.loop.inside -> <<I("BLOCK_BREAK", at, 0)>>
    [] kind = "break"                   -> emit_loop_jump(c, BreakTarget)
    [] kind = "next"                    -> emit_loop_jump(c, c.loop.continue_target)
    [] kind = "redo"                    -> When(base, emit_loop_jump(c, c.loop.redo_target))

\* A statement that is no block of others; each starts by happening.
compile_simple(s, at, base, c) ==
  LET kind == s[1] IN
  <<I("OP", at, 0)>> \o
  CASE kind = "op"                        -> <<>>
    [] kind \in {"raise", "reraise"}      -> compile_raise(kind, at, c)
    [] kind \in {"error", "flaky", "stop"} -> <<I("FAIL", [kind |-> kind, at |-> at], 0)>>
    [] kind = "return"                    -> compile_return(at, c)
    [] kind \in {"break", "next", "redo"} -> compile_loop_control(kind, at, c, base + 1)
    [] kind = "retry"                     -> When(base + 1, compile_retry(c))
    [] kind = "call"                      -> <<I("CLOSURE", "block", 0), I("CALL", "method", 0)>>
    [] kind = "each"                      -> <<I("CLOSURE", "each_block", 0), I("CALL", "each", 0)>>
    [] kind \in {"yield", "late"}         -> <<I("CALL_CLOSURE", None, 0)>>

RECURSIVE Compile(_, _, _, _), compile_begin(_, _, _, _), compile_rescues(_, _, _, _, _)

\* The code of a statement that starts at the offset base.
Compile(s, at, base, c) ==
  CASE s[1] = "none"  -> <<>>
    [] s[1] = "begin" -> compile_begin(s, at, base, c)
    [] s[1] = "loop"  ->
         LET body == Compile(s[2], Append(at, "body"), base + 1,
                       [c EXCEPT !.loop = [inside |-> TRUE, begin_depth |-> c.begin_depth,
                                           continue_target |-> base, redo_target |-> base + 1]])
             end == base + 2 + Len(body)
         IN <<I("CONDITION", None, end)>> \o patch_jump(body, BreakTarget, end)
              \o <<I("JUMP", None, base)>>
    [] OTHER          -> compile_simple(s, at, base, c)

\* The rescue clauses from the i-th on, each ending in a jump to the end of
\* them all; an exception that none of them names is raised again.
compile_rescues(s, i, at, base, c) ==
  LET clauses == s[3] IN
  IF i > Len(clauses)
  THEN IF i = 1 THEN <<>> ELSE <<I("RAISE", [register |-> c.exception], 0)>>
  ELSE
    LET tested == clauses[i].types # {}
        start == base + (IF tested THEN 1 ELSE 0)
        body == Compile(clauses[i].body, at \o <<"rescue", i>>, start, c)
        after == start + Len(body) + 1
        clause == body \o <<I("JUMP", None, RescueEnd)>>
    IN IF tested
       THEN <<I("UNLESS_TYPE", [register |-> c.exception, types |-> clauses[i].types], after)>>
              \o clause \o compile_rescues(s, i + 1, at, after, c)
       ELSE clause

\* open_begin_frame, the body, and close_begin_frame.
compile_begin(s, at, base, outer) ==
  LET c == [outer EXCEPT !.begin_depth = @ + 1]
      rescuing == [c EXCEPT !.exception = at, !.retry_target = base + 1]
      body == Compile(s[2], Append(at, "body"), base + 2, c)
      handler == base + 2 + Len(body) + 2
      rescues == compile_rescues(s, 1, at, handler, rescuing)
      end == handler + Len(rescues)
      else == Compile(s[4], Append(at, "else"), end, c)
      run == end + Len(else)
      ensure == Compile(s[5], Append(at, "ensure"), run + 1, c)
  IN <<I("PUSH_ENSURE", None, run + 1),
       I("PUSH_RESCUE", [register |-> at, enabled |-> s[3] # <<>>], handler)>>
     \o body
     \o <<I("POP_RESCUE", None, 0), I("JUMP", None, end)>>
     \o patch_jump(rescues, RescueEnd, run)
     \o else
     \o <<I("RUN_ENSURE", None, run + 1 + Len(ensure) + 1)>>
     \o ensure
     \o <<I("END_ENSURE", None, 0)>>

\* A def or a block: its statement, and the return of what it ends with.
\* It is wide if the registers of its exceptions are not among the first 256.
compile_body(s, def, wide) ==
  LET c == [def |-> def, wide |-> wide, begin_depth |-> 0, exception |-> None, retry_target |-> 0,
            loop |-> [inside |-> FALSE]]
      body == Compile(s, <<def>>, 1, c)
  IN body \o (IF def = "main" THEN <<I("OP", <<"main", "end">>, 0)>> ELSE <<>>)
          \o <<I("RETURN", None, 0)>>

Compiled(p) ==
  [main |-> compile_body(p.main, "main", p.wide),
   method |-> compile_body(p.method, "method", p.wide),
   block |-> compile_body(p.block, "block", p.wide),
   each |-> compile_body(<<"yield">>, "each", FALSE),
   each_block |-> compile_body(<<"break">>, "each_block", FALSE)]

\* How the program ended, in the terms of its meaning.
Ending ==
  CASE status.kind = "OK"            -> Outcome("return", status.at)
    [] status.kind = "EXCEPTION"     -> Outcome("raise", Exception(machine.exception.class,
                                                                   machine.exception.at))
    [] status.kind = "RUNTIME_ERROR" -> Outcome("raise", Exception(Runtime, status.at))
    [] status.kind = "INTERRUPTED"   -> Outcome("stop", status.at)
    [] OTHER                         -> Outcome("broken", status.kind)

\* The handlers that running a statement puts on its frame's stack: a begin block
\* has two while its body runs and one while another clause of it does.
RECURSIVE HandlersNeeded(_)
HandlersNeeded(s) ==
  CASE s[1] = "begin" ->
         LET clauses == {s[4], s[5]} \cup {s[3][i].body : i \in DOMAIN s[3]}
         IN Max({2 + HandlersNeeded(s[2])} \cup {1 + HandlersNeeded(t) : t \in clauses})
    [] s[1] = "loop"  -> HandlersNeeded(s[2])
    [] OTHER          -> 0

\* The two things that the compiler does not check: that the handlers of a def fit
\* the array of its frame, and that a bare raise names its register in one byte.
Fits(p) ==
  /\ \A s \in {p.main, p.method, p.block} : HandlersNeeded(s) <= MaxHandlers
  /\ \A def \in DOMAIN code : \A i \in DOMAIN code[def] :
       code[def][i].op = "RAISE" => code[def][i].arg # [register |-> Narrowed]

\* The bytecode of compile_begin and its handlers at run time do what the
\* statements mean: the same statements happen in the same order, each rescue,
\* else and ensure clause runs when it should and as often, and the program ends
\* the same way, with the same value or exception.  Two kinds of programs are
\* excepted: one that nests more begin blocks in a def than a frame has handlers
\* for (PUSH_RESCUE and PUSH_ENSURE refuse the seventeenth), and one with a bare
\* raise in a def that uses more than 256 registers (compile_raise casts the
\* number of the register to uint8_t).
RunsAsWritten ==
  frames = <<>> /\ Fits(program) =>
    [trace |-> trace, out |-> Ending] = Meaning(program)

=============================================================================
