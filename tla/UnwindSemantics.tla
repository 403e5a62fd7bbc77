--------------------------- MODULE UnwindSemantics ---------------------------
(***************************************************************************)
(* The control statements of a def, a method it calls and the block it     *)
(* passes, and what running them means: the promise that the bytecode of   *)
(* UnwindCompiler keeps.                                                   *)
(*                                                                         *)
(* A statement is a tuple that starts with its kind.  The simple ones are  *)
(*   "op"        one that does nothing but happen                          *)
(*   "raise"     raises a new exception;  "reraise" raises the rescued one *)
(*   "error"     a runtime error;  "flaky" one that stops failing          *)
(*   "stop"      a status no rescue or ensure clause sees (an interrupt)   *)
(*   "return", "break", "next", "redo", "retry"                            *)
(*   "call"      calls the method with the block;  "yield" calls the block *)
(*   "late"      calls the block again, outside the call it was written for*)
(*   "each"      calls a method with a block of its own, which breaks      *)
(* and the others are                                                      *)
(*   <<"begin", body, rescues, else, ensure>>  and  <<"loop", body>>       *)
(* where rescues is a sequence of [types, body], with no types for a catch *)
(* all.  Fuel bounds what a program may repeat: a loop goes round, and a   *)
(* redo or a retry is taken, while there is some.                          *)
(***************************************************************************)
EXTENDS UnwindTerms

Blocks == {"block", "each_block"}

Exception(class, at) == [class |-> class, at |-> at]

Outcome(kind, value) == [kind |-> kind, value |-> value]
Normal == Outcome("normal", None)

Catches(clause, exception) == clause.types = {} \/ exception.class \in clause.types

\* Does the outcome end the repetition of a loop that it meets?
LeavesLoop(out) == out.kind \notin {"normal", "next", "redo", "break"}

\* What a simple statement does in a scope: the def it is written in, whether
\* a loop of that def encloses it, the rescued exception, and whether the block
\* runs inside the call it was written for.
Simple(s, at, scope, fuel) ==
  LET kind == s[1] IN
  CASE kind = "raise"                       -> Outcome("raise", Exception(Raised, at))
    [] kind = "reraise"                     -> Outcome("raise", scope.rescued)
    [] kind = "error"                       -> Outcome("raise", Exception(Runtime, at))
    [] kind = "flaky" /\ fuel > 0           -> Outcome("raise", Exception(Runtime, at))
    [] kind = "stop"                        -> Outcome("stop", at)
    [] kind = "return" /\ scope.def \notin Blocks -> Outcome("return", at)
    [] kind = "return" /\ scope.def \in Blocks -> Outcome("block_return", at)
    [] kind = "break" /\ scope.loop         -> Outcome("break", at)
    [] kind = "break" /\ ~scope.loop        ->
         IF scope.inside_call THEN Outcome("block_break", at)
                              ELSE Outcome("raise", Exception(Runtime, at))
    [] kind = "next" /\ scope.loop          -> Outcome("next", at)
    [] kind = "next" /\ ~scope.loop         -> Outcome("return", at)
    [] kind \in {"redo", "retry"} /\ fuel > 0 -> Outcome(kind, at)
    [] OTHER                                -> Normal

\* What a call of a def makes of the way its body ended.  A block's return and
\* break are for the def that wrote the block.
CallOutcome(out) ==
  IF out.kind = "return" THEN Normal ELSE out

RECURSIVE Run(_, _, _, _, _), RunBegin(_, _, _, _, _), RunLoop(_, _, _, _, _)

\* Runs a statement of program p from a store (the fuel, the events so far and
\* whether the block exists) to an outcome and a store.
Run(p, s, at, scope, store) ==
  LET kind == s[1]
      seen == [store EXCEPT !.trace = Append(@, at)]
      inner(def) == [def |-> def, loop |-> FALSE, rescued |-> None,
                     inside_call |-> scope.inside_call]
  IN
  CASE kind = "none"  -> [out |-> Normal, store |-> store]
    [] kind = "begin" -> RunBegin(p, s, at, scope, store)
    [] kind = "loop"  -> RunLoop(p, s, at, scope, store)
    [] kind = "call"  ->
         LET r == Run(p, p.method, <<"method">>, [inner("method") EXCEPT !.inside_call = TRUE],
                      [seen EXCEPT !.block = TRUE])
             out == IF r.out.kind = "block_break" THEN Normal ELSE CallOutcome(r.out)
         IN [r EXCEPT !.out = IF out.kind = "block_return"
                              THEN Outcome("return", out.value) ELSE out]
    [] kind = "yield" ->
         LET r == Run(p, p.block, <<"block">>, inner("block"), seen)
         IN [r EXCEPT !.out = CallOutcome(@)]
    [] kind = "each"  ->
         [out |-> Normal, store |-> [seen EXCEPT !.trace = @ \o <<<<"each">>, <<"each_block">>>>]]
    [] kind = "late"  ->
         IF ~store.block THEN [out |-> Normal, store |-> seen]
         ELSE LET r == Run(p, p.block, <<"block">>,
                           [inner("block") EXCEPT !.inside_call = FALSE], seen)
                  out == CallOutcome(r.out)
              IN [r EXCEPT !.out = IF out.kind = "block_return"
                                   THEN Outcome("return", out.value) ELSE out]
    [] OTHER          ->
         LET out == Simple(s, at, scope, store.fuel)
         IN [out |-> out,
             store |-> IF out.kind \in {"redo", "retry"}
                       THEN [seen EXCEPT !.fuel = @ - 1] ELSE seen]

\* begin: the first clause that catches what the body raised, or the else
\* clause when it raised nothing, then the ensure clause whatever happened; an
\* ensure clause that does not end normally replaces what was under way.
RunBegin(p, s, at, scope, store) ==
  LET body == Run(p, s[2], Append(at, "body"), scope, store)
      raised == body.out.kind = "raise"
      catching == {i \in 1..Len(s[3]) : raised /\ Catches(s[3][i], body.out.value)}
      clause == CHOOSE i \in catching : \A j \in catching : i <= j
      handled ==
        IF catching # {}
        THEN Run(p, s[3][clause].body, at \o <<"rescue", clause>>,
                 [scope EXCEPT !.rescued = body.out.value], body.store)
        ELSE IF body.out.kind = "normal"
        THEN Run(p, s[4], Append(at, "else"), scope, body.store)
        ELSE body
      ensured == Run(p, s[5], Append(at, "ensure"), scope, handled.store)
  IN
  CASE catching # {} /\ handled.out.kind = "retry" -> RunBegin(p, s, at, scope, handled.store)
    [] handled.out.kind = "stop"     -> handled
    [] ensured.out.kind = "normal"   -> [ensured EXCEPT !.out = handled.out]
    [] OTHER                         -> ensured

\* while there is fuel: a redo runs the body again without asking.
RunLoop(p, s, at, scope, store) ==
  LET RECURSIVE Body(_)
      Body(before) ==
        LET r == Run(p, s[2], Append(at, "body"), [scope EXCEPT !.loop = TRUE], before)
        IN IF r.out.kind = "redo" THEN Body(r.store) ELSE r
      r == Body([store EXCEPT !.fuel = @ - 1])
  IN
  CASE store.fuel = 0          -> [out |-> Normal, store |-> store]
    [] LeavesLoop(r.out)       -> r
    [] r.out.kind = "break"    -> [r EXCEPT !.out = Normal]
    [] OTHER                   -> RunLoop(p, s, at, scope, r.store)

\* The events of a run of the whole program and how it ends.  An op follows
\* the statement of the def that the program starts in.
Meaning(p) ==
  LET scope == [def |-> "main", loop |-> FALSE, rescued |-> None, inside_call |-> FALSE]
      r == Run(p, p.main, <<"main">>, scope, [fuel |-> Fuel, trace |-> <<>>, block |-> FALSE])
  IN IF r.out.kind = "normal"
     THEN [trace |-> Append(r.store.trace, <<"main", "end">>), out |-> Outcome("return", None)]
     ELSE [trace |-> r.store.trace, out |-> r.out]

=============================================================================
