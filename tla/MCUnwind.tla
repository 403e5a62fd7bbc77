------------------------------ MODULE MCUnwind ------------------------------
(***************************************************************************)
(* The programs that TLC runs through Unwind: every way of leaving a       *)
(* clause, in every clause of a begin block, alone, in a loop, nested in   *)
(* another begin block, and across a method call and its block.            *)
(***************************************************************************)
EXTENDS UnwindCompiler

S(kind) == <<kind>>
Leaves(kinds) == {S(k) : k \in kinds}
Begin(body, rescues, else, ensure) == <<"begin", body, rescues, else, ensure>>
CatchAll(s) == <<[types |-> {}, body |-> s]>>
Only(class, s) == <<[types |-> {class}, body |-> s]>>
Loop(s) == <<"loop", s>>

\* The parser takes an else clause only after a rescue clause.  An ensure clause
\* that is left out is an empty one.
Written(begins) == {s \in begins : s[3] = <<>> => s[4] = None}

Program(m, called, passed) ==
  [main |-> m, method |-> called, block |-> passed, wide |-> FALSE]
Alone(m) == Program(m, None, None)

\* One begin block, inside a loop.
Single ==
  {Alone(Loop(s)) : s \in Written({Begin(b, r, l, e) :
     b \in Leaves({"op", "raise", "error", "flaky", "stop", "return", "break", "next", "redo"}),
     r \in {<<>>, CatchAll(S("retry")), CatchAll(S("reraise")), CatchAll(S("next")), Only(Runtime, S("break")),
            Only(Runtime, S("op")) \o Only(Raised, S("raise"))},
     l \in Leaves({"none", "raise"}),
     e \in Leaves({"none", "op", "raise", "return", "break", "redo"})})}

\* A begin block in each clause of another.
Inner(exits) ==
  {Begin(b, r, None, e) :
     b \in Leaves({"op", "raise"} \cup exits),
     r \in {<<>>, CatchAll(S("op")), Only(Runtime, S("op")), CatchAll(S("raise"))},
     e \in Leaves({"op", "raise"} \cup exits)}

Around(inner) ==
     {Begin(inner, r, None, e) : r \in {<<>>, CatchAll(S("op"))}, e \in Leaves({"op", "return"})}
  \cup {Begin(S("raise"), CatchAll(inner), None, e) : e \in Leaves({"op", "raise"})}
  \cup {Begin(S("op"), CatchAll(S("op")), inner, S("op"))}
  \cup {Begin(b, r, None, inner) : b \in Leaves({"op", "raise", "return"}), r \in {<<>>, CatchAll(S("op"))}}

Nested ==
  {Alone(m) : m \in UNION {Around(i) : i \in Inner({"return"})}} \cup
  {Alone(Loop(m)) : m \in UNION {Around(i) : i \in Inner({"break", "next"})}} \cup
  {Alone(m) : m \in UNION {Around(Loop(i)) : i \in Inner({"break"})}}

\* A method that yields inside its own begin block, called with a block from a
\* begin block, and the block called again once that call is over.
Yielding ==
  {Begin(S("yield"), r, None, e) :
     r \in {<<>>, CatchAll(S("op")), Only(Raised, S("raise"))},
     e \in Leaves({"none", "op", "raise", "return", "each", "yield"})}

Callers ==
  Written({Begin(S("call"), r, l, e) :
     r \in {<<>>, CatchAll(S("op"))}, l \in Leaves({"none", "late"}),
     e \in Leaves({"none", "op", "return", "each", "late"})})

InBlock ==
  Leaves({"op", "raise", "error", "stop", "return", "break", "next"}) \cup
  {Begin(b, <<>>, None, e) : b \in Leaves({"return", "break", "raise"}),
                             e \in Leaves({"op", "each", "return", "break", "next"})}

Across == {Program(c, y, b) : c \in Callers, y \in Yielding, b \in InBlock}

\* Begin blocks as deep as the handlers of a frame allow, and one deeper: each
\* one in the body of the next, where it needs two of them, or in its ensure
\* clause, where it needs one.
RECURSIVE InBodies(_, _), InEnsures(_, _)
InBodies(n, s) == IF n = 0 THEN s ELSE InBodies(n - 1, Begin(s, <<>>, None, S("op")))
InEnsures(n, s) == IF n = 0 THEN s ELSE InEnsures(n - 1, Begin(S("op"), <<>>, None, s))

Deep ==
  {Alone(Loop(Begin(InBodies(n, S(leaf)), CatchAll(S("op")), None, None))) :
     n \in 7..8, leaf \in {"op", "raise", "error", "return", "break", "redo"}} \cup
  {Alone(Loop(InEnsures(n, Begin(S(leaf), CatchAll(S("op")), None, None)))) :
     n \in 14..15, leaf \in {"op", "raise", "error", "return", "break"}}

\* Programs whose exceptions are in registers beyond the first 256.
Wide ==
  {[Alone(Begin(b, r, None, e)) EXCEPT !.wide = TRUE] :
     b \in Leaves({"op", "raise", "error"}),
     r \in {CatchAll(S("op")), CatchAll(S("reraise")), Only(Runtime, S("op")), Only(Raised, S("reraise"))},
     e \in Leaves({"none", "raise"})}

MCPrograms == Single \cup Nested \cup Across \cup Deep \cup Wide

\* A retry in a begin block of the rescue clause.
RetryInside ==
  {Alone(Begin(S("flaky"), CatchAll(Begin(b, r, None, S("op"))), None, S("op"))) :
     b \in Leaves({"retry", "raise"}), r \in {<<>>, CatchAll(S("op"))}}

\* An exception of the method, which the caller's ensure clause replaces by its
\* own exit, and another failure after it.
Replaced ==
  {Program(Begin(Loop(Begin(S("call"), <<>>, None, e)), CatchAll(S("op")), l, None), S("raise"), None) :
     e \in Leaves({"break", "next", "op"}),
     l \in {Begin(S("error"), CatchAll(S("op")), None, None),
            Begin(S("raise"), CatchAll(S("op")), None, None)}}

=============================================================================
