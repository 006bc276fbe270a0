---------------------------- MODULE LlvmExecution ----------------------------
(***************************************************************************)
(* What the blocks of LlvmCodegen do when they run, against what the       *)
(* functions they were made from say.                                      *)
(*                                                                         *)
(* Both evaluators produce a trace of events: a subroutine of the host     *)
(* called with some contents, a truth taken, the result returned.  Traces  *)
(* are cut at MaxEvents, so a loop that never ends has a trace too.        *)
(*                                                                         *)
(* An instance is "literal", "default", "printed" (what host subroutines   *)
(* return) or "undef" (memory never written, false like "default").  The   *)
(* set of those that are true is a parameter of a run: what a subroutine   *)
(* of the host returns may be either.                                      *)
(***************************************************************************)
EXTENDS LlvmHistory

CONSTANTS
  MaxEvents   \* the length of the traces compared

ASSUME MaxEventsAssumption == MaxEvents \in Nat \ {0}

Over(s) == Len(s.out) >= MaxEvents
Log(s, what, contents) ==
  IF Over(s) THEN s ELSE [s EXCEPT !.out = Append(@, <<what, contents>>)]

-----------------------------------------------------------------------------
\* The machine.  m.mem maps addresses to contents, registers included; an address
\* is a depth of the stack and a value.  A frame is a depth and the addresses of
\* the arguments: pointers are passed as they are, so a function's parameter may
\* be its caller's variable.

Address(frame, v) ==
  CASE v \in {Literal, Default} -> <<0, v>>
    [] v.at[2] = 0 -> frame.args[v.i]
    [] OTHER -> <<frame.depth, v>>
Content(m, address) == IF address \in DOMAIN m.mem THEN m.mem[address] ELSE "undef"
Write(m, address, content) == [m EXCEPT !.mem = (address :> content) @@ @]

\* _cult_runtime_truth
RuntimeTruth(m, content) == content \in m.true

RECURSIVE RunBlock(_, _, _, _)

\* One instruction of a block; from is the block control came from
Step(m, frame, from, instruction, result) ==
  LET args == [ k \in DOMAIN instruction.args |-> Address(frame, instruction.args[k]) ]
      contents == [ k \in DOMAIN args |-> Content(m, args[k]) ]
      callee == instruction.callee
  IN CASE instruction.op = "alloca" -> Write(m, result, "undef")
       [] instruction.op = "store" -> Write(m, args[1], contents[2])
       [] instruction.op = "load" -> Write(m, result, contents[1])
       [] instruction.op = "phi" ->
            Write(m, result, contents[SelectInSeq(instruction.places, LAMBDA p : p = from)])
       [] callee = "___cult__runtime_truth" ->
            Log(Write(m, result, contents[1]), "truth", contents)
       [] callee \in DOMAIN program ->
            RunBlock(m, [depth |-> frame.depth + 1, args |-> <<result>> \o args],
                     <<callee, 1>>, <<callee, 1>>)
       [] instruction.op = "call" ->
            Log(Write(m, result, "printed"), callee, contents)

RunBlock(m, frame, place, from) ==
  LET block == c.blocks[place[1]][place[2]]
      last == Last(block)
      type(i) == CASE block[i].op \in {"phi", "load"} -> "inst"
                   [] block[i].callee = "___cult__runtime_truth" -> "bool"
                   [] OTHER -> "ptr"
      s == FoldLeft(LAMBDA acc, i :
                      Step(acc, frame, from, block[i],
                           <<frame.depth, [type |-> type(i), at |-> place, i |-> i]>>),
                    m, [i \in 1 .. Len(block) - 1 |-> i])
      then == last.args = <<>> \/ RuntimeTruth(s, Content(s, Address(frame, last.args[1])))
  IN IF last.op = "ret" \/ Over(s) THEN s
     ELSE RunBlock(s, frame, last.places[IF then THEN 1 ELSE 2], place)

\* LlvmSubroutine::invoke of a function of at most one argument
Execution(f, argument, true) ==
  LET result == <<0, Argument("host", 1)>>
      given == <<0, Argument("host", 2)>>
      m == [ mem |-> given :> argument @@ <<0, Literal>> :> "literal"
                       @@ <<0, Default>> :> "default",
             out |-> <<>>, true |-> true ]
      end == RunBlock(m, [depth |-> 1, args |-> <<result, given>>], <<f, 1>>, <<f, 1>>)
  IN Log(end, "return", <<Content(end, result)>>).out

-----------------------------------------------------------------------------
\* The language, of the syntax alone: s has the variables of a call by scope, the
\* events so far and the value of the last node

RECURSIVE Eval(_, _)

EvalAll(s, nodes) == FoldLeft(LAMBDA acc, n : Eval(acc, n), s, nodes)
Bind(s, scope) == [s EXCEPT !.env = (scope :> s.val) @@ @]
EvalTruth(s, n) == LET t == Eval(s, n) IN Log(t, "truth", <<t.val>>)

\* The body of a function called with some arguments
EvalBody(s, n, args) ==
  [Eval([s EXCEPT !.env = IF args = <<>> THEN <<>> ELSE n.name :> args[1]], n.body)
     EXCEPT !.env = s.env]

EvalCall(s, n) ==
  LET a == FoldLeft(LAMBDA acc, arg : LET t == Eval(acc.s, arg)
                                      IN [s |-> t, args |-> Append(acc.args, t.val)],
                    [s |-> s, args |-> <<>>], n.args)
      callee == n.callee.name
  IN IF callee \in DOMAIN program THEN EvalBody(a.s, program[callee], a.args)
     ELSE Log([a.s EXCEPT !.val = "printed"], callee, a.args)

\* The first branch whose test is true, the else, or the default
RECURSIVE EvalBranches(_, _, _)
EvalBranches(s, branches, else) ==
  IF branches = <<>> THEN EvalAll([s EXCEPT !.val = "default"], else)
  ELSE LET t == EvalTruth(s, Head(branches)[1])
       IN IF t.val \in t.true THEN Eval(t, Head(branches)[2])
          ELSE EvalBranches(t, Tail(branches), else)

\* While the test is true; the value is the last one of the body
RECURSIVE EvalLoop(_, _, _)
EvalLoop(s, n, value) ==
  LET t == EvalTruth(s, n.cond)
      once == Eval(t, n.body)
  IN IF t.val \in t.true /\ ~Over(t) THEN EvalLoop(once, n, once.val)
     ELSE [t EXCEPT !.val = value]

Eval(s, n) ==
  CASE n.op = "const" -> [s EXCEPT !.val = "literal"]
    [] n.op = "local" -> [s EXCEPT !.val = s.env[n.scope]]
    [] n.op = "do" /\ n.slots > 0 ->
         EvalAll(Bind([s EXCEPT !.val = "undef"], n.scope), n.statements)
    [] n.op = "do" /\ n.slots = 0 -> EvalAll(s, n.statements)
    [] n.op \in {"define", "set"} ->
         IF TypeOf(n.value) = "null" THEN s
         ELSE Bind(Eval(s, n.value), IF n.op = "set" THEN n.slot.scope ELSE n.scope)
    [] n.op = "variable" ->
         IF n.init = <<>> THEN s ELSE Bind(Eval(s, n.init[1]), n.scope)
    [] n.op = "call" -> EvalCall(s, n)
    [] n.op = "if" -> EvalBranches(s, n.branches, n.else)
    [] n.op = "while" -> EvalLoop(s, n, "default")
    [] OTHER -> s

Meaning(f, argument, true) ==
  LET s == [env |-> <<>>, out |-> <<>>, val |-> "undef", true |-> true]
      end == EvalBody(s, program[f], <<argument>>)
  IN Log(end, "return", <<end.val>>).out

-----------------------------------------------------------------------------
\* No variable is changed while a pointer to it is on its way: arguments assign
\* nothing, and no function assigns its parameter
Assigned(n) == { IF k.op = "set" THEN k.slot.scope ELSE k.scope :
                   k \in { j \in Subtree(n) : j.op \in {"set", "define", "variable"} } }
Unshared(n) ==
  /\ n.name \notin Assigned(n)
  /\ \A k \in Subtree(n) : k.op = "call" =>
       \A i \in DOMAIN k.args : Assigned(k.args[i]) = {}

Ready(f) ==
  f \in Compiled /\ SupportedFunction(f) /\ Flat(program[f]) /\ Unshared(program[f])

\* Machine code does what the function says: evaluation order, the branch taken,
\* the value of conditions and loops, what variables hold, arguments and results,
\* through code made backwards (conditions from the last branch, a loop's body
\* before its test).
RunsAsWritten ==
  \A f \in c.entries :
    LET uses(g) == Callees(program[g]) \cap DOMAIN program
        all == {f} \cup uses(f)
    IN (\A g \in all : Ready(g) /\ uses(g) \subseteq all) =>
         \A argument \in {"literal", "default"},
            true \in {{"literal"}, {"literal", "printed"}} :
           Execution(f, argument, true) = Meaning(f, argument, true)
=============================================================================
