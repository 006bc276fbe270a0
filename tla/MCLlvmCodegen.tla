--------------------------- MODULE MCLlvmCodegen ---------------------------
(***************************************************************************)
(* Programs of two functions for LlvmExecution: a helper of one parameter, *)
(* and a main function whose body combines every kind of node, up to       *)
(* control flow inside control flow; and programs with a variable that     *)
(* two statements change and test.                                         *)
(***************************************************************************)
EXTENDS LlvmExecution, LlvmSupportedInv

\* The analysis of the syntax tree, by recursion; AnalysisAssumption says that it obeys
\* the rules.
RECURSIVE MCSubtree(_), MCTypeOf(_), MCFreeScopes(_)
MCSubtree(n) == {n} \cup UNION { MCSubtree(k) : k \in Parts(n) \cup Arms(n) }
MCTypeOf(n) ==
  CASE n.op \in {"const", "if", "while"} -> "inst"
    [] n.op \in {"local", "call"} -> "ptr"
    [] n.op = "global" -> "null"
    [] n.op \in {"define", "set"} -> MCTypeOf(n.value)
    [] n.op = "variable" -> IF n.init = <<>> THEN "null" ELSE MCTypeOf(n.init[1])
    [] n.op = "do" /\ n.statements # <<>> -> MCTypeOf(Last(n.statements))
    [] n.op = "do" /\ n.statements = <<>> -> IF n.slots > 0 THEN "ptr" ELSE "stale"
    [] OTHER -> "stale"
MCFreeScopes(n) ==
  (IF n.op \in {"local", "define", "variable"} THEN {n.scope} ELSE {})
    \cup ((UNION { MCFreeScopes(k) : k \in Parts(n) \cup Arms(n) })
            \ (IF n.op = "do" /\ n.slots > 0 THEN {n.scope} ELSE {}))

const == [op |-> "const"]
unsupported == [op |-> "unsupported"]
local(s) == [op |-> "local", scope |-> s]
global(x) == [op |-> "global", name |-> x]
call(x, args) == [op |-> "call", callee |-> global(x), args |-> args]
define(s, n) == [op |-> "define", scope |-> s, value |-> n]
set(s, n) == [op |-> "set", slot |-> local(s), value |-> n]
variable(s, init) == [op |-> "variable", scope |-> s, init |-> init]
do(s, slots, statements) ==
  [op |-> "do", scope |-> s, slots |-> slots, statements |-> statements]
if(t, n, else) == [op |-> "if", branches |-> <<<<t, n>>>>, else |-> else]
if2(t, n, u, k, else) ==
  [op |-> "if", branches |-> <<<<t, n>>, <<u, k>>>>, else |-> else]
while(t, n) == [op |-> "while", cond |-> t, body |-> n]
function(name, params, body) ==
  [op |-> "function", name |-> name, params |-> params, body |-> body]

\* Bodies of helper, whose compilation leaves registers and scopes behind
Helpers ==
  { local("helper"), const, unsupported, global("print"),
    do("helper block", 1, <<define("helper block", const),
                            call("print", <<local("helper block")>>)>>) }

Leaves == { const, local("main"), local("block"), global("helper"), unsupported }
Calls == { call("print", <<const>>), call("print", <<local("block"), const>>),
           call("helper", <<local("main")>>), call("helper", <<>>),
           call("print", <<unsupported>>),
           call("print", <<call("helper", <<const>>)>>),
           [op |-> "call", callee |-> local("main"), args |-> <<>>],
           [op |-> "call", callee |-> call("helper", <<const>>),
            args |-> <<const>>] }
Tests == { local("main"), call("print", <<const>>), if(const, const, <<>>) }
Simple == Leaves \cup Calls \cup { set("block", const),
                                   do("inner", 1, <<define("inner", const)>>),
                                   do("empty", 1, <<>>), do("nothing", 0, <<>>) }
Flow ==
  { if(t, n, e) : t \in Tests, n \in Simple,
                  e \in { <<>>, <<const>>, <<local("main")>>, <<unsupported>> } }
  \cup { if2(t, n, u, const, <<>>) : t \in Tests, n \in Simple, u \in Tests }
  \cup { while(t, n) : t \in Tests, n \in Simple }
Inner == { if(t, n, <<>>) : t \in Tests, n \in Leaves }
           \cup { while(t, call("print", <<n>>)) : t \in Tests, n \in Leaves }
NestedFlow ==
  { if(local("main"), n, e) : n \in Inner,
                              e \in { <<>>, <<if(const, const, <<>>)>> } }
  \cup { if(n, const, <<>>) : n \in Inner }
  \cup { while(local("main"), do("bare", 0, <<n, local("block")>>)) : n \in Inner }
Locals ==
  { function("local", 1, b) :
      b \in { const, local("local"), local("block"), if(const, const, <<>>) } }
  \cup { function("thunk", 0, b) : b \in { const, local("block") } }

\* Functions inside a function with the name of one of the module, alone and before
\* and after a call
Namesakes ==
  { function("helper", 1, const), function("helper", 1, local("helper")),
    function("main", 1, const) }
Around(n) ==
  { do("block", 1, <<n, const>>), if(local("main"), n, <<>>),
    do("block", 1, <<call("helper", <<local("main")>>), n, const>>),
    do("block", 1, <<n, call("helper", <<local("main")>>)>>) }

\* Calls of an instance that is no subroutine
Uncallable ==
  { do("block", 1, <<define("block", const), call("number", <<local("block")>>)>>),
    do("block", 1, <<call("number", <<>>), const>>),
    if(call("number", <<const>>), const, <<>>),
    do("block", 1, <<call("helper", <<const>>),
                     call("print", <<call("number", <<const>>)>>)>>) }

\* What the body does with a node, after a first definition
Using(n) ==
  { do("block", 1, <<define("block", const), n>>),
    do("block", 1, <<define("block", variable("block", <<const>>)),
                     define("block", n), local("block")>>) }
Bodies ==
  UNION { Using(n) : n \in Simple \cup Flow \cup NestedFlow \cup Locals
                       \cup { variable("block", <<>>) } }
  \cup Uncallable
  \cup { if(local("main"), function("thunk", 0, const), <<>>),
         do("block", 1, <<set("block", global("helper"))>>),
         \* an argument that assigns the one before it
         do("block", 1, <<define("block", const),
                          call("print", <<local("block"), set("block", local("main"))>>),
                          const>>) }

\* Statements that read and change the variable
x == local("block")
printed == call("print", <<x>>)
Steps ==
  { set("block", printed), set("block", const),
    set("block", if(x, const, <<>>)),
    set("block", if2(printed, const, x, const, <<if(const, const, <<>>)>>)),
    call("print", <<if(x, const, <<>>), x>>), call("helper", <<x>>),
    if(call("helper", <<x>>), set("block", if(x, const, <<>>)), <<>>),
    if2(x, set("block", const), printed, const, <<set("block", const)>>),
    while(x, do("bare", 0, <<set("block", printed), x>>)),
    while(x, do("loop", 1, <<define("loop", x), set("block", call("helper", <<x>>)),
                             local("loop")>>)),
    set("block", while(x, do("bare", 0, <<set("block", printed), printed>>))) }
Sequences(v) ==
  { do("block", 1, <<variable("block", <<v>>), s, k, x>>) : s, k \in Steps }
\* and the value it has first, with a helper
Starts ==
  { <<const, if(local("helper"), const, <<>>)>>,
    <<local("main"),
      do("inner", 1, <<define("inner", if(local("helper"), const, <<>>)),
                       call("print", <<local("inner")>>)>>)>>,
    <<local("main"), do("bare", 0, <<call("print", <<local("helper")>>), local("helper")>>)>> }

Program(main, helper) ==
  "main" :> function("main", 1, main) @@ "helper" :> function("helper", 1, helper)
MCPrograms ==
  { Program(b, h) : b \in Bodies, h \in Helpers }
  \cup UNION { { Program(b, h) : b \in Around(n), h \in { const, local("helper") } } :
                n \in Namesakes }
  \cup UNION { { Program(b, start[2]) : b \in Sequences(start[1]) } : start \in Starts }

\* What the bodies are made of
MCNodes ==
  UNION { MCSubtree(n) : n \in { p[f].body : p \in MCPrograms, f \in {"main", "helper"} } }
=============================================================================
