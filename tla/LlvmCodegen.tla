----------------------------- MODULE LlvmCodegen -----------------------------
(***************************************************************************)
(* What the compile multimethod of all.cpp emits for a function's body:    *)
(* blocks of instructions, through the registers of the one                *)
(* LlvmCompileState that all nodes and all functions share.                *)
(*                                                                         *)
(* The multimethod is a recursive walk of the syntax tree.  Its stack is a *)
(* part of the state here: a handler runs up to its next call of compile,  *)
(* and leaves a frame that says where it goes on, with the locals it needs *)
(* there.  Functions are required one after the other, in any order; one   *)
(* that calls a function not compiled yet compiles it in the middle.       *)
(*                                                                         *)
(* A place is a function and a block; block 0 holds the arguments, the     *)
(* first of which is where the result goes.  A value is its LLVM type and  *)
(* the place and index of the instruction it is the result of: "inst" is   *)
(* the pair of pointers a lisp instance is, "ptr" a pointer to one, "bool" *)
(* the i1 of the truth function.                                           *)
(***************************************************************************)
EXTENDS Naturals, SequencesExt

CONSTANTS
  Programs,    \* the programs considered: function nodes by name
  Nodes,       \* the syntax nodes that the bodies of their functions are made of
  Subroutines  \* the instances a module binds, but functions, that are a PSubroutine

\* What each handler finds in its node.  A function inside another may have the name
\* of any function: both are compiled to the one llvm::Function of that name, so they
\* have as many parameters here (pushScope would take others' from beyond its own).
Syntax(programs, nodes) ==
  /\ \A n \in nodes :
       CASE n.op \in {"const", "unsupported"} -> TRUE
         [] n.op = "local" -> n.scope \in STRING
         [] n.op = "global" -> n.name \in STRING
         [] n.op = "do" -> /\ n.scope \in STRING /\ n.slots \in Nat
                           /\ n.statements \in Seq(nodes)
         [] n.op = "define" -> n.scope \in STRING /\ n.value \in nodes
         [] n.op = "variable" -> n.scope \in STRING /\ n.init \in Seq(nodes)
         [] n.op = "set" -> {n.slot, n.value} \subseteq nodes
         [] n.op = "call" -> n.args \in Seq(nodes) /\ n.callee \in nodes
         [] n.op = "if" -> /\ n.branches \in Seq(nodes \X nodes) \ {<<>>}
                           /\ n.else \in Seq(nodes)
         [] n.op = "while" -> {n.cond, n.body} \subseteq nodes
         [] n.op = "function" -> /\ n.name \in STRING /\ n.params \in Nat
                                 /\ n.body \in nodes
         [] OTHER -> FALSE
  /\ \A p \in programs :
       /\ DOMAIN p \subseteq STRING
       /\ \A f \in DOMAIN p : /\ p[f].op = "function" /\ p[f].name = f
                               /\ p[f].params \in Nat /\ p[f].body \in nodes
  /\ LET inner == { n \in nodes : n.op = "function" }
     IN \A n \in inner : /\ \A k \in inner : n.name = k.name => n.params = k.params
                         /\ \A p \in programs : n.name \in DOMAIN p =>
                                               n.params = p[n.name].params

ASSUME SyntaxAssumption == Syntax(Programs, Nodes)

Literal == [type |-> "inst", at |-> <<"literal", 0>>, i |-> 0]
Default == [type |-> "inst", at |-> <<"default", 0>>, i |-> 0] \* instance<>()
NoValue == [type |-> "null", at |-> <<"nowhere", 0>>, i |-> 0] \* nullptr
Argument(f, i) == [type |-> "ptr", at |-> <<f, 0>>, i |-> i]

\* A call has a callee, a branch its targets, a phi the place each operand is
\* from.  A store into a pointer stands for genInstanceAssign's memcpy too.
Instruction(op, args, places) ==
  [op |-> op, args |-> args, places |-> places, callee |-> "none"]
Terminators == {"br", "ret"}

VARIABLES
  program,   \* fixed by Init
  c          \* the LlvmCompileState, with its stack and the code it has emitted

vars == <<program, c>>

\* Everything the walk reads and writes, as the constructor leaves it
Fresh ==
  [ stack   |-> <<>>,          \* the handlers under way, innermost last
    fn      |-> "none",        \* codeFunction
    at      |-> <<"none", 0>>, \* where the irBuilder inserts
    val     |-> NoValue,       \* lastReturnedValue
    inst    |-> "none",        \* lastReturnedInstance: a subroutine's name
    scopes  |-> <<>>,          \* scopeStack, innermost last
    blocks  |-> <<>>,          \* of each llvm::Function: a function's blocks
    entries |-> {},            \* functions LlvmModule::require has entries for
    crashed |-> "no",          \* where a null llvm::Value was dereferenced
    faults  |-> {},            \* operands LLVM's own assertions refuse
    \* for the properties only:
    open    |-> {},            \* functions whose compilation is under way
    cut     |-> {},            \* ... and interrupted by another's
    within  |-> {},            \* functions whose compilation interrupted one
    nested  |-> {},            \* functions with control flow inside an arm
    caught  |-> {} ]           \* what lastReturnedValue was after a catch

-----------------------------------------------------------------------------
\* Emission

Blocks(st, f) == IF f \in DOMAIN st.blocks THEN st.blocks[f] ELSE <<>>
SetBlocks(st, f, seq) ==
  [st EXCEPT !.blocks = [g \in DOMAIN @ \cup {f} |->
                           IF g = f THEN seq ELSE @[g]]]

\* BasicBlock::Create(..., codeFunction), and where it is
AddBlock(st) == SetBlocks(st, st.fn, Append(Blocks(st, st.fn), <<>>))
NewBlock(st) == <<st.fn, Len(Blocks(st, st.fn)) + 1>>
SetInsertPoint(st, place) == [st EXCEPT !.at = place]

Emit(st, instruction) ==
  [st EXCEPT !.blocks[st.at[1]][st.at[2]] = Append(@, instruction)]

\* The result of the instruction emitted next
Result(st, type) ==
  [type |-> type, at |-> st.at, i |-> Len(st.blocks[st.at[1]][st.at[2]]) + 1]
Returned(st, value) == [st EXCEPT !.val = value]
EmitReturned(st, type, instruction) ==
  Returned(Emit(st, instruction), Result(st, type))

\* Mutant: the targets swapped
GenCondBrSwapped(st, then, else) ==
  Emit(st, Instruction("br", <<st.val>>, <<else, then>>))

GenBr(st, to) == Emit(st, Instruction("br", <<>>, <<to>>))
GenCondBr(st, then, else) == Emit(st, Instruction("br", <<st.val>>, <<then, else>>))

\* The process ends here.  The walk is computed to its end all the same, and
\* nothing looks at what it finds.
Crash(st) == [st EXCEPT !.crashed = IF @ = "no" THEN st.fn ELSE @]
Fault(st, what, holds) ==
  [st EXCEPT !.faults = IF holds THEN @ \cup {<<st.fn, what>>} ELSE @]

GenInstanceAssign(st, dest, src) ==
  IF NoValue \in {dest, src} THEN Crash(st)
  ELSE Emit(Fault(st, "store", dest.type # "ptr" \/ src.type = "bool"),
            Instruction("store", <<dest, src>>, <<>>))

\* genCall, the memory it reserves for arguments and result included: how they
\* are passed is in LlvmFunctions
GenCall(st, callee, returns, args) ==
  IF NoValue \in ToSet(args) THEN Crash(st)
  ELSE EmitReturned(Fault(st, "call", \E a \in ToSet(args) : a.type = "bool"),
         returns, [Instruction("call", args, <<>>) EXCEPT !.callee = callee])

GenTruth(st) == GenCall(st, "___cult__runtime_truth", "bool", <<st.val>>)

\* Mutant: no CreateRetVoid
GenReturnStoreOnly(st) == GenInstanceAssign(st, Argument(st.fn, 1), st.val)

GenReturn(st) ==
  Emit(GenInstanceAssign(st, Argument(st.fn, 1), st.val),
       Instruction("ret", <<>>, <<>>))

\* Mutant: no load, the phi takes the pointer
GenLoadNothing(st) == IF st.val = NoValue THEN Crash(st) ELSE st

\* CreateLoad of the last value
GenLoad(st) ==
  IF st.val = NoValue THEN Crash(st)
  ELSE EmitReturned(Fault(st, "load", st.val.type # "ptr"), "inst",
                    Instruction("load", <<st.val>>, <<>>))

\* CreatePHI and addIncoming, of values and the blocks they come from
GenPhi(st, values, places) ==
  IF NoValue \in ToSet(values) THEN Crash(st)
  ELSE EmitReturned(Fault(st, "phi", \E v \in ToSet(values) : v.type # "inst"),
                    "inst", Instruction("phi", values, places))

-----------------------------------------------------------------------------
\* Scopes

\* pushScope: an alloca with a GEP for each slot, or the arguments
PushBlock(st, n) ==
  LET loc == IF n.slots > 0 THEN Result(st, "ptr") ELSE NoValue
      s == [st EXCEPT !.scopes = Append(@, [scope |-> n.scope, value |-> loc])]
  IN IF n.slots = 0 THEN s
     ELSE EmitReturned(s, "ptr", Instruction("alloca", <<>>, <<>>))
PushFunction(st, n) ==
  [st EXCEPT !.scopes =
     Append(@, [scope |-> n.name, value |-> Argument(st.fn, 2)])]

\* getScopeValue: the innermost entry of the scope
ScopeValue(st, scope) ==
  LET i == SelectLastInSeq(st.scopes, LAMBDA e : e.scope = scope)
  IN IF i = 0 THEN NoValue ELSE st.scopes[i].value

-----------------------------------------------------------------------------
\* The stack

\* What is called last goes on first: a handler leaves the frame it goes on with,
\* then calls compile
Call(st, frame) == [st EXCEPT !.stack = Append(@, frame)]
Compiling(n) == [step |-> "compile", n |-> n]
CallThen(st, n, frame) == Call(Call(st, frame), Compiling(n))

\* compile of one node after the other
CallAll(st, nodes) ==
  [st EXCEPT !.stack = @ \o [ i \in 1 .. Len(nodes) |->
                               Compiling(nodes[Len(nodes) + 1 - i]) ]]

\* LlvmCompileState::compile: what a handler throws is logged and forgotten
Throw(st) == [st EXCEPT !.caught = @ \cup {st.val}]

\* compile/Resolve: a local binding has a value, one of the module an instance
GenResolve(st, n) ==
  IF n.op = "local"
  THEN [st EXCEPT !.val = ScopeValue(st, n.scope), !.inst = "none"]
  ELSE [st EXCEPT !.val = NoValue, !.inst = n.name]

-----------------------------------------------------------------------------
\* Functions

\* Mutant: pushScope before setFunction, so the arguments are the last function's
EnterFunctionScopeFirst(st, n) ==
  LET s == [PushFunction(st, n) EXCEPT !.fn = n.name]
  IN SetInsertPoint(AddBlock(s), NewBlock(s))

\* Mutant: the irBuilder left where it was, once there is one
EnterFunctionStay(st, n) ==
  LET s == [st EXCEPT !.fn = n.name]
  IN PushFunction(IF st.at[1] = "none" THEN SetInsertPoint(AddBlock(s), NewBlock(s))
                  ELSE AddBlock(s), n)

\* Mutant: no BasicBlock::Create
EnterFunctionNoBlock(st, n) ==
  LET s == [st EXCEPT !.fn = n.name]
  IN PushFunction(SetInsertPoint(s, NewBlock(s)), n)

\* setFunction, which adds a block to the function of that name if there is one, and
\* pushScope
EnterFunction(st, n) ==
  LET s == [st EXCEPT !.fn = n.name]
  IN PushFunction(SetInsertPoint(AddBlock(s), NewBlock(s)), n)

\* compile/Function, and compile/Variable of each parameter, which has no
\* initializer
GenFunction(st, n) ==
  LET s == EnterFunction(st, n)
      params == IF n.params > 0 THEN Returned(s, NoValue) ELSE s
      open == [params EXCEPT
                 !.open = @ \cup {n.name},
                 !.cut = @ \cup st.open,
                 !.within = IF st.open = {} THEN @ ELSE @ \cup {n.name}]
  IN CallThen(open, n.body, [step |-> "return", open |-> st.open])
EndFunction(st, frame) == [GenReturn(st) EXCEPT !.open = frame.open]

\* LlvmBackend::require, and what is defined after the call
Require(st, f) ==
  IF f \in st.entries THEN st
  ELSE CallThen(st, program[f], [step |-> "define", f |-> f])
DefineEntry(st, frame) == [st EXCEPT !.entries = @ \cup {frame.f}]

-----------------------------------------------------------------------------
\* Calls

\* Mutant: the last argument is not compiled
NextArgumentButLast(st, n, args) ==
  IF Len(args) + 1 < Len(n.args)
  THEN CallThen(st, n.args[Len(args) + 1], [step |-> "argument", n |-> n, args |-> args])
  ELSE CallThen(st, n.callee, [step |-> "callee", args |-> args])

\* compile/CallSite: the arguments from left to right, then the callee
NextArgument(st, n, args) ==
  IF Len(args) < Len(n.args)
  THEN CallThen(st, n.args[Len(args) + 1], [step |-> "argument", n |-> n, args |-> args])
  ELSE CallThen(st, n.callee, [step |-> "callee", args |-> args])
GenArgument(st, frame) == NextArgument(st, frame.n, Append(frame.args, st.val))

\* A value as callee, a function of the module, another instance that can be called,
\* and one that cannot
GenCallee(st, frame) ==
  CASE st.inst = "none" /\ st.val = NoValue -> Crash(st)
    [] st.inst = "none" /\ st.val # NoValue -> Throw(st)
    [] st.inst \in DOMAIN program \ {"none"} ->
         Require(Call(st, [step |-> "call", f |-> st.inst, args |-> frame.args]), st.inst)
    [] st.inst \in Subroutines \ (DOMAIN program \cup {"none"}) ->
         GenCall(st, st.inst, "ptr", frame.args)
    [] OTHER -> Throw(st)
GenFunctionCall(st, frame) ==
  GenCall(Fault(st, "arity", Len(frame.args) # program[frame.f].params),
          frame.f, "ptr", frame.args)

-----------------------------------------------------------------------------
\* Conditions and loops

\* Functions with a condition or loop in a branch or in a loop's body
Arm(frame) == frame.step \in {"branch", "loop"}
Nest(st) ==
  [st EXCEPT !.nested = IF \E i \in DOMAIN st.stack : Arm(st.stack[i])
                        THEN @ \cup {st.fn} ELSE @]

\* compile/Condition: the else
GenCondition(st, n) ==
  LET end == NewBlock(st)
      else == NewBlock(AddBlock(st))
      frame == [step |-> "branch", n |-> n, left |-> Len(n.branches),
                entry |-> st.at, end |-> end,
                else |-> else, test |-> else, body |-> else,
                values |-> <<>>, places |-> <<>>]
  IN CallAll(Call(SetInsertPoint(AddBlock(AddBlock(Nest(st))), else), frame), n.else)

\* Mutant: the phi told of the block of the test
IncomingTest(frame) == Append(frame.places, frame.test)

\* The block compile/Condition names for the value of an arm
Incoming(frame) == Append(frame.places, frame.body)

\* The value of an arm: the first is the else, which there may not be
ArmValue(st, frame) ==
  IF frame.values = <<>> /\ frame.n.else = <<>> THEN Default ELSE st.val

\* The next branch, from the last to the first, whose test goes into the block
\* the condition began in
NextTest(st, frame) ==
  LET body == NewBlock(st)
      s == AddBlock(st)
      test == IF frame.left = 1 THEN frame.entry ELSE NewBlock(s)
  IN CallThen(SetInsertPoint(IF frame.left = 1 THEN s ELSE AddBlock(s), test),
              frame.n.branches[frame.left][1],
              [frame EXCEPT !.step = "test", !.else = frame.test,
                            !.test = test, !.body = body])
GenArm(st, frame) ==
  LET s == GenBr(st, frame.end)
      next == [frame EXCEPT !.values = Append(@, ArmValue(st, frame)),
                            !.places = Incoming(frame)]
  IN IF frame.left = 0
     THEN GenPhi(SetInsertPoint(s, frame.end), next.values, next.places)
     ELSE NextTest(s, next)
GenTest(st, frame) ==
  CallThen(SetInsertPoint(GenCondBr(GenTruth(st), frame.body, frame.else), frame.body),
           frame.n.branches[frame.left][2],
           [frame EXCEPT !.step = "branch", !.left = @ - 1])

\* compile/Loop: the body before the condition
GenLoop(st, n) ==
  LET cond == NewBlock(st)
      loop == NewBlock(AddBlock(st))
      end == NewBlock(AddBlock(AddBlock(st)))
      s == GenBr(AddBlock(AddBlock(AddBlock(Nest(st)))), cond)
  IN CallThen(SetInsertPoint(s, loop), n.body,
              [step |-> "loop", n |-> n, entry |-> st.at,
               cond |-> cond, loop |-> loop, end |-> end])
GenLoopBody(st, frame) ==
  LET s == GenLoad(st)
      phi == GenPhi(SetInsertPoint(GenBr(s, frame.cond), frame.cond),
                    <<Default, s.val>>, <<frame.entry, frame.loop>>)
      \* lastReturnedValue is still the loaded one
  IN CallThen(Returned(phi, s.val), frame.n.cond,
              [step |-> "again", loop |-> frame.loop, end |-> frame.end,
               phi |-> phi.val, last |-> s.val])

\* Mutant: the value loaded in the body
LoopValueLast(frame) == frame.last

\* The value of a loop: the body's last one, or the default
LoopValue(frame) == frame.phi

GenAgain(st, frame) ==
  Returned(SetInsertPoint(GenCondBr(GenTruth(st), frame.loop, frame.end), frame.end),
           LoopValue(frame))

-----------------------------------------------------------------------------
\* Variables

\* compile/BindSite, compile/Variable, compile/Assign
GenBindSite(st, n) ==
  CallThen(st, n.value, [step |-> "bind", to |-> ScopeValue(st, n.scope)])
GenVariable(st, n) ==
  IF n.init = <<>> THEN Returned(st, NoValue)
  ELSE CallAll(Call(st, [step |-> "assign", to |-> ScopeValue(st, n.scope)]), n.init)
GenAssign(st, n) == CallThen(st, n.slot, [step |-> "slot", n |-> n])
GenSlot(st, frame) ==
  CallThen(st, frame.n.value, [step |-> "assign", to |-> st.val])
GenStore(st, frame) == GenInstanceAssign(st, frame.to, st.val)
GenBind(st, frame) == IF st.val = NoValue THEN st ELSE GenStore(st, frame)

-----------------------------------------------------------------------------
\* The multimethod

Gen(st, n) ==
  CASE n.op = "const" -> Returned(st, Literal)
    [] n.op \in {"local", "global"} -> GenResolve(st, n)
    [] n.op = "do" -> CallAll(PushBlock(st, n), n.statements)
    [] n.op = "define" -> GenBindSite(st, n)
    [] n.op = "variable" -> GenVariable(st, n)
    [] n.op = "set" -> GenAssign(st, n)
    [] n.op = "call" -> NextArgument(st, n, <<>>)
    [] n.op = "if" -> GenCondition(st, n)
    [] n.op = "while" -> GenLoop(st, n)
    [] n.op = "function" -> GenFunction(st, n)
    [] n.op = "unsupported" -> Throw(st)

\* The innermost frame goes on
Resume(st, frame) ==
  CASE frame.step = "compile" -> Gen(st, frame.n)
    [] frame.step = "return" -> EndFunction(st, frame)
    [] frame.step = "define" -> DefineEntry(st, frame)
    [] frame.step = "argument" -> GenArgument(st, frame)
    [] frame.step = "callee" -> GenCallee(st, frame)
    [] frame.step = "call" -> GenFunctionCall(st, frame)
    [] frame.step = "branch" -> GenArm(st, frame)
    [] frame.step = "test" -> GenTest(st, frame)
    [] frame.step = "loop" -> GenLoopBody(st, frame)
    [] frame.step = "again" -> GenAgain(st, frame)
    [] frame.step = "slot" -> GenSlot(st, frame)
    [] frame.step = "assign" -> GenStore(st, frame)
    [] frame.step = "bind" -> GenBind(st, frame)
Continue(st) == Resume([st EXCEPT !.stack = Front(@)], Last(st.stack))

-----------------------------------------------------------------------------
Init == program \in Programs /\ c = Fresh

\* llvm-call or llvm-ir of a function that has no entry yet
RequireFunction(f) ==
  /\ c.crashed = "no" /\ c.stack = <<>> /\ f \notin c.entries
  /\ c' = Require(c, f)
  /\ UNCHANGED program

\* The compiler goes on
Compile ==
  /\ c.crashed = "no" /\ c.stack # <<>>
  /\ c' = Continue(c)
  /\ UNCHANGED program

Finished ==
  /\ c.crashed # "no" \/ (c.stack = <<>> /\ c.entries = DOMAIN program)
  /\ UNCHANGED vars

Next == (\E f \in DOMAIN program : RequireFunction(f)) \/ Compile \/ Finished

Spec == Init /\ [][Next]_vars

-----------------------------------------------------------------------------
\* The graph of a function's blocks

Targets(f, b) ==
  UNION { ToSet(i.places) : i \in { k \in ToSet(c.blocks[f][b]) : k.op = "br" } }
Predecessors(f, b) ==
  { <<f, k>> : k \in { j \in DOMAIN c.blocks[f] : <<f, b>> \in Targets(f, j) } }

\* Functions compiled in one piece, whose compiler survived
Whole == { f \in c.entries \ (c.cut \cup c.within) : c.crashed = "no" }

\* What runs next is compile/Function, of a function inside another
Reopens(f) ==
  /\ c.stack # <<>> /\ Last(c.stack).step = "compile"
  /\ LET n == Last(c.stack).n IN n \in Nodes /\ n.op = "function" /\ n.name = f

-----------------------------------------------------------------------------
\* Properties that hold

\* Types, and: between two requirements every function has been left, and the
\* irBuilder stands in an existing block as soon as there is one.
TypeOK ==
  /\ c.entries \subseteq DOMAIN program
  /\ c.val.type \in {"null", "inst", "ptr", "bool"}
  /\ c.crashed = "no" => /\ c.stack = <<>> => c.open = {}
                         /\ c.open \cup c.entries # {} =>
                              /\ c.at[1] \in DOMAIN c.blocks
                              /\ c.at[2] \in DOMAIN c.blocks[c.at[1]]

\* However conditions and loops nest, and wherever a node is given up with an
\* exception half way, each block ends in exactly one terminator, which is its
\* last instruction and stays within the function.
WellFormedBlocks ==
  \A f \in Whole : \A b \in DOMAIN c.blocks[f] :
    LET block == c.blocks[f][b]
    IN /\ { i \in DOMAIN block : block[i].op \in Terminators } = {Len(block)}
       /\ Targets(f, b) \subseteq {f} \X DOMAIN c.blocks[f]

\* compile/Condition and compile/Loop name as a phi's predecessors the blocks
\* they made for the arms.  Those are the blocks control comes from, as long as
\* no arm has control flow of its own.
PhisMatchEdges ==
  \A f \in Whole \ c.nested :
    \A b \in DOMAIN c.blocks[f] : \A i \in ToSet(c.blocks[f][b]) :
      i.op = "phi" => ToSet(i.places) = Predecessors(f, b)

\* The irBuilder is left standing in the last block of a function, codeFunction
\* stays that function, and the module stays open for more: still nothing is ever
\* added to a function that was compiled in one piece.  The one exception is a
\* function of the same name inside another: getOrMakeFunction finds the compiled one
\* for it, and its code begins in a block added to that.
CompiledCodeKept ==
  [][\A f \in Whole :
       \/ c'.blocks[f] = c.blocks[f]
       \/ Reopens(f) /\ c'.blocks[f] = Append(c.blocks[f], <<>>)]_vars
=============================================================================
