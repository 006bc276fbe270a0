---------------------------- MODULE LlvmSupported ----------------------------
(***************************************************************************)
(* The programs the compiler of LlvmCodegen supports, and what their code  *)
(* is like.                                                                *)
(***************************************************************************)
EXTENDS LlvmCodegen

\* Defined over the syntax tree: a rule says what each is of a node from what it is
\* of the node's parts.
CONSTANTS
  Subtree(_),     \* a node with all the nodes under it
  TypeOf(_),      \* the LLVM type of what it leaves in lastReturnedValue; "stale"
                  \* for nodes that leave what was there before
  FreeScopes(_),  \* the scopes of the bindings it uses, but those it makes itself
  Slotless        \* scopes that pushScope finds no slots for

\* The nodes a node is made of, and those evaluated as a branch or a loop's body
Parts(n) ==
  CASE n.op = "do" -> ToSet(n.statements)
    [] n.op = "define" -> {n.value}
    [] n.op = "variable" -> ToSet(n.init)
    [] n.op = "set" -> {n.slot, n.value}
    [] n.op = "call" -> ToSet(n.args) \cup {n.callee}
    [] n.op = "if" -> { b[1] : b \in ToSet(n.branches) }
    [] n.op = "while" -> {n.cond}
    [] n.op = "function" -> {n.body}
    [] OTHER -> {}
Arms(n) ==
  CASE n.op = "if" -> { b[2] : b \in ToSet(n.branches) } \cup ToSet(n.else)
    [] n.op = "while" -> {n.body}
    [] OTHER -> {}

SubtreeRule(n, subtree(_)) == {n} \cup UNION { subtree(k) : k \in Parts(n) \cup Arms(n) }

TypeRule(n, type(_)) ==
  CASE n.op \in {"const", "if", "while"} -> "inst"
    [] n.op \in {"local", "call"} -> "ptr"
    [] n.op = "global" -> "null"
    [] n.op \in {"define", "set"} -> type(n.value)
    [] n.op = "variable" -> IF n.init = <<>> THEN "null" ELSE type(n.init[1])
    [] n.op = "do" /\ n.statements # <<>> -> type(Last(n.statements))
    [] n.op = "do" /\ n.statements = <<>> -> IF n.slots > 0 THEN "ptr" ELSE "stale"
    [] OTHER -> "stale"

FreeRule(n, free(_)) ==
  (IF n.op \in {"local", "define", "variable"} THEN {n.scope} ELSE {})
    \cup ((UNION { free(k) : k \in Parts(n) \cup Arms(n) })
            \ (IF n.op = "do" /\ n.slots > 0 THEN {n.scope} ELSE {}))

Analysis(programs, nodes) ==
  /\ \A n \in nodes \cup UNION { { p[f] : f \in DOMAIN p } : p \in programs } :
       /\ Subtree(n) = SubtreeRule(n, Subtree)
       /\ TypeOf(n) = TypeRule(n, TypeOf)
       /\ TypeOf(n) \in {"inst", "ptr", "null", "stale"}
       /\ FreeScopes(n) = FreeRule(n, FreeScopes)
  \* Of the syntax: a scope has its slots wherever it is mentioned, a variable one
  \* initializer at most, and the names that stand for none are nobody's.
  /\ \A n \in nodes :
       /\ n.op = "do" => (n.scope \in Slotless <=> n.slots = 0)
       /\ n.op = "function" => n.name \notin Slotless
       /\ n.op = "variable" => Len(n.init) <= 1
       /\ n.op = "global" => n.name # "none"
  /\ \A p \in programs : DOMAIN p \cap (Slotless \cup {"none", "no"}) = {}

ASSUME AnalysisAssumption == Analysis(Programs, Nodes)

\* Every operand has a value of the type its user needs, callees are functions of the
\* module or other subroutines, and bindings belong to enclosing scopes of the same function.
Instance(n) == TypeOf(n) \in {"inst", "ptr"}
Sound(n) ==
  /\ n.op # "function"
  /\ n.op = "define" => TypeOf(n.value) # "stale"
  /\ n.op = "variable" => \A k \in ToSet(n.init) : Instance(k)
  /\ n.op = "set" => n.slot.op = "local" /\ Instance(n.value)
  /\ n.op = "call" =>
       /\ n.callee.op = "global"
       /\ n.callee.name \in DOMAIN program \cup Subroutines
       /\ n.callee.name \in DOMAIN program =>
            Len(n.args) = program[n.callee.name].params
       /\ \A k \in ToSet(n.args) : Instance(k)
  /\ n.op = "if" => /\ \A k \in Parts(n) : Instance(k)
                    /\ \A k \in Arms(n) : TypeOf(k) = "inst"
  /\ n.op = "while" => TypeOf(n.body) = "ptr" /\ Instance(n.cond)
Supported(n) == \A k \in Subtree(n) : Sound(k)

SupportedNode(n) ==
  /\ Supported(n.body) /\ Instance(n.body)
  /\ FreeScopes(n.body) \subseteq (IF n.params > 0 THEN {n.name} ELSE {})
SupportedFunction(f) == SupportedNode(program[f])

\* No condition or loop inside a branch or a loop's body
Flat(n) == \A k \in Subtree(n) : \A arm \in Arms(k) : \A j \in Subtree(arm) :
             j.op \notin {"if", "while"}

\* The functions named as callees
Callees(n) == { k.callee.name : k \in { j \in Subtree(n) :
                                  j.op = "call" /\ j.callee.op = "global" } }

-----------------------------------------------------------------------------
\* The blocks reached from the entry without passing through block d
Avoiding(f, d) ==
  LET step(S) == S \cup { b \in DOMAIN c.blocks[f] \ {d} :
                            \E a \in S : <<f, b>> \in Targets(f, a) }
      reach[n \in Nat] == IF n = 0 THEN {1} \ {d} ELSE step(reach[n - 1])
  IN reach[Len(c.blocks[f])]

\* A value may be used by instruction i of block b of f: it is a constant, or
\* f's own, defined on every way there
Available(f, v, b, i) ==
  \/ v \in {Literal, Default}
  \/ /\ v.at[1] = f
     /\ \/ v.at[2] = 0
        \/ v.at[2] = b /\ v.i < i
        \/ v.at[2] # b /\ b \notin Avoiding(f, v.at[2])

\* Whole functions, looked at between two requirements
Compiled == { f \in Whole : c.stack = <<>> }

-----------------------------------------------------------------------------
\* Properties that hold

\* No instruction of a supported function uses a value left over from a place
\* that control need not have passed, or from another function, and the same
\* goes for what a phi takes from the end of a predecessor, in flat functions.
OperandsAvailable ==
  \A f \in Compiled : SupportedFunction(f) =>
    \A b \in DOMAIN c.blocks[f] : \A i \in DOMAIN c.blocks[f][b] :
      LET instruction == c.blocks[f][b][i]
      IN \A k \in DOMAIN instruction.args :
           IF instruction.op # "phi"
           THEN Available(f, instruction.args[k], b, i)
           ELSE Flat(program[f]) =>
                  LET from == instruction.places[k][2]
                  IN Available(f, instruction.args[k], from, Len(c.blocks[f][from]))

\* A supported function neither dereferences a missing value nor hands LLVM an
\* operand of a type its assertions refuse.
SupportedCompiles ==
  LET apart == DOMAIN program \ (c.cut \cup c.within)
  IN /\ c.crashed \in apart => ~SupportedFunction(c.crashed)
     /\ \A fault \in c.faults : fault[1] \in apart => ~SupportedFunction(fault[1])

\* lastReturnedInstance is cleared by few nodes, yet in a supported function
\* each call is to a callee that one of its call sites names, and each call site's
\* callee is called; a condition's or a loop's test calls the runtime.
Called(blocks) ==
  { i.callee : i \in { k \in UNION { ToSet(b) : b \in ToSet(blocks) } : k.op = "call" } }
CalledAsWritten ==
  \A f \in Compiled : SupportedFunction(f) =>
    Called(c.blocks[f]) \ {"___cult__runtime_truth"}
      = Callees(program[f]) \ {"___cult__runtime_truth"}

-----------------------------------------------------------------------------
\* What a message of the code says, and the code does not do

\* LlvmCompiler.cpp:190: "Compiler does not support node `{1}`, default returned".
DefaultReturned == c.caught \subseteq {Default}
=============================================================================
