---------------------------- MODULE LlvmCodegenInv ----------------------------
(***************************************************************************)
(* What is true of the compile state between two steps of the compiler,    *)
(* wherever it is in the walk: the inductive invariant from which          *)
(* LlvmCodegenProofs derives the properties of the blocks it emits.        *)
(***************************************************************************)
EXTENDS LlvmCodegen

-----------------------------------------------------------------------------
\* Types

\* The provers know no literal to be in STRING
Names == STRING \cup {"none", "nowhere", "literal", "default", "___cult__runtime_truth"}
Places == Names \X Nat
Values == [type : {"null", "inst", "ptr", "bool"}, at : Places, i : Nat]
Instructions ==
  [op : {"alloca", "load", "store", "call", "phi", "br", "ret"},
   args : Seq(Values), places : Seq(Places), callee : Names]
Scopes == [scope : Names, value : Values]
NodesOf(ops) == { n \in Nodes : n.op \in ops }

CompileFrames == [step : {"compile"}, n : Nodes \cup { program[f] : f \in DOMAIN program }]
ReturnFrames == [step : {"return"}, open : SUBSET Names]
DefineFrames == [step : {"define"}, f : DOMAIN program]
ArgumentFrames == [step : {"argument"}, n : NodesOf({"call"}), args : Seq(Values)]
CalleeFrames == [step : {"callee"}, args : Seq(Values)]
CallFrames == [step : {"call"}, f : DOMAIN program, args : Seq(Values)]
ConditionFrames ==
  { frame \in [step : {"branch", "test"}, n : NodesOf({"if"}), left : Nat,
               entry : Places, end : Places, else : Places, test : Places, body : Places,
               values : Seq(Values), places : Seq(Places)] :
      /\ frame.left <= Len(frame.n.branches)
      /\ frame.step = "test" => frame.left # 0 }
LoopFrames ==
  [step : {"loop"}, n : NodesOf({"while"}),
   entry : Places, cond : Places, loop : Places, end : Places]
AgainFrames ==
  [step : {"again"}, loop : Places, end : Places, phi : Values, last : Values]
SlotFrames == [step : {"slot"}, n : NodesOf({"set"})]
StoreFrames == [step : {"assign", "bind"}, to : Values]
Frames ==
  CompileFrames \cup ReturnFrames \cup DefineFrames
    \cup ArgumentFrames \cup CalleeFrames \cup CallFrames
    \cup ConditionFrames \cup LoopFrames \cup AgainFrames
    \cup SlotFrames \cup StoreFrames

Types(st) ==
  /\ DOMAIN st = DOMAIN Fresh
  /\ st.stack \in Seq(Frames) /\ st.scopes \in Seq(Scopes)
  /\ st.fn \in Names /\ st.at \in Places /\ st.val \in Values /\ st.inst \in Names
  /\ \A f \in DOMAIN st.blocks : st.blocks[f] \in Seq(Seq(Instructions))
  /\ st.entries \subseteq DOMAIN program
  /\ st.open \subseteq Names /\ st.cut \subseteq Names
  /\ st.within \subseteq Names /\ st.nested \subseteq Names

-----------------------------------------------------------------------------
\* The stack

\* Functions of which nothing is promised: interrupted, or compiled in the middle
\* of another
Torn(st) == st.cut \cup st.within

\* One function is being compiled, and nothing has interrupted it
Live(st) == st.open = {st.fn} /\ st.fn \notin Torn(st)

\* Compiled, its entry made or about to be
Done(st) ==
  st.entries \cup (IF st.open = {} /\ Len(st.stack) = 1 THEN {st.stack[1].f} ELSE {})

\* At the bottom of the stack is the function that was required
Bottom(st) ==
  \/ st.stack = <<>> /\ st.open = {}
  \/ /\ st.stack # <<>> /\ st.stack[1].step = "define"
     /\ \/ Len(st.stack) = 1 /\ st.open = {}
        \/ /\ Len(st.stack) = 2 /\ st.open = {}
           /\ st.stack[2] = Compiling(program[st.stack[1].f])
           /\ st.stack[1].f \notin st.entries
        \/ /\ Len(st.stack) >= 2 /\ st.stack[1].f \in st.open
           /\ st.stack[2].step = "return" /\ st.stack[2].open = {}

\* A function with the name of one of the module
OfModule(n) == n.op = "function" /\ n.name \in DOMAIN program

\* What comes above it
Middle(st) ==
  \A i \in 3 .. Len(st.stack) :
    LET frame == st.stack[i]
    IN /\ frame.step = "return" =>
            /\ st.stack[1].f \in frame.open /\ frame.open \subseteq Torn(st)
            /\ ~Live(st)
       /\ frame.step = "define" =>
            \/ /\ Len(st.stack) = i + 1
               /\ st.stack[i + 1] = Compiling(program[frame.f])
               /\ frame.f \notin st.entries
            \/ frame.f \in st.within /\ ~Live(st)
       /\ frame.step = "compile" /\ OfModule(frame.n) =>
            \/ /\ i > 3 /\ st.stack[i - 1].step = "define"
               /\ frame.n = program[st.stack[i - 1].f]
            \/ frame.n \in Nodes

-----------------------------------------------------------------------------
\* The blocks

Exists(st, p) == p[1] \in DOMAIN st.blocks /\ p[2] \in DOMAIN st.blocks[p[1]]

\* The blocks a frame names, those it has yet to return to, which nothing ends
\* until then, and those it has yet to branch to
Named(frame) ==
  CASE frame.step \in {"branch", "test"} ->
         {frame.entry, frame.end, frame.else, frame.test, frame.body}
    [] frame.step = "loop" -> {frame.entry, frame.cond, frame.loop, frame.end}
    [] frame.step = "again" -> {frame.loop, frame.end}
    [] OTHER -> {}
Pending(frame) ==
  CASE frame.step = "branch" ->
         {frame.end} \cup (IF frame.left = 0 THEN {} ELSE {frame.entry})
    [] frame.step = "test" ->
         {frame.end, frame.body} \cup (IF frame.left = 1 THEN {} ELSE {frame.entry})
    [] frame.step = "loop" -> {frame.cond, frame.end}
    [] frame.step = "again" -> {frame.end}
    [] OTHER -> {}
Aims(frame) ==
  CASE frame.step = "branch" ->
         {frame.end} \cup (IF frame.left = 0 THEN {} ELSE {frame.test})
    [] frame.step = "test" ->
         {frame.end, frame.body, frame.else}
           \cup (IF frame.left = 1 THEN {} ELSE {frame.test})
    [] frame.step = "loop" -> {frame.cond, frame.loop, frame.end}
    [] frame.step = "again" -> {frame.loop, frame.end}
    [] OTHER -> {}
Distinct(frame) ==
  /\ frame.step = "branch" /\ frame.left # 0 => frame.end \notin {frame.entry, frame.test}
  /\ frame.step = "test" =>
       /\ frame.end \notin {frame.body, frame.else, frame.test}
       /\ frame.left # 1 => frame.entry \notin {frame.end, frame.body}
  /\ frame.step = "loop" => frame.cond \notin {frame.loop, frame.end}

\* Blocks not ended yet, and ended
IsOpen(block) == \A i \in DOMAIN block : block[i].op \notin Terminators
TargetsOf(block) == UNION { ToSet(i.places) : i \in { k \in ToSet(block) : k.op = "br" } }
IsEnded(st, f, b) ==
  LET block == st.blocks[f][b]
  IN /\ { i \in DOMAIN block : block[i].op \in Terminators } = {Len(block)}
     /\ TargetsOf(block) \subseteq {f} \X DOMAIN st.blocks[f]
Preds(st, f, p) ==
  { <<f, k>> : k \in { j \in DOMAIN st.blocks[f] : p \in TargetsOf(st.blocks[f][j]) } }
Phis(block) == { i \in ToSet(block) : i.op = "phi" }

\* Each of a live function's blocks is the one being filled, awaited by exactly
\* one frame, or ended
Awaited(st, p) == \E i \in DOMAIN st.stack : p \in Pending(st.stack[i])
Blocked(st) ==
  /\ st.at[1] = st.fn
  /\ \A i \in DOMAIN st.stack : /\ \A p \in Named(st.stack[i]) : p[1] = st.fn
                                /\ Distinct(st.stack[i])
                                /\ st.at \notin Pending(st.stack[i])
  /\ \A i, j \in DOMAIN st.stack :
       i # j => Pending(st.stack[i]) \cap Pending(st.stack[j]) = {}
  /\ \A b \in DOMAIN st.blocks[st.fn] :
       IF <<st.fn, b>> = st.at \/ Awaited(st, <<st.fn, b>>)
       THEN IsOpen(st.blocks[st.fn][b])
       ELSE IsEnded(st, st.fn, b)

\* Where the edges of a live function without nested control flow come from
InFlow(frame) == frame.step \in {"branch", "test", "loop", "again"}
Edged(st) ==
  /\ \A i, j \in DOMAIN st.stack :
       /\ i < j /\ Arm(st.stack[i]) => ~InFlow(st.stack[j])
       /\ i # j => Aims(st.stack[i]) \cap Aims(st.stack[j]) = {}
  /\ \A i \in DOMAIN st.stack :
       LET frame == st.stack[i]
       IN /\ frame.step = "branch" => st.at = frame.body
          /\ frame.step = "loop" => /\ st.at = frame.loop
                                    /\ Preds(st, st.fn, frame.cond) = {frame.entry}
          /\ frame.step \in {"branch", "test"} =>
               Preds(st, st.fn, frame.end) = ToSet(frame.places)
          /\ \A p \in Aims(frame) : Phis(st.blocks[p[1]][p[2]]) = {}
PhisMatch(st, f) ==
  \A b \in DOMAIN st.blocks[f] : \A i \in Phis(st.blocks[f][b]) :
    ToSet(i.places) = Preds(st, f, <<f, b>>)

-----------------------------------------------------------------------------
\* The invariant, of a compile state

Standing(st) ==
  /\ st.open \cup Done(st) # {} => Exists(st, st.at)
  /\ \A i \in DOMAIN st.stack : \A p \in Named(st.stack[i]) : Exists(st, p)
Kept(st) ==
  /\ DOMAIN st.blocks \subseteq Done(st) \cup Torn(st) \cup st.open
  /\ \A f \in Done(st) \ Torn(st) :
       /\ f \in DOMAIN st.blocks
       /\ \A b \in DOMAIN st.blocks[f] : IsEnded(st, f, b)
       /\ f \notin st.nested => PhisMatch(st, f)
Loose(st) ==
  st.open # {} /\ ~Live(st) =>
    /\ st.open \subseteq Torn(st) /\ st.fn \in Torn(st) /\ st.at[1] \in Torn(st)
    /\ \A i \in DOMAIN st.stack : \A p \in Named(st.stack[i]) : p[1] \in Torn(st)
Alive(st) ==
  Live(st) =>
    /\ st.fn = st.stack[1].f /\ st.fn \notin st.entries
    /\ Blocked(st)
    /\ st.fn \notin st.nested => Edged(st) /\ PhisMatch(st, st.fn)

IInv(st) ==
  /\ Bottom(st) /\ Middle(st)
  /\ Standing(st) /\ Kept(st) /\ Loose(st) /\ Alive(st)

\* Between any two steps of the compiler: a function is required at the bottom of
\* the stack and those begun in the middle of it are above; each block of the
\* function being compiled is being filled, awaited by exactly one handler, or ended
\* by its only terminator; what was left is complete; and once a function has been
\* interrupted, the code still to come goes to interrupted functions only.
Inductive == IInv(c)
=============================================================================
