--------------------------- MODULE LlvmSupportedInv ---------------------------
(***************************************************************************)
(* What is true of the compile state while a supported function is being   *)
(* compiled: the inductive invariant from which LlvmSupportedProofs        *)
(* derives that the function compiles and calls what it says.              *)
(***************************************************************************)
EXTENDS LlvmSupported, LlvmCodegenInv

\* The scopes with a value for their bindings
Pushed(st) == { e.scope : e \in ToSet(st.scopes) } \ Slotless
Scoped(st) == \A e \in ToSet(st.scopes) : e.scope \notin Slotless => e.value.type = "ptr"

\* A part of a supported function that may be compiled now
Fits(st, n) == Supported(n) /\ FreeScopes(n) \subseteq Pushed(st)

\* A callee with the arguments gathered for it
Takes(name, args) ==
  /\ name \in DOMAIN program \cup Subroutines
  /\ \A a \in ToSet(args) : a.type \in {"inst", "ptr"}
  /\ name \in DOMAIN program => Len(args) = program[name].params

-----------------------------------------------------------------------------
\* Types

\* The types a frame goes on with, as lastReturnedValue's
Wants(frame) ==
  CASE frame.step \in {"return", "argument", "test", "again", "assign"} -> {"inst", "ptr"}
    [] frame.step \in {"loop", "slot"} -> {"ptr"}
    [] frame.step = "branch" ->
         IF frame.values = <<>> /\ frame.n.else = <<>>
         THEN {"inst", "ptr", "null", "bool", "stale"} ELSE {"inst"}
    [] frame.step = "bind" -> {"inst", "ptr", "null"}
    [] OTHER -> {"inst", "ptr", "null", "bool", "stale"}

\* The type it leaves there at its end; a store leaves what it finds
Gives(frame) ==
  CASE frame.step = "compile" -> TypeOf(frame.n)
    [] frame.step \in {"argument", "callee", "call"} -> "ptr"
    [] frame.step \in {"branch", "test", "loop", "again"} -> "inst"
    [] frame.step = "slot" -> TypeOf(frame.n.value)
    [] OTHER -> "stale"
Passes(frame) == frame.step \in {"assign", "bind"}

\* What comes down to each frame is what it wants
Fed(st) ==
  \A i \in 2 .. Len(st.stack) :
    /\ (\A k \in i + 1 .. Len(st.stack) : Passes(st.stack[k])) =>
         st.val.type \in Wants(st.stack[i])
    /\ \A j \in i + 1 .. Len(st.stack) :
         (\A k \in i + 1 .. j - 1 : Passes(st.stack[k])) /\ ~Passes(st.stack[j]) =>
           Gives(st.stack[j]) \in Wants(st.stack[i])

\* A frame has what it needs to go on
Provided(st, i) ==
  LET frame == st.stack[i]
  IN CASE frame.step = "compile" -> frame.n.op = "function" \/ Fits(st, frame.n)
       [] frame.step = "argument" ->
            /\ Fits(st, frame.n) /\ Len(frame.args) < Len(frame.n.args)
            /\ \A a \in ToSet(frame.args) : a.type \in {"inst", "ptr"}
       [] frame.step = "callee" ->
            \/ i = Len(st.stack) /\ st.inst # "none" /\ Takes(st.inst, frame.args)
            \/ /\ Len(st.stack) = i + 1 /\ st.stack[i + 1].step = "compile"
               /\ st.stack[i + 1].n.op = "global"
               /\ Takes(st.stack[i + 1].n.name, frame.args)
       [] frame.step = "call" -> Takes(frame.f, frame.args)
       [] frame.step \in {"branch", "test"} ->
            Fits(st, frame.n) /\ \A v \in ToSet(frame.values) : v.type = "inst"
       [] frame.step \in {"loop", "slot"} -> Fits(st, frame.n)
       [] frame.step = "again" -> frame.phi.type = "inst"
       [] frame.step \in {"assign", "bind"} -> frame.to.type = "ptr"
       [] OTHER -> TRUE

-----------------------------------------------------------------------------
\* Calls

\* The callees a frame has yet to call
ToCome(st, i) ==
  LET frame == st.stack[i]
  IN CASE frame.step = "compile" ->
            IF frame.n.op = "function" THEN {} ELSE Callees(frame.n)
       [] frame.step = "argument" ->
            {frame.n.callee.name}
              \cup UNION { Callees(frame.n.args[k]) :
                             k \in Len(frame.args) + 2 .. Len(frame.n.args) }
       [] frame.step = "callee" ->
            IF i = Len(st.stack) THEN {st.inst} ELSE {st.stack[i + 1].n.name}
       [] frame.step = "call" -> {frame.f}
       [] frame.step = "branch" ->
            UNION { Callees(frame.n.branches[k][1]) \cup Callees(frame.n.branches[k][2]) :
                      k \in 1 .. frame.left }
       [] frame.step = "test" ->
            Callees(frame.n.branches[frame.left][2])
              \cup UNION { Callees(frame.n.branches[k][1])
                             \cup Callees(frame.n.branches[k][2]) : k \in 1 .. frame.left - 1 }
       [] frame.step = "loop" -> Callees(frame.n.cond)
       [] frame.step = "slot" -> Callees(frame.n.value)
       [] OTHER -> {}

Truth == {"___cult__runtime_truth"}

\* What has been called and what is to come are the callees of the function
CallsAddUp(st) ==
  Called(st.blocks[st.fn]) \cup (UNION { ToCome(st, i) : i \in DOMAIN st.stack }) \cup Truth
    = Callees(program[st.fn].body) \cup Truth

-----------------------------------------------------------------------------
\* The invariant, of a compile state

\* The function at work is the one required, and supported
Working(st) == Live(st) /\ SupportedFunction(st.fn)

\* Crashes and faults are of unsupported functions, or torn ones
Blamed(st, f) == f \in DOMAIN program \ Torn(st) => ~SupportedFunction(f)

SInv(st) ==
  /\ Scoped(st)
  /\ st.crashed # "no" => Blamed(st, st.crashed)
  /\ \A fault \in st.faults : Blamed(st, fault[1])
  /\ st.crashed = "no" =>
       /\ Working(st) => /\ Fed(st) /\ CallsAddUp(st)
                         /\ \A i \in 3 .. Len(st.stack) : Provided(st, i)
       /\ \A f \in Done(st) \ Torn(st) : SupportedFunction(f) =>
            Called(st.blocks[f]) \cup Truth = Callees(program[f].body) \cup Truth

\* While a supported function is compiled, every value that is awaited will be of a
\* type its user takes, and the calls made and those to come are the ones written.
SupportedInductive == SInv(c)
=============================================================================
