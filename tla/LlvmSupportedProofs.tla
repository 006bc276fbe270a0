------------------------- MODULE LlvmSupportedProofs -------------------------
(***************************************************************************)
(* Whatever else is compiled before, and whatever its conditions and loops *)
(* are like: a supported function compiled in one piece never meets a null *)
(* value or one of a type that LLVM refuses, and its code calls what the   *)
(* function calls.                                                         *)
(***************************************************************************)
EXTENDS LlvmSupportedInv, LlvmCodegenProofs

-----------------------------------------------------------------------------
\* What the analysis of a node says of its parts

Under1(n) == Parts(n) \cup Arms(n)

LEMMA PartsAreNodes ==
  ASSUME NEW n \in Nodes
  PROVE  Under1(n) \subseteq Nodes
<1>1. \A x \in Seq(Nodes) : ToSet(x) \subseteq Nodes
  <2> TAKE x \in Seq(Nodes)
  <2>1. DOMAIN x = 1 .. Len(x)
    BY LenProperties
  <2> QED
    BY <2>1, ElementOfSeq DEF ToSet
<1>2. \A x \in Seq(Nodes \X Nodes) : ToSet(x) \subseteq Nodes \X Nodes
  <2> TAKE x \in Seq(Nodes \X Nodes)
  <2>1. DOMAIN x = 1 .. Len(x)
    BY LenProperties
  <2> QED
    BY <2>1, ElementOfSeq DEF ToSet
<1>3. n \in NodesOf({n.op})
  BY DEF NodesOf
<1>4. CASE n.op = "do"
  <2>1. ToSet(n.statements) \subseteq Nodes
    BY <1>1, <1>3, <1>4, NodeIs
  <2> QED
    BY <1>4, <2>1 DEF Under1, Parts, Arms
<1>5. CASE n.op = "variable"
  <2>1. ToSet(n.init) \subseteq Nodes
    BY <1>1, <1>3, <1>5, NodeIs
  <2> QED
    BY <1>5, <2>1 DEF Under1, Parts, Arms
<1>6. CASE n.op = "call"
  <2>1. ToSet(n.args) \subseteq Nodes /\ n.callee \in Nodes
    BY <1>1, <1>3, <1>6, NodeIs
  <2> QED
    BY <1>6, <2>1 DEF Under1, Parts, Arms
<1>7. CASE n.op = "if"
  <2>1. ToSet(n.branches) \subseteq Nodes \X Nodes /\ ToSet(n.else) \subseteq Nodes
    BY <1>1, <1>2, <1>3, <1>7, NodeIs
  <2>2. \A b \in ToSet(n.branches) : b[1] \in Nodes /\ b[2] \in Nodes
    BY <2>1
  <2> QED
    BY <1>7, <2>1, <2>2 DEF Under1, Parts, Arms
<1>8. CASE n.op = "define"
  <2>1. n.value \in Nodes
    BY <1>3, <1>8, NodeIs
  <2> QED
    BY <1>8, <2>1 DEF Under1, Parts, Arms
<1>9. CASE n.op = "set"
  <2>1. n.value \in Nodes /\ n.slot \in Nodes
    BY <1>3, <1>9, NodeIs
  <2> QED
    BY <1>9, <2>1 DEF Under1, Parts, Arms
<1>10. CASE n.op = "while"
  <2>1. n.cond \in Nodes /\ n.body \in Nodes
    BY <1>3, <1>10, NodeIs
  <2> QED
    BY <1>10, <2>1 DEF Under1, Parts, Arms
<1>11. CASE n.op = "function"
  <2>1. n.body \in Nodes
    BY <1>3, <1>11, NodeIs
  <2> QED
    BY <1>11, <2>1 DEF Under1, Parts, Arms
<1>12. CASE n.op \in {"const", "local", "global", "unsupported"}
  BY <1>12 DEF Under1, Parts, Arms
<1> QED
  BY <1>4, <1>5, <1>6, <1>7, <1>8, <1>9, <1>10, <1>11, <1>12, OpIs DEF Ops

LEMMA AnalysisIs ==
  ASSUME NEW n \in Nodes
  PROVE  /\ Subtree(n) = {n} \cup UNION { Subtree(k) : k \in Under1(n) }
         /\ TypeOf(n) = TypeRule(n, TypeOf)
         /\ TypeOf(n) \in {"inst", "ptr", "null", "stale"}
         /\ FreeScopes(n) = FreeRule(n, FreeScopes)
<1> DEFINE N == Nodes \cup UNION { { p[f] : f \in DOMAIN p } : p \in Programs }
<1>1. \A m \in N :
        /\ Subtree(m) = SubtreeRule(m, Subtree)
        /\ TypeOf(m) = TypeRule(m, TypeOf)
        /\ TypeOf(m) \in {"inst", "ptr", "null", "stale"}
        /\ FreeScopes(m) = FreeRule(m, FreeScopes)
  BY AnalysisAssumption DEF Analysis
<1>2. n \in N
  OBVIOUS
<1> QED
  BY <1>1, <1>2 DEF SubtreeRule, Under1

LEMMA SupportedParts ==
  ASSUME NEW n \in Nodes, Supported(n)
  PROVE  Sound(n) /\ \A k \in Under1(n) : k \in Nodes /\ Supported(k)
<1>1. Subtree(n) = {n} \cup UNION { Subtree(k) : k \in Under1(n) }
  BY AnalysisIs
<1>2. n \in Subtree(n)
  BY <1>1
<1>3. Sound(n)
  BY <1>2 DEF Supported
<1>4. ASSUME NEW k \in Under1(n) PROVE Supported(k)
  <2>1. Subtree(k) \in { Subtree(j) : j \in Under1(n) }
    OBVIOUS
  <2>2. Subtree(k) \subseteq Subtree(n)
    BY <1>1, <2>1
  <2> QED
    BY <2>2 DEF Supported
<1> QED
  BY <1>3, <1>4, PartsAreNodes

LEMMA FreeParts ==
  ASSUME NEW n \in Nodes
  PROVE  /\ \A k \in Under1(n) :
              FreeScopes(k) \subseteq
                FreeScopes(n) \cup (IF n.op = "do" /\ n.slots > 0 THEN {n.scope} ELSE {})
         /\ n.op \in {"local", "define", "variable"} => n.scope \in FreeScopes(n)
<1> DEFINE own == IF n.op \in {"local", "define", "variable"} THEN {n.scope} ELSE {}
           made == IF n.op = "do" /\ n.slots > 0 THEN {n.scope} ELSE {}
<1>1. FreeScopes(n) = own \cup ((UNION { FreeScopes(k) : k \in Under1(n) }) \ made)
  BY AnalysisIs DEF FreeRule, Under1
<1>2. n.op \in {"local", "define", "variable"} => n.scope \in own
  OBVIOUS
<1> HIDE DEF own, made
<1>3. \A x : x \in FreeScopes(n) <=>
               x \in own \/ (x \notin made /\ \E k \in Under1(n) : x \in FreeScopes(k))
  BY <1>1
<1>4. \A k \in Under1(n) : FreeScopes(k) \subseteq FreeScopes(n) \cup made
  BY <1>3
<1> QED
  BY <1>2, <1>3, <1>4 DEF made

LEMMA CalleesIs ==
  ASSUME NEW n \in Nodes
  PROVE  Callees(n) = (IF n.op = "call" /\ n.callee.op = "global" THEN {n.callee.name} ELSE {})
                        \cup UNION { Callees(k) : k \in Under1(n) }
<1> DEFINE own == IF n.op = "call" /\ n.callee.op = "global" THEN {n.callee.name} ELSE {}
           named(j) == j.op = "call" /\ j.callee.op = "global"
           below == UNION { Callees(k) : k \in Under1(n) }
<1>1. \A m, x : x \in Callees(m) <=> \E j \in Subtree(m) : named(j) /\ x = j.callee.name
  BY DEF Callees
<1>2. Subtree(n) = {n} \cup UNION { Subtree(k) : k \in Under1(n) }
  BY AnalysisIs
<1>3. ASSUME NEW x \in Callees(n) PROVE x \in own \cup below
  <2>1. PICK j \in Subtree(n) : named(j) /\ x = j.callee.name
    BY <1>1, <1>3
  <2>2. CASE j = n
    BY <2>1, <2>2
  <2>3. CASE \E k \in Under1(n) : j \in Subtree(k)
    <3>1. PICK k \in Under1(n) : j \in Subtree(k)
      BY <2>3
    <3>2. x \in Callees(k)
      BY <1>1, <2>1, <3>1
    <3> QED
      BY <3>2
  <2> QED
    BY <1>2, <2>1, <2>2, <2>3
<1>4. ASSUME NEW x \in own PROVE x \in Callees(n)
  <2>1. named(n) /\ x = n.callee.name
    BY <1>4
  <2>2. n \in Subtree(n)
    BY <1>2
  <2> QED
    BY <1>1, <2>1, <2>2
<1>5. ASSUME NEW x \in below PROVE x \in Callees(n)
  <2>1. PICK k \in Under1(n) : x \in Callees(k)
    BY <1>5
  <2>2. PICK j \in Subtree(k) : named(j) /\ x = j.callee.name
    BY <1>1, <2>1
  <2>3. j \in Subtree(n)
    BY <1>2, <2>1, <2>2
  <2> QED
    BY <1>1, <2>2, <2>3
<1> QED
  BY <1>3, <1>4, <1>5

\* A part of what may be compiled now may be compiled, once its scope is pushed
LEMMA PartFits ==
  ASSUME NEW s, NEW n \in Nodes, Fits(s, n), NEW t, Pushed(s) \subseteq Pushed(t),
         n.op = "do" /\ n.slots > 0 => n.scope \in Pushed(t),
         NEW k \in Under1(n)
  PROVE  k \in Nodes /\ Fits(t, k)
<1>1. Supported(n) /\ FreeScopes(n) \subseteq Pushed(s)
  BY DEF Fits
<1>2. k \in Nodes /\ Supported(k)
  BY <1>1, SupportedParts
<1>3. FreeScopes(k) \subseteq
        FreeScopes(n) \cup (IF n.op = "do" /\ n.slots > 0 THEN {n.scope} ELSE {})
  BY FreeParts
<1> QED
  BY <1>1, <1>2, <1>3 DEF Fits

-----------------------------------------------------------------------------
\* What no step does, whatever it is given: a crash or a fault is of the function at
\* work, and scopes stay

Rec(st) == DOMAIN st = DOMAIN Fresh
Blames(s, t) ==
  /\ Rec(t) /\ t.fn = s.fn
  /\ Scoped(s) => Scoped(t) /\ Pushed(s) \subseteq Pushed(t)
  /\ t.crashed \in {s.crashed, s.fn}
  /\ \A fault \in t.faults : fault \in s.faults \/ fault[1] = s.fn

LEMMA BlamesTwice ==
  ASSUME NEW s, NEW t, NEW u, Blames(s, t), Blames(t, u)
  PROVE  Blames(s, u)
BY DEF Blames

LEMMA BlamesNothing ==
  ASSUME NEW s, NEW t, Rec(t), t.fn = s.fn, t.scopes = s.scopes, t.crashed = s.crashed,
         t.faults = s.faults
  PROVE  Blames(s, t)
BY DEF Blames, Scoped, Pushed

\* The updates of registers
LEMMA BlamesCall ==
  ASSUME NEW s, Rec(s), NEW x
  PROVE  Blames(s, [s EXCEPT !.stack = x]) /\ Blames(s, Call(s, x)) /\ Blames(s, CallAll(s, x))
<1>1. Blames(s, [s EXCEPT !.stack = x])
  BY BlamesNothing DEF Rec, Fresh
<1>2. Blames(s, Call(s, x))
  BY BlamesNothing DEF Call, Rec, Fresh
<1>3. Blames(s, CallAll(s, x))
  BY BlamesNothing DEF CallAll, Rec, Fresh
<1> QED
  BY <1>1, <1>2, <1>3

LEMMA BlamesCallThen ==
  ASSUME NEW s, Rec(s), NEW n, NEW frame
  PROVE  Blames(s, CallThen(s, n, frame))
<1>1. Blames(s, Call(s, frame)) /\ Rec(Call(s, frame))
  BY BlamesCall DEF Blames
<1>2. Blames(Call(s, frame), Call(Call(s, frame), Compiling(n)))
  BY <1>1, BlamesCall
<1> QED
  BY <1>1, <1>2, BlamesTwice DEF CallThen

LEMMA BlamesEmit ==
  ASSUME NEW s, Rec(s), NEW ins
  PROVE  Blames(s, Emit(s, ins))
BY BlamesNothing DEF Emit, Rec, Fresh

LEMMA BlamesReturned ==
  ASSUME NEW s, Rec(s), NEW x
  PROVE  Blames(s, Returned(s, x))
BY BlamesNothing DEF Returned, Rec, Fresh

LEMMA BlamesEmitReturned ==
  ASSUME NEW s, Rec(s), NEW type, NEW ins
  PROVE  Blames(s, EmitReturned(s, type, ins))
<1>1. Blames(s, Emit(s, ins)) /\ Rec(Emit(s, ins))
  BY BlamesEmit DEF Blames
<1>2. Blames(Emit(s, ins), Returned(Emit(s, ins), Result(s, type)))
  BY <1>1, BlamesReturned
<1> QED
  BY <1>1, <1>2, BlamesTwice DEF EmitReturned

LEMMA BlamesSetInsertPoint ==
  ASSUME NEW s, Rec(s), NEW place
  PROVE  Blames(s, SetInsertPoint(s, place))
BY BlamesNothing DEF SetInsertPoint, Rec, Fresh

LEMMA BlamesAddBlock ==
  ASSUME NEW s, Rec(s)
  PROVE  Blames(s, AddBlock(s))
BY BlamesNothing DEF AddBlock, SetBlocks, Rec, Fresh

LEMMA BlamesNest ==
  ASSUME NEW s, Rec(s)
  PROVE  Blames(s, Nest(s))
BY BlamesNothing DEF Nest, Rec, Fresh

LEMMA BlamesThrow ==
  ASSUME NEW s, Rec(s)
  PROVE  Blames(s, Throw(s))
BY BlamesNothing DEF Throw, Rec, Fresh

LEMMA BlamesCrash ==
  ASSUME NEW s, Rec(s)
  PROVE  Blames(s, Crash(s))
BY DEF Crash, Rec, Fresh, Blames, Scoped, Pushed

LEMMA BlamesFault ==
  ASSUME NEW s, Rec(s), NEW what, NEW holds
  PROVE  Blames(s, Fault(s, what, holds))
<1> DEFINE t == Fault(s, what, holds)
<1>1. /\ Rec(t) /\ t.fn = s.fn /\ t.scopes = s.scopes /\ t.crashed = s.crashed
      /\ t.faults = IF holds THEN s.faults \cup {<<s.fn, what>>} ELSE s.faults
  BY DEF Fault, Rec, Fresh
<1> QED
  BY <1>1 DEF Blames, Scoped, Pushed

\* The operations built of them
LEMMA BlamesEmission ==
  ASSUME NEW s, Rec(s), NEW dest, NEW src, NEW callee, NEW returns, NEW args, NEW places
  PROVE  /\ Blames(s, GenInstanceAssign(s, dest, src)) /\ Blames(s, GenLoad(s))
         /\ Blames(s, GenCall(s, callee, returns, args)) /\ Blames(s, GenTruth(s))
         /\ Blames(s, GenPhi(s, args, places))
<1> DEFINE fault(what, holds) == Fault(s, what, holds)
<1>1. \A what, holds : Blames(s, fault(what, holds)) /\ Rec(fault(what, holds))
  BY BlamesFault DEF Blames
<1> HIDE DEF fault
<1>2. ASSUME NEW what, NEW holds, NEW type, NEW ins
      PROVE  /\ Blames(s, Emit(fault(what, holds), ins))
             /\ Blames(s, EmitReturned(fault(what, holds), type, ins))
  BY <1>1, BlamesEmit, BlamesEmitReturned, BlamesTwice
<1>3. Blames(s, Crash(s))
  BY BlamesCrash
<1>4. Blames(s, GenInstanceAssign(s, dest, src))
  BY <1>2, <1>3 DEF GenInstanceAssign, fault
<1>5. Blames(s, GenLoad(s))
  BY <1>2, <1>3 DEF GenLoad, fault
<1>6. \A f, type, x : Blames(s, GenCall(s, f, type, x))
  BY <1>2, <1>3 DEF GenCall, fault
<1>7. Blames(s, GenPhi(s, args, places))
  BY <1>2, <1>3 DEF GenPhi, fault
<1> QED
  BY <1>4, <1>5, <1>6, <1>7 DEF GenTruth

LEMMA BlamesOn ==
  ASSUME NEW s, NEW t, Blames(s, t)
  PROVE  /\ \A ins : Blames(s, Emit(t, ins))
         /\ \A v : Blames(s, Returned(t, v))
         /\ \A place : Blames(s, SetInsertPoint(t, place))
         /\ Blames(s, AddBlock(t)) /\ Blames(s, Nest(t)) /\ Blames(s, Throw(t))
         /\ \A what, holds : Blames(s, Fault(t, what, holds))
         /\ \A frame : Blames(s, Call(t, frame))
         /\ \A n, frame : Blames(s, CallThen(t, n, frame))
         /\ \A nodes : Blames(s, CallAll(t, nodes))
<1>1. Rec(t) /\ \A u : Blames(t, u) => Blames(s, u)
  BY BlamesTwice DEF Blames
<1> QED
  BY <1>1, BlamesEmit, BlamesReturned, BlamesSetInsertPoint, BlamesAddBlock, BlamesNest,
     BlamesThrow, BlamesFault, BlamesCall, BlamesCallThen

LEMMA BlamesEmissionOn ==
  ASSUME NEW s, NEW t, Blames(s, t)
  PROVE  /\ Blames(s, Crash(t)) /\ Blames(s, GenLoad(t)) /\ Blames(s, GenTruth(t))
         /\ \A dest, src : Blames(s, GenInstanceAssign(t, dest, src))
         /\ \A callee, returns, args : Blames(s, GenCall(t, callee, returns, args))
         /\ \A values, places : Blames(s, GenPhi(t, values, places))
         /\ \A to : Blames(s, GenBr(t, to))
         /\ \A then, else : Blames(s, GenCondBr(t, then, else))
<1>1. Rec(t) /\ \A u : Blames(t, u) => Blames(s, u)
  BY BlamesTwice DEF Blames
<1>2. \A to : Blames(s, GenBr(t, to))
  BY BlamesOn DEF GenBr
<1>3. \A then, else : Blames(s, GenCondBr(t, then, else))
  BY BlamesOn DEF GenCondBr
<1> QED
  BY <1>1, <1>2, <1>3, BlamesCrash, BlamesEmission

LEMMA BlamesItself ==
  ASSUME NEW s, Rec(s)
  PROVE  Blames(s, s)
BY DEF Blames

\* The handlers of nodes
LEMMA BlamesPushBlock ==
  ASSUME NEW s, Types(s), NEW n \in NodesOf({"do"})
  PROVE  /\ Blames(s, PushBlock(s, n))
         /\ Scoped(s) /\ n.slots > 0 => n.scope \in Pushed(PushBlock(s, n))
<1> DEFINE loc == IF n.slots > 0 THEN Result(s, "ptr") ELSE NoValue
           e == [scope |-> n.scope, value |-> loc]
           u == [s EXCEPT !.scopes = Append(@, e)]
           ins == Instruction("alloca", <<>>, <<>>)
<1>1. PushBlock(s, n) = IF n.slots = 0 THEN u ELSE EmitReturned(u, "ptr", ins)
  BY DEF PushBlock
<1>2. n \in Nodes /\ n.op = "do" /\ n.slots \in Nat
  BY NodeIs DEF NodesOf
<1>3. n.scope \in Slotless <=> n.slots = 0
  BY <1>2, AnalysisAssumption DEF Analysis
<1>4. /\ Rec(u) /\ u.fn = s.fn /\ u.scopes = Append(s.scopes, e)
      /\ u.crashed = s.crashed /\ u.faults = s.faults
  BY DEF Types, Rec, Fresh
<1>5. n.slots > 0 => loc.type = "ptr"
  BY DEF Result
<1>6. e.scope = n.scope /\ e.value = loc
  OBVIOUS
<1>7. \A S : s.scopes \in Seq(S) /\ e \in S => ToSet(Append(s.scopes, e)) = ToSet(s.scopes) \cup {e}
  BY AppendedSet
<1> HIDE DEF e, u
<1>8. ToSet(u.scopes) = ToSet(s.scopes) \cup {e}
  <2>1. s.scopes \in Seq(Scopes \cup {e})
    BY SeqMonotonic DEF Types
  <2> QED
    BY <1>4, <1>7, <2>1
<1>9. Blames(s, u)
  <2>1. Scoped(s) => Scoped(u)
    BY <1>2, <1>3, <1>5, <1>6, <1>8 DEF Scoped
  <2>2. Pushed(s) \subseteq Pushed(u)
    BY <1>8 DEF Pushed
  <2> QED
    BY <1>4, <2>1, <2>2 DEF Blames
<1>10. n.slots > 0 => n.scope \in Pushed(u)
  BY <1>2, <1>3, <1>6, <1>8 DEF Pushed
<1>11. Blames(u, EmitReturned(u, "ptr", ins))
  BY <1>4, BlamesEmitReturned
<1>12. EmitReturned(u, "ptr", ins).scopes = u.scopes
  BY <1>4 DEF EmitReturned, Emit, Returned, Rec, Fresh
<1>13. Pushed(EmitReturned(u, "ptr", ins)) = Pushed(u)
  BY <1>12 DEF Pushed
<1> QED
  BY <1>1, <1>9, <1>10, <1>11, <1>13, BlamesTwice

LEMMA BlamesResolve ==
  ASSUME NEW s, Rec(s), NEW n
  PROVE  Blames(s, GenResolve(s, n))
<1> DEFINE t == GenResolve(s, n)
<1>1. /\ Rec(t) /\ t.fn = s.fn /\ t.scopes = s.scopes /\ t.crashed = s.crashed
      /\ t.faults = s.faults
  BY DEF GenResolve, Rec, Fresh
<1> QED
  BY <1>1, BlamesNothing

LEMMA BlamesNextArgument ==
  ASSUME NEW s, Rec(s), NEW n, NEW args
  PROVE  Blames(s, NextArgument(s, n, args))
BY BlamesItself, BlamesOn DEF NextArgument

LEMMA BlamesGen ==
  ASSUME NEW s, Types(s), NEW n \in Nodes, n.op # "function"
  PROVE  Blames(s, Gen(s, n))
<1>1. Rec(s) /\ Blames(s, s)
  BY BlamesItself DEF Types, Rec
<1>2. CASE n.op \in {"const", "unsupported"}
  BY <1>1, <1>2, BlamesOn DEF Gen
<1>3. CASE n.op \in {"local", "global"}
  BY <1>1, <1>3, BlamesResolve DEF Gen
<1>4. CASE n.op = "do"
  <2>1. Blames(s, PushBlock(s, n))
    BY <1>4, BlamesPushBlock DEF NodesOf
  <2> QED
    BY <1>4, <2>1, BlamesOn DEF Gen
<1>5. CASE n.op = "define"
  BY <1>1, <1>5, BlamesOn DEF Gen, GenBindSite
<1>6. CASE n.op = "variable"
  <2>1. \A frame : Blames(s, Call(s, frame))
    BY <1>1, BlamesOn
  <2>2. \A frame, nodes : Blames(s, CallAll(Call(s, frame), nodes))
    BY <2>1, BlamesOn
  <2> QED
    BY <1>1, <1>6, <2>2, BlamesOn DEF Gen, GenVariable
<1>7. CASE n.op = "set"
  BY <1>1, <1>7, BlamesOn DEF Gen, GenAssign
<1>8. CASE n.op = "call"
  BY <1>1, <1>8, BlamesNextArgument DEF Gen
<1>9. CASE n.op = "if"
  <2> DEFINE u == AddBlock(AddBlock(Nest(s)))
  <2>1. Blames(s, u)
    BY <1>1, BlamesOn
  <2> HIDE DEF u
  <2>2. \A place : Blames(s, SetInsertPoint(u, place))
    BY <2>1, BlamesOn
  <2>3. \A place, frame : Blames(s, Call(SetInsertPoint(u, place), frame))
    BY <2>2, BlamesOn
  <2>4. \A place, frame, nodes : Blames(s, CallAll(Call(SetInsertPoint(u, place), frame), nodes))
    BY <2>3, BlamesOn
  <2> QED
    BY <1>9, <2>4 DEF Gen, GenCondition, u
<1>10. CASE n.op = "while"
  <2> DEFINE u == AddBlock(AddBlock(AddBlock(Nest(s))))
  <2>1. Blames(s, u)
    BY <1>1, BlamesOn
  <2> HIDE DEF u
  <2>2. \A to : Blames(s, GenBr(u, to))
    BY <2>1, BlamesEmissionOn
  <2>3. \A to, place : Blames(s, SetInsertPoint(GenBr(u, to), place))
    BY <2>2, BlamesOn
  <2>4. \A to, place, m, frame :
          Blames(s, CallThen(SetInsertPoint(GenBr(u, to), place), m, frame))
    BY <2>3, BlamesOn
  <2> QED
    BY <1>10, <2>4 DEF Gen, GenLoop, u
<1> QED
  BY <1>2, <1>3, <1>4, <1>5, <1>6, <1>7, <1>8, <1>9, <1>10, OpIs DEF Ops

\* The handlers that go on
LEMMA BlamesCallee ==
  ASSUME NEW s, Rec(s), NEW frame
  PROVE  Blames(s, GenCallee(s, frame))
<1>1. Blames(s, s)
  BY BlamesItself
<1>2. Blames(s, Crash(s)) /\ Blames(s, Throw(s))
  BY <1>1, BlamesOn, BlamesEmissionOn
<1>3. \A u, f : Blames(s, u) => Blames(s, Require(u, f))
  BY BlamesOn DEF Require
<1>4. \A x, f : Blames(s, Require(Call(s, x), f))
  BY <1>1, <1>3, BlamesOn
<1>5. \A f, args : Blames(s, GenCall(s, f, "ptr", args))
  BY <1>1, BlamesEmissionOn
<1> QED
  BY <1>2, <1>4, <1>5 DEF GenCallee

LEMMA BlamesArm ==
  ASSUME NEW s, Rec(s), NEW frame
  PROVE  Blames(s, GenArm(s, frame))
<1> DEFINE next == [frame EXCEPT !.values = Append(@, ArmValue(s, frame)),
                                 !.places = Incoming(frame)]
           u == GenBr(s, frame.end)
<1>1. Blames(s, u)
  BY BlamesItself, BlamesEmissionOn
<1>2. GenArm(s, frame) = IF frame.left = 0
                         THEN GenPhi(SetInsertPoint(u, frame.end), next.values, next.places)
                         ELSE NextTest(u, next)
  BY DEF GenArm
<1> HIDE DEF next, u
<1>3. \A place, values, places : Blames(s, GenPhi(SetInsertPoint(u, place), values, places))
  <2>1. \A place : Blames(s, SetInsertPoint(u, place))
    BY <1>1, BlamesOn
  <2> QED
    BY <2>1, BlamesEmissionOn
<1>4. Blames(s, NextTest(u, next))
  <2> DEFINE h == IF next.left = 1 THEN AddBlock(u) ELSE AddBlock(AddBlock(u))
             test == IF next.left = 1 THEN next.entry ELSE NewBlock(AddBlock(u))
             body == [next EXCEPT !.step = "test", !.else = next.test, !.test = test,
                                  !.body = NewBlock(u)]
  <2>1. Blames(s, h)
    BY <1>1, BlamesOn
  <2>2. NextTest(u, next) =
          CallThen(SetInsertPoint(h, test), next.n.branches[next.left][1], body)
    BY DEF NextTest
  <2> HIDE DEF h, test, body
  <2>3. Blames(s, SetInsertPoint(h, test))
    BY <2>1, BlamesOn
  <2> QED
    BY <2>2, <2>3, BlamesOn
<1> QED
  BY <1>2, <1>3, <1>4

LEMMA BlamesTest ==
  ASSUME NEW s, Rec(s), NEW frame
  PROVE  Blames(s, GenTest(s, frame))
<1>1. Blames(s, GenTruth(s))
  BY BlamesItself, BlamesEmissionOn
<1>2. \A then, else : Blames(s, GenCondBr(GenTruth(s), then, else))
  BY <1>1, BlamesEmissionOn
<1>3. \A then, else, place : Blames(s, SetInsertPoint(GenCondBr(GenTruth(s), then, else), place))
  BY <1>2, BlamesOn
<1>4. \A then, else, place, n, x :
        Blames(s, CallThen(SetInsertPoint(GenCondBr(GenTruth(s), then, else), place), n, x))
  BY <1>3, BlamesOn
<1> QED
  BY <1>4 DEF GenTest

LEMMA BlamesAgain ==
  ASSUME NEW s, Rec(s), NEW frame
  PROVE  Blames(s, GenAgain(s, frame))
<1>1. Blames(s, GenTruth(s))
  BY BlamesItself, BlamesEmissionOn
<1>2. \A then, else : Blames(s, GenCondBr(GenTruth(s), then, else))
  BY <1>1, BlamesEmissionOn
<1>3. \A then, else, place : Blames(s, SetInsertPoint(GenCondBr(GenTruth(s), then, else), place))
  BY <1>2, BlamesOn
<1>4. \A then, else, place, v :
        Blames(s, Returned(SetInsertPoint(GenCondBr(GenTruth(s), then, else), place), v))
  BY <1>3, BlamesOn
<1> QED
  BY <1>4 DEF GenAgain

LEMMA BlamesLoopBody ==
  ASSUME NEW s, Rec(s), NEW frame
  PROVE  Blames(s, GenLoopBody(s, frame))
<1> DEFINE u == GenLoad(s)
           h == SetInsertPoint(GenBr(u, frame.cond), frame.cond)
           phi == GenPhi(h, <<Default, u.val>>, <<frame.entry, frame.loop>>)
           again == [step |-> "again", loop |-> frame.loop, end |-> frame.end,
                     phi |-> phi.val, last |-> u.val]
<1>1. GenLoopBody(s, frame) = CallThen(Returned(phi, u.val), frame.n.cond, again)
  BY DEF GenLoopBody
<1>2. Blames(s, u)
  BY BlamesItself, BlamesEmissionOn
<1> HIDE DEF u
<1>3. Blames(s, GenBr(u, frame.cond))
  BY <1>2, BlamesEmissionOn
<1>4. Blames(s, h)
  BY <1>3, BlamesOn
<1> HIDE DEF h
<1>5. Blames(s, phi)
  BY <1>4, BlamesEmissionOn
<1> HIDE DEF phi, again
<1>6. Blames(s, Returned(phi, u.val))
  BY <1>5, BlamesOn
<1> QED
  BY <1>1, <1>6, BlamesOn

LEMMA BlamesReturn ==
  ASSUME NEW s, Rec(s), NEW frame
  PROVE  Blames(s, EndFunction(s, frame))
<1> DEFINE u == GenReturn(s)
<1>1. Blames(s, u)
  <2>1. \A dest, src : Blames(s, GenInstanceAssign(s, dest, src))
    BY BlamesItself, BlamesEmissionOn
  <2> QED
    BY <2>1, BlamesOn DEF GenReturn
<1>2. EndFunction(s, frame) = [u EXCEPT !.open = frame.open]
  BY DEF EndFunction
<1> HIDE DEF u
<1>3. Blames(u, [u EXCEPT !.open = frame.open])
  <2>1. Rec(u)
    BY <1>1 DEF Blames
  <2> QED
    BY <2>1, BlamesNothing DEF Rec, Fresh
<1> QED
  BY <1>1, <1>2, <1>3, BlamesTwice

LEMMA BlamesResume ==
  ASSUME NEW s, Types(s), NEW frame \in Frames,
         frame.step = "compile" => frame.n \in Nodes /\ frame.n.op # "function"
  PROVE  Blames(s, Resume(s, frame))
<1>1. Rec(s) /\ Blames(s, s)
  BY BlamesItself DEF Types, Rec
<1>2. CASE frame.step = "compile"
  BY <1>2, BlamesGen DEF Resume
<1>3. CASE frame.step = "return"
  BY <1>1, <1>3, BlamesReturn DEF Resume
<1>4. CASE frame.step = "define"
  <2>1. Blames(s, DefineEntry(s, frame))
    BY <1>1, BlamesNothing DEF DefineEntry, Rec, Fresh
  <2> QED
    BY <1>4, <2>1 DEF Resume
<1>5. CASE frame.step = "argument"
  BY <1>1, <1>5, BlamesNextArgument DEF Resume, GenArgument
<1>6. CASE frame.step = "callee"
  BY <1>1, <1>6, BlamesCallee DEF Resume
<1>7. CASE frame.step = "call"
  <2>1. \A what, holds : Blames(s, Fault(s, what, holds))
    BY <1>1, BlamesOn
  <2>2. \A what, holds, f, args : Blames(s, GenCall(Fault(s, what, holds), f, "ptr", args))
    BY <2>1, BlamesEmissionOn
  <2> QED
    BY <1>7, <2>2 DEF Resume, GenFunctionCall
<1>8. CASE frame.step = "branch"
  BY <1>1, <1>8, BlamesArm DEF Resume
<1>9. CASE frame.step = "test"
  BY <1>1, <1>9, BlamesTest DEF Resume
<1>10. CASE frame.step = "loop"
  BY <1>1, <1>10, BlamesLoopBody DEF Resume
<1>11. CASE frame.step = "again"
  BY <1>1, <1>11, BlamesAgain DEF Resume
<1>12. CASE frame.step = "slot"
  BY <1>1, <1>12, BlamesOn DEF Resume, GenSlot
<1>13. CASE frame.step \in {"assign", "bind"}
  <2>1. Blames(s, GenStore(s, frame))
    BY <1>1, BlamesEmissionOn DEF GenStore
  <2> QED
    BY <1>1, <1>13, <2>1 DEF Resume, GenBind
<1> QED
  BY <1>2, <1>3, <1>4, <1>5, <1>6, <1>7, <1>8, <1>9, <1>10, <1>11, <1>12, <1>13, FrameIs

\* Entering a function
LEMMA EntersScope ==
  ASSUME NEW p, Types(p), NEW n, n.name \in Names, n.body \in Nodes,
         NEW t, t = GenFunction(p, n)
  PROVE  /\ t.crashed = p.crashed /\ t.faults = p.faults
         /\ Scoped(p) => Scoped(t)
         /\ Pushed(p) \subseteq Pushed(t)
         /\ n.name \notin Slotless => n.name \in Pushed(t)
<1> DEFINE s == [p EXCEPT !.fn = n.name]
           a == SetInsertPoint(AddBlock(s), NewBlock(s))
           e == [scope |-> n.name, value |-> Argument(a.fn, 2)]
           u == [a EXCEPT !.scopes = Append(@, e)]
           params == IF n.params > 0 THEN Returned(u, NoValue) ELSE u
           open == [params EXCEPT
                      !.open = @ \cup {n.name},
                      !.cut = @ \cup p.open,
                      !.within = IF p.open = {} THEN @ ELSE @ \cup {n.name}]
           frame == [step |-> "return", open |-> p.open]
<1>1. t = CallThen(open, n.body, frame)
  BY DEF GenFunction, EnterFunction, PushFunction
<1>2. /\ Rec(s) /\ s.scopes = p.scopes /\ s.crashed = p.crashed /\ s.faults = p.faults
  BY DEF Types, Rec, Fresh
<1> HIDE DEF s
<1>3. /\ Rec(a) /\ a.scopes = p.scopes /\ a.crashed = p.crashed /\ a.faults = p.faults
  BY <1>2 DEF SetInsertPoint, AddBlock, SetBlocks, Rec, Fresh
<1>4. e.scope = n.name /\ e.value.type = "ptr"
  BY DEF Argument
<1> HIDE DEF a, e
<1>5. /\ Rec(u) /\ u.scopes = Append(p.scopes, e)
      /\ u.crashed = p.crashed /\ u.faults = p.faults
  BY <1>3 DEF Rec, Fresh
<1> HIDE DEF u
<1>6. /\ Rec(params) /\ params.scopes = u.scopes
      /\ params.crashed = p.crashed /\ params.faults = p.faults
  BY <1>5 DEF Returned, Rec, Fresh
<1> HIDE DEF params
<1>7. /\ Rec(open) /\ open.scopes = u.scopes
      /\ open.crashed = p.crashed /\ open.faults = p.faults
  BY <1>6 DEF Rec, Fresh
<1> HIDE DEF open, frame
<1>8. t.scopes = u.scopes /\ t.crashed = p.crashed /\ t.faults = p.faults
  BY <1>1, <1>7 DEF CallThen, Call, Rec, Fresh
<1>9. ToSet(t.scopes) = ToSet(p.scopes) \cup {e}
  <2>1. p.scopes \in Seq(Scopes \cup {e})
    BY SeqMonotonic DEF Types
  <2> QED
    BY <1>5, <1>8, <2>1, AppendedSet
<1>10. Scoped(p) => Scoped(t)
  BY <1>4, <1>9 DEF Scoped
<1>11. Pushed(p) \subseteq Pushed(t) /\ (n.name \notin Slotless => n.name \in Pushed(t))
  BY <1>4, <1>9 DEF Pushed
<1> QED
  BY <1>8, <1>10, <1>11

-----------------------------------------------------------------------------
\* The work on a supported function: neither crash nor fault, and which calls it adds

Ready(p) == Types(p) /\ Exists(p, p.at) /\ p.at[1] = p.fn
Works(p, t, names) ==
  /\ Ready(t) /\ t.fn = p.fn
  /\ t.crashed = p.crashed /\ t.faults = p.faults
  /\ Called(t.blocks[t.fn]) = Called(p.blocks[p.fn]) \cup names
  /\ \A q : Exists(p, q) => Exists(t, q)

LEMMA WorksTwice ==
  ASSUME NEW p, NEW t, NEW u, NEW names, NEW others, Works(p, t, names), Works(t, u, others)
  PROVE  Works(p, u, names \cup others)
BY DEF Works

LEMMA WorksOn ==
  ASSUME NEW p, NEW t, NEW u, NEW names, Works(p, t, names), Works(t, u, {})
  PROVE  Works(p, u, names)
BY DEF Works

LEMMA WorksLike ==
  ASSUME NEW p, Ready(p), NEW t, Types(t), t.fn = p.fn, t.at = p.at, t.blocks = p.blocks,
         t.crashed = p.crashed, t.faults = p.faults
  PROVE  Works(p, t, {})
BY DEF Works, Ready, Exists

LEMMA CalledIs ==
  ASSUME NEW blocks, NEW x
  PROVE  x \in Called(blocks) <=>
           \E b \in DOMAIN blocks : \E i \in DOMAIN blocks[b] :
             blocks[b][i].op = "call" /\ x = blocks[b][i].callee
BY DEF Called, ToSet

LEMMA EmitWorks ==
  ASSUME NEW p, Ready(p), NEW ins \in Instructions
  PROVE  /\ Works(p, Emit(p, ins), IF ins.op = "call" THEN {ins.callee} ELSE {})
         /\ Emit(p, ins).val = p.val /\ Emit(p, ins).at = p.at
         /\ Emit(p, ins).stack = p.stack
<1> DEFINE t == Emit(p, ins)
           f == p.fn
           names == IF ins.op = "call" THEN {ins.callee} ELSE {}
<1>1. /\ Types(t) /\ Same(p, t) /\ t.at = p.at /\ t.val = p.val /\ t.stack = p.stack
      /\ DOMAIN t.blocks = DOMAIN p.blocks
      /\ \A g \in DOMAIN p.blocks :
           /\ DOMAIN t.blocks[g] = DOMAIN p.blocks[g]
           /\ \A b \in DOMAIN p.blocks[g] :
                t.blocks[g][b] =
                  IF <<g, b>> = p.at THEN Append(p.blocks[g][b], ins) ELSE p.blocks[g][b]
  BY EmitIs DEF Ready
<1>2. t.crashed = p.crashed /\ t.faults = p.faults
  <2>1. Rec(p)
    BY DEF Ready, Types, Rec
  <2> QED
    BY <2>1 DEF Emit, Rec, Fresh
<1> HIDE DEF t
<1>3. t.fn = f /\ f \in DOMAIN p.blocks /\ p.at[2] \in DOMAIN p.blocks[f] /\ p.at = <<f, p.at[2]>>
  <2>1. p.at \in Places /\ t.fn = f
    BY <1>1 DEF Same, Ready, Types
  <2>2. p.at = <<p.at[1], p.at[2]>>
    BY <2>1 DEF Places
  <2>3. p.at[1] = f /\ p.at[1] \in DOMAIN p.blocks /\ p.at[2] \in DOMAIN p.blocks[p.at[1]]
    BY DEF Ready, Exists
  <2> QED
    BY <2>1, <2>2, <2>3
<1>4. \A b \in DOMAIN p.blocks[f] :
        /\ p.blocks[f][b] \in Seq(Instructions)
        /\ DOMAIN p.blocks[f][b] = 1 .. Len(p.blocks[f][b]) /\ Len(p.blocks[f][b]) \in Nat
  <2>1. p.blocks[f] \in Seq(Seq(Instructions))
    BY <1>3 DEF Ready, Types
  <2> TAKE b \in DOMAIN p.blocks[f]
  <2>2. b \in 1 .. Len(p.blocks[f])
    BY <2>1, LenProperties
  <2>3. p.blocks[f][b] \in Seq(Instructions)
    BY <2>1, <2>2, ElementOfSeq
  <2> QED
    BY <2>3, LenProperties
<1>5. \A x : x \in Called(t.blocks[f]) <=> x \in Called(p.blocks[f]) \cup names
  <2> TAKE x
  <2> DEFINE calls(i) == i.op = "call" /\ x = i.callee
             b0 == p.at[2]
             block == p.blocks[f][b0]
  <2>1. \A b \in DOMAIN p.blocks[f] : b # b0 => t.blocks[f][b] = p.blocks[f][b]
    BY SMTT(30), <1>1, <1>3
  <2>2. t.blocks[f][b0] = Append(block, ins)
    BY <1>1, <1>3
  <2>3. /\ DOMAIN Append(block, ins) = 1 .. Len(block) + 1
        /\ \A i \in 1 .. Len(block) : Append(block, ins)[i] = block[i]
        /\ Append(block, ins)[Len(block) + 1] = ins
        /\ DOMAIN block = 1 .. Len(block) /\ Len(block) \in Nat
    BY <1>3, <1>4, Appended
  <2>4. (\E i \in DOMAIN t.blocks[f][b0] : calls(t.blocks[f][b0][i]))
          <=> (\E i \in DOMAIN block : calls(block[i])) \/ calls(ins)
    <3> HIDE DEF calls, block
    <3>1. ASSUME NEW i \in DOMAIN t.blocks[f][b0], calls(t.blocks[f][b0][i])
          PROVE  (\E j \in DOMAIN block : calls(block[j])) \/ calls(ins)
      BY <2>2, <2>3, <3>1
    <3>2. ASSUME NEW i \in DOMAIN block, calls(block[i])
          PROVE  \E j \in DOMAIN t.blocks[f][b0] : calls(t.blocks[f][b0][j])
      BY <2>2, <2>3, <3>2
    <3>3. ASSUME calls(ins)
          PROVE  \E j \in DOMAIN t.blocks[f][b0] : calls(t.blocks[f][b0][j])
      BY <2>2, <2>3, <3>3
    <3> QED
      BY <3>1, <3>2, <3>3
  <2>5. \A blocks : x \in Called(blocks) <=>
                      \E b \in DOMAIN blocks : \E i \in DOMAIN blocks[b] : calls(blocks[b][i])
    BY CalledIs
  <2>6. x \in names <=> calls(ins)
    OBVIOUS
  <2>7. DOMAIN t.blocks[f] = DOMAIN p.blocks[f] /\ b0 \in DOMAIN p.blocks[f]
    BY <1>1, <1>3
  <2> HIDE DEF calls, names, b0
  <2> QED
    BY <2>1, <2>4, <2>5, <2>6, <2>7
<1>6. Called(t.blocks[f]) = Called(p.blocks[f]) \cup names
  BY <1>5
<1>7. Exists(t, t.at)
  BY <1>1, <1>3 DEF Exists
<1>8. \A q : Exists(p, q) => Exists(t, q)
  BY <1>1 DEF Exists
<1> QED
  BY <1>1, <1>2, <1>3, <1>6, <1>7, <1>8 DEF Works, Ready, t

LEMMA RecReady ==
  ASSUME NEW p, Ready(p)
  PROVE  Types(p) /\ Rec(p) /\ p.val \in Values /\ Exists(p, p.at) /\ Works(p, p, {})
BY DEF Ready, Types, Rec, Works

LEMMA ReturnedWorks ==
  ASSUME NEW p, Ready(p), NEW v \in Values
  PROVE  /\ Works(p, Returned(p, v), {}) /\ Returned(p, v).val = v
         /\ Returned(p, v).stack = p.stack
<1> DEFINE t == Returned(p, v)
<1>1. Types(t) /\ Extended(p, t) /\ t.val = v
  BY RecReady, ReturnedIs
<1>2. t.crashed = p.crashed /\ t.faults = p.faults /\ t.blocks = p.blocks
  BY RecReady DEF Returned, Rec, Fresh
<1> HIDE DEF t
<1>3. t.stack = p.stack /\ t.at = p.at /\ t.fn = p.fn
  BY <1>1 DEF Extended, Same
<1>4. Works(p, t, {})
  BY <1>1, <1>2, <1>3, WorksLike
<1> QED
  BY <1>1, <1>3, <1>4 DEF t

\* No fault where nothing is wrong
LEMMA FaultWorks ==
  ASSUME NEW p, Ready(p), NEW t, t = [p EXCEPT !.faults = @]
  PROVE  Works(p, t, {}) /\ t.val = p.val /\ t.stack = p.stack
<1>1. /\ DOMAIN t = DOMAIN Fresh
      /\ t.stack = p.stack /\ t.scopes = p.scopes /\ t.fn = p.fn /\ t.at = p.at
      /\ t.val = p.val /\ t.inst = p.inst /\ t.entries = p.entries /\ t.blocks = p.blocks
      /\ t.open = p.open /\ t.cut = p.cut /\ t.within = p.within /\ t.nested = p.nested
      /\ t.crashed = p.crashed /\ t.faults = p.faults
  BY RecReady DEF Rec, Fresh
<1>2. Types(t)
  BY <1>1, RecReady DEF Types
<1>3. Works(p, t, {})
  BY <1>1, <1>2, WorksLike
<1> QED
  BY <1>1, <1>3

LEMMA ThrowWorks ==
  ASSUME NEW p, Ready(p)
  PROVE  Works(p, Throw(p), {}) /\ Throw(p).stack = p.stack /\ Throw(p).val = p.val
<1> DEFINE t == Throw(p)
<1>1. Types(t) /\ Extended(p, t)
  BY RecReady, ThrowIs
<1>2. t.crashed = p.crashed /\ t.faults = p.faults /\ t.blocks = p.blocks /\ t.val = p.val
  BY RecReady DEF Throw, Rec, Fresh
<1> HIDE DEF t
<1>3. t.stack = p.stack /\ t.at = p.at /\ t.fn = p.fn
  BY <1>1 DEF Extended, Same
<1>4. Works(p, t, {})
  BY <1>1, <1>2, <1>3, WorksLike
<1> QED
  BY <1>2, <1>3, <1>4 DEF t

LEMMA NestWorks ==
  ASSUME NEW p, Ready(p)
  PROVE  Works(p, Nest(p), {}) /\ Nest(p).stack = p.stack
<1> DEFINE t == Nest(p)
<1>1. /\ Types(t) /\ Same(p, t) /\ t.stack = p.stack /\ t.at = p.at /\ t.blocks = p.blocks
  BY RecReady, NestIs
<1>2. t.crashed = p.crashed /\ t.faults = p.faults
  BY RecReady DEF Nest, Rec, Fresh
<1> HIDE DEF t
<1>3. Works(p, t, {})
  BY <1>1, <1>2, WorksLike DEF Same
<1> QED
  BY <1>1, <1>3 DEF t

LEMMA AddBlockWorks ==
  ASSUME NEW p, Ready(p)
  PROVE  /\ Works(p, AddBlock(p), {}) /\ AddBlock(p).stack = p.stack
         /\ AddBlock(p).val = p.val
         /\ Exists(AddBlock(p), NewBlock(p)) /\ NewBlock(p)[1] = p.fn
<1> DEFINE t == AddBlock(p)
           f == p.fn
<1>1. /\ Types(t) /\ Same(p, t) /\ t.stack = p.stack /\ t.at = p.at /\ t.val = p.val
      /\ DOMAIN t.blocks = DOMAIN p.blocks \cup {f}
      /\ t.blocks[f] = Append(Blocks(p, f), <<>>)
      /\ \A g \in DOMAIN p.blocks : g # f => t.blocks[g] = p.blocks[g]
  BY RecReady, AddBlockIs
<1>2. t.crashed = p.crashed /\ t.faults = p.faults
  BY RecReady DEF AddBlock, SetBlocks, Rec, Fresh
<1>3. Exists(t, NewBlock(p)) /\ NewBlock(p)[1] = f
  BY RecReady, NewBlockIs
<1> HIDE DEF t
<1>4. f \in DOMAIN p.blocks /\ Blocks(p, f) = p.blocks[f] /\ p.blocks[f] \in Seq(Seq(Instructions))
  BY DEF Ready, Exists, Blocks, Types
<1>5. /\ DOMAIN t.blocks[f] = DOMAIN p.blocks[f] \cup {Len(p.blocks[f]) + 1}
      /\ \A b \in DOMAIN p.blocks[f] : t.blocks[f][b] = p.blocks[f][b]
      /\ t.blocks[f][Len(p.blocks[f]) + 1] = <<>>
  <2>1. <<>> \in Seq(Instructions)
    OBVIOUS
  <2> DEFINE x == p.blocks[f]
  <2>2. /\ Len(x) \in Nat /\ DOMAIN x = 1 .. Len(x)
        /\ DOMAIN Append(x, <<>>) = 1 .. Len(x) + 1
        /\ \A i \in 1 .. Len(x) : Append(x, <<>>)[i] = x[i]
        /\ Append(x, <<>>)[Len(x) + 1] = <<>>
    BY <1>4, <2>1, Appended
  <2>3. t.blocks[f] = Append(x, <<>>)
    BY <1>1, <1>4
  <2> HIDE DEF x
  <2>4. 1 .. Len(x) + 1 = (1 .. Len(x)) \cup {Len(x) + 1}
    BY <2>2
  <2>5. /\ DOMAIN t.blocks[f] = DOMAIN x \cup {Len(x) + 1}
        /\ \A b \in DOMAIN x : t.blocks[f][b] = x[b]
        /\ t.blocks[f][Len(x) + 1] = <<>>
    BY <2>2, <2>3, <2>4
  <2> QED
    BY <2>5 DEF x
<1>6. Called(t.blocks[f]) = Called(p.blocks[f])
  <2>1. DOMAIN <<>> = {}
    OBVIOUS
  <2>2. \A x : x \in Called(t.blocks[f]) <=> x \in Called(p.blocks[f])
    BY <1>5, <2>1, CalledIs
  <2> QED
    BY <2>2
<1>7. \A q : Exists(p, q) => Exists(t, q)
  BY <1>1, <1>5 DEF Exists
<1>8. Works(p, t, {})
  BY <1>1, <1>2, <1>6, <1>7 DEF Works, Ready, Same
<1> QED
  BY <1>1, <1>3, <1>7, <1>8 DEF t

LEMMA SetInsertPointWorks ==
  ASSUME NEW p, Ready(p), NEW q \in Places, Exists(p, q), q[1] = p.fn
  PROVE  /\ Works(p, SetInsertPoint(p, q), {}) /\ SetInsertPoint(p, q).stack = p.stack
         /\ SetInsertPoint(p, q).val = p.val
<1> DEFINE t == SetInsertPoint(p, q)
<1>1. /\ Types(t) /\ Same(p, t) /\ t.stack = p.stack /\ t.at = q /\ t.blocks = p.blocks
      /\ t.val = p.val
  BY RecReady, SetInsertPointIs
<1>2. t.crashed = p.crashed /\ t.faults = p.faults
  BY RecReady DEF SetInsertPoint, Rec, Fresh
<1> HIDE DEF t
<1>3. Works(p, t, {})
  BY <1>1, <1>2 DEF Works, Ready, Same, Exists
<1> QED
  BY <1>1, <1>3 DEF t

\* Operands that the instructions take
Operand(v) == v \in Values /\ v.type \in {"inst", "ptr"}

LEMMA OperandIs ==
  ASSUME NEW v, Operand(v)
  PROVE  v # NoValue /\ v.type # "bool" /\ v.type # "null"
BY DEF Operand, NoValue

Kinds == {"null", "inst", "ptr", "bool"}

LEMMA KindsAre == "null" \in Kinds /\ "inst" \in Kinds /\ "ptr" \in Kinds /\ "bool" \in Kinds
BY DEF Kinds

\* The type of the value it leaves
Yields(t, type) == t.val.type = type

LEMMA EmitReturnedWorks ==
  ASSUME NEW p, Ready(p), NEW type \in Kinds,
         NEW ins \in Instructions
  PROVE  /\ ins.op = "call" => Works(p, EmitReturned(p, type, ins), {ins.callee})
         /\ ins.op # "call" => Works(p, EmitReturned(p, type, ins), {})
         /\ Yields(EmitReturned(p, type, ins), type)
         /\ EmitReturned(p, type, ins).stack = p.stack
<1> DEFINE u == Emit(p, ins)
           v == Result(p, type)
<1>1. /\ Works(p, u, IF ins.op = "call" THEN {ins.callee} ELSE {}) /\ u.stack = p.stack
      /\ Ready(u)
  BY EmitWorks DEF Works
<1>2. v \in Values /\ v.type = type
  BY RecReady, ResultIs DEF Result, Kinds
<1> HIDE DEF u, v
<1>3. /\ Works(u, Returned(u, v), {}) /\ Returned(u, v).val = v
      /\ Returned(u, v).stack = u.stack
  BY <1>1, <1>2, ReturnedWorks
<1>4. EmitReturned(p, type, ins) = Returned(u, v)
  BY DEF EmitReturned, u, v
<1>5. Yields(Returned(u, v), type)
  BY <1>2, <1>3 DEF Yields
<1> QED
  BY <1>1, <1>3, <1>4, <1>5, WorksOn

LEMMA GenInstanceAssignWorks ==
  ASSUME NEW p, Ready(p), NEW dest \in Values, dest.type = "ptr",
         NEW src \in Values, src # NoValue, src.type # "bool"
  PROVE  /\ Works(p, GenInstanceAssign(p, dest, src), {})
         /\ GenInstanceAssign(p, dest, src).val = p.val
         /\ GenInstanceAssign(p, dest, src).stack = p.stack
<1> DEFINE u == [p EXCEPT !.faults = @]
           ins == Instruction("store", <<dest, src>>, <<>>)
<1>1. NoValue \notin {dest, src} /\ ~(dest.type # "ptr" \/ src.type = "bool")
  BY DEF NoValue
<1>2. GenInstanceAssign(p, dest, src) = Emit(u, ins)
  BY <1>1 DEF GenInstanceAssign, Fault
<1>3. Works(p, u, {}) /\ u.val = p.val /\ u.stack = p.stack /\ Ready(u)
  BY FaultWorks DEF Works
<1>4. ins \in Instructions /\ ins.op = "store"
  <2>1. <<dest, src>> \in Seq(Values) /\ <<>> \in Seq(Places)
    OBVIOUS
  <2> QED
    BY <2>1 DEF Instruction, Instructions, Names
<1> HIDE DEF u, ins
<1>5. Works(u, Emit(u, ins), {}) /\ Emit(u, ins).val = u.val /\ Emit(u, ins).stack = u.stack
  BY <1>3, <1>4, EmitWorks
<1> QED
  BY <1>2, <1>3, <1>5, WorksOn

LEMMA GenCallWorks ==
  ASSUME NEW p, Ready(p), NEW callee \in Names,
         NEW returns \in Kinds, NEW args \in Seq(Values),
         \A a \in ToSet(args) : Operand(a)
  PROVE  /\ Works(p, GenCall(p, callee, returns, args), {callee})
         /\ Yields(GenCall(p, callee, returns, args), returns)
         /\ GenCall(p, callee, returns, args).stack = p.stack
<1> DEFINE u == [p EXCEPT !.faults = @]
           ins == [Instruction("call", args, <<>>) EXCEPT !.callee = callee]
<1>1. NoValue \notin ToSet(args) /\ ~(\E a \in ToSet(args) : a.type = "bool")
  BY OperandIs
<1>2. GenCall(p, callee, returns, args) = EmitReturned(u, returns, ins)
  BY <1>1 DEF GenCall, Fault
<1>3. Works(p, u, {}) /\ u.stack = p.stack /\ Ready(u)
  BY FaultWorks DEF Works
<1>4. ins \in Instructions /\ ins.op = "call" /\ ins.callee = callee
  BY CallIs DEF Instruction
<1> HIDE DEF u, ins
<1>5. /\ Works(u, EmitReturned(u, returns, ins), {callee})
      /\ Yields(EmitReturned(u, returns, ins), returns)
      /\ EmitReturned(u, returns, ins).stack = u.stack
  BY <1>3, <1>4, KindsAre, EmitReturnedWorks
<1>6. Works(p, EmitReturned(u, returns, ins), {callee})
  BY <1>3, <1>5 DEF Works
<1> QED
  BY <1>2, <1>3, <1>5, <1>6

LEMMA GenTruthWorks ==
  ASSUME NEW p, Ready(p), Operand(p.val)
  PROVE  /\ Works(p, GenTruth(p), Truth) /\ Yields(GenTruth(p), "bool")
         /\ GenTruth(p).stack = p.stack
<1> DEFINE args == <<p.val>>
           f == "___cult__runtime_truth"
<1>1. args \in Seq(Values) /\ ToSet(args) = {p.val}
  BY TupleIs DEF Operand
<1>2. f \in Names
  BY DEF Names
<1>3. GenTruth(p) = GenCall(p, f, "bool", args) /\ Truth = {f}
  BY DEF GenTruth, Truth
<1> HIDE DEF args, f
<1>4. \A a \in ToSet(args) : Operand(a)
  BY <1>1
<1> QED
  BY SMTT(30), <1>1, <1>2, <1>3, <1>4, KindsAre, GenCallWorks

LEMMA GenLoadWorks ==
  ASSUME NEW p, Ready(p), p.val.type = "ptr"
  PROVE  /\ Works(p, GenLoad(p), {}) /\ Yields(GenLoad(p), "inst")
         /\ GenLoad(p).stack = p.stack
<1> DEFINE u == [p EXCEPT !.faults = @]
           ins == Instruction("load", <<p.val>>, <<>>)
<1>1. p.val # NoValue /\ ~(p.val.type # "ptr")
  BY DEF NoValue
<1>2. GenLoad(p) = EmitReturned(u, "inst", ins)
  BY <1>1 DEF GenLoad, Fault
<1>3. Works(p, u, {}) /\ u.stack = p.stack /\ Ready(u)
  BY FaultWorks DEF Works
<1>4. ins \in Instructions /\ ins.op = "load"
  <2>1. <<p.val>> \in Seq(Values) /\ <<>> \in Seq(Places)
    BY RecReady
  <2> QED
    BY <2>1 DEF Instruction, Instructions, Names
<1> HIDE DEF u, ins
<1>5. /\ Works(u, EmitReturned(u, "inst", ins), {})
      /\ Yields(EmitReturned(u, "inst", ins), "inst")
      /\ EmitReturned(u, "inst", ins).stack = u.stack
  BY <1>3, <1>4, KindsAre, EmitReturnedWorks
<1> QED
  BY <1>2, <1>3, <1>5, WorksOn

LEMMA GenPhiWorks ==
  ASSUME NEW p, Ready(p), NEW values \in Seq(Values), \A v \in ToSet(values) : v.type = "inst",
         NEW places \in Seq(Places)
  PROVE  /\ Works(p, GenPhi(p, values, places), {})
         /\ Yields(GenPhi(p, values, places), "inst")
         /\ GenPhi(p, values, places).stack = p.stack
<1> DEFINE u == [p EXCEPT !.faults = @]
           ins == Instruction("phi", values, places)
<1>1. NoValue \notin ToSet(values) /\ ~(\E v \in ToSet(values) : v.type # "inst")
  BY DEF NoValue
<1>2. GenPhi(p, values, places) = EmitReturned(u, "inst", ins)
  BY <1>1 DEF GenPhi, Fault
<1>3. Works(p, u, {}) /\ u.stack = p.stack /\ Ready(u)
  BY FaultWorks DEF Works
<1>4. ins \in Instructions /\ ins.op = "phi"
  BY InstructionIs
<1> HIDE DEF u, ins
<1>5. /\ Works(u, EmitReturned(u, "inst", ins), {})
      /\ Yields(EmitReturned(u, "inst", ins), "inst")
      /\ EmitReturned(u, "inst", ins).stack = u.stack
  BY <1>3, <1>4, KindsAre, EmitReturnedWorks
<1> QED
  BY <1>2, <1>3, <1>5, WorksOn

LEMMA GenBrWorks ==
  ASSUME NEW p, Ready(p), NEW to \in Places, NEW else \in Places
  PROVE  /\ Works(p, GenBr(p, to), {}) /\ GenBr(p, to).stack = p.stack
         /\ GenBr(p, to).val = p.val
         /\ Works(p, GenCondBr(p, to, else), {}) /\ GenCondBr(p, to, else).stack = p.stack
<1>1. /\ <<>> \in Seq(Values) /\ <<p.val>> \in Seq(Values)
      /\ <<to>> \in Seq(Places) /\ <<to, else>> \in Seq(Places)
  BY RecReady
<1>2. \A args \in Seq(Values), places \in Seq(Places) :
        LET ins == Instruction("br", args, places)
        IN /\ Works(p, Emit(p, ins), {}) /\ Emit(p, ins).stack = p.stack
           /\ Emit(p, ins).val = p.val
  <2> TAKE args \in Seq(Values), places \in Seq(Places)
  <2> DEFINE ins == Instruction("br", args, places)
  <2>1. ins \in Instructions /\ ins.op = "br"
    BY BrIs
  <2> HIDE DEF ins
  <2>2. /\ Works(p, Emit(p, ins), {}) /\ Emit(p, ins).stack = p.stack
        /\ Emit(p, ins).val = p.val
    BY <2>1, EmitWorks
  <2> QED
    BY <2>2 DEF ins
<1> QED
  BY <1>1, <1>2 DEF GenBr, GenCondBr

-----------------------------------------------------------------------------
\* What comes down the stack

\* The types that the frames from lo on leave to the one below
Arrives(st, lo, x) ==
  \/ /\ \A k \in lo .. Len(st.stack) : Passes(st.stack[k])
     /\ x = st.val.type
  \/ \E j \in lo .. Len(st.stack) :
       /\ \A k \in lo .. j - 1 : Passes(st.stack[k])
       /\ ~Passes(st.stack[j]) /\ x = Gives(st.stack[j])

LEMMA ArrivesIs ==
  ASSUME NEW st, Len(st.stack) \in Nat, NEW lo \in Nat \ {0}, NEW x
  PROVE  /\ lo > Len(st.stack) => (Arrives(st, lo, x) <=> x = st.val.type)
         /\ lo <= Len(st.stack) /\ ~Passes(st.stack[lo]) =>
              (Arrives(st, lo, x) <=> x = Gives(st.stack[lo]))
         /\ lo <= Len(st.stack) /\ Passes(st.stack[lo]) =>
              (Arrives(st, lo, x) <=> Arrives(st, lo + 1, x))
<1> DEFINE m == Len(st.stack)
           through(i, j) == \A k \in i .. j : Passes(st.stack[k])
           leaves(j) == ~Passes(st.stack[j]) /\ x = Gives(st.stack[j])
<1>1. \A i : Arrives(st, i, x) <=>
               \/ through(i, m) /\ x = st.val.type
               \/ \E j \in i .. m : through(i, j - 1) /\ leaves(j)
  BY DEF Arrives
<1>2. \A i \in Nat, j \in Nat : i > j => through(i, j)
  OBVIOUS
<1>3. \A j \in Nat : lo <= j /\ ~Passes(st.stack[lo]) => ~through(lo, j)
  OBVIOUS
<1>4. ASSUME Passes(st.stack[lo])
      PROVE  \A j \in Nat : lo <= j => (through(lo, j) <=> through(lo + 1, j))
  <2>1. \A j \in Nat : lo <= j => lo .. j = {lo} \cup (lo + 1 .. j)
    OBVIOUS
  <2> QED
    BY <1>4, <2>1
<1>5. ~Passes(st.stack[lo]) => (leaves(lo) <=> x = Gives(st.stack[lo]))
  OBVIOUS
<1>6. Passes(st.stack[lo]) => ~leaves(lo)
  OBVIOUS
<1> HIDE DEF through, leaves
<1>7. ASSUME lo > m
      PROVE  Arrives(st, lo, x) <=> x = st.val.type
  BY <1>1, <1>2, <1>7
<1>8. ASSUME lo <= m, ~Passes(st.stack[lo])
      PROVE  Arrives(st, lo, x) <=> x = Gives(st.stack[lo])
  <2>1. ~through(lo, m)
    BY <1>3, <1>8
  <2>2. \A j \in lo .. m : through(lo, j - 1) => j = lo
    <3> TAKE j \in lo .. m
    <3>1. j # lo => lo <= j - 1 /\ j - 1 \in Nat
      OBVIOUS
    <3> QED
      BY <1>3, <1>8, <3>1
  <2>3. through(lo, lo - 1) /\ lo \in lo .. m
    BY <1>2, <1>8
  <2> QED
    BY <1>1, <1>5, <1>8, <2>1, <2>2, <2>3
<1>9. ASSUME lo <= m, Passes(st.stack[lo])
      PROVE  Arrives(st, lo, x) <=> Arrives(st, lo + 1, x)
  <2>1. through(lo, m) <=> through(lo + 1, m)
    BY <1>4, <1>9
  <2>2. \A j \in lo .. m : j = lo \/ j \in lo + 1 .. m
    OBVIOUS
  <2>3. \A j \in lo + 1 .. m :
          /\ j \in lo .. m
          /\ through(lo, j - 1) <=> through(lo + 1, j - 1)
    <3> TAKE j \in lo + 1 .. m
    <3>1. j - 1 \in Nat /\ lo <= j - 1 /\ j \in lo .. m
      OBVIOUS
    <3> QED
      BY <1>4, <1>9, <3>1
  <2> QED
    BY <1>1, <1>6, <1>9, <2>1, <2>2, <2>3
<1> QED
  BY <1>7, <1>8, <1>9

LEMMA FedIs ==
  ASSUME NEW st
  PROVE  Fed(st) <=> \A i \in 2 .. Len(st.stack) : \A x :
                       Arrives(st, i + 1, x) => x \in Wants(st.stack[i])
<1>1. ASSUME Fed(st), NEW i \in 2 .. Len(st.stack), NEW x, Arrives(st, i + 1, x)
      PROVE  x \in Wants(st.stack[i])
  BY <1>1 DEF Fed, Arrives
<1>2. ASSUME \A i \in 2 .. Len(st.stack) : \A x : Arrives(st, i + 1, x) => x \in Wants(st.stack[i])
      PROVE  Fed(st)
  BY <1>2 DEF Fed, Arrives
<1> QED
  BY <1>1, <1>2

Sorts == {"inst", "ptr", "null", "bool", "stale"}

LEMMA GivesIs ==
  ASSUME program \in Programs, NEW frame \in Frames
  PROVE  Gives(frame) \in Sorts
<1>1. \A n \in Nodes \cup { program[f] : f \in DOMAIN program } : TypeOf(n) \in Sorts
  <2> DEFINE N == Nodes \cup UNION { { p[f] : f \in DOMAIN p } : p \in Programs }
  <2>1. \A m \in N : TypeOf(m) \in {"inst", "ptr", "null", "stale"}
    BY AnalysisAssumption DEF Analysis
  <2>2. { program[f] : f \in DOMAIN program } \in { { p[f] : f \in DOMAIN p } : p \in Programs }
    OBVIOUS
  <2>3. \A n \in Nodes \cup { program[f] : f \in DOMAIN program } : n \in N
    BY <2>2
  <2> QED
    BY <2>1, <2>3 DEF Sorts
<1>2. CASE frame.step = "compile"
  <2>1. frame.n \in Nodes \cup { program[f] : f \in DOMAIN program }
    BY <1>2, FrameIs DEF CompileFrames
  <2> QED
    BY <1>1, <1>2, <2>1 DEF Gives
<1>3. CASE frame.step = "slot"
  <2>1. frame.n \in NodesOf({"set"})
    BY <1>3, FrameIs DEF SlotFrames
  <2>2. frame.n.value \in Nodes
    BY <2>1, NodeIs
  <2> QED
    BY <1>1, <1>3, <2>2 DEF Gives
<1>4. CASE frame.step \notin {"compile", "slot"}
  BY <1>4 DEF Gives, Sorts
<1> QED
  BY <1>2, <1>3, <1>4

LEMMA WantsAll ==
  ASSUME NEW frame, "stale" \in Wants(frame)
  PROVE  Wants(frame) = Sorts
BY DEF Wants, Sorts

\* A step that starts with all as it should be, above the function's own frames
WorkedOn(st) ==
  Fed(st) /\ CallsAddUp(st) /\ \A i \in 3 .. Len(st.stack) : Provided(st, i)
AtWork(s) ==
  /\ program \in Programs /\ Types(s) /\ IInv(s)
  /\ s.open # {} /\ Len(s.stack) >= 3 /\ Live(s) /\ Scoped(s) /\ WorkedOn(s)

\* What it may leave to the frames below
Matches(s, x) ==
  IF Passes(Top(s)) THEN x = s.val.type
  ELSE Gives(Top(s)) # "stale" => x = Gives(Top(s))

LEMMA AtWorkIs ==
  ASSUME NEW s, AtWork(s)
  PROVE  /\ Ready(Popped(s)) /\ Types(Popped(s)) /\ Rec(s) /\ Rec(Popped(s))
         /\ Popped(s).val = s.val /\ Popped(s).inst = s.inst /\ Popped(s).fn = s.fn
         /\ Popped(s).scopes = s.scopes /\ Popped(s).blocks = s.blocks
         /\ Popped(s).crashed = s.crashed /\ Popped(s).faults = s.faults
         /\ Top(s) \in Frames /\ Len(s.stack) \in Nat /\ DOMAIN s.stack = 1 .. Len(s.stack)
         /\ Len(Popped(s).stack) = Len(s.stack) - 1
         /\ \A i \in 1 .. Len(s.stack) - 1 : Popped(s).stack[i] = s.stack[i]
         /\ \A i \in 1 .. Len(s.stack) : s.stack[i] \in Frames
         /\ s.stack[1].step = "define" /\ s.stack[2].step = "return"
         /\ Provided(s, Len(s.stack)) /\ s.val \in Values
         /\ s.val.type \in Wants(Top(s))
<1>1. /\ Types(s) /\ IInv(s) /\ s.open # {} /\ Len(s.stack) >= 3 /\ Live(s) /\ WorkedOn(s)
      /\ program \in Programs
  BY DEF AtWork
<1>2. s.stack[1].step = "define" /\ s.stack[2].step = "return" /\ s.stack # <<>>
  BY <1>1, BottomIs
<1>3. Len(s.stack) \in Nat /\ DOMAIN s.stack = 1 .. Len(s.stack)
  BY <1>1, StackBounds
<1>4. /\ Types(Popped(s)) /\ Same(s, Popped(s)) /\ Popped(s).at = s.at
      /\ Popped(s).val = s.val /\ Popped(s).inst = s.inst /\ Popped(s).blocks = s.blocks
      /\ Len(Popped(s).stack) = Len(s.stack) - 1
      /\ \A i \in 1 .. Len(s.stack) - 1 : Popped(s).stack[i] = s.stack[i]
      /\ Top(s) \in Frames
  BY <1>1, <1>2, PoppedIs
<1>5. Rec(s) /\ Rec(Popped(s)) /\ s.val \in Values
  BY <1>1, <1>4 DEF Types, Rec
<1>6. /\ Popped(s).scopes = s.scopes
      /\ Popped(s).crashed = s.crashed /\ Popped(s).faults = s.faults
  BY <1>5 DEF Popped, Rec, Fresh
<1>7. Exists(s, s.at) /\ s.at[1] = s.fn
  BY <1>1, LiveIs DEF Exists
<1>8. Ready(Popped(s))
  BY <1>4, <1>7 DEF Ready, Same, Exists
<1>9. \A i \in 1 .. Len(s.stack) : s.stack[i] \in Frames
  BY <1>1, <1>3, ElementOfSeq DEF Types
<1>10. Provided(s, Len(s.stack))
  BY <1>1, <1>3 DEF WorkedOn
<1>11. s.val.type \in Wants(Top(s))
  <2>1. Arrives(s, Len(s.stack) + 1, s.val.type)
    BY <1>3, ArrivesIs
  <2>2. Len(s.stack) \in 2 .. Len(s.stack)
    BY <1>1, <1>3
  <2>3. Fed(s)
    BY <1>1 DEF WorkedOn
  <2> QED
    BY <2>1, <2>2, <2>3, FedIs DEF Top
<1> QED
  BY <1>2, <1>3, <1>4, <1>5, <1>6, <1>8, <1>9, <1>10, <1>11 DEF Same

\* Frames but callees mean the same in a stack whose lower part is the same
LEMMA ProvidedStays ==
  ASSUME NEW s, NEW t, NEW i, t.stack[i] = s.stack[i], Pushed(s) \subseteq Pushed(t),
         s.stack[i].step # "callee"
  PROVE  /\ Provided(s, i) => Provided(t, i)
         /\ ToCome(t, i) = ToCome(s, i)
<1>1. \A n : Fits(s, n) => Fits(t, n)
  BY DEF Fits
<1>2. Provided(s, i) => Provided(t, i)
  BY <1>1 DEF Provided
<1>3. ToCome(t, i) = ToCome(s, i)
  BY DEF ToCome
<1> QED
  BY <1>2, <1>3

LEMMA NoCallee ==
  ASSUME NEW s, AtWork(s), s.stack[Len(s.stack) - 1].step # "callee",
         NEW i \in 1 .. Len(s.stack) - 1
  PROVE  s.stack[i].step # "callee"
<1>1. /\ Len(s.stack) \in Nat /\ Len(s.stack) >= 3
      /\ s.stack[1].step = "define" /\ s.stack[2].step = "return"
  BY AtWorkIs DEF AtWork
<1>2. \A j \in 3 .. Len(s.stack) : Provided(s, j)
  BY DEF AtWork, WorkedOn
<1>3. ASSUME i >= 3, s.stack[i].step = "callee" PROVE i = Len(s.stack) - 1
  <2>1. Provided(s, i)
    BY <1>1, <1>2, <1>3
  <2>2. i = Len(s.stack) \/ Len(s.stack) = i + 1
    BY <1>3, <2>1 DEF Provided
  <2> QED
    BY <1>1, <2>2
<1> QED
  BY <1>1, <1>3

LEMMA CarriesFed ==
  ASSUME NEW s, AtWork(s), NEW t, Types(t), Under(s, t),
         \A x : Arrives(t, Len(s.stack), x) => Matches(s, x),
         \A i \in Above(s, t) : \A x : Arrives(t, i + 1, x) => x \in Wants(t.stack[i])
  PROVE  Fed(t)
<1> DEFINE k == Len(s.stack)
           m == Len(t.stack)
<1>1. /\ k \in Nat /\ m \in Nat /\ k >= 3 /\ m >= k - 1
      /\ \A i \in 1 .. k - 1 : t.stack[i] = s.stack[i]
  BY AtWorkIs, StackBounds DEF Under
<1>2. \A x : Arrives(t, k, x) => x \in Sorts
  <2> TAKE x
  <2>1. t.val.type \in Sorts
    BY DEF Types, Values, Sorts
  <2>2. \A j \in 1 .. m : t.stack[j] \in Frames
    BY <1>1, ElementOfSeq DEF Types
  <2>3. \A j \in k .. m : Gives(t.stack[j]) \in Sorts
    BY <1>1, <2>2, GivesIs DEF AtWork
  <2> QED
    BY <2>1, <2>3 DEF Arrives
<1>3. ASSUME NEW i \in 2 .. k - 1, NEW x, Arrives(t, i + 1, x)
      PROVE  x \in Wants(s.stack[i])
  <2> DEFINE through(a, b) == \A j \in a .. b : Passes(s.stack[j])
  <2>1. \A y : Arrives(s, i + 1, y) => y \in Wants(s.stack[i])
    <3>1. i \in 2 .. Len(s.stack) /\ Fed(s)
      BY <1>1 DEF AtWork, WorkedOn
    <3> QED
      BY <3>1, FedIs
  <2>2. CASE \E j \in i + 1 .. k - 1 : /\ through(i + 1, j - 1)
                                       /\ ~Passes(s.stack[j]) /\ x = Gives(s.stack[j])
    <3>1. Arrives(s, i + 1, x)
      BY <1>1, <2>2 DEF Arrives
    <3> QED
      BY <2>1, <3>1
  <2>3. CASE through(i + 1, k - 1) /\ Arrives(t, k, x)
    <3>1. Matches(s, x)
      BY <2>3
    <3>2. CASE Passes(Top(s))
      <4>1. x = s.val.type
        BY <3>1, <3>2 DEF Matches
      <4>2. \A j \in i + 1 .. k : j \in i + 1 .. k - 1 \/ j = k
        BY <1>1
      <4>3. \A j \in i + 1 .. k : Passes(s.stack[j])
        BY <2>3, <3>2, <4>2 DEF Top
      <4>4. Arrives(s, i + 1, x)
        BY <4>1, <4>3 DEF Arrives
      <4> QED
        BY <2>1, <4>4
    <3>3. CASE ~Passes(Top(s))
      <4>1. Arrives(s, i + 1, Gives(Top(s)))
        BY SMTT(30), <1>1, <2>3, <3>3 DEF Arrives, Top
      <4>2. Gives(Top(s)) \in Wants(s.stack[i])
        BY <2>1, <4>1
      <4>3. CASE Gives(Top(s)) # "stale"
        BY <3>1, <3>3, <4>2, <4>3 DEF Matches
      <4>4. CASE Gives(Top(s)) = "stale"
        BY <1>2, <2>3, <4>2, <4>4, WantsAll
      <4> QED
        BY <4>3, <4>4
    <3> QED
      BY <3>2, <3>3
  <2>4. \/ \E j \in i + 1 .. k - 1 : /\ through(i + 1, j - 1)
                                     /\ ~Passes(s.stack[j]) /\ x = Gives(s.stack[j])
        \/ through(i + 1, k - 1) /\ Arrives(t, k, x)
    <3>1. \A j \in i + 1 .. k - 1 : t.stack[j] = s.stack[j]
      BY <1>1
    <3>2. CASE \A j \in i + 1 .. m : Passes(t.stack[j]) /\ x = t.val.type
      <4>1. i + 1 > m => x = t.val.type
        BY <1>3 DEF Arrives
      <4> QED
        BY <1>1, <1>3, <3>1, <3>2 DEF Arrives
    <3>3. CASE \E j \in i + 1 .. m :
                 /\ \A l \in i + 1 .. j - 1 : Passes(t.stack[l])
                 /\ ~Passes(t.stack[j]) /\ x = Gives(t.stack[j])
      <4>1. PICK j \in i + 1 .. m : /\ \A l \in i + 1 .. j - 1 : Passes(t.stack[l])
                                    /\ ~Passes(t.stack[j]) /\ x = Gives(t.stack[j])
        BY <3>3
      <4>2. CASE j <= k - 1
        <5>1. j \in i + 1 .. k - 1 /\ \A l \in i + 1 .. j - 1 : l \in i + 1 .. k - 1
          BY <1>1, <4>2
        <5> QED
          BY <3>1, <4>1, <5>1
      <4>3. CASE j >= k
        <5>1. j \in k .. m /\ (\A l \in i + 1 .. k - 1 : l \in i + 1 .. j - 1)
              /\ (\A l \in k .. j - 1 : l \in i + 1 .. j - 1)
          BY <1>1, <4>3
        <5>2. Arrives(t, k, x)
          BY <4>1, <5>1 DEF Arrives
        <5>3. through(i + 1, k - 1)
          BY <3>1, <4>1, <5>1
        <5> QED
          BY <5>2, <5>3
      <4> QED
        BY <1>1, <4>2, <4>3
    <3>4. CASE (\A j \in i + 1 .. m : Passes(t.stack[j])) /\ x = t.val.type
      <4>1. \A j \in i + 1 .. k - 1 : j \in i + 1 .. m
        BY <1>1
      <4>2. \A j \in k .. m : j \in i + 1 .. m
        BY <1>1
      <4>3. through(i + 1, k - 1)
        BY <3>1, <3>4, <4>1
      <4>4. Arrives(t, k, x)
        BY <3>4, <4>2 DEF Arrives
      <4> QED
        BY <4>3, <4>4
    <3> QED
      BY <1>3, <3>3, <3>4 DEF Arrives
  <2> QED
    BY <2>2, <2>3, <2>4
<1>4. \A i \in 2 .. m : \A x : Arrives(t, i + 1, x) => x \in Wants(t.stack[i])
  <2> TAKE i \in 2 .. m
  <2> TAKE x
  <2>1. i \in 2 .. k - 1 \/ i \in Above(s, t)
    BY <1>1 DEF Above
  <2>2. i \in 2 .. k - 1 => t.stack[i] = s.stack[i]
    BY SMTT(30), <1>1
  <2> QED
    BY <1>3, <2>1, <2>2
<1> QED
  BY <1>4, FedIs

LEMMA CarriesCalls ==
  ASSUME NEW s, AtWork(s), NEW t, Types(t), Under(s, t), NEW names,
         Works(Popped(s), t, names), Pushed(s) \subseteq Pushed(t),
         s.stack[Len(s.stack) - 1].step # "callee",
         names \cup (UNION { ToCome(t, i) : i \in Above(s, t) }) \cup Truth
           = ToCome(s, Len(s.stack)) \cup Truth
  PROVE  CallsAddUp(t)
<1> DEFINE k == Len(s.stack)
           m == Len(t.stack)
           before == UNION { ToCome(s, i) : i \in 1 .. k - 1 }
           after == UNION { ToCome(t, i) : i \in Above(s, t) }
           called == Called(s.blocks[s.fn])
<1>1. /\ k \in Nat /\ m \in Nat /\ k >= 3 /\ m >= k - 1
      /\ DOMAIN s.stack = 1 .. k /\ DOMAIN t.stack = 1 .. m
      /\ \A i \in 1 .. k - 1 : t.stack[i] = s.stack[i]
  BY AtWorkIs, StackBounds DEF Under
<1>2. \A i \in 1 .. k - 1 : ToCome(t, i) = ToCome(s, i)
  <2> TAKE i \in 1 .. k - 1
  <2>1. s.stack[i].step # "callee" /\ t.stack[i] = s.stack[i]
    BY <1>1, NoCallee
  <2> QED
    BY <2>1, ProvidedStays
<1>3. \A x : x \in UNION { ToCome(s, i) : i \in DOMAIN s.stack }
               <=> x \in before \/ x \in ToCome(s, k)
  <2>1. \A i \in 1 .. k : i \in 1 .. k - 1 \/ i = k
    BY <1>1
  <2>2. k \in 1 .. k /\ \A i \in 1 .. k - 1 : i \in 1 .. k
    BY <1>1
  <2> QED
    BY <1>1, <2>1, <2>2
<1>4. \A x : x \in UNION { ToCome(t, i) : i \in DOMAIN t.stack }
               <=> x \in before \/ x \in after
  <2>1. \A i \in 1 .. m : i \in 1 .. k - 1 \/ i \in Above(s, t)
    BY <1>1 DEF Above
  <2>2. (\A i \in 1 .. k - 1 : i \in 1 .. m) /\ \A i \in Above(s, t) : i \in 1 .. m
    BY <1>1 DEF Above
  <2> QED
    BY <1>1, <1>2, <2>1, <2>2
<1>5. t.fn = s.fn /\ Called(t.blocks[t.fn]) = called \cup names
  BY AtWorkIs DEF Works
<1>6. called \cup (UNION { ToCome(s, i) : i \in DOMAIN s.stack }) \cup Truth
        = Callees(program[s.fn].body) \cup Truth
  BY DEF AtWork, WorkedOn, CallsAddUp
<1>7. \A x : x \in names \/ x \in after \/ x \in Truth
               <=> x \in ToCome(s, k) \/ x \in Truth
  <2>1. \A x : x \in names \cup after \cup Truth <=> x \in ToCome(s, k) \cup Truth
    OBVIOUS
  <2> QED
    BY <2>1
<1> DEFINE all == UNION { ToCome(t, i) : i \in DOMAIN t.stack }
           old == UNION { ToCome(s, i) : i \in DOMAIN s.stack }
<1> HIDE DEF before, after, called, all, old
<1>8. called \cup names \cup all \cup Truth = called \cup old \cup Truth
  BY <1>3, <1>4, <1>7 DEF all, old
<1>9. Called(t.blocks[t.fn]) \cup all \cup Truth = Callees(program[t.fn].body) \cup Truth
  BY <1>5, <1>6, <1>8 DEF old
<1> QED
  BY <1>9 DEF CallsAddUp, all

LEMMA Carries ==
  ASSUME NEW s, AtWork(s), NEW t, Types(t), Under(s, t), NEW names,
         Works(Popped(s), t, names), Pushed(s) \subseteq Pushed(t),
         s.stack[Len(s.stack) - 1].step # "callee",
         \A x : Arrives(t, Len(s.stack), x) => Matches(s, x),
         \A i \in Above(s, t) :
           Provided(t, i) /\ \A x : Arrives(t, i + 1, x) => x \in Wants(t.stack[i]),
         names \cup (UNION { ToCome(t, i) : i \in Above(s, t) }) \cup Truth
           = ToCome(s, Len(s.stack)) \cup Truth
  PROVE  WorkedOn(t)
<1>1. Fed(t)
  BY CarriesFed
<1>2. CallsAddUp(t)
  BY CarriesCalls
<1>3. \A i \in 3 .. Len(t.stack) : Provided(t, i)
  <2> TAKE i \in 3 .. Len(t.stack)
  <2>1. /\ Len(s.stack) \in Nat /\ Len(t.stack) \in Nat
        /\ \A j \in 1 .. Len(s.stack) - 1 : t.stack[j] = s.stack[j]
    BY AtWorkIs, StackBounds DEF Under
  <2>2. i \in 1 .. Len(s.stack) - 1 \/ i \in Above(s, t)
    BY <2>1 DEF Above
  <2>3. i \in 1 .. Len(s.stack) - 1 => Provided(s, i)
    BY <2>1 DEF AtWork, WorkedOn
  <2> QED
    BY <2>1, <2>2, <2>3, NoCallee, ProvidedStays
<1> QED
  BY <1>1, <1>2, <1>3 DEF WorkedOn

\* What a step comes to: neither a crash nor a fault, and all as it should be
Continues(s, t) == WorkedOn(t) /\ t.crashed = s.crashed /\ t.faults = s.faults

\* Handlers that call nothing, or one frame, or leave one and call compile
LEMMA CarriesNothing ==
  ASSUME NEW s, AtWork(s), NEW t, t.stack = Popped(s).stack, NEW names,
         Works(Popped(s), t, names), Pushed(s) \subseteq Pushed(t),
         s.stack[Len(s.stack) - 1].step # "callee",
         Matches(s, t.val.type),
         names \cup Truth = ToCome(s, Len(s.stack)) \cup Truth
  PROVE  Continues(s, t)
<1> DEFINE k == Len(s.stack)
<1>1. /\ k \in Nat /\ k >= 3 /\ Len(t.stack) = k - 1
      /\ \A i \in 1 .. k - 1 : t.stack[i] = s.stack[i]
      /\ Popped(s).crashed = s.crashed /\ Popped(s).faults = s.faults
  BY AtWorkIs DEF AtWork
<1>2. Types(t) /\ Under(s, t) /\ Above(s, t) = {}
  BY <1>1 DEF Works, Ready, Under, Above
<1>3. \A x : Arrives(t, k, x) => Matches(s, x)
  BY <1>1, ArrivesIs
<1>4. names \cup (UNION { ToCome(t, i) : i \in Above(s, t) }) \cup Truth
        = ToCome(s, k) \cup Truth
  <2>1. UNION { ToCome(t, i) : i \in Above(s, t) } = {}
    BY <1>2
  <2> QED
    BY <2>1
<1>5. \A i \in Above(s, t) :
        Provided(t, i) /\ \A x : Arrives(t, i + 1, x) => x \in Wants(t.stack[i])
  BY <1>2
<1>6. WorkedOn(t)
  BY <1>2, <1>3, <1>4, <1>5, Carries
<1> QED
  BY <1>1, <1>6 DEF Continues, Works

LEMMA CarriesOne ==
  ASSUME NEW s, AtWork(s), NEW t, Under(s, t), Len(t.stack) = Len(s.stack), NEW names,
         Works(Popped(s), t, names), Pushed(s) \subseteq Pushed(t),
         s.stack[Len(s.stack) - 1].step # "callee",
         NEW g, t.stack[Len(s.stack)] = g, ~Passes(g), Provided(t, Len(s.stack)),
         t.val.type \in Wants(g), Matches(s, Gives(g)),
         names \cup ToCome(t, Len(s.stack)) \cup Truth = ToCome(s, Len(s.stack)) \cup Truth
  PROVE  Continues(s, t)
<1> DEFINE k == Len(s.stack)
<1>1. /\ k \in Nat /\ k >= 3 /\ Popped(s).crashed = s.crashed /\ Popped(s).faults = s.faults
  BY AtWorkIs DEF AtWork
<1>2. Types(t) /\ Above(s, t) = {k}
  BY <1>1 DEF Works, Ready, Above
<1>3. \A x : Arrives(t, k, x) => Matches(s, x)
  BY <1>1, ArrivesIs
<1>4. names \cup (UNION { ToCome(t, i) : i \in Above(s, t) }) \cup Truth
        = ToCome(s, k) \cup Truth
  <2>1. UNION { ToCome(t, i) : i \in {k} } = ToCome(t, k)
    OBVIOUS
  <2> QED
    BY <1>2, <2>1
<1>5. \A i \in Above(s, t) :
        Provided(t, i) /\ \A x : Arrives(t, i + 1, x) => x \in Wants(t.stack[i])
  <2>1. \A x : Arrives(t, k + 1, x) => x = t.val.type
    BY <1>1, ArrivesIs
  <2> QED
    BY <1>2, <2>1
<1>6. WorkedOn(t)
  BY <1>2, <1>3, <1>4, <1>5, Carries
<1> QED
  BY <1>1, <1>6 DEF Continues, Works

LEMMA CarriesTwo ==
  ASSUME NEW s, AtWork(s), NEW t, Under(s, t), Len(t.stack) = Len(s.stack) + 1, NEW names,
         Works(Popped(s), t, names), Pushed(s) \subseteq Pushed(t),
         s.stack[Len(s.stack) - 1].step # "callee",
         NEW g, t.stack[Len(s.stack)] = g, Provided(t, Len(s.stack)),
         NEW h, t.stack[Len(s.stack) + 1] = h, Provided(t, Len(s.stack) + 1),
         ~Passes(h), Gives(h) \in Wants(g), t.val.type \in Wants(h),
         Matches(s, IF Passes(g) THEN Gives(h) ELSE Gives(g)),
         names \cup ToCome(t, Len(s.stack)) \cup ToCome(t, Len(s.stack) + 1) \cup Truth
           = ToCome(s, Len(s.stack)) \cup Truth
  PROVE  Continues(s, t)
<1> DEFINE k == Len(s.stack)
<1>1. /\ k \in Nat /\ k >= 3 /\ Popped(s).crashed = s.crashed /\ Popped(s).faults = s.faults
  BY AtWorkIs DEF AtWork
<1>2. Types(t) /\ Above(s, t) = {k, k + 1}
  BY <1>1 DEF Works, Ready, Above
<1>3. \A x : Arrives(t, k + 1, x) <=> x = Gives(h)
  <2> DEFINE lo == k + 1
  <2>1. lo \in Nat \ {0} /\ lo <= Len(t.stack) /\ Len(t.stack) \in Nat /\ t.stack[lo] = h
    BY <1>1
  <2> HIDE DEF lo
  <2>2. \A x : Arrives(t, lo, x) <=> x = Gives(h)
    BY SMTT(30), <2>1, ArrivesIs
  <2> QED
    BY <2>2 DEF lo
<1>4. \A x : Arrives(t, k, x) => Matches(s, x)
  <2>1. k \in Nat \ {0} /\ k <= Len(t.stack) /\ Len(t.stack) \in Nat
    BY <1>1
  <2>2. CASE Passes(g)
    <3>1. \A x : Arrives(t, k, x) <=> Arrives(t, k + 1, x)
      BY <2>1, <2>2, ArrivesIs
    <3> QED
      BY <1>3, <2>2, <3>1
  <2>3. CASE ~Passes(g)
    <3>1. \A x : Arrives(t, k, x) <=> x = Gives(g)
      BY <2>1, <2>3, ArrivesIs
    <3> QED
      BY <2>3, <3>1
  <2> QED
    BY <2>2, <2>3
<1>5. names \cup (UNION { ToCome(t, i) : i \in Above(s, t) }) \cup Truth
        = ToCome(s, k) \cup Truth
  <2>1. UNION { ToCome(t, i) : i \in {k, k + 1} } = ToCome(t, k) \cup ToCome(t, k + 1)
    OBVIOUS
  <2> QED
    BY <1>2, <2>1
<1>6. \A i \in Above(s, t) :
        Provided(t, i) /\ \A x : Arrives(t, i + 1, x) => x \in Wants(t.stack[i])
  <2>1. \A x : Arrives(t, k + 1 + 1, x) => x = t.val.type
    <3>1. Len(t.stack) \in Nat /\ Len(t.stack) = k + 1
      BY <1>1
    <3>2. \A lo \in Nat \ {0} : lo > Len(t.stack) =>
            \A x : Arrives(t, lo, x) <=> x = t.val.type
      BY <3>1, ArrivesIs
    <3>3. k + 1 + 1 \in Nat \ {0} /\ k + 1 + 1 > k + 1
      BY <1>1
    <3> QED
      BY <3>1, <3>2, <3>3
  <2>2. Provided(t, k) /\ \A x : Arrives(t, k + 1, x) => x \in Wants(t.stack[k])
    BY <1>3
  <2>3. Provided(t, k + 1) /\ \A x : Arrives(t, k + 1 + 1, x) => x \in Wants(t.stack[k + 1])
    BY <2>1
  <2> QED
    BY <1>2, <2>2, <2>3
<1>7. WorkedOn(t)
  BY <1>2, <1>4, <1>5, <1>6, Carries
<1> QED
  BY <1>1, <1>7 DEF Continues, Works

\* A callee waits for the name of a global, and for nothing else
LEMMA NotACallee ==
  ASSUME NEW s, AtWork(s), ~(Top(s).step = "compile" /\ Top(s).n.op = "global")
  PROVE  s.stack[Len(s.stack) - 1].step # "callee"
<1> DEFINE k == Len(s.stack)
<1>1. k \in Nat /\ k >= 3 /\ s.stack[2].step = "return" /\ WorkedOn(s)
  BY AtWorkIs DEF AtWork
<1>2. CASE k = 3
  BY <1>1, <1>2
<1>3. CASE k > 3
  <2>1. k - 1 \in 3 .. Len(s.stack) /\ k - 1 # k /\ (k - 1) + 1 = k
    BY <1>1, <1>3
  <2>2. Provided(s, k - 1)
    BY <1>1, <2>1 DEF WorkedOn
  <2>3. s.stack[k - 1].step = "callee" =>
          s.stack[k].step = "compile" /\ s.stack[k].n.op = "global"
    BY <2>1, <2>2 DEF Provided
  <2> QED
    BY <2>3 DEF Top
<1> QED
  BY <1>1, <1>2, <1>3

\* The handler so far: instructions in the block being filled, or a new one
Emitted(s, u, names) ==
  /\ Works(Popped(s), u, names) /\ u.stack = Popped(s).stack
  /\ Pushed(s) \subseteq Pushed(u)

LEMMA CalledOn ==
  ASSUME NEW s, AtWork(s), NEW u, NEW names, Emitted(s, u, names),
         NEW frame \in Frames, NEW n, Compiling(n) \in Frames,
         NEW t, t = CallThen(u, n, frame)
  PROVE  /\ Works(Popped(s), t, names) /\ Under(s, t) /\ Len(t.stack) = Len(s.stack) + 1
         /\ t.stack[Len(s.stack)] = frame /\ t.stack[Len(s.stack) + 1] = Compiling(n)
         /\ t.val = u.val /\ t.inst = u.inst
         /\ Pushed(t) = Pushed(u) /\ Pushed(s) \subseteq Pushed(t)
<1> DEFINE k == Len(s.stack)
<1>1. /\ k \in Nat /\ k >= 3 /\ Len(u.stack) = k - 1
      /\ \A i \in 1 .. k - 1 : u.stack[i] = s.stack[i]
  BY AtWorkIs DEF AtWork, Emitted
<1>2. Ready(u) /\ Works(Popped(s), u, names) /\ Types(u) /\ Rec(u)
  BY RecReady DEF Emitted, Works
<1>3. /\ Types(t) /\ OnTop(u, t) /\ Len(t.stack) = (k - 1) + 2
      /\ t.stack[(k - 1) + 1] = frame /\ t.stack[(k - 1) + 2] = Compiling(n)
  BY <1>1, <1>2, CallThenIs
<1>4. /\ t.val = u.val /\ t.inst = u.inst /\ t.scopes = u.scopes
      /\ t.crashed = u.crashed /\ t.faults = u.faults
  BY <1>2 DEF CallThen, Call, Rec, Fresh
<1>5. /\ Len(t.stack) = k + 1 /\ t.stack[k] = frame /\ t.stack[k + 1] = Compiling(n)
      /\ \A i \in 1 .. k - 1 : t.stack[i] = s.stack[i]
  <2>1. (k - 1) + 1 = k /\ (k - 1) + 2 = k + 1
    BY <1>1
  <2> QED
    BY <1>1, <1>3, <2>1 DEF OnTop
<1>6. Works(u, t, {})
  BY <1>2, <1>3, <1>4, WorksLike DEF OnTop, Same
<1>7. Works(Popped(s), t, names)
  BY <1>2, <1>6, WorksOn
<1>8. Pushed(t) = Pushed(u) /\ Pushed(s) \subseteq Pushed(t)
  BY <1>4 DEF Pushed, Emitted
<1> QED
  BY <1>1, <1>4, <1>5, <1>7, <1>8 DEF Under

LEMMA CompilingMeans ==
  ASSUME NEW st, NEW i, NEW n, st.stack[i] = Compiling(n), n.op # "function"
  PROVE  /\ Provided(st, i) <=> Fits(st, n)
         /\ ToCome(st, i) = Callees(n)
<1> DEFINE frame == st.stack[i]
<1>1. frame.step = "compile" /\ frame.n = n
  BY DEF Compiling
<1>2. Provided(st, i) <=> Fits(st, n)
  BY <1>1 DEF Provided
<1>3. ToCome(st, i) = Callees(n)
  BY <1>1 DEF ToCome
<1> QED
  BY <1>2, <1>3

LEMMA CallsOn ==
  ASSUME NEW s, AtWork(s), ~(Top(s).step = "compile" /\ Top(s).n.op = "global"),
         NEW u, NEW names, Emitted(s, u, names),
         NEW frame \in Frames, NEW n \in Nodes, Fits(u, n),
         NEW t, t = CallThen(u, n, frame), Provided(t, Len(s.stack)),
         TypeOf(n) \in Wants(frame),
         Matches(s, IF Passes(frame) THEN TypeOf(n) ELSE Gives(frame)),
         names \cup ToCome(t, Len(s.stack)) \cup Callees(n) \cup Truth
           = ToCome(s, Len(s.stack)) \cup Truth
  PROVE  Continues(s, t)
<1> DEFINE k == Len(s.stack)
           h == Compiling(n)
<1>1. h \in Frames
  BY CompilingIs
<1>2. /\ Works(Popped(s), t, names) /\ Under(s, t) /\ Len(t.stack) = k + 1
      /\ t.stack[k] = frame /\ t.stack[k + 1] = h
      /\ Pushed(t) = Pushed(u) /\ Pushed(s) \subseteq Pushed(t)
  BY <1>1, CalledOn
<1>3. h.step = "compile" /\ h.n = n /\ ~Passes(h) /\ Gives(h) = TypeOf(n) /\ Wants(h) = Sorts
  BY DEF Compiling, Passes, Gives, Wants, Sorts
<1>4. n.op # "function"
  BY SupportedParts DEF Fits, Sound
<1>5. Fits(t, n)
  BY <1>2 DEF Fits
<1>6. Provided(t, k + 1) /\ ToCome(t, k + 1) = Callees(n)
  BY <1>2, <1>4, <1>5, CompilingMeans
<1>7. t.val.type \in Wants(h)
  BY <1>2, <1>3 DEF Works, Ready, Types, Values, Sorts
<1>8. s.stack[k - 1].step # "callee"
  BY NotACallee
<1> HIDE DEF h
<1> QED
  BY <1>2, <1>3, <1>5, <1>6, <1>7, <1>8, CarriesTwo

-----------------------------------------------------------------------------
\* The handlers of nodes, in a supported function

LEMMA EmittedNothing ==
  ASSUME NEW s, AtWork(s)
  PROVE  Emitted(s, Popped(s), {}) /\ Pushed(Popped(s)) = Pushed(s)
<1>1. Ready(Popped(s)) /\ Popped(s).scopes = s.scopes
  BY AtWorkIs
<1>2. Works(Popped(s), Popped(s), {})
  BY <1>1, RecReady
<1>3. Pushed(Popped(s)) = Pushed(s)
  BY <1>1 DEF Pushed
<1> QED
  BY <1>2, <1>3 DEF Emitted

LEMMA NodeAtWork ==
  ASSUME NEW s, AtWork(s), Top(s).step = "compile", NEW n, n = Top(s).n, n.op # "function"
  PROVE  /\ n \in Nodes /\ Fits(s, n) /\ Supported(n) /\ Sound(n)
         /\ ToCome(s, Len(s.stack)) = Callees(n)
         /\ \A x : (TypeOf(n) # "stale" => x = TypeOf(n)) => Matches(s, x)
         /\ n.op # "do" \/ n.slots = 0 => \A k \in Under1(n) : k \in Nodes /\ Fits(s, k)
<1> DEFINE k == Len(s.stack)
<1>1. Top(s) \in Frames /\ Provided(s, k) /\ program \in Programs
  BY AtWorkIs DEF AtWork
<1>2. n \in Nodes
  <2>1. Top(s) \in CompileFrames
    BY <1>1, FrameIs
  <2>2. n \in Nodes \cup { program[f] : f \in DOMAIN program }
    BY <2>1 DEF CompileFrames
  <2> QED
    BY <1>1, <2>2, ProgramIs
<1>3. s.stack[k] = Top(s)
  BY DEF Top
<1>4. Fits(s, n)
  BY <1>1, <1>3 DEF Provided
<1>5. Supported(n) /\ Sound(n)
  BY <1>2, <1>4, SupportedParts DEF Fits
<1>6. ToCome(s, k) = Callees(n)
  BY <1>3 DEF ToCome
<1>7. ASSUME NEW x, TypeOf(n) # "stale" => x = TypeOf(n) PROVE Matches(s, x)
  <2>1. ~Passes(Top(s)) /\ Gives(Top(s)) = TypeOf(n)
    BY DEF Passes, Gives
  <2> QED
    BY <1>7, <2>1 DEF Matches
<1>8. ASSUME n.op # "do" \/ n.slots = 0
      PROVE  \A j \in Under1(n) : j \in Nodes /\ Fits(s, j)
  <2>1. n.op = "do" => ~(n.slots > 0)
    BY <1>8
  <2> QED
    BY <1>2, <1>4, <2>1, PartFits
<1> QED
  BY <1>2, <1>4, <1>5, <1>6, <1>7, <1>8

LEMMA TypeIs ==
  ASSUME NEW n \in Nodes
  PROVE  /\ n.op \in {"const", "if", "while"} => TypeOf(n) = "inst"
         /\ n.op \in {"local", "call"} => TypeOf(n) = "ptr"
         /\ n.op = "global" => TypeOf(n) = "null"
         /\ n.op \in {"define", "set"} => TypeOf(n) = TypeOf(n.value)
         /\ n.op = "variable" /\ n.init = <<>> => TypeOf(n) = "null"
         /\ n.op = "variable" /\ n.init # <<>> => TypeOf(n) = TypeOf(n.init[1])
         /\ n.op = "do" /\ n.statements # <<>> => TypeOf(n) = TypeOf(Last(n.statements))
         /\ n.op = "do" /\ n.statements = <<>> /\ n.slots > 0 => TypeOf(n) = "ptr"
         /\ n.op = "do" /\ n.statements = <<>> /\ ~(n.slots > 0) => TypeOf(n) = "stale"
         /\ n.op = "unsupported" => TypeOf(n) = "stale"
         /\ TypeOf(n) \in {"inst", "ptr", "null", "stale"}
<1>1. TypeOf(n) = TypeRule(n, TypeOf) /\ TypeOf(n) \in {"inst", "ptr", "null", "stale"}
  BY AnalysisIs
<1>2. CASE n.op \in {"const", "if", "while", "local", "call", "global", "unsupported"}
  BY <1>1, <1>2 DEF TypeRule
<1>3. CASE n.op \in {"define", "set"}
  BY <1>1, <1>3 DEF TypeRule
<1>4. CASE n.op = "variable"
  BY <1>1, <1>4 DEF TypeRule
<1>5. CASE n.op = "do"
  BY <1>1, <1>5 DEF TypeRule
<1> QED
  BY <1>1, <1>2, <1>3, <1>4, <1>5

LEMMA LeafCallees ==
  ASSUME NEW n \in Nodes, n.op \in {"const", "local", "global", "unsupported"}
  PROVE  Callees(n) = {}
<1>1. Under1(n) = {}
  BY DEF Under1, Parts, Arms
<1>2. UNION { Callees(k) : k \in Under1(n) } = {}
  BY <1>1
<1>3. ~(n.op = "call" /\ n.callee.op = "global")
  OBVIOUS
<1> QED
  BY <1>2, <1>3, CalleesIs

\* A handler that calls nothing and leaves a value
LEMMA Leaves ==
  ASSUME NEW s, AtWork(s), ~(Top(s).step = "compile" /\ Top(s).n.op = "global"),
         NEW t, NEW names, Emitted(s, t, names), Matches(s, t.val.type),
         names \cup Truth = ToCome(s, Len(s.stack)) \cup Truth
  PROVE  Continues(s, t)
BY NotACallee, CarriesNothing DEF Emitted

LEMMA ConstContinues ==
  ASSUME NEW s, AtWork(s), Top(s).step = "compile", NEW n, n = Top(s).n, n.op = "const",
         NEW t, t = Gen(Popped(s), n)
  PROVE  Continues(s, t)
<1> DEFINE p == Popped(s)
<1>0. n \in Nodes
  BY NodeAtWork
<1>1. n \in Nodes /\ ToCome(s, Len(s.stack)) = Callees(n)
      /\ \A x : (TypeOf(n) # "stale" => x = TypeOf(n)) => Matches(s, x)
  BY NodeAtWork
<1>2. Ready(p) /\ p.scopes = s.scopes
  BY AtWorkIs
<1> HIDE DEF p
<1>3. t = Returned(p, Literal) /\ Literal \in Values
  BY Constants DEF Gen, p
<1>4. Works(p, t, {}) /\ t.val = Literal /\ t.stack = p.stack
  BY <1>2, <1>3, ReturnedWorks
<1>5. Pushed(t) = Pushed(s)
  BY <1>2, <1>3, RecReady DEF Pushed, Returned, Rec, Fresh
<1>6. Emitted(s, t, {})
  BY <1>4, <1>5 DEF Emitted, p
<1>7. TypeOf(n) = "inst"
  BY <1>0, TypeIs
<1>8. t.val.type = "inst"
  BY <1>4 DEF Literal
<1>9. Matches(s, t.val.type)
  BY <1>1, <1>7, <1>8
<1>10. Callees(n) = {}
  BY <1>0, LeafCallees
<1> QED
  BY <1>1, <1>6, <1>9, <1>10, Leaves

LEMMA ScopeBound ==
  ASSUME NEW s, Types(s), Scoped(s), NEW scope \in Pushed(s)
  PROVE  ScopeValue(s, scope) \in Values /\ ScopeValue(s, scope).type = "ptr"
<1> DEFINE I == { i \in 1 .. Len(s.scopes) : s.scopes[i].scope = scope }
           i == SelectLastInSeq(s.scopes, LAMBDA e : e.scope = scope)
<1>1. /\ s.scopes \in Seq(Scopes) /\ Len(s.scopes) \in Nat
      /\ DOMAIN s.scopes = 1 .. Len(s.scopes)
  BY LenProperties DEF Types
<1>2. i = IF I # {} THEN Max(I) ELSE 0
  BY DEF SelectLastInSeq
<1>3. ScopeValue(s, scope) = IF i = 0 THEN NoValue ELSE s.scopes[i].value
  BY DEF ScopeValue
<1>4. I # {} /\ scope \notin Slotless
  BY <1>1 DEF Pushed, ToSet
<1>5. Max(I) \in I
  <2>1. I \in SUBSET Nat /\ \A j \in I : j <= Len(s.scopes)
    BY <1>1
  <2> HIDE DEF I
  <2> QED
    BY <1>1, <1>4, <2>1, MaxIsGreatest
<1> HIDE DEF i
<1>6. i \in 1 .. Len(s.scopes) /\ s.scopes[i].scope = scope /\ i # 0
  BY <1>1, <1>2, <1>4, <1>5
<1>7. s.scopes[i] \in ToSet(s.scopes)
  BY <1>1, <1>6 DEF ToSet
<1>8. s.scopes[i].value.type = "ptr"
  BY <1>4, <1>6, <1>7 DEF Scoped
<1> QED
  BY <1>3, <1>6, <1>8, ScopeValueIs

LEMMA BoundAtWork ==
  ASSUME NEW s, AtWork(s), Top(s).step = "compile", NEW n, n = Top(s).n,
         n.op \in {"local", "define", "variable"}
  PROVE  ScopeValue(Popped(s), n.scope) \in Values /\ ScopeValue(Popped(s), n.scope).type = "ptr"
<1>1. n \in Nodes /\ Fits(s, n)
  BY NodeAtWork
<1>2. n.scope \in Pushed(s)
  BY <1>1, FreeParts DEF Fits
<1>3. Types(Popped(s)) /\ Popped(s).scopes = s.scopes /\ Scoped(s)
  BY AtWorkIs DEF AtWork
<1>4. Scoped(Popped(s)) /\ n.scope \in Pushed(Popped(s))
  BY <1>2, <1>3 DEF Scoped, Pushed
<1> QED
  BY <1>3, <1>4, ScopeBound

LEMMA LocalContinues ==
  ASSUME NEW s, AtWork(s), Top(s).step = "compile", NEW n, n = Top(s).n, n.op = "local",
         NEW t, t = Gen(Popped(s), n)
  PROVE  Continues(s, t)
<1> DEFINE p == Popped(s)
           v == ScopeValue(p, n.scope)
<1>0. n \in Nodes
  BY NodeAtWork
<1>1. n \in Nodes /\ ToCome(s, Len(s.stack)) = Callees(n)
      /\ \A x : (TypeOf(n) # "stale" => x = TypeOf(n)) => Matches(s, x)
  BY NodeAtWork
<1>2. Ready(p) /\ p.scopes = s.scopes /\ Types(p) /\ Rec(p)
  BY AtWorkIs
<1>3. v \in Values /\ v.type = "ptr"
  BY BoundAtWork
<1>4. t = GenResolve(p, n) /\ t = [p EXCEPT !.val = v, !.inst = "none"]
  BY DEF Gen, GenResolve
<1> HIDE DEF p, v
<1>5. Types(t)
  <2>1. n \in NodesOf({"local", "global"})
    BY <1>1 DEF NodesOf
  <2>2. t = GenResolve(p, n)
    BY <1>4
  <2>3. Types(GenResolve(p, n))
    BY <1>2, <2>1, GenResolveIs
  <2> QED
    BY <2>2, <2>3
<1>6. /\ t.stack = p.stack /\ t.fn = p.fn /\ t.at = p.at /\ t.blocks = p.blocks
      /\ t.crashed = p.crashed /\ t.faults = p.faults /\ t.scopes = p.scopes /\ t.val = v
  BY <1>2, <1>4 DEF Rec, Fresh
<1>7. Works(p, t, {})
  BY <1>2, <1>5, <1>6, WorksLike
<1>8. Emitted(s, t, {})
  <2>1. Pushed(s) \subseteq Pushed(t)
    BY <1>2, <1>6 DEF Pushed
  <2> QED
    BY <1>6, <1>7, <2>1 DEF Emitted, p
<1>9. TypeOf(n) = "ptr"
  BY <1>0, TypeIs
<1>10. Matches(s, t.val.type)
  BY <1>1, <1>3, <1>6, <1>9
<1>11. Callees(n) = {}
  BY <1>0, LeafCallees
<1> QED
  BY <1>1, <1>8, <1>10, <1>11, Leaves

\* Not as a callee: where a global's name is for nothing
LEMMA GlobalContinues ==
  ASSUME NEW s, AtWork(s), Top(s).step = "compile", NEW n, n = Top(s).n, n.op = "global",
         NEW t, t = Gen(Popped(s), n)
  PROVE  Continues(s, t)
<1> DEFINE p == Popped(s)
           k == Len(s.stack)
<1>0. n \in Nodes
  BY NodeAtWork
<1>1. /\ n \in Nodes /\ ToCome(s, k) = Callees(n)
      /\ \A x : (TypeOf(n) # "stale" => x = TypeOf(n)) => Matches(s, x)
  BY NodeAtWork
<1>2. /\ Ready(p) /\ p.scopes = s.scopes /\ Types(p) /\ Rec(p) /\ k \in Nat
      /\ p.fn = s.fn /\ p.blocks = s.blocks /\ p.crashed = s.crashed /\ p.faults = s.faults
      /\ Len(p.stack) = k - 1 /\ \A i \in 1 .. k - 1 : p.stack[i] = s.stack[i]
      /\ DOMAIN s.stack = 1 .. k /\ s.stack[1].step = "define" /\ s.stack[2].step = "return"
  BY AtWorkIs
<1>3. t = GenResolve(p, n)
  BY DEF Gen
<1>4. t = [p EXCEPT !.val = NoValue, !.inst = n.name]
  BY <1>3 DEF GenResolve
<1> HIDE DEF p
<1>5. Types(t)
  <2>1. n \in NodesOf({"local", "global"})
    BY <1>1 DEF NodesOf
  <2>2. Types(GenResolve(p, n))
    BY <1>2, <2>1, GenResolveIs
  <2> QED
    BY <1>3, <2>2
<1>6. /\ t.stack = p.stack /\ t.fn = p.fn /\ t.at = p.at /\ t.blocks = p.blocks
      /\ t.crashed = p.crashed /\ t.faults = p.faults /\ t.scopes = p.scopes
      /\ t.val = NoValue /\ t.inst = n.name
  BY <1>2, <1>4 DEF Rec, Fresh
<1>7. Works(p, t, {})
  BY <1>2, <1>5, <1>6, WorksLike
<1>8. Pushed(t) = Pushed(s)
  BY <1>2, <1>6 DEF Pushed
<1>9. TypeOf(n) = "null"
  BY <1>0, TypeIs
<1>10. Matches(s, t.val.type)
  BY <1>1, <1>6, <1>9 DEF NoValue
<1>11. Callees(n) = {}
  BY <1>0, LeafCallees
<1>12. CASE s.stack[k - 1].step # "callee"
  BY <1>1, <1>6, <1>7, <1>8, <1>10, <1>11, <1>12, CarriesNothing DEF p
<1>13. CASE s.stack[k - 1].step = "callee"
  <2> DEFINE frame == s.stack[k - 1]
  <2>1. k > 3 /\ Fed(s) /\ CallsAddUp(s) /\ \A i \in 3 .. k : Provided(s, i)
    BY <1>2, <1>13 DEF AtWork, WorkedOn
  <2>2. s.stack[k] = Top(s) /\ k - 1 \in 3 .. k /\ k - 1 # k /\ (k - 1) + 1 = k
    BY <1>2, <2>1 DEF Top
  <2>3. Takes(n.name, frame.args)
    BY <1>13, <2>1, <2>2 DEF Provided
  <2>4. /\ Len(t.stack) = k - 1 /\ DOMAIN t.stack = 1 .. k - 1
        /\ \A i \in 1 .. k - 1 : t.stack[i] = s.stack[i]
    BY <1>2, <1>5, <1>6, StackBounds
  <2>5. n.name # "none"
    BY <1>1, AnalysisAssumption DEF Analysis
  <2>6. \A i \in 1 .. k - 2 : s.stack[i].step # "callee"
    <3> TAKE i \in 1 .. k - 2
    <3>1. i \in 3 .. k => Provided(s, i)
      BY <2>1
    <3>2. i # k /\ k # i + 1
      BY <1>2
    <3>3. i \in 3 .. k => s.stack[i].step # "callee"
      BY <3>1, <3>2 DEF Provided
    <3> QED
      BY <1>2, <3>3
  <2>7. Fed(t)
    <3>1. Under(s, t) /\ Above(s, t) = {}
      BY <1>2, <2>1, <2>4 DEF Under, Above
    <3>2. \A x : Arrives(t, k, x) => Matches(s, x)
      <4>1. k > Len(t.stack) /\ Len(t.stack) \in Nat
        BY <1>2, <2>1, <2>4
      <4> QED
        BY <1>2, <1>10, <2>1, <4>1, ArrivesIs
    <3> QED
      BY <1>5, <3>1, <3>2, CarriesFed
  <2>8. Provided(t, k - 1) /\ ToCome(t, k - 1) = {n.name}
    <3> DEFINE j == k - 1
    <3>1. t.stack[j].step = "callee" /\ t.stack[j].args = frame.args /\ j = Len(t.stack)
      BY <1>13, <2>2, <2>4
    <3> HIDE DEF j, frame
    <3>2. Provided(t, j)
      BY <1>6, <2>3, <2>5, <3>1 DEF Provided
    <3>3. ToCome(t, j) = {n.name}
      BY <1>6, <3>1 DEF ToCome
    <3> QED
      BY <3>2, <3>3 DEF j
  <2>9. ToCome(s, k - 1) = {n.name}
    <3> DEFINE j == k - 1
    <3>1. s.stack[j].step = "callee" /\ j # k /\ s.stack[j + 1].n.name = n.name
      BY <1>13, <2>2
    <3> HIDE DEF j
    <3>2. ToCome(s, j) = {n.name}
      BY <3>1 DEF ToCome
    <3> QED
      BY <3>2 DEF j
  <2>10. \A i \in 1 .. k - 2 : /\ Provided(s, i) => Provided(t, i)
                               /\ ToCome(t, i) = ToCome(s, i)
    <3> TAKE i \in 1 .. k - 2
    <3>1. t.stack[i] = s.stack[i] /\ s.stack[i].step # "callee"
      BY SMTT(30), <1>2, <2>4, <2>6
    <3> QED
      BY <1>8, <3>1, ProvidedStays
  <2>11. CallsAddUp(t)
    <3>1. \A i \in DOMAIN t.stack : i \in DOMAIN s.stack /\ ToCome(t, i) = ToCome(s, i)
      <4> TAKE i \in DOMAIN t.stack
      <4>1. i \in 1 .. k - 2 \/ i = k - 1
        BY <1>2, <2>4
      <4>2. i \in DOMAIN s.stack
        BY <1>2, <2>4
      <4>3. i = k - 1 => ToCome(t, i) = ToCome(s, i)
        BY <2>8, <2>9
      <4> QED
        BY <2>10, <4>1, <4>2, <4>3
    <3>2. \A i \in DOMAIN s.stack : i \in DOMAIN t.stack \/ i = k
      BY <1>2, <2>4
    <3>3. UNION { ToCome(t, i) : i \in DOMAIN t.stack }
            = UNION { ToCome(s, i) : i \in DOMAIN s.stack }
      <4> DEFINE A == DOMAIN t.stack
                 B == DOMAIN s.stack
      <4>1. /\ \A i \in A : i \in B /\ ToCome(t, i) = ToCome(s, i)
            /\ \A i \in B : i \in A \/ i = k
            /\ ToCome(s, k) = {}
        BY <1>1, <1>11, <3>1, <3>2
      <4> HIDE DEF A, B, k
      <4>2. \A x : (\E i \in A : x \in ToCome(t, i)) <=> \E i \in B : x \in ToCome(s, i)
        BY <4>1
      <4>3. UNION { ToCome(t, i) : i \in A } = UNION { ToCome(s, i) : i \in B }
        BY <4>2
      <4> QED
        BY <4>3 DEF A, B
    <3>4. t.fn = s.fn /\ t.blocks = s.blocks
      BY <1>2, <1>6
    <3> QED
      BY <2>1, <3>3, <3>4 DEF CallsAddUp
  <2>12. \A i \in 3 .. Len(t.stack) : Provided(t, i)
    <3> TAKE i \in 3 .. Len(t.stack)
    <3>1. i = k - 1 \/ (i \in 1 .. k - 2 /\ i \in 3 .. k)
      BY <1>2, <2>4
    <3> QED
      BY <2>1, <2>8, <2>10, <3>1
  <2> QED
    BY <1>2, <1>6, <2>7, <2>11, <2>12 DEF Continues, WorkedOn
<1> QED
  BY <1>12, <1>13

LEMMA UnsupportedContinues ==
  ASSUME NEW s, AtWork(s), Top(s).step = "compile", NEW n, n = Top(s).n, n.op = "unsupported",
         NEW t, t = Gen(Popped(s), n)
  PROVE  Continues(s, t)
<1> DEFINE p == Popped(s)
<1>0. n \in Nodes
  BY NodeAtWork
<1>1. n \in Nodes /\ ToCome(s, Len(s.stack)) = Callees(n)
      /\ \A x : (TypeOf(n) # "stale" => x = TypeOf(n)) => Matches(s, x)
  BY NodeAtWork
<1>2. Ready(p) /\ p.scopes = s.scopes
  BY AtWorkIs
<1> HIDE DEF p
<1>3. t = Throw(p)
  BY DEF Gen, p
<1>4. Works(p, t, {}) /\ t.stack = p.stack
  BY <1>2, <1>3, ThrowWorks
<1>5. Pushed(t) = Pushed(s)
  BY <1>2, <1>3, RecReady DEF Pushed, Throw, Rec, Fresh
<1>6. Emitted(s, t, {})
  BY <1>4, <1>5 DEF Emitted, p
<1>7. TypeOf(n) = "stale"
  BY <1>0, TypeIs
<1>8. Matches(s, t.val.type)
  BY <1>1, <1>7
<1>9. Callees(n) = {}
  BY <1>0, LeafCallees
<1> QED
  BY <1>1, <1>6, <1>8, <1>9, Leaves

\* What there is to a frame but a callee
LEMMA FrameMeans ==
  ASSUME NEW st, NEW i, NEW frame, st.stack[i] = frame
  PROVE  /\ frame.step \in {"assign", "bind"} =>
              (Provided(st, i) <=> frame.to.type = "ptr") /\ ToCome(st, i) = {}
         /\ frame.step = "slot" =>
              (Provided(st, i) <=> Fits(st, frame.n)) /\ ToCome(st, i) = Callees(frame.n.value)
         /\ frame.step = "loop" =>
              (Provided(st, i) <=> Fits(st, frame.n)) /\ ToCome(st, i) = Callees(frame.n.cond)
         /\ frame.step = "again" =>
              (Provided(st, i) <=> frame.phi.type = "inst") /\ ToCome(st, i) = {}
         /\ frame.step = "call" =>
              (Provided(st, i) <=> Takes(frame.f, frame.args)) /\ ToCome(st, i) = {frame.f}
         /\ frame.step = "argument" =>
              /\ Provided(st, i) <=>
                   /\ Fits(st, frame.n) /\ Len(frame.args) < Len(frame.n.args)
                   /\ \A a \in ToSet(frame.args) : a.type \in {"inst", "ptr"}
              /\ ToCome(st, i) =
                   {frame.n.callee.name}
                     \cup UNION { Callees(frame.n.args[k]) :
                                    k \in Len(frame.args) + 2 .. Len(frame.n.args) }
         /\ frame.step \in {"branch", "test"} =>
              (Provided(st, i) <=>
                 Fits(st, frame.n) /\ \A v \in ToSet(frame.values) : v.type = "inst")
         /\ frame.step = "branch" =>
              ToCome(st, i) =
                UNION { Callees(frame.n.branches[k][1]) \cup Callees(frame.n.branches[k][2]) :
                          k \in 1 .. frame.left }
         /\ frame.step = "test" =>
              ToCome(st, i) =
                Callees(frame.n.branches[frame.left][2])
                  \cup UNION { Callees(frame.n.branches[k][1])
                                 \cup Callees(frame.n.branches[k][2]) : k \in 1 .. frame.left - 1 }
         /\ frame.step \in {"define", "return"} => Provided(st, i) /\ ToCome(st, i) = {}
<1>1. CASE frame.step \in {"assign", "bind", "slot", "loop", "again", "call", "define", "return"}
  <2>1. /\ frame.step \in {"assign", "bind"} => (Provided(st, i) <=> frame.to.type = "ptr")
        /\ frame.step \in {"slot", "loop"} => (Provided(st, i) <=> Fits(st, frame.n))
        /\ frame.step = "again" => (Provided(st, i) <=> frame.phi.type = "inst")
        /\ frame.step = "call" => (Provided(st, i) <=> Takes(frame.f, frame.args))
        /\ frame.step \in {"define", "return"} => Provided(st, i)
    BY DEF Provided
  <2>2. /\ frame.step \in {"assign", "bind", "again", "define", "return"} => ToCome(st, i) = {}
        /\ frame.step = "slot" => ToCome(st, i) = Callees(frame.n.value)
        /\ frame.step = "loop" => ToCome(st, i) = Callees(frame.n.cond)
        /\ frame.step = "call" => ToCome(st, i) = {frame.f}
    BY DEF ToCome
  <2> QED
    BY <1>1, <2>1, <2>2
<1>2. CASE frame.step = "argument"
  BY <1>2 DEF Provided, ToCome
<1>3. CASE frame.step = "branch"
  BY <1>3 DEF Provided, ToCome
<1>4. CASE frame.step = "test"
  BY <1>4 DEF Provided, ToCome
<1> QED
  BY <1>1, <1>2, <1>3, <1>4

LEMMA DefineNodeContinues ==
  ASSUME NEW s, AtWork(s), Top(s).step = "compile", NEW n, n = Top(s).n, n.op = "define",
         NEW t, t = Gen(Popped(s), n)
  PROVE  Continues(s, t)
<1> DEFINE p == Popped(s)
           k == Len(s.stack)
           frame == [step |-> "bind", to |-> ScopeValue(p, n.scope)]
<1>1. /\ n \in Nodes /\ ToCome(s, k) = Callees(n) /\ Sound(n)
      /\ \A x : (TypeOf(n) # "stale" => x = TypeOf(n)) => Matches(s, x)
      /\ \A j \in Under1(n) : j \in Nodes /\ Fits(s, j)
  BY NodeAtWork
<1>2. ScopeValue(p, n.scope) \in Values /\ ScopeValue(p, n.scope).type = "ptr"
  BY BoundAtWork
<1>3. Under1(n) = {n.value}
  BY DEF Under1, Parts, Arms
<1>4. t = CallThen(p, n.value, frame)
  BY DEF Gen, GenBindSite
<1>5. frame \in Frames /\ frame.step = "bind" /\ frame.to.type = "ptr"
  BY <1>2, StoreFrameIs
<1>6. n.value \in Nodes /\ Compiling(n.value) \in Frames
  BY <1>1, <1>3, CompilingIs
<1>7. Emitted(s, p, {}) /\ Fits(p, n.value)
  BY <1>1, <1>3, EmittedNothing DEF Fits
<1> HIDE DEF p, frame
<1>8. t.stack[k] = frame
  BY <1>4, <1>5, <1>6, <1>7, CalledOn
<1>9. Provided(t, k) /\ ToCome(t, k) = {}
  BY <1>5, <1>8, FrameMeans
<1>10. TypeOf(n) = TypeOf(n.value) /\ TypeOf(n.value) # "stale"
       /\ TypeOf(n.value) \in {"inst", "ptr", "null", "stale"}
  BY <1>1, <1>6, TypeIs DEF Sound
<1>11. Passes(frame) /\ Wants(frame) = {"inst", "ptr", "null"}
  BY <1>5 DEF Passes, Wants
<1>12. Callees(n) = Callees(n.value)
  <2>1. UNION { Callees(j) : j \in {n.value} } = Callees(n.value)
    OBVIOUS
  <2>2. ~(n.op = "call" /\ n.callee.op = "global")
    OBVIOUS
  <2> QED
    BY <1>1, <1>3, <2>1, <2>2, CalleesIs
<1>13. TypeOf(n.value) \in Wants(frame)
       /\ Matches(s, IF Passes(frame) THEN TypeOf(n.value) ELSE Gives(frame))
  BY <1>1, <1>10, <1>11
<1>14. {} \cup ToCome(t, k) \cup Callees(n.value) \cup Truth = ToCome(s, k) \cup Truth
  BY <1>1, <1>9, <1>12
<1> QED
  BY <1>4, <1>5, <1>6, <1>7, <1>9, <1>13, <1>14, CallsOn

LEMMA SetContinues ==
  ASSUME NEW s, AtWork(s), Top(s).step = "compile", NEW n, n = Top(s).n, n.op = "set",
         NEW t, t = Gen(Popped(s), n)
  PROVE  Continues(s, t)
<1> DEFINE p == Popped(s)
           k == Len(s.stack)
           frame == [step |-> "slot", n |-> n]
<1>0. n \in Nodes /\ n \in NodesOf({"set"})
  BY NodeAtWork DEF NodesOf
<1>1. /\ ToCome(s, k) = Callees(n) /\ Sound(n) /\ Fits(s, n)
      /\ \A x : (TypeOf(n) # "stale" => x = TypeOf(n)) => Matches(s, x)
      /\ \A j \in Under1(n) : j \in Nodes /\ Fits(s, j)
  BY NodeAtWork
<1>2. Under1(n) = {n.slot, n.value}
  BY DEF Under1, Parts, Arms
<1>3. t = CallThen(p, n.slot, frame)
  BY DEF Gen, GenAssign
<1>4. frame \in Frames /\ frame.step = "slot" /\ frame.n = n
  BY <1>0, FramesIn DEF SlotFrames
<1>5. /\ n.slot \in Nodes /\ n.value \in Nodes /\ Compiling(n.slot) \in Frames
      /\ Fits(p, n.slot)
  BY <1>1, <1>2, CompilingIs, EmittedNothing DEF Fits
<1>6. Emitted(s, p, {})
  BY EmittedNothing
<1> HIDE DEF p, frame
<1>7. t.stack[k] = frame /\ Pushed(s) \subseteq Pushed(t)
  BY <1>3, <1>4, <1>5, <1>6, CalledOn
<1>8. Provided(t, k) /\ ToCome(t, k) = Callees(n.value)
  <2>1. Fits(t, n)
    BY <1>1, <1>7 DEF Fits
  <2> QED
    BY <1>4, <1>7, <2>1, FrameMeans
<1>9. n.slot.op = "local" /\ TypeOf(n.slot) = "ptr" /\ TypeOf(n) = TypeOf(n.value)
  BY <1>0, <1>1, <1>5, TypeIs DEF Sound
<1>10. ~Passes(frame) /\ Wants(frame) = {"ptr"} /\ Gives(frame) = TypeOf(n.value)
  BY <1>4 DEF Passes, Wants, Gives
<1>11. Callees(n) = Callees(n.slot) \cup Callees(n.value)
  <2>1. UNION { Callees(j) : j \in {n.slot, n.value} } = Callees(n.slot) \cup Callees(n.value)
    OBVIOUS
  <2>2. ~(n.op = "call" /\ n.callee.op = "global")
    OBVIOUS
  <2> QED
    BY <1>0, <1>2, <2>1, <2>2, CalleesIs
<1>12. TypeOf(n.slot) \in Wants(frame)
       /\ Matches(s, IF Passes(frame) THEN TypeOf(n.slot) ELSE Gives(frame))
  BY <1>1, <1>9, <1>10
<1>13. {} \cup ToCome(t, k) \cup Callees(n.slot) \cup Truth = ToCome(s, k) \cup Truth
  BY <1>1, <1>8, <1>11
<1> QED
  BY <1>3, <1>4, <1>5, <1>6, <1>8, <1>12, <1>13, CallsOn

LEMMA SlotContinues ==
  ASSUME NEW s, AtWork(s), Top(s).step = "slot", NEW t, t = GenSlot(Popped(s), Top(s))
  PROVE  Continues(s, t)
<1> DEFINE p == Popped(s)
           k == Len(s.stack)
           n == Top(s).n
           frame == [step |-> "assign", to |-> p.val]
<1>0. /\ Top(s) \in Frames /\ Provided(s, k) /\ s.val \in Values /\ p.val = s.val
      /\ s.val.type \in Wants(Top(s)) /\ s.stack[k] = Top(s)
  BY AtWorkIs DEF Top
<1>1. Top(s) \in SlotFrames
  BY <1>0, FrameIs
<1>2. n \in Nodes /\ n.op = "set"
  BY <1>1 DEF SlotFrames, NodesOf
<1>3. Fits(s, n) /\ ToCome(s, k) = Callees(n.value)
  BY <1>0, FrameMeans
<1>4. Sound(n)
  BY <1>2, <1>3, SupportedParts DEF Fits
<1>5. n.value \in Nodes /\ Fits(s, n.value)
  <2>1. n.value \in Under1(n)
    BY <1>2 DEF Under1, Parts
  <2> QED
    BY <1>2, <1>3, <2>1, PartFits
<1>6. Emitted(s, p, {}) /\ Fits(p, n.value)
  BY <1>5, EmittedNothing DEF Fits
<1>7. t = CallThen(p, n.value, frame)
  BY DEF GenSlot
<1>8. s.val.type = "ptr"
  BY <1>0 DEF Wants
<1>9. frame \in Frames /\ frame.step = "assign" /\ frame.to.type = "ptr"
  BY <1>0, <1>8, StoreFrameIs
<1> HIDE DEF p, frame, n
<1>10. t.stack[k] = frame
  BY <1>5, <1>6, <1>7, <1>9, CompilingIs, CalledOn
<1>11. Provided(t, k) /\ ToCome(t, k) = {}
  BY <1>9, <1>10, FrameMeans
<1>12. Passes(frame) /\ TypeOf(n.value) \in Wants(frame)
  BY <1>2, <1>4, <1>9 DEF Passes, Wants, Sound, Instance
<1>13. Matches(s, TypeOf(n.value))
  BY DEF Matches, Passes, Gives, n
<1>14. Matches(s, IF Passes(frame) THEN TypeOf(n.value) ELSE Gives(frame))
  BY <1>12, <1>13
<1>15. {} \cup ToCome(t, k) \cup Callees(n.value) \cup Truth = ToCome(s, k) \cup Truth
  BY <1>3, <1>11
<1> QED
  BY <1>5, <1>6, <1>7, <1>9, <1>11, <1>12, <1>14, <1>15, CallsOn

-----------------------------------------------------------------------------
\* Calls

\* The argument that is next, or the callee
LEMMA NextContinues ==
  ASSUME NEW s, AtWork(s), ~(Top(s).step = "compile" /\ Top(s).n.op = "global"),
         NEW n \in NodesOf({"call"}), Fits(s, n), Matches(s, "ptr"),
         NEW args \in Seq(Values), \A a \in ToSet(args) : a.type \in {"inst", "ptr"},
         Len(args) <= Len(n.args),
         \A x : x \in ToCome(s, Len(s.stack)) <=>
                  \/ x = n.callee.name
                  \/ \E j \in Len(args) + 1 .. Len(n.args) : x \in Callees(n.args[j]),
         NEW t, t = NextArgument(Popped(s), n, args)
  PROVE  Continues(s, t)
<1> DEFINE p == Popped(s)
           k == Len(s.stack)
           a == Len(args)
           l == Len(n.args)
<1>0. n \in Nodes /\ n.op = "call" /\ n.args \in Seq(Nodes) /\ n.callee \in Nodes
  BY NodeIs DEF NodesOf
<1>1. a \in Nat /\ l \in Nat /\ a <= l /\ DOMAIN n.args = 1 .. l
  BY <1>0, LenProperties
<1>2. Supported(n) /\ Sound(n)
  BY <1>0, SupportedParts DEF Fits
<1>3. n.callee.op = "global" /\ \A m \in ToSet(n.args) : Instance(m)
  BY <1>0, <1>2 DEF Sound
<1>4. \A m \in ToSet(n.args) \cup {n.callee} : m \in Nodes /\ Fits(s, m)
  <2>1. Under1(n) = ToSet(n.args) \cup {n.callee}
    BY <1>0 DEF Under1, Parts, Arms
  <2> QED
    BY <1>0, <2>1, PartFits
<1>5. Emitted(s, p, {}) /\ \A m : Fits(s, m) => Fits(p, m)
  BY EmittedNothing DEF Fits
<1> HIDE DEF p
<1>6. CASE a < l
  <2> DEFINE frame == [step |-> "argument", n |-> n, args |-> args]
             m == n.args[a + 1]
  <2>1. t = CallThen(p, m, frame)
    BY <1>6 DEF NextArgument, p
  <2>2. a + 1 \in DOMAIN n.args
    BY <1>1, <1>6
  <2>3. m \in ToSet(n.args)
    BY <2>2 DEF ToSet
  <2>4. m \in Nodes /\ Fits(p, m) /\ Compiling(m) \in Frames /\ TypeOf(m) \in {"inst", "ptr"}
    BY <1>3, <1>4, <1>5, <2>3, CompilingIs DEF Instance
  <2>5. frame \in Frames /\ frame.step = "argument" /\ frame.n = n /\ frame.args = args
    BY FramesIn DEF ArgumentFrames
  <2> HIDE DEF frame, m
  <2>6. t.stack[k] = frame /\ Pushed(s) \subseteq Pushed(t)
    BY <1>5, <2>1, <2>4, <2>5, CalledOn
  <2>7. Provided(t, k)
    <3>1. Fits(t, n)
      BY <2>6 DEF Fits
    <3> QED
      BY <1>6, <2>5, <2>6, <3>1, FrameMeans
  <2>8. ToCome(t, k) = {n.callee.name} \cup UNION { Callees(n.args[j]) : j \in a + 2 .. l }
    BY SMTT(30), <2>5, <2>6, FrameMeans
  <2>9. {} \cup ToCome(t, k) \cup Callees(m) \cup Truth = ToCome(s, k) \cup Truth
    <3>1. \A j : j \in a + 1 .. l <=> j = a + 1 \/ j \in a + 2 .. l
      BY <1>1, <1>6
    <3>2. \A x : x \in ToCome(t, k) <=>
                   \/ x = n.callee.name
                   \/ \E j \in a + 2 .. l : x \in Callees(n.args[j])
      BY <2>8
    <3>3. \A x : x \in ToCome(s, k) <=> x \in ToCome(t, k) \/ x \in Callees(m)
      BY <3>1, <3>2 DEF m
    <3> QED
      BY <3>3
  <2>10. ~Passes(frame) /\ Wants(frame) = {"inst", "ptr"} /\ Gives(frame) = "ptr"
    BY <2>5 DEF Passes, Wants, Gives
  <2> QED
    BY <1>5, <2>1, <2>4, <2>5, <2>7, <2>9, <2>10, CallsOn
<1>7. CASE ~(a < l)
  <2> DEFINE frame == [step |-> "callee", args |-> args]
             m == n.callee
  <2>1. t = CallThen(p, m, frame)
    BY <1>7 DEF NextArgument, p
  <2>2. /\ m \in Nodes /\ Fits(p, m) /\ Compiling(m) \in Frames /\ m.op = "global"
        /\ Callees(m) = {} /\ TypeOf(m) = "null"
    BY <1>3, <1>4, <1>5, CompilingIs, LeafCallees, TypeIs
  <2>3. frame \in Frames /\ frame.step = "callee" /\ frame.args = args
    BY FramesIn DEF CalleeFrames
  <2>4. Takes(m.name, args)
    <3>1. a = l
      BY <1>1, <1>7
    <3>2. /\ m.name \in DOMAIN program \cup Subroutines
          /\ m.name \in DOMAIN program => l = program[m.name].params
      BY <1>0, <1>2 DEF Sound
    <3> QED
      BY <3>1, <3>2 DEF Takes
  <2> HIDE DEF frame
  <2>5. t.stack[k] = frame /\ t.stack[k + 1] = Compiling(m) /\ Len(t.stack) = k + 1 /\ k \in Nat
    BY <1>5, <2>1, <2>2, <2>3, CalledOn, AtWorkIs
  <2>6. Compiling(m).step = "compile" /\ Compiling(m).n = m
    BY DEF Compiling
  <2>7. Provided(t, k) /\ ToCome(t, k) = {m.name}
    <3>1. t.stack[k].step = "callee" /\ t.stack[k].args = args /\ k # Len(t.stack)
      BY <2>3, <2>5
    <3>2. Provided(t, k)
      BY <2>2, <2>4, <2>5, <2>6, <3>1 DEF Provided
    <3>3. ToCome(t, k) = {m.name}
      BY <2>5, <2>6, <3>1 DEF ToCome
    <3> QED
      BY <3>2, <3>3
  <2>8. {} \cup ToCome(t, k) \cup Callees(m) \cup Truth = ToCome(s, k) \cup Truth
    <3>1. \A j : j \notin a + 1 .. l
      BY <1>1, <1>7
    <3>2. \A x : x \in ToCome(s, k) <=> x = m.name
      BY <3>1
    <3> QED
      BY <2>2, <2>7, <3>2
  <2>9. ~Passes(frame) /\ Wants(frame) = Sorts /\ Gives(frame) = "ptr" /\ "null" \in Sorts
    BY <2>3 DEF Passes, Wants, Gives, Sorts
  <2> HIDE DEF m
  <2> QED
    BY <1>5, <2>1, <2>2, <2>3, <2>7, <2>8, <2>9, CallsOn
<1> QED
  BY <1>6, <1>7

LEMMA CallContinues ==
  ASSUME NEW s, AtWork(s), Top(s).step = "compile", NEW n, n = Top(s).n, n.op = "call",
         NEW t, t = Gen(Popped(s), n)
  PROVE  Continues(s, t)
<1> DEFINE k == Len(s.stack)
           none == <<>>
<1>0. n \in Nodes /\ n \in NodesOf({"call"}) /\ n.args \in Seq(Nodes) /\ n.callee \in Nodes
  BY NodeAtWork, NodeIs DEF NodesOf
<1>1. ToCome(s, k) = Callees(n) /\ Sound(n) /\ Fits(s, n)
      /\ \A x : (TypeOf(n) # "stale" => x = TypeOf(n)) => Matches(s, x)
  BY NodeAtWork
<1>2. TypeOf(n) = "ptr"
  BY <1>0, TypeIs
<1>3. Matches(s, "ptr")
  BY <1>1, <1>2
<1>4. t = NextArgument(Popped(s), n, none)
  BY DEF Gen
<1>5. /\ none \in Seq(Values) /\ Len(none) = 0 /\ ToSet(none) = {}
      /\ Len(n.args) \in Nat /\ DOMAIN n.args = 1 .. Len(n.args)
  BY <1>0, LenProperties DEF ToSet
<1> HIDE DEF none
<1>6. \A x : x \in ToCome(s, k) <=>
               \/ x = n.callee.name
               \/ \E j \in Len(none) + 1 .. Len(n.args) : x \in Callees(n.args[j])
  <2>1. Under1(n) = ToSet(n.args) \cup {n.callee}
    BY DEF Under1, Parts, Arms
  <2>2. n.callee.op = "global" /\ Callees(n.callee) = {}
    BY <1>0, <1>1, LeafCallees DEF Sound
  <2>3. Callees(n) = {n.callee.name} \cup UNION { Callees(m) : m \in Under1(n) }
    BY <1>0, <2>2, CalleesIs
  <2>4. \A m : m \in ToSet(n.args) <=> \E j \in 1 .. Len(n.args) : m = n.args[j]
    BY <1>5 DEF ToSet
  <2>5. \A x : x \in Callees(n) <=>
                 x = n.callee.name \/ \E m \in ToSet(n.args) : x \in Callees(m)
    BY <2>1, <2>2, <2>3
  <2>6. Len(none) + 1 = 1
    BY <1>5
  <2> QED
    BY <1>1, <2>4, <2>5, <2>6
<1>7. Len(none) <= Len(n.args) /\ \A a \in ToSet(none) : a.type \in {"inst", "ptr"}
  BY <1>5
<1> QED
  BY <1>0, <1>1, <1>3, <1>4, <1>5, <1>6, <1>7, NextContinues

LEMMA ArgumentContinues ==
  ASSUME NEW s, AtWork(s), Top(s).step = "argument",
         NEW t, t = GenArgument(Popped(s), Top(s))
  PROVE  Continues(s, t)
<1> DEFINE k == Len(s.stack)
           n == Top(s).n
           before == Top(s).args
           args == Append(before, s.val)
<1>0. /\ Top(s) \in Frames /\ Provided(s, k) /\ s.val \in Values /\ Popped(s).val = s.val
      /\ s.val.type \in Wants(Top(s)) /\ s.stack[k] = Top(s)
  BY AtWorkIs DEF Top
<1>1. Top(s) \in ArgumentFrames
  BY <1>0, FrameIs
<1>2. n \in NodesOf({"call"}) /\ before \in Seq(Values) /\ n.args \in Seq(Nodes)
  BY <1>1, NodeIs DEF ArgumentFrames
<1>3. /\ Fits(s, n) /\ Len(before) < Len(n.args)
      /\ \A a \in ToSet(before) : a.type \in {"inst", "ptr"}
      /\ ToCome(s, k) = {n.callee.name} \cup
           UNION { Callees(n.args[j]) : j \in Len(before) + 2 .. Len(n.args) }
  BY <1>0, FrameMeans
<1>4. s.val.type \in {"inst", "ptr"}
  BY <1>0 DEF Wants
<1>5. t = NextArgument(Popped(s), n, args)
  BY <1>0 DEF GenArgument
<1>6. Matches(s, "ptr")
  BY DEF Matches, Passes, Gives
<1> HIDE DEF n, before
<1>7. args \in Seq(Values) /\ Len(args) = Len(before) + 1 /\ ToSet(args) = ToSet(before) \cup {s.val}
  BY <1>0, <1>2, AppendProperties, AppendedSet
<1>8. Len(before) \in Nat /\ Len(n.args) \in Nat
  BY <1>2, LenProperties
<1> HIDE DEF args
<1>9. \A a \in ToSet(args) : a.type \in {"inst", "ptr"}
  BY <1>3, <1>4, <1>7
<1>10. Len(args) <= Len(n.args) /\ Len(args) + 1 = Len(before) + 2
  BY <1>3, <1>7, <1>8
<1>11. \A x : x \in ToCome(s, k) <=>
                \/ x = n.callee.name
                \/ \E j \in Len(args) + 1 .. Len(n.args) : x \in Callees(n.args[j])
  BY <1>3, <1>10
<1> QED
  BY <1>2, <1>3, <1>5, <1>6, <1>7, <1>9, <1>10, <1>11, NextContinues

-----------------------------------------------------------------------------
\* Several nodes one after the other

\* From the b-th frame on, the frames of m nodes, the first of which is on top
Listed(v, nodes, t, b, m) ==
  /\ Types(t) /\ Len(t.stack) = b + m /\ b \in Nat /\ m \in Nat
  /\ \A i \in 1 .. b : t.stack[i] = v.stack[i]
  /\ \A i \in b + 1 .. b + m : t.stack[i] = Compiling(nodes[m + 1 - (i - b)])
  /\ t.val = v.val /\ t.inst = v.inst /\ t.scopes = v.scopes
  /\ t.fn = v.fn /\ t.at = v.at /\ t.blocks = v.blocks
  /\ t.crashed = v.crashed /\ t.faults = v.faults
LEMMA ListIs ==
  ASSUME NEW v, Types(v), NEW nodes \in Seq(Nodes), NEW t, t = CallAll(v, nodes),
         NEW b, b = Len(v.stack), NEW m, m = Len(nodes)
  PROVE  Listed(v, nodes, t, b, m)
<1> DEFINE fs == [ i \in 1 .. Len(nodes) |-> Compiling(nodes[Len(nodes) + 1 - i]) ]
           k == v.stack \o fs
<1>1. m \in Nat /\ v.stack \in Seq(Frames) /\ b \in Nat
  BY LenProperties DEF Types
<1>2. \A i \in 1 .. m : nodes[m + 1 - i] \in Nodes
  BY <1>1, ElementOfSeq
<1>3. fs \in Seq(Frames) /\ Len(fs) = m /\ \A i \in 1 .. m : fs[i] = Compiling(nodes[m + 1 - i])
  BY <1>1, <1>2, CompilingIs
<1>4. t = [v EXCEPT !.stack = k]
  BY DEF CallAll
<1> HIDE DEF fs
<1>0. /\ k \in Seq(Frames) /\ Len(k) = Len(v.stack) + Len(fs)
      /\ \A i \in 1 .. Len(v.stack) + Len(fs) : k[i] =
           IF i <= Len(v.stack) THEN v.stack[i] ELSE fs[i - Len(v.stack)]
  BY <1>1, <1>3, ConcatProperties
<1> HIDE DEF k
<1>5. /\ k \in Seq(Frames) /\ Len(k) = b + m
      /\ \A i \in 1 .. b + m : k[i] = IF i <= b THEN v.stack[i] ELSE fs[i - b]
  BY <1>0, <1>3
<1>6. /\ t.stack = k /\ t.val = v.val /\ t.inst = v.inst /\ t.scopes = v.scopes
      /\ t.fn = v.fn /\ t.at = v.at /\ t.blocks = v.blocks
      /\ t.crashed = v.crashed /\ t.faults = v.faults
  BY <1>4 DEF Types, Fresh
<1>7. Types(t)
  BY CallAllIs
<1>8. \A i \in 1 .. b : t.stack[i] = v.stack[i]
  BY <1>1, <1>5, <1>6
<1>9. \A i \in b + 1 .. b + m : t.stack[i] = Compiling(nodes[m + 1 - (i - b)])
  <2> TAKE i \in b + 1 .. b + m
  <2>1. i \in 1 .. b + m /\ ~(i <= b) /\ i - b \in 1 .. m
    BY <1>1
  <2>2. t.stack[i] = fs[i - b]
    BY <1>5, <1>6, <2>1
  <2> QED
    BY <1>3, <2>1, <2>2
<1> QED
  BY <1>1, <1>5, <1>6, <1>7, <1>8, <1>9 DEF Listed

\* What they mean
Carried(nodes, t, b, m) ==
  /\ \A i \in b + 1 .. b + m :
       /\ Provided(t, i) /\ ToCome(t, i) = Callees(nodes[m + 1 - (i - b)])
       /\ \A x : Arrives(t, i + 1, x) => x \in Wants(t.stack[i])
  /\ \A x : Arrives(t, b + 1, x) <=> x = IF m = 0 THEN t.val.type ELSE TypeOf(nodes[m])
  /\ \A x : (\E i \in b + 1 .. b + m : x \in ToCome(t, i))
              <=> \E j \in 1 .. m : x \in Callees(nodes[j])
LEMMA ListMeans ==
  ASSUME NEW v, Types(v), NEW nodes \in Seq(Nodes),
         \A j \in 1 .. Len(nodes) : Fits(v, nodes[j]),
         NEW t, NEW b, NEW m, Listed(v, nodes, t, b, m), m = Len(nodes)
  PROVE  Carried(nodes, t, b, m)
<1>0. b \in Nat /\ m \in Nat
  BY DEF Listed
<1>1. /\ Types(t) /\ Len(t.stack) = b + m /\ b \in Nat /\ m \in Nat
      /\ \A i \in b + 1 .. b + m : t.stack[i] = Compiling(nodes[m + 1 - (i - b)])
      /\ t.scopes = v.scopes
  BY DEF Listed
<1>2. \A j \in 1 .. m : nodes[j] \in Nodes /\ nodes[j].op # "function" /\ Fits(t, nodes[j])
  <2> TAKE j \in 1 .. m
  <2>1. nodes[j] \in Nodes /\ Fits(v, nodes[j])
    BY <1>1, ElementOfSeq
  <2>2. Fits(t, nodes[j])
    BY <1>1, <2>1 DEF Fits, Pushed
  <2>3. nodes[j].op # "function"
    BY <2>1, SupportedParts DEF Fits, Sound
  <2> QED
    BY <2>1, <2>2, <2>3
<1>3. \A n : /\ Compiling(n).step = "compile" /\ Compiling(n).n = n /\ ~Passes(Compiling(n))
             /\ Gives(Compiling(n)) = TypeOf(n) /\ Wants(Compiling(n)) = Sorts
  BY DEF Compiling, Passes, Gives, Wants, Sorts
<1>4. \A i \in b + 1 .. b + m :
        /\ i \in Nat /\ m + 1 - (i - b) \in 1 .. m
        /\ ~Passes(t.stack[i]) /\ Gives(t.stack[i]) = TypeOf(nodes[m + 1 - (i - b)])
        /\ Gives(t.stack[i]) \in Sorts
        /\ Provided(t, i) /\ ToCome(t, i) = Callees(nodes[m + 1 - (i - b)])
  <2> TAKE i \in b + 1 .. b + m
  <2> DEFINE n == nodes[m + 1 - (i - b)]
  <2>1. i \in Nat /\ m + 1 - (i - b) \in 1 .. m
    BY <1>1
  <2>2. t.stack[i] = Compiling(n) /\ n.op # "function" /\ Fits(t, n) /\ n \in Nodes
    BY <1>1, <1>2, <2>1
  <2> HIDE DEF n
  <2>3. Provided(t, i) /\ ToCome(t, i) = Callees(n)
    BY <2>2, CompilingMeans
  <2>4. TypeOf(n) \in Sorts
    BY <2>2, TypeIs DEF Sorts
  <2> QED
    BY <1>3, <2>1, <2>2, <2>3, <2>4 DEF n
<1>5. t.val.type \in Sorts
  BY <1>1 DEF Types, Values, Sorts
<1>6. \A lo \in Nat \ {0} :
        /\ lo > b + m => \A x : Arrives(t, lo, x) <=> x = t.val.type
        /\ lo \in b + 1 .. b + m => \A x : Arrives(t, lo, x) <=> x = Gives(t.stack[lo])
  <2> TAKE lo \in Nat \ {0}
  <2>1. Len(t.stack) = b + m /\ Len(t.stack) \in Nat
    BY <1>1
  <2>2. CASE lo > b + m
    <3>1. \A x : Arrives(t, lo, x) <=> x = t.val.type
      BY <2>1, <2>2, ArrivesIs
    <3> QED
      BY <1>0, <2>2, <3>1
  <2>3. CASE lo \in b + 1 .. b + m
    <3>0. lo <= Len(t.stack)
      BY <1>0, <2>1, <2>3
    <3>1. lo <= Len(t.stack) /\ ~Passes(t.stack[lo])
      BY <1>4, <2>3, <3>0
    <3>2. \A x : Arrives(t, lo, x) <=> x = Gives(t.stack[lo])
      BY <2>1, <3>1, ArrivesIs
    <3> QED
      BY <1>0, <2>3, <3>2
  <2> QED
    BY <2>2, <2>3
<1>7. \A i \in b + 1 .. b + m : \A x : Arrives(t, i + 1, x) => x \in Wants(t.stack[i])
  <2> TAKE i \in b + 1 .. b + m
  <2> DEFINE lo == i + 1
  <2>1. lo \in Nat \ {0} /\ (lo > b + m \/ lo \in b + 1 .. b + m)
    BY <1>0
  <2> HIDE DEF lo
  <2>2. \A x : Arrives(t, lo, x) => x \in Sorts
    <3>1. lo \in b + 1 .. b + m => Gives(t.stack[lo]) \in Sorts
      BY <1>4
    <3> QED
      BY <1>5, <1>6, <2>1, <3>1
  <2>3. Wants(t.stack[i]) = Sorts
    BY <1>1, <1>3
  <2> QED
    BY <2>2, <2>3 DEF lo
<1>8. \A x : Arrives(t, b + 1, x) <=> x = IF m = 0 THEN t.val.type ELSE TypeOf(nodes[m])
  <2> DEFINE lo == b + 1
  <2>1. lo \in Nat \ {0} /\ (m = 0 => lo > b + m)
        /\ (m # 0 => lo \in b + 1 .. b + m /\ m + 1 - (lo - b) = m)
    BY <1>0
  <2> HIDE DEF lo
  <2>2. m # 0 => Gives(t.stack[lo]) = TypeOf(nodes[m])
    BY <1>4, <2>1
  <2>3. \A x : Arrives(t, lo, x) <=> x = IF m = 0 THEN t.val.type ELSE TypeOf(nodes[m])
    BY <1>6, <2>1, <2>2
  <2> QED
    BY <2>3 DEF lo
<1>9. \A x : (\E i \in b + 1 .. b + m : x \in ToCome(t, i))
               <=> \E j \in 1 .. m : x \in Callees(nodes[j])
  <2>1. \A j \in 1 .. m : b + (m + 1 - j) \in b + 1 .. b + m
                          /\ m + 1 - ((b + (m + 1 - j)) - b) = j
    BY <1>1
  <2>2. ASSUME NEW x, NEW j \in 1 .. m, x \in Callees(nodes[j])
        PROVE  \E i \in b + 1 .. b + m : x \in ToCome(t, i)
    BY <1>4, <2>1, <2>2
  <2>3. ASSUME NEW x, NEW i \in b + 1 .. b + m, x \in ToCome(t, i)
        PROVE  \E j \in 1 .. m : x \in Callees(nodes[j])
    BY <1>4, <2>3
  <2> QED
    BY <2>2, <2>3
<1> QED
  BY <1>4, <1>7, <1>8, <1>9 DEF Carried

\* A handler that calls compile of several nodes
LEMMA CallsAll ==
  ASSUME NEW s, AtWork(s), ~(Top(s).step = "compile" /\ Top(s).n.op = "global"),
         NEW u, NEW names, Emitted(s, u, names),
         NEW nodes \in Seq(Nodes), \A j \in 1 .. Len(nodes) : Fits(u, nodes[j]),
         NEW t, t = CallAll(u, nodes),
         Len(nodes) = 0 => Matches(s, u.val.type),
         Len(nodes) # 0 => Matches(s, TypeOf(nodes[Len(nodes)])),
         \A x : x \in names \/ (\E j \in 1 .. Len(nodes) : x \in Callees(nodes[j])) \/ x \in Truth
                  <=> x \in ToCome(s, Len(s.stack)) \/ x \in Truth
  PROVE  Continues(s, t)
<1> DEFINE k == Len(s.stack)
           m == Len(nodes)
           b == k - 1
<1>1. /\ k \in Nat /\ k >= 3 /\ Len(u.stack) = b
      /\ \A i \in 1 .. b : u.stack[i] = s.stack[i]
      /\ Popped(s).crashed = s.crashed /\ Popped(s).faults = s.faults
  BY AtWorkIs DEF AtWork, Emitted
<1>2. Ready(u) /\ Works(Popped(s), u, names) /\ Types(u) /\ b = Len(u.stack)
  BY <1>1, RecReady DEF Emitted, Works
<1> HIDE DEF m
<1>3. Listed(u, nodes, t, b, m)
  BY <1>2, ListIs DEF m
<1>4. /\ Types(t) /\ Len(t.stack) = b + m /\ b \in Nat /\ m \in Nat
      /\ \A i \in 1 .. b : t.stack[i] = u.stack[i]
      /\ t.val = u.val /\ t.scopes = u.scopes /\ t.fn = u.fn /\ t.at = u.at
      /\ t.blocks = u.blocks /\ t.crashed = u.crashed /\ t.faults = u.faults
  BY <1>3 DEF Listed
<1>5. Carried(nodes, t, b, m)
  BY <1>2, <1>3, ListMeans DEF m
<1>6. /\ \A i \in b + 1 .. b + m :
           /\ Provided(t, i)
           /\ \A x : Arrives(t, i + 1, x) => x \in Wants(t.stack[i])
      /\ \A x : Arrives(t, b + 1, x) <=> x = IF m = 0 THEN t.val.type ELSE TypeOf(nodes[m])
      /\ \A x : (\E i \in b + 1 .. b + m : x \in ToCome(t, i))
                  <=> \E j \in 1 .. m : x \in Callees(nodes[j])
  BY <1>5 DEF Carried
<1>7. b + 1 = k /\ Above(s, t) = b + 1 .. b + m
  BY <1>1, <1>4 DEF Above
<1>8. Works(Popped(s), t, names)
  BY <1>2, <1>4, WorksLike, WorksOn
<1>9. Under(s, t)
  BY <1>1, <1>4 DEF Under
<1>10. Pushed(s) \subseteq Pushed(t)
  BY <1>4 DEF Pushed, Emitted
<1>11. \A x : Arrives(t, k, x) => Matches(s, x)
  BY <1>4, <1>6, <1>7 DEF m
<1> DEFINE A == Above(s, t)
           come == UNION { ToCome(t, i) : i \in A }
<1>12. names \cup come \cup Truth = ToCome(s, k) \cup Truth
  <2> HIDE DEF A, k, b
  <2>1. \A x : x \in come <=> \E i \in A : x \in ToCome(t, i)
    OBVIOUS
  <2> HIDE DEF come
  <2>2. \A x : x \in come <=> \E j \in 1 .. m : x \in Callees(nodes[j])
    BY <1>6, <1>7, <2>1 DEF A
  <2>3. \A x : x \in names \/ x \in come \/ x \in Truth <=> x \in ToCome(s, k) \/ x \in Truth
    BY <2>2 DEF m, k
  <2> QED
    BY <2>3
<1>13. \A i \in Above(s, t) :
         Provided(t, i) /\ \A x : Arrives(t, i + 1, x) => x \in Wants(t.stack[i])
  BY <1>6, <1>7
<1>14. s.stack[k - 1].step # "callee"
  BY NotACallee
<1>15. WorkedOn(t)
  BY <1>4, <1>8, <1>9, <1>10, <1>11, <1>12, <1>13, <1>14, Carries
<1> QED
  BY <1>1, <1>8, <1>15 DEF Continues, Works

\* One that leaves a frame first
LEMMA CallsAllOn ==
  ASSUME NEW s, AtWork(s), ~(Top(s).step = "compile" /\ Top(s).n.op = "global"),
         NEW u, NEW names, Emitted(s, u, names), NEW frame \in Frames,
         NEW nodes \in Seq(Nodes), \A j \in 1 .. Len(nodes) : Fits(u, nodes[j]),
         NEW t, t = CallAll(Call(u, frame), nodes), Provided(t, Len(s.stack)),
         Len(nodes) = 0 => ~Passes(frame) /\ Wants(frame) = Sorts,
         Len(nodes) # 0 => TypeOf(nodes[Len(nodes)]) \in Wants(frame),
         Matches(s, IF Passes(frame) THEN TypeOf(nodes[Len(nodes)]) ELSE Gives(frame)),
         \A x : (\/ x \in names \/ x \in ToCome(t, Len(s.stack))
                 \/ (\E j \in 1 .. Len(nodes) : x \in Callees(nodes[j])) \/ x \in Truth)
                  <=> x \in ToCome(s, Len(s.stack)) \/ x \in Truth
  PROVE  Continues(s, t)
<1> DEFINE k == Len(s.stack)
           m == Len(nodes)
           v == Call(u, frame)
<1>1. /\ k \in Nat /\ k >= 3 /\ Len(u.stack) = k - 1
      /\ \A i \in 1 .. k - 1 : u.stack[i] = s.stack[i]
      /\ Popped(s).crashed = s.crashed /\ Popped(s).faults = s.faults
  BY AtWorkIs DEF AtWork, Emitted
<1>2. Ready(u) /\ Works(Popped(s), u, names) /\ Types(u) /\ Rec(u)
  BY <1>1, RecReady DEF Emitted, Works
<1>3. /\ Types(v) /\ Len(v.stack) = k /\ v.stack[k] = frame
      /\ \A i \in 1 .. k - 1 : v.stack[i] = s.stack[i]
  <2>1. /\ Types(v) /\ OnTop(u, v) /\ Len(v.stack) = Len(u.stack) + 1
        /\ v.stack[Len(u.stack) + 1] = frame
    BY <1>2, CallFrame
  <2>2. Len(u.stack) + 1 = k
    BY <1>1
  <2> QED
    BY <1>1, <2>1, <2>2 DEF OnTop
<1>4. /\ v.val = u.val /\ v.scopes = u.scopes /\ v.fn = u.fn /\ v.at = u.at
      /\ v.blocks = u.blocks /\ v.crashed = u.crashed /\ v.faults = u.faults
  BY <1>2 DEF Call, Rec, Fresh
<1>5. t = CallAll(v, nodes)
  OBVIOUS
<1> HIDE DEF m, v
<1>6. Listed(v, nodes, t, k, m)
  BY <1>3, <1>5, ListIs DEF m
<1>7. /\ Types(t) /\ Len(t.stack) = k + m /\ m \in Nat
      /\ \A i \in 1 .. k : t.stack[i] = v.stack[i]
      /\ t.val = v.val /\ t.scopes = v.scopes /\ t.fn = v.fn /\ t.at = v.at
      /\ t.blocks = v.blocks /\ t.crashed = v.crashed /\ t.faults = v.faults
  BY <1>6 DEF Listed
<1>8. \A j \in 1 .. m : Fits(v, nodes[j])
  BY <1>4 DEF Fits, Pushed, m
<1>9. Carried(nodes, t, k, m)
  BY <1>3, <1>6, <1>8, ListMeans DEF m
<1>10. /\ \A i \in k + 1 .. k + m :
            /\ Provided(t, i)
            /\ \A x : Arrives(t, i + 1, x) => x \in Wants(t.stack[i])
       /\ \A x : Arrives(t, k + 1, x) <=> x = IF m = 0 THEN t.val.type ELSE TypeOf(nodes[m])
       /\ \A x : (\E i \in k + 1 .. k + m : x \in ToCome(t, i))
                   <=> \E j \in 1 .. m : x \in Callees(nodes[j])
  BY <1>9 DEF Carried
<1>11. t.stack[k] = frame
  <2>1. k \in 1 .. k
    BY <1>1
  <2> QED
    BY <1>3, <1>7, <2>1
<1>12. \A i : i \in Above(s, t) <=> i = k \/ i \in k + 1 .. k + m
  BY <1>1, <1>7 DEF Above
<1>13. Works(Popped(s), t, names)
  BY <1>2, <1>4, <1>7, WorksLike, WorksOn
<1>14. Under(s, t)
  <2>1. \A i \in 1 .. k - 1 : i \in 1 .. k
    BY <1>1
  <2>2. \A i \in 1 .. k - 1 : t.stack[i] = s.stack[i]
    BY <1>3, <1>7, <2>1
  <2>3. Len(t.stack) >= k - 1
    BY <1>1, <1>7
  <2> QED
    BY <1>1, <2>2, <2>3 DEF Under
<1>15. Pushed(s) \subseteq Pushed(t)
  BY <1>4, <1>7 DEF Pushed, Emitted
<1>16. t.val.type \in Sorts
  BY <1>7 DEF Types, Values, Sorts
<1>17. \A x : Arrives(t, k + 1, x) => x \in Wants(frame)
  BY <1>10, <1>16 DEF m
<1>18. \A x : Arrives(t, k, x) => Matches(s, x)
  <2>1. k \in Nat \ {0} /\ k <= Len(t.stack) /\ Len(t.stack) \in Nat
    BY <1>1, <1>7
  <2>2. CASE Passes(frame)
    <3>1. \A x : Arrives(t, k, x) <=> Arrives(t, k + 1, x)
      BY <1>11, <2>1, <2>2, ArrivesIs
    <3>2. m # 0
      BY <2>2 DEF m
    <3> QED
      BY <1>10, <2>2, <3>1, <3>2 DEF m
  <2>3. CASE ~Passes(frame)
    <3>1. \A x : Arrives(t, k, x) <=> x = Gives(frame)
      BY <1>11, <2>1, <2>3, ArrivesIs
    <3> QED
      BY <2>3, <3>1
  <2> QED
    BY <2>2, <2>3
<1> DEFINE A == Above(s, t)
           come == UNION { ToCome(t, i) : i \in A }
<1>19. names \cup come \cup Truth = ToCome(s, k) \cup Truth
  <2> HIDE DEF A, k
  <2>1. \A x : x \in come <=> \E i \in A : x \in ToCome(t, i)
    OBVIOUS
  <2> HIDE DEF come
  <2> DEFINE B == k + 1 .. k + m
  <2>4. /\ \A i : i \in A <=> i = k \/ i \in B
        /\ \A x : (\E i \in B : x \in ToCome(t, i)) <=> \E j \in 1 .. m : x \in Callees(nodes[j])
    BY <1>10, <1>12 DEF A
  <2> HIDE DEF B
  <2>2. \A x : x \in come <=> x \in ToCome(t, k) \/ \E j \in 1 .. m : x \in Callees(nodes[j])
    BY <2>1, <2>4
  <2>3. \A x : x \in names \/ x \in come \/ x \in Truth <=> x \in ToCome(s, k) \/ x \in Truth
    BY <2>2 DEF m, k
  <2> QED
    BY <2>3
<1>20. \A i \in Above(s, t) :
         Provided(t, i) /\ \A x : Arrives(t, i + 1, x) => x \in Wants(t.stack[i])
  BY <1>10, <1>11, <1>12, <1>17
<1>21. s.stack[k - 1].step # "callee"
  BY NotACallee
<1>22. WorkedOn(t)
  BY <1>7, <1>13, <1>14, <1>15, <1>18, <1>19, <1>20, <1>21, Carries
<1> QED
  BY <1>1, <1>13, <1>22 DEF Continues, Works

LEMMA PushBlockWorks ==
  ASSUME NEW p, Ready(p), NEW n \in NodesOf({"do"})
  PROVE  /\ Works(p, PushBlock(p, n), {}) /\ PushBlock(p, n).stack = p.stack
         /\ n.slots > 0 => Yields(PushBlock(p, n), "ptr")
<1> DEFINE loc == IF n.slots > 0 THEN Result(p, "ptr") ELSE NoValue
           e == [scope |-> n.scope, value |-> loc]
           scopes == Append(p.scopes, e)
           u == [p EXCEPT !.scopes = scopes]
           ins == Instruction("alloca", <<>>, <<>>)
<1>0. Types(p) /\ Exists(p, p.at) /\ Rec(p)
  BY RecReady
<1>1. loc \in Values
  BY <1>0, ResultIs, Constants
<1>2. PushBlock(p, n) = IF n.slots = 0 THEN u ELSE EmitReturned(u, "ptr", ins)
  BY DEF PushBlock
<1>3. n.scope \in Names /\ n.slots \in Nat
  BY NodeIs DEF Names
<1> HIDE DEF loc
<1>4. e \in Scopes
  BY <1>1, <1>3 DEF Scopes
<1> HIDE DEF e
<1>5. Types(u) /\ Extended(p, u)
  BY <1>0, <1>4, ScopesIs
<1>6. /\ u.stack = p.stack /\ u.fn = p.fn /\ u.at = p.at /\ u.blocks = p.blocks
      /\ u.crashed = p.crashed /\ u.faults = p.faults
  BY <1>0 DEF Rec, Fresh
<1> HIDE DEF u
<1>7. Works(p, u, {})
  BY <1>5, <1>6, WorksLike
<1>8. Ready(u)
  BY <1>7 DEF Works
<1>9. ins \in Instructions /\ ins.op # "call"
  BY DEF Instruction, Instructions, Names
<1> HIDE DEF ins
<1>10. /\ Works(u, EmitReturned(u, "ptr", ins), {}) /\ Yields(EmitReturned(u, "ptr", ins), "ptr")
       /\ EmitReturned(u, "ptr", ins).stack = u.stack
  BY <1>8, <1>9, KindsAre, EmitReturnedWorks
<1>11. Works(p, EmitReturned(u, "ptr", ins), {})
  BY <1>7, <1>10, WorksOn
<1>12. n.slots > 0 => n.slots # 0
  BY <1>3
<1> QED
  BY <1>2, <1>6, <1>7, <1>10, <1>11, <1>12

LEMMA DoContinues ==
  ASSUME NEW s, AtWork(s), Top(s).step = "compile", NEW n, n = Top(s).n, n.op = "do",
         NEW t, t = Gen(Popped(s), n)
  PROVE  Continues(s, t)
<1> DEFINE p == Popped(s)
           u == PushBlock(p, n)
           nodes == n.statements
           k == Len(s.stack)
           m == Len(nodes)
<1>0. n \in Nodes /\ n \in NodesOf({"do"}) /\ nodes \in Seq(Nodes) /\ n.slots \in Nat
  BY NodeAtWork, NodeIs DEF NodesOf
<1>1. /\ ToCome(s, k) = Callees(n) /\ Fits(s, n)
      /\ \A x : (TypeOf(n) # "stale" => x = TypeOf(n)) => Matches(s, x)
  BY NodeAtWork
<1>2. Ready(p) /\ Types(p) /\ p.scopes = s.scopes /\ Scoped(s)
  BY AtWorkIs DEF AtWork
<1>3. /\ Works(p, u, {}) /\ u.stack = p.stack /\ (n.slots > 0 => Yields(u, "ptr"))
      /\ Blames(p, u) /\ (n.slots > 0 => n.scope \in Pushed(u))
  <2>1. Scoped(p)
    BY <1>2 DEF Scoped
  <2> HIDE DEF p
  <2> QED
    BY <1>0, <1>2, <2>1, PushBlockWorks, BlamesPushBlock
<1>4. Pushed(s) \subseteq Pushed(u)
  <2>1. Scoped(p) /\ Pushed(p) = Pushed(s)
    BY <1>2, EmittedNothing DEF Scoped
  <2>2. Pushed(p) \subseteq Pushed(u)
    BY <1>3, <2>1 DEF Blames
  <2> QED
    BY <2>1, <2>2
<1>5. Emitted(s, u, {})
  BY <1>3, <1>4 DEF Emitted
<1>6. t = CallAll(u, nodes)
  BY DEF Gen
<1> HIDE DEF p, u
<1>7. m \in Nat /\ DOMAIN nodes = 1 .. m
  BY <1>0, LenProperties
<1>8. \A x : x \in ToSet(nodes) <=> \E j \in 1 .. m : x = nodes[j]
  BY <1>7 DEF ToSet
<1>9. Under1(n) = ToSet(nodes)
  BY DEF Under1, Parts, Arms
<1>10. \A j \in 1 .. m : Fits(u, nodes[j])
  <2>1. \A x \in Under1(n) : Fits(u, x)
    BY <1>0, <1>1, <1>3, <1>4, PartFits
  <2> QED
    BY <1>8, <1>9, <2>1
<1>11. \A x : x \in ToCome(s, k) <=> \E j \in 1 .. m : x \in Callees(nodes[j])
  <2>1. Callees(n) = UNION { Callees(j) : j \in Under1(n) }
    BY <1>0, CalleesIs
  <2>2. \A x : x \in Callees(n) <=> \E j \in ToSet(nodes) : x \in Callees(j)
    BY <1>9, <2>1
  <2> QED
    BY <1>1, <1>8, <2>2
<1>12. m # 0 => Matches(s, TypeOf(nodes[m]))
  <2>1. m # 0 => nodes # <<>> /\ Last(nodes) = nodes[m]
    BY DEF Last
  <2>2. m # 0 => TypeOf(n) = TypeOf(nodes[m])
    BY <1>0, <2>1, TypeIs
  <2> QED
    BY <1>1, <2>2
<1>13. m = 0 => Matches(s, u.val.type)
  <2>1. m = 0 => nodes = <<>>
    BY <1>0, EmptySeq
  <2>2. m = 0 => (n.slots > 0 => TypeOf(n) = "ptr") /\ (~(n.slots > 0) => TypeOf(n) = "stale")
    BY <1>0, <2>1, TypeIs
  <2>3. n.slots > 0 => u.val.type = "ptr"
    BY <1>3 DEF Yields
  <2> QED
    BY <1>1, <2>2, <2>3
<1>14. \A x : x \in {} \/ (\E j \in 1 .. m : x \in Callees(nodes[j])) \/ x \in Truth
                <=> x \in ToCome(s, k) \/ x \in Truth
  BY <1>11
<1> HIDE DEF nodes
<1>15. ~(Top(s).step = "compile" /\ Top(s).n.op = "global")
  OBVIOUS
<1> QED
  BY <1>0, <1>5, <1>6, <1>10, <1>12, <1>13, <1>14, <1>15, CallsAll

LEMMA VariableContinues ==
  ASSUME NEW s, AtWork(s), Top(s).step = "compile", NEW n, n = Top(s).n, n.op = "variable",
         NEW t, t = Gen(Popped(s), n)
  PROVE  Continues(s, t)
<1> DEFINE p == Popped(s)
           nodes == n.init
           k == Len(s.stack)
           m == Len(nodes)
           frame == [step |-> "assign", to |-> ScopeValue(p, n.scope)]
<1>0. n \in Nodes /\ n \in NodesOf({"variable"}) /\ nodes \in Seq(Nodes)
  BY NodeAtWork, NodeIs DEF NodesOf
<1>1. /\ ToCome(s, k) = Callees(n) /\ Sound(n)
      /\ \A x : (TypeOf(n) # "stale" => x = TypeOf(n)) => Matches(s, x)
      /\ \A j \in Under1(n) : j \in Nodes /\ Fits(s, j)
  BY NodeAtWork
<1>2. Ready(p) /\ p.scopes = s.scopes
  BY AtWorkIs
<1>3. Emitted(s, p, {}) /\ Pushed(p) = Pushed(s)
  BY EmittedNothing
<1>4. ScopeValue(p, n.scope) \in Values /\ ScopeValue(p, n.scope).type = "ptr"
  BY BoundAtWork
<1>5. frame \in Frames /\ frame.step = "assign" /\ frame.to.type = "ptr"
  BY <1>4, StoreFrameIs
<1>6. t = IF nodes = <<>> THEN Returned(p, NoValue) ELSE CallAll(Call(p, frame), nodes)
  BY DEF Gen, GenVariable
<1> HIDE DEF p, frame
<1>7. m \in Nat /\ DOMAIN nodes = 1 .. m /\ m <= 1
  BY <1>0, LenProperties, AnalysisAssumption DEF Analysis
<1>8. \A x : x \in ToSet(nodes) <=> \E j \in 1 .. m : x = nodes[j]
  BY <1>7 DEF ToSet
<1>9. Under1(n) = ToSet(nodes)
  BY DEF Under1, Parts, Arms
<1>10. \A x : x \in ToCome(s, k) <=> \E j \in 1 .. m : x \in Callees(nodes[j])
  <2>1. Callees(n) = UNION { Callees(j) : j \in Under1(n) }
    BY <1>0, CalleesIs
  <2>2. \A x : x \in Callees(n) <=> \E j \in ToSet(nodes) : x \in Callees(j)
    BY <1>9, <2>1
  <2> QED
    BY <1>1, <1>8, <2>2
<1>11. CASE nodes = <<>>
  <2>1. Works(p, t, {}) /\ t.val = NoValue /\ t.stack = p.stack
    BY <1>2, <1>6, <1>11, ReturnedWorks, Constants
  <2>2. Pushed(t) = Pushed(s)
    BY <1>2, <1>6, <1>11, RecReady DEF Pushed, Returned, Rec, Fresh
  <2>3. Emitted(s, t, {})
    BY <2>1, <2>2 DEF Emitted, p
  <2>4. TypeOf(n) = "null"
    BY <1>0, <1>11, TypeIs
  <2>5. t.val.type = "null"
    BY <2>1 DEF NoValue
  <2>6. Matches(s, t.val.type)
    BY <1>1, <2>4, <2>5
  <2>7. m = 0
    BY <1>11
  <2>8. ToCome(s, k) = {}
    BY <1>7, <1>10, <2>7
  <2> QED
    BY <2>3, <2>6, <2>8, Leaves
<1>12. CASE nodes # <<>>
  <2>1. t = CallAll(Call(p, frame), nodes)
    BY <1>6, <1>12
  <2>2. m = 1
    <3>1. nodes \in Seq(Nodes) /\ nodes # <<>>
      BY <1>0, <1>12
    <3> HIDE DEF nodes
    <3>2. Len(nodes) \in Nat \ {0}
      BY <3>1, EmptySeq
    <3> QED
      BY <1>7, <3>2
  <2>3. TypeOf(n) = TypeOf(nodes[m]) /\ TypeOf(nodes[m]) \in {"inst", "ptr"}
    <3>1. TypeOf(n) = TypeOf(nodes[1])
      BY <1>0, <1>12, TypeIs
    <3>2. nodes[1] \in ToSet(nodes)
      BY <1>7, <1>8, <2>2
    <3> QED
      BY <1>1, <2>2, <3>1, <3>2 DEF Sound, Instance
  <2>4. \A j \in 1 .. m : Fits(p, nodes[j])
    BY <1>1, <1>3, <1>8, <1>9 DEF Fits
  <2>5. t.stack[k] = frame
    <3>1. k \in Nat /\ k >= 3 /\ Len(p.stack) = k - 1 /\ Types(p)
      BY AtWorkIs DEF AtWork, p
    <3>2. Types(Call(p, frame)) /\ Len(Call(p, frame).stack) = k
          /\ Call(p, frame).stack[k] = frame
      BY <1>5, <3>1, CallFrame
    <3> DEFINE v == Call(p, frame)
    <3> HIDE DEF v
    <3>3. Types(v) /\ Len(v.stack) = k /\ v.stack[k] = frame /\ t = CallAll(v, nodes)
      BY <2>1, <3>2 DEF v
    <3> HIDE DEF m
    <3>4. Listed(v, nodes, t, k, m)
      BY <1>0, <3>3, ListIs DEF m
    <3> QED
      BY SMTT(30), <3>1, <3>3, <3>4 DEF Listed
  <2>6. Provided(t, k) /\ ToCome(t, k) = {}
    BY <1>5, <2>5, FrameMeans
  <2>7. Passes(frame) /\ Wants(frame) = {"inst", "ptr"}
    BY <1>5 DEF Passes, Wants
  <2>8. Matches(s, IF Passes(frame) THEN TypeOf(nodes[m]) ELSE Gives(frame))
    BY <1>1, <2>3, <2>7
  <2>9. TypeOf(nodes[m]) \in Wants(frame)
    BY <2>3, <2>7
  <2>10. \A x : (\/ x \in {} \/ x \in ToCome(t, k)
                 \/ (\E j \in 1 .. m : x \in Callees(nodes[j])) \/ x \in Truth)
                  <=> x \in ToCome(s, k) \/ x \in Truth
    BY <1>10, <2>6
  <2>11. m # 0
    BY <2>2
  <2> HIDE DEF m
  <2> QED
    BY <1>0, <1>3, <1>5, <2>1, <2>4, <2>6, <2>8, <2>9, <2>10, <2>11, CallsAllOn DEF m
<1> QED
  BY <1>11, <1>12

-----------------------------------------------------------------------------
\* Stores, and calls once their callee is compiled

LEMMA EmittedOn ==
  ASSUME NEW s, AtWork(s), NEW u, NEW names, Works(Popped(s), u, names),
         u.stack = Popped(s).stack, Blames(Popped(s), u)
  PROVE  Emitted(s, u, names)
<1>1. Popped(s).scopes = s.scopes /\ Scoped(s)
  BY AtWorkIs DEF AtWork
<1>2. Scoped(Popped(s)) /\ Pushed(Popped(s)) = Pushed(s)
  BY <1>1, EmittedNothing DEF Scoped
<1>3. Pushed(Popped(s)) \subseteq Pushed(u)
  BY <1>2 DEF Blames
<1> QED
  BY <1>2, <1>3 DEF Emitted

LEMMA StoreWorks ==
  ASSUME NEW s, AtWork(s), Top(s).step \in {"assign", "bind"}, s.val # NoValue,
         NEW t, t = GenStore(Popped(s), Top(s))
  PROVE  Emitted(s, t, {}) /\ t.val = s.val
<1> DEFINE p == Popped(s)
           dest == Top(s).to
           k == Len(s.stack)
<1>1. /\ Top(s) \in Frames /\ Provided(s, k) /\ s.val \in Values /\ p.val = s.val
      /\ s.val.type \in Wants(Top(s)) /\ s.stack[k] = Top(s) /\ Ready(p) /\ Rec(p)
  BY AtWorkIs DEF Top
<1>2. dest \in Values /\ dest.type = "ptr"
  BY <1>1, FrameIs, FrameMeans DEF StoreFrames
<1>3. s.val.type # "bool"
  BY <1>1 DEF Wants
<1>4. t = GenInstanceAssign(p, dest, p.val)
  BY DEF GenStore
<1>5. Blames(p, t)
  BY <1>1, <1>4, BlamesItself, BlamesEmissionOn
<1> HIDE DEF p
<1>6. Works(p, t, {}) /\ t.val = p.val /\ t.stack = p.stack
  BY <1>1, <1>2, <1>3, <1>4, GenInstanceAssignWorks
<1> QED
  BY <1>1, <1>5, <1>6, EmittedOn DEF p

LEMMA StoreContinues ==
  ASSUME NEW s, AtWork(s), Top(s).step = "assign", NEW t, t = GenStore(Popped(s), Top(s))
  PROVE  Continues(s, t)
<1> DEFINE k == Len(s.stack)
<1>1. s.val.type \in Wants(Top(s)) /\ s.stack[k] = Top(s)
  BY AtWorkIs DEF Top
<1>2. s.val # NoValue
  BY <1>1 DEF Wants, NoValue
<1>3. Emitted(s, t, {}) /\ t.val = s.val
  BY <1>2, StoreWorks
<1>4. Matches(s, t.val.type)
  BY <1>3 DEF Matches, Passes
<1>5. ToCome(s, k) = {}
  BY <1>1, FrameMeans
<1> QED
  BY <1>3, <1>4, <1>5, Leaves

LEMMA BindContinues ==
  ASSUME NEW s, AtWork(s), Top(s).step = "bind", NEW t, t = GenBind(Popped(s), Top(s))
  PROVE  Continues(s, t)
<1> DEFINE k == Len(s.stack)
<1>1. s.stack[k] = Top(s) /\ Popped(s).val = s.val
  BY AtWorkIs DEF Top
<1>2. t = IF s.val = NoValue THEN Popped(s) ELSE GenStore(Popped(s), Top(s))
  BY <1>1 DEF GenBind
<1>3. Emitted(s, t, {}) /\ t.val = s.val
  BY <1>1, <1>2, StoreWorks, EmittedNothing
<1>4. Matches(s, t.val.type)
  BY <1>3 DEF Matches, Passes
<1>5. ToCome(s, k) = {}
  BY <1>1, FrameMeans
<1> QED
  BY <1>3, <1>4, <1>5, Leaves

LEMMA CallFrameContinues ==
  ASSUME NEW s, AtWork(s), Top(s).step = "call", NEW t, t = GenFunctionCall(Popped(s), Top(s))
  PROVE  Continues(s, t)
<1> DEFINE k == Len(s.stack)
           p == Popped(s)
           f == Top(s).f
           args == Top(s).args
           u == [p EXCEPT !.faults = @]
<1>1. /\ Top(s) \in Frames /\ Provided(s, k) /\ s.stack[k] = Top(s) /\ Ready(p) /\ Rec(p)
      /\ program \in Programs
  BY AtWorkIs DEF Top, AtWork
<1>2. f \in DOMAIN program /\ args \in Seq(Values) /\ f \in Names
  BY <1>1, FrameIs, ProgramIs DEF CallFrames, Names
<1>3. Takes(f, args) /\ ToCome(s, k) = {f}
  BY <1>1, FrameMeans
<1>4. ~(Len(args) # program[f].params) /\ \A a \in ToSet(args) : a.type \in {"inst", "ptr"}
  BY <1>2, <1>3 DEF Takes
<1>5. t = GenCall(u, f, "ptr", args)
  BY <1>4 DEF GenFunctionCall, Fault
<1> HIDE DEF p
<1>6. Works(p, u, {}) /\ u.stack = p.stack
  BY <1>1, FaultWorks
<1>7. Blames(p, u)
  BY <1>1, BlamesNothing DEF Rec, Fresh
<1>8. Ready(u)
  BY <1>6 DEF Works
<1> HIDE DEF u
<1>9. \A a \in ToSet(args) : Operand(a)
  <2>1. ToSet(args) \subseteq Values
    <3>1. DOMAIN args = 1 .. Len(args)
      BY <1>2, LenProperties
    <3> QED
      BY <1>2, <3>1, ElementOfSeq DEF ToSet
  <2> QED
    BY <1>4, <2>1 DEF Operand
<1> HIDE DEF f, args
<1>10. Works(u, t, {f}) /\ Yields(t, "ptr") /\ t.stack = u.stack
  BY <1>2, <1>5, <1>8, <1>9, KindsAre, GenCallWorks
<1>11. Works(p, t, {f})
  <2>1. Works(p, t, {} \cup {f})
    BY <1>6, <1>10, WorksTwice
  <2> QED
    BY <2>1
<1>12. Blames(p, t)
  BY <1>5, <1>7, BlamesEmissionOn
<1>13. Emitted(s, t, {f})
  BY <1>6, <1>10, <1>11, <1>12, EmittedOn DEF p
<1>14. Matches(s, t.val.type)
  BY <1>10 DEF Matches, Passes, Gives, Yields
<1> QED
  BY <1>3, <1>13, <1>14, Leaves

-----------------------------------------------------------------------------
\* Loops

\* The blocks a frame names
LEMMA NamedAtWork ==
  ASSUME NEW s, AtWork(s)
  PROVE  \A q \in Named(Top(s)) : Exists(Popped(s), q) /\ q[1] = Popped(s).fn
<1>1. /\ Len(s.stack) \in DOMAIN s.stack /\ Popped(s).blocks = s.blocks /\ Popped(s).fn = s.fn
  BY AtWorkIs DEF AtWork
<1>2. IInv(s) /\ Live(s)
  BY DEF AtWork
<1>3. \A q \in Named(Top(s)) : Exists(s, q)
  BY <1>1, <1>2 DEF IInv, Standing, Top
<1>4. \A q \in Named(Top(s)) : q[1] = s.fn
  BY <1>1, <1>2 DEF IInv, Alive, Blocked, Top
<1> QED
  BY <1>1, <1>3, <1>4 DEF Exists

\* A new block, named where its number is known already
Alike(p, q) == Ready(p) /\ Ready(q) /\ q.fn = p.fn /\ q.blocks = p.blocks

LEMMA AnotherBlock ==
  ASSUME NEW p, NEW q, Alike(p, q)
  PROVE  /\ Works(q, AddBlock(q), {}) /\ AddBlock(q).stack = q.stack
         /\ NewBlock(p) \in Places /\ NewBlock(p)[1] = q.fn
         /\ Exists(AddBlock(q), NewBlock(p))
         /\ Alike(AddBlock(p), AddBlock(q))
<1>1. Ready(p) /\ Ready(q) /\ Rec(p) /\ Rec(q) /\ q.fn = p.fn /\ q.blocks = p.blocks /\ Types(p)
  BY RecReady DEF Alike
<1>2. /\ Works(q, AddBlock(q), {}) /\ AddBlock(q).stack = q.stack
      /\ Exists(AddBlock(q), NewBlock(q)) /\ NewBlock(q)[1] = q.fn
  BY <1>1, AddBlockWorks
<1>3. Works(p, AddBlock(p), {})
  BY <1>1, AddBlockWorks
<1>4. NewBlock(p) = NewBlock(q)
  BY <1>1 DEF NewBlock, Blocks
<1>5. NewBlock(p) \in Places
  BY <1>1, NewBlockIs
<1>6. AddBlock(q).blocks = AddBlock(p).blocks
  <2> DEFINE blocks == [ g \in DOMAIN p.blocks \cup {p.fn} |->
                           IF g = p.fn THEN Append(Blocks(p, p.fn), <<>>) ELSE p.blocks[g] ]
  <2>1. AddBlock(p).blocks = blocks
    BY <1>1 DEF AddBlock, SetBlocks, Rec, Fresh
  <2>2. AddBlock(q).blocks = blocks
    BY <1>1 DEF AddBlock, SetBlocks, Rec, Fresh, Blocks
  <2> QED
    BY <2>1, <2>2
<1>7. AddBlock(q).fn = AddBlock(p).fn
  BY <1>1, <1>2, <1>3 DEF Works
<1> QED
  BY <1>2, <1>3, <1>4, <1>5, <1>6, <1>7 DEF Alike, Works

LEMMA NestAlike ==
  ASSUME NEW p, Ready(p)
  PROVE  Alike(p, Nest(p)) /\ Works(p, Nest(p), {}) /\ Nest(p).stack = p.stack
<1>1. Works(p, Nest(p), {}) /\ Nest(p).stack = p.stack /\ Rec(p)
  BY NestWorks, RecReady
<1>2. Nest(p).blocks = p.blocks
  BY <1>1 DEF Nest, Rec, Fresh
<1> QED
  BY <1>1, <1>2 DEF Alike, Works

LEMMA WhileContinues ==
  ASSUME NEW s, AtWork(s), Top(s).step = "compile", NEW n, n = Top(s).n, n.op = "while",
         NEW t, t = Gen(Popped(s), n)
  PROVE  Continues(s, t)
<1> DEFINE p == Popped(s)
           k == Len(s.stack)
           cond == NewBlock(p)
           loop == NewBlock(AddBlock(p))
           end == NewBlock(AddBlock(AddBlock(p)))
           z == Nest(p)
           a == AddBlock(AddBlock(AddBlock(z)))
           e == GenBr(a, cond)
           u == SetInsertPoint(e, loop)
           frame == [step |-> "loop", n |-> n, entry |-> p.at,
                     cond |-> cond, loop |-> loop, end |-> end]
<1>0. n \in Nodes /\ n \in NodesOf({"while"})
  BY NodeAtWork DEF NodesOf
<1>1. /\ ToCome(s, k) = Callees(n) /\ Sound(n) /\ Fits(s, n)
      /\ \A x : (TypeOf(n) # "stale" => x = TypeOf(n)) => Matches(s, x)
      /\ \A j \in Under1(n) : j \in Nodes /\ Fits(s, j)
  BY NodeAtWork
<1>2. Ready(p) /\ Types(p) /\ p.at \in Places /\ Rec(p)
  BY AtWorkIs DEF Types
<1>3. t = CallThen(u, n.body, frame)
  BY DEF Gen, GenLoop
<1>4. Under1(n) = {n.cond, n.body}
  BY DEF Under1, Parts, Arms
<1>5. frame.step = "loop" /\ frame.n = n
  OBVIOUS
<1>6. Blames(p, u)
  <2>1. Blames(p, z)
    BY <1>2, BlamesItself, BlamesOn
  <2> HIDE DEF z
  <2>2. Blames(p, AddBlock(z))
    BY <2>1, BlamesOn
  <2>3. Blames(p, AddBlock(AddBlock(z)))
    BY <2>2, BlamesOn
  <2>4. Blames(p, a)
    BY <2>3, BlamesOn
  <2> HIDE DEF a
  <2>5. Blames(p, e)
    BY <2>4, BlamesEmissionOn
  <2> QED
    BY <2>5, BlamesOn
<1> HIDE DEF p
<1>7. Alike(p, z) /\ Works(p, z, {}) /\ z.stack = p.stack
  BY <1>2, NestAlike
<1> HIDE DEF z
<1> DEFINE z1 == AddBlock(z)
           z2 == AddBlock(z1)
           p1 == AddBlock(p)
           p2 == AddBlock(p1)
<1>8. /\ Works(z, z1, {}) /\ z1.stack = z.stack /\ cond \in Places /\ cond[1] = z.fn
      /\ Exists(z1, cond) /\ Alike(p1, z1)
  BY <1>7, AnotherBlock
<1>9. a = AddBlock(z2) /\ loop = NewBlock(p1) /\ end = NewBlock(p2)
  OBVIOUS
<1> HIDE DEF z1, p1, cond, loop, a, end
<1>10. /\ Works(z1, z2, {}) /\ z2.stack = z1.stack /\ loop \in Places /\ loop[1] = z1.fn
       /\ Exists(z2, loop) /\ Alike(p2, z2)
  BY <1>8, <1>9, AnotherBlock
<1> HIDE DEF z2, p2
<1>11. /\ Works(z2, a, {}) /\ a.stack = z2.stack /\ end \in Places
  BY <1>9, <1>10, AnotherBlock
<1>12. Works(p, a, {}) /\ a.stack = p.stack /\ Ready(a) /\ a.fn = p.fn
       /\ loop[1] = a.fn /\ Exists(a, loop)
  <2>1. Works(p, z1, {})
    BY <1>7, <1>8, WorksOn
  <2>2. Works(p, z2, {})
    BY <1>10, <2>1, WorksOn
  <2>3. Works(p, a, {})
    BY <1>11, <2>2, WorksOn
  <2> QED
    BY <1>7, <1>8, <1>10, <1>11, <2>1, <2>2, <2>3 DEF Works
<1>13. Works(a, e, {}) /\ e.stack = a.stack
  BY <1>8, <1>12, GenBrWorks
<1> HIDE DEF e
<1>14. Works(e, u, {}) /\ u.stack = e.stack
  <2>1. Ready(e) /\ Exists(e, loop) /\ loop[1] = e.fn
    BY <1>12, <1>13 DEF Works
  <2> QED
    BY <1>10, <2>1, SetInsertPointWorks
<1> HIDE DEF u
<1>15. Works(p, u, {})
  <2>1. Works(p, e, {})
    BY <1>12, <1>13, WorksOn
  <2> QED
    BY <1>14, <2>1, WorksOn
<1>16. Emitted(s, u, {})
  BY <1>6, <1>12, <1>13, <1>14, <1>15, EmittedOn DEF p
<1>17. frame \in Frames
  BY <1>0, <1>2, <1>8, <1>10, <1>11, FramesIn DEF LoopFrames
<1> HIDE DEF frame
<1>18. n.body \in Nodes /\ n.cond \in Nodes /\ Compiling(n.body) \in Frames /\ Fits(u, n.body)
  <2>1. n.body \in Nodes /\ n.cond \in Nodes /\ Fits(s, n.body)
    BY <1>1, <1>4
  <2> QED
    BY <1>16, <2>1, CompilingIs DEF Fits, Emitted
<1>19. t.stack[k] = frame /\ Pushed(s) \subseteq Pushed(t)
  BY <1>3, <1>16, <1>17, <1>18, CalledOn
<1>20. Provided(t, k) /\ ToCome(t, k) = Callees(n.cond)
  <2>1. Fits(t, n)
    BY <1>1, <1>19 DEF Fits
  <2> QED
    BY <1>5, <1>19, <2>1, FrameMeans
<1>21. TypeOf(n.body) = "ptr" /\ TypeOf(n) = "inst"
  BY <1>0, <1>1, TypeIs DEF Sound
<1>22. ~Passes(frame) /\ Wants(frame) = {"ptr"} /\ Gives(frame) = "inst"
  BY <1>5 DEF Passes, Wants, Gives
<1>23. Callees(n) = Callees(n.cond) \cup Callees(n.body)
  <2>1. UNION { Callees(j) : j \in {n.cond, n.body} } = Callees(n.cond) \cup Callees(n.body)
    OBVIOUS
  <2>2. ~(n.op = "call" /\ n.callee.op = "global")
    OBVIOUS
  <2> QED
    BY <1>0, <1>4, <2>1, <2>2, CalleesIs
<1>24. TypeOf(n.body) \in Wants(frame)
       /\ Matches(s, IF Passes(frame) THEN TypeOf(n.body) ELSE Gives(frame))
  BY <1>1, <1>21, <1>22
<1>25. {} \cup ToCome(t, k) \cup Callees(n.body) \cup Truth = ToCome(s, k) \cup Truth
  BY <1>1, <1>20, <1>23
<1> QED
  BY <1>3, <1>16, <1>17, <1>18, <1>20, <1>24, <1>25, CallsOn

\* On to another block of the function
LEMMA MovesTo ==
  ASSUME NEW p, NEW e, NEW names, Works(p, e, names), NEW q \in Places, Exists(p, q),
         q[1] = p.fn, NEW u, u = SetInsertPoint(e, q)
  PROVE  Works(p, u, names) /\ u.stack = e.stack /\ u.val = e.val /\ Ready(u)
<1>1. Ready(e) /\ Exists(e, q) /\ q[1] = e.fn
  BY DEF Works
<1>2. Works(e, u, {}) /\ u.stack = e.stack /\ u.val = e.val
  BY <1>1, SetInsertPointWorks
<1>3. Works(p, u, names)
  BY <1>2, WorksOn
<1> QED
  BY <1>2, <1>3 DEF Works

LEMMA LoopContinues ==
  ASSUME NEW s, AtWork(s), Top(s).step = "loop", NEW t, t = GenLoopBody(Popped(s), Top(s))
  PROVE  Continues(s, t)
<1> DEFINE p == Popped(s)
           k == Len(s.stack)
           loop == Top(s)
           n == loop.n
           h == GenLoad(p)
           e == GenBr(h, loop.cond)
           u == SetInsertPoint(e, loop.cond)
           values == <<Default, h.val>>
           places == <<loop.entry, loop.loop>>
           v == GenPhi(u, values, places)
           w == Returned(v, h.val)
           frame == [step |-> "again", loop |-> loop.loop, end |-> loop.end,
                     phi |-> v.val, last |-> h.val]
<1>1. /\ loop \in Frames /\ Provided(s, k) /\ s.stack[k] = loop /\ Ready(p) /\ Rec(p)
      /\ s.val.type \in Wants(loop) /\ p.val = s.val
  BY AtWorkIs DEF Top
<1>2. /\ n \in NodesOf({"while"}) /\ loop.entry \in Places /\ loop.cond \in Places
      /\ loop.loop \in Places /\ loop.end \in Places
  BY <1>1, FrameIs DEF LoopFrames
<1>3. Exists(p, loop.cond) /\ loop.cond[1] = p.fn
  <2>1. loop.cond \in Named(loop)
    BY DEF Named
  <2> QED
    BY <2>1, NamedAtWork
<1>4. p.val.type = "ptr"
  BY <1>1 DEF Wants
<1>5. Fits(s, n) /\ ToCome(s, k) = Callees(n.cond)
  BY <1>1, FrameMeans
<1>6. t = CallThen(w, n.cond, frame)
  BY DEF GenLoopBody
<1>7. Blames(p, w)
  <2>1. Blames(p, h)
    BY <1>1, BlamesItself, BlamesEmissionOn
  <2> HIDE DEF h
  <2>2. Blames(p, e)
    BY <2>1, BlamesEmissionOn
  <2> HIDE DEF e
  <2>3. Blames(p, u)
    BY <2>2, BlamesOn
  <2> HIDE DEF u
  <2>4. Blames(p, v)
    BY <2>3, BlamesEmissionOn
  <2> HIDE DEF v
  <2> QED
    BY <2>4, BlamesOn
<1>8. \A x : Gives([step |-> "again", loop |-> loop.loop, end |-> loop.end,
                    phi |-> v.val, last |-> x]) = "inst"
  BY DEF Gives
<1>9. Matches(s, "inst")
  BY DEF Matches, Passes, Gives
<1> HIDE DEF p, loop
<1>10. Works(p, h, {}) /\ Yields(h, "inst") /\ h.stack = p.stack /\ Ready(h)
  BY <1>1, <1>4, GenLoadWorks DEF Works
<1>11. values \in Seq(Values) /\ \A x \in ToSet(values) : x.type = "inst"
  <2>1. h.val \in Values /\ h.val.type = "inst"
    BY <1>10, RecReady DEF Yields
  <2>2. Default \in Values /\ Default.type = "inst"
    BY Constants DEF Default
  <2> HIDE DEF h
  <2>3. values \in Seq(Values) /\ ToSet(values) = {Default, h.val}
    BY <2>1, <2>2, TupleIs
  <2> HIDE DEF values
  <2> QED
    BY <2>1, <2>2, <2>3
<1>12. places \in Seq(Places)
  BY <1>2
<1>13. h.val \in Values
  BY <1>10, RecReady
<1> HIDE DEF h, values, places
<1>14. Works(p, e, {}) /\ e.stack = p.stack
  <2>1. Works(h, e, {}) /\ e.stack = h.stack
    BY <1>2, <1>10, GenBrWorks
  <2> QED
    BY <1>10, <2>1, WorksOn
<1> HIDE DEF e
<1>15. Works(p, u, {}) /\ u.stack = p.stack /\ Ready(u)
  BY <1>2, <1>3, <1>14, MovesTo
<1> HIDE DEF u
<1>16. Works(p, v, {}) /\ v.stack = p.stack /\ Yields(v, "inst") /\ Ready(v)
  <2>1. Works(u, v, {}) /\ v.stack = u.stack /\ Yields(v, "inst")
    BY <1>11, <1>12, <1>15, GenPhiWorks
  <2> QED
    BY <1>15, <2>1, WorksOn DEF Works
<1> HIDE DEF v
<1>17. Works(p, w, {}) /\ w.stack = p.stack
  <2>1. Works(v, w, {}) /\ w.stack = v.stack
    BY <1>13, <1>16, ReturnedWorks
  <2> QED
    BY <1>16, <2>1, WorksOn
<1> HIDE DEF w
<1>18. Emitted(s, w, {})
  BY <1>7, <1>17, EmittedOn DEF p
<1>19. frame \in Frames
  <2>1. v.val \in Values
    BY <1>16, RecReady
  <2>2. frame \in AgainFrames
    BY <1>2, <1>13, <2>1 DEF AgainFrames
  <2> QED
    BY <2>2, FramesIn
<1>20. frame.step = "again" /\ frame.phi.type = "inst"
  BY <1>16 DEF Yields
<1> HIDE DEF frame
<1>21. /\ n \in Nodes /\ n.op = "while" /\ Sound(n) /\ n.cond \in Nodes
       /\ Compiling(n.cond) \in Frames /\ Fits(w, n.cond)
  <2>1. n \in Nodes /\ n.op = "while"
    BY <1>2 DEF NodesOf
  <2>2. Sound(n)
    BY <1>5, <2>1, SupportedParts DEF Fits
  <2>3. n.cond \in Under1(n)
    BY <2>1 DEF Under1, Parts
  <2>4. n.cond \in Nodes /\ Fits(s, n.cond)
    BY <1>5, <2>1, <2>3, PartFits
  <2> QED
    BY <1>18, <2>1, <2>2, <2>4, CompilingIs DEF Fits, Emitted
<1>22. t.stack[k] = frame
  BY <1>6, <1>18, <1>19, <1>21, CalledOn
<1>23. Provided(t, k) /\ ToCome(t, k) = {}
  BY <1>20, <1>22, FrameMeans
<1>24. ~Passes(frame) /\ Gives(frame) = "inst" /\ TypeOf(n.cond) \in Wants(frame)
  BY <1>20, <1>21 DEF Passes, Wants, Gives, Sound, Instance
<1>25. Matches(s, IF Passes(frame) THEN TypeOf(n.cond) ELSE Gives(frame))
  BY <1>9, <1>24
<1>26. {} \cup ToCome(t, k) \cup Callees(n.cond) \cup Truth = ToCome(s, k) \cup Truth
  BY <1>5, <1>23
<1>27. ~(Top(s).step = "compile" /\ Top(s).n.op = "global")
  OBVIOUS
<1> QED
  BY <1>6, <1>18, <1>19, <1>21, <1>23, <1>24, <1>25, <1>26, <1>27, CallsOn

\* The test of a condition or a loop: the runtime is called, and the branch made
LEMMA TestWorks ==
  ASSUME NEW s, AtWork(s), s.val.type \in {"inst", "ptr"},
         NEW then \in Named(Top(s)), NEW else \in Named(Top(s)), NEW q \in {then, else},
         NEW u, u = SetInsertPoint(GenCondBr(GenTruth(Popped(s)), then, else), q)
  PROVE  Emitted(s, u, Truth) /\ Works(Popped(s), u, Truth)
<1> DEFINE p == Popped(s)
           h == GenTruth(p)
           e == GenCondBr(h, then, else)
<1>1. Ready(p) /\ Rec(p) /\ p.val = s.val /\ s.val \in Values /\ Top(s) \in Frames
  BY AtWorkIs
<1>2. /\ then \in Places /\ else \in Places /\ q \in Places
      /\ Exists(p, q) /\ q[1] = p.fn
  BY <1>1, NamedArePlaces, NamedAtWork
<1>3. Blames(p, u)
  <2>1. Blames(p, h)
    BY <1>1, BlamesItself, BlamesEmissionOn
  <2> HIDE DEF h
  <2>2. Blames(p, e)
    BY <2>1, BlamesEmissionOn
  <2> HIDE DEF e
  <2> QED
    BY <2>2, BlamesOn DEF e, h
<1> HIDE DEF p
<1>4. Operand(p.val)
  BY <1>1 DEF Operand
<1>5. Works(p, h, Truth) /\ h.stack = p.stack /\ Ready(h)
  BY <1>1, <1>4, GenTruthWorks DEF Works
<1>6. u = SetInsertPoint(e, q)
  BY DEF p
<1> HIDE DEF h
<1>7. Works(p, e, Truth) /\ e.stack = p.stack
  <2>1. Works(h, e, {}) /\ e.stack = h.stack
    BY <1>2, <1>5, GenBrWorks
  <2> QED
    BY <1>5, <2>1, WorksOn
<1> HIDE DEF e
<1>8. Works(p, u, Truth) /\ u.stack = p.stack
  BY <1>2, <1>6, <1>7, MovesTo
<1> QED
  BY <1>3, <1>8, EmittedOn DEF p

LEMMA AgainContinues ==
  ASSUME NEW s, AtWork(s), Top(s).step = "again", NEW t, t = GenAgain(Popped(s), Top(s))
  PROVE  Continues(s, t)
<1> DEFINE p == Popped(s)
           k == Len(s.stack)
           frame == Top(s)
           u == SetInsertPoint(GenCondBr(GenTruth(p), frame.loop, frame.end), frame.end)
<1>1. /\ frame \in Frames /\ Provided(s, k) /\ s.stack[k] = frame
      /\ s.val.type \in Wants(frame)
  BY AtWorkIs DEF Top
<1>2. frame.phi \in Values
  BY <1>1, FrameIs DEF AgainFrames
<1>3. frame.phi.type = "inst" /\ ToCome(s, k) = {}
  BY <1>1, FrameMeans
<1>4. frame.loop \in Named(frame) /\ frame.end \in Named(frame)
  BY DEF Named
<1>5. s.val.type \in {"inst", "ptr"}
  BY <1>1 DEF Wants
<1>6. Emitted(s, u, Truth)
  BY <1>4, <1>5, TestWorks
<1>7. t = Returned(u, frame.phi)
  BY DEF GenAgain, LoopValue
<1>8. Matches(s, "inst")
  BY DEF Matches, Passes, Gives
<1> HIDE DEF u, p
<1>9. /\ Works(u, t, {}) /\ t.val = frame.phi /\ t.stack = u.stack
      /\ Works(Popped(s), u, Truth) /\ u.stack = Popped(s).stack
  BY <1>2, <1>6, <1>7, ReturnedWorks DEF Emitted, Works
<1>10. Emitted(s, t, Truth)
  <2>1. Works(Popped(s), t, Truth)
    BY <1>9, WorksOn
  <2>2. Pushed(t) = Pushed(u)
    BY <1>7, <1>9, RecReady DEF Pushed, Returned, Rec, Fresh, Works
  <2> QED
    BY <1>6, <1>9, <2>1, <2>2 DEF Emitted
<1>11. Matches(s, t.val.type)
  BY <1>3, <1>8, <1>9
<1>12. Truth \cup Truth = ToCome(s, k) \cup Truth
  BY <1>3
<1>13. ~(Top(s).step = "compile" /\ Top(s).n.op = "global")
  OBVIOUS
<1> QED
  BY <1>10, <1>11, <1>12, <1>13, Leaves

-----------------------------------------------------------------------------
\* Conditions

\* What the first branches call
CallsOf(n, m) ==
  UNION { Callees(n.branches[k][1]) \cup Callees(n.branches[k][2]) : k \in 1 .. m }

\* Tests give an instance, and branches and the else a value a phi takes
LEMMA BranchParts ==
  ASSUME NEW s, NEW n \in NodesOf({"if"}), Fits(s, n)
  PROVE  /\ n \in Nodes /\ n.op = "if" /\ n.branches \in Seq(Nodes \X Nodes)
         /\ n.else \in Seq(Nodes)
         /\ \A i \in 1 .. Len(n.branches) :
              /\ n.branches[i][1] \in Nodes /\ n.branches[i][2] \in Nodes
              /\ n.branches[i][1] \in Under1(n) /\ n.branches[i][2] \in Under1(n)
              /\ Fits(s, n.branches[i][1]) /\ Fits(s, n.branches[i][2])
              /\ TypeOf(n.branches[i][1]) \in {"inst", "ptr"}
              /\ TypeOf(n.branches[i][2]) = "inst"
         /\ \A i \in 1 .. Len(n.else) :
              /\ n.else[i] \in Nodes /\ n.else[i] \in Under1(n)
              /\ Fits(s, n.else[i]) /\ TypeOf(n.else[i]) = "inst"
<1>1. n \in Nodes /\ n.op = "if"
  BY DEF NodesOf
<1>2. n.branches \in Seq(Nodes \X Nodes) /\ n.else \in Seq(Nodes)
  BY NodeIs
<1>3. Sound(n)
  BY <1>1, SupportedParts DEF Fits
<1>4. \A k \in Parts(n) : TypeOf(k) \in {"inst", "ptr"}
  BY <1>1, <1>3 DEF Sound, Instance
<1>5. \A k \in Arms(n) : TypeOf(k) = "inst"
  BY <1>1, <1>3 DEF Sound
<1>6. /\ Parts(n) = { b[1] : b \in ToSet(n.branches) }
      /\ Arms(n) = { b[2] : b \in ToSet(n.branches) } \cup ToSet(n.else)
  BY <1>1 DEF Parts, Arms
<1>7. \A k \in Under1(n) : k \in Nodes /\ Fits(s, k)
  <2>1. ~(n.op = "do")
    BY <1>1
  <2> QED
    BY <1>1, <2>1, PartFits
<1>8. ASSUME NEW i \in 1 .. Len(n.branches)
      PROVE  n.branches[i][1] \in Parts(n) /\ n.branches[i][2] \in Arms(n)
  <2>1. i \in DOMAIN n.branches
    BY <1>2, LenProperties
  <2>2. n.branches[i] \in ToSet(n.branches)
    BY <2>1 DEF ToSet
  <2> QED
    BY <1>6, <2>2
<1>9. ASSUME NEW i \in 1 .. Len(n.else)
      PROVE  n.else[i] \in Arms(n)
  <2>1. i \in DOMAIN n.else
    BY <1>2, LenProperties
  <2>2. n.else[i] \in ToSet(n.else)
    BY <2>1 DEF ToSet
  <2> QED
    BY <1>6, <2>2
<1>10. \A k : k \in Parts(n) \/ k \in Arms(n) => k \in Under1(n)
  BY DEF Under1
<1> QED
  BY <1>1, <1>2, <1>4, <1>5, <1>7, <1>8, <1>9, <1>10

LEMMA BranchCallees ==
  ASSUME NEW n \in NodesOf({"if"})
  PROVE  \A x : x \in Callees(n) <=>
                  \/ x \in CallsOf(n, Len(n.branches))
                  \/ \E i \in 1 .. Len(n.else) : x \in Callees(n.else[i])
<1>1. n \in Nodes /\ n.op = "if" /\ n.branches \in Seq(Nodes \X Nodes) /\ n.else \in Seq(Nodes)
  BY NodeIs DEF NodesOf
<1>2. Callees(n) = UNION { Callees(k) : k \in Under1(n) }
  <2>1. ~(n.op = "call" /\ n.callee.op = "global")
    BY <1>1
  <2> QED
    BY <1>1, <2>1, CalleesIs
<1>3. \A x : x \in Callees(n) <=> \E k \in Under1(n) : x \in Callees(k)
  BY <1>2
<1>4. \A k : k \in Under1(n) <=>
        \/ \E i \in 1 .. Len(n.branches) : k = n.branches[i][1] \/ k = n.branches[i][2]
        \/ \E i \in 1 .. Len(n.else) : k = n.else[i]
  <2>1. Under1(n) = { b[1] : b \in ToSet(n.branches) }
                      \cup { b[2] : b \in ToSet(n.branches) } \cup ToSet(n.else)
    BY <1>1 DEF Under1, Parts, Arms
  <2>2. \A b : b \in ToSet(n.branches) <=> \E i \in 1 .. Len(n.branches) : b = n.branches[i]
    BY <1>1, LenProperties DEF ToSet
  <2>3. \A b : b \in ToSet(n.else) <=> \E i \in 1 .. Len(n.else) : b = n.else[i]
    BY <1>1, LenProperties DEF ToSet
  <2> QED
    BY <2>1, <2>2, <2>3
<1>5. \A x : x \in CallsOf(n, Len(n.branches)) <=>
        \E i \in 1 .. Len(n.branches) :
          x \in Callees(n.branches[i][1]) \/ x \in Callees(n.branches[i][2])
  BY DEF CallsOf
<1> QED
  BY <1>3, <1>4, <1>5

LEMMA CallsOfLess ==
  ASSUME NEW n, NEW m \in Nat \ {0}
  PROVE  CallsOf(n, m) = Callees(n.branches[m][1]) \cup Callees(n.branches[m][2])
                           \cup CallsOf(n, m - 1)
<1> DEFINE calls(k) == Callees(n.branches[k][1]) \cup Callees(n.branches[k][2])
<1>1. \A i : CallsOf(n, i) = UNION { calls(k) : k \in 1 .. i }
  BY DEF CallsOf
<1>2. calls(m) = Callees(n.branches[m][1]) \cup Callees(n.branches[m][2])
  OBVIOUS
<1> HIDE DEF calls
<1>3. 1 .. m = (1 .. m - 1) \cup {m}
  OBVIOUS
<1> QED
  BY <1>1, <1>2, <1>3

LEMMA BranchMeans ==
  ASSUME NEW st, NEW i, NEW frame, st.stack[i] = frame, frame.step = "branch"
  PROVE  /\ Fits(st, frame.n) /\ (\A v \in ToSet(frame.values) : v.type = "inst")
              => Provided(st, i)
         /\ ToCome(st, i) = CallsOf(frame.n, frame.left)
BY DEF Provided, ToCome, CallsOf

LEMMA TestContinues ==
  ASSUME NEW s, AtWork(s), Top(s).step = "test", NEW t, t = GenTest(Popped(s), Top(s))
  PROVE  Continues(s, t)
<1> DEFINE p == Popped(s)
           k == Len(s.stack)
           test == Top(s)
           n == test.n
           arm == n.branches[test.left][2]
           frame == [test EXCEPT !.step = "branch", !.left = test.left - 1]
           u == SetInsertPoint(GenCondBr(GenTruth(p), test.body, test.else), test.body)
<1>1. /\ test \in Frames /\ Provided(s, k) /\ s.stack[k] = test
      /\ s.val.type \in Wants(test)
  BY AtWorkIs DEF Top
<1>2. test \in ConditionFrames
  BY <1>1, FrameIs
<1>3. /\ test.left \in Nat \ {0} /\ n \in NodesOf({"if"}) /\ test.left <= Len(n.branches)
      /\ test \in [step : {"branch", "test"}, n : NodesOf({"if"}), left : Nat,
                   entry : Places, end : Places, else : Places, test : Places,
                   body : Places, values : Seq(Values), places : Seq(Places)]
  BY <1>2 DEF ConditionFrames
<1>4. /\ Fits(s, n) /\ \A v \in ToSet(test.values) : v.type = "inst"
      /\ ToCome(s, k) = Callees(arm) \cup CallsOf(n, test.left - 1)
  BY <1>1, FrameMeans DEF CallsOf
<1>5. test.body \in Named(test) /\ test.else \in Named(test)
  BY DEF Named
<1>6. s.val.type \in {"inst", "ptr"}
  BY <1>1 DEF Wants
<1>7. Emitted(s, u, Truth)
  BY <1>5, <1>6, TestWorks
<1>8. t = CallThen(u, arm, frame)
  <2>1. GenTest(p, test) = CallThen(u, arm, [test EXCEPT !.step = "branch", !.left = @ - 1])
    BY DEF GenTest
  <2>2. [test EXCEPT !.step = "branch", !.left = @ - 1] = frame
    BY <1>3
  <2> QED
    BY <2>1, <2>2
<1>9. Matches(s, "inst")
  BY DEF Matches, Passes, Gives
<1>10. ~(Top(s).step = "compile" /\ Top(s).n.op = "global")
  OBVIOUS
<1> HIDE DEF u, p, test
<1>11. /\ frame.step = "branch" /\ frame.left = test.left - 1 /\ frame.n = n
       /\ frame.values = test.values
       /\ frame \in [step : {"branch", "test"}, n : NodesOf({"if"}), left : Nat,
                     entry : Places, end : Places, else : Places, test : Places,
                     body : Places, values : Seq(Values), places : Seq(Places)]
  <2>1. test.left - 1 \in Nat
    BY <1>3
  <2> QED
    BY <1>3, <2>1
<1> HIDE DEF frame
<1>12. frame \in Frames
  <2>1. Len(n.branches) \in Nat
    BY <1>3, NodeIs, LenProperties
  <2>2. frame.left <= Len(n.branches)
    BY <1>3, <1>11, <2>1
  <2>3. frame \in ConditionFrames
    BY <1>11, <2>2 DEF ConditionFrames
  <2> QED
    BY <2>3, FramesIn
<1> HIDE DEF n
<1>13. arm \in Nodes /\ Fits(s, arm) /\ TypeOf(arm) = "inst"
  <2>1. Len(n.branches) \in Nat
    BY <1>3, NodeIs, LenProperties
  <2>2. test.left \in 1 .. Len(n.branches)
    BY <1>3, <2>1
  <2> QED
    BY <1>3, <1>4, <2>2, BranchParts
<1> HIDE DEF arm
<1>14. Fits(u, arm) /\ Compiling(arm) \in Frames
  BY <1>7, <1>13, CompilingIs DEF Fits, Emitted
<1>15. t.stack[k] = frame /\ Pushed(s) \subseteq Pushed(t)
  BY <1>7, <1>8, <1>12, <1>14, CalledOn
<1>16. Provided(t, k) /\ ToCome(t, k) = CallsOf(n, test.left - 1)
  <2>1. Fits(t, n)
    BY <1>4, <1>15 DEF Fits
  <2>2. Provided(t, k) /\ ToCome(t, k) = CallsOf(frame.n, frame.left)
    BY SMTT(30), <1>4, <1>11, <1>15, <2>1, FrameMeans DEF CallsOf
  <2> QED
    BY <1>11, <2>2
<1>17. ~Passes(frame) /\ Gives(frame) = "inst" /\ "inst" \in Wants(frame)
  BY <1>11 DEF Passes, Gives, Wants
<1>18. TypeOf(arm) \in Wants(frame)
       /\ Matches(s, IF Passes(frame) THEN TypeOf(arm) ELSE Gives(frame))
  BY <1>9, <1>13, <1>17
<1>19. Truth \cup ToCome(t, k) \cup Callees(arm) \cup Truth = ToCome(s, k) \cup Truth
  BY <1>4, <1>16
<1> QED
  BY <1>7, <1>8, <1>10, <1>12, <1>13, <1>14, <1>16, <1>18, <1>19, CallsOn

\* A branch has ended
LEMMA ArmAtWork ==
  ASSUME NEW s, AtWork(s), Top(s).step = "branch",
         NEW next, next = [Top(s) EXCEPT !.values = Append(Top(s).values, ArmValue(Popped(s), Top(s))),
                                         !.places = Incoming(Top(s))],
         NEW e, e = GenBr(Popped(s), Top(s).end)
  PROVE  /\ next \in ConditionFrames /\ next.n = Top(s).n /\ next.left = Top(s).left
         /\ next.entry = Top(s).entry /\ next.end = Top(s).end
         /\ next.values \in Seq(Values) /\ next.places \in Seq(Places)
         /\ \A v \in ToSet(next.values) : v.type = "inst"
         /\ next.n \in NodesOf({"if"}) /\ Fits(s, next.n) /\ next.left \in Nat
         /\ next.left <= Len(next.n.branches)
         /\ ToCome(s, Len(s.stack)) = CallsOf(next.n, next.left)
         /\ Matches(s, "inst")
         /\ Works(Popped(s), e, {}) /\ e.stack = Popped(s).stack
         /\ Blames(Popped(s), e)
         /\ \A q \in {next.entry, next.end} :
              q \in Places /\ Exists(Popped(s), q) /\ q[1] = Popped(s).fn
<1> DEFINE p == Popped(s)
           k == Len(s.stack)
           frame == Top(s)
           value == ArmValue(p, frame)
<1>1. /\ frame \in Frames /\ Provided(s, k) /\ s.stack[k] = frame /\ Ready(p) /\ Rec(p)
      /\ s.val.type \in Wants(frame) /\ s.val \in Values /\ p.val = s.val
      /\ Types(s) /\ IInv(s) /\ s.open # {}
  BY AtWorkIs DEF Top, AtWork
<1>2. /\ next \in ConditionFrames /\ next.n = frame.n /\ next.left = frame.left
      /\ next.entry = frame.entry /\ next.end = frame.end
      /\ next.values \in Seq(Values) /\ next.places \in Seq(Places)
  BY <1>1, ArmEnds
<1>3. /\ frame.values \in Seq(Values) /\ frame.n \in NodesOf({"if"})
      /\ DOMAIN frame = {"step", "n", "left", "entry", "end", "else", "test", "body",
                         "values", "places"}
      /\ frame.left \in Nat /\ frame.left <= Len(frame.n.branches)
  <2>1. frame \in ConditionFrames
    BY <1>1, FrameIs
  <2> HIDE DEF frame
  <2> QED
    BY <2>1 DEF ConditionFrames
<1>4. /\ Fits(s, frame.n) /\ \A v \in ToSet(frame.values) : v.type = "inst"
      /\ ToCome(s, k) = CallsOf(frame.n, frame.left)
  BY <1>1, FrameMeans DEF CallsOf
<1>5. value \in Values /\ value.type = "inst"
  <2>1. CASE frame.values = <<>> /\ frame.n.else = <<>>
    <3>1. value = Default
      BY <2>1 DEF ArmValue
    <3> QED
      BY <3>1, Constants DEF Default
  <2>2. CASE ~(frame.values = <<>> /\ frame.n.else = <<>>)
    <3>1. value = p.val
      BY <2>2 DEF ArmValue
    <3>2. Wants(frame) = {"inst"}
      BY <2>2 DEF Wants
    <3> QED
      BY <1>1, <3>1, <3>2
  <2> QED
    BY <2>1, <2>2
<1>6. next.values = Append(frame.values, value)
  BY <1>3
<1>7. Matches(s, "inst")
  BY DEF Matches, Passes, Gives
<1>8. \A q \in {frame.entry, frame.end} : q \in Places /\ Exists(p, q) /\ q[1] = p.fn
  <2>1. \A q \in {frame.entry, frame.end} : q \in Named(frame)
    BY DEF Named
  <2> QED
    BY <1>1, <2>1, NamedAtWork, NamedArePlaces
<1>9. Blames(p, e)
  BY <1>1, BlamesItself, BlamesEmissionOn
<1> HIDE DEF value, p
<1>10. Works(p, e, {}) /\ e.stack = p.stack
  <2>1. e = GenBr(p, frame.end) /\ frame.end \in Places
    BY <1>8 DEF p
  <2> QED
    BY <1>1, <2>1, GenBrWorks
<1>11. \A v \in ToSet(next.values) : v.type = "inst"
  BY <1>3, <1>4, <1>5, <1>6, AppendedSet
<1> QED
  BY <1>2, <1>3, <1>4, <1>7, <1>8, <1>9, <1>10, <1>11 DEF p

LEMMA LastArmContinues ==
  ASSUME NEW s, AtWork(s), Top(s).step = "branch", Top(s).left = 0,
         NEW t, t = GenArm(Popped(s), Top(s))
  PROVE  Continues(s, t)
<1> DEFINE p == Popped(s)
           k == Len(s.stack)
           frame == Top(s)
           next == [frame EXCEPT !.values = Append(frame.values, ArmValue(p, frame)),
                                 !.places = Incoming(frame)]
           e == GenBr(p, frame.end)
           u == SetInsertPoint(e, frame.end)
<1>1. Types(s) /\ s.stack # <<>> /\ frame \in Frames
  <2>1. Types(s) /\ IInv(s) /\ s.open # {}
    BY DEF AtWork
  <2> QED
    BY <2>1, TopNames
<1>2. t = GenPhi(u, next.values, next.places)
  <2>1. t = LET fr == Top(s)
                x == GenBr(Popped(s), fr.end)
                y == [fr EXCEPT !.values = Append(fr.values, ArmValue(Popped(s), fr)),
                                !.places = Incoming(fr)]
            IN IF fr.left = 0
               THEN GenPhi(SetInsertPoint(x, fr.end), y.values, y.places)
               ELSE NextTest(x, y)
    BY <1>1, GenArmIs
  <2> QED
    BY <2>1
<1>3. /\ next.end = frame.end /\ next.left = 0
      /\ next.values \in Seq(Values) /\ next.places \in Seq(Places)
      /\ \A v \in ToSet(next.values) : v.type = "inst"
      /\ ToCome(s, k) = CallsOf(next.n, next.left) /\ Matches(s, "inst")
      /\ Works(p, e, {}) /\ e.stack = p.stack /\ Blames(p, e)
      /\ \A q \in {next.entry, next.end} : q \in Places /\ Exists(p, q) /\ q[1] = p.fn
  BY ArmAtWork
<1>4. ~(Top(s).step = "compile" /\ Top(s).n.op = "global")
  OBVIOUS
<1> HIDE DEF p, frame, next, e
<1>5. Works(p, u, {}) /\ u.stack = p.stack /\ Ready(u)
  <2>1. frame.end \in Places /\ Exists(p, frame.end) /\ frame.end[1] = p.fn
    BY <1>3
  <2> QED
    BY <1>3, <2>1, MovesTo
<1>6. Blames(p, u)
  BY <1>3, BlamesOn
<1> HIDE DEF u
<1>7. Works(u, t, {}) /\ Yields(t, "inst") /\ t.stack = u.stack
  BY <1>2, <1>3, <1>5, GenPhiWorks
<1>8. Works(p, t, {})
  BY <1>5, <1>7, WorksOn
<1>9. Blames(p, t)
  BY <1>2, <1>6, BlamesEmissionOn
<1>10. Emitted(s, t, {})
  BY <1>5, <1>7, <1>8, <1>9, EmittedOn DEF p
<1>11. Matches(s, t.val.type)
  BY <1>3, <1>7 DEF Yields
<1>12. {} \cup Truth = ToCome(s, k) \cup Truth
  <2>1. CallsOf(next.n, 0) = {}
    BY DEF CallsOf
  <2> QED
    BY <1>3, <2>1
<1> QED
  BY <1>4, <1>10, <1>11, <1>12, Leaves

LEMMA NextArmContinues ==
  ASSUME NEW s, AtWork(s), Top(s).step = "branch", Top(s).left # 0,
         NEW t, t = GenArm(Popped(s), Top(s))
  PROVE  Continues(s, t)
<1> DEFINE p == Popped(s)
           k == Len(s.stack)
           arm == [Top(s) EXCEPT !.values = Append(Top(s).values, ArmValue(p, Top(s))),
                                 !.places = Incoming(Top(s))]
           e == GenBr(p, Top(s).end)
           n == arm.n
           m == arm.left
           body == NewBlock(e)
           a == AddBlock(e)
           test == IF m = 1 THEN arm.entry ELSE NewBlock(a)
           h == IF m = 1 THEN a ELSE AddBlock(a)
           u == SetInsertPoint(h, test)
           frame == TestFrame(arm, test, body)
           part == n.branches[m][1]
<1>1. Types(s) /\ s.stack # <<>> /\ Top(s) \in Frames
  <2>1. Types(s) /\ IInv(s) /\ s.open # {}
    BY DEF AtWork
  <2> QED
    BY <2>1, TopNames
<1>2. t = NextTest(e, arm)
  BY <1>1, GenArmNext
<1>3. /\ arm \in ConditionFrames /\ m = Top(s).left
      /\ \A v \in ToSet(arm.values) : v.type = "inst"
      /\ n \in NodesOf({"if"}) /\ Fits(s, n) /\ m \in Nat /\ m <= Len(n.branches)
      /\ ToCome(s, k) = CallsOf(n, m) /\ Matches(s, "inst")
      /\ Works(p, e, {}) /\ e.stack = p.stack /\ Blames(p, e)
      /\ arm.entry \in Places /\ Exists(p, arm.entry) /\ arm.entry[1] = p.fn
  BY ArmAtWork
<1>4. m # 0
  BY <1>3
<1>5. ~(Top(s).step = "compile" /\ Top(s).n.op = "global")
  OBVIOUS
<1> HIDE DEF arm, e
<1>6. t = CallThen(u, part, frame)
  <2>1. /\ arm \in [step : {"branch", "test"}, n : NodesOf({"if"}), left : Nat,
                    entry : Places, end : Places, else : Places, test : Places,
                    body : Places, values : Seq(Values), places : Seq(Places)]
    BY <1>3 DEF ConditionFrames
  <2>2. NextTest(e, arm) = CallThen(u, part, frame)
    BY <2>1 DEF NextTest, TestFrame
  <2> QED
    BY <1>2, <2>2
<1> HIDE DEF p
<1>7. Ready(e) /\ e.fn = p.fn
  BY <1>3 DEF Works
<1>8. Works(e, a, {}) /\ a.stack = e.stack /\ body \in Places /\ Ready(a) /\ a.fn = p.fn
  BY <1>7, RecReady, AddBlockWorks, NewBlockIs DEF Works, Ready
<1>9. /\ Works(a, AddBlock(a), {}) /\ AddBlock(a).stack = a.stack
      /\ Exists(AddBlock(a), NewBlock(a)) /\ NewBlock(a)[1] = a.fn /\ NewBlock(a) \in Places
  BY <1>8, RecReady, AddBlockWorks, NewBlockIs DEF Ready
<1>10. Blames(p, a) /\ Blames(p, AddBlock(a))
  <2>1. Blames(p, a)
    BY <1>3, BlamesOn
  <2> HIDE DEF a
  <2> QED
    BY <2>1, BlamesOn
<1> HIDE DEF a, body
<1>11. Works(p, a, {})
  BY <1>3, <1>8, WorksOn
<1>12. Works(p, AddBlock(a), {})
  BY <1>9, <1>11, WorksOn
<1>13. /\ Works(p, h, {}) /\ h.stack = p.stack /\ Blames(p, h)
       /\ test \in Places /\ Exists(h, test) /\ test[1] = h.fn /\ Ready(h)
  <2>1. CASE m = 1
    <3>1. h = a /\ test = arm.entry
      BY <2>1
    <3> HIDE DEF h, test
    <3> QED
      BY <1>3, <1>8, <1>10, <1>11, <3>1 DEF Works
  <2>2. CASE m # 1
    <3>1. h = AddBlock(a) /\ test = NewBlock(a)
      BY <2>2
    <3> HIDE DEF h, test
    <3> QED
      BY <1>3, <1>8, <1>9, <1>10, <1>12, <3>1 DEF Works
  <2> QED
    BY <2>1, <2>2
<1> HIDE DEF h, test
<1>14. Works(p, u, {}) /\ u.stack = p.stack
  <2>1. Works(h, u, {}) /\ u.stack = h.stack
    BY <1>13, SetInsertPointWorks
  <2> QED
    BY <1>13, <2>1, WorksOn
<1>15. Blames(p, u)
  BY <1>13, BlamesOn
<1> HIDE DEF u
<1>16. Emitted(s, u, {})
  BY <1>14, <1>15, EmittedOn DEF p
<1>17. /\ frame \in Frames /\ frame.step = "test" /\ frame.left = m /\ frame.n = n
       /\ frame.values = arm.values
  <2>1. IsTestFrame(frame, arm, test, body)
    BY <1>3, <1>4, <1>8, <1>13, TestFrameIs
  <2>2. arm \in [step : {"branch", "test"}, n : NodesOf({"if"}), left : Nat,
                 entry : Places, end : Places, else : Places, test : Places,
                 body : Places, values : Seq(Values), places : Seq(Places)]
    BY <1>3 DEF ConditionFrames
  <2>3. frame.n = n /\ frame.values = arm.values
    BY <2>2 DEF TestFrame
  <2> QED
    BY <2>1, <2>3, FramesIn DEF IsTestFrame
<1> HIDE DEF frame
<1>18. Len(n.branches) \in Nat
  BY <1>3, NodeIs, LenProperties
<1> HIDE DEF n, m
<1>19. part \in Nodes /\ Fits(s, part) /\ TypeOf(part) \in {"inst", "ptr"}
  <2>1. m \in 1 .. Len(n.branches)
    BY <1>3, <1>4, <1>18
  <2> QED
    BY <1>3, <2>1, BranchParts
<1>20. ToCome(s, k) = Callees(part) \cup Callees(n.branches[m][2]) \cup CallsOf(n, m - 1)
  <2>1. m \in Nat \ {0}
    BY <1>3, <1>4
  <2> QED
    BY <1>3, <2>1, CallsOfLess
<1> HIDE DEF part
<1>21. Fits(u, part) /\ Compiling(part) \in Frames
  BY <1>16, <1>19, CompilingIs DEF Fits, Emitted
<1>22. t.stack[k] = frame /\ Pushed(s) \subseteq Pushed(t)
  BY <1>6, <1>16, <1>17, <1>21, CalledOn
<1>23. Provided(t, k) /\ ToCome(t, k) = Callees(n.branches[m][2]) \cup CallsOf(n, m - 1)
  <2>1. Fits(t, n)
    BY <1>3, <1>22 DEF Fits
  <2> QED
    <3>1. Provided(t, k) <=> Fits(t, frame.n) /\ \A v \in ToSet(frame.values) : v.type = "inst"
      BY <1>17, <1>22, FrameMeans
    <3>2. ToCome(t, k) = Callees(frame.n.branches[frame.left][2])
                           \cup CallsOf(frame.n, frame.left - 1)
      BY <1>17, <1>22, FrameMeans DEF CallsOf
    <3>3. Fits(t, frame.n) /\ \A v \in ToSet(frame.values) : v.type = "inst"
      BY <1>3, <1>17, <2>1
    <3> QED
      BY <1>17, <3>1, <3>2, <3>3
<1>24. ~Passes(frame) /\ Gives(frame) = "inst" /\ Wants(frame) = {"inst", "ptr"}
  BY <1>17 DEF Passes, Gives, Wants
<1>25. TypeOf(part) \in Wants(frame)
       /\ Matches(s, IF Passes(frame) THEN TypeOf(part) ELSE Gives(frame))
  BY <1>3, <1>19, <1>24
<1>26. {} \cup ToCome(t, k) \cup Callees(part) \cup Truth = ToCome(s, k) \cup Truth
  BY <1>20, <1>23
<1> QED
  BY <1>5, <1>6, <1>16, <1>17, <1>19, <1>21, <1>23, <1>25, <1>26, CallsOn

LEMMA BranchContinues ==
  ASSUME NEW s, AtWork(s), Top(s).step = "branch", NEW t, t = GenArm(Popped(s), Top(s))
  PROVE  Continues(s, t)
BY LastArmContinues, NextArmContinues

\* The frame left below the nodes of a list
LEMMA FrameBelow ==
  ASSUME NEW s, AtWork(s), NEW u, NEW names, Emitted(s, u, names), NEW frame \in Frames,
         NEW nodes \in Seq(Nodes), NEW t, t = CallAll(Call(u, frame), nodes)
  PROVE  t.stack[Len(s.stack)] = frame /\ Pushed(t) = Pushed(u)
<1> DEFINE k == Len(s.stack)
           v == Call(u, frame)
           m == Len(nodes)
<1>1. k \in Nat /\ k >= 3 /\ Len(u.stack) = k - 1 /\ Types(u) /\ Rec(u)
  BY AtWorkIs, RecReady DEF AtWork, Emitted, Works
<1>2. Types(v) /\ Len(v.stack) = k /\ v.stack[k] = frame
  <2>1. /\ Types(v) /\ Len(v.stack) = Len(u.stack) + 1
        /\ v.stack[Len(u.stack) + 1] = frame
    BY <1>1, CallFrame
  <2>2. Len(u.stack) + 1 = k
    BY <1>1
  <2> QED
    BY <1>1, <2>1, <2>2
<1>3. v.scopes = u.scopes
  BY <1>1 DEF Call, Rec, Fresh
<1>4. t = CallAll(v, nodes)
  OBVIOUS
<1> HIDE DEF v, m
<1>5. Listed(v, nodes, t, k, m)
  BY <1>2, <1>4, ListIs DEF m
<1>6. t.stack[k] = v.stack[k] /\ t.scopes = v.scopes
  <2>1. k \in 1 .. k
    BY <1>1
  <2> QED
    BY <1>5, <2>1 DEF Listed
<1> QED
  BY <1>2, <1>3, <1>6 DEF Pushed

LEMMA IfContinues ==
  ASSUME NEW s, AtWork(s), Top(s).step = "compile", NEW n, n = Top(s).n, n.op = "if",
         NEW t, t = Gen(Popped(s), n)
  PROVE  Continues(s, t)
<1> DEFINE p == Popped(s)
           k == Len(s.stack)
           m == Len(n.else)
           end == NewBlock(p)
           else == NewBlock(AddBlock(p))
           z == Nest(p)
           a == AddBlock(AddBlock(z))
           u == SetInsertPoint(a, else)
           frame == [step |-> "branch", n |-> n, left |-> Len(n.branches),
                     entry |-> p.at, end |-> end,
                     else |-> else, test |-> else, body |-> else,
                     values |-> <<>>, places |-> <<>>]
<1>0. n \in Nodes /\ n \in NodesOf({"if"})
  BY NodeAtWork DEF NodesOf
<1>1. /\ ToCome(s, k) = Callees(n) /\ Fits(s, n)
      /\ \A x : (TypeOf(n) # "stale" => x = TypeOf(n)) => Matches(s, x)
  BY NodeAtWork
<1>2. Ready(p) /\ Types(p) /\ p.at \in Places /\ Rec(p)
  BY AtWorkIs DEF Types
<1>3. t = CallAll(Call(u, frame), n.else)
  BY DEF Gen, GenCondition
<1>4. /\ frame.step = "branch" /\ frame.n = n /\ frame.left = Len(n.branches)
      /\ frame.values = <<>> /\ frame.places = <<>>
  OBVIOUS
<1>5. Blames(p, u)
  <2>1. Blames(p, z)
    BY <1>2, BlamesItself, BlamesOn
  <2> HIDE DEF z
  <2>2. Blames(p, AddBlock(z))
    BY <2>1, BlamesOn
  <2>3. Blames(p, a)
    BY <2>2, BlamesOn
  <2> HIDE DEF a
  <2> QED
    BY <2>3, BlamesOn
<1> HIDE DEF p
<1>6. Alike(p, z) /\ Works(p, z, {}) /\ z.stack = p.stack
  BY <1>2, NestAlike
<1> HIDE DEF z
<1> DEFINE z1 == AddBlock(z)
           p1 == AddBlock(p)
<1>7. /\ Works(z, z1, {}) /\ z1.stack = z.stack /\ end \in Places
      /\ Alike(p1, z1)
  BY <1>6, AnotherBlock
<1>8. a = AddBlock(z1) /\ else = NewBlock(p1)
  OBVIOUS
<1> HIDE DEF z1, p1, end, else, a
<1>9. /\ Works(z1, a, {}) /\ a.stack = z1.stack /\ else \in Places /\ else[1] = z1.fn
      /\ Exists(a, else)
  BY <1>7, <1>8, AnotherBlock
<1>10. Works(p, a, {}) /\ a.stack = p.stack /\ Ready(a) /\ else[1] = a.fn
  <2>1. Works(p, z1, {})
    BY <1>6, <1>7, WorksOn
  <2>2. Works(p, a, {})
    BY <1>9, <2>1, WorksOn
  <2> QED
    BY <1>6, <1>7, <1>9, <2>1, <2>2 DEF Works
<1>11. Works(a, u, {}) /\ u.stack = a.stack
  BY <1>9, <1>10, SetInsertPointWorks
<1> HIDE DEF u
<1>12. Works(p, u, {})
  BY <1>10, <1>11, WorksOn
<1>13. Emitted(s, u, {})
  BY <1>5, <1>10, <1>11, <1>12, EmittedOn DEF p
<1>14. m \in Nat /\ n.else \in Seq(Nodes) /\ Len(n.branches) \in Nat
  BY <1>0, NodeIs, LenProperties
<1>15. frame \in Frames
  <2>1. <<>> \in Seq(Values) /\ <<>> \in Seq(Places)
    OBVIOUS
  <2>2. frame \in [step : {"branch", "test"}, n : NodesOf({"if"}), left : Nat,
                   entry : Places, end : Places, else : Places, test : Places, body : Places,
                   values : Seq(Values), places : Seq(Places)]
    BY <1>0, <1>2, <1>7, <1>9, <1>14, <2>1
  <2>3. frame.left <= Len(frame.n.branches) /\ frame.step # "test"
    BY <1>14
  <2>4. frame \in ConditionFrames
    BY <2>2, <2>3 DEF ConditionFrames
  <2> QED
    BY <2>4, FramesIn
<1> HIDE DEF frame
<1>16. \A j \in 1 .. m : Fits(u, n.else[j]) /\ TypeOf(n.else[j]) = "inst"
  <2>1. \A j \in 1 .. m : Fits(s, n.else[j]) /\ TypeOf(n.else[j]) = "inst"
    BY <1>0, <1>1, BranchParts
  <2> QED
    BY <1>13, <2>1 DEF Fits, Emitted
<1>17. t.stack[k] = frame /\ Pushed(t) = Pushed(u)
  BY <1>3, <1>13, <1>14, <1>15, FrameBelow
<1>18. Provided(t, k) /\ ToCome(t, k) = CallsOf(n, Len(n.branches))
  <2>1. Fits(t, n)
    BY <1>1, <1>13, <1>17 DEF Fits, Emitted
  <2>2. \A v \in ToSet(frame.values) : v.type = "inst"
    <3>1. DOMAIN <<>> = {}
      OBVIOUS
    <3> DEFINE x == frame.values
    <3>2. x = <<>>
      BY <1>4
    <3> HIDE DEF x
    <3>3. DOMAIN x = {}
      BY <3>1, <3>2
    <3>4. \A v : v \notin ToSet(x)
      BY <3>3 DEF ToSet
    <3> QED
      BY <3>4 DEF x
  <2>3. Provided(t, k) /\ ToCome(t, k) = CallsOf(frame.n, frame.left)
    BY <1>4, <1>17, <2>1, <2>2, BranchMeans
  <2> QED
    BY <1>4, <2>3
<1>19. /\ ~Passes(frame) /\ Gives(frame) = "inst" /\ "inst" \in Wants(frame)
       /\ n.else = <<>> => Wants(frame) = Sorts
  BY <1>4 DEF Passes, Gives, Wants, Sorts
<1>20. TypeOf(n) = "inst"
  BY <1>0, TypeIs
<1>21. Matches(s, IF Passes(frame) THEN TypeOf(n.else[m]) ELSE Gives(frame))
  BY <1>1, <1>19, <1>20
<1>22. m = 0 => ~Passes(frame) /\ Wants(frame) = Sorts
  BY <1>14, <1>19, EmptySeq
<1>23. m # 0 => TypeOf(n.else[m]) \in Wants(frame)
  <2>1. m # 0 => m \in 1 .. m
    BY <1>14
  <2> QED
    BY <1>16, <1>19, <2>1
<1>24. \A x : (\/ x \in {} \/ x \in ToCome(t, k)
               \/ (\E j \in 1 .. m : x \in Callees(n.else[j])) \/ x \in Truth)
                <=> x \in ToCome(s, k) \/ x \in Truth
  <2>1. \A x : x \in ToCome(s, k) <=>
               \/ x \in CallsOf(n, Len(n.branches))
               \/ \E j \in 1 .. Len(n.else) : x \in Callees(n.else[j])
    BY <1>0, <1>1, BranchCallees
  <2> QED
    BY <1>18, <2>1
<1>25. ~(Top(s).step = "compile" /\ Top(s).n.op = "global")
  OBVIOUS
<1> DEFINE names == {}
           nodes == n.else
<1>26. /\ nodes \in Seq(Nodes) /\ t = CallAll(Call(u, frame), nodes)
       /\ \A j \in 1 .. Len(nodes) : Fits(u, nodes[j])
       /\ Provided(t, k)
  BY <1>3, <1>14, <1>16, <1>18
<1>27. /\ Len(nodes) = 0 => ~Passes(frame) /\ Wants(frame) = Sorts
       /\ Len(nodes) # 0 => TypeOf(nodes[Len(nodes)]) \in Wants(frame)
       /\ Matches(s, IF Passes(frame) THEN TypeOf(nodes[Len(nodes)]) ELSE Gives(frame))
  BY <1>21, <1>22, <1>23
<1>28. \A x : (\/ x \in names \/ x \in ToCome(t, k)
               \/ (\E j \in 1 .. Len(nodes) : x \in Callees(nodes[j])) \/ x \in Truth)
                <=> x \in ToCome(s, k) \/ x \in Truth
  BY <1>24
<1>29. Emitted(s, u, names)
  BY <1>13
<1> HIDE DEF names, nodes, m
<1> QED
  BY <1>15, <1>25, <1>26, <1>27, <1>28, <1>29, CallsAllOn

-----------------------------------------------------------------------------
\* The callee of a call: compiled first, where it is not yet

LEMMA ArrivesSorts ==
  ASSUME program \in Programs, NEW t, Types(t), NEW lo \in Nat \ {0}, NEW x, Arrives(t, lo, x)
  PROVE  x \in Sorts
<1>1. t.val.type \in Sorts
  BY DEF Types, Values, Sorts
<1>2. Len(t.stack) \in Nat /\ \A j \in 1 .. Len(t.stack) : t.stack[j] \in Frames
  BY StackBounds, ElementOfSeq DEF Types
<1>3. \A j \in lo .. Len(t.stack) : Gives(t.stack[j]) \in Sorts
  <2>1. \A j \in lo .. Len(t.stack) : j \in 1 .. Len(t.stack)
    BY <1>2
  <2> QED
    BY <1>2, <2>1, GivesIs
<1> QED
  BY <1>1, <1>3 DEF Arrives

LEMMA CalleeAtWork ==
  ASSUME NEW s, AtWork(s), Top(s).step = "callee"
  PROVE  /\ s.inst # "none" /\ Takes(s.inst, Top(s).args) /\ Top(s).args \in Seq(Values)
         /\ \A a \in ToSet(Top(s).args) : Operand(a)
         /\ s.inst \in Names /\ ToCome(s, Len(s.stack)) = {s.inst} /\ Matches(s, "ptr")
<1> DEFINE k == Len(s.stack)
           args == Top(s).args
<1>1. /\ Top(s) \in Frames /\ Provided(s, k) /\ s.stack[k] = Top(s) /\ k \in Nat
      /\ Types(s)
  BY AtWorkIs DEF Top, AtWork
<1>2. s.inst # "none" /\ Takes(s.inst, args) /\ ToCome(s, k) = {s.inst}
  <2>1. Len(s.stack) # k + 1
    BY <1>1
  <2>2. s.inst # "none" /\ Takes(s.inst, args)
    BY <1>1, <2>1 DEF Provided
  <2>3. ToCome(s, k) = {s.inst}
    BY <1>1 DEF ToCome
  <2> QED
    BY <2>2, <2>3
<1>3. Top(s).args \in Seq(Values)
  BY <1>1, FrameIs DEF CalleeFrames
<1>4. \A a \in ToSet(args) : Operand(a)
  <2>1. ToSet(args) \subseteq Values
    <3>1. DOMAIN args = 1 .. Len(args)
      BY <1>3, LenProperties
    <3> QED
      BY <1>3, <3>1, ElementOfSeq DEF ToSet
  <2> QED
    BY <1>2, <2>1 DEF Operand, Takes
<1>5. Matches(s, "ptr")
  BY DEF Matches, Passes, Gives
<1>6. s.inst \in Names
  BY <1>1 DEF Types
<1> QED
  BY <1>2, <1>3, <1>4, <1>5, <1>6

LEMMA CallFrameMeans ==
  ASSUME NEW call, NEW f, NEW args, call = [step |-> "call", f |-> f, args |-> args]
  PROVE  /\ ~Passes(call) /\ Gives(call) = "ptr" /\ Wants(call) = Sorts
         /\ \A st, i : st.stack[i] = call =>
              (Provided(st, i) <=> Takes(f, args)) /\ ToCome(st, i) = {f}
<1>1. call.step = "call" /\ call.f = f /\ call.args = args
  OBVIOUS
<1>2. ~Passes(call) /\ Gives(call) = "ptr" /\ Wants(call) = Sorts
  BY <1>1 DEF Passes, Gives, Wants, Sorts
<1>3. ASSUME NEW st, NEW i, st.stack[i] = call
      PROVE  (Provided(st, i) <=> Takes(f, args)) /\ ToCome(st, i) = {f}
  BY <1>1, <1>3, FrameMeans
<1> QED
  BY <1>2, <1>3

LEMMA KnownCalleeContinues ==
  ASSUME NEW s, AtWork(s), Top(s).step = "callee", s.inst \in s.entries,
         NEW t, t = GenCallee(Popped(s), Top(s))
  PROVE  Continues(s, t)
<1> DEFINE p == Popped(s)
           k == Len(s.stack)
           f == s.inst
           args == Top(s).args
           call == [step |-> "call", f |-> f, args |-> args]
<1>1. /\ f # "none" /\ Takes(f, args) /\ args \in Seq(Values)
      /\ ToCome(s, k) = {f} /\ Matches(s, "ptr")
  BY CalleeAtWork
<1>2. /\ Ready(p) /\ Types(p) /\ Rec(p) /\ p.inst = f /\ Types(s) /\ k \in Nat /\ k >= 3
      /\ Len(p.stack) = k - 1 /\ \A i \in 1 .. k - 1 : p.stack[i] = s.stack[i]
  BY AtWorkIs DEF AtWork
<1>3. f \in DOMAIN program /\ p.entries = s.entries
  BY <1>2, RecReady DEF Types, Popped, Rec, Fresh
<1>4. t = Call(p, call)
  <2>1. t = Require(Call(p, call), f)
    BY <1>1, <1>2, <1>3 DEF GenCallee
  <2>2. Call(p, call).entries = p.entries
    BY <1>2 DEF Call, Rec, Fresh
  <2> QED
    BY <1>3, <2>1, <2>2 DEF Require
<1>5. call \in Frames
  BY <1>1, <1>3, FramesIn DEF CallFrames
<1>6. /\ ~Passes(call) /\ Gives(call) = "ptr" /\ Wants(call) = Sorts
      /\ \A st, i : st.stack[i] = call =>
           (Provided(st, i) <=> Takes(f, args)) /\ ToCome(st, i) = {f}
  BY CallFrameMeans
<1>7. s.stack[k - 1].step # "callee"
  BY NotACallee
<1> HIDE DEF call, p, f, args
<1>8. /\ Types(t) /\ Len(t.stack) = k /\ t.stack[k] = call
      /\ \A i \in 1 .. k - 1 : t.stack[i] = s.stack[i]
  <2>1. /\ Types(t) /\ OnTop(p, t) /\ Len(t.stack) = Len(p.stack) + 1
        /\ t.stack[Len(p.stack) + 1] = call
    BY <1>2, <1>4, <1>5, CallFrame
  <2>2. Len(p.stack) + 1 = k
    BY <1>2
  <2> QED
    BY <1>2, <2>1, <2>2 DEF OnTop
<1>9. /\ t.val = p.val /\ t.scopes = p.scopes /\ t.fn = p.fn /\ t.at = p.at
      /\ t.blocks = p.blocks /\ t.crashed = p.crashed /\ t.faults = p.faults
  BY <1>2, <1>4 DEF Call, Rec, Fresh
<1>10. Works(p, t, {})
  BY <1>2, <1>8, <1>9, WorksLike
<1>11. Under(s, t)
  BY <1>2, <1>8 DEF Under
<1>12. Pushed(s) \subseteq Pushed(t)
  <2>1. p.scopes = s.scopes
    BY AtWorkIs DEF p
  <2> QED
    BY <1>9, <2>1 DEF Pushed
<1>13. Provided(t, k) /\ ToCome(t, k) = {f}
  BY <1>1, <1>6, <1>8
<1>14. t.val.type \in Wants(call)
  BY <1>6, <1>8 DEF Types, Values, Sorts
<1>15. Matches(s, Gives(call))
  BY <1>1, <1>6
<1>16. {} \cup ToCome(t, k) \cup Truth = ToCome(s, k) \cup Truth
  BY <1>1, <1>13
<1> QED
  BY <1>6, <1>7, <1>8, <1>10, <1>11, <1>12, <1>13, <1>14, <1>15, <1>16, CarriesOne DEF p

LEMMA ForeignCalleeContinues ==
  ASSUME NEW s, AtWork(s), Top(s).step = "callee", s.inst \notin DOMAIN program,
         NEW t, t = GenCallee(Popped(s), Top(s))
  PROVE  Continues(s, t)
<1> DEFINE p == Popped(s)
           f == s.inst
           args == Top(s).args
<1>1. /\ f # "none" /\ args \in Seq(Values) /\ \A a \in ToSet(args) : Operand(a)
      /\ f \in Names /\ ToCome(s, Len(s.stack)) = {f} /\ Matches(s, "ptr")
  BY CalleeAtWork
<1>2. Ready(p) /\ Rec(p) /\ p.inst = f
  BY AtWorkIs
<1>3. t = GenCall(p, f, "ptr", args)
  <2>1. f \in Subroutines \ (DOMAIN program \cup {"none"})
    BY CalleeAtWork DEF Takes
  <2> QED
    BY <1>1, <1>2, <2>1 DEF GenCallee
<1>4. Blames(p, t)
  BY <1>2, <1>3, BlamesItself, BlamesEmissionOn
<1>5. ~(Top(s).step = "compile" /\ Top(s).n.op = "global")
  OBVIOUS
<1> HIDE DEF p, args, f
<1>6. Works(p, t, {f}) /\ Yields(t, "ptr") /\ t.stack = p.stack
  <2>1. "ptr" \in Kinds
    BY KindsAre
  <2>2. \A a \in ToSet(args) : Operand(a)
    BY <1>1
  <2>3. f \in Names /\ args \in Seq(Values) /\ Ready(p)
    BY <1>1, <1>2
  <2>4. /\ Works(p, GenCall(p, f, "ptr", args), {f})
        /\ Yields(GenCall(p, f, "ptr", args), "ptr")
        /\ GenCall(p, f, "ptr", args).stack = p.stack
    BY <2>1, <2>2, <2>3, GenCallWorks
  <2> QED
    BY <1>3, <2>4
<1>7. Emitted(s, t, {f})
  BY <1>4, <1>6, EmittedOn DEF p
<1>8. Matches(s, t.val.type)
  BY <1>1, <1>6 DEF Yields
<1> QED
  BY <1>1, <1>5, <1>7, <1>8, Leaves

LEMMA NewCalleeContinues ==
  ASSUME NEW s, AtWork(s), Top(s).step = "callee", s.inst \in DOMAIN program \ s.entries,
         NEW t, t = GenCallee(Popped(s), Top(s))
  PROVE  Continues(s, t)
<1> DEFINE p == Popped(s)
           k == Len(s.stack)
           f == s.inst
           args == Top(s).args
           call == [step |-> "call", f |-> f, args |-> args]
           define == [step |-> "define", f |-> f]
           body == Compiling(program[f])
           u == Call(p, call)
<1>1. /\ f # "none" /\ Takes(f, args) /\ args \in Seq(Values)
      /\ ToCome(s, k) = {f} /\ Matches(s, "ptr")
  BY CalleeAtWork
<1>2. /\ Ready(p) /\ Types(p) /\ Rec(p) /\ p.inst = f /\ Types(s) /\ k \in Nat /\ k >= 3
      /\ Len(p.stack) = k - 1 /\ \A i \in 1 .. k - 1 : p.stack[i] = s.stack[i]
      /\ program \in Programs /\ p.scopes = s.scopes
      /\ p.crashed = s.crashed /\ p.faults = s.faults
  BY AtWorkIs DEF AtWork
<1>3. f \in DOMAIN program /\ p.entries = s.entries
  BY <1>2, RecReady DEF Popped, Rec, Fresh
<1>4. t = Require(u, f)
  BY <1>1, <1>2, <1>3 DEF GenCallee
<1>5. u.entries = p.entries
  BY <1>2 DEF Call, Rec, Fresh
<1>6. call \in Frames
  BY <1>1, <1>3, FramesIn DEF CallFrames
<1>7. /\ ~Passes(call) /\ Gives(call) = "ptr" /\ Wants(call) = Sorts
      /\ \A st, i : st.stack[i] = call =>
           (Provided(st, i) <=> Takes(f, args)) /\ ToCome(st, i) = {f}
  BY CallFrameMeans
<1>8. define.step = "define" /\ Wants(define) = Sorts
  BY DEF Wants, Sorts
<1>9. body.step = "compile" /\ body.n.op = "function" /\ Wants(body) = Sorts
  <2>1. program[f].op = "function"
    BY <1>2, <1>3, ProgramIs
  <2> QED
    BY <2>1 DEF Compiling, Wants, Sorts
<1>10. s.stack[k - 1].step # "callee"
  BY NotACallee
<1> HIDE DEF call, p
<1>11. /\ Types(u) /\ Len(u.stack) = k /\ u.stack[k] = call /\ Rec(u)
       /\ \A i \in 1 .. k - 1 : u.stack[i] = s.stack[i]
  <2>1. /\ Types(u) /\ OnTop(p, u) /\ Len(u.stack) = Len(p.stack) + 1
        /\ u.stack[Len(p.stack) + 1] = call
    BY <1>2, <1>6, CallFrame
  <2>2. Len(p.stack) + 1 = k
    BY <1>2
  <2> QED
    BY <1>2, <2>1, <2>2 DEF OnTop, Types, Rec
<1>12. /\ u.val = p.val /\ u.scopes = p.scopes /\ u.fn = p.fn /\ u.at = p.at
       /\ u.blocks = p.blocks /\ u.crashed = p.crashed /\ u.faults = p.faults
  BY <1>2 DEF Call, Rec, Fresh
<1>13. t = CallThen(u, program[f], define)
  BY <1>3, <1>4, <1>5 DEF Require
<1>14. /\ t.val = u.val /\ t.scopes = u.scopes /\ t.fn = u.fn /\ t.at = u.at
       /\ t.blocks = u.blocks /\ t.crashed = u.crashed /\ t.faults = u.faults
  BY <1>11, <1>13 DEF CallThen, Call, Rec, Fresh
<1> HIDE DEF u
<1>15. /\ Types(t) /\ OnTop(u, t) /\ Len(t.stack) = Len(u.stack) + 2
       /\ t.stack[Len(u.stack) + 1] = define /\ t.stack[Len(u.stack) + 2] = body
  BY SMTT(30), <1>3, <1>4, <1>5, <1>11, RequireIs
<1> HIDE DEF define, body
<1>16. /\ Len(t.stack) = k + 2 /\ t.stack[k] = call
       /\ t.stack[k + 1] = define /\ t.stack[k + 2] = body
       /\ \A i \in 1 .. k - 1 : t.stack[i] = s.stack[i]
  <2>1. \A i \in 1 .. k : t.stack[i] = u.stack[i]
    BY <1>11, <1>15 DEF OnTop
  <2>2. k \in 1 .. k /\ \A i \in 1 .. k - 1 : i \in 1 .. k
    BY <1>2
  <2> QED
    BY <1>11, <1>15, <2>1, <2>2
<1>17. Works(p, t, {})
  BY <1>2, <1>12, <1>14, <1>15, WorksLike
<1>18. Under(s, t) /\ Above(s, t) = {k, k + 1, k + 2}
  BY SMTT(30), <1>2, <1>16 DEF Under, Above
<1>19. Pushed(s) \subseteq Pushed(t)
  BY <1>2, <1>12, <1>14 DEF Pushed
<1>20. Provided(t, k) /\ ToCome(t, k) = {f}
  BY <1>1, <1>7, <1>16
<1>21. Provided(t, k + 1) /\ ToCome(t, k + 1) = {}
  BY <1>8, <1>16, FrameMeans
<1>22. Provided(t, k + 2) /\ ToCome(t, k + 2) = {}
  BY <1>9, <1>16 DEF Provided, ToCome
<1>23. \A x : Arrives(t, k, x) => Matches(s, x)
  <2>1. k \in Nat \ {0} /\ k <= Len(t.stack) /\ Len(t.stack) \in Nat
    BY <1>2, <1>16
  <2>2. \A x : Arrives(t, k, x) <=> x = "ptr"
    BY <1>7, <1>16, <2>1, ArrivesIs
  <2> QED
    BY <1>1, <2>2
<1>24. \A i \in Above(s, t) :
         Provided(t, i) /\ \A x : Arrives(t, i + 1, x) => x \in Wants(t.stack[i])
  <2> TAKE i \in Above(s, t)
  <2>1. i = k \/ i = k + 1 \/ i = k + 2
    BY <1>18
  <2>2. Wants(t.stack[i]) = Sorts /\ Provided(t, i)
    BY <1>7, <1>8, <1>9, <1>16, <1>20, <1>21, <1>22, <2>1
  <2>3. i + 1 \in Nat \ {0}
    BY <1>2, <2>1
  <2> QED
    BY <1>2, <1>15, <2>2, <2>3, ArrivesSorts
<1>25. {} \cup (UNION { ToCome(t, i) : i \in Above(s, t) }) \cup Truth = ToCome(s, k) \cup Truth
  <2>1. UNION { ToCome(t, i) : i \in {k, k + 1, k + 2} }
          = ToCome(t, k) \cup ToCome(t, k + 1) \cup ToCome(t, k + 2)
    OBVIOUS
  <2> QED
    BY <1>1, <1>18, <1>20, <1>21, <1>22, <2>1
<1>26. WorkedOn(t)
  BY ZenonT(60), <1>10, <1>15, <1>17, <1>18, <1>19, <1>23, <1>24, <1>25, Carries DEF p
<1> QED
  BY <1>2, <1>17, <1>26 DEF Continues, Works

LEMMA CalleeContinues ==
  ASSUME NEW s, AtWork(s), Top(s).step = "callee", NEW t, t = GenCallee(Popped(s), Top(s))
  PROVE  Continues(s, t)
BY KnownCalleeContinues, ForeignCalleeContinues, NewCalleeContinues

LEMMA NodeContinues ==
  ASSUME NEW s, AtWork(s), Top(s).step = "compile", NEW n, n = Top(s).n, n.op # "function",
         NEW t, t = Gen(Popped(s), n)
  PROVE  Continues(s, t)
<1>1. n.op \in Ops
  BY NodeAtWork, OpIs
<1>2. CASE n.op \in {"const", "local", "global", "do"}
  BY <1>2, ConstContinues, LocalContinues, GlobalContinues, DoContinues
<1>3. CASE n.op \in {"define", "variable", "set", "call"}
  BY <1>3, DefineNodeContinues, VariableContinues, SetContinues, CallContinues
<1>4. CASE n.op \in {"if", "while", "unsupported"}
  BY <1>4, IfContinues, WhileContinues, UnsupportedContinues
<1> QED
  BY <1>1, <1>2, <1>3, <1>4 DEF Ops

LEMMA AtWorkContinues ==
  ASSUME NEW s, AtWork(s), Top(s).step \notin {"return", "define"},
         Top(s).step = "compile" => Top(s).n.op # "function",
         NEW t, t = Resume(Popped(s), Top(s))
  PROVE  Continues(s, t)
<1> DEFINE frame == Top(s)
           p == Popped(s)
<1>1. frame \in Frames /\ t = Resume(p, frame)
  BY AtWorkIs
<1>2. CASE frame.step = "compile"
  <2>1. t = Gen(p, frame.n)
    BY <1>1, <1>2 DEF Resume
  <2> QED
    BY <1>2, <2>1, NodeContinues
<1>3. CASE frame.step = "argument"
  <2>1. t = GenArgument(p, frame)
    BY <1>1, <1>3 DEF Resume
  <2> QED
    BY <1>3, <2>1, ArgumentContinues
<1>4. CASE frame.step = "callee"
  <2>1. t = GenCallee(p, frame)
    BY <1>1, <1>4 DEF Resume
  <2> QED
    BY <1>4, <2>1, CalleeContinues
<1>5. CASE frame.step = "call"
  <2>1. t = GenFunctionCall(p, frame)
    BY <1>1, <1>5 DEF Resume
  <2> QED
    BY <1>5, <2>1, CallFrameContinues
<1>6. CASE frame.step = "branch"
  <2>1. t = GenArm(p, frame)
    BY <1>1, <1>6 DEF Resume
  <2> QED
    BY <1>6, <2>1, BranchContinues
<1>7. CASE frame.step = "test"
  <2>1. t = GenTest(p, frame)
    BY <1>1, <1>7 DEF Resume
  <2> QED
    BY <1>7, <2>1, TestContinues
<1>8. CASE frame.step = "loop"
  <2>1. t = GenLoopBody(p, frame)
    BY <1>1, <1>8 DEF Resume
  <2> QED
    BY <1>8, <2>1, LoopContinues
<1>9. CASE frame.step = "again"
  <2>1. t = GenAgain(p, frame)
    BY <1>1, <1>9 DEF Resume
  <2> QED
    BY <1>9, <2>1, AgainContinues
<1>10. CASE frame.step = "slot"
  <2>1. t = GenSlot(p, frame)
    BY <1>1, <1>10 DEF Resume
  <2> QED
    BY <1>10, <2>1, SlotContinues
<1>11. CASE frame.step = "assign"
  <2>1. t = GenStore(p, frame)
    BY <1>1, <1>11 DEF Resume
  <2> QED
    BY <1>11, <2>1, StoreContinues
<1>12. CASE frame.step = "bind"
  <2>1. t = GenBind(p, frame)
    BY <1>1, <1>12 DEF Resume
  <2> QED
    BY <1>12, <2>1, BindContinues
<1> QED
  BY <1>1, <1>2, <1>3, <1>4, <1>5, <1>6, <1>7, <1>8, <1>9, <1>10, <1>11, <1>12, StepOfFrame

-----------------------------------------------------------------------------
\* The invariant, step by step

\* The calls of what is done
Told(st) ==
  \A f \in Done(st) \ Torn(st) : SupportedFunction(f) =>
    Called(st.blocks[f]) \cup Truth = Callees(program[f].body) \cup Truth

LEMMA SInvIs ==
  ASSUME NEW st
  PROVE  SInv(st) <=>
           /\ Scoped(st)
           /\ st.crashed # "no" => Blamed(st, st.crashed)
           /\ \A fault \in st.faults : Blamed(st, fault[1])
           /\ st.crashed = "no" => (Working(st) => WorkedOn(st)) /\ Told(st)
BY DEF SInv, WorkedOn, Told

\* What is wrong is wrong with one function, of which nothing is promised
LEMMA StepBlames ==
  ASSUME NEW s, SInv(s), s.crashed = "no", NEW t, NEW g,
         Scoped(s) => Scoped(t), Torn(s) \subseteq Torn(t),
         t.crashed \in {s.crashed, g},
         \A fault \in t.faults : fault \in s.faults \/ fault[1] = g,
         Blamed(t, g) \/ (t.crashed = s.crashed /\ t.faults = s.faults),
         Working(t) => WorkedOn(t), Told(t)
  PROVE  SInv(t)
<1>1. \A f : Blamed(s, f) => Blamed(t, f)
  BY DEF Blamed
<1>2. Scoped(s) /\ \A fault \in s.faults : Blamed(s, fault[1])
  BY SInvIs
<1>3. t.crashed # "no" => Blamed(t, t.crashed)
  OBVIOUS
<1>4. \A fault \in t.faults : Blamed(t, fault[1])
  BY <1>1, <1>2
<1> QED
  BY <1>2, <1>3, <1>4, SInvIs

LEMMA ToldOn ==
  ASSUME NEW s, Told(s), NEW t, Done(t) \ Torn(t) \subseteq Done(s) \ Torn(s),
         \A f \in Done(t) \ Torn(t) : t.blocks[f] = s.blocks[f]
  PROVE  Told(t)
BY DEF Told

LEMMA GoesOnSupported ==
  ASSUME NEW s, Types(s), IInv(s), SInv(s), s.crashed = "no", s.open # {},
         Len(s.stack) >= 3, program \in Programs,
         Top(s).step \notin {"return", "define"},
         Top(s).step = "compile" => Top(s).n.op # "function",
         NEW t, t = Resume(Popped(s), Top(s))
  PROVE  SInv(t)
<1> DEFINE p == Popped(s)
<1>1. Types(t) /\ IInv(t) /\ Onward(s, t)
  BY GoesOn
<1>2. /\ Live(t) <=> Live(s)
      /\ Spared(s, t) /\ t.fn = s.fn /\ Torn(t) = Torn(s) /\ Done(t) = s.entries
      /\ Done(s) = s.entries
  BY <1>1, OnwardKeeps, OnwardSpares DEF Onward, Same, Torn, Done
<1>3. s.stack # <<>>
  BY BottomIs
<1>4. /\ Types(p) /\ Top(s) \in Frames /\ Rec(s)
  BY <1>3, PoppedIs DEF Types, Rec
<1>5. p.fn = s.fn /\ p.scopes = s.scopes /\ p.crashed = s.crashed /\ p.faults = s.faults
  BY <1>4 DEF Popped, Rec, Fresh
<1>6. Blames(p, t)
  <2>1. Top(s).step = "compile" => Top(s).n \in Nodes
    <3>1. Top(s).step = "compile" => Top(s) \in CompileFrames
      BY <1>4, FrameIs
    <3> QED
      BY <3>1, ProgramIs DEF CompileFrames
  <2> QED
    BY <1>4, <2>1, BlamesResume
<1> HIDE DEF p
<1>7. /\ Scoped(s) => Scoped(t)
      /\ t.crashed \in {s.crashed, s.fn}
      /\ \A fault \in t.faults : fault \in s.faults \/ fault[1] = s.fn
  BY <1>5, <1>6 DEF Blames, Scoped
<1>8. Told(t)
  <2>1. Told(s)
    BY SInvIs
  <2> QED
    BY <1>2, <2>1, ToldOn DEF Spared
<1>9. CASE Working(s)
  <2>1. AtWork(s)
    BY <1>9, SInvIs DEF AtWork, Working
  <2>2. Continues(s, t)
    BY <2>1, AtWorkContinues
  <2> QED
    BY <1>2, <1>7, <1>8, <2>2, StepBlames DEF Continues
<1>10. CASE ~Working(s)
  <2>1. ~Working(t)
    BY <1>2, <1>10 DEF Working
  <2>2. Blamed(t, s.fn)
    <3>1. CASE Live(s)
      BY <1>10, <3>1 DEF Working, Blamed
    <3>2. CASE ~Live(s)
      BY <1>2, <3>2 DEF IInv, Loose, Blamed
    <3> QED
      BY <3>1, <3>2
  <2> QED
    BY <1>2, <1>7, <1>8, <2>1, <2>2, StepBlames
<1> QED
  BY <1>9, <1>10

\* The frame that goes on is no longer on the stack
LEMMA PoppedOnly ==
  ASSUME NEW s, Types(s), s.stack # <<>>
  PROVE  /\ Types(Popped(s)) /\ Rec(Popped(s)) /\ Top(s) \in Frames
         /\ Popped(s).fn = s.fn /\ Popped(s).scopes = s.scopes /\ Popped(s).at = s.at
         /\ Popped(s).blocks = s.blocks /\ Popped(s).open = s.open
         /\ Popped(s).crashed = s.crashed /\ Popped(s).faults = s.faults
         /\ Popped(s).val = s.val
<1> DEFINE p == Popped(s)
<1>1. /\ Types(p) /\ Same(s, p) /\ Top(s) \in Frames /\ p.at = s.at /\ p.blocks = s.blocks
      /\ p.val = s.val
  BY PoppedIs
<1>2. p.scopes = s.scopes /\ p.crashed = s.crashed /\ p.faults = s.faults
  BY DEF Popped, Types, Fresh
<1> QED
  BY <1>1, <1>2 DEF Same, Types, Rec

\* A function in the middle of another: both are torn
LEMMA NestedFunctionSupported ==
  ASSUME NEW s, Types(s), IInv(s), SInv(s), s.crashed = "no", s.open # {},
         Len(s.stack) >= 3, program \in Programs,
         Top(s).step = "compile", NEW n, Top(s).n = n, n.op = "function",
         NEW t, t = GenFunction(Popped(s), n)
  PROVE  SInv(t)
<1> DEFINE p == Popped(s)
<1>1. n.name \in Names /\ n.body \in Nodes
  BY NestedFunctionIs
<1>2. \A g \in s.entries \ Torn(t) : t.blocks[g] = s.blocks[g]
  BY NestedFunctionKeeps
<1>3. s.stack # <<>>
  BY BottomIs
<1>4. /\ Types(p) /\ p.open = s.open /\ p.scopes = s.scopes
      /\ p.crashed = s.crashed /\ p.faults = s.faults
      /\ p.entries = s.entries /\ p.cut = s.cut /\ p.within = s.within
  BY <1>3, PoppedOnly, PoppedIs DEF Same
<1> HIDE DEF p
<1>5. t = GenFunction(p, n)
  BY DEF p
<1>6. /\ t.fn = n.name /\ t.entries = s.entries /\ t.open = s.open \cup {n.name}
      /\ t.cut = s.cut \cup s.open /\ t.within = s.within \cup {n.name}
  <2>1. Entered(p, n, t)
    BY <1>1, <1>4, <1>5, GenFunctionIs
  <2>2. /\ t.fn = n.name /\ t.entries = p.entries /\ t.open = p.open \cup {n.name}
        /\ t.cut = p.cut \cup p.open
        /\ t.within = IF p.open = {} THEN p.within ELSE p.within \cup {n.name}
    BY <2>1 DEF Entered
  <2> QED
    BY <1>4, <2>2
<1>7. Torn(s) \subseteq Torn(t) /\ t.fn \in Torn(t) /\ ~Working(t)
  BY <1>6 DEF Torn, Working, Live
<1>8. Done(s) = s.entries /\ Done(t) = s.entries
  BY <1>6 DEF Done
<1>9. t.crashed = s.crashed /\ t.faults = s.faults /\ (Scoped(s) => Scoped(t))
  BY <1>1, <1>4, <1>5, EntersScope DEF Scoped
<1>10. Told(t)
  BY <1>2, <1>7, <1>8, SInvIs, ToldOn
<1> QED
  BY <1>7, <1>9, <1>10, StepBlames

LEMMA NestedReturnSupported ==
  ASSUME NEW s, Types(s), IInv(s), SInv(s), s.crashed = "no", s.open # {},
         Len(s.stack) >= 3, program \in Programs, Top(s).step = "return",
         NEW t, t = EndFunction(Popped(s), Top(s))
  PROVE  SInv(t)
<1> DEFINE p == Popped(s)
           k == Len(s.stack)
<1>1. s.stack # <<>> /\ k \in 3 .. Len(s.stack)
  BY BottomIs, StackBounds
<1>2. Concluded(s, t)
  BY <1>1, EndFunctionIs
<1>3. Spared(s, t)
  BY <1>2, NestedReturnKeeps
<1>4. /\ t.fn = s.fn /\ t.open = Top(s).open /\ t.entries = s.entries
      /\ Torn(t) = Torn(s)
  BY <1>2 DEF Concluded, Torn
<1>5. ~Live(s) /\ s.stack[1].f \in Top(s).open
  <2>1. MiddleAt(s, k)
    BY <1>1, MiddleIs
  <2> QED
    BY <2>1 DEF MiddleAt, Top
<1>6. s.fn \in Torn(s)
  BY <1>5 DEF IInv, Loose
<1>7. ~Working(t) /\ Done(s) = s.entries /\ Done(t) = s.entries
  BY <1>4, <1>5, <1>6 DEF Working, Live, Done
<1>8. /\ Rec(p) /\ p.fn = s.fn /\ p.scopes = s.scopes
      /\ p.crashed = s.crashed /\ p.faults = s.faults
  BY <1>1, PoppedOnly
<1>9. Blames(p, t)
  BY <1>8, BlamesReturn
<1> HIDE DEF p
<1>10. /\ Scoped(s) => Scoped(t)
       /\ t.crashed \in {s.crashed, s.fn}
       /\ \A fault \in t.faults : fault \in s.faults \/ fault[1] = s.fn
  BY <1>8, <1>9 DEF Blames, Scoped
<1>11. Blamed(t, s.fn)
  BY <1>4, <1>6 DEF Blamed
<1>12. Told(t)
  BY <1>3, <1>4, <1>7, SInvIs, ToldOn DEF Spared
<1> QED
  BY <1>4, <1>7, <1>10, <1>11, <1>12, StepBlames

\* An entry is made for what has been compiled
LEMMA EntrySupported ==
  ASSUME NEW s, Types(s), SInv(s), s.crashed = "no", s.stack # <<>>,
         Top(s).step = "define", ~Live(s),
         NEW t, t = DefineEntry(Popped(s), Top(s)),
         Done(t) \ Torn(s) \subseteq Done(s)
  PROVE  SInv(t)
<1> DEFINE p == Popped(s)
<1>1. /\ t.fn = s.fn /\ t.blocks = s.blocks
      /\ t.open = s.open /\ t.cut = s.cut /\ t.within = s.within
  BY DefineEntryIs
<1>2. Torn(t) = Torn(s) /\ ~Working(t)
  BY <1>1 DEF Torn, Working, Live
<1>3. Rec(p) /\ p.scopes = s.scopes /\ p.crashed = s.crashed /\ p.faults = s.faults
  BY PoppedOnly
<1> HIDE DEF p
<1>4. t.scopes = s.scopes /\ t.crashed = s.crashed /\ t.faults = s.faults
  BY <1>3 DEF DefineEntry, Rec, Fresh, p
<1>5. Scoped(s) => Scoped(t)
  BY <1>4 DEF Scoped
<1>6. Told(t)
  BY <1>1, <1>2, SInvIs, ToldOn
<1> QED
  BY <1>2, <1>4, <1>5, <1>6, StepBlames

LEMMA NestedDefineSupported ==
  ASSUME NEW s, Types(s), IInv(s), SInv(s), s.crashed = "no", s.open # {},
         Len(s.stack) >= 3, program \in Programs, Top(s).step = "define",
         NEW t, t = DefineEntry(Popped(s), Top(s))
  PROVE  SInv(t)
<1> DEFINE k == Len(s.stack)
<1>1. s.stack # <<>> /\ k \in 3 .. Len(s.stack) /\ k \in Nat
  BY BottomIs, StackBounds
<1>2. t.entries = s.entries \cup {Top(s).f} /\ t.open = s.open
  BY <1>1, DefineEntryIs
<1>3. Top(s).f \in s.within /\ ~Live(s)
  <2>1. MiddleAt(s, k)
    BY <1>1, MiddleIs
  <2>2. Len(s.stack) # k + 1
    BY <1>1
  <2> QED
    BY <2>1, <2>2 DEF MiddleAt, Top
<1>4. Done(t) \ Torn(s) \subseteq Done(s)
  BY <1>2, <1>3 DEF Done, Torn
<1> QED
  BY <1>1, <1>3, <1>4, EntrySupported

LEMMA LastDefineSupported ==
  ASSUME NEW s, Types(s), IInv(s), SInv(s), s.crashed = "no", s.open = {},
         Len(s.stack) = 1, Top(s).step = "define",
         NEW t, t = DefineEntry(Popped(s), Top(s))
  PROVE  SInv(t)
<1>1. s.stack # <<>> /\ Top(s) = s.stack[1]
  <2>1. Len(<<>>) # 1
    OBVIOUS
  <2>2. Len(s.stack) = 1
    OBVIOUS
  <2>3. s.stack # <<>>
    BY <2>1, <2>2, Zenon
  <2> QED
    BY <2>3 DEF Top
<1>2. /\ t.entries = s.entries \cup {Top(s).f} /\ Len(t.stack) = Len(s.stack) - 1
  BY <1>1, DefineEntryIs
<1>3. Len(t.stack) # 1
  BY <1>2
<1>4. Done(t) \ Torn(s) \subseteq Done(s)
  BY <1>1, <1>2, <1>3 DEF Done
<1>5. ~Live(s)
  BY DEF Live
<1> QED
  BY <1>1, <1>4, <1>5, EntrySupported

\* The function that was required begins, with all of its calls to come
LEMMA FirstFunctionSupported ==
  ASSUME NEW s, Types(s), IInv(s), SInv(s), s.crashed = "no", s.open = {},
         Len(s.stack) = 2, program \in Programs,
         NEW t, t = GenFunction(Popped(s), Top(s).n)
  PROVE  SInv(t)
<1> DEFINE p == Popped(s)
           f == s.stack[1].f
           n == Top(s).n
           body == Compiling(n.body)
<1>1. s.stack # <<>> /\ 1 \in DOMAIN s.stack
  BY StackBounds, EmptySeq
<1>2. /\ s.stack[1].step = "define" /\ Top(s) = Compiling(program[f]) /\ f \notin s.entries
  BY <1>1 DEF IInv, Bottom, Top
<1>3. f \in DOMAIN program
  BY <1>1, <1>2, DefinesIsDefined
<1>4. n = program[f] /\ n.name = f /\ n.body \in Nodes /\ n.name \in Names
  BY <1>2, <1>3, ProgramIs DEF Compiling, Names
<1>5. /\ Types(p) /\ p.scopes = s.scopes /\ p.crashed = s.crashed /\ p.faults = s.faults
      /\ p.blocks = s.blocks /\ p.open = {} /\ p.entries = s.entries
      /\ p.cut = s.cut /\ p.within = s.within
      /\ Len(p.stack) = 1 /\ p.stack[1] = s.stack[1]
  <2>1. Len(s.stack) - 1 = 1 /\ 1 \in 1 .. 1
    OBVIOUS
  <2> QED
    <3>1. /\ Types(p) /\ p.scopes = s.scopes /\ p.crashed = s.crashed
          /\ p.faults = s.faults /\ p.blocks = s.blocks /\ p.open = {}
      BY <1>1, PoppedOnly
    <3>2. p.entries = s.entries /\ p.cut = s.cut /\ p.within = s.within
      BY <1>1, PoppedIs DEF Same
    <3>3. Len(p.stack) = 1 /\ p.stack[1] = s.stack[1]
      BY <1>1, <2>1, PoppedIs
    <3> QED
      BY <3>1, <3>2, <3>3
<1>6. t = GenFunction(p, n) /\ Types(t)
  BY <1>4, FirstFunctionKeeps
<1> HIDE DEF p, n, f
<1>7. Entered(p, n, t)
  BY <1>4, <1>5, <1>6, GenFunctionIs
<1>8. /\ t.fn = f /\ t.entries = s.entries /\ t.open = {f}
      /\ t.cut = s.cut /\ t.within = s.within
      /\ t.blocks[f] = Append(Blocks(p, f), <<>>)
      /\ \A g \in DOMAIN s.blocks : g # f => t.blocks[g] = s.blocks[g]
  <2>1. /\ t.fn = n.name /\ t.entries = p.entries /\ t.open = p.open \cup {n.name}
        /\ t.cut = p.cut \cup p.open
        /\ t.within = IF p.open = {} THEN p.within ELSE p.within \cup {n.name}
        /\ t.blocks[n.name] = Append(Blocks(p, n.name), <<>>)
        /\ \A g \in DOMAIN p.blocks : g # n.name => t.blocks[g] = p.blocks[g]
    BY <1>7 DEF Entered
  <2> QED
    BY <1>4, <1>5, <2>1
<1>9. /\ Len(t.stack) = 3 /\ t.stack[1] = s.stack[1]
      /\ t.stack[2] = [step |-> "return", open |-> {}] /\ t.stack[3] = body
  <2>1. /\ Len(t.stack) = Len(p.stack) + 2
        /\ \A i \in 1 .. Len(p.stack) : t.stack[i] = p.stack[i]
        /\ t.stack[Len(p.stack) + 1] = [step |-> "return", open |-> p.open]
        /\ t.stack[Len(p.stack) + 2] = Compiling(n.body)
    BY <1>7 DEF Entered
  <2>2. Len(p.stack) + 2 = 3 /\ Len(p.stack) + 1 = 2 /\ 1 \in 1 .. Len(p.stack)
    BY <1>5
  <2> QED
    BY <1>5, <2>1, <2>2, Zenon
<1>10. /\ t.crashed = s.crashed /\ t.faults = s.faults /\ (Scoped(s) => Scoped(t))
       /\ n.name \notin Slotless => n.name \in Pushed(t)
  BY <1>4, <1>5, <1>6, EntersScope DEF Scoped
<1>11. Torn(t) = Torn(s) /\ Done(s) = s.entries /\ Done(t) = s.entries
  BY <1>8, <1>9 DEF Torn, Done
<1>12. Told(t)
  <2>1. \A g \in Done(s) \ Torn(s) : g \in DOMAIN s.blocks /\ g # f
    BY <1>2, <1>11 DEF IInv, Kept
  <2> QED
    BY <1>8, <1>11, <2>1, SInvIs, ToldOn
<1>13. ASSUME Working(t)
       PROVE  WorkedOn(t)
  <2>1. f \notin Torn(s) /\ SupportedNode(n)
    BY <1>4, <1>8, <1>11, <1>13 DEF Working, Live, SupportedFunction
  <2>2. Called(t.blocks[f]) = {}
    <3>1. f \notin DOMAIN s.blocks
      BY <1>2, <1>11, <2>1 DEF IInv, Kept
    <3>2. Blocks(p, f) = <<>>
      BY <1>5, <3>1 DEF Blocks
    <3>3. Append(<<>>, <<>>) = <<<<>>>> /\ DOMAIN <<<<>>>> = 1 .. 1 /\ <<<<>>>>[1] = <<>>
      OBVIOUS
    <3>4. DOMAIN <<>> = {} /\ 1 .. 1 = {1}
      OBVIOUS
    <3>5. DOMAIN t.blocks[f] = {1} /\ t.blocks[f][1] = <<>>
      BY <1>8, <3>2, <3>3, <3>4
    <3>6. \A x : x \notin Called(t.blocks[f])
      BY <3>4, <3>5, CalledIs
    <3> QED
      BY <3>6
  <2>3. Supported(n.body) /\ TypeOf(n.body) \in {"inst", "ptr"} /\ n.body.op # "function"
    BY <1>4, <2>1, SupportedParts DEF SupportedNode, Instance, Sound
  <2>4. Fits(t, n.body)
    <3>1. f \notin Slotless
      BY <1>3, AnalysisAssumption DEF Analysis
    <3> QED
      BY <1>4, <1>10, <2>1, <2>3, <3>1 DEF Fits, SupportedNode
  <2>5. Provided(t, 3) /\ ToCome(t, 3) = Callees(n.body)
    BY <1>9, <2>3, <2>4, CompilingMeans
  <2>6. ToCome(t, 1) = {} /\ ToCome(t, 2) = {}
    <3>1. t.stack[1].step = "define" /\ t.stack[2].step = "return"
      BY <1>2, <1>9
    <3> QED
      BY <3>1 DEF ToCome
  <2>7. CallsAddUp(t)
    <3>1. DOMAIN t.stack = {1, 2, 3}
      BY <1>6, <1>9, StackBounds
    <3>2. UNION { ToCome(t, i) : i \in {1, 2, 3} }
            = ToCome(t, 1) \cup ToCome(t, 2) \cup ToCome(t, 3)
      OBVIOUS
    <3>3. Called(t.blocks[t.fn]) \cup (UNION { ToCome(t, i) : i \in DOMAIN t.stack })
            = Callees(n.body)
      BY <1>8, <2>2, <2>5, <2>6, <3>1, <3>2
    <3>4. n = program[t.fn]
      BY <1>4, <1>8
    <3> QED
      BY <3>3, <3>4 DEF CallsAddUp
  <2>8. Fed(t)
    <3>1. Gives(t.stack[3]) = TypeOf(n.body) /\ ~Passes(t.stack[3]) /\ Wants(t.stack[3]) = Sorts
      BY <1>9 DEF Gives, Passes, Wants, Compiling, Sorts
    <3>2. Wants(t.stack[2]) = {"inst", "ptr"}
      BY <1>9 DEF Wants
    <3>3. 4 > Len(t.stack) /\ 3 <= Len(t.stack) /\ Len(t.stack) \in Nat
          /\ 3 \in Nat \ {0} /\ 4 \in Nat \ {0}
      BY <1>9
    <3>4. \A x : Arrives(t, 3, x) => x \in Wants(t.stack[2])
      BY <2>3, <3>1, <3>2, <3>3, ArrivesIs
    <3>5. \A x : Arrives(t, 4, x) => x \in Wants(t.stack[3])
      BY <1>6, <3>1, <3>3, ArrivesSorts
    <3>6. \A i \in 2 .. 3 : (i = 2 /\ i + 1 = 3) \/ (i = 3 /\ i + 1 = 4)
      OBVIOUS
    <3> QED
      BY <1>9, <3>4, <3>5, <3>6, FedIs
  <2>9. \A i \in 3 .. 3 : i = 3
    OBVIOUS
  <2> QED
    BY <1>9, <2>5, <2>7, <2>8, <2>9 DEF WorkedOn
<1> QED
  BY <1>10, <1>11, <1>12, <1>13, StepBlames

\* The result is stored, and the function returns
LEMMA EndFunctionWorks ==
  ASSUME NEW p, Ready(p), p.val.type \in {"inst", "ptr"}, NEW frame
  PROVE  /\ EndFunction(p, frame).crashed = p.crashed /\ EndFunction(p, frame).faults = p.faults
         /\ Called(EndFunction(p, frame).blocks[p.fn]) = Called(p.blocks[p.fn])
<1> DEFINE dest == Argument(p.fn, 1)
           h == GenInstanceAssign(p, dest, p.val)
           ret == Instruction("ret", <<>>, <<>>)
           e == Emit(h, ret)
<1>1. dest \in Values /\ dest.type = "ptr"
  <2>1. p.fn \in Names
    BY DEF Ready, Types
  <2> QED
    BY <2>1, Constants DEF Argument
<1>2. p.val \in Values /\ p.val # NoValue /\ p.val.type # "bool"
  BY RecReady DEF NoValue
<1> HIDE DEF dest
<1>3. Works(p, h, {}) /\ Ready(h)
  BY <1>1, <1>2, GenInstanceAssignWorks DEF Works
<1>4. ret \in Instructions /\ ret.op = "ret"
  <2>1. <<>> \in Seq(Values) /\ <<>> \in Seq(Places)
    OBVIOUS
  <2> QED
    BY <2>1 DEF Instruction, Instructions, Names
<1> HIDE DEF h, ret
<1>5. Works(h, e, {})
  BY <1>3, <1>4, EmitWorks
<1>6. Works(p, e, {}) /\ Rec(e)
  BY <1>3, <1>5, WorksOn, RecReady DEF Works
<1>7. EndFunction(p, frame) = [e EXCEPT !.open = frame.open]
  BY DEF EndFunction, GenReturn, e, h, ret, dest
<1> HIDE DEF e
<1>8. /\ EndFunction(p, frame).crashed = e.crashed /\ EndFunction(p, frame).faults = e.faults
      /\ EndFunction(p, frame).blocks = e.blocks
  BY <1>6, <1>7 DEF Rec, Fresh
<1> QED
  BY <1>6, <1>8 DEF Works

\* The function that was required is left, all of its calls made
LEMMA LastReturnSupported ==
  ASSUME NEW s, Types(s), IInv(s), SInv(s), s.crashed = "no", s.open # {},
         Len(s.stack) = 2, program \in Programs, Top(s).step = "return",
         NEW t, t = EndFunction(Popped(s), Top(s))
  PROVE  SInv(t)
<1> DEFINE p == Popped(s)
           f == s.stack[1].f
<1>1. s.stack # <<>> /\ DOMAIN s.stack = {1, 2} /\ Top(s) = s.stack[2]
  <2>1. Len(<<>>) # 2 /\ 1 .. 2 = {1, 2}
    OBVIOUS
  <2>2. Len(s.stack) = 2
    OBVIOUS
  <2>3. s.stack # <<>>
    BY <2>1, <2>2, Zenon
  <2> QED
    BY <2>1, <2>3, StackBounds DEF Top
<1>2. s.stack[1].step = "define" /\ f \in s.open /\ Top(s).open = {}
  <2>1. Top(s) # Compiling(program[f]) /\ Len(s.stack) # 1
    BY DEF Compiling
  <2> QED
    BY <1>1, <2>1 DEF IInv, Bottom
<1>3. Concluded(s, t) /\ Len(s.stack) >= 2
  BY <1>1, EndFunctionIs
<1>4. Spared(s, t)
  BY <1>3, EndFunctionKeeps
<1>5. /\ t.fn = s.fn /\ t.open = {} /\ t.entries = s.entries /\ Torn(t) = Torn(s)
      /\ Len(t.stack) = 1 /\ t.stack[1] = s.stack[1]
  <2>1. /\ t.fn = s.fn /\ t.open = Top(s).open /\ t.entries = s.entries
        /\ t.cut = s.cut /\ t.within = s.within
        /\ Len(t.stack) = 2 - 1 /\ \A i \in 1 .. 2 - 1 : t.stack[i] = s.stack[i]
    BY <1>3 DEF Concluded
  <2>2. 2 - 1 = 1 /\ 1 \in 1 .. 1
    OBVIOUS
  <2> QED
    BY <1>2, <2>1, <2>2 DEF Torn
<1>6. ~Working(t) /\ Done(s) = s.entries /\ Done(t) = s.entries \cup {f}
  BY <1>5 DEF Working, Live, Done
<1>7. /\ Rec(p) /\ Types(p) /\ p.fn = s.fn /\ p.scopes = s.scopes /\ p.val = s.val
      /\ p.at = s.at /\ p.blocks = s.blocks /\ p.crashed = s.crashed /\ p.faults = s.faults
  BY <1>1, PoppedOnly
<1>8. Blames(p, t)
  BY <1>7, BlamesReturn
<1>9. t = EndFunction(p, Top(s))
  OBVIOUS
<1> HIDE DEF p, f
<1>10. /\ Scoped(s) => Scoped(t)
       /\ t.crashed \in {s.crashed, s.fn}
       /\ \A fault \in t.faults : fault \in s.faults \/ fault[1] = s.fn
  BY <1>7, <1>8 DEF Blames, Scoped
<1>11. Live(s) => s.fn = f
  BY DEF IInv, Alive, f
<1>12. f \notin Torn(s) => Live(s)
  BY <1>2 DEF IInv, Loose
<1>13. ASSUME f \notin Torn(s) /\ SupportedFunction(f) =>
                Called(t.blocks[f]) \cup Truth = Callees(program[f].body) \cup Truth
       PROVE  Told(t)
  <2>1. Told(s)
    BY SInvIs
  <2> SUFFICES ASSUME NEW g \in Done(t) \ Torn(t), SupportedFunction(g)
               PROVE  Called(t.blocks[g]) \cup Truth = Callees(program[g].body) \cup Truth
    BY DEF Told
  <2>2. CASE g = f
    BY <1>5, <1>13, <2>2
  <2>3. CASE g # f
    <3>1. g \in s.entries \ Torn(s)
      BY <1>5, <1>6, <2>3
    <3>2. t.blocks[g] = s.blocks[g]
      BY <1>4, <3>1 DEF Spared
    <3> QED
      BY <1>6, <2>1, <3>1, <3>2 DEF Told
  <2> QED
    BY <2>2, <2>3
<1>14. CASE Working(s)
  <2>1. WorkedOn(s) /\ Live(s) /\ s.fn = f
    BY <1>11, <1>14, SInvIs DEF Working
  <2>2. s.val.type \in {"inst", "ptr"}
    <3>1. Arrives(s, 3, s.val.type)
      <4>1. 3 > Len(s.stack) /\ Len(s.stack) \in Nat /\ 3 \in Nat \ {0}
        OBVIOUS
      <4> QED
        BY <4>1, ArrivesIs
    <3>2. 2 \in 2 .. Len(s.stack) /\ 2 + 1 = 3
      OBVIOUS
    <3>3. s.val.type \in Wants(s.stack[2])
      BY <2>1, <3>1, <3>2, FedIs DEF WorkedOn
    <3> QED
      BY <1>1, <3>3 DEF Wants
  <2>3. Ready(p)
    <3>1. Exists(s, s.at) /\ s.at[1] = s.fn
      BY <2>1, MineIsNotDone, LiveIs
    <3> QED
      BY <1>7, <3>1 DEF Ready, Exists
  <2>4. /\ t.crashed = s.crashed /\ t.faults = s.faults
        /\ Called(t.blocks[f]) = Called(s.blocks[f])
    BY <1>7, <1>9, <2>1, <2>2, <2>3, EndFunctionWorks
  <2>5. Called(s.blocks[f]) \cup Truth = Callees(program[f].body) \cup Truth
    <3>1. ToCome(s, 1) = {} /\ ToCome(s, 2) = {}
      BY <1>1, <1>2 DEF ToCome
    <3>2. UNION { ToCome(s, i) : i \in {1, 2} } = ToCome(s, 1) \cup ToCome(s, 2)
      OBVIOUS
    <3>3. UNION { ToCome(s, i) : i \in DOMAIN s.stack } = {}
      BY <1>1, <3>1, <3>2
    <3>4. CallsAddUp(s)
      BY <2>1 DEF WorkedOn
    <3> QED
      BY SMTT(30), <2>1, <3>3, <3>4 DEF CallsAddUp
  <2>6. Told(t)
    BY <1>13, <2>4, <2>5
  <2> QED
    BY <1>5, <1>6, <1>10, <2>4, <2>6, StepBlames
<1>15. CASE ~Working(s)
  <2>1. ~(f \notin Torn(s) /\ SupportedFunction(f))
    BY <1>11, <1>12, <1>15 DEF Working
  <2>2. Told(t)
    BY <1>13, <2>1
  <2>3. Blamed(t, s.fn)
    <3>1. CASE Live(s)
      BY <1>15, <3>1 DEF Working, Blamed
    <3>2. CASE ~Live(s)
      BY <1>5, <3>2 DEF IInv, Loose, Blamed
    <3> QED
      BY <3>1, <3>2
  <2> QED
    BY <1>5, <1>6, <1>10, <2>2, <2>3, StepBlames
<1> QED
  BY <1>14, <1>15

LEMMA ContinueSupported ==
  ASSUME NEW s, Types(s), IInv(s), SInv(s), s.crashed = "no", s.stack # <<>>,
         program \in Programs, NEW t, t = Continue(s)
  PROVE  SInv(t)
<1>1. Last(s.stack) = Top(s)
  BY PoppedIs
<1>2. t = Resume(Popped(s), Top(s))
  BY <1>1 DEF Continue, Popped
<1>3. CASE Len(s.stack) = 1 /\ s.open = {} /\ Top(s).step = "define"
  <2>1. t = DefineEntry(Popped(s), Top(s))
    BY <1>2, <1>3 DEF Resume
  <2> QED
    BY <1>3, <2>1, LastDefineSupported
<1>4. CASE Len(s.stack) = 2 /\ s.open = {} /\ Top(s).step = "compile"
  <2>1. t = Gen(Popped(s), Top(s).n)
    BY <1>2, <1>4 DEF Resume
  <2>2. Top(s).n.op = "function"
    <3>1. s.stack[1].step = "define" /\ Top(s) = Compiling(program[s.stack[1].f])
      BY <1>4 DEF IInv, Bottom, Top
    <3>2. 1 \in DOMAIN s.stack
      BY <1>4, StackBounds
    <3>3. s.stack[1].f \in DOMAIN program
      BY <3>1, <3>2, DefinesIsDefined
    <3>4. program[s.stack[1].f].op = "function"
      BY <3>3, ProgramIs
    <3> QED
      BY <3>1, <3>4 DEF Compiling
  <2>3. t = GenFunction(Popped(s), Top(s).n)
    BY <2>1, <2>2 DEF Gen
  <2> QED
    BY <1>4, <2>3, FirstFunctionSupported
<1>5. CASE Len(s.stack) = 2 /\ s.open # {} /\ Top(s).step = "return"
  <2>1. t = EndFunction(Popped(s), Top(s))
    BY <1>2, <1>5 DEF Resume
  <2> QED
    BY <1>5, <2>1, LastReturnSupported
<1>6. CASE Len(s.stack) >= 3 /\ s.open # {}
  <2>1. CASE Top(s).step = "compile" /\ Top(s).n.op = "function"
    <3>1. t = GenFunction(Popped(s), Top(s).n)
      BY <1>2, <2>1 DEF Resume, Gen
    <3> QED
      BY <1>6, <2>1, <3>1, NestedFunctionSupported
  <2>2. CASE Top(s).step = "return"
    <3>1. t = EndFunction(Popped(s), Top(s))
      BY <1>2, <2>2 DEF Resume
    <3> QED
      BY <1>6, <2>2, <3>1, NestedReturnSupported
  <2>3. CASE Top(s).step = "define"
    <3>1. t = DefineEntry(Popped(s), Top(s))
      BY <1>2, <2>3 DEF Resume
    <3> QED
      BY <1>6, <2>3, <3>1, NestedDefineSupported
  <2>4. CASE /\ Top(s).step \notin {"return", "define"}
             /\ Top(s).step = "compile" => Top(s).n.op # "function"
    BY <1>2, <1>6, <2>4, GoesOnSupported
  <2> QED
    BY <2>1, <2>2, <2>3, <2>4
<1> QED
  BY <1>3, <1>4, <1>5, <1>6, Steps

LEMMA RequireSupported ==
  ASSUME NEW s, Types(s), IInv(s), SInv(s), s.crashed = "no", s.stack = <<>>,
         NEW f \in DOMAIN program, f \notin s.entries, NEW t, t = Require(s, f)
  PROVE  SInv(t)
<1>1. s.open = {} /\ Len(s.stack) = 0 /\ Rec(s)
  BY DEF IInv, Bottom, Types, Rec
<1>2. OnTop(s, t) /\ Len(t.stack) = Len(s.stack) + 2
  BY RequireIs
<1>3. /\ t.open = {} /\ Torn(t) = Torn(s) /\ t.blocks = s.blocks
      /\ t.entries = s.entries /\ Len(t.stack) # 1
  BY <1>1, <1>2 DEF OnTop, Same, Torn
<1>4. ~Working(t) /\ Done(s) = s.entries /\ Done(t) = s.entries
  BY <1>1, <1>3 DEF Working, Live, Done
<1>5. t.scopes = s.scopes /\ t.crashed = s.crashed /\ t.faults = s.faults
  BY <1>1 DEF Require, CallThen, Call, Rec, Fresh
<1>6. Scoped(s) => Scoped(t)
  BY <1>5 DEF Scoped
<1>7. Told(t)
  BY SMTT(30), <1>3, <1>4, SInvIs, ToldOn
<1> QED
  BY <1>3, <1>4, <1>5, <1>6, <1>7, StepBlames

-----------------------------------------------------------------------------
\* The invariant of the specification

SupportedInv == CodegenInv /\ SInv(c)

LEMMA SameProgramSupported ==
  ASSUME program' = program, SInv(c')
  PROVE  SInv(c)'
<1>1. \A n : Sound(n)' <=> Sound(n)
  BY DEF Sound
<1>2. \A n : Supported(n)' <=> Supported(n)
  BY <1>1 DEF Supported
<1>3. \A f : SupportedFunction(f)' <=> SupportedFunction(f)
  BY <1>2 DEF SupportedFunction, SupportedNode
<1> QED
  BY <1>2, <1>3 DEF SInv, Blamed, Working, CallsAddUp, Provided, Fits, Takes, Scoped, Fed, Live,
     Done, Torn

LEMMA InitSupported == Init => SupportedInv
<1> SUFFICES ASSUME Init PROVE SInv(c)
  BY InitInv DEF SupportedInv
<1>1. c = Fresh
  BY DEF Init
<1>2. /\ c.stack = <<>> /\ c.scopes = <<>> /\ c.entries = {} /\ c.open = {}
      /\ c.crashed = "no" /\ c.faults = {}
  BY <1>1 DEF Fresh
<1>3. Len(<<>>) # 1 /\ DOMAIN <<>> = {}
  OBVIOUS
<1>4. Scoped(c)
  BY <1>2, <1>3 DEF Scoped, ToSet
<1>5. ~Working(c) /\ Done(c) = {}
  BY <1>2, <1>3 DEF Working, Live, Done
<1> QED
  BY <1>2, <1>4, <1>5 DEF SInv

LEMMA NextSupported ==
  ASSUME SupportedInv, [Next]_vars
  PROVE  SupportedInv'
<1>1. CodegenInv' /\ program \in Programs /\ Types(c) /\ IInv(c) /\ SInv(c)
  BY NextInv DEF SupportedInv, CodegenInv
<1>2. CASE UNCHANGED vars
  <2>1. program' = program /\ c' = c
    BY <1>2 DEF vars
  <2> QED
    BY <1>1, <2>1, SameProgramSupported DEF SupportedInv
<1>3. ASSUME NEW f \in DOMAIN program, RequireFunction(f)
      PROVE  SupportedInv'
  <2>1. /\ c.crashed = "no" /\ c.stack = <<>> /\ f \notin c.entries
        /\ c' = Require(c, f) /\ program' = program
    BY <1>3 DEF RequireFunction
  <2>2. SInv(c')
    BY <1>1, <2>1, RequireSupported
  <2> QED
    BY <1>1, <2>1, <2>2, SameProgramSupported DEF SupportedInv
<1>4. CASE Compile
  <2>1. c.crashed = "no" /\ c.stack # <<>> /\ c' = Continue(c) /\ program' = program
    BY <1>4 DEF Compile
  <2>2. SInv(c')
    BY <1>1, <2>1, ContinueSupported
  <2> QED
    BY <1>1, <2>1, <2>2, SameProgramSupported DEF SupportedInv
<1>5. CASE Finished
  BY <1>2, <1>5 DEF Finished
<1> QED
  BY <1>2, <1>3, <1>4, <1>5 DEF Next

LEMMA AlwaysSupportedInv == Spec => []SupportedInv
<1>1. SupportedInv /\ [Next]_vars => SupportedInv'
  BY NextSupported
<1> QED
  BY <1>1, InitSupported, PTL DEF Spec

-----------------------------------------------------------------------------
\* What follows from it

\* The invariant of the work on supported functions, for all programs: what comes down
\* to each handler is of a type it takes, and the calls made and those to come are the
\* ones the function is written with.
THEOREM AlwaysSupported == Spec => []SupportedInductive
<1>1. SupportedInv => SupportedInductive
  BY DEF SupportedInv, SupportedInductive
<1> QED
  BY <1>1, AlwaysSupportedInv, PTL

\* Whatever the registers hold when compile/Function begins: a supported function that is
\* compiled in one piece never dereferences a missing value, and hands LLVM no operand
\* of a type its assertions refuse.
THEOREM SupportedFunctionsCompile == Spec => []SupportedCompiles
<1>1. SupportedInv => SupportedCompiles
  <2> SUFFICES ASSUME SupportedInv PROVE SupportedCompiles
    OBVIOUS
  <2>1. program \in Programs /\ SInv(c)
    BY DEF SupportedInv, CodegenInv
  <2>2. "no" \notin DOMAIN program
    BY <2>1, AnalysisAssumption DEF Analysis
  <2>3. c.crashed \in DOMAIN program \ Torn(c) => ~SupportedFunction(c.crashed)
    BY <2>1, <2>2 DEF SInv, Blamed
  <2>4. \A fault \in c.faults :
          fault[1] \in DOMAIN program \ Torn(c) => ~SupportedFunction(fault[1])
    BY <2>1 DEF SInv, Blamed
  <2> QED
    BY <2>3, <2>4 DEF SupportedCompiles, Torn
<1> QED
  BY <1>1, AlwaysSupportedInv, PTL

\* The callees of a function are those of its body
LEMMA FunctionCallees ==
  ASSUME program \in Programs, NEW f \in DOMAIN program
  PROVE  Callees(program[f]) = Callees(program[f].body)
<1> DEFINE n == program[f]
           N == Nodes \cup UNION { { p[g] : g \in DOMAIN p } : p \in Programs }
<1>1. n.op = "function"
  BY ProgramIs
<1>2. n \in N
  <2>1. n \in { program[g] : g \in DOMAIN program }
    OBVIOUS
  <2>2. { program[g] : g \in DOMAIN program } \in { { p[g] : g \in DOMAIN p } : p \in Programs }
    OBVIOUS
  <2> QED
    BY <2>1, <2>2
<1>3. Subtree(n) = SubtreeRule(n, Subtree)
  <2>1. \A m \in N : Subtree(m) = SubtreeRule(m, Subtree)
    BY AnalysisAssumption DEF Analysis
  <2> QED
    BY <1>2, <2>1
<1>4. Parts(n) = {n.body} /\ Arms(n) = {}
  BY <1>1 DEF Parts, Arms
<1> HIDE DEF n, N
<1>5. Subtree(n) = {n} \cup Subtree(n.body)
  <2>1. UNION { Subtree(k) : k \in Parts(n) \cup Arms(n) } = Subtree(n.body)
    BY <1>4
  <2> QED
    BY <1>3, <2>1 DEF SubtreeRule
<1>6. \A m, x : x \in Callees(m) <=>
                  \E j \in Subtree(m) : j.op = "call" /\ j.callee.op = "global" /\ x = j.callee.name
  BY DEF Callees
<1>7. \A x : x \in Callees(n) <=> x \in Callees(n.body)
  BY <1>1, <1>5, <1>6
<1> QED
  BY <1>7 DEF n

\* Although few nodes clear lastReturnedInstance: a supported function compiled in one
\* piece calls the callees its call sites name, each of them and no others, and the
\* runtime for its tests.
THEOREM CallsAreAsWritten == Spec => []CalledAsWritten
<1>1. SupportedInv => CalledAsWritten
  <2> SUFFICES ASSUME SupportedInv, NEW f \in Compiled, SupportedFunction(f)
               PROVE  Called(c.blocks[f]) \ {"___cult__runtime_truth"}
                        = Callees(program[f]) \ {"___cult__runtime_truth"}
    BY DEF CalledAsWritten
  <2>1. program \in Programs /\ Types(c) /\ SInv(c)
    BY DEF SupportedInv, CodegenInv
  <2>2. f \in Done(c) \ Torn(c) /\ f \in DOMAIN program /\ c.crashed = "no"
    BY <2>1 DEF Compiled, Whole, Done, Torn, Types
  <2>3. Called(c.blocks[f]) \cup Truth = Callees(program[f].body) \cup Truth
    BY <2>1, <2>2 DEF SInv
  <2>4. Callees(program[f]) = Callees(program[f].body)
    BY <2>1, <2>2, FunctionCallees
  <2> QED
    BY <2>3, <2>4 DEF Truth
<1> QED
  BY <1>1, AlwaysSupportedInv, PTL
=============================================================================
