----------------------- MODULE LlvmPipelineCodeProofs -----------------------
(***************************************************************************)
(* What is emitted, and where: every call names a function the JIT already *)
(* has, LlvmPipeline implements JitImage when "output.o" can always be     *)
(* opened, a block begins with its own function's code, and ordered        *)
(* programs are compiled one function at a time.  Then what has been       *)
(* achieved when the compiler's thread leaves the backend, and what it     *)
(* takes for the process to die in it.                                     *)
(***************************************************************************)
EXTENDS LlvmPipelineProofs, LeastElements, FiniteSetTheorems

Links == CallsLinked /\ JitConsistent

LEMMA LinksInit == Init => Links
<1> SUFFICES ASSUME Init PROVE Links
  OBVIOUS
<1>1. Refs(<<>>) = {}
  BY EmptySeq DEF Refs
<1> QED
  BY <1>1 DEF Init, Links, CallsLinked, JitConsistent

\* Specializing installs the code as it is, once, and only then caches a handle
LEMMA SpecializeOnce ==
  ASSUME TypeOK, Links, NEW n \in Name, Specialize(n)
  PROVE  /\ jitted \subseteq jitted' /\ n \in jitted'
         /\ \/ UNCHANGED installed
            \/ /\ installed[n] = <<>> /\ code[n] # <<>>
               /\ installed' = [installed EXCEPT ![n] = code[n]]
         /\ JitConsistent'
<1>0. installed \in [Name -> Blocks] /\ jitted \subseteq Name
  BY DEF TypeOK, Blocks
<1>1. CASE n \in jitted /\ UNCHANGED jit
  BY <1>1 DEF jit, Links, JitConsistent
<1>2. CASE /\ n \notin jitted /\ code[n] # <<>>
           /\ jitted' = jitted \cup {n}
           /\ installed' = [installed EXCEPT ![n] = code[n]]
  <2>1. installed[n] = <<>>
    BY <1>2 DEF Links, JitConsistent
  <2>2. \A m \in Name : installed'[m] = IF m = n THEN code[n] ELSE installed[m]
    BY <1>0, <1>2
  <2>3. JitConsistent'
    BY <1>2, <2>2 DEF Links, JitConsistent
  <2> QED
    BY <1>2, <2>1, <2>3
<1>3. CASE /\ n \notin jitted /\ code[n] # <<>>
           /\ jitted' = jitted \cup {n}
           /\ DiskFaults /\ UNCHANGED installed
  BY <1>3 DEF Links, JitConsistent
<1> QED
  BY <1>1, <1>2, <1>3 DEF Specialize

\* Emitting calls of names in J keeps all code's references within J
LEMMA EmitRefs ==
  ASSUME TypeOK, target # NoTarget, NEW instrs \in Seq(Instr),
         EmitAll(instrs), NEW J,
         \A i \in DOMAIN instrs :
           instrs[i].op = "call" /\ instrs[i].to \in Name => instrs[i].to \in J,
         \A n \in Name : Refs(code[n]) \subseteq J
  PROVE  \A n \in Name : Refs(code'[n]) \subseteq J
<1> SUFFICES ASSUME NEW n \in Name, NEW m \in Refs(code'[n]) PROVE m \in J
  OBVIOUS
<1>1. PICK b \in DOMAIN code'[n] : \E i \in DOMAIN code'[n][b] :
        code'[n][b][i].op = "call" /\ code'[n][b][i].to = m
  BY DEF Refs
<1>2. PICK i \in DOMAIN code'[n][b] :
        code'[n][b][i].op = "call" /\ code'[n][b][i].to = m
  BY <1>1
<1>3. m \in Name
  BY DEF Refs
<1>4. /\ b \in DOMAIN code[n]
      /\ code'[n][b] = IF n = target.name /\ b = target.block
                       THEN code[n][b] \o instrs ELSE code[n][b]
  BY EmitType
<1> DEFINE old == code[n][b]
<1>5. old \in Seq(Instr)
  <2>1. code[n] \in Seq(Seq(Instr))
    BY DEF TypeOK
  <2> QED
    BY <1>4, <2>1, LenProperties, ElementOfSeq
<1>6. \A j \in DOMAIN old : old[j].op = "call" /\ old[j].to = m => m \in J
  BY <1>3, <1>4 DEF Refs
<1>7. CASE code'[n][b] = old
  BY <1>2, <1>6, <1>7
<1>8. CASE code'[n][b] = old \o instrs
  <2>1. /\ Len(old \o instrs) = Len(old) + Len(instrs)
        /\ \A j \in 1..(Len(old) + Len(instrs)) :
             (old \o instrs)[j] = IF j <= Len(old) THEN old[j]
                                  ELSE instrs[j - Len(old)]
        /\ old \o instrs \in Seq(Instr)
        /\ Len(old) \in Nat /\ Len(instrs) \in Nat
        /\ DOMAIN old = 1..Len(old) /\ DOMAIN instrs = 1..Len(instrs)
    BY <1>5, ConcatProperties, LenProperties
  <2>2. i \in 1..(Len(old) + Len(instrs))
    BY <1>2, <1>8, <2>1, LenProperties
  <2>3. CASE i <= Len(old)
    <3>1. i \in DOMAIN old /\ old[i] = code'[n][b][i]
      BY <1>8, <2>1, <2>2, <2>3
    <3> QED
      BY <1>2, <1>6, <3>1
  <2>4. CASE ~(i <= Len(old))
    <3>1. i - Len(old) \in DOMAIN instrs
      BY <2>1, <2>2, <2>4
    <3>2. instrs[i - Len(old)] = code'[n][b][i]
      BY <1>8, <2>1, <2>2, <2>4
    <3> QED
      BY <1>2, <1>3, <3>1, <3>2
  <2> QED
    BY <2>3, <2>4
<1> QED
  BY <1>4, <1>7, <1>8

\* A new block has no references
LEMMA EnterRefs ==
  ASSUME TypeOK, NEW f \in Functions, EnterFunction(f), NEW n \in Name
  PROVE  Refs(code'[n]) \subseteq Refs(code[n])
<1>1. CASE n # NameOf(f)
  BY <1>1, EnterType
<1>2. CASE n = NameOf(f)
  <2>1. code'[n] = Append(code[n], <<>>) /\ code[n] \in Seq(Seq(Instr))
    BY <1>2, EnterType DEF TypeOK
  <2>2. /\ DOMAIN code'[n] = 1..(Len(code[n]) + 1) /\ Len(code[n]) \in Nat
        /\ DOMAIN code[n] = 1..Len(code[n])
        /\ \A b \in 1..Len(code[n]) : code'[n][b] = code[n][b]
        /\ code'[n][Len(code[n]) + 1] = <<>>
    <3>1. <<>> \in Seq(Instr)
      BY EmptySeq
    <3> QED
      BY <2>1, <3>1, AppendProperties, LenProperties
  <2> SUFFICES ASSUME NEW m \in Refs(code'[n]) PROVE m \in Refs(code[n])
    OBVIOUS
  <2>3. PICK b \in DOMAIN code'[n] : \E i \in DOMAIN code'[n][b] :
          code'[n][b][i].op = "call" /\ code'[n][b][i].to = m
    BY DEF Refs
  <2>4. b # Len(code[n]) + 1
    BY <2>2, <2>3, EmptySeq
  <2>5. b \in DOMAIN code[n] /\ code'[n][b] = code[n][b]
    BY <2>2, <2>3, <2>4
  <2> QED
    BY <2>3, <2>5 DEF Refs
<1> QED
  BY <1>1, <1>2

-----------------------------------------------------------------------------
\* The five ways a step treats the code and the JIT

NoCalls(instrs) == \A i \in DOMAIN instrs :
                     instrs[i].op = "call" => instrs[i].to \notin Name

Quiet == UNCHANGED code /\ UNCHANGED jit
Enters == (\E f \in Functions : EnterFunction(f)) /\ UNCHANGED jit
EmitsNoCall ==
  /\ target # NoTarget
  /\ \E instrs \in Seq(Instr) : NoCalls(instrs) /\ EmitAll(instrs)
  /\ UNCHANGED jit
Specializes == (\E n \in Name : Specialize(n)) /\ UNCHANGED code
EmitsCall ==
  /\ target # NoTarget
  /\ \E n \in Name, f \in Functions :
       /\ Specialize(n)
       /\ EmitAll(<< [op |-> "call", by |-> f, to |-> n] >>)

LEMMA MissCode ==
  ASSUME NEW f \in Functions, NEW base, CompileMissing(f, base), UNCHANGED jit
  PROVE  Quiet \/ Enters
BY DEF CompileMissing, Quiet, Enters

LEMMA CodeStep ==
  ASSUME Types, [Next]_vars
  PROVE  Quiet \/ Enters \/ EmitsNoCall \/ Specializes \/ EmitsCall
<1>0. TypeOK /\ stack \in Seq(Frame) /\ Shape(stack)
  BY DEF Types, TypeOK, StackShape
<1>1. CASE \/ \E f \in Functions : Demand(f)
           \/ \E n \in Name : DemandLookup(n)
           \/ \E m \in Modules : GenerateModule(m)
           \/ GenerateDone \/ FinishLlvmIr \/ CallSite \/ UnsupportedNode
  BY <1>1 DEF Demand, DemandLookup, GenerateModule, GenerateDone, FinishLlvmIr,
              CallSite, UnsupportedNode, Quiet
<1>2. CASE RequireClash \/ NullPrototype \/ RedefineEntry \/ Overflow
  BY <1>2 DEF RequireClash, NullPrototype, RedefineEntry, Overflow, Die, Quiet,
              jit
<1>3. CASE UNCHANGED vars
  BY <1>3 DEF vars, Quiet, jit
<1>4. CASE FinishLookup
  BY <1>4 DEF FinishLookup, Die, Quiet, jit
<1>5. CASE GenerateStatement
  <2> DEFINE f == program.stmts[Top.mod][Top.next]
  <2>1. f \in Functions
    BY <1>0, <1>5, TakenNow DEF GenerateStatement
  <2> HIDE DEF f
  <2>2. \/ Quiet \/ Die("assert")
        \/ CompileMissing(f, AdvancedStatement(stack)) /\ UNCHANGED jit
    BY <1>5 DEF GenerateStatement, Quiet, f
  <2> QED
    BY <2>1, <2>2, MissCode DEF Die, Quiet, jit
<1>6. CASE RequireMiss
  <2>1. Top.fn \in Functions
    BY <1>0, <1>6, TopTypes, FrameFields DEF RequireMiss, Requiring, Running
  <2>2. CompileMissing(Top.fn, stack) /\ UNCHANGED jit
    BY <1>6 DEF RequireMiss
  <2> QED
    BY <2>1, <2>2, MissCode
<1>7. CASE FinishLlvmCall
  <2>1. Top.fn \in Functions
    BY <1>0, <1>7, TopTypes, FrameFields
    DEF FinishLlvmCall, Hit, Requiring, Running
  <2>2. NameOf(Top.fn) \in Name
    BY <1>0, <2>1, ProgramTypes
  <2> QED
    BY <1>7, <2>2 DEF FinishLlvmCall, Specializes
<1>8. CASE FinishCallSite
  <2> DEFINE c == Last(Front(stack))
             n == NameOf(Top.fn)
  <2>1. /\ stack # <<>> /\ Len(stack) > 1 /\ Top.op = "require"
        /\ Top.fn \in Functions
    BY <1>0, <1>8, TopTypes, FrameFields
    DEF FinishCallSite, Hit, Requiring, Running
  <2>2. n \in Name
    BY <1>0, <2>1, ProgramTypes
  <2>3. c.fn \in Functions /\ target # NoTarget
    BY <2>1, WaitingCaller
  <2>4. Specialize(n) /\ EmitAll(<< [op |-> "call", by |-> c.fn, to |-> n] >>)
    BY <1>8 DEF FinishCallSite, Emit
  <2> HIDE DEF c, n
  <2> QED
    BY <2>2, <2>3, <2>4 DEF EmitsCall
<1>9. CASE RuntimeCallSite
  <2> DEFINE instr == [op |-> "call", by |-> Top.fn, to |-> Runtime]
  <2>1. /\ Top.op = "compile" /\ Top.fn \in Functions /\ stack # <<>>
    BY <1>0, <1>9, AtSiteTypes DEF RuntimeCallSite
  <2>2. target # NoTarget
    BY <1>0, <2>1, TopTypes, TargetWhenCompiling
  <2>3. <<instr>> \in Seq(Instr) /\ NoCalls(<<instr>>)
    BY <2>1, ConstantsAssumption DEF Instr, Call, NoCalls
  <2>4. EmitAll(<<instr>>) /\ UNCHANGED jit
    BY <1>9 DEF RuntimeCallSite, Emit
  <2> HIDE DEF instr
  <2> QED
    BY <2>2, <2>3, <2>4 DEF EmitsNoCall
<1>10. CASE LocalFunction
  <2> DEFINE g == Body(Top.fn)[Top.site].fn
  <2>1. /\ Top.op = "compile" /\ Top.fn \in Functions /\ stack # <<>>
        /\ g \in Functions
    BY <1>0, <1>10, AtSiteTypes DEF LocalFunction
  <2>2. target # NoTarget
    BY <1>0, <2>1, TopTypes, TargetWhenCompiling
  <2>3. <<StoreBy(Top.fn)>> \in Seq(Instr) /\ NoCalls(<<StoreBy(Top.fn)>>)
    BY <2>1 DEF StoreBy, Instr, NoCalls
  <2> HIDE DEF g
  <2>4. /\ EnterFunction(g) \/ UNCHANGED code \/ EmitAll(<<StoreBy(Top.fn)>>)
        /\ UNCHANGED jit
    BY <1>10 DEF LocalFunction, Emit, g
  <2> QED
    BY <2>1, <2>2, <2>3, <2>4 DEF EmitsNoCall, Enters, Quiet
<1>11. CASE FinishFunction
  <2>1. /\ Top.op = "compile" /\ stack # <<>> /\ Top.fn \in Functions
    BY <1>0, <1>11, TopTypes, FrameFields DEF FinishFunction, AtReturn, Running
  <2>2. target # NoTarget
    BY <1>0, <2>1, TopTypes, TargetWhenCompiling
  <2>3. <<Return>> \in Seq(Instr) /\ NoCalls(<<Return>>)
    BY <2>1 DEF Return, Instr, NoCalls
  <2>4. EmitAll(<<Return>>) /\ UNCHANGED jit
    BY <1>11 DEF FinishFunction, Emit
  <2> QED
    BY <2>2, <2>3, <2>4 DEF EmitsNoCall
<1>12. CASE FinishLocalFunction
  <2> DEFINE c == Last(Front(stack))
             instrs == <<Return, StoreBy(c.fn)>>
  <2>1. /\ Top.op = "compile" /\ stack # <<>> /\ Top.fn \in Functions
        /\ Len(stack) \in Nat \ {0} /\ Top = stack[Len(stack)]
    BY <1>0, <1>12, TopTypes, FrameFields
    DEF FinishLocalFunction, AtReturn, Running
  <2>2. Len(stack) # 1
    BY <2>1 DEF Types, StackShape, Shape, Bottom
  <2>3. Len(stack) > 1
    BY <2>1, <2>2
  <2>4. ~Top.entry
    BY <1>12 DEF FinishLocalFunction
  <2>5. c.fn \in Functions /\ target # NoTarget
    BY <2>1, <2>3, <2>4, WaitingCaller
  <2>6. Return \in Instr /\ StoreBy(c.fn) \in Instr
        /\ Return.op = "ret" /\ StoreBy(c.fn).op = "store"
    BY <2>1, <2>5 DEF Return, StoreBy, Instr
  <2>7. instrs \in Seq(Instr) /\ NoCalls(instrs)
    BY <2>6 DEF NoCalls
  <2>8. EmitAll(instrs) /\ UNCHANGED jit
    BY <1>12 DEF FinishLocalFunction
  <2> HIDE DEF instrs
  <2> QED
    BY <2>5, <2>7, <2>8 DEF EmitsNoCall
<1> QED
  BY <1>1, <1>2, <1>3, <1>4, <1>5, <1>6, <1>7, <1>8, <1>9, <1>10, <1>11, <1>12
  DEF Next, Step, Dead

LEMMA LinksNext == Types /\ Links /\ [Next]_vars => Links'
<1> SUFFICES ASSUME Types, Links, [Next]_vars PROVE Links'
  OBVIOUS
<1>0. TypeOK /\ CallsLinked /\ JitConsistent
  BY DEF Types, Links
<1>1. \A n \in Name : Refs(code[n]) \subseteq jitted /\ Refs(installed[n]) \subseteq jitted
  BY <1>0 DEF CallsLinked
<1>2. CASE Quiet
  BY <1>0, <1>1, <1>2 DEF Quiet, jit, Links, CallsLinked, JitConsistent, Refs
<1>3. CASE Enters
  <2>1. \A n \in Name : Refs(code'[n]) \subseteq jitted
    BY <1>0, <1>1, <1>3, EnterRefs DEF Enters
  <2> QED
    BY <1>0, <1>1, <1>3, <2>1 DEF Enters, jit, Links, CallsLinked,
       JitConsistent, Refs
<1>4. CASE EmitsNoCall
  <2>1. PICK instrs \in Seq(Instr) : NoCalls(instrs) /\ EmitAll(instrs)
    BY <1>4 DEF EmitsNoCall
  <2>2. \A n \in Name : Refs(code'[n]) \subseteq jitted
    BY <1>0, <1>1, <1>4, <2>1, EmitRefs DEF NoCalls, EmitsNoCall
  <2> QED
    BY <1>0, <1>1, <1>4, <2>2 DEF EmitsNoCall, jit, Links, CallsLinked,
       JitConsistent, Refs
<1>5. ASSUME NEW n \in Name, Specialize(n)
      PROVE  /\ n \in jitted' /\ JitConsistent'
             /\ \A m \in Name : /\ Refs(code[m]) \subseteq jitted'
                               /\ Refs(installed'[m]) \subseteq jitted'
  <2>1. /\ jitted \subseteq jitted' /\ n \in jitted' /\ JitConsistent'
        /\ \/ UNCHANGED installed
           \/ installed' = [installed EXCEPT ![n] = code[n]]
    BY <1>0, <1>5, SpecializeOnce DEF Links
  <2>2. \A m \in Name : installed'[m] \in {installed[m], code[m]}
    BY <1>0, <2>1 DEF TypeOK
  <2> QED
    BY <1>1, <2>1, <2>2
<1>6. CASE Specializes
  <2>1. PICK n \in Name : Specialize(n)
    BY <1>6 DEF Specializes
  <2>2. code' = code
    BY <1>6 DEF Specializes
  <2> QED
    BY <1>5, <2>1, <2>2 DEF Links, CallsLinked, Refs
<1>7. CASE EmitsCall
  <2>1. PICK n \in Name, f \in Functions :
          /\ Specialize(n)
          /\ EmitAll(<< [op |-> "call", by |-> f, to |-> n] >>)
    BY <1>7 DEF EmitsCall
  <2> DEFINE instrs == << [op |-> "call", by |-> f, to |-> n] >>
  <2>2. instrs \in Seq(Instr)
    BY <2>1 DEF Instr, Call
  <2>3. \A i \in DOMAIN instrs : instrs[i].to = n
    OBVIOUS
  <2>4. EmitAll(instrs) /\ target # NoTarget
    BY <1>7, <2>1 DEF EmitsCall
  <2> HIDE DEF instrs
  <2>5. \A m \in Name : Refs(code'[m]) \subseteq jitted'
    BY <1>0, <1>5, <2>1, <2>2, <2>3, <2>4, EmitRefs
  <2> QED
    BY <1>5, <2>1, <2>5 DEF Links, CallsLinked, Refs
<1> QED
  BY <1>2, <1>3, <1>4, <1>6, <1>7, CodeStep

\* No emitted or installed call names a function that specialize() has not
\* handed to the JIT before.
THEOREM EveryCallIsLinked == Spec => []CallsLinked
<1>1. Links => CallsLinked
  BY DEF Links
<1> QED
  BY <1>1, TypesInit, TypesNext, LinksInit, LinksNext, PTL DEF Spec

-----------------------------------------------------------------------------
\* The refinement

LEMMA ImageInit == Init => Image!Init
BY DEF Init, Image!Init

LEMMA ImageNext ==
  ASSUME DiskFaults = FALSE, Types, Links, [Next]_vars
  PROVE  [Image!Next]_installed
<1>0. TypeOK /\ installed \in [Name -> Blocks] /\ code \in [Name -> Blocks]
  BY DEF Types, TypeOK, Blocks
<1>1. jitted \subseteq Image!Loaded
  BY <1>0 DEF Links, JitConsistent, Image!Loaded, TypeOK
<1>2. ASSUME NEW n \in Name, Specialize(n)
      PROVE  [Image!Next]_installed
  <2>1. CASE UNCHANGED installed
    BY <2>1
  <2>2. CASE /\ installed[n] = <<>> /\ code[n] # <<>>
             /\ installed' = [installed EXCEPT ![n] = code[n]]
    <3>1. installed'[n] = code[n]
      BY <1>0, <2>2
    <3>2. Refs(code[n]) \subseteq Image!Loaded
      BY <1>1 DEF Links, CallsLinked
    <3>3. Image!Install(n)
      BY <2>2, <3>1, <3>2 DEF Image!Install
    <3> QED
      BY <3>3 DEF Image!Next
  <2> QED
    BY <1>0, <1>2, <2>1, <2>2, SpecializeOnce
<1> QED
  BY <1>2, CodeStep DEF Quiet, Enters, EmitsNoCall, Specializes, EmitsCall, jit

\* When files can be opened, the JIT's contents develop as JitImage says: code
\* enters once, is never replaced, and refers only to what is already there.
THEOREM PipelineImplementsJitImage ==
  ASSUME DiskFaults = FALSE
  PROVE  Spec => ImplementsJitImage
<1>1. Types /\ Links /\ [Next]_vars => [Image!Next]_installed
  BY ImageNext
<1> QED
  BY <1>1, TypesInit, TypesNext, LinksInit, LinksNext, ImageInit, PTL
  DEF Spec, ImplementsJitImage, Image!Spec

\* Code enters the image after what it refers to, and nothing is ever taken away.
LEMMA InstallClosed ==
  ASSUME Image!Closed, DOMAIN installed = Name, NEW n \in Name, Image!Install(n)
  PROVE  Image!Closed' /\ DOMAIN installed' = Name
<1>1. \A k \in Name : k # n => installed'[k] = installed[k]
  BY DEF Image!Install
<1>2. Image!Loaded' = Image!Loaded \cup {n}
  BY <1>1 DEF Image!Install, Image!Loaded
<1>3. ASSUME NEW k \in Image!Loaded' PROVE Refs(installed'[k]) \subseteq Image!Loaded'
  <2>1. CASE k = n
    BY <1>2, <2>1 DEF Image!Install
  <2>2. CASE k # n
    BY <1>1, <1>2, <1>3, <2>2 DEF Image!Closed, Image!Loaded
  <2> QED
    BY <2>1, <2>2
<1>4. DOMAIN installed' = Name
  BY DEF Image!Install
<1> QED
  BY <1>3, <1>4 DEF Image!Closed

\* An image that develops as JitImage says refers to nothing that is not in it.
THEOREM ImageIsClosed == Image!Spec => []Image!Closed
<1> DEFINE Inv == Image!Closed /\ DOMAIN installed = Name
<1>1. Image!Init => Inv
  BY DEF Image!Init, Image!Closed, Image!Loaded
<1>2. Inv /\ [Image!Next]_installed => Inv'
  <2>1. CASE Image!Next
    BY <2>1, InstallClosed DEF Image!Next
  <2>2. CASE UNCHANGED installed
    BY <2>2 DEF Image!Closed, Image!Loaded
  <2> QED
    BY <2>1, <2>2
<1> QED
  BY <1>1, <1>2, PTL DEF Image!Spec

\* Whatever installed code calls has been installed: the resolver of
\* LlvmBackend::addModule is never asked for a name that was not added.
THEOREM InstalledCodeIsClosed ==
  ASSUME DiskFaults = FALSE
  PROVE  Spec => []Image!Closed
<1>1. Spec => Image!Spec
  BY PipelineImplementsJitImage DEF ImplementsJitImage
<1> QED
  BY <1>1, ImageIsClosed, PTL

-----------------------------------------------------------------------------
\* The code a function has when it is compiled alone

\* The recursive definition of Beginnings has a solution.
LEMMA Steps ==
  ASSUME NEW n \in Nat, NEW E
  PROVE  \E h : h = [i \in 0..n |-> IF i = 0 THEN { <<>> } ELSE Extended(h[i - 1], E[i])]
<1> DEFINE Has(k) ==
      \E h : h = [i \in 0..k |-> IF i = 0 THEN { <<>> } ELSE Extended(h[i - 1], E[i])]
      bad == { k \in Nat : ~Has(k) }
<1>1. ASSUME bad # {} PROVE FALSE
  <2>1. PICK m \in bad : \A k \in bad : m <= k
    BY <1>1, HasLeast
  <2>2. m \in Nat /\ ~Has(m)
    OBVIOUS
  <2>3. m # 0
    <3>1. ASSUME m = 0 PROVE FALSE
      <4> DEFINE h == [i \in 0..m |-> { <<>> }]
      <4>1. \A i \in 0..m : i = 0
        BY <3>1
      <4>2. h = [i \in 0..m |-> IF i = 0 THEN { <<>> } ELSE Extended(h[i - 1], E[i])]
        BY <4>1
      <4> QED
        BY <2>2, <4>2
    <3> QED
      BY <3>1
  <2>4. m - 1 \in Nat /\ ~(m <= m - 1)
    BY <2>2, <2>3
  <2>5. Has(m - 1)
    <3> HIDE DEF Has
    <3> QED
      BY <2>1, <2>4
  <2>6. PICK h : h = [i \in 0..(m - 1) |->
                        IF i = 0 THEN { <<>> } ELSE Extended(h[i - 1], E[i])]
    BY <2>5
  <2> DEFINE g == [i \in 0..m |-> IF i = m THEN Extended(h[m - 1], E[m]) ELSE h[i]]
  <2>7. ASSUME NEW i \in 0..m
        PROVE  g[i] = IF i = 0 THEN { <<>> } ELSE Extended(g[i - 1], E[i])
    <3>1. CASE i = m
      <4>1. i # 0 /\ m - 1 \in 0..m /\ m - 1 # m
        BY <2>2, <2>3, <3>1
      <4>2. g[m - 1] = h[m - 1]
        BY <4>1
      <4> QED
        BY <3>1, <4>1, <4>2
    <3>2. CASE i # m /\ i # 0
      <4>1. i \in 0..(m - 1) /\ i - 1 \in 0..m /\ i - 1 # m
        BY <2>2, <3>2
      <4>2. g[i] = h[i] /\ g[i - 1] = h[i - 1]
        BY <3>2, <4>1
      <4>3. h[i] = Extended(h[i - 1], E[i])
        BY <2>6, <3>2, <4>1
      <4> QED
        BY <3>2, <4>2, <4>3
    <3>3. CASE i = 0
      <4>1. i \in 0..(m - 1) /\ i # m
        BY <2>2, <2>3, <3>3
      <4>2. g[i] = h[i] /\ h[i] = { <<>> }
        BY <2>6, <3>3, <4>1
      <4> QED
        BY <3>3, <4>2
    <3> QED
      BY <3>1, <3>2, <3>3
  <2>8. g = [i \in 0..m |-> IF i = 0 THEN { <<>> } ELSE Extended(g[i - 1], E[i])]
    BY <2>7
  <2> HIDE DEF g
  <2> QED
    BY <2>2, <2>8
<1> QED
  BY <1>1

LEMMA BeginningsAre ==
  ASSUME TypeOK, NEW f \in Functions
  PROVE  /\ Beginnings(f)[0] = { <<>> }
         /\ \A i \in 1..Len(Body(f)) :
              Beginnings(f)[i] = Extended(Beginnings(f)[i - 1], OwnInstrs(f, Body(f)[i]))
<1> DEFINE n == Len(Body(f))
           E == [i \in 1..n |-> OwnInstrs(f, Body(f)[i])]
           g == Beginnings(f)
<1>1. n \in Nat
  BY ProgramTypes, LenProperties
<1>2. PICK h : h = [i \in 0..n |-> IF i = 0 THEN { <<>> } ELSE Extended(h[i - 1], E[i])]
  BY <1>1, Steps
<1>3. \A i \in 0..n : i # 0 => E[i] = OwnInstrs(f, Body(f)[i])
  BY <1>1
<1>4. h = [i \in 0..n |-> IF i = 0 THEN { <<>> }
                          ELSE Extended(h[i - 1], OwnInstrs(f, Body(f)[i]))]
  BY <1>2, <1>3
<1>5. g = CHOOSE k : k = [i \in 0..n |-> IF i = 0 THEN { <<>> }
                                 ELSE Extended(k[i - 1], OwnInstrs(f, Body(f)[i]))]
  BY DEF Beginnings
<1>6. g = [i \in 0..n |-> IF i = 0 THEN { <<>> }
                          ELSE Extended(g[i - 1], OwnInstrs(f, Body(f)[i]))]
  BY <1>4, <1>5
<1> HIDE DEF g
<1>7. \A i \in 1..n : i \in 0..n /\ i # 0
  BY <1>1
<1>8. 0 \in 0..n
  BY <1>1
<1>9. g[0] = { <<>> }
  BY <1>6, <1>8
<1>10. \A i \in 1..n : g[i] = Extended(g[i - 1], OwnInstrs(f, Body(f)[i]))
  BY <1>6, <1>7
<1> QED
  BY <1>9, <1>10 DEF g

LEMMA PrefixKept ==
  ASSUME NEW S, NEW s \in Seq(S), NEW t \in Seq(S), NEW e \in Seq(S), IsPrefix(s, t)
  PROVE  IsPrefix(s, t \o e)
<1> DEFINE u == t \o e
           n == Len(s)
<1>1. n \in Nat /\ Len(t) \in Nat /\ Len(e) \in Nat /\ n <= Len(t)
  BY LenProperties DEF IsPrefix
<1>2. /\ u \in Seq(S) /\ Len(u) = Len(t) + Len(e)
      /\ \A i \in 1..(Len(t) + Len(e)) : u[i] = IF i <= Len(t) THEN t[i] ELSE e[i - Len(t)]
  BY ConcatProperties
<1> HIDE DEF u, n
<1>3. \A i \in 1..n : i \in 1..Len(t) /\ i \in 1..Len(u) /\ u[i] = t[i]
  BY <1>1, <1>2
<1>4. \A i \in 1..n : t[i] \in S /\ u[i] \in S
  BY <1>2, <1>3, ElementOfSeq
<1>5. n - 1 + 1 = n /\ 1 \in Int /\ n \in Int /\ \A i \in 1..n : 1 + i - 1 = i
  BY <1>1
<1>6. /\ SubSeq(t, 1, n) \in Seq(S)
      /\ Len(SubSeq(t, 1, n)) = IF 1 <= n THEN n - 1 + 1 ELSE 0
      /\ \A i \in 1..(n - 1 + 1) : SubSeq(t, 1, n)[i] = t[1 + i - 1]
  BY <1>4, <1>5, SubSeqProperties
<1>7. /\ SubSeq(u, 1, n) \in Seq(S)
      /\ Len(SubSeq(u, 1, n)) = IF 1 <= n THEN n - 1 + 1 ELSE 0
      /\ \A i \in 1..(n - 1 + 1) : SubSeq(u, 1, n)[i] = u[1 + i - 1]
  BY <1>4, <1>5, SubSeqProperties
<1> DEFINE a == SubSeq(t, 1, n)
           b == SubSeq(u, 1, n)
<1> HIDE DEF a, b
<1>8. a \in Seq(S) /\ Len(a) = n /\ \A i \in 1..n : a[i] = t[i]
  BY <1>1, <1>5, <1>6 DEF a
<1>9. b \in Seq(S) /\ Len(b) = n /\ \A i \in 1..n : b[i] = u[i]
  BY <1>1, <1>5, <1>7 DEF b
<1>10. \A i \in 1..Len(a) : a[i] = b[i]
  BY <1>3, <1>8, <1>9
<1>11. a = b
  BY <1>8, <1>9, <1>10, SeqEqual
<1>12. Len(s) <= Len(u)
  BY <1>1, <1>2 DEF n
<1> QED
  BY <1>11, <1>12 DEF IsPrefix, a, b, n, u

LEMMA PrefixOfItself ==
  ASSUME NEW S, NEW s \in Seq(S)
  PROVE  IsPrefix(s, s)
BY LenProperties DEF IsPrefix

-----------------------------------------------------------------------------
\* One more node

Codes == Seq(Instr)

LEMMA OwnInstrsType ==
  ASSUME TypeOK, NEW f \in Functions, NEW i \in DOMAIN Body(f)
  PROVE  OwnInstrs(f, Body(f)[i]) \subseteq Codes
<1> DEFINE s == Body(f)[i]
<1>1. s \in Site /\ (s.kind \in {"call", "local"} => s.fn \in Functions)
  BY SiteTypes
<1>2. s.kind = "call" => NameOf(s.fn) \in Name
  BY <1>1, ProgramTypes
<1> HIDE DEF s
<1>3. /\ s.kind = "call" => << [op |-> "call", by |-> f, to |-> NameOf(s.fn)] >> \in Codes
      /\ << [op |-> "call", by |-> f, to |-> Runtime] >> \in Codes
      /\ <<StoreBy(f)>> \in Codes
  BY <1>2 DEF Codes, Instr, Call, StoreBy
<1>4. <<>> \in Codes
  BY EmptySeq DEF Codes
<1> QED
  BY <1>3, <1>4 DEF OwnInstrs, s

LEMMA ExtendedType ==
  ASSUME NEW C \in SUBSET Codes, NEW E \in SUBSET Codes
  PROVE  Extended(C, E) \subseteq Codes
<1>1. \A c \in Codes, e \in Codes : c \o e \in Codes
  BY ConcatProperties DEF Codes
<1> SUFFICES ASSUME NEW x \in Extended(C, E) PROVE x \in Codes
  OBVIOUS
<1>2. PICK c \in C, e \in E : x = c \o e
  BY DEF Extended
<1> QED
  BY <1>1, <1>2

LEMMA BeginningsType ==
  ASSUME TypeOK, NEW f \in Functions, NEW i \in 0..Len(Body(f))
  PROVE  Beginnings(f)[i] \subseteq Codes
<1> DEFINE n == Len(Body(f))
           bad == { k \in 0..n : ~(Beginnings(f)[k] \subseteq Codes) }
<1>1. n \in Nat /\ DOMAIN Body(f) = 1..n
  BY ProgramTypes, LenProperties
<1>2. ASSUME bad # {} PROVE FALSE
  <2>1. bad \in SUBSET Nat
    BY <1>1
  <2>2. PICK m \in bad : \A k \in bad : m <= k
    BY <1>2, <2>1, HasLeast
  <2>3. m # 0
    <3>1. Beginnings(f)[0] = { <<>> } /\ <<>> \in Codes
      BY BeginningsAre, EmptySeq DEF Codes
    <3> QED
      BY <2>2, <3>1
  <2>4. m \in 1..n /\ m - 1 \in 0..n /\ ~(m <= m - 1)
    BY <1>1, <2>2, <2>3
  <2>5. Beginnings(f)[m - 1] \subseteq Codes
    BY <2>2, <2>4
  <2>6. Beginnings(f)[m] = Extended(Beginnings(f)[m - 1], OwnInstrs(f, Body(f)[m]))
    BY <2>4, BeginningsAre
  <2>7. OwnInstrs(f, Body(f)[m]) \subseteq Codes
    BY <1>1, <2>4, OwnInstrsType
  <2>9. Beginnings(f)[m] \subseteq Codes
    BY <2>5, <2>6, <2>7, ExtendedType
  <2> QED
    BY <2>2, <2>9
<1> QED
  BY <1>1, <1>2

LEMMA OwnCodesType ==
  ASSUME TypeOK, NEW f \in Functions
  PROVE  OwnCodes(f) \subseteq Codes
<1> DEFINE ret == [op |-> "ret", by |-> f]
<1>1. Len(Body(f)) \in 0..Len(Body(f))
  BY ProgramTypes, LenProperties
<1>2. Beginnings(f)[Len(Body(f))] \subseteq Codes
  BY <1>1, BeginningsType
<1>3. ret \in Instr
  BY DEF Instr
<1> HIDE DEF ret
<1>4. \A c \in Codes : Append(c, ret) \in Codes
  BY <1>3, AppendProperties DEF Codes
<1> QED
  BY <1>2, <1>4 DEF OwnCodes, ret

LEMMA WholeHolds ==
  ASSUME NEW n, NEW block, Whole(n, block)
  PROVE  HoldsOwnCode(n, block)
BY DEF Whole, HoldsOwnCode

LEMMA ProgressHolds ==
  ASSUME TypeOK, NEW x, x.fn \in Functions, NEW block, Progress(x, block)
  PROVE  HoldsOwnCode(NameOf(x.fn), block)
<1>1. Len(Body(x.fn)) \in Nat
  BY ProgramTypes, LenProperties
<1>2. x.site - 1 \in 0..Len(Body(x.fn)) /\ block \in Beginnings(x.fn)[x.site - 1]
  BY <1>1 DEF Progress
<1> QED
  BY <1>2 DEF HoldsOwnCode

\* Whatever follows the whole code of a function
LEMMA WholeExtends ==
  ASSUME TypeOK, NEW n, NEW block \in Codes, Whole(n, block), NEW e \in Codes
  PROVE  Whole(n, block \o e)
<1>0. PICK f \in Functions : NameOf(f) = n /\ \E c \in OwnCodes(f) : IsPrefix(c, block)
  BY DEF Whole
<1>1. PICK c \in OwnCodes(f) : IsPrefix(c, block)
  BY <1>0
<1>2. c \in Codes
  BY OwnCodesType
<1>3. IsPrefix(c, block \o e)
  BY <1>1, <1>2, PrefixKept DEF Codes
<1> QED
  BY <1>0, <1>3 DEF Whole

\* The next node of the function being compiled
LEMMA ProgressExtends ==
  ASSUME TypeOK, NEW x, x.fn \in Functions, NEW block, Progress(x, block),
         x.site \in DOMAIN Body(x.fn), NEW e \in OwnInstrs(x.fn, Body(x.fn)[x.site]),
         NEW y, y.fn = x.fn, y.site = x.site + 1
  PROVE  Progress(y, block \o e)
<1>1. DOMAIN Body(x.fn) = 1..Len(Body(x.fn)) /\ Len(Body(x.fn)) \in Nat
  BY ProgramTypes, LenProperties
<1>2. x.site \in 1..Len(Body(x.fn)) /\ y.site - 1 = x.site
      /\ y.site \in 1..(Len(Body(x.fn)) + 1)
  BY <1>1
<1>3. block \in Beginnings(x.fn)[x.site - 1]
  BY DEF Progress
<1>4. Beginnings(x.fn)[x.site] =
        Extended(Beginnings(x.fn)[x.site - 1], OwnInstrs(x.fn, Body(x.fn)[x.site]))
  BY <1>2, BeginningsAre
<1>5. block \o e \in Beginnings(x.fn)[x.site]
  BY <1>3, <1>4 DEF Extended
<1> QED
  BY <1>2, <1>5 DEF Progress

\* Behind its last node comes its return
LEMMA ProgressEnds ==
  ASSUME TypeOK, NEW x, x.fn \in Functions, NEW block \in Codes, Progress(x, block),
         x.site > Len(Body(x.fn))
  PROVE  block \o << [op |-> "ret", by |-> x.fn] >> \in OwnCodes(x.fn)
<1> DEFINE ret == [op |-> "ret", by |-> x.fn]
<1>1. Len(Body(x.fn)) \in Nat
  BY ProgramTypes, LenProperties
<1>2. x.site - 1 = Len(Body(x.fn)) /\ block \in Beginnings(x.fn)[x.site - 1]
  BY <1>1 DEF Progress
<1>3. ret \in Instr
  BY DEF Instr
<1>4. Append(block, ret) \in OwnCodes(x.fn)
  BY <1>2 DEF OwnCodes
<1> HIDE DEF ret
<1>5. Append(block, ret) = block \o <<ret>>
  BY <1>3, AppendIsConcat DEF Codes
<1> QED
  BY <1>4, <1>5 DEF ret

LEMMA EndIsWhole ==
  ASSUME TypeOK, NEW x, x.fn \in Functions, NEW block \in Codes, Progress(x, block),
         x.site > Len(Body(x.fn)), NEW rest \in Codes
  PROVE  Whole(NameOf(x.fn), block \o (<< [op |-> "ret", by |-> x.fn] >> \o rest))
<1> DEFINE ret == << [op |-> "ret", by |-> x.fn] >>
<1>1. ret \in Codes
  BY DEF Instr, Codes
<1>2. block \o ret \in OwnCodes(x.fn)
  BY ProgressEnds
<1> HIDE DEF ret
<1>3. block \o ret \in Codes
  BY <1>2, OwnCodesType
<1>4. IsPrefix(block \o ret, block \o ret)
  BY <1>3, PrefixOfItself DEF Codes
<1>5. IsPrefix(block \o ret, (block \o ret) \o rest)
  BY <1>3, <1>4, PrefixKept DEF Codes
<1>6. (block \o ret) \o rest = block \o (ret \o rest)
  BY <1>1, ConcatAssociative DEF Codes
<1> QED
  BY <1>2, <1>5, <1>6 DEF Whole, ret

-----------------------------------------------------------------------------
\* Steps by what they do to the block at hand

LEMMA ProgramKept == [Next]_vars => program' = program
BY DEF Next, Step, Demand, DemandLookup, GenerateModule, GenerateStatement, GenerateDone,
       RequireMiss, RequireClash, FinishLookup, NullPrototype, FinishLlvmCall, FinishLlvmIr,
       CallSite, FinishCallSite, RuntimeCallSite, UnsupportedNode, LocalFunction,
       FinishFunction, RedefineEntry, FinishLocalFunction, Overflow, Die, Dead, vars

\* The functions being compiled are the same, and as far
SameCompiles(s, t) ==
  /\ \A i \in DOMAIN s : s[i].op = "compile" => i \in DOMAIN t /\ t[i] = s[i]
  /\ \A i \in DOMAIN t : t[i].op = "compile" => i \in DOMAIN s /\ s[i].op = "compile"

\* Activation i of t is the innermost function being compiled, at the next node
OneFurther(s, t, i) ==
  /\ i \in DOMAIN t /\ t[i].op = "compile"
  /\ t[i].fn = s[i].fn /\ t[i].site = s[i].site + 1
  /\ \A j \in DOMAIN t : j > i => t[j].op # "compile"

LEMMA UpTo == \A n \in Nat \ {0} : \A i \in 1..n : i \in 1..(n - 1) \/ i = n
OBVIOUS

LEMMA CompilesPush ==
  ASSUME NEW s \in Seq(Frame), NEW y \in Frame, y.op # "compile"
  PROVE  SameCompiles(s, Append(s, y))
<1> DEFINE t == Append(s, y)
<1>1. /\ DOMAIN s = 1..Len(s) /\ DOMAIN t = 1..(Len(s) + 1) /\ Len(s) \in Nat
      /\ \A i \in 1..Len(s) : t[i] = s[i]
      /\ t[Len(s) + 1] = y
  BY AppendProperties, LenProperties
<1> HIDE DEF t
<1>2. \A i \in 1..(Len(s) + 1) : i \in 1..Len(s) \/ i = Len(s) + 1
  BY <1>1
<1>3. \A i \in 1..Len(s) : i \in 1..(Len(s) + 1)
  BY <1>1
<1>4. SameCompiles(s, t)
  BY <1>1, <1>2, <1>3 DEF SameCompiles
<1> QED
  BY <1>4 DEF t

LEMMA CompilesPop ==
  ASSUME NEW s \in Seq(Frame), s # <<>>, Last(s).op # "compile"
  PROVE  SameCompiles(s, Front(s))
<1> DEFINE t == Front(s)
<1>1. /\ DOMAIN s = 1..Len(s) /\ DOMAIN t = 1..(Len(s) - 1) /\ Len(s) \in Nat \ {0}
      /\ \A i \in 1..(Len(s) - 1) : t[i] = s[i]
      /\ Last(s) = s[Len(s)]
  <2>1. /\ t \in Seq(Frame) /\ Len(t) = Len(s) - 1 /\ Len(s) \in Nat \ {0}
        /\ \A i \in 1..(Len(s) - 1) : t[i] = s[i]
        /\ Last(s) = s[Len(s)]
    BY FrontLast
  <2>2. DOMAIN s = 1..Len(s) /\ DOMAIN t = 1..Len(t)
    BY <2>1, LenProperties
  <2> QED
    BY <2>1, <2>2
<1> HIDE DEF t
<1>2. \A i \in 1..Len(s) : i \in 1..(Len(s) - 1) \/ i = Len(s)
  BY <1>1, UpTo
<1>3. \A i \in 1..(Len(s) - 1) : i \in 1..Len(s)
  BY <1>1
<1>4. SameCompiles(s, t)
  BY <1>1, <1>2, <1>3 DEF SameCompiles
<1> QED
  BY <1>4 DEF t

LEMMA CompilesStatement ==
  ASSUME NEW s \in Seq(Frame), s # <<>>, Last(s).op = "generate"
  PROVE  SameCompiles(s, AdvancedStatement(s))
<1>1. PICK t : t = AdvancedStatement(s)
  OBVIOUS
<1>2. /\ t \in Seq(Frame) /\ Len(t) = Len(s)
      /\ \A i \in 1..(Len(s) - 1) : t[i] = s[i]
      /\ Last(t).op = "generate"
  <2>1. Last(s) \in Frame
    BY FrontLast
  <2> QED
    BY <1>1, <2>1, Advanced, AdvanceFrame
<1>3. /\ DOMAIN s = 1..Len(s) /\ DOMAIN t = 1..Len(s) /\ Len(s) \in Nat \ {0}
      /\ Last(s) = s[Len(s)] /\ Last(t) = t[Len(s)]
  BY <1>2, FrontLast, LenProperties DEF Last
<1>4. \A i \in 1..Len(s) : i \in 1..(Len(s) - 1) \/ i = Len(s)
  BY <1>3, UpTo
<1> QED
  BY <1>1, <1>2, <1>3, <1>4 DEF SameCompiles

LEMMA CompilesAdvance ==
  ASSUME NEW s \in Seq(Frame), s # <<>>, Last(s).op = "compile"
  PROVE  OneFurther(s, AdvancedSite(s), Len(s))
<1>1. PICK t : t = AdvancedSite(s)
  OBVIOUS
<1>2. /\ t \in Seq(Frame) /\ Len(t) = Len(s)
      /\ Last(t).op = "compile" /\ Last(t).fn = Last(s).fn
      /\ Last(t).site = Last(s).site + 1
  <2>1. Last(s) \in Frame
    BY FrontLast
  <2> QED
    BY <1>1, <2>1, Advanced, AdvanceFrame
<1>3. /\ DOMAIN t = 1..Len(s) /\ Len(s) \in Nat \ {0}
      /\ Last(s) = s[Len(s)] /\ Last(t) = t[Len(s)]
  BY <1>2, FrontLast, LenProperties DEF Last
<1>4. \A j \in 1..Len(s) : ~(j > Len(s))
  BY <1>3
<1> QED
  BY <1>1, <1>2, <1>3, <1>4 DEF OneFurther

LEMMA TwoInstrs ==
  ASSUME NEW x \in Instr, NEW y \in Instr
  PROVE  <<x>> \o <<y>> = <<x, y>>
<1> DEFINE s == <<x>> \o <<y>>
           t == <<x, y>>
<1>1. <<x>> \in Seq(Instr) /\ <<y>> \in Seq(Instr) /\ Len(<<x>>) = 1 /\ Len(<<y>>) = 1
  OBVIOUS
<1>2. /\ s \in Seq(Instr) /\ Len(s) = 2
      /\ \A i \in 1..2 : s[i] = IF i <= 1 THEN <<x>>[i] ELSE <<y>>[i - 1]
  BY <1>1, ConcatProperties
<1>3. t \in Seq(Instr) /\ Len(t) = 2 /\ t[1] = x /\ t[2] = y
  OBVIOUS
<1>4. s[1] = x /\ s[2] = y
  BY <1>2
<1>5. \A i \in 1..2 : i = 1 \/ i = 2
  OBVIOUS
<1> HIDE DEF s, t
<1>6. \A i \in 1..Len(s) : s[i] = t[i]
  BY <1>2, <1>3, <1>4, <1>5
<1>7. s = t
  BY <1>2, <1>3, <1>6, SeqEqual
<1> QED
  BY <1>7 DEF s, t

Stays == UNCHANGED <<code, target>> /\ SameCompiles(stack, stack')
PassesNode ==
  /\ target # NoTarget /\ target' = target
  /\ \E i \in DOMAIN stack :
       /\ Innermost(i) /\ OneFurther(stack, stack', i)
       /\ stack[i].site \in DOMAIN Body(stack[i].fn)
       /\ \E e \in OwnInstrs(stack[i].fn, Body(stack[i].fn)[stack[i].site]) :
            EmitAll(e) \/ (e = <<>> /\ UNCHANGED code)
StartsBlock ==
  \E f \in Functions :
    /\ EnterFunction(f)
    /\ \E entry : \E base \in Seq(Frame) : stack' = Append(base, CompileFrame(f, entry))
EndsBlock ==
  /\ stack # <<>> /\ Top.op = "compile" /\ Top.site > Len(Body(Top.fn))
  /\ target # NoTarget /\ target' = target
  /\ \E rest \in Codes : EmitAll(<<Return>> \o rest)

LEMMA MissBlock ==
  ASSUME NEW f \in Functions, NEW base \in Seq(Frame), CompileMissing(f, base),
         SameCompiles(stack, base)
  PROVE  Stays \/ StartsBlock
BY DEF CompileMissing, Stays, StartsBlock, RejectFunction

\* The function at work is the innermost one, and has somewhere to emit to
LEMMA TopCompiles ==
  ASSUME Types, stack # <<>>, Top.op = "compile"
  PROVE  /\ Innermost(Len(stack)) /\ target # NoTarget
         /\ OneFurther(stack, AdvancedSite(stack), Len(stack))
<1>0. TypeOK /\ stack \in Seq(Frame)
  BY DEF Types, TypeOK
<1>1. stack # <<>> => /\ Top = Last(stack) /\ Top \in Frame
                      /\ Top = stack[Len(stack)] /\ Len(stack) \in DOMAIN stack
                      /\ Len(stack) \in Nat \ {0} /\ DOMAIN stack = 1..Len(stack)
  BY <1>0, TopTypes, LenProperties DEF Top
<1>2. \A j \in DOMAIN stack : ~(j > Len(stack))
  BY <1>1
<1>3. target # NoTarget
  BY <1>1, TargetWhenCompiling
<1> QED
  BY <1>0, <1>1, <1>2, <1>3, CompilesAdvance DEF Innermost, Top

LEMMA NodePasses ==
  ASSUME Types, RuntimeCallSite \/ UnsupportedNode
  PROVE  PassesNode
<1>0. TypeOK /\ stack \in Seq(Frame)
  BY DEF Types, TypeOK
<1>1. stack # <<>> => /\ Top = Last(stack) /\ Top \in Frame
                      /\ Top = stack[Len(stack)] /\ Len(stack) \in DOMAIN stack
                      /\ Len(stack) \in Nat \ {0} /\ DOMAIN stack = 1..Len(stack)
  BY <1>0, TopTypes, LenProperties DEF Top
<1>2. stack # <<>> /\ Top.op = "compile" =>
        /\ Innermost(Len(stack)) /\ target # NoTarget
        /\ OneFurther(stack, AdvancedSite(stack), Len(stack))
  BY TopCompiles
<1>3. PICK kind \in {"runtime", "unsupported"} : AtSite(kind)
  BY DEF RuntimeCallSite, UnsupportedNode
<1>4. /\ stack # <<>> /\ Top.op = "compile" /\ Top.site \in DOMAIN Body(Top.fn)
      /\ Body(Top.fn)[Top.site].kind = kind
  BY <1>0, <1>3, AtSiteTypes
<1>5. stack' = AdvancedSite(stack) /\ target' = target
  BY DEF RuntimeCallSite, UnsupportedNode, compileState
<1>6. CASE RuntimeCallSite
  <2> DEFINE e == << [op |-> "call", by |-> Top.fn, to |-> Runtime] >>
  <2>1. EmitAll(e)
    BY <1>6 DEF RuntimeCallSite, Emit
  <2>2. Body(Top.fn)[Top.site].kind = "runtime"
    BY <1>6, <1>0, AtSiteTypes DEF RuntimeCallSite
  <2>3. e \in OwnInstrs(Top.fn, Body(Top.fn)[Top.site])
    BY <2>2 DEF OwnInstrs
  <2> HIDE DEF e
  <2> QED
    BY <1>1, <1>2, <1>4, <1>5, <2>1, <2>3 DEF PassesNode
<1>7. CASE UnsupportedNode
  <2>1. code' = code /\ Body(Top.fn)[Top.site].kind = "unsupported"
    BY <1>7, <1>0, AtSiteTypes DEF UnsupportedNode
  <2>2. <<>> \in OwnInstrs(Top.fn, Body(Top.fn)[Top.site])
    BY <2>1 DEF OwnInstrs
  <2> QED
    BY <1>1, <1>2, <1>4, <1>5, <2>1, <2>2 DEF PassesNode
<1> QED
  BY <1>6, <1>7

LEMMA CallPasses ==
  ASSUME Types, FinishCallSite
  PROVE  PassesNode
<1>0. TypeOK /\ stack \in Seq(Frame)
  BY DEF Types, TypeOK
<1>1. stack # <<>> => /\ Top = Last(stack) /\ Top \in Frame
                      /\ Top = stack[Len(stack)] /\ Len(stack) \in DOMAIN stack
                      /\ Len(stack) \in Nat \ {0} /\ DOMAIN stack = 1..Len(stack)
  BY <1>0, TopTypes, LenProperties DEF Top
<1> DEFINE c == Last(Front(stack))
           k == Len(stack) - 1
           e == << [op |-> "call", by |-> c.fn, to |-> NameOf(Top.fn)] >>
<1>2. /\ stack # <<>> /\ Len(stack) > 1 /\ Top.op = "require"
      /\ EmitAll(e) /\ stack' = AdvancedSite(Front(stack)) /\ target' = target
  BY DEF FinishCallSite, Hit, Requiring, Running, Emit, compileState
<1>3. /\ Front(stack) \in Seq(Frame) /\ Front(stack) # <<>>
      /\ c.op = "compile" /\ Waiting(c, "call", Top.fn) /\ target # NoTarget
  BY <1>2, WaitingCaller
<1>4. /\ Len(Front(stack)) = k /\ k \in DOMAIN stack /\ c = stack[k]
      /\ \A j \in DOMAIN stack : j > k => j = Len(stack)
      /\ Front(stack)[k] = stack[k]
  <2>1. /\ Len(Front(stack)) = k /\ k \in Nat \ {0}
        /\ \A i \in 1..k : Front(stack)[i] = stack[i]
    <3>1. /\ Len(Front(stack)) = Len(stack) - 1
          /\ \A i \in 1..(Len(stack) - 1) : Front(stack)[i] = stack[i]
      BY <1>0, <1>2, FrontLast
    <3>2. \A n \in Nat \ {0} : n > 1 => n - 1 \in Nat \ {0}
      OBVIOUS
    <3>3. k \in Nat \ {0}
      BY <1>1, <1>2, <3>2
    <3> QED
      BY <3>1, <3>3
  <2>2. c = Front(stack)[k] /\ k \in 1..k
    <3>1. c = Front(stack)[Len(Front(stack))]
      BY <1>3, FrontLast
    <3>2. \A n \in Nat \ {0} : n \in 1..n
      OBVIOUS
    <3> HIDE DEF c, k
    <3> QED
      BY <2>1, <3>1, <3>2
  <2>3. k \in DOMAIN stack /\ \A j \in DOMAIN stack : j > k => j = Len(stack)
    BY <1>1, <1>2
  <2> HIDE DEF c, k
  <2> QED
    BY <2>1, <2>2, <2>3
<1>5. Innermost(k)
  BY <1>1, <1>2, <1>3, <1>4 DEF Innermost
<1>6. OneFurther(Front(stack), stack', k)
  BY <1>2, <1>3, <1>4, CompilesAdvance
<1>7. OneFurther(stack, stack', k)
  BY <1>4, <1>6 DEF OneFurther
<1>8. c.site \in DOMAIN Body(c.fn) /\ e \in OwnInstrs(c.fn, Body(c.fn)[c.site])
  BY <1>3 DEF Waiting, OwnInstrs
<1> HIDE DEF e
<1> QED
  BY <1>2, <1>3, <1>4, <1>5, <1>7, <1>8 DEF PassesNode

LEMMA BlockKinds ==
  ASSUME Types, [Next]_vars
  PROVE  Stays \/ PassesNode \/ StartsBlock \/ EndsBlock
<1>0. /\ TypeOK /\ stack \in Seq(Frame) /\ Shape(stack)
      /\ SameCompiles(stack, stack) /\ SameCompiles(<<>>, <<>>)
  BY DEF Types, TypeOK, StackShape, SameCompiles
<1>1. stack # <<>> => /\ Top = Last(stack) /\ Top \in Frame
                      /\ Top = stack[Len(stack)] /\ Len(stack) \in DOMAIN stack
                      /\ Len(stack) \in Nat \ {0} /\ DOMAIN stack = 1..Len(stack)
  BY <1>0, TopTypes, LenProperties DEF Top
<1>2. stack # <<>> /\ Top.op = "compile" =>
        /\ Innermost(Len(stack)) /\ target # NoTarget
        /\ OneFurther(stack, AdvancedSite(stack), Len(stack))
  BY TopCompiles
<1>3. CASE \E f \in Functions : Demand(f)
  <2>1. PICK f \in Functions : Demand(f)
    BY <1>3
  <2>2. RequireFrame(f) \in Frame /\ RequireFrame(f).op # "compile"
    BY DEF RequireFrame, Frame
  <2>3. stack' = Append(stack, RequireFrame(f)) /\ UNCHANGED <<code, target>>
    BY <2>1 DEF Demand, compileState
  <2> QED
    BY <1>0, <2>2, <2>3, CompilesPush DEF Stays
<1>4. CASE \E n \in Name : DemandLookup(n)
  <2>1. PICK n \in Name : DemandLookup(n)
    BY <1>4
  <2>2. PICK y : y = [op |-> "lookup", name |-> n]
    OBVIOUS
  <2>3. y \in Frame /\ y.op # "compile"
    BY <2>2 DEF Frame
  <2>4. stack' = Append(stack, y) /\ UNCHANGED <<code, target>>
    BY <2>1, <2>2 DEF DemandLookup, compileState
  <2> QED
    BY <1>0, <2>3, <2>4, CompilesPush DEF Stays
<1>5. CASE \E m \in Modules : GenerateModule(m)
  <2>1. PICK m \in Modules : GenerateModule(m)
    BY <1>5
  <2>2. PICK y : y = [op |-> "generate", mod |-> m, next |-> 1]
    OBVIOUS
  <2>3. y \in Frame /\ y.op # "compile"
    BY <2>2 DEF Frame
  <2>4. stack' = Append(stack, y) /\ UNCHANGED <<code, target>>
    BY <2>1, <2>2 DEF GenerateModule, compileState
  <2> QED
    BY <1>0, <2>3, <2>4, CompilesPush DEF Stays
<1>6. CASE GenerateStatement
  <2> DEFINE f == program.stmts[Top.mod][Top.next]
             t == AdvancedStatement(stack)
  <2>1. /\ Running("generate") /\ Top.next <= Len(program.stmts[Top.mod])
        /\ stack # <<>> /\ Last(stack).op = "generate" /\ Top.op = "generate"
    BY <1>6 DEF GenerateStatement, Running, Top
  <2>2. f \in Functions
    BY <1>0, <2>1, TakenNow
  <2>3. t \in Seq(Frame) /\ SameCompiles(stack, t)
    BY <1>0, <2>1, Advanced, CompilesStatement
  <2> HIDE DEF f, t
  <2>4. \/ stack' = t /\ UNCHANGED <<code, compileState>>
        \/ CompileMissing(f, t)
        \/ Die("assert")
    BY <1>6 DEF GenerateStatement, f, t
  <2> QED
    BY <1>0, <2>2, <2>3, <2>4, MissBlock DEF Stays, Die, compileState
<1>7. CASE GenerateDone \/ FinishLookup
  <2>1. /\ stack # <<>> /\ Last(stack).op # "compile"
        /\ stack' \in {stack, Front(stack)} /\ UNCHANGED <<code, target>>
    BY <1>7 DEF GenerateDone, FinishLookup, Running, Die, Top, compileState
  <2> QED
    BY <1>0, <2>1, CompilesPop DEF Stays
<1>8. CASE RequireMiss
  <2>1. /\ stack # <<>> /\ Top.op = "require" /\ CompileMissing(Top.fn, stack)
    BY <1>8 DEF RequireMiss, Requiring, Running
  <2>2. Top.fn \in Functions
    BY <1>1, <2>1, FrameFields
  <2> QED
    BY <1>0, <2>1, <2>2, MissBlock
<1>9. CASE FinishLlvmCall \/ FinishLlvmIr
  <2>1. /\ stack # <<>> /\ Len(stack) = 1 /\ Last(stack).op # "compile"
        /\ stack' = <<>> /\ UNCHANGED <<code, target>>
    BY <1>9 DEF FinishLlvmCall, FinishLlvmIr, Hit, Requiring, Running, Top, compileState
  <2>2. Front(stack) = <<>>
    BY <1>0, <2>1, CallerFrame
  <2>3. SameCompiles(stack, <<>>)
    BY <1>0, <2>1, <2>2, CompilesPop
  <2> QED
    BY <2>1, <2>3 DEF Stays
<1>10. CASE CallSite
  <2>1. PICK g \in Functions : stack' = Append(stack, RequireFrame(g))
    BY <1>0, <1>10, AtSiteTypes DEF CallSite
  <2>2. RequireFrame(g) \in Frame /\ RequireFrame(g).op # "compile"
    BY DEF RequireFrame, Frame
  <2>3. UNCHANGED <<code, target>>
    BY <1>10 DEF CallSite, compileState
  <2> QED
    BY <1>0, <2>1, <2>2, <2>3, CompilesPush DEF Stays
<1>11. CASE RuntimeCallSite \/ UnsupportedNode
  BY <1>11, NodePasses
<1>12. CASE LocalFunction
  <2> DEFINE g == Body(Top.fn)[Top.site].fn
             s == Body(Top.fn)[Top.site]
  <2>1. /\ stack # <<>> /\ Top.op = "compile" /\ Top.site \in DOMAIN Body(Top.fn)
        /\ s.kind = "local" /\ g \in Functions
    BY <1>0, <1>12, AtSiteTypes DEF LocalFunction
  <2>2. CASE EnterFunction(g) /\ stack' = Append(stack, CompileFrame(g, FALSE))
    BY <1>0, <2>1, <2>2 DEF StartsBlock
  <2>3. CASE /\ RejectFunction(g) /\ stack' = AdvancedSite(stack)
             /\ UNCHANGED code \/ Emit(StoreBy(Top.fn))
    <3>1. g \in program.opaque /\ target' = target
      BY <2>3 DEF RejectFunction
    <3>2. <<>> \in OwnInstrs(Top.fn, s) /\ <<StoreBy(Top.fn)>> \in OwnInstrs(Top.fn, s)
      BY <2>1, <3>1 DEF OwnInstrs
    <3>3. UNCHANGED code \/ EmitAll(<<StoreBy(Top.fn)>>)
      BY <2>3 DEF Emit
    <3> QED
      BY <1>1, <1>2, <2>1, <2>3, <3>1, <3>2, <3>3 DEF PassesNode
  <2> QED
    BY <1>12, <2>2, <2>3 DEF LocalFunction
<1>13. CASE FinishCallSite
  BY <1>13, CallPasses
<1>14. CASE FinishFunction
  <2>1. /\ stack # <<>> /\ Top.op = "compile" /\ Top.site > Len(Body(Top.fn))
        /\ EmitAll(<<Return>>) /\ target' = target
    BY <1>14 DEF FinishFunction, AtReturn, Running, Emit, compileState
  <2>2. Return \in Instr
    BY <1>1, <2>1, FrameFields DEF Return, Instr
  <2>3. <<Return>> \o <<>> = <<Return>> /\ <<>> \in Codes
    BY <2>2, ConcatEmptySeq, EmptySeq DEF Codes
  <2> QED
    BY <1>2, <2>1, <2>3 DEF EndsBlock
<1>15. CASE FinishLocalFunction
  <2> DEFINE c == Last(Front(stack))
  <2>1. /\ stack # <<>> /\ Top.op = "compile" /\ Top.site > Len(Body(Top.fn))
        /\ EmitAll(<<Return, StoreBy(c.fn)>>) /\ target' = target /\ ~Top.entry
    BY <1>15 DEF FinishLocalFunction, AtReturn, Running, compileState
  <2>2. Len(stack) # 1
    BY <1>0, <1>1, <2>1 DEF Shape, Bottom
  <2>3. Len(stack) > 1
    BY <1>1, <2>1, <2>2
  <2>4. c.fn \in Functions
    BY <2>1, <2>3, WaitingCaller
  <2>5. Return \in Instr /\ StoreBy(c.fn) \in Instr
    BY <1>1, <2>1, <2>4, FrameFields DEF Return, StoreBy, Instr
  <2> HIDE DEF c
  <2>6. PICK x \in Instr, y \in Instr : x = Return /\ y = StoreBy(c.fn)
    BY <2>5
  <2>7. <<x>> \o <<y>> = <<x, y>> /\ <<y>> \in Codes
    BY TwoInstrs DEF Codes
  <2> QED
    BY <1>2, <2>1, <2>6, <2>7 DEF EndsBlock, c
<1>16. CASE RequireClash \/ NullPrototype \/ RedefineEntry \/ Overflow \/ UNCHANGED vars
  <2>1. UNCHANGED <<stack, code, target>>
    BY <1>16 DEF RequireClash, NullPrototype, RedefineEntry, Overflow, Die, vars
  <2> QED
    BY <1>0, <2>1 DEF Stays
<1> QED
  BY <1>3, <1>4, <1>5, <1>6, <1>7, <1>8, <1>9, <1>10, <1>11, <1>12, <1>13, <1>14, <1>15, <1>16
  DEF Next, Step, Dead

-----------------------------------------------------------------------------
\* What is behind whose return

Straight == StrayCodeFollowsReturn /\ BlockAtHand

\* A function's own code is the same in each state
LEMMA OwnStep ==
  ASSUME program' = program, NEW f
  PROVE  /\ Beginnings(f)' = Beginnings(f) /\ OwnCodes(f)' = OwnCodes(f)
         /\ NameOf(f)' = NameOf(f) /\ Body(f)' = Body(f)
<1>1. Beginnings(f)' = Beginnings(f)
  BY DEF Beginnings, Body, OwnInstrs, NameOf, StoreBy
<1>2. Body(f)' = Body(f)
  BY DEF Body
<1>3. OwnCodes(f)' = OwnCodes(f)
  BY <1>1, <1>2 DEF OwnCodes
<1> QED
  BY <1>1, <1>2, <1>3 DEF NameOf

LEMMA StrayLater ==
  ASSUME program' = program,
         \A n \in Name : \A b \in DOMAIN code'[n] : HoldsOwnCode(n, code'[n][b])
  PROVE  StrayCodeFollowsReturn'
<1>1. \A f : /\ Beginnings(f)' = Beginnings(f) /\ OwnCodes(f)' = OwnCodes(f)
             /\ NameOf(f)' = NameOf(f) /\ Body(f)' = Body(f)
  BY OwnStep
<1> QED
  BY <1>1 DEF StrayCodeFollowsReturn, HoldsOwnCode

LEMMA AtHandLater ==
  ASSUME program' = program, NEW block,
         target' # NoTarget => block = code'[target'.name][target'.block],
         target' # NoTarget =>
           \/ Whole(target'.name, block)
           \/ \E i \in DOMAIN stack' :
                /\ stack'[i].op = "compile"
                /\ \A j \in DOMAIN stack' : j > i => stack'[j].op # "compile"
                /\ NameOf(stack'[i].fn) = target'.name
                /\ Progress(stack'[i], block)
  PROVE  BlockAtHand'
<1>1. \A f : /\ Beginnings(f)' = Beginnings(f) /\ OwnCodes(f)' = OwnCodes(f)
             /\ NameOf(f)' = NameOf(f) /\ Body(f)' = Body(f)
  BY OwnStep
<1> QED
  BY <1>1 DEF BlockAtHand, Whole, Innermost, Progress

LEMMA StraightInit == Init => Straight
<1> SUFFICES ASSUME Init PROVE Straight
  OBVIOUS
<1>1. DOMAIN <<>> = {}
  BY EmptySeq
<1> QED
  BY <1>1 DEF Init, Straight, StrayCodeFollowsReturn, BlockAtHand

\* Behind the instructions emitted to it, the block at hand still holds its
\* function's own code, and the other blocks are as before.
LEMMA StraightEmit ==
  ASSUME TypeOK, StrayCodeFollowsReturn, target # NoTarget, target' = target,
         program' = program, NEW block, block = code[target.name][target.block],
         NEW e \in Codes, EmitAll(e) \/ (e = <<>> /\ code' = code),
         HoldsOwnCode(target.name, block \o e)
  PROVE  /\ StrayCodeFollowsReturn'
         /\ block \o e = code'[target'.name][target'.block]
<1>1. /\ target.name \in Name /\ target.block \in DOMAIN code[target.name]
      /\ code \in [Name -> Blocks]
  BY DEF TypeOK, Target, Blocks
<1>2. block \in Codes
  BY <1>1, LenProperties, ElementOfSeq DEF Blocks, Codes
<1>3. \A n \in Name :
        /\ DOMAIN code'[n] = DOMAIN code[n]
        /\ \A b \in DOMAIN code[n] :
             code'[n][b] = IF n = target.name /\ b = target.block
                           THEN block \o e ELSE code[n][b]
  <2>1. CASE EmitAll(e)
    BY <2>1, EmitType DEF Codes
  <2>2. CASE e = <<>> /\ code' = code
    BY <1>2, <2>2, ConcatEmptySeq DEF Codes
  <2> QED
    BY <2>1, <2>2
<1>4. ASSUME NEW n \in Name, NEW b \in DOMAIN code'[n]
      PROVE  HoldsOwnCode(n, code'[n][b])
  <2>1. b \in DOMAIN code[n] /\ HoldsOwnCode(n, code[n][b])
    BY <1>3, <1>4 DEF StrayCodeFollowsReturn
  <2>2. CASE n = target.name /\ b = target.block
    <3>1. code'[n][b] = block \o e
      BY <1>3, <2>1, <2>2
    <3> QED
      BY <2>2, <3>1
  <2>3. CASE ~(n = target.name /\ b = target.block)
    <3>1. code'[n][b] = code[n][b]
      BY <1>3, <2>1, <2>3
    <3> QED
      BY <2>1, <3>1
  <2> QED
    BY <2>2, <2>3
<1> QED
  BY <1>1, <1>3, <1>4, StrayLater

LEMMA AppendFrame ==
  ASSUME NEW s \in Seq(Frame), NEW y, Append(s, y) \in Seq(Frame)
  PROVE  /\ Len(Append(s, y)) = Len(s) + 1 /\ Len(s) \in Nat
         /\ Append(s, y)[Len(s) + 1] = y
<1>1. Len(s) \in Nat
  BY LenProperties
<1> QED
  BY <1>1

LEMMA StraightNext == Types /\ Straight /\ [Next]_vars => Straight'
<1> SUFFICES ASSUME Types, Straight, [Next]_vars PROVE Straight'
  OBVIOUS
<1>0. /\ TypeOK /\ stack \in Seq(Frame) /\ program' = program
      /\ StrayCodeFollowsReturn /\ BlockAtHand
      /\ DOMAIN stack = 1..Len(stack)
  BY ProgramKept, LenProperties DEF Types, TypeOK, Straight
<1> DEFINE block == code[target.name][target.block]
<1>1. target # NoTarget => block \in Codes
  <2>1. target # NoTarget =>
          /\ target.name \in Name /\ target.block \in DOMAIN code[target.name]
          /\ code \in [Name -> Blocks]
    BY <1>0 DEF TypeOK, Target, Blocks
  <2> QED
    BY <2>1, LenProperties, ElementOfSeq DEF Blocks, Codes
<1>2. target # NoTarget =>
        \/ Whole(target.name, block)
        \/ \E i \in DOMAIN stack : /\ Innermost(i) /\ NameOf(stack[i].fn) = target.name
                                  /\ Progress(stack[i], block)
  BY <1>0 DEF BlockAtHand
<1> HIDE DEF block
<1>3. \A i, k \in DOMAIN stack : Innermost(i) /\ Innermost(k) => i = k
  <2>1. \A n \in Nat : \A i, k \in 1..n : ~(i > k) /\ ~(k > i) => i = k
    OBVIOUS
  <2>2. Len(stack) \in Nat
    BY <1>0, LenProperties
  <2> QED
    BY <1>0, <2>1, <2>2 DEF Innermost
<1>4. CASE Stays
  <2>1. StrayCodeFollowsReturn'
    BY <1>0, <1>4, StrayLater DEF Stays, StrayCodeFollowsReturn
  <2>2. target' # NoTarget => block = code'[target'.name][target'.block]
    BY <1>4 DEF Stays, block
  <2>3. ASSUME NEW i \in DOMAIN stack, Innermost(i)
        PROVE  /\ i \in DOMAIN stack' /\ stack'[i] = stack[i] /\ stack'[i].op = "compile"
               /\ \A j \in DOMAIN stack' : j > i => stack'[j].op # "compile"
    BY <1>4, <2>3 DEF Stays, SameCompiles, Innermost
  <2> QED
    BY <1>0, <1>2, <1>4, <2>1, <2>2, <2>3, AtHandLater DEF Straight, Stays
<1>5. CASE PassesNode
  <2>1. /\ target # NoTarget /\ target' = target
        /\ \E i \in DOMAIN stack :
             /\ Innermost(i) /\ OneFurther(stack, stack', i)
             /\ stack[i].site \in DOMAIN Body(stack[i].fn)
             /\ \E e \in OwnInstrs(stack[i].fn, Body(stack[i].fn)[stack[i].site]) :
                  EmitAll(e) \/ (e = <<>> /\ UNCHANGED code)
    BY <1>5 DEF PassesNode
  <2>2. PICK i \in DOMAIN stack :
             /\ Innermost(i) /\ OneFurther(stack, stack', i)
             /\ stack[i].site \in DOMAIN Body(stack[i].fn)
             /\ \E e \in OwnInstrs(stack[i].fn, Body(stack[i].fn)[stack[i].site]) :
                  EmitAll(e) \/ (e = <<>> /\ UNCHANGED code)
    BY <2>1
  <2>3. PICK x : x = stack[i]
    OBVIOUS
  <2>4. PICK e \in OwnInstrs(x.fn, Body(x.fn)[x.site]) :
          EmitAll(e) \/ (e = <<>> /\ UNCHANGED code)
    BY <2>2, <2>3
  <2>5. x.fn \in Functions /\ x.op = "compile"
    <3>1. x \in Frame
      BY <1>0, <2>3, ElementOfSeq
    <3> QED
      BY <2>2, <2>3, <3>1, FrameFields DEF Innermost
  <2>6. e \in Codes
    BY <1>0, <2>2, <2>3, <2>5, OwnInstrsType
  <2>7. PICK y : y = stack'[i]
    OBVIOUS
  <2>8. /\ i \in DOMAIN stack' /\ y.op = "compile" /\ y.fn = x.fn /\ y.site = x.site + 1
        /\ \A j \in DOMAIN stack' : j > i => stack'[j].op # "compile"
    BY <2>2, <2>3, <2>7 DEF OneFurther
  <2>9. CASE Whole(target.name, block)
    <3>1. Whole(target.name, block \o e)
      BY <1>0, <1>1, <2>1, <2>6, <2>9, WholeExtends
    <3>2. /\ StrayCodeFollowsReturn'
          /\ block \o e = code'[target'.name][target'.block]
      BY <1>0, <2>1, <2>4, <2>6, <3>1, WholeHolds, StraightEmit DEF block
    <3> QED
      BY <1>0, <2>1, <3>1, <3>2, AtHandLater DEF Straight
  <2>10. CASE NameOf(x.fn) = target.name /\ Progress(x, block)
    <3>1. Progress(y, block \o e)
      BY <1>0, <2>2, <2>3, <2>5, <2>8, <2>10, ProgressExtends
    <3>2. HoldsOwnCode(target.name, block \o e)
      BY <1>0, <2>5, <2>8, <2>10, <3>1, ProgressHolds
    <3>3. /\ StrayCodeFollowsReturn'
          /\ block \o e = code'[target'.name][target'.block]
      BY <1>0, <2>1, <2>4, <2>6, <3>2, StraightEmit DEF block
    <3> QED
      BY <1>0, <2>1, <2>7, <2>8, <2>10, <3>1, <3>3, AtHandLater DEF Straight
  <2> QED
    BY <1>2, <1>3, <2>1, <2>2, <2>3, <2>9, <2>10
<1>6. CASE StartsBlock
  <2>1. PICK f \in Functions :
          /\ EnterFunction(f)
          /\ \E entry : \E base \in Seq(Frame) :
               stack' = Append(base, CompileFrame(f, entry))
    BY <1>6 DEF StartsBlock
  <2>2. PICK entry : \E base \in Seq(Frame) : stack' = Append(base, CompileFrame(f, entry))
    BY <2>1
  <2>3. PICK base \in Seq(Frame) : stack' = Append(base, CompileFrame(f, entry))
    BY <2>2
  <2>4. Types'
    BY TypesNext
  <2>5. PICK y : y = CompileFrame(f, entry)
    OBVIOUS
  <2>6. y.op = "compile" /\ y.fn = f /\ y.site = 1
    BY <2>5 DEF CompileFrame
  <2>7. /\ DOMAIN stack' = 1..Len(stack') /\ Len(stack') = Len(base) + 1
        /\ stack'[Len(base) + 1] = y /\ Len(base) \in Nat
    <3>1. stack' \in Seq(Frame)
      BY <2>4 DEF Types, TypeOK
    <3> QED
      BY <2>3, <2>5, <3>1, LenProperties, AppendFrame DEF CompileFrame
  <2>8. /\ Len(base) + 1 \in DOMAIN stack'
        /\ \A j \in DOMAIN stack' : ~(j > Len(base) + 1)
    BY <2>7
  <2>9. /\ code'[NameOf(f)] = Append(code[NameOf(f)], <<>>)
        /\ \A n \in Name \ {NameOf(f)} : code'[n] = code[n]
        /\ target'.name = NameOf(f) /\ target'.block = Len(code[NameOf(f)]) + 1
        /\ code[NameOf(f)] \in Blocks /\ NameOf(f) \in Name
    <3>1. NameOf(f) \in Name /\ target' = [name |-> NameOf(f), block |-> Len(code[NameOf(f)]) + 1]
      BY <1>0, <2>1, ProgramTypes DEF EnterFunction
    <3> QED
      BY <1>0, <2>1, <3>1, EnterType DEF TypeOK, Blocks
  <2>10. /\ DOMAIN code'[NameOf(f)] = 1..(Len(code[NameOf(f)]) + 1)
         /\ DOMAIN code[NameOf(f)] = 1..Len(code[NameOf(f)])
         /\ Len(code[NameOf(f)]) \in Nat
         /\ \A b \in 1..Len(code[NameOf(f)]) : code'[NameOf(f)][b] = code[NameOf(f)][b]
         /\ code'[NameOf(f)][Len(code[NameOf(f)]) + 1] = <<>>
    <3>1. <<>> \in Seq(Instr)
      BY EmptySeq
    <3> QED
      BY <2>9, <3>1, AppendProperties, LenProperties DEF Blocks
  <2>11. Progress(y, <<>>)
    <3>1. Len(Body(f)) \in Nat
      BY <1>0, ProgramTypes, LenProperties
    <3>2. 1 \in 1..(Len(Body(f)) + 1) /\ 1 - 1 = 0
      BY <3>1
    <3> QED
      BY <1>0, <2>6, <3>2, BeginningsAre DEF Progress
  <2>12. HoldsOwnCode(NameOf(f), <<>>)
    BY <1>0, <2>6, <2>11, ProgressHolds
  <2>13. ASSUME NEW n \in Name, NEW b \in DOMAIN code'[n]
         PROVE  HoldsOwnCode(n, code'[n][b])
    <3>1. CASE n # NameOf(f)
      <4>1. code'[n] = code[n]
        BY <2>9, <3>1
      <4> QED
        BY <1>0, <4>1 DEF StrayCodeFollowsReturn
    <3>2. CASE n = NameOf(f) /\ b \in 1..Len(code[NameOf(f)])
      <4>1. code'[n][b] = code[n][b] /\ b \in DOMAIN code[n]
        BY <2>10, <3>2
      <4> QED
        BY <1>0, <4>1 DEF StrayCodeFollowsReturn
    <3>3. CASE n = NameOf(f) /\ b = Len(code[NameOf(f)]) + 1
      BY <2>10, <2>12, <3>3
    <3>4. n = NameOf(f) => b \in 1..Len(code[NameOf(f)]) \/ b = Len(code[NameOf(f)]) + 1
      BY <2>10
    <3> QED
      BY <3>1, <3>2, <3>3, <3>4
  <2>14. StrayCodeFollowsReturn'
    BY <1>0, <2>13, StrayLater
  <2>15. <<>> = code'[target'.name][target'.block]
    BY <2>9, <2>10
  <2> QED
    BY <1>0, <2>6, <2>7, <2>8, <2>9, <2>11, <2>14, <2>15, AtHandLater DEF Straight
<1>7. CASE EndsBlock
  <2>1. /\ stack # <<>> /\ Top.op = "compile" /\ Top.site > Len(Body(Top.fn))
        /\ target # NoTarget /\ target' = target
    BY <1>7 DEF EndsBlock
  <2>2. PICK rest \in Codes : EmitAll(<<Return>> \o rest)
    BY <1>7 DEF EndsBlock
  <2>3. /\ Top \in Frame /\ Len(stack) \in Nat \ {0} /\ Top = stack[Len(stack)]
        /\ Len(stack) \in DOMAIN stack
    BY <1>0, <2>1, TopTypes
  <2>4. Top.fn \in Functions
    BY <2>1, <2>3, FrameFields
  <2>5. PICK e : e = << [op |-> "ret", by |-> Top.fn] >> \o rest
    OBVIOUS
  <2>6. EmitAll(e) /\ e \in Codes
    <3>1. Return = [op |-> "ret", by |-> Top.fn] /\ Return \in Instr
      BY <2>4 DEF Return, Instr
    <3>2. <<Return>> \in Codes
      BY <3>1 DEF Codes
    <3> QED
      BY <2>2, <2>5, <3>1, <3>2, ConcatProperties DEF Codes
  <2>7. Innermost(Len(stack))
    <3>1. \A j \in DOMAIN stack : ~(j > Len(stack))
      BY <1>0, <2>3
    <3> QED
      BY <2>1, <2>3, <3>1 DEF Innermost
  <2>8. Whole(target.name, block \o e)
    <3>1. CASE Whole(target.name, block)
      BY <1>0, <1>1, <2>1, <2>6, <3>1, WholeExtends
    <3>2. CASE NameOf(Top.fn) = target.name /\ Progress(Top, block)
      BY <1>0, <1>1, <2>1, <2>4, <2>5, <3>2, EndIsWhole
    <3> QED
      BY <1>2, <1>3, <2>1, <2>3, <2>7, <3>1, <3>2
  <2>9. /\ StrayCodeFollowsReturn'
        /\ block \o e = code'[target'.name][target'.block]
    BY <1>0, <2>1, <2>6, <2>8, WholeHolds, StraightEmit DEF block
  <2> QED
    BY <1>0, <2>1, <2>8, <2>9, AtHandLater DEF Straight
<1> QED
  BY <1>4, <1>5, <1>6, <1>7, BlockKinds

\* However compilations nest, what is emitted into another function's block
\* comes behind that function's own return.
THEOREM StrayCodeIsUnreachable == Spec => []StrayCodeFollowsReturn
<1>1. Init => Types /\ Straight
  BY TypesInit, StraightInit
<1>2. Types /\ Straight /\ [Next]_vars => (Types /\ Straight)'
  BY TypesNext, StraightNext
<1>3. Straight => StrayCodeFollowsReturn
  BY DEF Straight
<1> QED
  BY <1>1, <1>2, <1>3, PTL DEF Spec

-----------------------------------------------------------------------------
\* Ordered programs: one function at a time

Solo == OrderedProgramsAreWhole /\ OneByOne

\* OrderedProgramsAreWhole and OneByOne of given values of the variables
WholeIn(e, c, j) ==
  \A f \in Functions : e[NameOf(f)] = f /\ f \notin program.opaque =>
    /\ \E o \in OwnCodes(f) : c[NameOf(f)] = <<o>>
    /\ j[NameOf(f)] \in {<<>>, c[NameOf(f)]}
AloneIn(s, g, e, c, t, i) ==
  /\ e[NameOf(s[i].fn)] = NoNode
  /\ t = [name |-> NameOf(s[i].fn), block |-> 1]
  /\ Len(c[NameOf(s[i].fn)]) = 1 /\ Progress(s[i], c[NameOf(s[i].fn)][1])
  /\ i < Len(s) => /\ i = Len(s) - 1
                   /\ Last(s).op = "require"
                   /\ program.home[Last(s).fn] \in g
                   /\ e[NameOf(Last(s).fn)] = Last(s).fn
AllAlone(s, g, e, c, t) ==
  \A i \in DOMAIN s : s[i].op = "compile" => AloneIn(s, g, e, c, t, i)
FreshIn(s, e, c, j) ==
  \A n \in Name : e[n] = NoNode =>
    /\ j[n] = <<>>
    /\ c[n] = <<>> \/ \E i \in DOMAIN s : s[i].op = "compile" /\ NameOf(s[i].fn) = n

LEMMA SoloNow ==
  Solo <=> (Ordered => /\ WholeIn(entries, code, installed)
                       /\ AllAlone(stack, generated, entries, code, target)
                       /\ FreshIn(stack, entries, code, installed))
BY DEF Solo, OrderedProgramsAreWhole, OneByOne, Alone, WholeIn, AllAlone, AloneIn, FreshIn, Top

LEMMA OrderedStep ==
  ASSUME program' = program
  PROVE  Ordered' <=> Ordered
BY DEF Ordered, Body, Position

LEMMA SoloLater ==
  ASSUME program' = program,
         Ordered => /\ WholeIn(entries', code', installed')
                    /\ AllAlone(stack', generated', entries', code', target')
                    /\ FreshIn(stack', entries', code', installed')
  PROVE  Solo'
<1>1. \A f : /\ Beginnings(f)' = Beginnings(f) /\ OwnCodes(f)' = OwnCodes(f)
             /\ NameOf(f)' = NameOf(f) /\ Body(f)' = Body(f)
  BY OwnStep
<1>2. Ordered' <=> Ordered
  BY OrderedStep
<1>3. Ordered => OrderedProgramsAreWhole'
  BY <1>1 DEF OrderedProgramsAreWhole, WholeIn
<1>4. Ordered => \A i \in DOMAIN stack' : stack'[i].op = "compile" => Alone(i)'
  BY <1>1 DEF AllAlone, AloneIn, Alone, Progress, Top
<1>5. \A i : NameOf(stack[i].fn)' = NameOf(stack'[i].fn)
  BY DEF NameOf
<1>6. Ordered => \A n \in Name : entries'[n] = NoNode =>
        /\ installed'[n] = <<>>
        /\ \/ code'[n] = <<>>
           \/ \E i \in DOMAIN stack' : stack'[i].op = "compile" /\ NameOf(stack'[i].fn) = n
  BY DEF FreshIn
<1>7. Ordered => (\A n \in Name : entries[n] = NoNode =>
        /\ installed[n] = <<>>
        /\ \/ code[n] = <<>>
           \/ \E i \in DOMAIN stack : stack[i].op = "compile" /\ NameOf(stack[i].fn) = n)'
  BY <1>6 DEF NameOf
<1>8. OrderedProgramsAreWhole'
  BY <1>2, <1>3 DEF OrderedProgramsAreWhole
<1>9. OneByOne'
  BY <1>2, <1>4, <1>7 DEF OneByOne
<1> QED
  BY <1>8, <1>9 DEF Solo

LEMMA SoloInit == Init => Solo
<1> SUFFICES ASSUME Init PROVE Solo
  OBVIOUS
<1>1. \A f \in Functions : entries[NameOf(f)] # f
  <2>1. \A f \in Functions : NameOf(f) \in Name
    BY TypesInit, ProgramTypes DEF Types
  <2> QED
    BY <2>1, ConstantsAssumption DEF Init
<1>2. DOMAIN stack = {} /\ \A n \in Name : code[n] = <<>> /\ installed[n] = <<>>
  BY EmptySeq DEF Init
<1> QED
  BY <1>1, <1>2 DEF Solo, OrderedProgramsAreWhole, OneByOne

\* The function being compiled is the innermost activation, or the one below a
\* callee that has its _Entry.
LEMMA AloneIs ==
  ASSUME TypeOK, Solo, Ordered, NEW i \in DOMAIN stack, stack[i].op = "compile"
  PROVE  /\ stack # <<>> /\ AloneIn(stack, generated, entries, code, target, i)
         /\ target # NoTarget /\ stack[i].fn \in Functions
         /\ Top.op = "compile" => i = Len(stack)
         /\ Top.op # "compile" => /\ i = Len(stack) - 1 /\ Top.op = "require"
                                  /\ program.home[Top.fn] \in generated
                                  /\ entries[NameOf(Top.fn)] = Top.fn
<1>1. AloneIn(stack, generated, entries, code, target, i)
  BY SoloNow DEF AllAlone
<1>2. stack # <<>>
  BY EmptySeq
<1>3. /\ DOMAIN stack = 1..Len(stack) /\ Len(stack) \in Nat \ {0}
      /\ Top = stack[Len(stack)] /\ Top = Last(stack)
  BY <1>2, LenProperties, TopTypes DEF TypeOK, Top
<1>4. stack[i] \in Frame
  BY <1>3, ElementOfSeq DEF TypeOK
<1>5. NameOf(stack[i].fn) \in Name
  BY <1>4, FrameFields, ProgramTypes
<1>6. target \in Target
  BY <1>1, <1>5 DEF AloneIn, Target
<1>7. i = Len(stack) \/ i < Len(stack)
  BY <1>3
<1> QED
  BY <1>1, <1>2, <1>3, <1>4, <1>6, <1>7, FrameFields, TargetAssumption DEF AloneIn

-----------------------------------------------------------------------------
\* Steps of an ordered program

NoneCompiled(s) == \A i \in DOMAIN s : s[i].op # "compile"

LEMMA SoloQuiet ==
  ASSUME TypeOK, Solo, program' = program,
         UNCHANGED <<entries, code, installed, target>>,
         \/ UNCHANGED <<stack, generated>>
         \/ NoneCompiled(stack) /\ NoneCompiled(stack')
  PROVE  Solo'
<1> SUFFICES ASSUME Ordered
             PROVE  /\ WholeIn(entries', code', installed')
                    /\ AllAlone(stack', generated', entries', code', target')
                    /\ FreshIn(stack', entries', code', installed')
  BY SoloLater
<1>1. /\ WholeIn(entries, code, installed)
      /\ AllAlone(stack, generated, entries, code, target)
      /\ FreshIn(stack, entries, code, installed)
  BY SoloNow
<1>2. CASE UNCHANGED <<stack, generated>>
  BY <1>1, <1>2
<1>3. CASE NoneCompiled(stack) /\ NoneCompiled(stack')
  BY <1>1, <1>3 DEF NoneCompiled, AllAlone, FreshIn
<1> QED
  BY <1>2, <1>3

\* compile/Function for an _Entry begins
LEMMA SoloEnters ==
  ASSUME Types, Solo, [Next]_vars, Ordered => NoneCompiled(stack),
         NEW f \in Functions, EnterFunction(f), entries[NameOf(f)] = NoNode,
         NEW base \in Seq(Frame), NoneCompiled(base),
         stack' = Append(base, CompileFrame(f, TRUE)),
         UNCHANGED <<entries, installed>>
  PROVE  Solo'
<1>0. TypeOK /\ program' = program /\ Types'
  BY ProgramKept, TypesNext DEF Types
<1> SUFFICES ASSUME Ordered
             PROVE  /\ WholeIn(entries', code', installed')
                    /\ AllAlone(stack', generated', entries', code', target')
                    /\ FreshIn(stack', entries', code', installed')
  BY <1>0, SoloLater
<1>1. /\ WholeIn(entries, code, installed)
      /\ FreshIn(stack, entries, code, installed)
      /\ NoneCompiled(stack)
  BY SoloNow
<1>2. NameOf(f) \in Name /\ Len(Body(f)) \in Nat
  BY <1>0, ProgramTypes, LenProperties
<1>3. code[NameOf(f)] = <<>> /\ installed[NameOf(f)] = <<>>
  BY <1>1, <1>2 DEF FreshIn, NoneCompiled
<1>4. /\ code'[NameOf(f)] = Append(<<>>, <<>>)
      /\ \A n \in Name \ {NameOf(f)} : code'[n] = code[n]
  BY <1>0, <1>3, EnterType
<1>5. Len(code'[NameOf(f)]) = 1 /\ code'[NameOf(f)][1] = <<>>
  <2>1. <<>> \in Seq(Seq(Instr)) /\ <<>> \in Seq(Instr)
    BY EmptySeq
  <2> QED
    BY <1>4, <2>1, AppendProperties, EmptySeq
<1>6. target' = [name |-> NameOf(f), block |-> 1]
  BY <1>3, EmptySeq DEF EnterFunction
<1>7. PICK y : y = CompileFrame(f, TRUE)
  OBVIOUS
<1>8. y.op = "compile" /\ y.fn = f /\ y.site = 1 /\ y \in Frame
  BY <1>7, CompileFrameType DEF CompileFrame
<1>9. /\ DOMAIN stack' = 1..(Len(base) + 1) /\ Len(stack') = Len(base) + 1
      /\ stack'[Len(base) + 1] = y /\ Len(base) \in Nat
      /\ \A i \in 1..Len(base) : stack'[i].op # "compile"
  <2>1. /\ DOMAIN base = 1..Len(base) /\ Len(base) \in Nat
        /\ \A i \in 1..Len(base) : Append(base, y)[i] = base[i]
        /\ Append(base, y)[Len(base) + 1] = y
        /\ Len(Append(base, y)) = Len(base) + 1
        /\ Append(base, y) \in Seq(Frame)
    BY <1>8, AppendProperties, LenProperties
  <2>2. stack' = Append(base, y)
    BY <1>7
  <2>3. DOMAIN stack' = 1..(Len(base) + 1)
    BY <2>1, <2>2, LenProperties
  <2> QED
    BY <2>1, <2>2, <2>3 DEF NoneCompiled
<1>10. Progress(y, <<>>)
  <2>1. 1 \in 1..(Len(Body(f)) + 1) /\ 1 - 1 = 0
    BY <1>2
  <2> QED
    BY <1>0, <1>8, <2>1, BeginningsAre DEF Progress
<1>11. \A i \in DOMAIN stack' : stack'[i].op = "compile" =>
         i = Len(base) + 1 /\ ~(i < Len(stack'))
  <2>1. \A n \in Nat : \A i \in 1..(n + 1) : (i \in 1..n \/ i = n + 1) /\ ~(n + 1 < n + 1)
    OBVIOUS
  <2> QED
    BY <1>9, <2>1
<1>12. AllAlone(stack', generated', entries', code', target')
  BY <1>5, <1>6, <1>8, <1>9, <1>10, <1>11 DEF AllAlone, AloneIn
<1>13. Len(base) + 1 \in DOMAIN stack'
  BY <1>9
<1>14. FreshIn(stack', entries', code', installed')
  BY <1>1, <1>4, <1>8, <1>9, <1>13 DEF FreshIn, NoneCompiled
<1>15. WholeIn(entries', code', installed')
  <2> SUFFICES ASSUME NEW g \in Functions, entries[NameOf(g)] = g, g \notin program.opaque
               PROVE  /\ \E o \in OwnCodes(g) : code'[NameOf(g)] = <<o>>
                      /\ installed[NameOf(g)] \in {<<>>, code'[NameOf(g)]}
    BY DEF WholeIn
  <2>1. NameOf(g) \in Name /\ NameOf(g) # NameOf(f)
    BY <1>0, ConstantsAssumption, ProgramTypes
  <2> QED
    BY <1>1, <1>4, <2>1 DEF WholeIn
<1> QED
  BY <1>12, <1>14, <1>15

\* A rejected function has its _Entry at once, and no code
LEMMA SoloRejects ==
  ASSUME TypeOK, Solo, program' = program, Ordered => NoneCompiled(stack),
         NEW f \in Functions, f \in program.opaque, NoneCompiled(stack'),
         entries' = [entries EXCEPT ![NameOf(f)] = f],
         UNCHANGED <<code, installed>>
  PROVE  Solo'
<1> SUFFICES ASSUME Ordered
             PROVE  /\ WholeIn(entries', code', installed')
                    /\ AllAlone(stack', generated', entries', code', target')
                    /\ FreshIn(stack', entries', code', installed')
  BY SoloLater
<1>1. /\ WholeIn(entries, code, installed)
      /\ FreshIn(stack, entries, code, installed)
      /\ NoneCompiled(stack)
  BY SoloNow
<1>2. /\ NameOf(f) \in Name
      /\ \A n \in Name : entries'[n] = IF n = NameOf(f) THEN f ELSE entries[n]
      /\ \A g \in Functions : NameOf(g) \in Name
  BY ProgramTypes DEF TypeOK
<1>3. f # NoNode
  BY ConstantsAssumption
<1>4. WholeIn(entries', code', installed')
  BY <1>1, <1>2 DEF WholeIn
<1>5. FreshIn(stack', entries', code', installed')
  BY <1>1, <1>2, <1>3 DEF FreshIn, NoneCompiled
<1> QED
  BY <1>4, <1>5 DEF NoneCompiled, AllAlone

\* The JIT gets at most what a function with an _Entry has
Jits ==
  \A n \in Name : \/ installed'[n] = installed[n]
                  \/ installed'[n] = code[n] /\ entries[n] # NoNode

LEMMA SpecializedJits ==
  ASSUME TypeOK, NEW n \in Name, entries[n] # NoNode, Specialize(n)
  PROVE  Jits
BY DEF TypeOK, Specialize, jit, Jits

LEMMA SoloJits ==
  ASSUME TypeOK, Solo, program' = program, Jits, UNCHANGED <<entries, code, target>>,
         NoneCompiled(stack), NoneCompiled(stack')
  PROVE  Solo'
<1> SUFFICES ASSUME Ordered
             PROVE  /\ WholeIn(entries', code', installed')
                    /\ AllAlone(stack', generated', entries', code', target')
                    /\ FreshIn(stack', entries', code', installed')
  BY SoloLater
<1>1. /\ WholeIn(entries, code, installed)
      /\ FreshIn(stack, entries, code, installed)
      /\ \A g \in Functions : NameOf(g) \in Name
  BY SoloNow, ProgramTypes
<1>2. WholeIn(entries', code', installed')
  BY <1>1 DEF WholeIn, Jits
<1>3. FreshIn(stack', entries', code', installed')
  BY <1>1 DEF FreshIn, Jits, NoneCompiled
<1> QED
  BY <1>2, <1>3 DEF NoneCompiled, AllAlone

LEMMA OneElement ==
  ASSUME NEW S, NEW s \in Seq(S), Len(s) = 1
  PROVE  s = << s[1] >>
<1>1. s[1] \in S
  BY ElementOfSeq
<1>2. << s[1] >> \in Seq(S) /\ Len(<< s[1] >>) = 1 /\ << s[1] >>[1] = s[1]
  BY <1>1
<1>3. \A i \in 1..1 : i = 1
  OBVIOUS
<1> QED
  BY <1>2, <1>3, SeqEqual

\* What is emitted to the block at hand leaves all other code as it was
LEMMA SoloEmit ==
  ASSUME TypeOK, target # NoTarget, NEW e \in Codes,
         EmitAll(e) \/ (e = <<>> /\ UNCHANGED code),
         target.block = 1, Len(code[target.name]) = 1
  PROVE  /\ \A n \in Name \ {target.name} : code'[n] = code[n]
         /\ Len(code'[target.name]) = 1
         /\ code'[target.name][1] = code[target.name][1] \o e
         /\ code'[target.name] = << code[target.name][1] \o e >>
<1>1. /\ target.name \in Name /\ code \in [Name -> Blocks]
  BY DEF TypeOK, Target, Blocks
<1>2. /\ DOMAIN code[target.name] = 1..1
      /\ code[target.name][1] \in Codes
  BY <1>1, LenProperties, ElementOfSeq DEF Blocks, Codes
<1>3. CASE EmitAll(e)
  <2>1. /\ code' \in [Name -> Blocks]
        /\ \A n \in Name : DOMAIN code'[n] = DOMAIN code[n]
        /\ \A n \in Name : \A b \in DOMAIN code[n] :
             code'[n][b] = IF n = target.name /\ b = target.block
                           THEN code[n][b] \o e ELSE code[n][b]
    BY <1>3, EmitType DEF Codes
  <2>2. \A n \in Name \ {target.name} : code'[n] = code[n]
    BY <1>1, <1>3 DEF EmitAll
  <2>3. code'[target.name] \in Seq(Codes) /\ DOMAIN code'[target.name] = 1..1
    BY <1>1, <1>2, <2>1 DEF Blocks, Codes
  <2>4. Len(code'[target.name]) = 1
    <3>1. 1 \in 1..1 /\ 2 \notin 1..1
      OBVIOUS
    <3>2. \A k \in Nat : (1 \in 1..k /\ 2 \notin 1..k) => k = 1
      OBVIOUS
    <3>3. /\ Len(code'[target.name]) \in Nat
          /\ 1..1 = 1..Len(code'[target.name])
      BY <2>3, LenProperties
    <3> QED
      BY <3>1, <3>2, <3>3
  <2>5. code'[target.name][1] = code[target.name][1] \o e
    <3>1. 1 \in DOMAIN code[target.name]
      BY <1>2
    <3> QED
      BY <1>1, <2>1, <3>1
  <2> QED
    BY <2>2, <2>3, <2>4, <2>5, OneElement
<1>4. CASE e = <<>> /\ UNCHANGED code
  <2>1. code[target.name][1] \o e = code[target.name][1]
    BY <1>2, <1>4, ConcatEmptySeq DEF Codes
  <2>2. code[target.name] \in Seq(Codes)
    BY <1>1 DEF Blocks, Codes
  <2> QED
    BY <1>4, <2>1, <2>2, OneElement
<1> QED
  BY <1>3, <1>4

\* A node of the function being compiled is done
LEMMA SoloPasses ==
  ASSUME TypeOK, Solo, program' = program, Jits, UNCHANGED entries,
         PassesNode,
         \A j \in DOMAIN stack' : j \in DOMAIN stack /\ (j < Len(stack') => stack'[j] = stack[j]),
         Len(stack') \in DOMAIN stack, stack[Len(stack')].op = "compile",
         stack' \in Seq(Frame)
  PROVE  Solo'
<1> SUFFICES ASSUME Ordered
             PROVE  /\ WholeIn(entries', code', installed')
                    /\ AllAlone(stack', generated', entries', code', target')
                    /\ FreshIn(stack', entries', code', installed')
  BY SoloLater
<1>1. /\ WholeIn(entries, code, installed)
      /\ FreshIn(stack, entries, code, installed)
      /\ \A g \in Functions : NameOf(g) \in Name
  BY SoloNow, ProgramTypes
<1>2. PICK k : k = Len(stack')
  OBVIOUS
<1>3. /\ k \in DOMAIN stack /\ stack[k].op = "compile"
      /\ AloneIn(stack, generated, entries, code, target, k)
      /\ target # NoTarget /\ stack[k].fn \in Functions
      /\ \A j \in DOMAIN stack : stack[j].op = "compile" => j = k
  <2>1. \A j \in DOMAIN stack : stack[j].op = "compile" => j = k
    BY <1>2, AloneIs
  <2> QED
    BY <1>2, <2>1, AloneIs
<1>4. /\ target' = target
      /\ \E i \in DOMAIN stack :
             /\ Innermost(i) /\ OneFurther(stack, stack', i)
             /\ stack[i].site \in DOMAIN Body(stack[i].fn)
             /\ \E e \in OwnInstrs(stack[i].fn, Body(stack[i].fn)[stack[i].site]) :
                  EmitAll(e) \/ (e = <<>> /\ UNCHANGED code)
  BY DEF PassesNode
<1>5. PICK i \in DOMAIN stack :
             /\ Innermost(i) /\ OneFurther(stack, stack', i)
             /\ stack[i].site \in DOMAIN Body(stack[i].fn)
             /\ \E e \in OwnInstrs(stack[i].fn, Body(stack[i].fn)[stack[i].site]) :
                  EmitAll(e) \/ (e = <<>> /\ UNCHANGED code)
  BY <1>4
<1>6. i = k
  BY <1>3, <1>5 DEF Innermost
<1>7. PICK x : x = stack[k]
  OBVIOUS
<1>8. PICK y : y = stack'[k]
  OBVIOUS
<1>9. PICK e \in OwnInstrs(x.fn, Body(x.fn)[x.site]) :
        EmitAll(e) \/ (e = <<>> /\ UNCHANGED code)
  BY <1>5, <1>6, <1>7
<1>10. /\ x.op = "compile" /\ y.op = "compile" /\ y.fn = x.fn /\ y.site = x.site + 1
       /\ x.site \in DOMAIN Body(x.fn) /\ k \in DOMAIN stack' /\ x.fn \in Functions
  BY <1>3, <1>5, <1>6, <1>7, <1>8 DEF OneFurther
<1>11. PICK n : n = NameOf(x.fn)
  OBVIOUS
<1>12. /\ entries[n] = NoNode /\ target = [name |-> n, block |-> 1] /\ Len(code[n]) = 1
       /\ Progress(x, code[n][1]) /\ n \in Name
  BY <1>1, <1>3, <1>7, <1>10, <1>11 DEF AloneIn
<1>13. e \in Codes
  BY <1>10, OwnInstrsType
<1>14. /\ \A m \in Name \ {n} : code'[m] = code[m]
       /\ Len(code'[n]) = 1 /\ code'[n][1] = code[n][1] \o e
  <2>1. target.name = n /\ target.block = 1
    BY <1>12
  <2> QED
    BY <1>3, <1>9, <1>12, <1>13, <2>1, SoloEmit
<1>15. Progress(y, code'[n][1])
  BY <1>9, <1>10, <1>12, <1>14, ProgressExtends
<1>16. \A j \in DOMAIN stack' : stack'[j].op = "compile" => j = k
  <2> SUFFICES ASSUME NEW j \in DOMAIN stack', stack'[j].op = "compile", j # k
               PROVE  FALSE
    OBVIOUS
  <2>1. j < Len(stack')
    BY <1>2, LenProperties
  <2> QED
    BY <1>3, <2>1
<1>17. ~(k < Len(stack'))
  BY <1>2, LenProperties
<1>18. AllAlone(stack', generated', entries', code', target')
  BY <1>4, <1>8, <1>10, <1>11, <1>12, <1>14, <1>15, <1>16, <1>17 DEF AllAlone, AloneIn
<1>19. FreshIn(stack', entries', code', installed')
  <2> SUFFICES ASSUME NEW m \in Name, entries[m] = NoNode
               PROVE  /\ installed'[m] = <<>>
                      /\ \/ code'[m] = <<>>
                         \/ \E j \in DOMAIN stack' :
                              stack'[j].op = "compile" /\ NameOf(stack'[j].fn) = m
    BY DEF FreshIn
  <2>1. installed'[m] = <<>>
    BY <1>1 DEF FreshIn, Jits
  <2>2. CASE m = n
    BY <1>8, <1>10, <1>11, <2>1, <2>2
  <2>3. CASE m # n
    <3>1. \A j \in DOMAIN stack : stack[j].op = "compile" => NameOf(stack[j].fn) # m
      BY <1>3, <1>7, <1>11, <2>3
    <3> QED
      BY <1>1, <1>14, <2>1, <2>3, <3>1 DEF FreshIn
  <2> QED
    BY <2>2, <2>3
<1>20. WholeIn(entries', code', installed')
  <2> SUFFICES ASSUME NEW g \in Functions, entries[NameOf(g)] = g, g \notin program.opaque
               PROVE  /\ \E o \in OwnCodes(g) : code'[NameOf(g)] = <<o>>
                      /\ installed'[NameOf(g)] \in {<<>>, code'[NameOf(g)]}
    BY DEF WholeIn
  <2>1. NameOf(g) \in Name /\ NameOf(g) # n
    BY <1>1, <1>12, ConstantsAssumption
  <2> QED
    BY <1>1, <1>14, <2>1 DEF WholeIn, Jits
<1> QED
  BY <1>18, <1>19, <1>20

\* The function being compiled is complete
LEMMA SoloEnds ==
  ASSUME Types, Solo, program' = program, FinishFunction
  PROVE  Solo'
<1> SUFFICES ASSUME Ordered
             PROVE  /\ WholeIn(entries', code', installed')
                    /\ AllAlone(stack', generated', entries', code', target')
                    /\ FreshIn(stack', entries', code', installed')
  BY SoloLater
<1>0. TypeOK /\ stack \in Seq(Frame)
  BY DEF Types, TypeOK
<1>1. /\ WholeIn(entries, code, installed)
      /\ FreshIn(stack, entries, code, installed)
      /\ \A g \in Functions : NameOf(g) \in Name
  BY <1>0, SoloNow, ProgramTypes
<1>2. /\ stack # <<>> /\ Top.op = "compile" /\ Top.site > Len(Body(Top.fn))
      /\ EmitAll(<<Return>>) /\ entries' = [entries EXCEPT ![NameOf(Top.fn)] = Top.fn]
      /\ stack' = Front(stack) /\ installed' = installed /\ target' = target
  BY DEF FinishFunction, AtReturn, Running, Emit, jit, compileState
<1>3. /\ Len(stack) \in DOMAIN stack /\ Top = stack[Len(stack)] /\ Len(stack) \in Nat \ {0}
      /\ Top.fn \in Functions
  BY <1>0, <1>2, TopTypes, FrameFields
<1>4. /\ AloneIn(stack, generated, entries, code, target, Len(stack))
      /\ target # NoTarget
      /\ \A j \in DOMAIN stack : stack[j].op = "compile" => j = Len(stack)
  BY <1>0, <1>2, <1>3, AloneIs
<1>5. PICK x : x = Top
  OBVIOUS
<1>6. PICK n : n = NameOf(x.fn)
  OBVIOUS
<1>7. /\ entries[n] = NoNode /\ target = [name |-> n, block |-> 1] /\ Len(code[n]) = 1
      /\ Progress(x, code[n][1]) /\ n \in Name /\ x.fn \in Functions
      /\ x.site > Len(Body(x.fn))
  BY <1>1, <1>2, <1>3, <1>4, <1>5, <1>6 DEF AloneIn
<1>8. PICK e : e = << [op |-> "ret", by |-> x.fn] >>
  OBVIOUS
<1>9. e \in Codes /\ EmitAll(e) /\ e = <<Return>>
  BY <1>2, <1>5, <1>7, <1>8 DEF Codes, Instr, Return
<1>10. target.name = n /\ target.block = 1
  BY <1>7
<1>11. /\ \A m \in Name \ {n} : code'[m] = code[m]
       /\ code'[n] = << code[n][1] \o e >>
  BY <1>0, <1>4, <1>7, <1>9, <1>10, SoloEmit
<1>12. code[n][1] \in Codes
  <2>1. code[n] \in Seq(Codes)
    BY <1>0, <1>7 DEF TypeOK, Codes
  <2> QED
    BY <1>7, <2>1, ElementOfSeq
<1>13. code[n][1] \o e \in OwnCodes(x.fn)
  BY <1>0, <1>7, <1>8, <1>12, ProgressEnds
<1>14. NoneCompiled(stack')
  <2>1. /\ DOMAIN stack' = 1..(Len(stack) - 1)
        /\ \A i \in 1..(Len(stack) - 1) : stack'[i] = stack[i]
        /\ DOMAIN stack = 1..Len(stack)
    BY <1>0, <1>2, FrontLast, LenProperties
  <2>2. \A i \in 1..(Len(stack) - 1) : i \in 1..Len(stack) /\ i # Len(stack)
    BY <1>3
  <2> QED
    BY <1>4, <2>1, <2>2 DEF NoneCompiled
<1>15. \A m \in Name : entries'[m] = IF m = n THEN x.fn ELSE entries[m]
  BY <1>0, <1>2, <1>5, <1>6 DEF TypeOK
<1>16. x.fn # NoNode /\ installed[n] = <<>>
  BY <1>1, <1>7, ConstantsAssumption DEF FreshIn
<1>17. WholeIn(entries', code', installed')
  <2> SUFFICES ASSUME NEW g \in Functions, entries'[NameOf(g)] = g, g \notin program.opaque
               PROVE  /\ \E o \in OwnCodes(g) : code'[NameOf(g)] = <<o>>
                      /\ installed[NameOf(g)] \in {<<>>, code'[NameOf(g)]}
    BY <1>2 DEF WholeIn
  <2>1. CASE NameOf(g) = n
    <3>1. g = x.fn
      BY <1>7, <1>15, <2>1
    <3> QED
      BY <1>11, <1>13, <1>16, <2>1, <3>1
  <2>2. CASE NameOf(g) # n
    <3>1. NameOf(g) \in Name \ {n} /\ entries[NameOf(g)] = g
      BY <1>1, <1>15, <2>2
    <3> QED
      BY <1>1, <1>11, <3>1 DEF WholeIn
  <2> QED
    BY <2>1, <2>2
<1>18. FreshIn(stack', entries', code', installed')
  <2> SUFFICES ASSUME NEW m \in Name, entries'[m] = NoNode
               PROVE  installed[m] = <<>> /\ code'[m] = <<>>
    BY <1>2 DEF FreshIn
  <2>1. m # n /\ entries[m] = NoNode
    BY <1>15, <1>16
  <2>2. \A j \in DOMAIN stack : stack[j].op = "compile" => NameOf(stack[j].fn) # m
    BY <1>3, <1>4, <1>5, <1>6, <2>1
  <2> QED
    BY <1>1, <1>11, <2>1, <2>2 DEF FreshIn
<1> QED
  BY <1>14, <1>17, <1>18 DEF NoneCompiled, AllAlone

\* A callee bound by an earlier statement of the module has its _Entry
LEMMA CalleeIsThere ==
  ASSUME Types, StatementsDone, GeneratedOnce, Solo, Ordered, AtSite("call"),
         NEW g, g = Body(Top.fn)[Top.site].fn
  PROVE  program.home[g] \in generated /\ entries[NameOf(g)] = g
<1>0. TypeOK /\ stack \in Seq(Frame) /\ Shape(stack)
  BY DEF Types, TypeOK, StackShape
<1>1. PICK f : f = Top.fn
  OBVIOUS
<1>2. PICK n : n = Len(stack)
  OBVIOUS
<1>3. PICK m : m = program.home[f]
  OBVIOUS
<1>4. /\ stack # <<>> /\ Top.op = "compile" /\ f \in Functions /\ g \in Functions
      /\ Top.site \in DOMAIN Body(f) /\ Body(f)[Top.site].kind = "call"
      /\ Top = stack[n] /\ n \in Nat \ {0} /\ DOMAIN stack = 1..n /\ Top \in Frame
  BY <1>0, <1>1, <1>2, AtSiteTypes, TopTypes, LenProperties
<1>5. program.home[g] = m /\ \E j \in Position(g) : \A k \in Position(f) : j < k
  BY <1>1, <1>3, <1>4 DEF Ordered
<1>6. PICK j \in Position(g) : \A k \in Position(f) : j < k
  BY <1>5
<1>7. j \in DOMAIN program.stmts[m] /\ program.stmts[m][j] = g
  BY <1>5, <1>6 DEF Position
<1>8. Bound(m, j) => entries[NameOf(g)] = g
  BY <1>7 DEF Bound
<1>9. \A i \in DOMAIN stack : stack[i].op = "compile" => i = n
  BY <1>0, <1>2, <1>4, AloneIs
<1>10. \A i \in DOMAIN stack : i # n => i + 1 \in DOMAIN stack /\ Above(stack[i], stack[i + 1])
  <2>1. \A i \in 1..n : i # n => i + 1 \in 2..n /\ i + 1 \in 1..n /\ (i + 1) - 1 = i
    BY <1>4
  <2> QED
    BY <1>0, <1>2, <1>4, <2>1 DEF Shape
<1>11. Top.entry = TRUE
  <2>1. n # 1
    BY <1>0, <1>4 DEF Shape, Bottom
  <2>2. n \in 2..n /\ n - 1 \in 1..n /\ n - 1 # n
    BY <1>4, <2>1
  <2>3. Above(stack[n - 1], Top) /\ stack[n - 1].op # "compile"
    BY <1>0, <1>2, <1>4, <1>9, <2>2 DEF Shape
  <2>4. Top.entry
    BY <1>4, <2>3 DEF Above, Waiting
  <2> QED
    BY <1>4, <2>4, FrameFields
<1>12. m \in Modules /\ m \in generated
  <2>1. m \in Modules
    BY <1>0, <1>3, <1>4, ProgramTypes
  <2>2. Fills(stack[n], m)
    BY <1>1, <1>3, <1>4, <1>11 DEF Fills
  <2>3. n \in DOMAIN stack
    BY <1>4
  <2> QED
    BY <2>1, <2>2, <2>3 DEF GeneratedOnce
<1>13. CASE \A i \in DOMAIN program.stmts[m] : Bound(m, i)
  BY <1>5, <1>7, <1>8, <1>12, <1>13
<1>14. ASSUME NEW k \in DOMAIN stack, stack[k].op = "generate", stack[k].mod = m,
              \A i \in DOMAIN program.stmts[m] :
                i < stack[k].next =>
                  \/ Bound(m, i)
                  \/ /\ i = stack[k].next - 1
                     /\ k < Len(stack) /\ stack[k + 1].op = "compile"
       PROVE  Bound(m, j)
  <2>1. k # n /\ k + 1 \in DOMAIN stack /\ Above(stack[k], stack[k + 1])
    BY <1>4, <1>10, <1>14
  <2>2. stack[k + 1].op = "compile" /\ Taken(stack[k], stack[k + 1].fn)
    BY <1>14, <2>1 DEF Above, Waiting
  <2>3. k + 1 = n
    BY <1>9, <2>1, <2>2
  <2>4. Taken(stack[k], f)
    BY <1>1, <1>4, <2>2, <2>3
  <2>5. stack[k].next - 1 \in Position(f)
    BY <1>3, <1>14, <2>4 DEF Taken, Position
  <2>6. j < stack[k].next - 1
    BY <1>6, <2>5
  <2>7. stack[k].next \in Nat /\ j \in Nat
    <3>1. stack[k] \in Frame
      BY <1>0, <1>2, <1>4, ElementOfSeq
    <3> QED
      BY <1>0, <1>7, <1>12, <1>14, <3>1, FrameFields, StatementTypes
  <2>8. j < stack[k].next /\ j # stack[k].next - 1
    BY <2>6, <2>7
  <2> QED
    BY <1>7, <1>14, <2>8
<1> QED
  BY <1>5, <1>8, <1>12, <1>13, <1>14 DEF StatementsDone

LEMMA SoloCalls ==
  ASSUME Types, StatementsDone, GeneratedOnce, Solo, Ordered, CallSite
  PROVE  Solo'
<1>0. TypeOK /\ stack \in Seq(Frame)
  BY DEF Types, TypeOK
<1>1. PICK g : g = Body(Top.fn)[Top.site].fn
  OBVIOUS
<1>2. PICK y : y = RequireFrame(g)
  OBVIOUS
<1>3. /\ AtSite("call") /\ stack' = Append(stack, y)
      /\ UNCHANGED <<program, generated, entries, code, target, installed>>
  BY <1>1, <1>2 DEF CallSite, compileState, jit
<1>4. /\ g \in Functions /\ stack # <<>> /\ Top.op = "compile" /\ Top = stack[Len(stack)]
      /\ Len(stack) \in Nat \ {0} /\ DOMAIN stack = 1..Len(stack)
  BY <1>0, <1>1, <1>3, AtSiteTypes, TopTypes, LenProperties
<1>5. y \in Frame /\ y.op = "require" /\ y.fn = g
  BY <1>2, <1>4 DEF RequireFrame, Frame
<1>6. program.home[g] \in generated /\ entries[NameOf(g)] = g
  BY <1>1, <1>3, CalleeIsThere
<1>7. PICK n : n = Len(stack)
  OBVIOUS
<1>8. PICK s : s = Append(stack, y)
  OBVIOUS
<1>9. /\ s \in Seq(Frame) /\ Len(s) = n + 1 /\ DOMAIN s = 1..(n + 1) /\ s[n + 1] = y
      /\ \A i \in 1..n : s[i] = stack[i]
  <2>1. /\ s \in Seq(Frame) /\ Len(s) = n + 1 /\ s[n + 1] = y
        /\ \A i \in 1..n : s[i] = stack[i]
    BY <1>0, <1>4, <1>5, <1>7, <1>8, AppendProperties
  <2> QED
    BY <2>1, LenProperties
<1>10. Last(s) = y
  <2>1. s # <<>>
    BY <1>8, <1>9, <1>4, <1>7, EmptySeq
  <2> QED
    BY <1>9, <2>1, FrontLast
<1>11. \A i \in DOMAIN s : s[i].op = "compile" =>
         /\ i = n /\ i \in DOMAIN stack /\ s[i] = stack[i] /\ i = Len(s) - 1
  <2> SUFFICES ASSUME NEW i \in DOMAIN s, s[i].op = "compile"
               PROVE  /\ i = n /\ i \in DOMAIN stack /\ s[i] = stack[i] /\ i = Len(s) - 1
    OBVIOUS
  <2>1. i \in 1..n
    <3>1. \A q \in Nat : \A p \in 1..(q + 1) : p \in 1..q \/ p = q + 1
      OBVIOUS
    <3> QED
      BY <1>4, <1>5, <1>7, <1>9, <3>1
  <2>2. i \in DOMAIN stack /\ s[i] = stack[i]
    BY <1>4, <1>7, <1>9, <2>1
  <2>3. i = n
    BY <1>0, <1>4, <1>7, <2>2, AloneIs
  <2> QED
    BY <1>4, <1>7, <1>9, <2>2, <2>3
<1>12. /\ WholeIn(entries, code, installed)
       /\ AllAlone(stack, generated, entries, code, target)
       /\ FreshIn(stack, entries, code, installed)
  BY SoloNow
<1>13. AllAlone(s, generated, entries, code, target)
  <2> SUFFICES ASSUME NEW i \in DOMAIN s, s[i].op = "compile"
               PROVE  AloneIn(s, generated, entries, code, target, i)
    BY DEF AllAlone
  <2>1. /\ i = n /\ i \in DOMAIN stack /\ s[i] = stack[i] /\ i = Len(s) - 1
        /\ AloneIn(stack, generated, entries, code, target, i)
    BY <1>11, <1>12 DEF AllAlone
  <2> QED
    BY <1>5, <1>6, <1>10, <2>1 DEF AloneIn
<1>14. FreshIn(s, entries, code, installed)
  <2>1. \A i \in DOMAIN stack : i \in DOMAIN s /\ s[i] = stack[i]
    <3>1. \A q \in Nat : \A p \in 1..q : p \in 1..(q + 1)
      OBVIOUS
    <3> QED
      BY <1>4, <1>7, <1>9, <3>1
  <2> QED
    BY <1>12, <2>1 DEF FreshIn
<1>15. stack' = s
  BY <1>3, <1>8
<1> QED
  BY <1>3, <1>12, <1>13, <1>14, <1>15, SoloLater

-----------------------------------------------------------------------------
LEMMA NothingCompiled ==
  ASSUME TypeOK, Solo, Ordered,
         \/ stack = <<>>
         \/ Top.op \in {"generate", "lookup"}
         \/ Top.op = "require" /\ program.home[Top.fn] \notin generated
         \/ Top.op = "require" /\ entries[NameOf(Top.fn)] # Top.fn
         \/ Top.op = "require" /\ Len(stack) = 1
  PROVE  NoneCompiled(stack)
<1> SUFFICES ASSUME NEW i \in DOMAIN stack, stack[i].op = "compile" PROVE FALSE
  BY DEF NoneCompiled
<1>1. i # 0
  BY LenProperties DEF TypeOK
<1>2. /\ stack # <<>>
      /\ Top.op # "compile" => /\ i = Len(stack) - 1 /\ Top.op = "require"
                               /\ program.home[Top.fn] \in generated
                               /\ entries[NameOf(Top.fn)] = Top.fn
  BY AloneIs
<1>3. Top.op = "compile" \/ Len(stack) # 1
  <2>1. \A n \in Nat : n = 1 => n - 1 = 0
    OBVIOUS
  <2>2. Len(stack) \in Nat
    BY LenProperties DEF TypeOK
  <2>3. PICK n \in Nat : n = Len(stack)
    BY <2>2
  <2> QED
    BY <1>1, <1>2, <2>1, <2>3
<1> QED
  BY <1>2, <1>3

LEMMA NoneSame ==
  ASSUME NEW s, NEW t, NoneCompiled(s), SameCompiles(s, t)
  PROVE  NoneCompiled(t)
BY DEF NoneCompiled, SameCompiles

LEMMA SoloMisses ==
  ASSUME Types, Solo, [Next]_vars, NoneCompiled(stack),
         NEW f \in Functions, entries[NameOf(f)] = NoNode,
         NEW base \in Seq(Frame), NoneCompiled(base),
         CompileMissing(f, base), installed' = installed
  PROVE  Solo'
<1>1. CASE /\ EnterFunction(f) /\ stack' = Append(base, CompileFrame(f, TRUE))
           /\ UNCHANGED entries
  BY <1>1, SoloEnters
<1>2. CASE /\ RejectFunction(f) /\ stack' = base /\ UNCHANGED code
           /\ entries' = [entries EXCEPT ![NameOf(f)] = f]
  BY <1>2, SoloRejects, ProgramKept DEF RejectFunction, Types
<1> QED
  BY <1>1, <1>2 DEF CompileMissing

LEMMA SoloNext ==
  Types /\ StatementsDone /\ GeneratedOnce /\ Solo /\ [Next]_vars => Solo'
<1> SUFFICES ASSUME Types, StatementsDone, GeneratedOnce, Solo, [Next]_vars PROVE Solo'
  OBVIOUS
<1>0. TypeOK /\ stack \in Seq(Frame) /\ program' = program /\ Types' /\ stack' \in Seq(Frame)
      /\ Shape(stack)
  BY ProgramKept, TypesNext DEF Types, TypeOK, StackShape
<1> SUFFICES ASSUME Ordered PROVE Solo'
  BY <1>0, SoloLater
<1>1. stack # <<>> => /\ Top \in Frame /\ Top = stack[Len(stack)] /\ Top = Last(stack)
                      /\ Len(stack) \in DOMAIN stack /\ Len(stack) \in Nat \ {0}
  BY <1>0, TopTypes DEF Top
<1>2. DOMAIN stack = 1..Len(stack) /\ DOMAIN stack' = 1..Len(stack')
  BY <1>0, LenProperties
<1>3. CASE \E f \in Functions : Demand(f)
  <2>1. PICK f \in Functions : Demand(f)
    BY <1>3
  <2>2. RequireFrame(f) \in Frame /\ RequireFrame(f).op # "compile"
    BY DEF RequireFrame, Frame
  <2>3. /\ stack = <<>> /\ stack' = Append(stack, RequireFrame(f))
        /\ UNCHANGED <<entries, code, installed, target>>
    BY <2>1 DEF Demand, compileState, jit
  <2>4. NoneCompiled(stack) /\ NoneCompiled(stack')
    BY <1>0, <2>2, <2>3, NothingCompiled, CompilesPush, NoneSame
  <2> QED
    BY <1>0, <2>3, <2>4, SoloQuiet
<1>4. CASE \E n \in Name : DemandLookup(n)
  <2>1. PICK n \in Name : DemandLookup(n)
    BY <1>4
  <2>2. PICK y : y = [op |-> "lookup", name |-> n]
    OBVIOUS
  <2>3. y \in Frame /\ y.op # "compile"
    BY <2>2 DEF Frame
  <2>4. /\ stack = <<>> /\ stack' = Append(stack, y)
        /\ UNCHANGED <<entries, code, installed, target>>
    BY <2>1, <2>2 DEF DemandLookup, compileState, jit
  <2>5. NoneCompiled(stack) /\ NoneCompiled(stack')
    BY <1>0, <2>3, <2>4, NothingCompiled, CompilesPush, NoneSame
  <2> QED
    BY <1>0, <2>4, <2>5, SoloQuiet
<1>5. CASE \E m \in Modules : GenerateModule(m)
  <2>1. PICK m \in Modules : GenerateModule(m)
    BY <1>5
  <2>2. PICK y : y = [op |-> "generate", mod |-> m, next |-> 1]
    OBVIOUS
  <2>3. y \in Frame /\ y.op # "compile"
    BY <2>2 DEF Frame
  <2>4. /\ \/ Top.op = "lookup"
           \/ Top.op = "require" /\ program.home[Top.fn] \notin generated
        /\ stack' = Append(stack, y)
        /\ UNCHANGED <<entries, code, installed, target>>
    BY <2>1, <2>2 DEF GenerateModule, Running, compileState, jit
  <2>5. NoneCompiled(stack) /\ NoneCompiled(stack')
    BY <1>0, <2>3, <2>4, NothingCompiled, CompilesPush, NoneSame
  <2> QED
    BY <1>0, <2>4, <2>5, SoloQuiet
<1>6. CASE GenerateStatement
  <2> DEFINE f == program.stmts[Top.mod][Top.next]
             t == AdvancedStatement(stack)
  <2>1. /\ Running("generate") /\ Top.next <= Len(program.stmts[Top.mod])
        /\ stack # <<>> /\ Last(stack).op = "generate" /\ Top.op = "generate"
    BY <1>6 DEF GenerateStatement, Running, Top
  <2>2. f \in Functions
    BY <1>0, <2>1, TakenNow
  <2>3. t \in Seq(Frame) /\ SameCompiles(stack, t)
    BY <1>0, <2>1, Advanced, CompilesStatement
  <2> HIDE DEF f, t
  <2>4. NoneCompiled(stack) /\ NoneCompiled(t)
    BY <1>0, <2>1, <2>3, NothingCompiled, NoneSame
  <2>5. \/ stack' = t /\ UNCHANGED <<entries, code, target, installed>>
        \/ entries[NameOf(f)] = NoNode /\ CompileMissing(f, t) /\ installed' = installed
        \/ UNCHANGED <<stack, generated, entries, code, target, installed>>
    BY <1>6 DEF GenerateStatement, compileState, jit, Die, f, t
  <2> QED
    BY <1>0, <2>2, <2>3, <2>4, <2>5, SoloQuiet, SoloMisses
<1>7. CASE GenerateDone \/ FinishLookup
  <2>1. /\ stack # <<>> /\ Last(stack).op # "compile" /\ Top.op \in {"generate", "lookup"}
        /\ stack' \in {stack, Front(stack)} /\ UNCHANGED <<entries, code, target, installed>>
    BY <1>7 DEF GenerateDone, FinishLookup, Running, Die, Top, compileState, jit
  <2>2. NoneCompiled(stack) /\ NoneCompiled(stack')
    BY <1>0, <2>1, NothingCompiled, CompilesPop, NoneSame
  <2> QED
    BY <1>0, <2>1, <2>2, SoloQuiet
<1>8. CASE RequireMiss
  <2>1. /\ stack # <<>> /\ Top.op = "require" /\ CompileMissing(Top.fn, stack)
        /\ entries[NameOf(Top.fn)] = NoNode /\ installed' = installed
    BY <1>8 DEF RequireMiss, Requiring, Running, jit
  <2>2. Top.fn \in Functions
    BY <1>1, <2>1, FrameFields
  <2>3. NoneCompiled(stack)
    BY <1>0, <2>1, <2>2, NothingCompiled, ConstantsAssumption
  <2> QED
    BY <1>0, <2>1, <2>2, <2>3, SoloMisses
<1>9. CASE FinishLlvmCall \/ FinishLlvmIr
  <2>1. /\ stack # <<>> /\ Len(stack) = 1 /\ Top.op = "require"
        /\ stack' = <<>> /\ UNCHANGED <<entries, code, target>>
        /\ entries[NameOf(Top.fn)] = Top.fn
        /\ Specialize(NameOf(Top.fn)) \/ UNCHANGED installed
    BY <1>9 DEF FinishLlvmCall, FinishLlvmIr, Hit, Requiring, Running, compileState, jit
  <2>2. Top.fn \in Functions /\ NameOf(Top.fn) \in Name /\ Top.fn # NoNode
    BY <1>0, <1>1, <2>1, FrameFields, ProgramTypes, ConstantsAssumption
  <2>3. Jits
    <3>1. UNCHANGED installed => Jits
      BY DEF Jits
    <3> QED
      BY <1>0, <2>1, <2>2, <3>1, SpecializedJits
  <2>4. NoneCompiled(stack)
    BY <1>0, <2>1, NothingCompiled
  <2>5. NoneCompiled(stack')
    BY <2>1, EmptySeq DEF NoneCompiled
  <2> QED
    BY <1>0, <2>1, <2>3, <2>4, <2>5, SoloJits
<1>10. CASE CallSite
  BY <1>10, SoloCalls
<1>11. CASE RuntimeCallSite \/ UnsupportedNode
  <2>1. PICK kind \in {"runtime", "unsupported"} : AtSite(kind)
    BY <1>11 DEF RuntimeCallSite, UnsupportedNode
  <2>2. /\ stack # <<>> /\ Top.op = "compile" /\ Top.site \in DOMAIN Body(Top.fn)
    BY <1>0, <2>1, AtSiteTypes
  <2>3. /\ stack' = AdvancedSite(stack) /\ UNCHANGED <<entries, installed, target>>
    BY <1>11 DEF RuntimeCallSite, UnsupportedNode, jit, compileState
  <2>4. /\ Len(stack') = Len(stack)
        /\ \A i \in 1..(Len(stack) - 1) : stack'[i] = stack[i]
    BY <1>0, <1>1, <2>2, <2>3, Advanced
  <2>5. \A j \in DOMAIN stack' : j \in DOMAIN stack /\ (j < Len(stack') => stack'[j] = stack[j])
    <3>1. \A q \in Nat : \A p \in 1..q : p < q => p \in 1..(q - 1)
      OBVIOUS
    <3> QED
      BY <1>1, <1>2, <2>2, <2>4, <3>1
  <2>6. Jits
    BY <2>3 DEF Jits
  <2>7. PassesNode
    BY <1>0, <1>11, NodePasses
  <2> QED
    BY <1>0, <1>1, <2>2, <2>3, <2>4, <2>5, <2>6, <2>7, SoloPasses
<1>12. CASE FinishCallSite
  <2>1. /\ stack # <<>> /\ Len(stack) > 1 /\ Top.op = "require" /\ UNCHANGED entries
        /\ stack' = AdvancedSite(Front(stack)) /\ Specialize(NameOf(Top.fn))
        /\ entries[NameOf(Top.fn)] = Top.fn
    BY <1>12 DEF FinishCallSite, Hit, Requiring, Running
  <2>2. Top.fn \in Functions /\ NameOf(Top.fn) \in Name /\ Top.fn # NoNode
    BY <1>0, <1>1, <2>1, FrameFields, ProgramTypes, ConstantsAssumption
  <2>3. Jits
    BY <1>0, <2>1, <2>2, SpecializedJits
  <2>4. PICK s : s = Front(stack)
    OBVIOUS
  <2>5. /\ s \in Seq(Frame) /\ s # <<>> /\ Last(s).op = "compile"
        /\ Last(s) = stack[Len(stack) - 1]
        /\ Len(s) = Len(stack) - 1
        /\ \A i \in 1..(Len(stack) - 1) : s[i] = stack[i]
    BY <1>0, <2>1, <2>4, WaitingCaller, CallerFrame, FrontLast
  <2>6. /\ Len(stack') = Len(stack) - 1
        /\ \A i \in 1..(Len(stack) - 2) : stack'[i] = s[i]
    <3>1. \A q \in Nat : (q - 1) - 1 = q - 2
      OBVIOUS
    <3>2. Len(stack) - 1 - 1 = Len(stack) - 2
      BY <1>1, <2>1, <3>1
    <3> QED
      BY <2>1, <2>4, <2>5, <3>2, Advanced
  <2>7. \A j \in DOMAIN stack' : j \in DOMAIN stack /\ (j < Len(stack') => stack'[j] = stack[j])
    <3>1. \A q \in Nat : \A p \in 1..(q - 1) :
            p \in 1..q /\ (p < q - 1 => p \in 1..(q - 2))
      OBVIOUS
    <3> QED
      BY <1>1, <1>2, <2>1, <2>5, <2>6, <3>1
  <2>8. Len(stack') \in DOMAIN stack /\ stack[Len(stack')].op = "compile"
    <3>1. \A q \in Nat : q > 1 => q - 1 \in 1..q
      OBVIOUS
    <3> QED
      BY <1>1, <1>2, <2>1, <2>5, <2>6, <3>1
  <2>9. PassesNode
    BY <1>0, <1>12, CallPasses
  <2> QED
    BY <1>0, <2>1, <2>3, <2>7, <2>8, <2>9, SoloPasses
<1>13. CASE FinishFunction
  BY <1>0, <1>13, SoloEnds
<1>14. CASE LocalFunction
  <2>1. /\ Top.fn \in Functions /\ Top.site \in DOMAIN Body(Top.fn)
        /\ Body(Top.fn)[Top.site].kind = "local"
    BY <1>0, <1>14, AtSiteTypes DEF LocalFunction
  <2> QED
    BY <2>1 DEF Ordered
<1>15. CASE FinishLocalFunction
  <2>1. /\ stack # <<>> /\ Top.op = "compile" /\ ~Top.entry
    BY <1>15 DEF FinishLocalFunction, AtReturn, Running
  <2>2. Len(stack) # 1
    BY <1>0, <1>1, <2>1 DEF Shape, Bottom
  <2>3. Len(stack) > 1
    <3>1. \A n \in Nat \ {0} : n # 1 => n > 1
      OBVIOUS
    <3> QED
      BY <1>1, <2>1, <2>2, <3>1
  <2>4. PICK c : c = Last(Front(stack))
    OBVIOUS
  <2>5. c.fn \in Functions /\ Waiting(c, "local", Top.fn)
    BY <2>1, <2>3, <2>4, WaitingCaller
  <2> QED
    BY <2>5 DEF Ordered, Waiting
<1>16. CASE RequireClash \/ NullPrototype \/ RedefineEntry \/ Overflow \/ UNCHANGED vars
  <2>1. UNCHANGED <<stack, generated, entries, code, target, installed>>
    BY <1>16 DEF RequireClash, NullPrototype, RedefineEntry, Overflow, Die, vars
  <2> QED
    BY <1>0, <2>1, SoloQuiet
<1> QED
  BY <1>3, <1>4, <1>5, <1>6, <1>7, <1>8, <1>9, <1>10, <1>11, <1>12, <1>13, <1>14, <1>15, <1>16
  DEF Next, Step, Dead
-----------------------------------------------------------------------------
\* Steps by what they do to the stack, the entries and the modules

\* One activation at different times: what it is for does not change
SameFrame(x, y) ==
  /\ x.op = y.op
  /\ x.op \in {"require", "compile"} => x.fn = y.fn
  /\ x.op = "compile" => x.entry = y.entry
  /\ x.op = "generate" => x.mod = y.mod

\* The activations of t are the outer ones of s
Under(s, t) ==
  DOMAIN t \subseteq DOMAIN s /\ \A i \in DOMAIN t : SameFrame(s[i], t[i])

\* The activations of t are those of s and y
Onto(s, t, y) ==
  /\ DOMAIN t = 1..(Len(s) + 1) /\ t[Len(s) + 1] = y
  /\ \A i \in DOMAIN s : SameFrame(s[i], t[i])

LEMMA Domains ==
  ASSUME NEW s \in Seq(Frame)
  PROVE  DOMAIN s = 1..Len(s) /\ Len(s) \in Nat /\ (s # <<>> <=> Len(s) > 0)
BY LenProperties, EmptySeq

LEMMA UnderFront ==
  ASSUME NEW s \in Seq(Frame), s # <<>>
  PROVE  Under(s, s) /\ Under(s, <<>>) /\ Under(s, Front(s))
<1>1. \A x : SameFrame(x, x)
  BY DEF SameFrame
<1>2. Under(s, s) /\ Under(s, <<>>)
  BY <1>1 DEF Under
<1>3. PICK t : t = Front(s)
  OBVIOUS
<1>4. /\ t \in Seq(Frame) /\ Len(t) = Len(s) - 1 /\ Len(s) \in Nat \ {0}
      /\ \A i \in 1..(Len(s) - 1) : t[i] = s[i]
  BY <1>3, FrontLast
<1>5. DOMAIN t = 1..(Len(s) - 1) /\ DOMAIN s = 1..Len(s)
  BY <1>4, Domains
<1>6. Under(s, t)
  BY <1>1, <1>4, <1>5 DEF Under
<1> QED
  BY <1>2, <1>3, <1>6

LEMMA SameAdvance ==
  ASSUME NEW x \in Frame, NEW y, x.op \in {"compile", "generate"},
         \/ x.op = "compile" /\ y = [x EXCEPT !.site = @ + 1]
         \/ x.op = "generate" /\ y = [x EXCEPT !.next = @ + 1]
  PROVE  SameFrame(x, y)
BY AdvanceFrame DEF SameFrame

LEMMA UnderAdvance ==
  ASSUME NEW s \in Seq(Frame), s # <<>>
  PROVE  /\ Last(s).op = "compile" => Under(s, AdvancedSite(s))
         /\ Last(s).op = "generate" => Under(s, AdvancedStatement(s))
<1>1. Last(s) = s[Len(s)] /\ Last(s) \in Frame /\ Len(s) \in Nat \ {0}
  BY FrontLast
<1>2. \A x : SameFrame(x, x)
  BY DEF SameFrame
<1>3. ASSUME NEW t \in Seq(Frame), Len(t) = Len(s), \A i \in 1..(Len(s) - 1) : t[i] = s[i],
             Last(s).op \in {"compile", "generate"},
             \/ Last(s).op = "compile" /\ Last(t) = [Last(s) EXCEPT !.site = @ + 1]
             \/ Last(s).op = "generate" /\ Last(t) = [Last(s) EXCEPT !.next = @ + 1]
      PROVE  Under(s, t)
  <2>1. SameFrame(Last(s), Last(t)) /\ Last(t) = t[Len(s)]
    BY <1>1, <1>3, SameAdvance DEF Last
  <2>2. DOMAIN t = 1..Len(s) /\ DOMAIN s = 1..Len(s)
    BY <1>3, Domains
  <2>3. \A i \in 1..Len(s) : i = Len(s) \/ i \in 1..(Len(s) - 1)
    BY <1>1
  <2> QED
    BY <1>1, <1>2, <1>3, <2>1, <2>2, <2>3 DEF Under
<1>4. Last(s).op = "compile" => Under(s, AdvancedSite(s))
  BY <1>3, Advanced
<1>5. Last(s).op = "generate" => Under(s, AdvancedStatement(s))
  BY <1>3, Advanced
<1> QED
  BY <1>4, <1>5

LEMMA UnderTrans ==
  ASSUME NEW s, NEW t, NEW u, Under(s, t), Under(t, u)
  PROVE  Under(s, u)
BY DEF Under, SameFrame

LEMMA OntoAppend ==
  ASSUME NEW s \in Seq(Frame), NEW base \in Seq(Frame), NEW y \in Frame,
         Len(base) = Len(s), Under(s, base)
  PROVE  Onto(s, Append(base, y), y)
<1>1. PICK t : t = Append(base, y)
  OBVIOUS
<1>2. /\ t \in Seq(Frame) /\ Len(t) = Len(s) + 1 /\ t[Len(s) + 1] = y
      /\ \A i \in 1..Len(s) : t[i] = base[i]
  BY <1>1, AppendProperties
<1>3. DOMAIN t = 1..(Len(s) + 1) /\ DOMAIN s = 1..Len(s) /\ DOMAIN base = 1..Len(s)
  BY <1>2, Domains
<1> QED
  BY <1>1, <1>2, <1>3 DEF Onto, Under

CodeKept == \A n \in Name : code[n] # <<>> => code'[n] # <<>>

LEMMA CodeKeptStep ==
  ASSUME Types, [Next]_vars
  PROVE  CodeKept
<1>0. TypeOK /\ code \in [Name -> Blocks]
  BY DEF Types, TypeOK, Blocks
<1>1. ASSUME NEW instrs \in Seq(Instr), EmitAll(instrs), target # NoTarget PROVE CodeKept
  <2>1. /\ code' \in [Name -> Blocks]
        /\ \A n \in Name : DOMAIN code'[n] = DOMAIN code[n]
    BY <1>0, <1>1, EmitType
  <2> SUFFICES ASSUME NEW n \in Name, code[n] # <<>>, code'[n] = <<>> PROVE FALSE
    BY DEF CodeKept
  <2>2. PICK b : b = code[n]
    OBVIOUS
  <2>3. b \in Seq(Seq(Instr)) /\ DOMAIN b = {} /\ b # <<>>
    BY <1>0, <2>1, <2>2, EmptySeq DEF Blocks
  <2>4. Len(b) = 0
    BY <2>3, LenProperties
  <2> QED
    BY <2>3, <2>4, EmptySeq
<1>2. ASSUME NEW f \in Functions, EnterFunction(f) PROVE CodeKept
  <2>1. /\ code'[NameOf(f)] = Append(code[NameOf(f)], <<>>)
        /\ \A n \in Name \ {NameOf(f)} : code'[n] = code[n]
    BY <1>0, <1>2, EnterType
  <2>2. NameOf(f) \in Name /\ code[NameOf(f)] \in Seq(Seq(Instr)) /\ <<>> \in Seq(Instr)
    BY <1>0, ProgramTypes, EmptySeq DEF Blocks
  <2>3. Append(code[NameOf(f)], <<>>) # <<>>
    BY <2>2, AppendProperties
  <2> QED
    BY <2>1, <2>3 DEF CodeKept
<1>3. ASSUME NEW n \in Name, NEW f \in Functions,
             EmitAll(<< [op |-> "call", by |-> f, to |-> n] >>), target # NoTarget
      PROVE  CodeKept
  <2>1. << [op |-> "call", by |-> f, to |-> n] >> \in Seq(Instr)
    BY DEF Instr, Call
  <2> QED
    BY <1>1, <1>3, <2>1
<1> QED
  BY <1>1, <1>2, <1>3, CodeStep DEF Quiet, Enters, EmitsNoCall, Specializes, EmitsCall, CodeKept

Withdraws == Under(stack, stack') /\ UNCHANGED <<entries, generated>>
Asks ==
  /\ \E y \in Frame : y.op \in {"require", "lookup"} /\ Onto(stack, stack', y)
  /\ UNCHANGED <<entries, generated>>
StartsModule ==
  /\ \E y \in Frame : /\ y.op = "generate" /\ y.mod \notin generated /\ y.next = 1
                      /\ Onto(stack, stack', y)
                      /\ generated' = generated \cup {y.mod}
  /\ UNCHANGED entries
StartsFunction ==
  /\ \E f \in Functions, e \in BOOLEAN :
       /\ EnterFunction(f) /\ Onto(stack, stack', CompileFrame(f, e))
       /\ e => entries[NameOf(f)] = NoNode /\ program.home[f] \in generated
  /\ UNCHANGED <<entries, generated>>
Returns(f) == AtReturn /\ Top.entry /\ Top.fn = f /\ stack' = Front(stack)
Defines ==
  /\ \E f \in Functions :
       /\ entries[NameOf(f)] = NoNode
       /\ entries' = [entries EXCEPT ![NameOf(f)] = f]
       /\ f \in program.opaque \/ Returns(f)
  /\ Under(stack, stack') /\ UNCHANGED generated

LEMMA MissKind ==
  ASSUME TypeOK, NEW f \in Functions, NEW base \in Seq(Frame), Len(base) = Len(stack),
         Under(stack, base), CompileMissing(f, base), entries[NameOf(f)] = NoNode,
         program.home[f] \in generated, generated' = generated
  PROVE  StartsFunction \/ Defines
<1>1. stack \in Seq(Frame)
  BY DEF TypeOK
<1>2. CASE /\ EnterFunction(f)
           /\ stack' = Append(base, CompileFrame(f, TRUE))
           /\ UNCHANGED entries
  <2>1. Onto(stack, stack', CompileFrame(f, TRUE))
    BY <1>1, <1>2, CompileFrameType, OntoAppend
  <2> QED
    BY <1>2, <2>1 DEF StartsFunction
<1>3. CASE /\ RejectFunction(f) /\ stack' = base
           /\ entries' = [entries EXCEPT ![NameOf(f)] = f]
           /\ UNCHANGED code
  BY <1>3 DEF Defines, RejectFunction
<1> QED
  BY <1>2, <1>3 DEF CompileMissing

LEMMA Kinds ==
  ASSUME Types, GeneratedOnce, [Next]_vars
  PROVE  Withdraws \/ Asks \/ StartsModule \/ StartsFunction \/ Defines
<1>0. TypeOK /\ stack \in Seq(Frame) /\ Shape(stack)
  BY DEF Types, TypeOK, StackShape
<1>1. stack # <<>> => Top = Last(stack) /\ Top \in Frame /\ Under(stack, stack)
  BY <1>0, TopTypes, UnderFront DEF Top
<1>2. ASSUME NEW y \in Frame, stack' = Append(stack, y) PROVE Onto(stack, stack', y)
  <2>1. Under(stack, stack)
    BY DEF Under, SameFrame
  <2> QED
    BY <1>0, <1>2, <2>1, OntoAppend
<1>3. CASE \E f \in Functions : Demand(f)
  <2>1. PICK f \in Functions : Demand(f)
    BY <1>3
  <2>2. RequireFrame(f) \in Frame /\ RequireFrame(f).op = "require"
    BY DEF RequireFrame, Frame
  <2>3. stack' = Append(stack, RequireFrame(f)) /\ UNCHANGED <<entries, generated>>
    BY <2>1 DEF Demand
  <2> QED
    BY <1>2, <2>2, <2>3 DEF Asks
<1>4. CASE \E n \in Name : DemandLookup(n)
  <2>1. PICK n \in Name : DemandLookup(n)
    BY <1>4
  <2>2. PICK y : y = [op |-> "lookup", name |-> n]
    OBVIOUS
  <2>3. y \in Frame /\ y.op = "lookup"
    BY <2>2 DEF Frame
  <2>4. stack' = Append(stack, y) /\ UNCHANGED <<entries, generated>>
    BY <2>1, <2>2 DEF DemandLookup
  <2> QED
    BY <1>2, <2>3, <2>4 DEF Asks
<1>5. CASE \E m \in Modules : GenerateModule(m)
  <2>1. PICK m \in Modules : GenerateModule(m)
    BY <1>5
  <2>2. PICK y : y = [op |-> "generate", mod |-> m, next |-> 1]
    OBVIOUS
  <2>3. y \in Frame /\ y.op = "generate" /\ y.mod = m /\ y.next = 1
    BY <2>2 DEF Frame
  <2>4. /\ stack' = Append(stack, y) /\ UNCHANGED entries
        /\ m \notin generated /\ generated' = generated \cup {m}
    BY <2>1, <2>2 DEF GenerateModule
  <2> QED
    BY <1>2, <2>3, <2>4 DEF StartsModule
<1>6. CASE GenerateStatement
  <2> DEFINE f == program.stmts[Top.mod][Top.next]
             t == AdvancedStatement(stack)
  <2>1. /\ Running("generate") /\ Top.next <= Len(program.stmts[Top.mod])
        /\ stack # <<>> /\ Last(stack).op = "generate" /\ Top.op = "generate"
    BY <1>6 DEF GenerateStatement, Running, Top
  <2>2. f \in Functions
    BY <1>0, <2>1, TakenNow
  <2>3. t \in Seq(Frame) /\ Len(t) = Len(stack) /\ Under(stack, t)
    BY <1>0, <2>1, Advanced, UnderAdvance
  <2>4. program.home[f] \in generated
    <3>1. Top.mod \in Modules /\ Top.next \in Nat \ {0}
      BY <1>1, <2>1, FrameFields
    <3>2. program.stmts[Top.mod] \in Seq(Functions)
          /\ \A i \in DOMAIN program.stmts[Top.mod] :
                program.home[program.stmts[Top.mod][i]] = Top.mod
      BY <1>0, <3>1, ProgramTypes
    <3>3. Top.next \in DOMAIN program.stmts[Top.mod]
      BY <2>1, <3>1, <3>2, LenProperties
    <3>4. Top.mod \in generated
      BY <1>0, <2>1, <3>1, TopTypes DEF GeneratedOnce, Fills
    <3> QED
      BY <3>2, <3>3, <3>4
  <2> HIDE DEF f, t
  <2>5. CASE stack' = t /\ UNCHANGED <<program, status, generated, entries,
                                       code, compileState, jit>>
    BY <2>3, <2>5 DEF Withdraws
  <2>6. CASE /\ entries[NameOf(f)] = NoNode
             /\ CompileMissing(f, t) /\ UNCHANGED <<program, status, generated, jit>>
    BY <1>0, <2>2, <2>3, <2>4, <2>6, MissKind
  <2>7. CASE Die("assert")
    BY <1>1, <2>1, <2>7 DEF Die, Withdraws
  <2> QED
    BY <1>6, <2>5, <2>6, <2>7 DEF GenerateStatement, f, t
<1>7. CASE GenerateDone \/ FinishLookup
  <2>1. stack # <<>> /\ stack' \in {stack, Front(stack)} /\ UNCHANGED <<entries, generated>>
    BY <1>7 DEF GenerateDone, FinishLookup, Running, Die
  <2> QED
    BY <1>0, <2>1, UnderFront DEF Withdraws
<1>8. CASE RequireMiss
  <2>1. /\ stack # <<>> /\ Top.op = "require" /\ Top \in Frame
        /\ program.home[Top.fn] \in generated /\ entries[NameOf(Top.fn)] = NoNode
        /\ CompileMissing(Top.fn, stack) /\ generated' = generated
    BY <1>0, <1>8, TopTypes DEF RequireMiss, Requiring, Running
  <2>2. Top.fn \in Functions
    BY <2>1, FrameFields
  <2> QED
    BY <1>0, <1>1, <2>1, <2>2, MissKind
<1>9. CASE FinishLlvmCall \/ FinishLlvmIr
  <2>1. stack # <<>> /\ stack' = <<>> /\ UNCHANGED <<entries, generated>>
    BY <1>9 DEF FinishLlvmCall, FinishLlvmIr, Hit, Requiring, Running
  <2> QED
    BY <1>0, <2>1, UnderFront DEF Withdraws
<1>10. CASE CallSite
  <2>1. PICK g \in Functions : stack' = Append(stack, RequireFrame(g))
    BY <1>0, <1>10, AtSiteTypes DEF CallSite
  <2>2. RequireFrame(g) \in Frame /\ RequireFrame(g).op = "require"
    BY DEF RequireFrame, Frame
  <2> QED
    BY <1>2, <1>10, <2>1, <2>2 DEF Asks, CallSite
<1>11. CASE FinishCallSite \/ FinishLocalFunction
  <2>1. /\ stack # <<>> /\ stack' = AdvancedSite(Front(stack))
        /\ UNCHANGED <<entries, generated>>
        /\ \/ Top.op = "require" /\ Len(stack) > 1
           \/ Top.op = "compile" /\ ~Top.entry
    BY <1>11 DEF FinishCallSite, FinishLocalFunction, Hit, Requiring, AtReturn, Running
  <2>2. Len(stack) > 1
    <3>1. Len(stack) \in Nat \ {0}
      BY <1>0, <2>1, FrontLast
    <3>2. Len(stack) = 1 => Bottom(Top)
      BY <1>0, <1>1, <2>1, CallerFrame
    <3>3. Len(stack) = 1 => Len(stack) > 1
      BY <2>1, <3>2 DEF Bottom
    <3>4. \A k \in Nat \ {0} : k # 1 => k > 1
      OBVIOUS
    <3> QED
      BY <3>1, <3>3, <3>4
  <2>3. /\ Front(stack) \in Seq(Frame) /\ Front(stack) # <<>>
        /\ Last(Front(stack)).op = "compile"
    BY <2>1, <2>2, WaitingCaller
  <2>4. Under(Front(stack), stack') /\ Under(stack, Front(stack))
    BY <1>0, <2>1, <2>3, UnderAdvance, UnderFront
  <2> QED
    BY <2>1, <2>4, UnderTrans DEF Withdraws
<1>12. CASE RuntimeCallSite \/ UnsupportedNode
  <2>1. /\ stack # <<>> /\ Last(stack).op = "compile"
        /\ stack' = AdvancedSite(stack) /\ UNCHANGED <<entries, generated>>
    BY <1>0, <1>12, AtSiteTypes DEF RuntimeCallSite, UnsupportedNode
  <2> QED
    BY <1>0, <2>1, UnderAdvance DEF Withdraws
<1>13. CASE LocalFunction
  <2> DEFINE g == Body(Top.fn)[Top.site].fn
  <2>1. /\ stack # <<>> /\ Last(stack).op = "compile" /\ g \in Functions
        /\ UNCHANGED <<entries, generated>>
    BY <1>0, <1>13, AtSiteTypes DEF LocalFunction
  <2>2. \/ EnterFunction(g) /\ stack' = Append(stack, CompileFrame(g, FALSE))
        \/ stack' = AdvancedSite(stack)
    BY <1>13 DEF LocalFunction
  <2> HIDE DEF g
  <2>3. CASE EnterFunction(g) /\ stack' = Append(stack, CompileFrame(g, FALSE))
    BY <1>2, <2>1, <2>3, CompileFrameType DEF StartsFunction
  <2>4. CASE stack' = AdvancedSite(stack)
    BY <1>0, <2>1, <2>4, UnderAdvance DEF Withdraws
  <2> QED
    BY <2>2, <2>3, <2>4
<1>14. CASE FinishFunction
  <2>1. /\ stack # <<>> /\ stack' = Front(stack) /\ Returns(Top.fn)
        /\ entries[NameOf(Top.fn)] = NoNode
        /\ entries' = [entries EXCEPT ![NameOf(Top.fn)] = Top.fn]
        /\ generated' = generated /\ Top.op = "compile"
    BY <1>14 DEF FinishFunction, Returns, AtReturn, Running
  <2>2. Top.fn \in Functions /\ Under(stack, stack')
    BY <1>0, <1>1, <2>1, FrameFields, UnderFront
  <2> QED
    BY <2>1, <2>2 DEF Defines
<1>15. CASE RequireClash \/ NullPrototype \/ RedefineEntry \/ Overflow \/ UNCHANGED vars
  <2>1. stack' = stack /\ UNCHANGED <<entries, generated>>
    BY <1>15 DEF RequireClash, NullPrototype, RedefineEntry, Overflow, Die, vars
  <2> QED
    BY <2>1 DEF Withdraws, Under, SameFrame
<1> QED
  BY <1>3, <1>4, <1>5, <1>6, <1>7, <1>8, <1>9, <1>10, <1>11, <1>12, <1>13, <1>14, <1>15
  DEF Next, Step, Dead

-----------------------------------------------------------------------------
\* A module is generated once

Once(s, made) ==
  /\ \A i \in DOMAIN s, m \in Modules : Fills(s[i], m) => m \in made
  /\ \A i, j \in DOMAIN s : i < j /\ s[j].op = "generate" => ~Fills(s[i], s[j].mod)

LEMMA FillsSame ==
  ASSUME NEW x, NEW y, SameFrame(x, y)
  PROVE  \A m : Fills(x, m) <=> Fills(y, m)
BY DEF SameFrame, Fills

LEMMA OnceUnder ==
  ASSUME NEW s \in Seq(Frame), NEW t, NEW made, Once(s, made), Under(s, t)
  PROVE  Once(t, made)
<1>1. ASSUME NEW i \in DOMAIN t
      PROVE  /\ i \in DOMAIN s /\ \A m : Fills(s[i], m) <=> Fills(t[i], m)
             /\ s[i].op = t[i].op
             /\ s[i].op = "generate" => s[i].mod = t[i].mod
  <2>1. i \in DOMAIN s /\ SameFrame(s[i], t[i])
    BY DEF Under
  <2> QED
    BY <2>1, FillsSame DEF SameFrame
<1>2. ASSUME NEW i \in DOMAIN t, NEW m \in Modules, Fills(t[i], m) PROVE m \in made
  BY <1>1, <1>2 DEF Once
<1>3. ASSUME NEW i \in DOMAIN t, NEW j \in DOMAIN t, i < j, t[j].op = "generate"
      PROVE  ~Fills(t[i], t[j].mod)
  <2>1. /\ i \in DOMAIN s /\ j \in DOMAIN s /\ s[j].op = "generate"
        /\ s[j].mod = t[j].mod /\ \A m : Fills(s[i], m) <=> Fills(t[i], m)
    <3>1. i \in DOMAIN s /\ \A m : Fills(s[i], m) <=> Fills(t[i], m)
      BY <1>1
    <3>2. j \in DOMAIN s /\ s[j].op = "generate" /\ s[j].mod = t[j].mod
      BY <1>1, <1>3
    <3> QED
      BY <3>1, <3>2
  <2>2. ~Fills(s[i], s[j].mod)
    BY <1>3, <2>1 DEF Once
  <2> QED
    BY <2>1, <2>2
<1> QED
  BY <1>2, <1>3 DEF Once

LEMMA OnceOnto ==
  ASSUME NEW s \in Seq(Frame), NEW t, NEW y \in Frame, NEW made, NEW more,
         Once(s, made), Onto(s, t, y), made \subseteq more,
         \A m \in Modules : Fills(y, m) => m \in more,
         y.op = "generate" => y.mod \notin made
  PROVE  Once(t, more)
<1>1. DOMAIN s = 1..Len(s) /\ Len(s) \in Nat
  BY Domains
<1>2. /\ DOMAIN t = 1..(Len(s) + 1) /\ t[Len(s) + 1] = y
      /\ \A i \in 1..Len(s) : SameFrame(s[i], t[i])
  BY <1>1 DEF Onto
<1>3. \A i \in 1..Len(s) : /\ \A m : Fills(s[i], m) <=> Fills(t[i], m)
                           /\ s[i].op = t[i].op
                           /\ s[i].op = "generate" => s[i].mod = t[i].mod
  BY <1>2, FillsSame DEF SameFrame
<1>4. \A i \in DOMAIN t : i \in 1..Len(s) \/ i = Len(s) + 1
  BY <1>1, <1>2
<1>5. \A i \in DOMAIN t, m \in Modules : Fills(t[i], m) => m \in more
  BY <1>1, <1>2, <1>3, <1>4 DEF Once
<1>6. ASSUME NEW i \in DOMAIN t, NEW j \in DOMAIN t, i < j, t[j].op = "generate"
      PROVE  ~Fills(t[i], t[j].mod)
  <2>1. i \in 1..Len(s)
    BY <1>1, <1>2, <1>4, <1>6
  <2>2. CASE j \in 1..Len(s)
    BY <1>1, <1>3, <1>6, <2>1, <2>2 DEF Once
  <2>3. CASE j = Len(s) + 1
    <3>1. y.op = "generate" /\ t[j].mod = y.mod /\ y.mod \notin made /\ y.mod \in Modules
      BY <1>2, <1>6, <2>3, FrameFields
    <3> QED
      BY <1>1, <1>3, <2>1, <3>1 DEF Once
  <2> QED
    BY <1>4, <2>2, <2>3
<1> QED
  BY <1>5, <1>6 DEF Once

LEMMA OnceNow ==
  /\ GeneratedOnce <=> Once(stack, generated)
  /\ program' = program /\ Once(stack', generated') => GeneratedOnce'
BY DEF GeneratedOnce, Once, Fills

LEMMA OnceNext == Types /\ GeneratedOnce /\ [Next]_vars => GeneratedOnce'
<1> SUFFICES ASSUME Types, GeneratedOnce, [Next]_vars PROVE GeneratedOnce'
  OBVIOUS
<1>0. stack \in Seq(Frame) /\ program' = program /\ Once(stack, generated)
  BY ProgramKept, OnceNow DEF Types, TypeOK
<1>1. CASE Withdraws \/ Defines
  <2>1. Under(stack, stack') /\ generated' = generated
    BY <1>1 DEF Withdraws, Defines
  <2> QED
    BY <1>0, <2>1, OnceUnder, OnceNow
<1>2. CASE Asks
  <2>1. PICK y \in Frame : y.op \in {"require", "lookup"} /\ Onto(stack, stack', y)
    BY <1>2 DEF Asks
  <2>2. generated' = generated /\ \A m \in Modules : ~Fills(y, m)
    BY <1>2, <2>1 DEF Asks, Fills
  <2> QED
    BY <1>0, <2>1, <2>2, OnceOnto, OnceNow
<1>3. CASE StartsModule
  <2>1. PICK y \in Frame : /\ y.op = "generate" /\ y.mod \notin generated
                           /\ Onto(stack, stack', y)
                           /\ generated' = generated \cup {y.mod}
    BY <1>3 DEF StartsModule
  <2>2. \A m \in Modules : Fills(y, m) => m \in generated'
    BY <2>1 DEF Fills
  <2>3. generated \subseteq generated'
    BY <2>1
  <2> QED
    BY <1>0, <2>1, <2>2, <2>3, OnceOnto, OnceNow
<1>4. CASE StartsFunction
  <2>1. PICK f \in Functions, e \in BOOLEAN :
          /\ Onto(stack, stack', CompileFrame(f, e))
          /\ e => program.home[f] \in generated
    BY <1>4 DEF StartsFunction
  <2>2. PICK y : y = CompileFrame(f, e)
    OBVIOUS
  <2>3. y \in Frame /\ y.op = "compile" /\ y.fn = f /\ y.entry = e
    BY <2>2, CompileFrameType
  <2>4. \A m \in Modules : Fills(y, m) => m \in generated
    BY <2>1, <2>3 DEF Fills
  <2>5. generated' = generated
    BY <1>4 DEF StartsFunction
  <2> QED
    BY <1>0, <2>1, <2>2, <2>3, <2>4, <2>5, OnceOnto, OnceNow
<1> QED
  BY <1>1, <1>2, <1>3, <1>4, Kinds

-----------------------------------------------------------------------------
\* What an _Entry stands for

LEMMA NamedNext == Types /\ NamedEntries /\ GeneratedOnce /\ [Next]_vars => NamedEntries'
<1> SUFFICES ASSUME Types, NamedEntries, GeneratedOnce, [Next]_vars PROVE NamedEntries'
  OBVIOUS
<1>0. /\ program' = program /\ entries \in [Name -> Functions \cup {NoNode}]
      /\ \A f : NameOf(f)' = NameOf(f)
      /\ \A f \in Functions : NameOf(f) \in Name
  BY ProgramKept, ProgramTypes DEF Types, TypeOK, NameOf
<1>1. CASE entries' = entries
  BY <1>0, <1>1 DEF NamedEntries
<1>2. CASE Defines
  <2>1. PICK f \in Functions : entries' = [entries EXCEPT ![NameOf(f)] = f]
    BY <1>2 DEF Defines
  <2>2. \A n \in Name : entries'[n] = IF n = NameOf(f) THEN f ELSE entries[n]
    BY <1>0, <2>1
  <2>3. \A n \in Name : entries'[n] # NoNode => NameOf(entries'[n]) = n
    BY <2>2 DEF NamedEntries
  <2> QED
    BY <1>0, <2>3 DEF NamedEntries, NameOf
<1> QED
  BY <1>1, <1>2, Kinds DEF Withdraws, Asks, StartsModule, StartsFunction

LEMMA CodeMadeNext == Types /\ CodeMade /\ GeneratedOnce /\ [Next]_vars => CodeMade'
<1> SUFFICES ASSUME Types, CodeMade, GeneratedOnce, [Next]_vars PROVE CodeMade'
  OBVIOUS
<1>0. /\ TypeOK /\ program' = program /\ entries \in [Name -> Functions \cup {NoNode}]
      /\ \A f : NameOf(f)' = NameOf(f)
      /\ \A f \in Functions : NameOf(f) \in Name
      /\ CodeKept /\ stack \in Seq(Frame)
  BY ProgramKept, ProgramTypes, CodeKeptStep DEF Types, TypeOK, NameOf
<1> DEFINE Made(x) == x.op = "compile" =>
                        x.fn \notin program.opaque /\ code'[NameOf(x.fn)] # <<>>
<1>1. \A i \in DOMAIN stack : Made(stack[i])
  <2>1. TAKE i \in DOMAIN stack
  <2>2. stack[i] \in Frame
    BY <1>0, ElementOfSeq, Domains
  <2> QED
    BY <1>0, <2>2, FrameFields DEF CodeMade, CodeKept
<1>2. \A x, y : SameFrame(x, y) /\ Made(x) => Made(y)
  BY DEF SameFrame
<1> HIDE DEF Made
<1>3. \A i \in DOMAIN stack' : Made(stack'[i])
  <2>1. CASE Under(stack, stack')
    BY <1>1, <1>2, <2>1 DEF Under
  <2>2. ASSUME NEW y \in Frame, Onto(stack, stack', y), Made(y)
        PROVE  \A i \in DOMAIN stack' : Made(stack'[i])
    <3>1. DOMAIN stack = 1..Len(stack) /\ Len(stack) \in Nat
      BY <1>0, Domains
    <3>2. \A i \in 1..(Len(stack) + 1) : i \in 1..Len(stack) \/ i = Len(stack) + 1
      BY <3>1
    <3> QED
      BY <1>1, <1>2, <2>2, <3>1, <3>2 DEF Onto
  <2>3. CASE Asks \/ StartsModule
    <3>1. PICK y \in Frame : y.op # "compile" /\ Onto(stack, stack', y)
      BY <2>3 DEF Asks, StartsModule
    <3> QED
      BY <2>2, <3>1 DEF Made
  <2>4. CASE StartsFunction
    <3>1. PICK f \in Functions, e \in BOOLEAN :
            EnterFunction(f) /\ Onto(stack, stack', CompileFrame(f, e))
      BY <2>4 DEF StartsFunction
    <3>2. PICK y : y = CompileFrame(f, e)
      OBVIOUS
    <3>3. y \in Frame /\ y.op = "compile" /\ y.fn = f
      BY <3>2, CompileFrameType
    <3>4. f \notin program.opaque
      BY <3>1 DEF EnterFunction
    <3>5. code'[NameOf(f)] # <<>>
      <4>1. code'[NameOf(f)] = Append(code[NameOf(f)], <<>>)
        BY <1>0, <3>1, EnterType
      <4>2. code[NameOf(f)] \in Seq(Seq(Instr)) /\ <<>> \in Seq(Instr)
        BY <1>0, EmptySeq DEF TypeOK
      <4>3. Append(code[NameOf(f)], <<>>) # <<>>
        BY <4>2, AppendProperties
      <4> QED
        BY <4>1, <4>3
    <3> QED
      BY <2>2, <3>1, <3>2, <3>3, <3>4, <3>5 DEF Made
  <2> QED
    BY <2>1, <2>3, <2>4, Kinds DEF Withdraws, Defines
<1>4. \A n \in Name :
        entries'[n] # NoNode /\ entries'[n] \notin program.opaque => code'[n] # <<>>
  <2>1. CASE entries' = entries
    BY <1>0, <2>1 DEF CodeMade, CodeKept
  <2>2. CASE Defines
    <3>1. PICK f \in Functions : /\ entries' = [entries EXCEPT ![NameOf(f)] = f]
                                 /\ f \in program.opaque \/ Returns(f)
      BY <2>2 DEF Defines
    <3>2. \A n \in Name : entries'[n] = IF n = NameOf(f) THEN f ELSE entries[n]
      BY <1>0, <3>1
    <3>3. Returns(f) => code'[NameOf(f)] # <<>>
      <4>1. ASSUME Returns(f)
            PROVE  /\ Len(stack) \in DOMAIN stack /\ stack[Len(stack)].op = "compile"
                   /\ stack[Len(stack)].fn = f
        BY <1>0, <4>1, TopTypes DEF Returns, AtReturn, Running
      <4>2. Returns(f) => code[NameOf(f)] # <<>>
        BY <4>1 DEF CodeMade
      <4>3. PICK n : n = NameOf(f)
        OBVIOUS
      <4>4. n \in Name /\ CodeKept
        BY <1>0, <4>3
      <4> QED
        BY <4>2, <4>3, <4>4 DEF CodeKept
    <3> QED
      BY <1>0, <3>1, <3>2, <3>3 DEF CodeMade, CodeKept
  <2> QED
    BY <2>1, <2>2, Kinds DEF Withdraws, Asks, StartsModule, StartsFunction
<1> QED
  BY <1>0, <1>3, <1>4 DEF CodeMade, Made, NameOf

-----------------------------------------------------------------------------
\* Paths of functions and of modules along the stack

LEMMA ModOfIs ==
  ASSUME TypeOK, NEW x \in Frame
  PROVE  /\ x.op = "generate" => ModOf(x) = x.mod
         /\ x.op \in {"require", "compile"} => ModOf(x) = program.home[x.fn]
         /\ ModOf(x) \in Modules
<1>1. /\ x.op = "generate" => ModOf(x) = x.mod
      /\ x.op = "lookup" => ModOf(x) = x.name[2]
      /\ x.op \in {"require", "compile"} => ModOf(x) = program.home[x.fn]
  BY DEF ModOf
<1> QED
  BY <1>1, FrameFields, ProgramTypes DEF Name

LEMMA WaitingNeeds ==
  ASSUME TypeOK, NEW x \in Frame, NEW kind \in {"call", "local"}, NEW f \in Functions,
         Waiting(x, kind, f), x.fn \notin program.opaque
  PROVE  f \in Needs(x.fn)
<1>1. /\ x.site \in DOMAIN Body(x.fn)
      /\ Body(x.fn)[x.site].kind = kind /\ Body(x.fn)[x.site].fn = f
  BY DEF Waiting
<1> QED
  BY <1>1 DEF Needs

LEMMA CallImports ==
  ASSUME TypeOK, NEW f \in Functions, NEW g \in Needs(f)
  PROVE  program.home[g] = program.home[f] \/ program.home[g] \in Imports(program.home[f])
<1>1. g \in Functions
  BY DEF Needs
<1>2. program.home[g] \in Modules
  BY <1>1, ProgramTypes
<1> QED
  BY <1>1, <1>2 DEF Imports

LEMMA OneUp ==
  ASSUME TypeOK, NEW x \in Frame, NEW y \in Frame, Above(x, y),
         x.op = "compile" => x.fn \notin program.opaque
  PROVE  /\ y.op \in {"require", "generate", "compile"}
         /\ x.op = "compile" => y.op # "generate" /\ y.fn \in Needs(x.fn)
         /\ x.op = "require" => y.op = "generate" \/ (y.op = "compile" /\ y.fn = x.fn)
         /\ ModOf(y) = ModOf(x) \/ ModOf(y) \in Imports(ModOf(x))
<1>1. CASE y.op \in {"require", "compile"} /\ \E kind \in {"call", "local"} : Waiting(x, kind, y.fn)
  <2>1. PICK kind \in {"call", "local"} : Waiting(x, kind, y.fn)
    BY <1>1
  <2>2. x.op = "compile" /\ x.fn \in Functions /\ y.fn \in Functions
    BY <1>1, <2>1, FrameFields DEF Waiting
  <2>3. y.fn \in Needs(x.fn)
    BY <2>1, <2>2, WaitingNeeds
  <2> QED
    BY <1>1, <2>2, <2>3, CallImports, ModOfIs
<1>2. CASE y.op = "generate" /\ x.op \in {"require", "lookup"} /\ y.mod = ModOf(x)
  BY <1>2, ModOfIs
<1>3. CASE y.op = "compile" /\ Taken(x, y.fn)
  <2>1. /\ x.op = "generate" /\ x.mod \in Modules /\ x.next - 1 \in DOMAIN program.stmts[x.mod]
        /\ program.stmts[x.mod][x.next - 1] = y.fn
    BY <1>3, FrameFields DEF Taken
  <2>2. program.home[y.fn] = x.mod
    BY <2>1, ProgramTypes
  <2> QED
    BY <1>3, <2>1, <2>2, ModOfIs
<1>4. CASE y.op = "compile" /\ x.op = "require" /\ x.fn = y.fn
  BY <1>4, ModOfIs
<1> QED
  BY <1>1, <1>2, <1>3, <1>4 DEF Above

\* The stack as the lemmas about paths see it
Path(s) ==
  /\ s \in Seq(Frame) /\ TypeOK
  /\ \A i \in 2..Len(s) : Above(s[i - 1], s[i])
  /\ \A i \in 1..Len(s) : s[i].op = "compile" => s[i].fn \notin program.opaque

LEMMA PathStep ==
  ASSUME NEW s, Path(s), NEW i \in Nat \ {0}, i < Len(s)
  PROVE  /\ s[i] \in Frame /\ s[i + 1] \in Frame
         /\ s[i + 1].op \in {"require", "generate", "compile"}
         /\ s[i].op = "compile" => s[i + 1].op # "generate" /\ s[i + 1].fn \in Needs(s[i].fn)
         /\ s[i].op = "require" => \/ s[i + 1].op = "generate"
                                   \/ s[i + 1].op = "compile" /\ s[i + 1].fn = s[i].fn
         /\ ModOf(s[i + 1]) = ModOf(s[i]) \/ ModOf(s[i + 1]) \in Imports(ModOf(s[i]))
<1>1. s \in Seq(Frame) /\ TypeOK /\ Len(s) \in Nat /\ DOMAIN s = 1..Len(s)
  BY Domains DEF Path
<1>2. i \in 1..Len(s) /\ i + 1 \in 1..Len(s) /\ i + 1 \in 2..Len(s) /\ (i + 1) - 1 = i
  BY <1>1
<1>3. s[i] \in Frame /\ s[i + 1] \in Frame
  BY <1>1, <1>2, ElementOfSeq
<1>4. Above(s[i], s[i + 1]) /\ (s[i].op = "compile" => s[i].fn \notin program.opaque)
  BY <1>2 DEF Path
<1> QED
  BY <1>1, <1>3, <1>4, OneUp

\* Two activations for one function, and no module generated in between
LEMMA PathRecursive ==
  ASSUME NEW s, Path(s), NEW i \in 1..Len(s), NEW j \in 1..Len(s), i < j,
         \A k \in i..j : s[k].op # "generate",
         s[i].op \in {"require", "compile"}, s[j].op = s[i].op, s[j].fn = s[i].fn
  PROVE  Recursive(s[i].fn)
<1> DEFINE S == { s[k].fn : k \in i..j }
<1>1. s \in Seq(Frame) /\ TypeOK /\ Len(s) \in Nat /\ DOMAIN s = 1..Len(s)
  BY Domains DEF Path
<1>2. \A k \in i..j : k \in Nat \ {0} /\ k <= Len(s) /\ (k = j \/ (k < Len(s) /\ k + 1 \in i..j))
  BY <1>1
<1>3. ASSUME NEW k \in i..j
      PROVE  s[k].op \in {"require", "compile"} /\ s[k].fn \in Functions
  <2>1. s[k] \in Frame
    BY <1>1, <1>2, ElementOfSeq
  <2>2. CASE k = i
    BY <2>1, <2>2, FrameFields
  <2>3. CASE k # i
    <3>1. k - 1 \in Nat \ {0} /\ k - 1 < Len(s) /\ (k - 1) + 1 = k
      BY <1>1, <1>2, <2>3
    <3>2. s[k].op \in {"require", "generate", "compile"}
      BY <3>1, PathStep
    <3> QED
      BY <2>1, <3>2, FrameFields
  <2> QED
    BY <2>2, <2>3
<1>4. i \in i..j /\ j \in i..j
  BY <1>1
<1>5. ASSUME NEW k \in i..j, s[k].op = "compile"
      PROVE  Needs(s[k].fn) \cap S # {}
  <2>1. ASSUME NEW l \in i..j, l # j, s[l].op = "compile"
        PROVE  Needs(s[l].fn) \cap S # {}
    <3>1. l \in Nat \ {0} /\ l < Len(s) /\ l + 1 \in i..j
      BY <1>2, <2>1
    <3>2. s[l + 1].fn \in Needs(s[l].fn)
      BY <2>1, <3>1, PathStep
    <3> QED
      BY <3>1, <3>2
  <2>2. CASE k # j
    BY <1>5, <2>1, <2>2
  <2>3. CASE k = j
    <3>1. s[i].op = "compile" /\ i # j /\ s[k].fn = s[i].fn
      BY <1>1, <1>5, <2>3
    <3> QED
      BY <1>4, <2>1, <3>1
  <2> QED
    BY <2>2, <2>3
<1>6. ASSUME NEW k \in i..j, s[k].op = "require"
      PROVE  Needs(s[k].fn) \cap S # {}
  <2>1. ASSUME NEW l \in i..j, l # j, s[l].op = "require"
        PROVE  Needs(s[l].fn) \cap S # {}
    <3>1. l \in Nat \ {0} /\ l < Len(s) /\ l + 1 \in i..j
      BY <1>2, <2>1
    <3>2. s[l + 1].op = "compile" /\ s[l + 1].fn = s[l].fn
      BY <2>1, <3>1, PathStep
    <3>3. Needs(s[l + 1].fn) \cap S # {}
      BY <1>5, <3>1, <3>2
    <3> QED
      BY <3>2, <3>3
  <2>2. CASE k # j
    BY <1>6, <2>1, <2>2
  <2>3. CASE k = j
    <3>1. s[i].op = "require" /\ i # j /\ s[k].fn = s[i].fn
      BY <1>1, <1>6, <2>3
    <3> QED
      BY <1>4, <2>1, <3>1
  <2> QED
    BY <2>2, <2>3
<1>7. S \in SUBSET Functions /\ s[i].fn \in S
  BY <1>3, <1>4
<1>8. \A g \in S : Needs(g) \cap S # {}
  BY <1>3, <1>5, <1>6
<1> QED
  BY <1>7, <1>8 DEF Recursive

\* The modules from one activation up to another of its module, with another
\* module's in between, form a cycle of imports
LEMMA PathCycle ==
  ASSUME NEW s, Path(s), NEW i \in 1..Len(s), NEW j \in 1..Len(s),
         ModOf(s[j]) = ModOf(s[i]), NEW k \in i..j, ModOf(s[k]) # ModOf(s[i])
  PROVE  ImportCycle
<1> DEFINE S == { ModOf(s[l]) : l \in i..j }
<1>1. s \in Seq(Frame) /\ TypeOK /\ Len(s) \in Nat /\ DOMAIN s = 1..Len(s)
  BY Domains DEF Path
<1>2. \A l \in i..j : l \in Nat \ {0} /\ l <= Len(s) /\ (l = j \/ (l < Len(s) /\ l + 1 \in i..j))
  BY <1>1
<1>3. \A l \in i..j : s[l] \in Frame /\ ModOf(s[l]) \in Modules
  BY <1>1, <1>2, ElementOfSeq, ModOfIs
<1>4. ASSUME NEW l \in i..j, l # j, ModOf(s[l + 1]) # ModOf(s[l])
      PROVE  Imports(ModOf(s[l])) \cap S # {}
  <2>1. l \in Nat \ {0} /\ l < Len(s) /\ l + 1 \in i..j
    BY <1>2, <1>4
  <2>2. ModOf(s[l + 1]) \in Imports(ModOf(s[l]))
    BY <1>4, <2>1, PathStep
  <2> QED
    BY <2>1, <2>2
<1>5. ASSUME NEW p \in i..j, ModOf(s[p]) # ModOf(s[i])
      PROVE  Imports(ModOf(s[p])) \cap S # {}
  <2> DEFINE L == { l \in i..j : ModOf(s[l]) = ModOf(s[p]) }
  <2>1. L \in SUBSET Nat /\ L # {} /\ j \in Nat /\ \A l \in L : l <= j
    BY <1>1, <1>5
  <2>2. PICK l \in L : \A n \in L : l >= n
    BY <2>1, MaxIsGreatest
  <2>3. l \in i..j /\ ModOf(s[l]) = ModOf(s[p]) /\ l # j
    BY <1>5
  <2>4. l + 1 \in i..j /\ ~(l >= l + 1)
    BY <1>1, <1>2, <2>3
  <2>5. ModOf(s[l + 1]) # ModOf(s[l])
    BY <2>2, <2>3, <2>4
  <2> QED
    BY <1>4, <2>3, <2>5
<1>6. Imports(ModOf(s[i])) \cap S # {}
  <2> DEFINE L == { l \in i..j : ModOf(s[l]) # ModOf(s[i]) }
  <2>1. L \in SUBSET Nat /\ L # {}
    BY <1>1
  <2>2. PICK l \in L : \A n \in L : l <= n
    BY <2>1, HasLeast
  <2>3. l \in i..j /\ ModOf(s[l]) # ModOf(s[i]) /\ l # i
    OBVIOUS
  <2>4. l - 1 \in i..j /\ ~(l <= l - 1) /\ l - 1 # j /\ (l - 1) + 1 = l
    BY <1>1, <2>3
  <2>5. ModOf(s[l - 1]) = ModOf(s[i])
    BY <2>2, <2>4
  <2>6. ModOf(s[(l - 1) + 1]) # ModOf(s[l - 1])
    BY <2>3, <2>4, <2>5
  <2>7. Imports(ModOf(s[l - 1])) \cap S # {}
    BY <1>4, <2>4, <2>6
  <2> QED
    BY <2>5, <2>7
<1>7. S \in SUBSET Modules /\ S # {}
  BY <1>3
<1>8. \A m \in S : Imports(m) \cap S # {}
  BY <1>5, <1>6
<1> QED
  BY <1>7, <1>8 DEF ImportCycle

LEMMA StackPath ==
  ASSUME Types, CodeMade
  PROVE  Path(stack)
<1>1. stack \in Seq(Frame) /\ Shape(stack) /\ TypeOK
  BY DEF Types, TypeOK, StackShape
<1>2. DOMAIN stack = 1..Len(stack)
  BY <1>1, Domains
<1> QED
  BY <1>1, <1>2 DEF Path, Shape, CodeMade

LEMMA FinishedTwice ==
  ASSUME Types, NoRecursion, CodeMade, GeneratedOnce, AtReturn,
         NEW i \in 1..Len(stack), i # Len(stack),
         stack[i].op = "compile", stack[i].entry, stack[i].fn = Top.fn
  PROVE  ImportCycle
<1>1. TypeOK /\ stack \in Seq(Frame) /\ stack # <<>> /\ Top.op = "compile" /\ StackDone
  BY DEF Types, TypeOK, AtReturn, Running, NoRecursion
<1>2. Path(stack) /\ Top \in Frame
  BY <1>1, StackPath, TopTypes
<1> DEFINE j == Len(stack)
<1>3. j \in Nat \ {0} /\ Top = stack[j] /\ DOMAIN stack = 1..j /\ i < j /\ j \in 1..Len(stack)
  BY <1>1, TopTypes, Domains
<1>4. Top.fn \in Functions /\ ~Recursive(Top.fn)
  BY <1>1, <1>3, FinishedNotRecursive DEF StackDone
<1>5. PICK k \in i..j : stack[k].op = "generate"
  BY <1>1, <1>2, <1>3, <1>4, PathRecursive
<1>6. k \in 1..j /\ i < k
  <2>1. k # i
    BY <1>5
  <2>2. \A n \in Nat : \A h \in 1..n : \A l \in h..n : l # h => l \in 1..n /\ h < l
    OBVIOUS
  <2>3. \A l \in i..j : l # i => l \in 1..j /\ i < l
    BY <1>3, <2>2
  <2> QED
    BY <1>5, <2>1, <2>3
<1>7. stack[i] \in Frame /\ stack[k] \in Frame
  BY <1>1, <1>3, <1>6, ElementOfSeq
<1>8. ~Fills(stack[i], stack[k].mod)
  BY <1>3, <1>5, <1>6 DEF GeneratedOnce
<1>9. ModOf(stack[k]) = stack[k].mod /\ ModOf(stack[i]) = program.home[Top.fn]
  BY <1>1, <1>5, <1>7, ModOfIs
<1>10. ModOf(stack[k]) # ModOf(stack[i])
  BY <1>8, <1>9 DEF Fills
<1>11. ModOf(stack[j]) = ModOf(stack[i])
  BY <1>1, <1>2, <1>3, <1>9, ModOfIs
<1> QED
  BY <1>2, <1>3, <1>5, <1>10, <1>11, PathCycle

LEMMA CausesStep ==
  ASSUME program' = program
  PROVE  /\ ImportCycle' <=> ImportCycle
         /\ SharedName' <=> SharedName
<1>1. \A m : Imports(m)' = Imports(m)
  BY NeedsStep DEF Imports
<1> QED
  BY <1>1 DEF ImportCycle, SharedName, NameOf

LEMMA NotYetInit == Init => NotYetDefined
BY EmptySeq DEF Init, NotYetDefined

LEMMA NotYetNext ==
  Types /\ NoRecursion /\ CodeMade /\ GeneratedOnce /\ NotYetDefined /\ [Next]_vars
    => NotYetDefined'
<1> SUFFICES ASSUME Types, NoRecursion, CodeMade, GeneratedOnce, NotYetDefined, [Next]_vars,
                    ~ImportCycle, ~SharedName
             PROVE  NotYetDefined'
  BY ProgramKept, CausesStep DEF NotYetDefined
<1>0. /\ TypeOK /\ program' = program /\ entries \in [Name -> Functions \cup {NoNode}]
      /\ \A f : NameOf(f)' = NameOf(f)
      /\ \A f \in Functions : NameOf(f) \in Name
      /\ stack \in Seq(Frame) /\ DOMAIN stack = 1..Len(stack) /\ Len(stack) \in Nat
  BY ProgramKept, ProgramTypes, Domains DEF Types, TypeOK, NameOf
<1> DEFINE Free(x) == x.op = "compile" /\ x.entry => entries[NameOf(x.fn)] = NoNode
<1>1. \A i \in DOMAIN stack : Free(stack[i])
  BY DEF NotYetDefined
<1>2. \A x, y : SameFrame(x, y) /\ Free(x) => Free(y)
  BY DEF SameFrame
<1>3. (\A i \in DOMAIN stack' : Free(stack'[i])) /\ entries' = entries => NotYetDefined'
  BY <1>0 DEF NotYetDefined, NameOf
<1> HIDE DEF Free
<1>4. ASSUME NEW y \in Frame, Onto(stack, stack', y), Free(y)
      PROVE  \A i \in DOMAIN stack' : Free(stack'[i])
  <2>1. \A i \in 1..(Len(stack) + 1) : i \in 1..Len(stack) \/ i = Len(stack) + 1
    BY <1>0
  <2> QED
    BY <1>0, <1>1, <1>2, <1>4, <2>1 DEF Onto
<1>5. CASE Withdraws
  <2>1. \A i \in DOMAIN stack' : Free(stack'[i])
    BY <1>1, <1>2, <1>5 DEF Withdraws, Under
  <2> QED
    BY <1>3, <1>5, <2>1 DEF Withdraws
<1>6. CASE Asks \/ StartsModule
  <2>1. PICK y \in Frame : y.op # "compile" /\ Onto(stack, stack', y)
    BY <1>6 DEF Asks, StartsModule
  <2>2. entries' = entries /\ Free(y)
    BY <1>6, <2>1 DEF Asks, StartsModule, Free
  <2> QED
    BY <1>3, <1>4, <2>1, <2>2
<1>7. CASE StartsFunction
  <2>1. PICK f \in Functions, e \in BOOLEAN :
          Onto(stack, stack', CompileFrame(f, e)) /\ (e => entries[NameOf(f)] = NoNode)
    BY <1>7 DEF StartsFunction
  <2>2. PICK y : y = CompileFrame(f, e)
    OBVIOUS
  <2>3. y \in Frame /\ y.fn = f /\ y.entry = e
    BY <2>2, CompileFrameType
  <2>4. Free(y) /\ entries' = entries
    BY <1>7, <2>1, <2>3 DEF StartsFunction, Free
  <2> QED
    BY <1>3, <1>4, <2>1, <2>2, <2>3, <2>4
<1>8. CASE Defines
  <2>1. PICK f \in Functions : /\ entries' = [entries EXCEPT ![NameOf(f)] = f]
                               /\ f \in program.opaque \/ Returns(f)
    BY <1>8 DEF Defines
  <2>2. \A n \in Name : n # NameOf(f) => entries'[n] = entries[n]
    BY <1>0, <2>1
  <2>3. Under(stack, stack')
    BY <1>8 DEF Defines
  <2>4. ASSUME NEW i \in DOMAIN stack', stack'[i].op = "compile", stack'[i].entry
        PROVE  entries'[NameOf(stack'[i].fn)] = NoNode
    <3>1. i \in DOMAIN stack /\ SameFrame(stack[i], stack'[i])
      BY <2>3 DEF Under
    <3>2. /\ stack[i] \in Frame /\ stack[i].op = "compile" /\ stack[i].entry
          /\ stack'[i].fn = stack[i].fn
      BY <1>0, <2>4, <3>1, ElementOfSeq DEF SameFrame
    <3>3. PICK g : g = stack[i].fn
      OBVIOUS
    <3>4. g \in Functions /\ g \notin program.opaque /\ entries[NameOf(g)] = NoNode
      BY <1>1, <3>1, <3>2, <3>3, FrameFields DEF CodeMade, Free
    <3>5. g # f
      <4>1. CASE Returns(f)
        <5>1. /\ AtReturn /\ Top.fn = f /\ stack' = Front(stack)
              /\ stack # <<>>
          BY <4>1 DEF Returns, AtReturn, Running
        <5>2. i # Len(stack) /\ i \in 1..Len(stack)
          <6>1. PICK t : t = Front(stack)
            OBVIOUS
          <6>2. t \in Seq(Frame) /\ Len(t) = Len(stack) - 1
            BY <1>0, <5>1, <6>1, FrontLast
          <6>3. DOMAIN t = 1..(Len(stack) - 1)
            BY <6>2, Domains
          <6> QED
            BY <1>0, <2>4, <3>1, <5>1, <6>1, <6>3
        <5> QED
          BY <3>2, <3>3, <5>1, <5>2, FinishedTwice
      <4>2. CASE f \in program.opaque
        BY <3>4, <4>2
      <4> QED
        BY <2>1, <4>1, <4>2
    <3>6. NameOf(g) # NameOf(f)
      BY <3>4, <3>5 DEF SharedName
    <3> QED
      BY <1>0, <2>2, <3>2, <3>3, <3>4, <3>6
  <2> QED
    BY <1>0, <2>4 DEF NotYetDefined, NameOf
<1> QED
  BY <1>5, <1>6, <1>7, <1>8, Kinds

-----------------------------------------------------------------------------
\* What has become of the statements of a module being generated

Has(e, m, i) == e[NameOf(program.stmts[m][i])] = program.stmts[m][i]
Works(s, e, k, m) ==
  /\ s[k].op = "generate" /\ s[k].mod = m
  /\ \A i \in DOMAIN program.stmts[m] :
       i < s[k].next =>
         \/ Has(e, m, i)
         \/ i = s[k].next - 1 /\ k < Len(s) /\ s[k + 1].op = "compile"
Settled(s, e, m) ==
  \/ \A i \in DOMAIN program.stmts[m] : Has(e, m, i)
  \/ \E k \in DOMAIN s : Works(s, e, k, m)

LEMMA SettledNow ==
  /\ StatementsDone <=> \A m \in generated : Settled(stack, entries, m)
  /\ program' = program /\ (\A m \in generated' : Settled(stack', entries', m))
       => StatementsDone'
BY DEF StatementsDone, Settled, Works, Bound, Has, NameOf

HasKept(m) ==
  \A i \in DOMAIN program.stmts[m] : Has(entries, m, i) => Has(entries', m, i)

LEMMA HasKeptStep ==
  ASSUME Types, GeneratedOnce, [Next]_vars, NEW m \in Modules
  PROVE  HasKept(m)
<1>0. /\ TypeOK /\ entries \in [Name -> Functions \cup {NoNode}]
      /\ \A f \in Functions : NameOf(f) \in Name
  BY ProgramTypes DEF Types, TypeOK
<1>1. CASE entries' = entries
  BY <1>1 DEF HasKept, Has
<1>2. CASE Defines
  <2>1. PICK f \in Functions : /\ entries[NameOf(f)] = NoNode
                               /\ entries' = [entries EXCEPT ![NameOf(f)] = f]
    BY <1>2 DEF Defines
  <2>2. \A n \in Name : entries[n] # NoNode => entries'[n] = entries[n]
    BY <1>0, <2>1
  <2>3. ASSUME NEW i \in DOMAIN program.stmts[m], Has(entries, m, i)
        PROVE  Has(entries', m, i)
    <3>1. PICK g : g = program.stmts[m][i]
      OBVIOUS
    <3>2. g \in Functions /\ entries[NameOf(g)] = g
      BY <1>0, <2>3, <3>1, StatementTypes DEF Has
    <3>3. g # NoNode /\ NameOf(g) \in Name
      BY <1>0, <3>2, ConstantsAssumption
    <3>4. entries'[NameOf(g)] = g
      BY <2>2, <3>2, <3>3
    <3> QED
      BY <3>1, <3>4 DEF Has
  <2> QED
    BY <2>3 DEF HasKept
<1> QED
  BY <1>1, <1>2, Kinds DEF Withdraws, Asks, StartsModule, StartsFunction

\* Activation k of s, a generate(), is in t what it was, and so is what runs on it
KeepsAt(s, t, k) ==
  /\ k \in DOMAIN t /\ t[k] = s[k]
  /\ k < Len(s) /\ s[k + 1].op = "compile" => k < Len(t) /\ t[k + 1].op = "compile"
KeepsAll(s, t) == \A k \in DOMAIN s : s[k].op = "generate" => KeepsAt(s, t, k)

LEMMA SettledStep ==
  ASSUME NEW s, NEW t, NEW m, HasKept(m), Settled(s, entries, m),
         \A k \in DOMAIN s : Works(s, entries, k, m) =>
           KeepsAt(s, t, k) \/ Settled(t, entries', m)
  PROVE  Settled(t, entries', m)
<1>1. CASE \A i \in DOMAIN program.stmts[m] : Has(entries, m, i)
  BY <1>1 DEF HasKept, Settled
<1>2. ASSUME NEW k \in DOMAIN s, Works(s, entries, k, m), KeepsAt(s, t, k)
      PROVE  Settled(t, entries', m)
  <2>1. k \in DOMAIN t /\ t[k] = s[k]
    BY <1>2 DEF KeepsAt
  <2>2. ASSUME NEW i \in DOMAIN program.stmts[m], i < t[k].next
        PROVE  \/ Has(entries', m, i)
               \/ i = t[k].next - 1 /\ k < Len(t) /\ t[k + 1].op = "compile"
    <3>1. \/ Has(entries, m, i)
          \/ i = s[k].next - 1 /\ k < Len(s) /\ s[k + 1].op = "compile"
      BY <1>2, <2>1, <2>2 DEF Works
    <3>2. CASE Has(entries, m, i)
      BY <3>2 DEF HasKept
    <3>3. CASE i = s[k].next - 1 /\ k < Len(s) /\ s[k + 1].op = "compile"
      BY <1>2, <2>1, <3>3 DEF KeepsAt
    <3> QED
      BY <3>1, <3>2, <3>3
  <2>3. t[k].op = "generate" /\ t[k].mod = m
    BY <1>2, <2>1 DEF Works
  <2>4. Works(t, entries', k, m)
    BY <2>2, <2>3 DEF Works
  <2> QED
    BY <2>1, <2>4 DEF Settled
<1> QED
  BY <1>1, <1>2 DEF Settled

LEMMA KeepsAppend ==
  ASSUME NEW s \in Seq(Frame), NEW y \in Frame
  PROVE  KeepsAll(s, s) /\ KeepsAll(s, Append(s, y))
<1>1. PICK t : t = Append(s, y)
  OBVIOUS
<1>2. /\ t \in Seq(Frame) /\ Len(t) = Len(s) + 1 /\ Len(s) \in Nat
      /\ \A i \in 1..Len(s) : t[i] = s[i]
  BY <1>1, AppendProperties, LenProperties
<1>3. DOMAIN t = 1..(Len(s) + 1) /\ DOMAIN s = 1..Len(s)
  BY <1>2, Domains
<1>4. \A k \in 1..Len(s) : /\ k \in 1..(Len(s) + 1)
                           /\ k < Len(s) => k + 1 \in 1..Len(s) /\ k < Len(s) + 1
  BY <1>2
<1>5. KeepsAll(s, t)
  BY <1>2, <1>3, <1>4 DEF KeepsAll, KeepsAt
<1> QED
  BY <1>1, <1>5 DEF KeepsAll, KeepsAt

LEMMA KeepsAdvance ==
  ASSUME NEW s \in Seq(Frame), s # <<>>, Last(s).op = "compile"
  PROVE  KeepsAll(s, AdvancedSite(s))
<1>1. PICK t : t = AdvancedSite(s)
  OBVIOUS
<1>2. /\ Len(s) \in Nat \ {0} /\ Last(s) = s[Len(s)] /\ Last(s) \in Frame
      /\ t \in Seq(Frame) /\ Len(t) = Len(s)
      /\ \A i \in 1..(Len(s) - 1) : t[i] = s[i]
      /\ Last(t).op = "compile"
  <2>1. Len(s) \in Nat \ {0} /\ Last(s) = s[Len(s)] /\ Last(s) \in Frame
    BY FrontLast
  <2>2. /\ t \in Seq(Frame) /\ Len(t) = Len(s)
        /\ \A i \in 1..(Len(s) - 1) : t[i] = s[i]
        /\ Last(t) = [Last(s) EXCEPT !.site = @ + 1]
    BY <1>1, Advanced
  <2>3. Last(t).op = "compile"
    BY <2>1, <2>2, AdvanceFrame
  <2> QED
    BY <2>1, <2>2, <2>3
<1>3. DOMAIN t = 1..Len(s) /\ DOMAIN s = 1..Len(s) /\ t[Len(s)].op = "compile"
  BY <1>2, Domains DEF Last
<1>4. ASSUME NEW k \in 1..Len(s), s[k].op = "generate"
      PROVE  KeepsAt(s, t, k)
  <2>1. k # Len(s)
    BY <1>2, <1>4
  <2>2. k \in 1..(Len(s) - 1) /\ (k + 1 = Len(s) \/ k + 1 \in 1..(Len(s) - 1))
    BY <1>2, <2>1
  <2> QED
    BY <1>2, <1>3, <2>2 DEF KeepsAt
<1>5. KeepsAll(s, t)
  BY <1>3, <1>4 DEF KeepsAll
<1> QED
  BY <1>1, <1>5

LEMMA KeepsFront ==
  ASSUME NEW s \in Seq(Frame), s # <<>>, NEW k \in DOMAIN s, k # Len(s),
         k + 1 = Len(s) => Last(s).op # "compile"
  PROVE  KeepsAt(s, Front(s), k)
<1>1. PICK t : t = Front(s)
  OBVIOUS
<1>2. /\ Len(s) \in Nat \ {0} /\ Last(s) = s[Len(s)]
      /\ t \in Seq(Frame) /\ Len(t) = Len(s) - 1
      /\ \A i \in 1..(Len(s) - 1) : t[i] = s[i]
  BY <1>1, FrontLast
<1>3. DOMAIN t = 1..(Len(s) - 1) /\ DOMAIN s = 1..Len(s)
  BY <1>2, Domains
<1>4. k \in 1..(Len(s) - 1) /\ (k + 1 = Len(s) \/ (k + 1 \in 1..(Len(s) - 1) /\ k < Len(s) - 1))
  BY <1>2, <1>3
<1>5. KeepsAt(s, t, k)
  BY <1>2, <1>3, <1>4 DEF KeepsAt
<1> QED
  BY <1>1, <1>5

LEMMA KeepsTrans ==
  ASSUME NEW s, NEW t, NEW u, KeepsAll(s, t), KeepsAll(t, u)
  PROVE  KeepsAll(s, u)
<1>1. ASSUME NEW k \in DOMAIN s, s[k].op = "generate" PROVE KeepsAt(s, u, k)
  <2>1. KeepsAt(s, t, k)
    BY <1>1 DEF KeepsAll
  <2>2. k \in DOMAIN t /\ t[k].op = "generate"
    BY <1>1, <2>1 DEF KeepsAt
  <2>3. KeepsAt(t, u, k)
    BY <2>2 DEF KeepsAll
  <2> QED
    BY <2>1, <2>3 DEF KeepsAt
<1> QED
  BY <1>1 DEF KeepsAll

LEMMA KeepsStep ==
  ASSUME Types, [Next]_vars, ~GenerateStatement, ~GenerateDone, ~FinishFunction
  PROVE  KeepsAll(stack, stack')
<1>0. TypeOK /\ stack \in Seq(Frame) /\ Shape(stack) /\ DOMAIN stack = 1..Len(stack)
  BY Domains DEF Types, TypeOK, StackShape
<1>1. stack # <<>> => Top = Last(stack) /\ Top \in Frame /\ Top = stack[Len(stack)]
  BY <1>0, TopTypes DEF Top
<1>2. ASSUME NEW y \in Frame, stack' = Append(stack, y) PROVE KeepsAll(stack, stack')
  BY <1>0, <1>2, KeepsAppend
<1>3. ASSUME stack' = stack PROVE KeepsAll(stack, stack')
  BY <1>0, <1>3, KeepsAppend DEF KeepsAll, KeepsAt
<1>4. ASSUME stack # <<>>, Top.op \in {"require", "lookup"}
      PROVE  KeepsAll(stack, Front(stack))
  <2>1. \A k \in DOMAIN stack : stack[k].op = "generate" => k # Len(stack)
    BY <1>1, <1>4
  <2>2. Last(stack).op # "compile"
    BY <1>1, <1>4
  <2> QED
    BY <1>0, <1>4, <2>1, <2>2, KeepsFront DEF KeepsAll
<1>5. CASE \E f \in Functions : Demand(f)
  <2>1. PICK f \in Functions : Demand(f)
    BY <1>5
  <2>2. RequireFrame(f) \in Frame /\ stack' = Append(stack, RequireFrame(f))
    BY <2>1 DEF RequireFrame, Frame, Demand
  <2> QED
    BY <1>2, <2>2
<1>6. CASE \E n \in Name : DemandLookup(n)
  <2>1. PICK n \in Name : DemandLookup(n)
    BY <1>6
  <2>2. PICK y : y = [op |-> "lookup", name |-> n]
    OBVIOUS
  <2>3. y \in Frame /\ stack' = Append(stack, y)
    BY <2>1, <2>2 DEF Frame, DemandLookup
  <2> QED
    BY <1>2, <2>3
<1>7. CASE \E m \in Modules : GenerateModule(m)
  <2>1. PICK m \in Modules : GenerateModule(m)
    BY <1>7
  <2>2. PICK y : y = [op |-> "generate", mod |-> m, next |-> 1]
    OBVIOUS
  <2>3. y \in Frame /\ stack' = Append(stack, y)
    BY <2>1, <2>2 DEF Frame, GenerateModule
  <2> QED
    BY <1>2, <2>3
<1>8. CASE RequireMiss
  <2>1. Top.fn \in Functions /\ CompileMissing(Top.fn, stack)
    BY <1>1, <1>8, FrameFields DEF RequireMiss, Requiring, Running
  <2>2. \/ stack' = Append(stack, CompileFrame(Top.fn, TRUE))
        \/ stack' = stack
    BY <2>1 DEF CompileMissing
  <2>3. CompileFrame(Top.fn, TRUE) \in Frame
    BY <2>1, CompileFrameType
  <2> QED
    BY <1>2, <1>3, <2>2, <2>3
<1>9. CASE FinishLookup
  BY <1>3, <1>4, <1>9 DEF FinishLookup, Running, Die
<1>10. CASE FinishLlvmCall \/ FinishLlvmIr
  <2>1. /\ stack # <<>> /\ Top.op = "require" /\ Len(stack) = 1 /\ stack' = <<>>
    BY <1>10 DEF FinishLlvmCall, FinishLlvmIr, Hit, Requiring, Running
  <2>2. \A k \in DOMAIN stack : stack[k].op # "generate"
    BY <1>0, <1>1, <2>1
  <2> QED
    BY <2>2 DEF KeepsAll
<1>11. CASE CallSite
  <2>1. PICK g \in Functions : stack' = Append(stack, RequireFrame(g))
    BY <1>0, <1>11, AtSiteTypes DEF CallSite
  <2>2. RequireFrame(g) \in Frame
    BY DEF RequireFrame, Frame
  <2> QED
    BY <1>2, <2>1, <2>2
<1>12. CASE FinishCallSite
  <2>1. /\ stack # <<>> /\ stack' = AdvancedSite(Front(stack))
        /\ Top.op = "require" /\ Len(stack) > 1
    BY <1>12 DEF FinishCallSite, Hit, Requiring, Running
  <2>2. /\ Front(stack) \in Seq(Frame) /\ Front(stack) # <<>>
        /\ Last(Front(stack)).op = "compile"
    BY <2>1, WaitingCaller
  <2>3. KeepsAll(stack, Front(stack)) /\ KeepsAll(Front(stack), stack')
    BY <1>4, <2>1, <2>2, KeepsAdvance
  <2> QED
    BY <2>3, KeepsTrans
<1>13. CASE FinishLocalFunction
  <2>1. /\ stack # <<>> /\ stack' = AdvancedSite(Front(stack))
        /\ Top.op = "compile" /\ ~Top.entry
    BY <1>13 DEF FinishLocalFunction, AtReturn, Running
  <2>2. Len(stack) \in Nat \ {0} /\ Len(stack) # 1
    BY <1>0, <1>1, <2>1, FrontLast, CallerFrame DEF Bottom
  <2>3. Len(stack) > 1
    <3>1. \A k \in Nat \ {0} : k # 1 => k > 1
      OBVIOUS
    <3> QED
      BY <2>2, <3>1
  <2>4. /\ Front(stack) \in Seq(Frame) /\ Front(stack) # <<>>
        /\ Last(Front(stack)).op = "compile"
        /\ Last(Front(stack)) = stack[Len(stack) - 1]
    BY <1>0, <2>1, <2>3, WaitingCaller, CallerFrame
  <2>5. \A k \in DOMAIN stack : stack[k].op = "generate" =>
          k # Len(stack) /\ k + 1 # Len(stack)
    <3>1. TAKE k \in DOMAIN stack
    <3>2. k + 1 = Len(stack) => k = Len(stack) - 1
      BY <1>0, <2>2
    <3> QED
      BY <1>1, <2>1, <2>4, <3>2
  <2>6. KeepsAll(stack, Front(stack))
    BY <1>0, <2>1, <2>5, KeepsFront DEF KeepsAll
  <2>7. KeepsAll(Front(stack), stack')
    BY <2>1, <2>4, KeepsAdvance
  <2> QED
    BY <2>6, <2>7, KeepsTrans
<1>14. CASE RuntimeCallSite \/ UnsupportedNode
  <2>1. stack # <<>> /\ Last(stack).op = "compile" /\ stack' = AdvancedSite(stack)
    BY <1>0, <1>14, AtSiteTypes DEF RuntimeCallSite, UnsupportedNode
  <2> QED
    BY <1>0, <2>1, KeepsAdvance
<1>15. CASE LocalFunction
  <2> DEFINE g == Body(Top.fn)[Top.site].fn
  <2>1. /\ stack # <<>> /\ Last(stack).op = "compile" /\ g \in Functions
    BY <1>0, <1>15, AtSiteTypes DEF LocalFunction
  <2>2. \/ stack' = Append(stack, CompileFrame(g, FALSE))
        \/ stack' = AdvancedSite(stack)
    BY <1>15 DEF LocalFunction
  <2> HIDE DEF g
  <2>3. CompileFrame(g, FALSE) \in Frame
    BY <2>1, CompileFrameType
  <2> QED
    BY <1>0, <1>2, <2>1, <2>2, <2>3, KeepsAdvance
<1>16. CASE RequireClash \/ NullPrototype \/ RedefineEntry \/ Overflow \/ UNCHANGED vars
  <2>1. stack' = stack
    BY <1>16 DEF RequireClash, NullPrototype, RedefineEntry, Overflow, Die, vars
  <2> QED
    BY <1>3, <2>1
<1> QED
  BY <1>5, <1>6, <1>7, <1>8, <1>9, <1>10, <1>11, <1>12, <1>13, <1>14, <1>15, <1>16
  DEF Next, Step, Dead

\* The loop of generate() takes a statement
LEMMA SettledStatement ==
  ASSUME Types, GeneratedOnce, [Next]_vars, GenerateStatement, NEW m \in Modules,
         Settled(stack, entries, m)
  PROVE  Settled(stack', entries', m)
<1> DEFINE f == program.stmts[Top.mod][Top.next]
           t == AdvancedStatement(stack)
           j == Len(stack)
<1>0. TypeOK /\ stack \in Seq(Frame) /\ HasKept(m)
  BY HasKeptStep DEF Types, TypeOK
<1>1. /\ stack # <<>> /\ Top.op = "generate" /\ Last(stack) = Top
      /\ Top.next <= Len(program.stmts[Top.mod]) /\ Running("generate")
  BY DEF GenerateStatement, Running, Top
<1>2. /\ Top \in Frame /\ j \in Nat \ {0} /\ Top = stack[j] /\ DOMAIN stack = 1..j
      /\ Top.mod \in Modules /\ Top.next \in Nat \ {0}
  BY <1>0, <1>1, TopTypes, Domains, FrameFields
<1>3. /\ t \in Seq(Frame) /\ Len(t) = j /\ t[j].op = "generate" /\ t[j].mod = Top.mod
      /\ t[j].next = Top.next + 1 /\ \A i \in 1..(j - 1) : t[i] = stack[i]
  <2>1. PICK y : y = [Top EXCEPT !.next = @ + 1]
    OBVIOUS
  <2>2. /\ t \in Seq(Frame) /\ Len(t) = j /\ Last(t) = y
        /\ \A i \in 1..(j - 1) : t[i] = stack[i]
    BY <1>0, <1>1, <2>1, Advanced
  <2>3. y.op = "generate" /\ y.mod = Top.mod /\ y.next = Top.next + 1
    BY <1>1, <1>2, <2>1, AdvanceFrame
  <2>4. t[j] = y
    BY <2>2 DEF Last
  <2> QED
    BY <2>2, <2>3, <2>4
<1>4. f \in Functions /\ NameOf(f) \in Name
  BY <1>0, <1>1, TakenNow, ProgramTypes
<1>5. \/ stack' = stack
      \/ stack' = t /\ entries'[NameOf(f)] = f
      \/ stack' = Append(t, CompileFrame(f, TRUE))
  <2>1. entries \in [Name -> Functions \cup {NoNode}]
    BY <1>0 DEF TypeOK
  <2> HIDE DEF f, t
  <2>2. \/ /\ entries[NameOf(f)] = f /\ stack' = t /\ entries' = entries
        \/ CompileMissing(f, t)
        \/ Die("assert")
    BY DEF GenerateStatement, f, t
  <2>3. CASE CompileMissing(f, t)
    <3>1. \/ stack' = Append(t, CompileFrame(f, TRUE))
          \/ stack' = t /\ entries' = [entries EXCEPT ![NameOf(f)] = f]
      BY <2>3 DEF CompileMissing
    <3> QED
      BY <1>4, <2>1, <3>1
  <2> QED
    BY <2>2, <2>3 DEF Die
<1> HIDE DEF f, t
<1>6. CASE stack' = stack
  <2>1. \A k \in DOMAIN stack : KeepsAt(stack, stack', k)
    BY <1>6 DEF KeepsAt
  <2> QED
    BY <1>0, <2>1, SettledStep
<1>7. ASSUME NEW u, stack' = u, u \in Seq(Frame), Len(u) \in Nat, Len(u) >= j, u[j] = t[j],
             \A i \in 1..(j - 1) : u[i] = stack[i],
             \/ entries'[NameOf(f)] = f
             \/ j < Len(u) /\ u[j + 1].op = "compile"
      PROVE  Settled(stack', entries', m)
  <2>1. DOMAIN u = 1..Len(u)
    BY <1>7, Domains
  <2>2. ASSUME NEW k \in DOMAIN stack, k # j PROVE KeepsAt(stack, u, k)
    <3>1. k \in 1..(j - 1) /\ (k + 1 = j \/ k + 1 \in 1..(j - 1)) /\ k \in 1..Len(u) /\ k < Len(u)
      BY <1>2, <1>7, <2>2
    <3> QED
      BY <1>1, <1>2, <1>7, <2>1, <3>1 DEF KeepsAt
  <2>3. ASSUME Works(stack, entries, j, m) PROVE Settled(u, entries', m)
    <3>1. Top.mod = m
      BY <1>2, <2>3 DEF Works
    <3>2. ASSUME NEW i \in DOMAIN program.stmts[m], i < u[j].next
          PROVE  Has(entries', m, i) \/ (i = u[j].next - 1 /\ j < Len(u) /\ u[j + 1].op = "compile")
      <4>1. i \in Nat \ {0} /\ u[j].next = Top.next + 1
        BY <1>0, <1>3, <1>7, StatementTypes
      <4>2. i < Top.next \/ i = Top.next
        BY <1>2, <3>2, <4>1
      <4>3. CASE i < Top.next
        <5>1. Has(entries, m, i)
          BY <1>2, <2>3, <4>3 DEF Works
        <5> QED
          BY <1>0, <5>1 DEF HasKept
      <4>4. CASE i = Top.next
        <5>1. i = u[j].next - 1
          BY <1>2, <4>1, <4>4
        <5>2. program.stmts[m][i] = f
          BY <3>1, <4>4 DEF f
        <5> QED
          BY <1>7, <5>1, <5>2 DEF Has
      <4> QED
        BY <4>2, <4>3, <4>4
    <3>3. Works(u, entries', j, m) /\ j \in DOMAIN u
      BY <1>2, <1>3, <1>7, <2>1, <3>1, <3>2 DEF Works
    <3> QED
      BY <3>3 DEF Settled
  <2> QED
    BY <1>0, <1>7, <2>2, <2>3, SettledStep
<1>8. CASE stack' = t /\ entries'[NameOf(f)] = f
  <2>1. j >= j
    BY <1>2
  <2> QED
    BY <1>2, <1>3, <1>7, <1>8, <2>1
<1>9. CASE stack' = Append(t, CompileFrame(f, TRUE))
  <2>1. PICK y : y = CompileFrame(f, TRUE)
    OBVIOUS
  <2>2. y \in Frame /\ y.op = "compile"
    BY <1>4, <2>1, CompileFrameType
  <2>3. PICK u : u = Append(t, y)
    OBVIOUS
  <2>4. /\ u \in Seq(Frame) /\ Len(u) = j + 1 /\ u[j + 1] = y
        /\ \A i \in 1..j : u[i] = t[i]
    BY <1>2, <1>3, <2>2, <2>3, AppendProperties
  <2>5. j \in 1..j /\ j < Len(u) /\ Len(u) >= j /\ Len(u) \in Nat
        /\ \A i \in 1..(j - 1) : i \in 1..j
    BY <1>2, <2>4
  <2>6. u[j] = t[j] /\ \A i \in 1..(j - 1) : u[i] = stack[i]
    BY <1>3, <2>4, <2>5
  <2> QED
    BY <1>7, <1>9, <2>1, <2>2, <2>3, <2>4, <2>5, <2>6
<1> QED
  BY <1>5, <1>6, <1>8, <1>9

LEMMA SettledDone ==
  ASSUME Types, GeneratedOnce, [Next]_vars, GenerateDone, NEW m \in Modules,
         Settled(stack, entries, m)
  PROVE  Settled(stack', entries', m)
<1>0. TypeOK /\ stack \in Seq(Frame) /\ HasKept(m)
  BY HasKeptStep DEF Types, TypeOK
<1>1. /\ stack # <<>> /\ Top.op = "generate" /\ Last(stack) = Top /\ stack' = Front(stack)
      /\ Top.next > Len(program.stmts[Top.mod]) /\ entries' = entries
  BY DEF GenerateDone, Running, Top
<1>2. /\ Len(stack) \in Nat \ {0} /\ Top = stack[Len(stack)] /\ Top \in Frame
      /\ Top.next \in Nat \ {0}
  BY <1>0, <1>1, TopTypes, FrameFields
<1>3. ASSUME NEW k \in DOMAIN stack, k # Len(stack) PROVE KeepsAt(stack, stack', k)
  BY <1>0, <1>1, <1>3, KeepsFront
<1>4. ASSUME Works(stack, entries, Len(stack), m) PROVE Settled(stack', entries', m)
  <2>1. Top.mod = m /\ program.stmts[m] \in Seq(Functions)
    BY <1>0, <1>2, <1>4, ProgramTypes DEF Works
  <2>2. DOMAIN program.stmts[m] = 1..Len(program.stmts[m]) /\ Len(program.stmts[m]) \in Nat
    BY <2>1, LenProperties
  <2>3. \A i \in DOMAIN program.stmts[m] : i < Top.next
    BY <1>1, <1>2, <2>1, <2>2
  <2>4. \A i \in DOMAIN program.stmts[m] : Has(entries, m, i)
    BY <1>2, <1>4, <2>3 DEF Works
  <2> QED
    BY <1>1, <2>4 DEF Settled
<1> QED
  BY <1>0, <1>3, <1>4, SettledStep

LEMMA SettledFunction ==
  ASSUME Types, GeneratedOnce, [Next]_vars, FinishFunction, NEW m \in Modules,
         Settled(stack, entries, m)
  PROVE  Settled(stack', entries', m)
<1> DEFINE j == Len(stack)
<1>0. TypeOK /\ stack \in Seq(Frame) /\ Shape(stack) /\ HasKept(m)
  BY HasKeptStep DEF Types, TypeOK, StackShape
<1>1. /\ stack # <<>> /\ Top.op = "compile" /\ Top.entry /\ Last(stack) = Top
      /\ stack' = Front(stack) /\ entries' = [entries EXCEPT ![NameOf(Top.fn)] = Top.fn]
  BY DEF FinishFunction, AtReturn, Running, Top
<1>2. /\ j \in Nat \ {0} /\ Top = stack[j] /\ Top \in Frame /\ Top.fn \in Functions
      /\ DOMAIN stack = 1..j
  BY <1>0, <1>1, TopTypes, FrameFields, Domains
<1>3. entries'[NameOf(Top.fn)] = Top.fn
  <2>1. NameOf(Top.fn) \in Name /\ entries \in [Name -> Functions \cup {NoNode}]
    BY <1>0, <1>2, ProgramTypes DEF TypeOK
  <2> QED
    BY <1>1, <2>1
<1>4. PICK t : t = Front(stack)
  OBVIOUS
<1>5. /\ t \in Seq(Frame) /\ Len(t) = j - 1 /\ DOMAIN t = 1..(j - 1)
      /\ \A i \in 1..(j - 1) : t[i] = stack[i]
  BY <1>0, <1>1, <1>4, FrontLast, Domains
<1>6. ASSUME NEW k \in DOMAIN stack, k # j, k + 1 # j PROVE KeepsAt(stack, stack', k)
  BY <1>0, <1>1, <1>6, KeepsFront
<1>7. ~Works(stack, entries, j, m)
  BY <1>1, <1>2 DEF Works
<1>8. ASSUME NEW k \in DOMAIN stack, k + 1 = j, Works(stack, entries, k, m)
      PROVE  Settled(stack', entries', m)
  <2>1. k \in 1..(j - 1) /\ k = j - 1 /\ j > 1 /\ k \in DOMAIN t /\ t[k] = stack[k]
    BY <1>2, <1>5, <1>8
  <2>2. Above(stack[k], Top)
    BY <1>0, <1>1, <1>2, <2>1, CallerFrame
  <2>3. stack[k].op = "generate" /\ stack[k].mod = m
    BY <1>8 DEF Works
  <2>4. program.stmts[m][stack[k].next - 1] = Top.fn
    BY <1>1, <2>2, <2>3 DEF Above, Taken, Waiting
  <2>5. ASSUME NEW i \in DOMAIN program.stmts[m], i < t[k].next
        PROVE  Has(entries', m, i)
    <3>1. Has(entries, m, i) \/ i = stack[k].next - 1
      BY <1>8, <2>1, <2>5 DEF Works
    <3>2. CASE Has(entries, m, i)
      BY <1>0, <3>2 DEF HasKept
    <3>3. CASE i = stack[k].next - 1
      BY <1>3, <2>4, <3>3 DEF Has
    <3> QED
      BY <3>1, <3>2, <3>3
  <2>6. Works(t, entries', k, m)
    BY <2>1, <2>3, <2>5 DEF Works
  <2> QED
    BY <1>1, <1>4, <2>1, <2>6 DEF Settled
<1> QED
  BY <1>0, <1>6, <1>7, <1>8, SettledStep

LEMMA StatementsInit == Init => StatementsDone
BY DEF Init, StatementsDone

LEMMA StatementsNext ==
  Types /\ GeneratedOnce /\ StatementsDone /\ [Next]_vars => StatementsDone'
<1> SUFFICES ASSUME Types, GeneratedOnce, StatementsDone, [Next]_vars PROVE StatementsDone'
  OBVIOUS
<1>0. /\ stack \in Seq(Frame) /\ program' = program /\ generated \subseteq Modules
      /\ DOMAIN stack = 1..Len(stack) /\ Len(stack) \in Nat
      /\ \A m \in generated : Settled(stack, entries, m)
  BY ProgramKept, SettledNow, Domains DEF Types, TypeOK
<1>1. ASSUME NEW m \in generated PROVE Settled(stack', entries', m)
  <2>1. m \in Modules /\ Settled(stack, entries, m)
    BY <1>0
  <2>2. CASE KeepsAll(stack, stack')
    <3>1. \A k \in DOMAIN stack : Works(stack, entries, k, m) => KeepsAt(stack, stack', k)
      BY <2>2 DEF KeepsAll, Works
    <3> QED
      BY <2>1, <3>1, HasKeptStep, SettledStep
  <2> QED
    BY <2>1, <2>2, KeepsStep, SettledStatement, SettledDone, SettledFunction
<1>2. ASSUME NEW m \in generated', m \notin generated PROVE Settled(stack', entries', m)
  <2>1. StartsModule
    BY <1>2, Kinds DEF Withdraws, Asks, StartsFunction, Defines
  <2>2. PICK y \in Frame : /\ y.op = "generate" /\ y.next = 1
                           /\ Onto(stack, stack', y)
                           /\ generated' = generated \cup {y.mod}
    BY <2>1 DEF StartsModule
  <2>3. y.mod = m /\ m \in Modules
    BY <1>2, <2>2, FrameFields
  <2>4. Len(stack) + 1 \in DOMAIN stack' /\ stack'[Len(stack) + 1] = y
    BY <1>0, <2>2 DEF Onto
  <2>5. \A i \in DOMAIN program.stmts[m] : ~(i < 1)
    <3>1. TypeOK
      BY DEF Types
    <3> QED
      BY <2>3, <3>1, StatementTypes
  <2>6. Works(stack', entries', Len(stack) + 1, m)
    BY <2>2, <2>3, <2>4, <2>5 DEF Works
  <2> QED
    BY <2>4, <2>6 DEF Settled
<1> QED
  BY <1>0, <1>1, <1>2, SettledNow

-----------------------------------------------------------------------------
\* Without recursion the stack has at most one activation for each module that
\* may be at work, or none, and each thing to do in it

Gens(s, i) == { k \in 1..i : s[k].op = "generate" }
LastGen(s, i) == IF Gens(s, i) = {} THEN 0 ELSE Max(Gens(s, i))
Within(s, i) == IF LastGen(s, i) = 0 THEN NoModule ELSE s[LastGen(s, i)].mod
Work(x) == IF x.op \in {"require", "compile"} THEN <<x.op, x.fn>> ELSE <<"none", NoNode>>
Tasks == ({"require", "compile"} \X Functions) \cup {<<"none", NoNode>>}

DepthBound == (Cardinality(Modules) + 1) * (2 * Cardinality(Functions) + 1)

LEMMA LastGenIs ==
  ASSUME NEW s, NEW i \in Nat \ {0}
  PROVE  /\ LastGen(s, i) \in 0..i
         /\ LastGen(s, i) # 0 => s[LastGen(s, i)].op = "generate"
         /\ \A k \in 1..i : s[k].op = "generate" => k <= LastGen(s, i)
<1>1. Gens(s, i) \in SUBSET Nat /\ \A n \in Gens(s, i) : n <= i
  BY DEF Gens
<1>2. CASE Gens(s, i) = {}
  BY <1>2 DEF Gens, LastGen
<1>3. CASE Gens(s, i) # {}
  <2>1. PICK g : g = Max(Gens(s, i))
    OBVIOUS
  <2>2. g \in Gens(s, i) /\ \A n \in Gens(s, i) : g >= n
    BY <1>1, <1>3, <2>1, MaxIsGreatest
  <2>3. g = LastGen(s, i) /\ g \in 1..i /\ s[g].op = "generate"
    BY <1>3, <2>1, <2>2 DEF LastGen, Gens
  <2>4. \A k \in 1..i : s[k].op = "generate" => k <= g
    <3>1. TAKE k \in 1..i
    <3>2. s[k].op = "generate" => g >= k
      BY <2>2 DEF Gens
    <3> QED
      BY <2>3, <3>2
  <2>5. g \in 0..i
    BY <2>3
  <2> QED
    BY <2>3, <2>4, <2>5
<1> QED
  BY <1>2, <1>3

LEMMA SameLabel ==
  ASSUME NEW s, Path(s), NEW made, Once(s, made),
         NEW i \in 1..Len(s), NEW j \in 1..Len(s), i < j,
         Within(s, i) = Within(s, j), Work(s[i]) = Work(s[j])
  PROVE  \E f \in Functions : Recursive(f)
<1>1. s \in Seq(Frame) /\ TypeOK /\ Len(s) \in Nat /\ DOMAIN s = 1..Len(s)
  BY Domains DEF Path
<1> DEFINE p == LastGen(s, i)
           q == LastGen(s, j)
<1>2. i \in Nat \ {0} /\ j \in Nat \ {0} /\ 1..i \subseteq 1..j /\ 1..j \subseteq 1..Len(s)
  BY <1>1
<1>3. /\ p \in 0..i /\ (p # 0 => s[p].op = "generate")
      /\ q \in 0..j /\ (q # 0 => s[q].op = "generate")
      /\ \A k \in 1..j : s[k].op = "generate" => k <= q
  BY <1>2, LastGenIs
<1>4. Within(s, i) = IF p = 0 THEN NoModule ELSE s[p].mod
  BY DEF Within
<1>5. Within(s, j) = IF q = 0 THEN NoModule ELSE s[q].mod
  BY DEF Within
<1> HIDE DEF p, q
<1>6. \A g \in 1..Len(s) : s[g].op = "generate" => s[g].mod \in Modules
  BY <1>1, ElementOfSeq, FrameFields
<1>7. p = q
  <2>1. p = 0 <=> q = 0
    <3>1. p # 0 => p \in 1..Len(s)
      BY <1>2, <1>3
    <3>2. q # 0 => q \in 1..Len(s)
      BY <1>2, <1>3
    <3> QED
      BY <1>3, <1>4, <1>5, <1>6, <3>1, <3>2, ConstantsAssumption
  <2>2. CASE p # 0
    <3>1. p \in 1..j /\ p \in DOMAIN s /\ q \in DOMAIN s /\ p <= q
      <4>1. p \in 1..i /\ q \in 1..j
        BY <1>2, <1>3, <2>1, <2>2
      <4>2. p \in 1..j
        BY <1>2, <4>1
      <4> QED
        BY <1>1, <1>2, <1>3, <2>2, <4>1, <4>2
    <3>2. s[p].mod = s[q].mod /\ s[p].op = "generate" /\ s[q].op = "generate"
      BY <1>3, <1>4, <1>5, <2>1, <2>2
    <3>3. ~(p < q)
      BY <3>1, <3>2 DEF Once, Fills
    <3> QED
      BY <1>3, <3>1, <3>3
  <2> QED
    BY <2>1, <2>2
<1>8. \A k \in 1..j : k > i => s[k].op # "generate"
  BY <1>2, <1>3, <1>7
<1>9. s[i] \in Frame /\ s[j] \in Frame
  BY <1>1, ElementOfSeq
<1>10. s[j].op \in {"require", "compile"}
  <2>1. j - 1 \in Nat \ {0} /\ j - 1 < Len(s) /\ (j - 1) + 1 = j /\ j \in 1..j
    BY <1>1, <1>2
  <2>2. s[j].op \in {"require", "generate", "compile"}
    BY <2>1, PathStep
  <2> QED
    BY <1>8, <2>1, <2>2
<1>11. s[i].op \in {"require", "compile"} /\ s[j].op = s[i].op /\ s[j].fn = s[i].fn
  <2>1. Work(s[j]) = <<s[j].op, s[j].fn>>
    BY <1>10 DEF Work
  <2>2. s[j].op # "none"
    BY <1>10
  <2>3. s[i].op \in {"require", "compile"}
    <3>1. CASE s[i].op \notin {"require", "compile"}
      <4>1. <<s[j].op, s[j].fn>> = <<"none", NoNode>>
        BY <2>1, <3>1 DEF Work
      <4> QED
        BY <2>2, <4>1
    <3> QED
      BY <3>1
  <2>4. <<s[j].op, s[j].fn>> = <<s[i].op, s[i].fn>>
    BY <2>1, <2>3 DEF Work
  <2> QED
    BY <2>3, <2>4
<1>12. \A k \in i..j : s[k].op # "generate"
  <2>1. \A k \in i..j : k \in 1..j /\ (k = i \/ k > i)
    BY <1>2
  <2>2. s[i].op # "generate"
    BY <1>11
  <2> QED
    BY <1>8, <2>1, <2>2
<1>13. Recursive(s[i].fn)
  BY <1>11, <1>12, PathRecursive
<1> QED
  BY <1>9, <1>11, <1>13, FrameFields

LEMMA DeepIsRecursive ==
  ASSUME IsFiniteSet(Modules), IsFiniteSet(Functions),
         NEW s, Path(s), NEW made, Once(s, made), Len(s) > DepthBound
  PROVE  \E f \in Functions : Recursive(f)
<1>1. s \in Seq(Frame) /\ TypeOK /\ Len(s) \in Nat /\ DOMAIN s = 1..Len(s)
  BY Domains DEF Path
<1> DEFINE M == Modules \cup {NoModule}
           Label == [i \in 1..Len(s) |-> <<Within(s, i), Work(s[i])>>]
<1>2. IsFiniteSet(M) /\ Cardinality(M) = Cardinality(Modules) + 1
  BY FS_AddElement, ConstantsAssumption
<1>3. IsFiniteSet(Tasks) /\ Cardinality(Tasks) = 2 * Cardinality(Functions) + 1
  <2> DEFINE K == {"require", "compile"}
             P == K \X Functions
  <2>1. IsFiniteSet({"require"}) /\ Cardinality({"require"}) = 1
    BY FS_Singleton
  <2>2. IsFiniteSet({"require"} \cup {"compile"})
        /\ Cardinality({"require"} \cup {"compile"}) = 2
    <3>1. PICK A : A = {"require"}
      OBVIOUS
    <3>2. IsFiniteSet(A) /\ Cardinality(A) = 1 /\ "compile" \notin A
      BY <2>1, <3>1
    <3>3. IsFiniteSet(A \cup {"compile"}) /\ Cardinality(A \cup {"compile"}) = Cardinality(A) + 1
      BY <3>2, FS_AddElement
    <3>4. Cardinality(A \cup {"compile"}) = 2
      BY <3>2, <3>3
    <3> QED
      BY <3>1, <3>3, <3>4
  <2>3. {"require"} \cup {"compile"} = K
    OBVIOUS
  <2>4. IsFiniteSet(K) /\ Cardinality(K) = 2
    BY <2>2, <2>3
  <2>5. IsFiniteSet(P) /\ Cardinality(P) = 2 * Cardinality(Functions)
    BY <2>4, FS_Product
  <2>6. <<"none", NoNode>> \notin P
    OBVIOUS
  <2> HIDE DEF P, K
  <2>7. /\ IsFiniteSet(P \cup {<<"none", NoNode>>})
        /\ Cardinality(P \cup {<<"none", NoNode>>}) = Cardinality(P) + 1
    BY <2>5, <2>6, FS_AddElement
  <2>8. Tasks = P \cup {<<"none", NoNode>>}
    BY DEF Tasks, P, K
  <2> QED
    BY <2>5, <2>7, <2>8
<1>4. IsFiniteSet(M \X Tasks) /\ Cardinality(M \X Tasks) = DepthBound
  BY <1>2, <1>3, FS_Product DEF DepthBound
<1>5. IsFiniteSet(1..Len(s)) /\ Cardinality(1..Len(s)) = Len(s)
  <2>1. 1 \in Int /\ Len(s) \in Int /\ (1 > Len(s) => Len(s) = 0) /\ Len(s) - 1 + 1 = Len(s)
    BY <1>1
  <2> QED
    BY <2>1, FS_Interval
<1>6. \A i \in 1..Len(s) : Within(s, i) \in M /\ Work(s[i]) \in Tasks
  <2>1. TAKE i \in 1..Len(s)
  <2>2. s[i] \in Frame /\ i \in Nat \ {0}
    BY <1>1, ElementOfSeq
  <2>3. Work(s[i]) \in Tasks
    BY <2>2, FrameFields DEF Work, Tasks
  <2>4. PICK g : g = LastGen(s, i)
    OBVIOUS
  <2>5. g \in 0..i /\ (g # 0 => s[g].op = "generate")
    BY <2>2, <2>4, LastGenIs
  <2>6. CASE g # 0
    <3>1. g \in 1..Len(s)
      BY <1>1, <2>2, <2>5, <2>6
    <3>2. s[g] \in Frame
      BY <1>1, <3>1, ElementOfSeq
    <3>3. s[g].mod \in Modules
      BY <2>5, <2>6, <3>2, FrameFields
    <3> QED
      BY <2>3, <2>4, <2>6, <3>3 DEF Within
  <2> QED
    BY <2>3, <2>4, <2>6 DEF Within
<1>7. Label \in [1..Len(s) -> M \X Tasks]
  BY <1>6
<1> HIDE DEF M
<1>8. Cardinality(M \X Tasks) < Cardinality(1..Len(s))
  BY <1>1, <1>2, <1>3, <1>4, <1>5, FS_CardinalityType
<1>9. PICK x, y \in 1..Len(s) : x # y /\ Label[x] = Label[y]
  <2> HIDE DEF Label
  <2> QED
    BY <1>4, <1>5, <1>7, <1>8, FS_PigeonHole
<1>10. /\ <<Within(s, x), Work(s[x])>> = <<Within(s, y), Work(s[y])>>
  BY <1>9
<1>11. Within(s, x) = Within(s, y) /\ Work(s[x]) = Work(s[y])
  BY <1>10
<1>12. x < y \/ y < x
  BY <1>1, <1>9
<1> QED
  BY <1>11, <1>12, SameLabel

-----------------------------------------------------------------------------
\* The inductive invariant as a whole

LEMMA InductiveParts ==
  Inductive <=> /\ Types /\ NoRecursion /\ Links /\ StatementsDone
                /\ NamedEntries /\ CodeMade /\ GeneratedOnce /\ NotYetDefined
                /\ Straight /\ Solo
BY DEF Inductive, Types, NoRecursion, Links, Straight, Solo

LEMMA InductiveInit == Init => Inductive
<1> SUFFICES ASSUME Init PROVE Inductive
  OBVIOUS
<1>1. NamedEntries /\ CodeMade /\ GeneratedOnce
  BY EmptySeq DEF Init, NamedEntries, CodeMade, GeneratedOnce
<1> QED
  BY <1>1, TypesInit, NoRecursionInit, LinksInit, StatementsInit, NotYetInit, StraightInit,
     SoloInit, InductiveParts

LEMMA InductiveNext == Inductive /\ [Next]_vars => Inductive'
<1> SUFFICES ASSUME Inductive, [Next]_vars PROVE Inductive'
  OBVIOUS
<1>1. /\ Types /\ NoRecursion /\ Links /\ StatementsDone
      /\ NamedEntries /\ CodeMade /\ GeneratedOnce /\ NotYetDefined
      /\ Straight /\ Solo
  BY InductiveParts
<1>2. Types' /\ NoRecursion' /\ Links' /\ StatementsDone'
  BY <1>1, TypesNext, NoRecursionNext, LinksNext, StatementsNext
<1>3. NamedEntries' /\ CodeMade' /\ GeneratedOnce' /\ NotYetDefined'
  BY <1>1, NamedNext, CodeMadeNext, OnceNext, NotYetNext
<1>4. Straight' /\ Solo'
  BY <1>1, StraightNext, SoloNext
<1> QED
  BY <1>2, <1>3, <1>4 DEF Inductive, Types, NoRecursion, Links, Straight, Solo

\* Every reachable state of the compiler, for every program, satisfies the
\* inductive invariant: the shape of the native stack and what each activation
\* on it has achieved.
THEOREM AlwaysInductive == Spec => []Inductive
BY InductiveInit, InductiveNext, PTL DEF Spec

\* A program that defines every callee before its callers, in the same module,
\* is compiled completely: one block for each function, with its own calls in
\* order and one return, and the JIT runs exactly that.
THEOREM OrderedCodeIsWhole == Spec => []OrderedProgramsAreWhole
<1>1. Inductive => OrderedProgramsAreWhole
  BY DEF Inductive
<1> QED
  BY <1>1, AlwaysInductive, PTL

\* `if (_ir) return' in LlvmModule::generate shows a module to re-entrant
\* callers before its loop has ended, yet when the outermost operation returns,
\* whatever imports whatever, each generated module has all its entries.
THEOREM GeneratedModulesAreComplete == Spec => []GeneratedMeansComplete
<1>1. Inductive => GeneratedMeansComplete
  <2> SUFFICES ASSUME Inductive, stack = <<>> PROVE GeneratedMeansComplete
    BY DEF GeneratedMeansComplete
  <2>1. StatementsDone /\ DOMAIN stack = {}
    BY EmptySeq DEF Inductive
  <2> QED
    BY <2>1 DEF StatementsDone, Bound, GeneratedMeansComplete
<1> QED
  BY <1>1, AlwaysInductive, PTL

-----------------------------------------------------------------------------
\* How the process can die

Deep == IsFiniteSet(Functions) /\ IsFiniteSet(Modules) /\ MaxDepth > DepthBound

\* The names under which DeathHasCause lists its causes
Cause(how) ==
  CASE how = "overflow" -> \E f \in Functions : Recursive(f)
    [] how = "redefined" -> ImportCycle \/ SharedName
    [] how = "null-proto" -> Top.fn \in program.opaque
    [] how = "assert" -> SharedName
    [] how = "null-entry" -> /\ Top.op = "lookup"
                             /\ \A f \in Functions :
                                  NameOf(f) = Top.name => Position(f) = {}
    [] OTHER -> TRUE

LEMMA CausesNext ==
  ASSUME program' = program, stack' = stack
  PROVE  DeathHasCause' <=> Cause(status')
<1>1. \A f : NameOf(f)' = NameOf(f) /\ (Recursive(f)' <=> Recursive(f))
  BY NeedsStep
<1>2. (ImportCycle' <=> ImportCycle) /\ (SharedName' <=> SharedName)
  BY CausesStep
<1>3. (\A f : Position(f)' = Position(f)) /\ Top' = Top
  BY DEF Position, Top
<1> QED
  BY <1>1, <1>2, <1>3 DEF DeathHasCause, Cause

\* Once the process has died nothing changes
LEMMA DeadStays ==
  ASSUME [Next]_vars, status' = status, status # "ok"
  PROVE  stack' = stack
<1>0. ~CanRun /\ \A op : ~Running(op)
  BY DEF CanRun, Running
<1>1. CASE \/ (\E f \in Functions : Demand(f)) \/ (\E n \in Name : DemandLookup(n))
           \/ \E m \in Modules : GenerateModule(m)
           \/ GenerateDone \/ RequireMiss \/ FinishLlvmCall \/ FinishLlvmIr
           \/ CallSite \/ FinishCallSite \/ RuntimeCallSite \/ UnsupportedNode
           \/ LocalFunction \/ FinishFunction \/ FinishLocalFunction
           \/ GenerateStatement \/ FinishLookup
  BY <1>0, <1>1 DEF Demand, DemandLookup, GenerateModule, GenerateDone, RequireMiss,
       FinishLlvmCall, FinishLlvmIr, CallSite, FinishCallSite, RuntimeCallSite,
       UnsupportedNode, LocalFunction, FinishFunction, FinishLocalFunction,
       GenerateStatement, FinishLookup, Hit, Requiring, AtSite, AtReturn
<1>2. CASE RequireClash \/ NullPrototype \/ RedefineEntry \/ Overflow
  BY <1>2 DEF RequireClash, NullPrototype, RedefineEntry, Overflow, Die
<1>3. CASE UNCHANGED vars
  BY <1>3 DEF vars
<1> QED
  BY <1>1, <1>2, <1>3 DEF Next, Step, Dead

LEMMA EndKinds ==
  ASSUME [Next]_vars, status' # status
  PROVE  stack' = stack /\
         \/ Overflow /\ status' = "overflow"
         \/ RedefineEntry /\ status' = "redefined"
         \/ NullPrototype /\ status' = "null-proto"
         \/ RequireClash /\ status' = "assert"
         \/ /\ Running("generate") /\ Top.next <= Len(program.stmts[Top.mod])
            /\ entries[NameOf(program.stmts[Top.mod][Top.next])]
                 \notin {NoNode, program.stmts[Top.mod][Top.next]}
            /\ status' = "assert"
         \/ /\ Running("lookup") /\ Top.name[2] \in generated
            /\ entries[Top.name] = NoNode /\ status' = "null-entry"
<1>1. CASE \/ (\E f \in Functions : Demand(f)) \/ (\E n \in Name : DemandLookup(n))
           \/ \E m \in Modules : GenerateModule(m)
           \/ GenerateDone \/ RequireMiss \/ FinishLlvmCall \/ FinishLlvmIr
           \/ CallSite \/ FinishCallSite \/ RuntimeCallSite \/ UnsupportedNode
           \/ LocalFunction \/ FinishFunction \/ FinishLocalFunction
           \/ UNCHANGED vars
  BY <1>1 DEF Demand, DemandLookup, GenerateModule, GenerateDone, RequireMiss,
       FinishLlvmCall, FinishLlvmIr, CallSite, FinishCallSite, RuntimeCallSite,
       UnsupportedNode, LocalFunction, FinishFunction, FinishLocalFunction, vars
<1>2. CASE GenerateStatement
  BY <1>2 DEF GenerateStatement, Die
<1>3. CASE FinishLookup
  BY <1>3 DEF FinishLookup, Die
<1>4. CASE RequireClash \/ NullPrototype \/ RedefineEntry \/ Overflow
  BY <1>4 DEF RequireClash, NullPrototype, RedefineEntry, Overflow, Die
<1> QED
  BY <1>1, <1>2, <1>3, <1>4 DEF Next, Step, Dead

LEMMA ClashIsShared ==
  ASSUME TypeOK, NamedEntries, NEW f \in Functions, entries[NameOf(f)] \notin {NoNode, f}
  PROVE  SharedName
<1>1. NameOf(f) \in Name /\ entries[NameOf(f)] \in Functions \cup {NoNode}
  BY ProgramTypes DEF TypeOK
<1>2. PICK g : g = entries[NameOf(f)]
  OBVIOUS
<1>3. g \in Functions /\ g # f /\ NameOf(g) = NameOf(f)
  BY <1>1, <1>2 DEF NamedEntries
<1> QED
  BY <1>3 DEF SharedName

LEMMA MissingPrototype ==
  ASSUME Types, CodeMade, NullPrototype
  PROVE  Top.fn \in program.opaque
<1>1. TypeOK /\ stack # <<>> /\ Top.op = "require" /\ entries[NameOf(Top.fn)] = Top.fn
      /\ code[NameOf(Top.fn)] = <<>>
  BY DEF NullPrototype, Hit, Requiring, Running, Types
<1>2. Top.fn \in Functions /\ NameOf(Top.fn) \in Name
  BY <1>1, TopTypes, FrameFields, ProgramTypes
<1>3. Top.fn # NoNode
  BY <1>2, ConstantsAssumption
<1>4. Top.fn \in program.opaque
  BY <1>1, <1>2, <1>3 DEF CodeMade
<1> QED
  BY <1>4

LEMMA MissingEntry ==
  ASSUME Types, StatementsDone, Running("lookup"), Top.name[2] \in generated,
         entries[Top.name] = NoNode
  PROVE  \A f \in Functions : NameOf(f) = Top.name => Position(f) = {}
<1>1. TypeOK /\ stack \in Seq(Frame) /\ Shape(stack) /\ stack # <<>> /\ Top.op = "lookup"
      /\ Top = Last(stack)
  BY DEF Types, TypeOK, StackShape, Running, Top
<1>2. Top \in Frame /\ Top.name \in Name /\ Len(stack) \in Nat \ {0} /\ Top = stack[Len(stack)]
  BY <1>1, TopTypes, FrameFields
<1>3. Len(stack) = 1
  <2>1. Len(stack) > 1 => Above(Last(Front(stack)), Top)
    BY <1>1, CallerFrame
  <2>2. ~Above(Last(Front(stack)), Top)
    BY <1>1 DEF Above
  <2>3. \A k \in Nat \ {0} : ~(k > 1) => k = 1
    OBVIOUS
  <2> QED
    BY <1>2, <2>1, <2>2, <2>3
<1>4. \A k \in DOMAIN stack : stack[k].op # "generate"
  <2>1. DOMAIN stack = 1..1
    BY <1>1, <1>3, Domains
  <2>2. \A k \in 1..1 : k = Len(stack)
    BY <1>3
  <2> QED
    BY <1>1, <1>2, <2>1, <2>2
<1>5. \A i \in DOMAIN program.stmts[Top.name[2]] : Bound(Top.name[2], i)
  BY <1>4 DEF StatementsDone
<1>6. ASSUME NEW f \in Functions, NameOf(f) = Top.name PROVE Position(f) = {}
  <2>1. program.home[f] = Top.name[2] /\ f # NoNode
    BY <1>6, ConstantsAssumption DEF NameOf
  <2>2. ASSUME NEW i \in DOMAIN program.stmts[program.home[f]],
               program.stmts[program.home[f]][i] = f
        PROVE  FALSE
    <3>1. Bound(program.home[f], i)
      BY <1>5, <2>1
    <3>2. entries[NameOf(f)] = f
      BY <2>2, <3>1 DEF Bound
    <3> QED
      BY <1>6, <2>1, <3>2
  <2> QED
    BY <2>2 DEF Position
<1> QED
  BY <1>6

LEMMA OverflowIsRecursion ==
  ASSUME Types, CodeMade, GeneratedOnce, Deep, Overflow
  PROVE  \E f \in Functions : Recursive(f)
<1>1. Path(stack) /\ Once(stack, generated)
  BY StackPath, OnceNow
<1>2. stack \in Seq(Frame) /\ Len(stack) \in Nat /\ Len(stack) >= MaxDepth
  BY Domains DEF Types, TypeOK, Overflow
<1>3. IsFiniteSet(Functions) /\ IsFiniteSet(Modules) /\ MaxDepth \in Nat /\ MaxDepth > DepthBound
  BY ConstantsAssumption DEF Deep
<1>4. DepthBound \in Nat
  BY <1>3, FS_CardinalityType DEF DepthBound
<1>5. Len(stack) > DepthBound
  BY <1>2, <1>3, <1>4
<1> QED
  BY <1>1, <1>3, <1>5, DeepIsRecursive

LEMMA RedefinedHasCause ==
  ASSUME Types, NotYetDefined, RedefineEntry
  PROVE  ImportCycle \/ SharedName
<1>1. TypeOK /\ stack # <<>> /\ Top.op = "compile" /\ Top.entry /\ entries[NameOf(Top.fn)] # NoNode
  BY DEF Types, RedefineEntry, AtReturn, Running
<1>2. Len(stack) \in DOMAIN stack /\ Top = stack[Len(stack)]
  BY <1>1, TopTypes
<1> QED
  BY <1>1, <1>2 DEF NotYetDefined

LEMMA DeathNext ==
  ASSUME Deep, Inductive, DeathHasCause, [Next]_vars
  PROVE  DeathHasCause'
<1>0. /\ Types /\ TypeOK /\ NoRecursion /\ StatementsDone /\ program' = program
      /\ NamedEntries /\ CodeMade /\ GeneratedOnce /\ NotYetDefined
  BY InductiveParts, ProgramKept DEF Types
<1> SUFFICES ASSUME stack' = stack PROVE DeathHasCause'
  <2>1. CASE status' = "ok"
    BY <2>1 DEF DeathHasCause
  <2>2. CASE status' # "ok"
    BY <2>2, EndKinds, DeadStays
  <2> QED
    BY <2>1, <2>2
<1>1. DeathHasCause' <=> Cause(status')
  BY <1>0, CausesNext
<1>2. CASE status' = status
  BY <1>1, <1>2 DEF DeathHasCause, Cause
<1>3. CASE Overflow /\ status' = "overflow"
  BY <1>0, <1>1, <1>3, OverflowIsRecursion DEF Cause
<1>4. CASE RedefineEntry /\ status' = "redefined"
  BY <1>0, <1>1, <1>4, RedefinedHasCause DEF Cause
<1>5. CASE NullPrototype /\ status' = "null-proto"
  BY <1>0, <1>1, <1>5, MissingPrototype DEF Cause
<1>6. CASE RequireClash /\ status' = "assert"
  <2>1. stack # <<>> /\ Top.op = "require" /\ entries[NameOf(Top.fn)] \notin {NoNode, Top.fn}
    BY <1>6 DEF RequireClash, Requiring, Running
  <2>2. Top.fn \in Functions
    BY <1>0, <2>1, TopTypes, FrameFields
  <2> QED
    BY <1>0, <1>1, <1>6, <2>1, <2>2, ClashIsShared DEF Cause
<1>7. CASE /\ Running("generate") /\ Top.next <= Len(program.stmts[Top.mod])
           /\ entries[NameOf(program.stmts[Top.mod][Top.next])]
                \notin {NoNode, program.stmts[Top.mod][Top.next]}
           /\ status' = "assert"
  <2>1. program.stmts[Top.mod][Top.next] \in Functions
    BY <1>0, <1>7, TakenNow
  <2> QED
    BY <1>0, <1>1, <1>7, <2>1, ClashIsShared DEF Cause
<1>8. CASE /\ Running("lookup") /\ Top.name[2] \in generated
           /\ entries[Top.name] = NoNode /\ status' = "null-entry"
  <2>1. Top.op = "lookup" /\ \A f \in Functions : NameOf(f) = Top.name => Position(f) = {}
    BY <1>0, <1>8, MissingEntry DEF Running
  <2> QED
    BY <1>1, <1>8, <2>1 DEF Cause
<1> QED
  BY <1>2, <1>3, <1>4, <1>5, <1>6, <1>7, <1>8, EndKinds

\* The process dies in the compiler only for a cause in the program: recursion,
\* an import cycle, two functions of one name, a function whose signature was
\* rejected, or the lookup of a name that no statement of its module binds.  The native stack is assumed to hold one
\* activation for each module at work, or none, and each thing to do in it: a
\* smaller one would overflow without recursion.
THEOREM DeathsHaveCauses ==
  ASSUME IsFiniteSet(Functions), IsFiniteSet(Modules),
         MaxDepth > (Cardinality(Modules) + 1) * (2 * Cardinality(Functions) + 1)
  PROVE  Spec => []DeathHasCause
<1>1. Deep
  BY DEF Deep, DepthBound
<1>2. Init => DeathHasCause
  BY DEF Init, DeathHasCause
<1>3. Inductive /\ DeathHasCause /\ [Next]_vars => DeathHasCause'
  BY <1>1, DeathNext
<1> QED
  BY <1>2, <1>3, AlwaysInductive, PTL DEF Spec
=============================================================================
