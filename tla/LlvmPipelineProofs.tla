------------------------- MODULE LlvmPipelineProofs -------------------------
(***************************************************************************)
(* Theorems about LlvmPipeline, for every program and every bound.         *)
(***************************************************************************)
EXTENDS LlvmPipelineInv, SequenceTheorems, TLAPS

-----------------------------------------------------------------------------
\* What the operations on the native stack return

LEMMA FrontLast ==
  ASSUME NEW S, NEW s \in Seq(S), s # <<>>
  PROVE  /\ Len(s) \in Nat \ {0}
         /\ Last(s) = s[Len(s)] /\ Last(s) \in S
         /\ Front(s) \in Seq(S)
         /\ Len(Front(s)) = Len(s) - 1
         /\ \A i \in 1..(Len(s) - 1) : Front(s)[i] = s[i]
<1>1. Len(s) \in Nat \ {0}
  BY EmptySeq
<1>2. Last(s) = s[Len(s)] /\ Last(s) \in S
  BY <1>1, ElementOfSeq DEF Last
<1>3. /\ Front(s) \in Seq(S)
      /\ Len(Front(s)) = Len(s) - 1
      /\ \A i \in 1..(Len(s) - 1) : Front(s)[i] = s[i]
  <2>1. \A i \in 1..(Len(s) - 1) : s[i] \in S
    BY <1>1, ElementOfSeq
  <2> DEFINE n == Len(s) - 1
  <2>2. n \in Int /\ 1 \in Int /\ \A i \in 1..n : s[i] \in S
    BY <1>1, <2>1
  <2> HIDE DEF n
  <2>3. /\ SubSeq(s, 1, n) \in Seq(S)
        /\ Len(SubSeq(s, 1, n)) = IF 1 <= n THEN n - 1 + 1 ELSE 0
        /\ \A i \in 1..(n - 1 + 1) : SubSeq(s, 1, n)[i] = s[1 + i - 1]
    BY <2>2, SubSeqProperties
  <2>4. Front(s) = SubSeq(s, 1, n) /\ n = Len(s) - 1
    BY DEF Front, n
  <2>5. n \in Nat /\ n - 1 + 1 = n /\ \A i \in 1..n : 1 + i - 1 = i
    BY <1>1, <2>4
  <2> DEFINE t == SubSeq(s, 1, n)
  <2> HIDE DEF t
  <2>6. t \in Seq(S) /\ Len(t) = n /\ \A i \in 1..n : t[i] = s[i]
    BY <2>3, <2>5 DEF t
  <2> QED
    BY <2>4, <2>6 DEF t
<1> QED
  BY <1>1, <1>2, <1>3

LEMMA FrameFields ==
  ASSUME NEW x \in Frame
  PROVE  /\ x.op \in {"require", "lookup", "generate", "compile"}
         /\ x.op = "require" => x.fn \in Functions
         /\ x.op = "lookup" => x.name \in Name
         /\ x.op = "generate" => x.mod \in Modules /\ x.next \in Nat \ {0}
         /\ x.op = "compile" => /\ x.fn \in Functions
                                /\ x.site \in Nat \ {0}
                                /\ x.entry \in BOOLEAN
BY DEF Frame

LEMMA AdvanceFrame ==
  ASSUME NEW x \in Frame
  PROVE  /\ x.op = "compile" =>
              LET y == [x EXCEPT !.site = @ + 1]
              IN  /\ y \in Frame /\ y.op = x.op /\ y.fn = x.fn
                  /\ y.entry = x.entry /\ y.site = x.site + 1
         /\ x.op = "generate" =>
              LET y == [x EXCEPT !.next = @ + 1]
              IN  /\ y \in Frame /\ y.op = x.op /\ y.mod = x.mod
                  /\ y.next = x.next + 1
BY DEF Frame

LEMMA Advanced ==
  ASSUME NEW s \in Seq(Frame), s # <<>>
  PROVE  /\ Last(s).op = "compile" =>
              /\ AdvancedSite(s) \in Seq(Frame)
              /\ Len(AdvancedSite(s)) = Len(s)
              /\ \A i \in 1..(Len(s) - 1) : AdvancedSite(s)[i] = s[i]
              /\ Last(AdvancedSite(s)) = [Last(s) EXCEPT !.site = @ + 1]
         /\ Last(s).op = "generate" =>
              /\ AdvancedStatement(s) \in Seq(Frame)
              /\ Len(AdvancedStatement(s)) = Len(s)
              /\ \A i \in 1..(Len(s) - 1) : AdvancedStatement(s)[i] = s[i]
              /\ Last(AdvancedStatement(s)) = [Last(s) EXCEPT !.next = @ + 1]
<1>1. Len(s) \in 1..Len(s) /\ Last(s) = s[Len(s)] /\ Last(s) \in Frame
  BY FrontLast
<1>2. CASE Last(s).op = "compile"
  <2>1. [Last(s) EXCEPT !.site = @ + 1] \in Frame
    BY <1>1, <1>2, AdvanceFrame
  <2> DEFINE y == [Last(s) EXCEPT !.site = @ + 1]
  <2>2. AdvancedSite(s) = [s EXCEPT ![Len(s)] = y]
    BY <1>1 DEF AdvancedSite
  <2> HIDE DEF y
  <2>3. y \in Frame
    BY <2>1 DEF y
  <2>4. /\ [s EXCEPT ![Len(s)] = y] \in Seq(Frame)
        /\ Len([s EXCEPT ![Len(s)] = y]) = Len(s)
        /\ \A j \in 1..Len(s) : [s EXCEPT ![Len(s)] = y][j] =
                                  IF j = Len(s) THEN y ELSE s[j]
    BY <1>1, <2>3, ExceptSeq
  <2>5. Last(AdvancedSite(s)) = y
    BY <1>1, <2>2, <2>4 DEF Last
  <2> QED
    BY <1>1, <1>2, <2>2, <2>4, <2>5 DEF y
<1>3. CASE Last(s).op = "generate"
  <2>1. [Last(s) EXCEPT !.next = @ + 1] \in Frame
    BY <1>1, <1>3, AdvanceFrame
  <2> DEFINE y == [Last(s) EXCEPT !.next = @ + 1]
  <2>2. AdvancedStatement(s) = [s EXCEPT ![Len(s)] = y]
    BY <1>1 DEF AdvancedStatement
  <2> HIDE DEF y
  <2>3. y \in Frame
    BY <2>1 DEF y
  <2>4. /\ [s EXCEPT ![Len(s)] = y] \in Seq(Frame)
        /\ Len([s EXCEPT ![Len(s)] = y]) = Len(s)
        /\ \A j \in 1..Len(s) : [s EXCEPT ![Len(s)] = y][j] =
                                  IF j = Len(s) THEN y ELSE s[j]
    BY <1>1, <2>3, ExceptSeq
  <2>5. Last(AdvancedStatement(s)) = y
    BY <1>1, <2>2, <2>4 DEF Last
  <2> QED
    BY <1>1, <1>3, <2>2, <2>4, <2>5 DEF y
<1> QED
  BY <1>2, <1>3

-----------------------------------------------------------------------------
\* How pushes, pops and advances keep the shape of the stack

LEMMA PushShape ==
  ASSUME NEW s \in Seq(Frame), NEW y \in Frame, Shape(s),
         IF s = <<>> THEN Bottom(y) ELSE Above(Last(s), y)
  PROVE  Append(s, y) \in Seq(Frame) /\ Shape(Append(s, y))
<1> DEFINE t == Append(s, y)
<1>1. /\ t \in Seq(Frame) /\ t # <<>> /\ Len(t) = Len(s) + 1
      /\ \A i \in 1..Len(s) : t[i] = s[i]
      /\ t[Len(s) + 1] = y /\ Len(s) \in Nat
  BY AppendProperties, LenProperties
<1>2. CASE s = <<>>
  BY <1>1, <1>2, EmptySeq DEF Shape
<1>3. CASE s # <<>>
  <2>1. Len(s) \in Nat \ {0} /\ Last(s) = s[Len(s)]
    BY <1>3, FrontLast
  <2>2. t[1] = s[1] /\ Bottom(s[1])
    BY <1>1, <1>3, <2>1 DEF Shape
  <2>3. ASSUME NEW i \in 2..Len(t)
        PROVE  Above(t[i - 1], t[i])
    <3>1. CASE i \in 2..Len(s)
      <4>1. i - 1 \in 1..Len(s) /\ i \in 1..Len(s)
        BY <3>1, <1>1
      <4> QED
        BY <4>1, <3>1, <1>1 DEF Shape
    <3>2. CASE i = Len(s) + 1
      BY <3>2, <2>1, <1>1, <1>3
    <3> QED
      BY <3>1, <3>2, <1>1
  <2> QED
    BY <1>1, <2>2, <2>3 DEF Shape
<1> QED
  BY <1>2, <1>3

LEMMA PopShape ==
  ASSUME NEW s \in Seq(Frame), s # <<>>, Shape(s)
  PROVE  Front(s) \in Seq(Frame) /\ Shape(Front(s))
<1> DEFINE t == Front(s)
<1>1. /\ t \in Seq(Frame) /\ Len(t) = Len(s) - 1 /\ Len(s) \in Nat \ {0}
      /\ \A i \in 1..(Len(s) - 1) : t[i] = s[i]
  BY FrontLast
<1> HIDE DEF t
<1>2. t # <<>> => Bottom(t[1])
  <2> SUFFICES ASSUME t # <<>> PROVE Bottom(t[1])
    OBVIOUS
  <2>1. Len(t) \in Nat \ {0}
    BY <1>1, EmptySeq
  <2> QED
    BY <1>1, <2>1 DEF Shape
<1>3. ASSUME NEW i \in 2..Len(t)
      PROVE  Above(t[i - 1], t[i])
  <2>1. /\ i - 1 \in 1..(Len(s) - 1) /\ i \in 1..(Len(s) - 1)
        /\ i \in 2..Len(s)
    BY <1>1
  <2> QED
    BY <1>1, <2>1 DEF Shape
<1> QED
  BY <1>1, <1>2, <1>3 DEF Shape, t

\* Advancing the innermost activation: the ones below do not see it
LEMMA AdvanceShape ==
  ASSUME NEW s \in Seq(Frame), NEW t \in Seq(Frame), s # <<>>, Shape(s),
         Len(t) = Len(s), \A i \in 1..(Len(s) - 1) : t[i] = s[i],
         Last(t).op = Last(s).op, Last(s).op \in {"compile", "generate"},
         Last(s).op = "compile" => /\ Last(t).fn = Last(s).fn
                                   /\ Last(t).entry = Last(s).entry,
         Last(s).op = "generate" => Last(t).mod = Last(s).mod
  PROVE  Shape(t)
<1>1. Len(s) \in Nat \ {0} /\ Last(s) = s[Len(s)] /\ Last(t) = t[Len(s)]
  BY FrontLast DEF Last
<1>2. s[1].op # "compile" /\ s[1].op # "generate"
  BY DEF Shape, Bottom
<1>3. Len(s) # 1
  BY <1>1, <1>2
<1>4. Bottom(t[1])
  BY <1>1, <1>3 DEF Shape
<1>5. ASSUME NEW i \in 2..Len(s)
      PROVE  Above(t[i - 1], t[i])
  <2>1. Above(s[i - 1], s[i])
    BY DEF Shape
  <2>2. i - 1 \in 1..(Len(s) - 1) /\ t[i - 1] = s[i - 1]
    BY <1>1
  <2>3. CASE i < Len(s)
    BY <2>1, <2>2, <2>3, <1>1
  <2>4. CASE i = Len(s)
    BY <2>1, <2>2, <2>4, <1>1 DEF Above
  <2> QED
    BY <2>3, <2>4, <1>1
<1> QED
  BY <1>4, <1>5 DEF Shape

LEMMA AdvanceSiteShape ==
  ASSUME NEW s \in Seq(Frame), s # <<>>, Shape(s), Last(s).op = "compile"
  PROVE  AdvancedSite(s) \in Seq(Frame) /\ Shape(AdvancedSite(s))
<1>1. Last(s) \in Frame
  BY FrontLast
<1> QED
  BY <1>1, Advanced, AdvanceFrame, AdvanceShape

LEMMA AdvanceStatementShape ==
  ASSUME NEW s \in Seq(Frame), s # <<>>, Shape(s), Last(s).op = "generate"
  PROVE  /\ AdvancedStatement(s) \in Seq(Frame)
         /\ Shape(AdvancedStatement(s))
         /\ AdvancedStatement(s) # <<>>
<1>1. Last(s) \in Frame /\ Len(s) \in Nat \ {0}
  BY FrontLast
<1>2. AdvancedStatement(s) # <<>>
  BY <1>1, Advanced, EmptySeq
<1> QED
  BY <1>1, <1>2, Advanced, AdvanceFrame, AdvanceShape

\* The callers of the functions that run on top of them
LEMMA CallerFrame ==
  ASSUME NEW s \in Seq(Frame), s # <<>>, Shape(s)
  PROVE  /\ Len(s) > 1 => /\ Front(s) # <<>>
                          /\ Last(Front(s)) = s[Len(s) - 1]
                          /\ Last(Front(s)) \in Frame
                          /\ Above(Last(Front(s)), Last(s))
         /\ Len(s) = 1 => Bottom(Last(s)) /\ Front(s) = <<>>
<1>1. /\ Len(s) \in Nat \ {0} /\ Last(s) = s[Len(s)]
      /\ Front(s) \in Seq(Frame) /\ Len(Front(s)) = Len(s) - 1
      /\ \A i \in 1..(Len(s) - 1) : Front(s)[i] = s[i]
  BY FrontLast
<1>2. ASSUME Len(s) > 1
      PROVE  /\ Front(s) # <<>>
             /\ Last(Front(s)) = s[Len(s) - 1]
             /\ Last(Front(s)) \in Frame
             /\ Above(Last(Front(s)), Last(s))
  <2>1. Front(s) # <<>>
    BY <1>1, <1>2, EmptySeq
  <2>2. Last(Front(s)) = s[Len(s) - 1] /\ Last(Front(s)) \in Frame
    BY <1>1, <1>2, <2>1, FrontLast
  <2>3. Len(s) \in 2..Len(s)
    BY <1>1, <1>2
  <2> QED
    BY <1>1, <2>1, <2>2, <2>3 DEF Shape
<1>3. Len(s) = 1 => Bottom(Last(s)) /\ Front(s) = <<>>
  BY <1>1, EmptySeq DEF Shape
<1> QED
  BY <1>2, <1>3

-----------------------------------------------------------------------------
\* Type correctness

Types == TypeOK /\ StackShape /\ TargetSet

Blocks == Seq(Seq(Instr))

LEMMA ProgramTypes ==
  ASSUME TypeOK
  PROVE  /\ \A f \in Functions : /\ NameOf(f) \in Name
                                /\ program.home[f] \in Modules
                                /\ Body(f) \in Seq(Site)
         /\ \A m \in Modules : /\ program.stmts[m] \in Seq(Functions)
                              /\ \A i \in DOMAIN program.stmts[m] :
                                   program.home[program.stmts[m][i]] = m
         /\ program.opaque \subseteq Functions
BY DEF TypeOK, Program, NameOf, Name, Body

LEMMA StatementTypes ==
  ASSUME TypeOK, NEW m \in Modules, NEW i \in DOMAIN program.stmts[m]
  PROVE  program.stmts[m][i] \in Functions /\ i \in Nat \ {0}
<1>1. program.stmts[m] \in Seq(Functions)
  BY ProgramTypes
<1> QED
  BY <1>1, LenProperties, ElementOfSeq

LEMMA SiteTypes ==
  ASSUME TypeOK, NEW f \in Functions, NEW i \in DOMAIN Body(f)
  PROVE  /\ i \in Nat \ {0} /\ i <= Len(Body(f))
         /\ Body(f)[i] \in Site
         /\ Body(f)[i].kind \in {"call", "local"} =>
              /\ Body(f)[i].fn \in Functions
              /\ Body(f)[i] = [kind |-> Body(f)[i].kind, fn |-> Body(f)[i].fn]
<1>1. Body(f) \in Seq(Site)
  BY ProgramTypes
<1>2. i \in Nat \ {0} /\ i <= Len(Body(f)) /\ Body(f)[i] \in Site
  BY <1>1, LenProperties, ElementOfSeq
<1> QED
  BY <1>2 DEF Site

\* The innermost activation
LEMMA TopTypes ==
  ASSUME TypeOK, stack # <<>>
  PROVE  /\ Top \in Frame
         /\ Len(stack) \in Nat \ {0}
         /\ Top = stack[Len(stack)] /\ Len(stack) \in DOMAIN stack
<1>1. stack \in Seq(Frame)
  BY DEF TypeOK
<1> QED
  BY <1>1, FrontLast, LenProperties DEF Top

LEMMA EmitType ==
  ASSUME TypeOK, target # NoTarget, NEW instrs \in Seq(Instr),
         EmitAll(instrs)
  PROVE  /\ code' \in [Name -> Blocks]
         /\ \A n \in Name : DOMAIN code'[n] = DOMAIN code[n]
         /\ \A n \in Name : \A b \in DOMAIN code[n] :
              code'[n][b] = IF n = target.name /\ b = target.block
                            THEN code[n][b] \o instrs ELSE code[n][b]
<1> DEFINE n0 == target.name
           b0 == target.block
           c0 == code[n0]
           e  == c0[b0] \o instrs
           c1 == [c0 EXCEPT ![b0] = e]
<1>1. n0 \in Name /\ b0 \in DOMAIN c0
  BY DEF TypeOK, Target
<1>2. code \in [Name -> Blocks]
  BY DEF TypeOK, Blocks
<1>3. c0 \in Seq(Seq(Instr))
  BY <1>1, <1>2 DEF Blocks
<1>4. DOMAIN c0 = 1..Len(c0) /\ c0[b0] \in Seq(Instr)
  BY <1>1, <1>3, LenProperties, ElementOfSeq
<1>5. e \in Seq(Instr)
  BY <1>4, ConcatProperties
<1>6. code' = [code EXCEPT ![n0] = c1]
  BY DEF EmitAll
<1> HIDE DEF n0, b0, e, c0
<1>7. /\ c1 \in Seq(Seq(Instr)) /\ Len(c1) = Len(c0)
      /\ \A b \in 1..Len(c0) : c1[b] = IF b = b0 THEN e ELSE c0[b]
  BY <1>1, <1>3, <1>4, <1>5, ExceptSeq
<1>8. DOMAIN c1 = DOMAIN c0
  BY <1>3, <1>7, LenProperties
<1> HIDE DEF c1
<1>9. code' \in [Name -> Blocks]
  BY <1>1, <1>2, <1>6, <1>7 DEF Blocks
<1>10. \A n \in Name : code'[n] = IF n = n0 THEN c1 ELSE code[n]
  BY <1>1, <1>2, <1>6
<1> QED
  BY <1>4, <1>7, <1>8, <1>9, <1>10 DEF n0, b0, e, c0

LEMMA EnterType ==
  ASSUME TypeOK, NEW f \in Functions, EnterFunction(f)
  PROVE  /\ code' \in [Name -> Blocks]
         /\ code'[NameOf(f)] = Append(code[NameOf(f)], <<>>)
         /\ \A n \in Name \ {NameOf(f)} : code'[n] = code[n]
         /\ target' \in Target /\ target' # NoTarget
         /\ target'.block \in DOMAIN code'[target'.name]
         /\ target'.name = NameOf(f)
         /\ codeModule' \in Modules
<1> DEFINE c0 == code[NameOf(f)]
           c1 == Append(c0, <<>>)
<1>1. NameOf(f) \in Name /\ code \in [Name -> Blocks]
  BY ProgramTypes DEF TypeOK, Blocks
<1>2. c0 \in Seq(Seq(Instr)) /\ <<>> \in Seq(Instr)
  BY <1>1, EmptySeq DEF Blocks
<1>3. c1 \in Seq(Seq(Instr)) /\ Len(c1) = Len(c0) + 1 /\ Len(c0) \in Nat
  BY <1>2, AppendProperties, LenProperties
<1>4. DOMAIN c1 = 1..(Len(c0) + 1)
  BY <1>3, LenProperties
<1>5. code' = [code EXCEPT ![NameOf(f)] = c1]
  BY DEF EnterFunction
<1>6. target' = [name |-> NameOf(f), block |-> Len(c0) + 1]
  BY DEF EnterFunction
<1>7. codeModule' \in Modules
  BY ProgramTypes DEF EnterFunction
<1> HIDE DEF c0, c1
<1>8. code' \in [Name -> Blocks] /\ code'[NameOf(f)] = c1
      /\ \A n \in Name \ {NameOf(f)} : code'[n] = code[n]
  BY <1>1, <1>3, <1>5 DEF Blocks
<1>9. target' \in Target
  BY <1>1, <1>3, <1>6 DEF Target
<1> QED
  BY <1>3, <1>4, <1>6, <1>7, <1>8, <1>9, TargetAssumption DEF c0, c1

\* What may stand on what depends on the program alone
LEMMA ShapeStep ==
  ASSUME program' = program, Shape(stack')
  PROVE  StackShape'
<1>1. ASSUME NEW x, NEW y PROVE Above(x, y)' <=> Above(x, y)
  BY DEF Above, ModOf, Waiting, Taken, Body
<1>2. stack' # <<>> => Bottom(stack'[1])
  BY DEF Shape
<1>3. \A i \in 2..Len(stack') : Above(stack'[i - 1], stack'[i])
  BY DEF Shape
<1>4. \A i \in 2..Len(stack') : Above(stack[i - 1], stack[i])'
  BY <1>1, <1>3
<1> QED
  BY <1>2, <1>4 DEF StackShape, Shape, Bottom

\* A step that leaves the program, the code and the irBuilder alone, and adds
\* no compile activation
LEMMA StackStep ==
  ASSUME Types, program' = program, status' = status,
         stack' \in Seq(Frame), Shape(stack'),
         \A i \in DOMAIN stack' : stack'[i].op = "compile" =>
            \E j \in DOMAIN stack : stack[j].op = "compile",
         generated' \subseteq Modules,
         entries' = entries, code' = code, codeModule' = codeModule,
         target' = target, jitted' \subseteq Name,
         installed' \in [Name -> Blocks]
  PROVE  Types'
<1>1. TypeOK'
  BY DEF Types, TypeOK, Blocks
<1>2. StackShape'
  BY ShapeStep
<1>3. TargetSet'
  BY DEF Types, TargetSet
<1> QED
  BY <1>1, <1>2, <1>3 DEF Types

\* A step that emits
LEMMA EmitStep ==
  ASSUME Types, program' = program, status' = status,
         stack' \in Seq(Frame), Shape(stack'),
         generated' = generated, entries' \in [Name -> Functions \cup {NoNode}],
         target # NoTarget,
         \E instrs \in Seq(Instr) : EmitAll(instrs),
         codeModule' \in Modules \cup {NoModule}, target' = target,
         jitted' \subseteq Name, installed' \in [Name -> Blocks]
  PROVE  Types'
<1>1. PICK instrs \in Seq(Instr) : EmitAll(instrs)
  OBVIOUS
<1>2. /\ code' \in [Name -> Blocks]
      /\ \A n \in Name : DOMAIN code'[n] = DOMAIN code[n]
  BY <1>1, EmitType DEF Types
<1>3. target'.name \in Name /\ target'.block \in DOMAIN code'[target'.name]
  BY <1>2 DEF Types, TypeOK, Target
<1>4. TypeOK'
  BY <1>2, <1>3 DEF Types, TypeOK, Blocks
<1>5. StackShape'
  BY ShapeStep
<1>6. TargetSet'
  BY DEF TargetSet
<1> QED
  BY <1>4, <1>5, <1>6 DEF Types

\* A step that starts a compilation
LEMMA EnterStep ==
  ASSUME Types, program' = program, status' = status,
         stack' \in Seq(Frame), Shape(stack'),
         generated' = generated, entries' = entries,
         NEW f \in Functions, EnterFunction(f),
         jitted' = jitted, installed' = installed
  PROVE  Types'
<1>1. /\ code' \in [Name -> Blocks]
      /\ target' \in Target /\ target' # NoTarget
      /\ target'.block \in DOMAIN code'[target'.name]
      /\ codeModule' \in Modules
  BY EnterType DEF Types
<1>2. TypeOK'
  BY <1>1 DEF Types, TypeOK, Blocks
<1>3. StackShape'
  BY ShapeStep
<1>4. TargetSet'
  BY <1>1 DEF TargetSet
<1> QED
  BY <1>2, <1>3, <1>4 DEF Types

LEMMA DieStep ==
  ASSUME Types, NEW how \in Status, Die(how)
  PROVE  Types'
<1>1. StackShape'
  BY ShapeStep DEF Types, StackShape, Die
<1> QED
  BY <1>1 DEF Types, TypeOK, TargetSet, Die

LEMMA CompileFrameType ==
  ASSUME NEW f \in Functions, NEW e \in BOOLEAN
  PROVE  LET y == CompileFrame(f, e)
         IN  /\ y \in Frame /\ y.op = "compile"
             /\ y.fn = f /\ y.entry = e /\ y.site = 1
BY DEF CompileFrame, Frame

\* LlvmModule::require on a miss, from generate() or from the backend
LEMMA MissStep ==
  ASSUME Types, program' = program, status' = status,
         NEW f \in Functions,
         NEW base \in Seq(Frame), base # <<>>, Shape(base),
         Taken(Last(base), f) \/ (Last(base).op = "require" /\ Last(base).fn = f),
         \A i \in DOMAIN base : base[i].op = "compile" =>
            \E j \in DOMAIN stack : stack[j].op = "compile",
         CompileMissing(f, base),
         generated' = generated, jitted' = jitted, installed' = installed
  PROVE  Types'
<1>1. CASE /\ EnterFunction(f)
           /\ stack' = Append(base, CompileFrame(f, TRUE))
           /\ UNCHANGED entries
  <2>1. Above(Last(base), CompileFrame(f, TRUE))
    BY CompileFrameType DEF Above
  <2>2. stack' \in Seq(Frame) /\ Shape(stack')
    BY <1>1, <2>1, CompileFrameType, PushShape
  <2> QED
    BY <1>1, <2>2, EnterStep
<1>2. CASE /\ RejectFunction(f) /\ stack' = base
           /\ entries' = [entries EXCEPT ![NameOf(f)] = f]
           /\ UNCHANGED code
  <2>1. codeModule' \in Modules /\ target' = target
    BY <1>2, ProgramTypes DEF RejectFunction, Types
  <2>2. entries' \in [Name -> Functions \cup {NoNode}]
    BY <1>2, ProgramTypes DEF Types, TypeOK
  <2>3. TypeOK'
    BY <1>2, <2>1, <2>2 DEF Types, TypeOK
  <2>4. StackShape'
    BY <1>2, ShapeStep
  <2>5. TargetSet'
    BY <1>2, <2>1 DEF Types, TargetSet
  <2> QED
    BY <2>3, <2>4, <2>5 DEF Types
<1> QED
  BY <1>1, <1>2 DEF CompileMissing

LEMMA SpecializeType ==
  ASSUME TypeOK, NEW n \in Name, Specialize(n)
  PROVE  jitted' \subseteq Name /\ installed' \in [Name -> Blocks]
BY DEF TypeOK, Specialize, jit, Blocks

\* What the three ways of changing the stack do to compile activations
LEMMA PushKeeps ==
  ASSUME NEW s \in Seq(Frame), NEW y \in Frame, y.op # "compile"
  PROVE  \A i \in DOMAIN Append(s, y) : Append(s, y)[i].op = "compile" =>
           \E j \in DOMAIN s : s[j].op = "compile"
BY AppendProperties, LenProperties

LEMMA PopKeeps ==
  ASSUME NEW s \in Seq(Frame), s # <<>>
  PROVE  \A i \in DOMAIN Front(s) : Front(s)[i].op = "compile" =>
           \E j \in DOMAIN s : s[j].op = "compile"
<1>1. /\ Front(s) \in Seq(Frame) /\ Len(Front(s)) = Len(s) - 1
      /\ Len(s) \in Nat \ {0}
      /\ \A i \in 1..(Len(s) - 1) : Front(s)[i] = s[i]
  BY FrontLast
<1>2. DOMAIN Front(s) = 1..(Len(s) - 1) /\ DOMAIN s = 1..Len(s)
  BY <1>1, LenProperties
<1> QED
  BY <1>1, <1>2

LEMMA AdvanceKeeps ==
  ASSUME NEW s \in Seq(Frame), s # <<>>, Last(s).op = "generate"
  PROVE  \A i \in DOMAIN AdvancedStatement(s) :
           AdvancedStatement(s)[i].op = "compile" =>
             \E j \in DOMAIN s : s[j].op = "compile"
<1> DEFINE t == AdvancedStatement(s)
<1>1. Len(s) \in Nat \ {0} /\ Last(s) \in Frame
  BY FrontLast
<1>2. /\ t \in Seq(Frame) /\ Len(t) = Len(s)
      /\ \A i \in 1..(Len(s) - 1) : t[i] = s[i]
      /\ Last(t).op = "generate"
  BY <1>1, Advanced, AdvanceFrame
<1>3. DOMAIN t = 1..Len(s) /\ DOMAIN s = 1..Len(s) /\ t[Len(s)].op = "generate"
  BY <1>1, <1>2, LenProperties DEF Last
<1> HIDE DEF t
<1>4. ASSUME NEW i \in 1..Len(s), t[i].op = "compile"
      PROVE  i \in 1..Len(s) /\ s[i].op = "compile"
  BY <1>1, <1>2, <1>3, <1>4
<1> QED
  BY <1>3, <1>4 DEF t

\* generate() has just taken a statement
LEMMA TakenNow ==
  ASSUME TypeOK, Running("generate"), Top.next <= Len(program.stmts[Top.mod])
  PROVE  LET f == program.stmts[Top.mod][Top.next]
             t == AdvancedStatement(stack)
         IN  f \in Functions /\ t # <<>> /\ Taken(Last(t), f)
<1> DEFINE y == [Top EXCEPT !.next = @ + 1]
<1>1. /\ stack \in Seq(Frame) /\ stack # <<>> /\ Top \in Frame
      /\ Top.op = "generate" /\ Last(stack) = Top
  BY TopTypes DEF Running, TypeOK, Top
<1>2. Top.mod \in Modules /\ Top.next \in Nat \ {0}
  BY <1>1, FrameFields
<1>3. program.stmts[Top.mod] \in Seq(Functions)
  BY <1>2, ProgramTypes
<1>4. Top.next \in DOMAIN program.stmts[Top.mod]
  BY <1>2, <1>3, LenProperties
<1>5. program.stmts[Top.mod][Top.next] \in Functions
  BY <1>2, <1>4, StatementTypes
<1>6. /\ Last(AdvancedStatement(stack)) = y
      /\ y.op = "generate" /\ y.mod = Top.mod /\ y.next = Top.next + 1
  BY <1>1, Advanced, AdvanceFrame
<1>7. AdvancedStatement(stack) # <<>>
  BY <1>1, Advanced, FrontLast, EmptySeq
<1>8. Taken(y, program.stmts[Top.mod][Top.next])
  BY <1>2, <1>4, <1>6 DEF Taken
<1> QED
  BY <1>5, <1>6, <1>7, <1>8

\* The node an activation is at
LEMMA AtSiteTypes ==
  ASSUME TypeOK, NEW kind, AtSite(kind)
  PROVE  /\ stack \in Seq(Frame) /\ stack # <<>> /\ Last(stack) = Top
         /\ Top \in Frame /\ Top.op = "compile" /\ Top.fn \in Functions
         /\ Top.site \in DOMAIN Body(Top.fn)
         /\ Body(Top.fn)[Top.site].kind = kind
         /\ kind \in {"call", "local"} =>
              /\ Body(Top.fn)[Top.site].fn \in Functions
              /\ Waiting(Top, kind, Body(Top.fn)[Top.site].fn)
<1>1. /\ stack \in Seq(Frame) /\ stack # <<>> /\ Top \in Frame
      /\ Top.op = "compile" /\ Last(stack) = Top
  BY TopTypes DEF AtSite, Running, TypeOK, Top
<1>2. Top.fn \in Functions /\ Top.site \in Nat \ {0}
  BY <1>1, FrameFields
<1>3. Body(Top.fn) \in Seq(Site)
  BY <1>2, ProgramTypes
<1>4. Top.site \in DOMAIN Body(Top.fn)
  BY <1>2, <1>3, LenProperties DEF AtSite
<1>5. Body(Top.fn)[Top.site].kind = kind
  BY DEF AtSite
<1>6. kind \in {"call", "local"} =>
              /\ Body(Top.fn)[Top.site].fn \in Functions
              /\ Waiting(Top, kind, Body(Top.fn)[Top.site].fn)
  BY <1>1, <1>2, <1>4, <1>5, SiteTypes DEF Waiting
<1> QED
  BY <1>1, <1>2, <1>4, <1>5, <1>6

LEMMA TargetWhenCompiling ==
  ASSUME Types, NEW i \in DOMAIN stack, stack[i].op = "compile"
  PROVE  target # NoTarget
BY DEF Types, TargetSet

\* The function whose compilation waits under the innermost activation
LEMMA WaitingCaller ==
  ASSUME Types, stack # <<>>, Len(stack) > 1,
         Top.op = "require" \/ (Top.op = "compile" /\ ~Top.entry)
  PROVE  /\ Front(stack) \in Seq(Frame) /\ Front(stack) # <<>>
         /\ Shape(Front(stack))
         /\ Last(Front(stack)) \in Frame
         /\ Last(Front(stack)).op = "compile"
         /\ Last(Front(stack)).fn \in Functions
         /\ Waiting(Last(Front(stack)),
                    IF Top.op = "require" THEN "call" ELSE "local", Top.fn)
         /\ target # NoTarget
<1> DEFINE c == Last(Front(stack))
<1>1. stack \in Seq(Frame) /\ Shape(stack) /\ Top = Last(stack)
      /\ Len(stack) \in Nat
  BY TopTypes DEF Types, TypeOK, StackShape, Top
<1>2. /\ Front(stack) # <<>> /\ c = stack[Len(stack) - 1] /\ c \in Frame
      /\ Above(c, Top)
  BY <1>1, CallerFrame
<1>3. Front(stack) \in Seq(Frame) /\ Shape(Front(stack))
  BY <1>1, PopShape
<1> HIDE DEF c
<1>4. Waiting(c, IF Top.op = "require" THEN "call" ELSE "local", Top.fn)
  BY <1>2 DEF Above
<1>5. c.op = "compile" /\ c.fn \in Functions
  BY <1>2, <1>4, FrameFields DEF Waiting
<1>6. Len(stack) - 1 \in DOMAIN stack
  BY <1>1, LenProperties
<1>7. target # NoTarget
  BY <1>2, <1>5, <1>6, TargetWhenCompiling
<1> QED
  BY <1>2, <1>3, <1>4, <1>5, <1>7 DEF c

LEMMA TypesInit == Init => Types
<1> SUFFICES ASSUME Init PROVE Types
  OBVIOUS
<1>1. TypeOK
  BY ConstantsAssumption, EmptySeq DEF Init, TypeOK, Status, Name
<1>2. StackShape
  BY EmptySeq DEF Init, StackShape, Shape
<1>3. TargetSet
  BY EmptySeq DEF Init, TargetSet
<1> QED
  BY <1>1, <1>2, <1>3 DEF Types

LEMMA TypesNext == Types /\ [Next]_vars => Types'
<1> SUFFICES ASSUME Types, [Next]_vars PROVE Types'
  OBVIOUS
<1>0. /\ TypeOK /\ stack \in Seq(Frame) /\ Shape(stack)
      /\ jitted \subseteq Name /\ installed \in [Name -> Blocks]
      /\ entries \in [Name -> Functions \cup {NoNode}]
      /\ generated \subseteq Modules
      /\ codeModule \in Modules \cup {NoModule}
  BY DEF Types, TypeOK, StackShape, Blocks
<1>1. ASSUME NEW f \in Functions, Demand(f) PROVE Types'
  <2>1. RequireFrame(f) \in Frame /\ RequireFrame(f).op = "require"
    BY DEF RequireFrame, Frame
  <2>2. stack = <<>> /\ stack' = Append(stack, RequireFrame(f))
    BY <1>1 DEF Demand
  <2>3. stack' \in Seq(Frame) /\ Shape(stack')
    BY <1>0, <2>1, <2>2, PushShape DEF Bottom
  <2> QED
    BY <1>0, <1>1, <2>1, <2>2, <2>3, PushKeeps, StackStep
    DEF Demand, compileState, jit
<1>2. ASSUME NEW n \in Name, DemandLookup(n) PROVE Types'
  <2> DEFINE y == [op |-> "lookup", name |-> n]
  <2>1. y \in Frame /\ y.op = "lookup"
    BY DEF Frame
  <2>2. stack = <<>> /\ stack' = Append(stack, y)
    BY <1>2 DEF DemandLookup
  <2>3. stack' \in Seq(Frame) /\ Shape(stack')
    BY <1>0, <2>1, <2>2, PushShape DEF Bottom
  <2> QED
    BY <1>0, <1>2, <2>1, <2>2, <2>3, PushKeeps, StackStep
    DEF DemandLookup, compileState, jit
<1>3. ASSUME NEW m \in Modules, GenerateModule(m) PROVE Types'
  <2> DEFINE y == [op |-> "generate", mod |-> m, next |-> 1]
  <2>1. y \in Frame /\ y.op = "generate" /\ y.mod = m
    BY DEF Frame
  <2>2. stack # <<>> /\ Last(stack).op \in {"require", "lookup"} /\ m = ModOf(Last(stack))
    BY <1>3 DEF GenerateModule, Running, Top, ModOf
  <2>3. stack' = Append(stack, y)
    BY <1>3 DEF GenerateModule
  <2>4. stack' \in Seq(Frame) /\ Shape(stack')
    BY <1>0, <2>1, <2>2, <2>3, PushShape DEF Above
  <2>5. generated' \subseteq Modules
    BY <1>0, <1>3 DEF GenerateModule
  <2> QED
    BY <1>0, <1>3, <2>1, <2>3, <2>4, <2>5, PushKeeps, StackStep
    DEF GenerateModule, compileState, jit
<1>4. CASE GenerateStatement
  <2> DEFINE f == program.stmts[Top.mod][Top.next]
             t == AdvancedStatement(stack)
  <2>1. /\ Running("generate") /\ Top.next <= Len(program.stmts[Top.mod])
        /\ stack # <<>> /\ Last(stack).op = "generate"
    BY <1>4 DEF GenerateStatement, Running, Top
  <2>2. f \in Functions /\ t # <<>> /\ Taken(Last(t), f)
    BY <1>0, <2>1, TakenNow
  <2>3. t \in Seq(Frame) /\ Shape(t)
    BY <1>0, <2>1, AdvanceStatementShape
  <2>4. \A i \in DOMAIN t : t[i].op = "compile" =>
           \E j \in DOMAIN stack : stack[j].op = "compile"
    BY <1>0, <2>1, AdvanceKeeps
  <2> HIDE DEF f, t
  <2>5. CASE stack' = t /\ UNCHANGED <<program, status, generated, entries,
                                       code, compileState, jit>>
    BY <1>0, <2>3, <2>4, <2>5, StackStep DEF compileState, jit
  <2>6. CASE CompileMissing(f, t) /\ UNCHANGED <<program, status, generated, jit>>
    BY <2>2, <2>3, <2>4, <2>6, MissStep DEF jit
  <2>7. CASE Die("assert")
    BY <2>7, DieStep DEF Status
  <2> QED
    BY <1>4, <2>5, <2>6, <2>7 DEF GenerateStatement, f, t
<1>5. CASE GenerateDone
  <2>1. stack # <<>> /\ stack' = Front(stack)
    BY <1>5 DEF GenerateDone, Running
  <2>2. stack' \in Seq(Frame) /\ Shape(stack')
    BY <1>0, <2>1, PopShape
  <2> QED
    BY <1>0, <1>5, <2>1, <2>2, PopKeeps, StackStep
    DEF GenerateDone, compileState, jit
<1>6. CASE RequireMiss
  <2>1. /\ stack # <<>> /\ Top = Last(stack) /\ Top.op = "require"
        /\ Top \in Frame
    BY <1>0, <1>6, TopTypes DEF RequireMiss, Requiring, Running, Top
  <2>2. Top.fn \in Functions
    BY <2>1, FrameFields
  <2>3. CompileMissing(Top.fn, stack)
        /\ UNCHANGED <<program, status, generated, jit>>
    BY <1>6 DEF RequireMiss
  <2> QED
    BY <1>0, <2>1, <2>2, <2>3, MissStep DEF jit
<1>7. CASE RequireClash
  BY <1>7, DieStep DEF RequireClash, Status
<1>8. CASE FinishLookup
  <2>1. CASE stack' = Front(stack) /\ UNCHANGED <<program, status, generated,
                                        entries, code, compileState, jit>>
    <3>1. stack # <<>>
      BY <1>8 DEF FinishLookup, Running
    <3>2. stack' \in Seq(Frame) /\ Shape(stack')
      BY <1>0, <2>1, <3>1, PopShape
    <3> QED
      BY <1>0, <2>1, <3>1, <3>2, PopKeeps, StackStep DEF compileState, jit
  <2>2. CASE Die("null-entry")
    BY <2>2, DieStep DEF Status
  <2> QED
    BY <1>8, <2>1, <2>2 DEF FinishLookup
<1>9. CASE NullPrototype
  BY <1>9, DieStep DEF NullPrototype, Status
<1>10. CASE FinishLlvmCall
  <2>1. Top.fn \in Functions
    BY <1>0, <1>10, TopTypes, FrameFields
    DEF FinishLlvmCall, Hit, Requiring, Running
  <2>2. Specialize(NameOf(Top.fn)) /\ stack' = <<>>
    BY <1>10 DEF FinishLlvmCall
  <2>3. jitted' \subseteq Name /\ installed' \in [Name -> Blocks]
    BY <1>0, <2>1, <2>2, ProgramTypes, SpecializeType
  <2>4. stack' \in Seq(Frame) /\ Shape(stack') /\ DOMAIN stack' = {}
    BY <2>2, EmptySeq DEF Shape
  <2> QED
    BY <1>0, <1>10, <2>3, <2>4, StackStep DEF FinishLlvmCall, compileState
<1>11. CASE FinishLlvmIr
  <2>1. stack' = <<>>
    BY <1>11 DEF FinishLlvmIr
  <2>2. stack' \in Seq(Frame) /\ Shape(stack') /\ DOMAIN stack' = {}
    BY <2>1, EmptySeq DEF Shape
  <2> QED
    BY <1>0, <1>11, <2>2, StackStep DEF FinishLlvmIr, compileState, jit
<1>12. CASE CallSite
  <2> DEFINE g == Body(Top.fn)[Top.site].fn
             y == RequireFrame(g)
  <2>1. /\ stack # <<>> /\ Last(stack) = Top /\ g \in Functions
        /\ Waiting(Top, "call", g)
    BY <1>0, <1>12, AtSiteTypes DEF CallSite
  <2>2. stack' = Append(stack, y)
    BY <1>12 DEF CallSite
  <2>3. y \in Frame /\ y.op = "require" /\ y.fn = g
    BY <2>1 DEF RequireFrame, Frame
  <2> HIDE DEF g, y
  <2>4. Above(Last(stack), y)
    BY <2>1, <2>3 DEF Above
  <2>5. stack' \in Seq(Frame) /\ Shape(stack')
    BY <1>0, <2>1, <2>2, <2>3, <2>4, PushShape
  <2> QED
    BY <1>0, <1>12, <2>2, <2>3, <2>5, PushKeeps, StackStep
    DEF CallSite, compileState, jit
<1>13. CASE FinishCallSite
  <2> DEFINE c == Last(Front(stack))
             instr == [op |-> "call", by |-> c.fn, to |-> NameOf(Top.fn)]
  <2>1. /\ stack # <<>> /\ Len(stack) > 1 /\ Top.op = "require"
        /\ Top \in Frame
    BY <1>0, <1>13, TopTypes DEF FinishCallSite, Hit, Requiring, Running
  <2>2. NameOf(Top.fn) \in Name
    BY <1>0, <2>1, FrameFields, ProgramTypes
  <2>3. /\ Front(stack) \in Seq(Frame) /\ Front(stack) # <<>>
        /\ Shape(Front(stack)) /\ c.op = "compile" /\ c.fn \in Functions
        /\ target # NoTarget
    BY <2>1, WaitingCaller
  <2>4. instr \in Instr
    BY <2>2, <2>3 DEF Instr, Call
  <2>5. /\ EmitAll(<<instr>>) /\ Specialize(NameOf(Top.fn))
        /\ stack' = AdvancedSite(Front(stack))
    BY <1>13 DEF FinishCallSite, Emit
  <2>6. <<instr>> \in Seq(Instr)
    BY <2>4
  <2>7. stack' \in Seq(Frame) /\ Shape(stack')
    BY <2>3, <2>5, AdvanceSiteShape
  <2>8. jitted' \subseteq Name /\ installed' \in [Name -> Blocks]
    BY <1>0, <2>2, <2>5, SpecializeType
  <2> HIDE DEF instr
  <2> QED
    BY <1>0, <1>13, <2>3, <2>5, <2>6, <2>7, <2>8, EmitStep
    DEF FinishCallSite, compileState
<1>14. CASE RuntimeCallSite
  <2> DEFINE instr == [op |-> "call", by |-> Top.fn, to |-> Runtime]
  <2>1. /\ stack # <<>> /\ Last(stack) = Top /\ Top.op = "compile"
        /\ Top.fn \in Functions
    BY <1>0, <1>14, AtSiteTypes DEF RuntimeCallSite
  <2>2. <<instr>> \in Seq(Instr)
    BY <2>1 DEF Instr, Call
  <2>3. target # NoTarget
    BY <1>0, <2>1, TopTypes, TargetWhenCompiling
  <2>4. EmitAll(<<instr>>) /\ stack' = AdvancedSite(stack)
    BY <1>14 DEF RuntimeCallSite, Emit
  <2>5. stack' \in Seq(Frame) /\ Shape(stack')
    BY <1>0, <2>1, <2>4, AdvanceSiteShape
  <2> HIDE DEF instr
  <2> QED
    BY <1>0, <1>14, <2>2, <2>3, <2>4, <2>5, EmitStep
    DEF RuntimeCallSite, compileState, jit
<1>15. CASE UnsupportedNode
  <2>1. /\ stack # <<>> /\ Last(stack) = Top /\ Top.op = "compile"
    BY <1>0, <1>15, AtSiteTypes DEF UnsupportedNode
  <2>2. stack' = AdvancedSite(stack)
    BY <1>15 DEF UnsupportedNode
  <2>3. stack' \in Seq(Frame) /\ Shape(stack')
    BY <1>0, <2>1, <2>2, AdvanceSiteShape
  <2>4. Len(stack) \in DOMAIN stack /\ stack[Len(stack)].op = "compile"
    BY <1>0, <2>1, TopTypes
  <2> QED
    BY <1>0, <1>15, <2>3, <2>4, StackStep
    DEF UnsupportedNode, compileState, jit
<1>16. CASE LocalFunction
  <2> DEFINE g == Body(Top.fn)[Top.site].fn
  <2>1. /\ stack # <<>> /\ Last(stack) = Top /\ Top.op = "compile"
        /\ Top.fn \in Functions /\ g \in Functions
        /\ Waiting(Top, "local", g)
    BY <1>0, <1>16, AtSiteTypes DEF LocalFunction
  <2>2. target # NoTarget /\ Len(stack) \in DOMAIN stack
    BY <1>0, <2>1, TopTypes, TargetWhenCompiling
  <2> HIDE DEF g
  <2>3. CASE EnterFunction(g) /\ stack' = Append(stack, CompileFrame(g, FALSE))
    <3>1. Above(Last(stack), CompileFrame(g, FALSE))
      BY <2>1, CompileFrameType DEF Above
    <3>2. stack' \in Seq(Frame) /\ Shape(stack')
      BY <1>0, <2>1, <2>3, <3>1, CompileFrameType, PushShape
    <3> QED
      BY <1>16, <2>1, <2>3, <3>2, EnterStep DEF LocalFunction, jit
  <2>4. CASE RejectFunction(g) /\ stack' = AdvancedSite(stack)
             /\ (UNCHANGED code \/ Emit(StoreBy(Top.fn)))
    <3>1. stack' \in Seq(Frame) /\ Shape(stack')
      BY <1>0, <2>1, <2>4, AdvanceSiteShape
    <3>2. \E instrs \in Seq(Instr) : EmitAll(instrs)
      <4>1. CASE Emit(StoreBy(Top.fn))
        <5>1. <<StoreBy(Top.fn)>> \in Seq(Instr)
          BY <2>1 DEF StoreBy, Instr
        <5> QED
          BY <4>1, <5>1 DEF Emit
      <4>2. CASE UNCHANGED code
        <5>1. <<>> \in Seq(Instr)
          BY EmptySeq
        <5>2. EmitAll(<<>>)
          <6> DEFINE n0 == target.name
                     b0 == target.block
          <6>1. /\ n0 \in Name /\ b0 \in DOMAIN code[n0]
                /\ code \in [Name -> Blocks]
            BY <1>0, <2>2 DEF TypeOK, Target, Blocks
          <6>2. code[n0] \in Seq(Seq(Instr))
            BY <6>1 DEF Blocks
          <6>3. code[n0][b0] \in Seq(Instr)
            BY <6>1, <6>2, LenProperties, ElementOfSeq
          <6>4. code[n0][b0] \o <<>> = code[n0][b0]
            BY <6>3, ConcatEmptySeq
          <6>5. [code[n0] EXCEPT ![b0] = code[n0][b0]] = code[n0]
            BY <6>1, <6>2, LenProperties
          <6>6. [code EXCEPT ![n0] = code[n0]] = code
            BY <6>1
          <6>7. [code EXCEPT ![n0][b0] = @ \o <<>>] = code
            BY <6>4, <6>5, <6>6
          <6> QED
            BY <4>2, <6>7 DEF EmitAll
        <5> QED
          BY <5>1, <5>2
      <4> QED
        BY <2>4, <4>1, <4>2
    <3>3. codeModule' \in Modules /\ target' = target
      BY <1>0, <2>1, <2>4, ProgramTypes DEF RejectFunction
    <3> QED
      BY <1>0, <1>16, <2>2, <3>1, <3>2, <3>3, EmitStep
      DEF LocalFunction, jit
  <2> QED
    BY <1>16, <2>3, <2>4 DEF LocalFunction, g
<1>17. CASE FinishFunction
  <2>1. /\ stack # <<>> /\ Top.op = "compile" /\ Top \in Frame
    BY <1>0, <1>17, TopTypes DEF FinishFunction, AtReturn, Running
  <2>2. Top.fn \in Functions /\ <<Return>> \in Seq(Instr)
    BY <2>1, FrameFields DEF Return, Instr
  <2>3. target # NoTarget
    BY <1>0, <2>1, TopTypes, TargetWhenCompiling
  <2>4. EmitAll(<<Return>>) /\ stack' = Front(stack)
    BY <1>17 DEF FinishFunction, Emit
  <2>5. stack' \in Seq(Frame) /\ Shape(stack')
    BY <1>0, <2>1, <2>4, PopShape
  <2>6. entries' \in [Name -> Functions \cup {NoNode}]
    BY <1>0, <1>17, <2>2, ProgramTypes DEF FinishFunction
  <2> QED
    BY <1>0, <1>17, <2>2, <2>3, <2>4, <2>5, <2>6, EmitStep
    DEF FinishFunction, compileState, jit
<1>18. CASE RedefineEntry
  BY <1>18, DieStep DEF RedefineEntry, Status
<1>19. CASE FinishLocalFunction
  <2> DEFINE c == Last(Front(stack))
             instrs == <<Return, StoreBy(c.fn)>>
  <2>1. /\ stack # <<>> /\ Top.op = "compile" /\ Top \in Frame
        /\ ~Top.entry /\ Top = Last(stack) /\ Len(stack) \in Nat \ {0}
    BY <1>0, <1>19, TopTypes DEF FinishLocalFunction, AtReturn, Running, Top
  <2>2. Len(stack) > 1
    <3>1. ASSUME Len(stack) = 1 PROVE FALSE
      <4>1. stack[1] = Last(stack)
        BY <3>1 DEF Last
      <4>2. Bottom(stack[1])
        BY <1>0, <2>1 DEF Shape
      <4> QED
        BY <2>1, <4>1, <4>2 DEF Bottom
    <3>2. Len(stack) \in Nat \ {0}
      BY <2>1
    <3>3. Len(stack) # 1
      BY <3>1
    <3>4. \A k \in Nat \ {0} : k # 1 => k > 1
      OBVIOUS
    <3> QED
      BY <3>2, <3>3, <3>4
  <2>3. /\ Front(stack) \in Seq(Frame) /\ Front(stack) # <<>>
        /\ Shape(Front(stack)) /\ c.op = "compile" /\ c.fn \in Functions
        /\ target # NoTarget
    BY <2>1, <2>2, WaitingCaller
  <2>4. Top.fn \in Functions
    BY <2>1, FrameFields
  <2>5. Return \in Instr /\ StoreBy(c.fn) \in Instr
    BY <2>3, <2>4 DEF Return, StoreBy, Instr
  <2>6. instrs \in Seq(Instr)
    BY <2>5
  <2>7. EmitAll(instrs) /\ stack' = AdvancedSite(Front(stack))
    BY <1>19 DEF FinishLocalFunction
  <2> HIDE DEF instrs
  <2>8. stack' \in Seq(Frame) /\ Shape(stack')
    BY <2>3, <2>7, AdvanceSiteShape
  <2> QED
    BY <1>0, <1>19, <2>3, <2>6, <2>7, <2>8, EmitStep
    DEF FinishLocalFunction, compileState, jit
<1>20. CASE Overflow
  BY <1>20, DieStep DEF Overflow, Status
<1>21. CASE UNCHANGED vars
  <2>1. /\ UNCHANGED <<program, status, stack, generated, entries, code>>
        /\ UNCHANGED <<codeModule, target, jitted, installed>>
    BY <1>21 DEF vars
  <2>2. TypeOK'
    BY <2>1 DEF Types, TypeOK
  <2>3. StackShape'
    BY <2>1, ShapeStep DEF Types, StackShape
  <2>4. TargetSet'
    BY <2>1 DEF Types, TargetSet
  <2> QED
    BY <2>2, <2>3, <2>4 DEF Types
<1> QED
  BY <1>1, <1>2, <1>3, <1>4, <1>5, <1>6, <1>7, <1>8, <1>9, <1>10, <1>11,
     <1>12, <1>13, <1>14, <1>15, <1>16, <1>17, <1>18, <1>19, <1>20, <1>21
  DEF Next, Step, Dead

\* Types, and the irBuilder always points into an existing block.
THEOREM TypeCorrect == Spec => []TypeOK
<1>1. Types => TypeOK
  BY DEF Types
<1> QED
  BY <1>1, TypesInit, TypesNext, PTL DEF Spec

-----------------------------------------------------------------------------
\* Recursive functions never get an entry

Done == { x \in Frame : SitesDone(x) }

NoRecursion == StackDone /\ NoEntryForRecursion

LEMMA NotRecursive ==
  ASSUME NEW f, \A g \in Needs(f) : ~Recursive(g)
  PROVE  ~Recursive(f)
<1> SUFFICES ASSUME Recursive(f) PROVE FALSE
  OBVIOUS
<1>1. PICK S \in SUBSET Functions :
        f \in S /\ \A g \in S : Needs(g) \cap S # {}
  BY DEF Recursive
<1>2. PICK h \in Needs(f) : h \in S
  BY <1>1
<1>3. Recursive(h)
  BY <1>1, <1>2 DEF Recursive
<1> QED
  BY <1>2, <1>3

LEMMA NeedsStep ==
  ASSUME program' = program
  PROVE  /\ \A f : Needs(f)' = Needs(f)
         /\ \A f : Recursive(f)' <=> Recursive(f)
         /\ \A f : NameOf(f)' = NameOf(f)
<1>1. \A f : Needs(f)' = Needs(f)
  BY DEF Needs, Body
<1>2. \A f : Recursive(f)' <=> Recursive(f)
  BY <1>1 DEF Recursive
<1> QED
  BY <1>1, <1>2 DEF NameOf

LEMMA SitesStep ==
  ASSUME program' = program, NEW x
  PROVE  SitesDone(x)' <=> SitesDone(x)
BY NeedsStep DEF SitesDone, Body

LEMMA StackOfDone ==
  ASSUME TypeOK, StackDone
  PROVE  stack \in Seq(Done)
<1>1. stack \in Seq(Frame)
  BY DEF TypeOK
<1>2. /\ Len(stack) \in Nat /\ DOMAIN stack = 1..Len(stack)
      /\ stack = [i \in 1..Len(stack) |-> stack[i]]
  BY <1>1, LenProperties
<1>3. \A i \in 1..Len(stack) : stack[i] \in Done
  BY <1>1, <1>2, ElementOfSeq DEF Done, StackDone
<1>4. [i \in 1..Len(stack) |-> stack[i]] \in Seq(Done)
  BY <1>2, <1>3, IsASeq
<1> QED
  BY <1>2, <1>4

LEMMA DoneStep ==
  ASSUME program' = program, stack' \in Seq(Done)
  PROVE  StackDone'
<1>1. \A i \in DOMAIN stack' : stack'[i] \in Done
  BY LenProperties, ElementOfSeq
<1>2. \A i \in DOMAIN stack' : SitesDone(stack'[i])
  BY <1>1 DEF Done
<1>3. \A x : SitesDone(x)' <=> SitesDone(x)
  BY SitesStep
<1> QED
  BY <1>2, <1>3 DEF StackDone, SitesDone

LEMMA DoneFrames ==
  /\ \A x \in Frame : x.op # "compile" => x \in Done
  /\ TypeOK => \A f \in Functions, e \in BOOLEAN : CompileFrame(f, e) \in Done
<1>1. \A x \in Frame : x.op # "compile" => x \in Done
  BY DEF Done, SitesDone
<1>2. ASSUME TypeOK, NEW f \in Functions, NEW e \in BOOLEAN
      PROVE  CompileFrame(f, e) \in Done
  <2> DEFINE y == CompileFrame(f, e)
  <2>1. y \in Frame /\ y.op = "compile" /\ y.fn = f /\ y.site = 1
    BY CompileFrameType
  <2>2. \A i \in DOMAIN Body(f) : ~(i < 1)
    BY <1>2, SiteTypes
  <2> HIDE DEF y
  <2>3. SitesDone(y)
    BY <2>1, <2>2 DEF SitesDone
  <2> QED
    BY <2>1, <2>3 DEF Done, y
<1> QED
  BY <1>1, <1>2

LEMMA DoneAdvance ==
  ASSUME TypeOK, NEW s \in Seq(Done), s # <<>>, Last(s).op = "compile",
         /\ Last(s).site \in DOMAIN Body(Last(s).fn)
         /\ Body(Last(s).fn)[Last(s).site].kind \in {"call", "local"}
         => ~Recursive(Body(Last(s).fn)[Last(s).site].fn)
  PROVE  AdvancedSite(s) \in Seq(Done)
<1> DEFINE x == Last(s)
           y == [x EXCEPT !.site = @ + 1]
<1>1. Len(s) \in 1..Len(s) /\ x = s[Len(s)] /\ x \in Done
  BY FrontLast
<1>2. x \in Frame /\ SitesDone(x) /\ x.fn \in Functions /\ x.site \in Nat \ {0}
  BY <1>1, FrameFields DEF Done
<1>3. /\ y \in Frame /\ y.op = "compile" /\ y.fn = x.fn
      /\ y.site = x.site + 1
  BY <1>2, AdvanceFrame
<1> HIDE DEF y
<1>4. ASSUME NEW i \in DOMAIN Body(x.fn), i < x.site + 1,
             Body(x.fn)[i].kind \in {"call", "local"}
      PROVE  ~Recursive(Body(x.fn)[i].fn)
  <2>1. i \in Nat
    BY <1>2, SiteTypes
  <2>2. CASE i < x.site
    BY <1>2, <1>4, <2>2 DEF SitesDone
  <2>3. CASE i = x.site
    BY <1>4, <2>3
  <2> QED
    BY <1>2, <1>4, <2>1, <2>2, <2>3
<1>5. SitesDone(y)
  BY <1>3, <1>4 DEF SitesDone
<1>6. y \in Done
  BY <1>3, <1>5 DEF Done
<1>7. AdvancedSite(s) = [s EXCEPT ![Len(s)] = y]
  BY <1>1 DEF AdvancedSite, y
<1> QED
  BY <1>1, <1>6, <1>7, ExceptSeq

\* An _Entry is defined for a function that does not recurse
LEMMA EntryStep ==
  ASSUME TypeOK, NoEntryForRecursion, program' = program,
         NEW f \in Functions, ~Recursive(f),
         entries' = [entries EXCEPT ![NameOf(f)] = f]
  PROVE  NoEntryForRecursion'
<1>1. NameOf(f) \in Name /\ entries \in [Name -> Functions \cup {NoNode}]
  BY ProgramTypes DEF TypeOK
<1>2. ASSUME NEW h \in Functions, entries'[NameOf(h)] = h
      PROVE  ~Recursive(h)
  <2>1. NameOf(h) \in Name
    BY ProgramTypes
  <2>2. CASE NameOf(h) = NameOf(f)
    BY <1>1, <1>2, <2>2
  <2>3. CASE NameOf(h) # NameOf(f)
    BY <1>1, <1>2, <2>1, <2>3 DEF NoEntryForRecursion
  <2> QED
    BY <2>2, <2>3
<1>3. \A h : (Recursive(h)' <=> Recursive(h)) /\ NameOf(h)' = NameOf(h)
  BY NeedsStep
<1>4. ASSUME NEW h \in Functions, entries'[NameOf(h)'] = h
      PROVE  ~Recursive(h)'
  <2>1. entries'[NameOf(h)] = h
    BY <1>3, <1>4
  <2> QED
    BY <1>2, <1>3, <2>1
<1> QED
  BY <1>4 DEF NoEntryForRecursion

LEMMA SameEntries ==
  ASSUME NoEntryForRecursion, program' = program, entries' = entries
  PROVE  NoEntryForRecursion'
<1>1. \A h : (Recursive(h)' <=> Recursive(h)) /\ NameOf(h)' = NameOf(h)
  BY NeedsStep
<1>2. ASSUME NEW h \in Functions, entries'[NameOf(h)'] = h
      PROVE  ~Recursive(h)'
  <2>1. entries[NameOf(h)] = h
    BY <1>1, <1>2
  <2> QED
    BY <1>1, <2>1 DEF NoEntryForRecursion
<1> QED
  BY <1>2 DEF NoEntryForRecursion

LEMMA OpaqueNotRecursive ==
  ASSUME NEW f \in program.opaque
  PROVE  ~Recursive(f)
<1>1. Needs(f) = {}
  BY DEF Needs
<1> QED
  BY <1>1, NotRecursive

\* A function whose every site is behind its activation
LEMMA FinishedNotRecursive ==
  ASSUME TypeOK, AtReturn, SitesDone(Top)
  PROVE  Top.fn \in Functions /\ ~Recursive(Top.fn)
<1>1. Top \in Frame /\ Top.op = "compile"
  BY TopTypes DEF AtReturn, Running
<1>2. Top.fn \in Functions /\ Top.site \in Nat \ {0}
  BY <1>1, FrameFields
<1>3. ASSUME NEW g \in Needs(Top.fn) PROVE ~Recursive(g)
  <2>1. PICK i \in DOMAIN Body(Top.fn) :
          Body(Top.fn)[i].kind \in {"call", "local"} /\ Body(Top.fn)[i].fn = g
    BY <1>3 DEF Needs
  <2>2. i \in Nat /\ i <= Len(Body(Top.fn)) /\ Len(Body(Top.fn)) \in Nat
    BY <1>2, SiteTypes, ProgramTypes, LenProperties
  <2>3. i < Top.site
    BY <1>2, <2>2 DEF AtReturn
  <2> QED
    BY <1>1, <2>1, <2>3 DEF SitesDone
<1> QED
  BY <1>2, <1>3, NotRecursive

LEMMA MissDone ==
  ASSUME TypeOK, NoRecursion, program' = program,
         NEW f \in Functions, NEW base \in Seq(Done),
         CompileMissing(f, base)
  PROVE  NoRecursion'
<1>1. CASE /\ EnterFunction(f)
           /\ stack' = Append(base, CompileFrame(f, TRUE))
           /\ UNCHANGED entries
  <2>1. stack' \in Seq(Done)
    BY <1>1, DoneFrames, AppendProperties
  <2> QED
    BY <1>1, <2>1, DoneStep, SameEntries DEF NoRecursion
<1>2. CASE /\ RejectFunction(f) /\ stack' = base
           /\ entries' = [entries EXCEPT ![NameOf(f)] = f]
           /\ UNCHANGED code
  <2>1. ~Recursive(f)
    BY <1>2, OpaqueNotRecursive DEF RejectFunction
  <2> QED
    BY <1>2, <2>1, DoneStep, EntryStep DEF NoRecursion
<1> QED
  BY <1>1, <1>2 DEF CompileMissing

LEMMA NoRecursionInit == Init => NoRecursion
<1> SUFFICES ASSUME Init PROVE NoRecursion
  OBVIOUS
<1>1. StackDone
  BY EmptySeq DEF Init, StackDone
<1>2. NoEntryForRecursion
  <2> SUFFICES ASSUME NEW f \in Functions PROVE entries[NameOf(f)] # f
    BY DEF NoEntryForRecursion
  <2>1. NameOf(f) \in Name
    BY TypesInit, ProgramTypes DEF Types
  <2> QED
    BY <2>1, ConstantsAssumption DEF Init
<1> QED
  BY <1>1, <1>2 DEF NoRecursion

LEMMA NoRecursionNext == Types /\ NoRecursion /\ [Next]_vars => NoRecursion'
<1> SUFFICES ASSUME Types, NoRecursion, [Next]_vars PROVE NoRecursion'
  OBVIOUS
<1>0. /\ TypeOK /\ stack \in Seq(Frame) /\ StackDone /\ NoEntryForRecursion
      /\ stack \in Seq(Done)
  BY StackOfDone DEF Types, TypeOK, NoRecursion
<1>1. ASSUME NEW y \in Frame, y.op # "compile", stack' = Append(stack, y),
             program' = program, entries' = entries
      PROVE  NoRecursion'
  <2>1. stack' \in Seq(Done)
    BY <1>0, <1>1, DoneFrames, AppendProperties
  <2> QED
    BY <1>0, <1>1, <2>1, DoneStep, SameEntries DEF NoRecursion
<1>2. ASSUME stack # <<>>, stack' = Front(stack) \/ stack' = <<>>,
             program' = program, entries' = entries
      PROVE  NoRecursion'
  <2>1. stack' \in Seq(Done)
    BY <1>0, <1>2, FrontLast, EmptySeq
  <2> QED
    BY <1>0, <1>2, <2>1, DoneStep, SameEntries DEF NoRecursion
<1>3. ASSUME stack' = stack, program' = program, entries' = entries
      PROVE  NoRecursion'
  BY <1>0, <1>3, DoneStep, SameEntries DEF NoRecursion
<1>4. ASSUME NEW f \in Functions, Demand(f) PROVE NoRecursion'
  <2>1. RequireFrame(f) \in Frame /\ RequireFrame(f).op # "compile"
    BY DEF RequireFrame, Frame
  <2>2. stack = <<>> /\ stack' = Append(stack, RequireFrame(f))
        /\ program' = program /\ entries' = entries
    BY <1>4 DEF Demand
  <2> QED
    BY <1>1, <2>1, <2>2
<1>5. ASSUME NEW n \in Name, DemandLookup(n) PROVE NoRecursion'
  <2> DEFINE y == [op |-> "lookup", name |-> n]
  <2>1. y \in Frame /\ y.op # "compile"
    BY DEF Frame
  <2>2. stack = <<>> /\ stack' = Append(stack, y)
        /\ program' = program /\ entries' = entries
    BY <1>5 DEF DemandLookup
  <2> HIDE DEF y
  <2> QED
    BY <1>1, <2>1, <2>2
<1>6. ASSUME NEW m \in Modules, GenerateModule(m) PROVE NoRecursion'
  <2> DEFINE y == [op |-> "generate", mod |-> m, next |-> 1]
  <2>1. y \in Frame /\ y.op # "compile"
    BY DEF Frame
  <2>2. stack' = Append(stack, y) /\ program' = program /\ entries' = entries
    BY <1>6 DEF GenerateModule
  <2> HIDE DEF y
  <2> QED
    BY <1>1, <2>1, <2>2
<1>7. CASE GenerateStatement
  <2> DEFINE f == program.stmts[Top.mod][Top.next]
             t == AdvancedStatement(stack)
  <2>1. /\ Running("generate") /\ Top.next <= Len(program.stmts[Top.mod])
        /\ stack # <<>> /\ Last(stack).op = "generate"
    BY <1>7 DEF GenerateStatement, Running, Top
  <2>2. f \in Functions
    BY <1>0, <2>1, TakenNow
  <2>3. t \in Seq(Done)
    <3> DEFINE y == [Last(stack) EXCEPT !.next = @ + 1]
    <3>1. Len(stack) \in 1..Len(stack) /\ Last(stack) = stack[Len(stack)]
          /\ Last(stack) \in Frame
      BY <1>0, <2>1, FrontLast
    <3>2. y \in Frame /\ y.op = "generate"
      BY <2>1, <3>1, AdvanceFrame
    <3> HIDE DEF y
    <3>3. y \in Done
      BY <3>2, DoneFrames
    <3>4. t = [stack EXCEPT ![Len(stack)] = y]
      BY <3>1 DEF AdvancedStatement, y
    <3> QED
      BY <1>0, <3>1, <3>3, <3>4, ExceptSeq
  <2> HIDE DEF f, t
  <2>4. CASE stack' = t /\ UNCHANGED <<program, status, generated, entries,
                                       code, compileState, jit>>
    BY <1>0, <2>3, <2>4, DoneStep, SameEntries DEF NoRecursion
  <2>5. CASE CompileMissing(f, t) /\ UNCHANGED <<program, status, generated, jit>>
    BY <1>0, <2>2, <2>3, <2>5, MissDone
  <2>6. CASE Die("assert")
    BY <1>3, <2>6 DEF Die
  <2> QED
    BY <1>7, <2>4, <2>5, <2>6 DEF GenerateStatement, f, t
<1>8. CASE GenerateDone
  BY <1>2, <1>8 DEF GenerateDone, Running
<1>9. CASE RequireMiss
  <2>1. Top.fn \in Functions
    BY <1>0, <1>9, TopTypes, FrameFields DEF RequireMiss, Requiring, Running
  <2> QED
    BY <1>0, <1>9, <2>1, MissDone DEF RequireMiss
<1>10. CASE RequireClash
  BY <1>3, <1>10 DEF RequireClash, Die
<1>11. CASE FinishLookup
  <2>1. CASE stack' = Front(stack) /\ UNCHANGED <<program, status, generated,
                                        entries, code, compileState, jit>>
    BY <1>2, <1>11, <2>1 DEF FinishLookup, Running
  <2>2. CASE Die("null-entry")
    BY <1>3, <2>2 DEF Die
  <2> QED
    BY <1>11, <2>1, <2>2 DEF FinishLookup
<1>12. CASE NullPrototype
  BY <1>3, <1>12 DEF NullPrototype, Die
<1>13. CASE FinishLlvmCall
  BY <1>2, <1>13 DEF FinishLlvmCall, Hit, Requiring, Running
<1>14. CASE FinishLlvmIr
  BY <1>2, <1>14 DEF FinishLlvmIr, Hit, Requiring, Running
<1>15. CASE CallSite
  <2> DEFINE y == RequireFrame(Body(Top.fn)[Top.site].fn)
  <2>1. y \in Frame /\ y.op # "compile"
    BY <1>0, <1>15, AtSiteTypes DEF CallSite, RequireFrame, Frame
  <2>2. stack' = Append(stack, y) /\ program' = program /\ entries' = entries
    BY <1>15 DEF CallSite
  <2> HIDE DEF y
  <2> QED
    BY <1>1, <2>1, <2>2
<1>16. CASE FinishCallSite
  <2> DEFINE c == Last(Front(stack))
  <2>1. /\ stack # <<>> /\ Len(stack) > 1 /\ Top.op = "require"
        /\ Top.fn \in Functions /\ entries[NameOf(Top.fn)] = Top.fn
    BY <1>0, <1>16, TopTypes, FrameFields
    DEF FinishCallSite, Hit, Requiring, Running
  <2>2. ~Recursive(Top.fn)
    BY <1>0, <2>1 DEF NoEntryForRecursion
  <2>3. /\ Front(stack) # <<>> /\ c.op = "compile"
        /\ Waiting(c, "call", Top.fn)
    BY <2>1, WaitingCaller
  <2>4. Front(stack) \in Seq(Done)
    BY <1>0, <2>1, FrontLast
  <2>5. Body(c.fn)[c.site].fn = Top.fn
    BY <2>3 DEF Waiting
  <2>6. AdvancedSite(Front(stack)) \in Seq(Done)
    BY <1>0, <2>2, <2>3, <2>4, <2>5, DoneAdvance
  <2>7. stack' = AdvancedSite(Front(stack)) /\ program' = program
        /\ entries' = entries
    BY <1>16 DEF FinishCallSite
  <2> QED
    BY <1>0, <2>6, <2>7, DoneStep, SameEntries DEF NoRecursion
<1>17. CASE RuntimeCallSite \/ UnsupportedNode
  <2>1. \E kind \in {"runtime", "unsupported"} : AtSite(kind)
    BY <1>17 DEF RuntimeCallSite, UnsupportedNode
  <2>2. /\ stack # <<>> /\ Last(stack).op = "compile"
        /\ Body(Last(stack).fn)[Last(stack).site].kind
             \in {"runtime", "unsupported"}
    BY <1>0, <2>1, AtSiteTypes
  <2>3. AdvancedSite(stack) \in Seq(Done)
    BY <1>0, <2>2, DoneAdvance
  <2>4. stack' = AdvancedSite(stack) /\ program' = program /\ entries' = entries
    BY <1>17 DEF RuntimeCallSite, UnsupportedNode
  <2> QED
    BY <1>0, <2>3, <2>4, DoneStep, SameEntries DEF NoRecursion
<1>18. CASE LocalFunction
  <2> DEFINE g == Body(Top.fn)[Top.site].fn
  <2>1. /\ stack # <<>> /\ Last(stack) = Top /\ Top.op = "compile"
        /\ g \in Functions /\ program' = program /\ entries' = entries
    BY <1>0, <1>18, AtSiteTypes DEF LocalFunction
  <2>2. CASE EnterFunction(g) /\ stack' = Append(stack, CompileFrame(g, FALSE))
    <3>1. stack' \in Seq(Done)
      BY <1>0, <2>1, <2>2, DoneFrames, AppendProperties
    <3> QED
      BY <1>0, <2>1, <3>1, DoneStep, SameEntries DEF NoRecursion
  <2>3. CASE RejectFunction(g) /\ stack' = AdvancedSite(stack)
    <3>1. ~Recursive(g)
      BY <2>3, OpaqueNotRecursive DEF RejectFunction
    <3>2. stack' \in Seq(Done)
      BY <1>0, <2>1, <2>3, <3>1, DoneAdvance
    <3> QED
      BY <1>0, <2>1, <3>2, DoneStep, SameEntries DEF NoRecursion
  <2> QED
    BY <1>18, <2>2, <2>3 DEF LocalFunction
<1>19. CASE FinishFunction
  <2>1. stack # <<>> /\ AtReturn /\ SitesDone(Top)
    BY <1>0, <1>19, TopTypes DEF FinishFunction, AtReturn, Running, StackDone
  <2>2. Top.fn \in Functions /\ ~Recursive(Top.fn)
    BY <1>0, <2>1, FinishedNotRecursive
  <2>3. /\ stack' = Front(stack) /\ program' = program
        /\ entries' = [entries EXCEPT ![NameOf(Top.fn)] = Top.fn]
    BY <1>19 DEF FinishFunction
  <2>4. stack' \in Seq(Done)
    BY <1>0, <2>1, <2>3, FrontLast
  <2> QED
    BY <1>0, <2>2, <2>3, <2>4, DoneStep, EntryStep DEF NoRecursion
<1>20. CASE RedefineEntry
  BY <1>3, <1>20 DEF RedefineEntry, Die
<1>21. CASE FinishLocalFunction
  <2> DEFINE c == Last(Front(stack))
  <2>1. /\ stack # <<>> /\ Top.op = "compile" /\ Len(stack) \in Nat \ {0}
        /\ AtReturn /\ SitesDone(Top) /\ Top = stack[Len(stack)]
    BY <1>0, <1>21, TopTypes
    DEF FinishLocalFunction, AtReturn, Running, StackDone
  <2>2. ~Recursive(Top.fn)
    BY <1>0, <2>1, FinishedNotRecursive
  <2>3. Len(stack) # 1
    BY <2>1 DEF Types, StackShape, Shape, Bottom
  <2>4. Len(stack) > 1
    BY <2>1, <2>3
  <2>5. Top.op = "compile" /\ ~Top.entry
    BY <1>21, <2>1 DEF FinishLocalFunction
  <2>6. /\ Front(stack) # <<>> /\ c.op = "compile"
        /\ Waiting(c, "local", Top.fn)
    BY <2>1, <2>4, <2>5, WaitingCaller
  <2>7. Front(stack) \in Seq(Done)
    BY <1>0, <2>1, FrontLast
  <2>8. Body(c.fn)[c.site].fn = Top.fn
    BY <2>6 DEF Waiting
  <2>9. AdvancedSite(Front(stack)) \in Seq(Done)
    BY <1>0, <2>2, <2>6, <2>7, <2>8, DoneAdvance
  <2>10. stack' = AdvancedSite(Front(stack)) /\ program' = program
         /\ entries' = entries
    BY <1>21 DEF FinishLocalFunction
  <2> QED
    BY <1>0, <2>9, <2>10, DoneStep, SameEntries DEF NoRecursion
<1>22. CASE Overflow
  BY <1>3, <1>22 DEF Overflow, Die
<1>23. CASE UNCHANGED vars
  BY <1>3, <1>23 DEF vars
<1> QED
  BY <1>4, <1>5, <1>6, <1>7, <1>8, <1>9, <1>10, <1>11, <1>12, <1>13, <1>14,
     <1>15, <1>16, <1>17, <1>18, <1>19, <1>20, <1>21, <1>22, <1>23
  DEF Next, Step, Dead

\* A function that recurses, or calls one that does, is never compiled to the
\* end: LlvmModule::require defines an entry only after its callees'.
THEOREM RecursionHasNoEntry == Spec => []NoEntryForRecursion
<1>1. NoRecursion => NoEntryForRecursion
  BY DEF NoRecursion
<1> QED
  BY <1>1, TypesInit, TypesNext, NoRecursionInit, NoRecursionNext, PTL DEF Spec
=============================================================================
