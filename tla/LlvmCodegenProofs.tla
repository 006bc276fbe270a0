-------------------------- MODULE LlvmCodegenProofs --------------------------
(***************************************************************************)
(* Whatever the syntax trees are, however they nest and wherever a node is *)
(* given up: the blocks of a function compiled in one piece are well       *)
(* formed, its phis name the blocks control comes from unless control      *)
(* flow is nested in an arm, and nothing is added to it later.             *)
(***************************************************************************)
EXTENDS LlvmCodegenInv, LeastElements, SequenceTheorems

-----------------------------------------------------------------------------
\* What the operations on sequences return

LEMMA FrontLast ==
  ASSUME NEW S, NEW s \in Seq(S), s # <<>>
  PROVE  /\ Len(s) \in Nat \ {0}
         /\ Last(s) = s[Len(s)] /\ Last(s) \in S
         /\ Front(s) \in Seq(S)
         /\ Len(Front(s)) = Len(s) - 1
         /\ \A i \in 1..(Len(s) - 1) : Front(s)[i] = s[i]
<1>1. Len(s) \in Nat \ {0}
  BY EmptySeq
<1>2. Last(s) = s[Len(s)] /\ Last(s) \in S
  BY <1>1, ElementOfSeq DEF Last
<1>3. /\ Front(s) \in Seq(S)
      /\ Len(Front(s)) = Len(s) - 1
      /\ \A i \in 1..(Len(s) - 1) : Front(s)[i] = s[i]
  <2>1. \A i \in 1..(Len(s) - 1) : s[i] \in S
    BY <1>1, ElementOfSeq
  <2> DEFINE n == Len(s) - 1
  <2>2. n \in Int /\ 1 \in Int /\ \A i \in 1..n : s[i] \in S
    BY <1>1, <2>1
  <2> HIDE DEF n
  <2>3. /\ SubSeq(s, 1, n) \in Seq(S)
        /\ Len(SubSeq(s, 1, n)) = IF 1 <= n THEN n - 1 + 1 ELSE 0
        /\ \A i \in 1..(n - 1 + 1) : SubSeq(s, 1, n)[i] = s[1 + i - 1]
    BY <2>2, SubSeqProperties
  <2>4. Front(s) = SubSeq(s, 1, n) /\ n = Len(s) - 1
    BY DEF Front, n
  <2>5. n \in Nat /\ n - 1 + 1 = n /\ \A i \in 1..n : 1 + i - 1 = i
    BY <1>1, <2>4
  <2> DEFINE t == SubSeq(s, 1, n)
  <2> HIDE DEF t
  <2>6. t \in Seq(S) /\ Len(t) = n /\ \A i \in 1..n : t[i] = s[i]
    BY <2>3, <2>5 DEF t
  <2> QED
    BY <2>4, <2>6 DEF t
<1> QED
  BY <1>1, <1>2, <1>3

LEMMA Appended ==
  ASSUME NEW S, NEW s \in Seq(S), NEW x \in S
  PROVE  /\ Append(s, x) \in Seq(S)
         /\ Len(s) \in Nat /\ DOMAIN s = 1 .. Len(s)
         /\ Len(Append(s, x)) = Len(s) + 1
         /\ DOMAIN Append(s, x) = 1 .. Len(s) + 1
         /\ \A i \in 1 .. Len(s) : Append(s, x)[i] = s[i]
         /\ Append(s, x)[Len(s) + 1] = x
BY LenProperties, AppendProperties

-----------------------------------------------------------------------------
\* What the operations on a compile state leave alone

\* Which functions there are, and in what state each is
Same(s, t) ==
  /\ t.fn = s.fn /\ t.entries = s.entries
  /\ t.open = s.open /\ t.cut = s.cut /\ t.within = s.within

\* A block to which nothing was added that control flow consists of
Similar(block, other) ==
  /\ TargetsOf(other) = TargetsOf(block) /\ Phis(other) = Phis(block)
  /\ IsOpen(block) => IsOpen(other)

\* Straight code: the registers aside, only the block being filled has grown
Extended(s, t) ==
  /\ Same(s, t) /\ t.stack = s.stack /\ t.at = s.at /\ t.nested = s.nested
  /\ DOMAIN t.blocks = DOMAIN s.blocks
  /\ \A f \in DOMAIN s.blocks :
       /\ DOMAIN t.blocks[f] = DOMAIN s.blocks[f]
       /\ \A b \in DOMAIN s.blocks[f] :
            /\ <<f, b>> # s.at => t.blocks[f][b] = s.blocks[f][b]
            /\ <<f, b>> = s.at => Similar(s.blocks[f][b], t.blocks[f][b])

LEMMA ExtendedByNothing ==
  ASSUME NEW s, NEW t, Same(s, t), t.stack = s.stack, t.at = s.at, t.nested = s.nested,
         t.blocks = s.blocks
  PROVE  Extended(s, t)
BY DEF Extended, Similar

LEMMA ExtendedTwice ==
  ASSUME NEW s, NEW t, NEW u, Extended(s, t), Extended(t, u)
  PROVE  Extended(s, u)
BY DEF Extended, Similar, Same

LEMMA ExtendedExists ==
  ASSUME NEW s, NEW t, Extended(s, t), NEW p, Exists(s, p)
  PROVE  Exists(t, p)
BY DEF Extended, Exists

-----------------------------------------------------------------------------
\* Emission

LEMMA EmitIs ==
  ASSUME NEW s, Types(s), Exists(s, s.at), NEW ins \in Instructions
  PROVE  /\ Types(Emit(s, ins)) /\ Same(s, Emit(s, ins))
         /\ Emit(s, ins).stack = s.stack /\ Emit(s, ins).at = s.at
         /\ Emit(s, ins).nested = s.nested /\ Emit(s, ins).val = s.val
         /\ DOMAIN Emit(s, ins).blocks = DOMAIN s.blocks
         /\ \A f \in DOMAIN s.blocks :
              /\ DOMAIN Emit(s, ins).blocks[f] = DOMAIN s.blocks[f]
              /\ \A b \in DOMAIN s.blocks[f] :
                   Emit(s, ins).blocks[f][b] =
                     IF <<f, b>> = s.at THEN Append(s.blocks[f][b], ins) ELSE s.blocks[f][b]
<1> DEFINE t == Emit(s, ins)
           f0 == s.at[1]
           b0 == s.at[2]
           filled == Append(s.blocks[f0][b0], ins)
<1>1. /\ s.at = <<f0, b0>> /\ f0 \in DOMAIN s.blocks /\ b0 \in DOMAIN s.blocks[f0]
      /\ s.blocks[f0] \in Seq(Seq(Instructions))
  BY DEF Types, Exists, Places
<1>2. s.blocks[f0][b0] \in Seq(Instructions) /\ b0 \in 1 .. Len(s.blocks[f0])
  BY <1>1, ElementOfSeq, LenProperties
<1>3. filled \in Seq(Instructions)
  BY <1>2, Appended
<1>4. t = [s EXCEPT !.blocks = [s.blocks EXCEPT ![f0] =
              [s.blocks[f0] EXCEPT ![b0] = Append(s.blocks[f0][b0], ins)]]]
  BY DEF Emit
<1>5. /\ DOMAIN t = DOMAIN Fresh
      /\ t.stack = s.stack /\ t.scopes = s.scopes /\ t.fn = s.fn /\ t.at = s.at
      /\ t.val = s.val /\ t.inst = s.inst /\ t.entries = s.entries
      /\ t.open = s.open /\ t.cut = s.cut /\ t.within = s.within /\ t.nested = s.nested
  BY <1>4 DEF Types, Fresh
<1>6. t.blocks = [s.blocks EXCEPT ![f0] =
                    [s.blocks[f0] EXCEPT ![b0] = Append(s.blocks[f0][b0], ins)]]
  BY <1>4 DEF Types, Fresh
<1> HIDE DEF t
<1>7. /\ DOMAIN t.blocks = DOMAIN s.blocks
      /\ t.blocks[f0] = [s.blocks[f0] EXCEPT ![b0] = filled]
      /\ \A f \in DOMAIN s.blocks : f # f0 => t.blocks[f] = s.blocks[f]
  BY <1>1, <1>6
<1>8. t.blocks[f0] \in Seq(Seq(Instructions))
  BY <1>1, <1>2, <1>3, <1>7, ExceptSeq
<1>9. Types(t)
  BY <1>5, <1>7, <1>8 DEF Types
<1>10. \A f \in DOMAIN s.blocks :
         /\ DOMAIN t.blocks[f] = DOMAIN s.blocks[f]
         /\ \A b \in DOMAIN s.blocks[f] :
              t.blocks[f][b] =
                IF <<f, b>> = s.at THEN Append(s.blocks[f][b], ins) ELSE s.blocks[f][b]
  <2>1. ASSUME NEW f \in DOMAIN s.blocks, f # f0
        PROVE  t.blocks[f] = s.blocks[f] /\ \A b : <<f, b>> # s.at
    BY <1>1, <1>7, <2>1
  <2>2. DOMAIN t.blocks[f0] = DOMAIN s.blocks[f0]
    BY <1>7
  <2>3. ASSUME NEW b \in DOMAIN s.blocks[f0]
        PROVE  t.blocks[f0][b] =
                 IF <<f0, b>> = s.at THEN Append(s.blocks[f0][b], ins) ELSE s.blocks[f0][b]
    <3>1. <<f0, b>> = s.at <=> b = b0
      BY <1>1
    <3>2. t.blocks[f0][b] = IF b = b0 THEN filled ELSE s.blocks[f0][b]
      BY <1>7
    <3> QED
      BY <3>1, <3>2
  <2> QED
    BY <2>1, <2>2, <2>3
<1> QED
  BY <1>5, <1>7, <1>9, <1>10 DEF t, Same

LEMMA Plainly ==
  ASSUME NEW block \in Seq(Instructions), NEW ins \in Instructions,
         ins.op \notin {"br", "ret", "phi"}
  PROVE  Similar(block, Append(block, ins))
<1> DEFINE other == Append(block, ins)
<1>1. /\ Len(block) \in Nat /\ DOMAIN block = 1 .. Len(block)
      /\ DOMAIN other = 1 .. Len(block) + 1
      /\ \A i \in 1 .. Len(block) : other[i] = block[i]
      /\ other[Len(block) + 1] = ins
  BY Appended
<1> HIDE DEF other
<1>2. ToSet(other) = ToSet(block) \cup {ins}
  BY <1>1 DEF ToSet
<1>3. Phis(other) = Phis(block)
  BY <1>2 DEF Phis
<1>4. { k \in ToSet(other) : k.op = "br" } = { k \in ToSet(block) : k.op = "br" }
  BY <1>2
<1>5. TargetsOf(other) = TargetsOf(block)
  BY <1>4 DEF TargetsOf
<1>6. IsOpen(block) => IsOpen(other)
  BY <1>1 DEF IsOpen, Terminators
<1> QED
  BY <1>3, <1>5, <1>6 DEF other, Similar

LEMMA EmitPlainly ==
  ASSUME NEW s, Types(s), Exists(s, s.at), NEW ins \in Instructions,
         ins.op \notin {"br", "ret", "phi"}
  PROVE  Types(Emit(s, ins)) /\ Extended(s, Emit(s, ins))
<1> DEFINE t == Emit(s, ins)
<1>1. /\ Types(t) /\ Same(s, t) /\ t.stack = s.stack /\ t.at = s.at /\ t.nested = s.nested
      /\ DOMAIN t.blocks = DOMAIN s.blocks
      /\ \A f \in DOMAIN s.blocks :
           /\ DOMAIN t.blocks[f] = DOMAIN s.blocks[f]
           /\ \A b \in DOMAIN s.blocks[f] :
                t.blocks[f][b] =
                  IF <<f, b>> = s.at THEN Append(s.blocks[f][b], ins) ELSE s.blocks[f][b]
  BY EmitIs
<1> HIDE DEF t
<1>2. \A f \in DOMAIN s.blocks : \A b \in DOMAIN s.blocks[f] :
        s.blocks[f][b] \in Seq(Instructions)
  BY ElementOfSeq, LenProperties DEF Types
<1>3. \A f \in DOMAIN s.blocks : \A b \in DOMAIN s.blocks[f] :
        <<f, b>> = s.at => Similar(s.blocks[f][b], t.blocks[f][b])
  BY <1>1, <1>2, Plainly
<1> QED
  BY <1>1, <1>3 DEF Extended, t

LEMMA ReturnedIs ==
  ASSUME NEW s, Types(s), NEW v \in Values
  PROVE  /\ Types(Returned(s, v)) /\ Extended(s, Returned(s, v))
         /\ Returned(s, v).val = v
<1> DEFINE t == Returned(s, v)
<1>1. /\ DOMAIN t = DOMAIN Fresh
      /\ t.stack = s.stack /\ t.scopes = s.scopes /\ t.fn = s.fn /\ t.at = s.at
      /\ t.val = v /\ t.inst = s.inst /\ t.entries = s.entries /\ t.blocks = s.blocks
      /\ t.open = s.open /\ t.cut = s.cut /\ t.within = s.within /\ t.nested = s.nested
  BY DEF Types, Fresh, Returned
<1> HIDE DEF t
<1>2. Types(t)
  BY <1>1 DEF Types
<1>3. Extended(s, t)
  BY <1>1, ExtendedByNothing DEF Same
<1> QED
  BY <1>1, <1>2, <1>3 DEF t

LEMMA CrashIs ==
  ASSUME NEW s, Types(s)
  PROVE  Types(Crash(s)) /\ Extended(s, Crash(s)) /\ Crash(s).val = s.val
<1> DEFINE t == Crash(s)
<1>1. /\ DOMAIN t = DOMAIN Fresh
      /\ t.stack = s.stack /\ t.scopes = s.scopes /\ t.fn = s.fn /\ t.at = s.at
      /\ t.val = s.val /\ t.inst = s.inst /\ t.entries = s.entries /\ t.blocks = s.blocks
      /\ t.open = s.open /\ t.cut = s.cut /\ t.within = s.within /\ t.nested = s.nested
  BY DEF Types, Fresh, Crash
<1> HIDE DEF t
<1>2. Types(t)
  BY <1>1 DEF Types
<1>3. Extended(s, t)
  BY <1>1, ExtendedByNothing DEF Same
<1> QED
  BY <1>1, <1>2, <1>3 DEF t

LEMMA ThrowIs ==
  ASSUME NEW s, Types(s)
  PROVE  Types(Throw(s)) /\ Extended(s, Throw(s))
<1> DEFINE t == Throw(s)
<1>1. /\ DOMAIN t = DOMAIN Fresh
      /\ t.stack = s.stack /\ t.scopes = s.scopes /\ t.fn = s.fn /\ t.at = s.at
      /\ t.val = s.val /\ t.inst = s.inst /\ t.entries = s.entries /\ t.blocks = s.blocks
      /\ t.open = s.open /\ t.cut = s.cut /\ t.within = s.within /\ t.nested = s.nested
  BY DEF Types, Fresh, Throw
<1> HIDE DEF t
<1>2. Types(t)
  BY <1>1 DEF Types
<1>3. Extended(s, t)
  BY <1>1, ExtendedByNothing DEF Same
<1> QED
  BY <1>2, <1>3 DEF t

LEMMA FaultIs ==
  ASSUME NEW s, Types(s), NEW what, NEW holds
  PROVE  /\ Types(Fault(s, what, holds)) /\ Extended(s, Fault(s, what, holds))
         /\ Fault(s, what, holds).val = s.val
<1> DEFINE t == Fault(s, what, holds)
<1>1. /\ DOMAIN t = DOMAIN Fresh
      /\ t.stack = s.stack /\ t.scopes = s.scopes /\ t.fn = s.fn /\ t.at = s.at
      /\ t.val = s.val /\ t.inst = s.inst /\ t.entries = s.entries /\ t.blocks = s.blocks
      /\ t.open = s.open /\ t.cut = s.cut /\ t.within = s.within /\ t.nested = s.nested
  BY DEF Types, Fresh, Fault
<1> HIDE DEF t
<1>2. Types(t)
  BY <1>1 DEF Types
<1>3. Extended(s, t)
  BY <1>1, ExtendedByNothing DEF Same
<1> QED
  BY <1>1, <1>2, <1>3 DEF t

LEMMA ResultIs ==
  ASSUME NEW s, Types(s), Exists(s, s.at), NEW type \in {"null", "inst", "ptr", "bool"}
  PROVE  Result(s, type) \in Values
<1>1. s.blocks[s.at[1]] \in Seq(Seq(Instructions)) /\ s.at[2] \in DOMAIN s.blocks[s.at[1]]
  BY DEF Types, Exists
<1>2. s.blocks[s.at[1]][s.at[2]] \in Seq(Instructions)
  BY <1>1, ElementOfSeq, LenProperties
<1>3. Len(s.blocks[s.at[1]][s.at[2]]) \in Nat
  BY <1>2, LenProperties
<1>4. s.at \in Places
  BY DEF Types
<1> DEFINE m == Len(s.blocks[s.at[1]][s.at[2]])
<1>5. Result(s, type) = [type |-> type, at |-> s.at, i |-> m + 1]
  BY DEF Result
<1>6. m \in Nat
  BY <1>3
<1> HIDE DEF m
<1> QED
  BY <1>4, <1>5, <1>6 DEF Values

LEMMA EmitReturnedPlainly ==
  ASSUME NEW s, Types(s), Exists(s, s.at), NEW type \in {"null", "inst", "ptr", "bool"},
         NEW ins \in Instructions, ins.op \notin {"br", "ret", "phi"}
  PROVE  Types(EmitReturned(s, type, ins)) /\ Extended(s, EmitReturned(s, type, ins))
<1>1. Types(Emit(s, ins)) /\ Extended(s, Emit(s, ins))
  BY EmitPlainly
<1>2. Result(s, type) \in Values
  BY ResultIs
<1> QED
  BY <1>1, <1>2, ReturnedIs, ExtendedTwice DEF EmitReturned

\* The constants among the values, and the instructions that are emitted
LEMMA Constants ==
  /\ Literal \in Values /\ Default \in Values /\ NoValue \in Values
  /\ \A f \in Names, i \in Nat : Argument(f, i) \in Values
<1>1. Literal \in Values
  BY DEF Literal, Values, Places, Names
<1>2. Default \in Values
  BY DEF Default, Values, Places, Names
<1>3. NoValue \in Values
  BY DEF NoValue, Values, Places, Names
<1>4. \A f \in Names, i \in Nat : Argument(f, i) \in Values
  BY DEF Argument, Values, Places, Names
<1> QED
  BY <1>1, <1>2, <1>3, <1>4

LEMMA InstructionIs ==
  ASSUME NEW op \in {"alloca", "load", "store", "call", "phi", "br", "ret"},
         NEW args \in Seq(Values), NEW places \in Seq(Places)
  PROVE  /\ Instruction(op, args, places) \in Instructions
         /\ Instruction(op, args, places).op = op
         /\ Instruction(op, args, places).places = places
BY DEF Instruction, Instructions, Names

LEMMA CallIs ==
  ASSUME NEW args \in Seq(Values), NEW callee \in Names
  PROVE  /\ [Instruction("call", args, <<>>) EXCEPT !.callee = callee] \in Instructions
         /\ [Instruction("call", args, <<>>) EXCEPT !.callee = callee].op = "call"
<1>1. <<>> \in Seq(Places)
  OBVIOUS
<1>2. [Instruction("call", args, <<>>) EXCEPT !.callee = callee]
        = [op |-> "call", args |-> args, places |-> <<>>, callee |-> callee]
  BY DEF Instruction
<1> QED
  BY <1>1, <1>2 DEF Instructions

LEMMA GenInstanceAssignIs ==
  ASSUME NEW s, Types(s), Exists(s, s.at), NEW dest \in Values, NEW src \in Values
  PROVE  /\ Types(GenInstanceAssign(s, dest, src))
         /\ Extended(s, GenInstanceAssign(s, dest, src))
<1> DEFINE faulty == dest.type # "ptr" \/ src.type = "bool"
           u == Fault(s, "store", faulty)
           ins == Instruction("store", <<dest, src>>, <<>>)
<1>1. CASE NoValue \in {dest, src}
  BY <1>1, CrashIs DEF GenInstanceAssign
<1>2. CASE NoValue \notin {dest, src}
  <2>1. Types(u) /\ Extended(s, u)
    BY FaultIs
  <2>2. Exists(u, u.at)
    BY <2>1, ExtendedExists DEF Extended
  <2>3. <<dest, src>> \in Seq(Values) /\ <<>> \in Seq(Places)
    OBVIOUS
  <2>4. ins \in Instructions /\ ins.op = "store"
    BY <2>3 DEF Instruction, Instructions, Names
  <2>5. GenInstanceAssign(s, dest, src) = Emit(u, ins)
    BY <1>2 DEF GenInstanceAssign
  <2> HIDE DEF u, ins
  <2>6. Types(Emit(u, ins)) /\ Extended(u, Emit(u, ins))
    BY <2>1, <2>2, <2>4, EmitPlainly
  <2> QED
    BY <2>1, <2>5, <2>6, ExtendedTwice
<1> QED
  BY <1>1, <1>2

LEMMA GenCallIs ==
  ASSUME NEW s, Types(s), Exists(s, s.at), NEW callee \in Names,
         NEW returns \in {"null", "inst", "ptr", "bool"}, NEW args \in Seq(Values)
  PROVE  /\ Types(GenCall(s, callee, returns, args))
         /\ Extended(s, GenCall(s, callee, returns, args))
<1> DEFINE faulty == \E a \in ToSet(args) : a.type = "bool"
           u == Fault(s, "call", faulty)
           ins == [Instruction("call", args, <<>>) EXCEPT !.callee = callee]
<1>1. CASE NoValue \in ToSet(args)
  BY <1>1, CrashIs DEF GenCall
<1>2. CASE NoValue \notin ToSet(args)
  <2>1. Types(u) /\ Extended(s, u)
    BY FaultIs
  <2>2. Exists(u, u.at)
    <3> HIDE DEF u
    <3> QED
      BY <2>1, ExtendedExists DEF Extended
  <2>4. ins \in Instructions /\ ins.op = "call"
    BY CallIs
  <2>5. GenCall(s, callee, returns, args) = EmitReturned(u, returns, ins)
    BY <1>2 DEF GenCall
  <2> HIDE DEF u, ins
  <2>6. Types(EmitReturned(u, returns, ins)) /\ Extended(u, EmitReturned(u, returns, ins))
    BY <2>1, <2>2, <2>4, EmitReturnedPlainly
  <2> QED
    BY <2>1, <2>5, <2>6, ExtendedTwice
<1> QED
  BY <1>1, <1>2

LEMMA GenTruthIs ==
  ASSUME NEW s, Types(s), Exists(s, s.at)
  PROVE  Types(GenTruth(s)) /\ Extended(s, GenTruth(s))
<1>1. <<s.val>> \in Seq(Values)
  BY DEF Types
<1>2. "___cult__runtime_truth" \in Names /\ "bool" \in {"null", "inst", "ptr", "bool"}
  BY DEF Names
<1>3. GenTruth(s) = GenCall(s, "___cult__runtime_truth", "bool", <<s.val>>)
  BY DEF GenTruth
<1> QED
  BY <1>1, <1>2, <1>3, GenCallIs

LEMMA GenLoadIs ==
  ASSUME NEW s, Types(s), Exists(s, s.at)
  PROVE  Types(GenLoad(s)) /\ Extended(s, GenLoad(s))
<1> DEFINE faulty == s.val.type # "ptr"
           u == Fault(s, "load", faulty)
           ins == Instruction("load", <<s.val>>, <<>>)
<1>1. CASE s.val = NoValue
  BY <1>1, CrashIs DEF GenLoad
<1>2. CASE s.val # NoValue
  <2>1. Types(u) /\ Extended(s, u)
    BY FaultIs
  <2>2. Exists(u, u.at)
    BY <2>1, ExtendedExists DEF Extended
  <2>3. <<s.val>> \in Seq(Values) /\ <<>> \in Seq(Places)
    BY DEF Types
  <2>4. ins \in Instructions /\ ins.op = "load"
    BY <2>3 DEF Instruction, Instructions, Names
  <2>5. GenLoad(s) = EmitReturned(u, "inst", ins)
    BY <1>2 DEF GenLoad
  <2> HIDE DEF u, ins
  <2>6. Types(EmitReturned(u, "inst", ins)) /\ Extended(u, EmitReturned(u, "inst", ins))
    BY <2>1, <2>2, <2>4, EmitReturnedPlainly
  <2> QED
    BY <2>1, <2>5, <2>6, ExtendedTwice
<1> QED
  BY <1>1, <1>2

-----------------------------------------------------------------------------
\* Blocks

LEMMA BlocksIs ==
  ASSUME NEW s, Types(s), NEW f
  PROVE  Blocks(s, f) \in Seq(Seq(Instructions))
BY DEF Blocks, Types

LEMMA SetBlocksIs ==
  ASSUME NEW s, Types(s), NEW f, NEW seq \in Seq(Seq(Instructions))
  PROVE  /\ Types(SetBlocks(s, f, seq)) /\ Same(s, SetBlocks(s, f, seq))
         /\ SetBlocks(s, f, seq).stack = s.stack /\ SetBlocks(s, f, seq).at = s.at
         /\ SetBlocks(s, f, seq).nested = s.nested /\ SetBlocks(s, f, seq).val = s.val
         /\ SetBlocks(s, f, seq).scopes = s.scopes
         /\ DOMAIN SetBlocks(s, f, seq).blocks = DOMAIN s.blocks \cup {f}
         /\ SetBlocks(s, f, seq).blocks[f] = seq
         /\ \A g \in DOMAIN s.blocks : g # f => SetBlocks(s, f, seq).blocks[g] = s.blocks[g]
<1> DEFINE t == SetBlocks(s, f, seq)
<1>1. t = [s EXCEPT !.blocks = [g \in DOMAIN s.blocks \cup {f} |->
                                  IF g = f THEN seq ELSE s.blocks[g]]]
  BY DEF SetBlocks
<1>2. /\ DOMAIN t = DOMAIN Fresh
      /\ t.stack = s.stack /\ t.scopes = s.scopes /\ t.fn = s.fn /\ t.at = s.at
      /\ t.val = s.val /\ t.inst = s.inst /\ t.entries = s.entries
      /\ t.open = s.open /\ t.cut = s.cut /\ t.within = s.within /\ t.nested = s.nested
      /\ t.blocks = [g \in DOMAIN s.blocks \cup {f} |-> IF g = f THEN seq ELSE s.blocks[g]]
  BY <1>1 DEF Types, Fresh
<1> HIDE DEF t
<1>3. /\ DOMAIN t.blocks = DOMAIN s.blocks \cup {f} /\ t.blocks[f] = seq
      /\ \A g \in DOMAIN s.blocks : g # f => t.blocks[g] = s.blocks[g]
  BY <1>2
<1>4. Types(t)
  BY <1>2, <1>3 DEF Types
<1> QED
  BY <1>2, <1>3, <1>4 DEF t, Same

LEMMA AddBlockIs ==
  ASSUME NEW s, Types(s)
  PROVE  /\ Types(AddBlock(s)) /\ Same(s, AddBlock(s))
         /\ AddBlock(s).stack = s.stack /\ AddBlock(s).at = s.at
         /\ AddBlock(s).nested = s.nested /\ AddBlock(s).val = s.val
         /\ DOMAIN AddBlock(s).blocks = DOMAIN s.blocks \cup {s.fn}
         /\ AddBlock(s).blocks[s.fn] = Append(Blocks(s, s.fn), <<>>)
         /\ \A g \in DOMAIN s.blocks : g # s.fn => AddBlock(s).blocks[g] = s.blocks[g]
<1>1. Append(Blocks(s, s.fn), <<>>) \in Seq(Seq(Instructions))
  <2>1. <<>> \in Seq(Instructions)
    OBVIOUS
  <2> QED
    BY <2>1, BlocksIs, Appended
<1> DEFINE seq == Append(Blocks(s, s.fn), <<>>)
<1>2. AddBlock(s) = SetBlocks(s, s.fn, seq)
  BY DEF AddBlock
<1>3. seq \in Seq(Seq(Instructions))
  BY <1>1
<1> HIDE DEF seq
<1>4. /\ Types(AddBlock(s)) /\ Same(s, AddBlock(s))
      /\ AddBlock(s).stack = s.stack /\ AddBlock(s).at = s.at
      /\ AddBlock(s).nested = s.nested /\ AddBlock(s).val = s.val
      /\ DOMAIN AddBlock(s).blocks = DOMAIN s.blocks \cup {s.fn}
      /\ AddBlock(s).blocks[s.fn] = seq
      /\ \A g \in DOMAIN s.blocks : g # s.fn => AddBlock(s).blocks[g] = s.blocks[g]
  BY <1>2, <1>3, SetBlocksIs
<1> QED
  BY <1>4 DEF seq

LEMMA SetInsertPointIs ==
  ASSUME NEW s, Types(s), NEW p \in Places
  PROVE  /\ Types(SetInsertPoint(s, p)) /\ Same(s, SetInsertPoint(s, p))
         /\ SetInsertPoint(s, p).stack = s.stack /\ SetInsertPoint(s, p).at = p
         /\ SetInsertPoint(s, p).nested = s.nested /\ SetInsertPoint(s, p).val = s.val
         /\ SetInsertPoint(s, p).blocks = s.blocks
<1> DEFINE t == SetInsertPoint(s, p)
<1>1. /\ DOMAIN t = DOMAIN Fresh
      /\ t.stack = s.stack /\ t.scopes = s.scopes /\ t.fn = s.fn /\ t.at = p
      /\ t.val = s.val /\ t.inst = s.inst /\ t.entries = s.entries /\ t.blocks = s.blocks
      /\ t.open = s.open /\ t.cut = s.cut /\ t.within = s.within /\ t.nested = s.nested
  BY DEF Types, Fresh, SetInsertPoint
<1> HIDE DEF t
<1>2. Types(t)
  BY <1>1 DEF Types
<1> QED
  BY <1>1, <1>2 DEF t, Same

LEMMA NewBlockIs ==
  ASSUME NEW s, Types(s)
  PROVE  /\ NewBlock(s) \in Places
         /\ NewBlock(s)[1] = s.fn /\ NewBlock(s)[2] = Len(Blocks(s, s.fn)) + 1
         /\ Exists(AddBlock(s), NewBlock(s))
<1> DEFINE B == Blocks(s, s.fn)
<1>1. B \in Seq(Seq(Instructions)) /\ <<>> \in Seq(Instructions)
  BY BlocksIs
<1> HIDE DEF B
<1>2. Len(B) \in Nat /\ DOMAIN Append(B, <<>>) = 1 .. Len(B) + 1
  BY <1>1, Appended
<1>3. NewBlock(s) = <<s.fn, Len(B) + 1>>
  BY DEF NewBlock, B
<1>4. /\ DOMAIN AddBlock(s).blocks = DOMAIN s.blocks \cup {s.fn}
      /\ AddBlock(s).blocks[s.fn] = Append(B, <<>>)
  BY AddBlockIs DEF B
<1> QED
  BY <1>2, <1>3, <1>4 DEF Places, Exists, Types, B

-----------------------------------------------------------------------------
\* The stack

LEMMA StackIs ==
  ASSUME NEW s, Types(s), NEW stack \in Seq(Frames)
  PROVE  /\ Types([s EXCEPT !.stack = stack]) /\ Same(s, [s EXCEPT !.stack = stack])
         /\ [s EXCEPT !.stack = stack].stack = stack
         /\ [s EXCEPT !.stack = stack].at = s.at
         /\ [s EXCEPT !.stack = stack].nested = s.nested
         /\ [s EXCEPT !.stack = stack].val = s.val
         /\ [s EXCEPT !.stack = stack].inst = s.inst
         /\ [s EXCEPT !.stack = stack].blocks = s.blocks
<1> DEFINE t == [s EXCEPT !.stack = stack]
<1>1. /\ DOMAIN t = DOMAIN Fresh
      /\ t.stack = stack /\ t.scopes = s.scopes /\ t.fn = s.fn /\ t.at = s.at
      /\ t.val = s.val /\ t.inst = s.inst /\ t.entries = s.entries /\ t.blocks = s.blocks
      /\ t.open = s.open /\ t.cut = s.cut /\ t.within = s.within /\ t.nested = s.nested
  BY DEF Types, Fresh
<1> HIDE DEF t
<1>2. Types(t)
  BY <1>1 DEF Types
<1> QED
  BY <1>1, <1>2 DEF t, Same

\* A state with frames on top of another's, and nothing else changed
OnTop(s, t) ==
  /\ Same(s, t) /\ t.at = s.at /\ t.nested = s.nested /\ t.blocks = s.blocks
  /\ Len(s.stack) <= Len(t.stack)
  /\ \A i \in 1 .. Len(s.stack) : t.stack[i] = s.stack[i]

LEMMA CallFrame ==
  ASSUME NEW s, Types(s), NEW frame \in Frames
  PROVE  /\ Types(Call(s, frame)) /\ OnTop(s, Call(s, frame))
         /\ Len(Call(s, frame).stack) = Len(s.stack) + 1
         /\ Call(s, frame).stack[Len(s.stack) + 1] = frame
         /\ Call(s, frame).val = s.val
<1> DEFINE k == Append(s.stack, frame)
<1>1. s.stack \in Seq(Frames)
  BY DEF Types
<1>2. /\ k \in Seq(Frames) /\ Len(s.stack) \in Nat /\ Len(k) = Len(s.stack) + 1
      /\ \A i \in 1 .. Len(s.stack) : k[i] = s.stack[i]
      /\ k[Len(s.stack) + 1] = frame
  BY <1>1, Appended
<1>3. Call(s, frame) = [s EXCEPT !.stack = k]
  BY DEF Call
<1> HIDE DEF k
<1> QED
  BY <1>2, <1>3, StackIs DEF OnTop

LEMMA CallThenIs ==
  ASSUME NEW s, Types(s), NEW frame \in Frames, NEW n, Compiling(n) \in Frames
  PROVE  /\ Types(CallThen(s, n, frame)) /\ OnTop(s, CallThen(s, n, frame))
         /\ Len(CallThen(s, n, frame).stack) = Len(s.stack) + 2
         /\ CallThen(s, n, frame).stack[Len(s.stack) + 1] = frame
         /\ CallThen(s, n, frame).stack[Len(s.stack) + 2] = Compiling(n)
<1> DEFINE u == Call(s, frame)
           t == Call(u, Compiling(n))
<1>1. /\ Types(u) /\ OnTop(s, u) /\ Len(u.stack) = Len(s.stack) + 1
      /\ u.stack[Len(s.stack) + 1] = frame
  BY CallFrame
<1>2. Len(s.stack) \in Nat
  BY LenProperties DEF Types
<1> HIDE DEF u
<1>3. /\ Types(t) /\ OnTop(u, t) /\ Len(t.stack) = Len(u.stack) + 1
      /\ t.stack[Len(u.stack) + 1] = Compiling(n)
  BY <1>1, CallFrame
<1> HIDE DEF t
<1>4. OnTop(s, t)
  BY <1>1, <1>2, <1>3 DEF OnTop, Same
<1>5. Len(t.stack) = Len(s.stack) + 2 /\ t.stack[Len(s.stack) + 2] = Compiling(n)
  BY <1>1, <1>2, <1>3
<1>6. t.stack[Len(s.stack) + 1] = frame
  BY <1>1, <1>2, <1>3 DEF OnTop
<1> QED
  BY <1>3, <1>4, <1>5, <1>6 DEF CallThen, t, u

LEMMA CallAllIs ==
  ASSUME NEW s, Types(s), NEW nodes \in Seq(Nodes)
  PROVE  /\ Types(CallAll(s, nodes)) /\ OnTop(s, CallAll(s, nodes))
         /\ Len(CallAll(s, nodes).stack) = Len(s.stack) + Len(nodes)
         /\ \A i \in Len(s.stack) + 1 .. Len(s.stack) + Len(nodes) :
              \E n \in Nodes : CallAll(s, nodes).stack[i] = Compiling(n)
<1> DEFINE N == Len(nodes)
           fs == [ i \in 1 .. Len(nodes) |-> Compiling(nodes[Len(nodes) + 1 - i]) ]
           k == s.stack \o fs
<1>1. N \in Nat /\ s.stack \in Seq(Frames) /\ Len(s.stack) \in Nat
  BY LenProperties DEF Types
<1>2. \A i \in 1 .. N : nodes[N + 1 - i] \in Nodes
  BY <1>1, ElementOfSeq
<1>3. \A n \in Nodes : Compiling(n) \in Frames
  BY DEF Compiling, Frames, CompileFrames
<1>4. \A i \in 1 .. N : \E n \in Nodes : fs[i] = Compiling(n)
  BY <1>2
<1>5. fs \in Seq(Frames) /\ Len(fs) = N
  BY <1>1, <1>2, <1>3
<1> HIDE DEF fs
<1>0. /\ k \in Seq(Frames) /\ Len(k) = Len(s.stack) + Len(fs)
      /\ \A i \in 1 .. Len(s.stack) + Len(fs) : k[i] =
           IF i <= Len(s.stack) THEN s.stack[i] ELSE fs[i - Len(s.stack)]
  BY <1>1, <1>5, ConcatProperties
<1>6. /\ k \in Seq(Frames) /\ Len(k) = Len(s.stack) + N
      /\ \A i \in 1 .. Len(s.stack) + N : k[i] =
           IF i <= Len(s.stack) THEN s.stack[i] ELSE fs[i - Len(s.stack)]
  BY <1>0, <1>5
<1>7. CallAll(s, nodes) = [s EXCEPT !.stack = k]
  BY DEF CallAll, fs
<1> HIDE DEF k, N
<1>8. \A i \in 1 .. Len(s.stack) : k[i] = s.stack[i]
  BY <1>1, <1>6
<1>9. ASSUME NEW i \in Len(s.stack) + 1 .. Len(s.stack) + N
      PROVE  \E n \in Nodes : k[i] = Compiling(n)
  <2>1. k[i] = fs[i - Len(s.stack)] /\ i - Len(s.stack) \in 1 .. N
    BY <1>1, <1>6
  <2> QED
    BY <1>4, <2>1
<1>10. /\ Types(CallAll(s, nodes)) /\ CallAll(s, nodes).stack = k
       /\ Same(s, CallAll(s, nodes)) /\ CallAll(s, nodes).at = s.at
       /\ CallAll(s, nodes).nested = s.nested /\ CallAll(s, nodes).blocks = s.blocks
  BY <1>6, <1>7, StackIs
<1>11. OnTop(s, CallAll(s, nodes))
  BY <1>1, <1>6, <1>8, <1>10 DEF OnTop
<1> QED
  BY <1>6, <1>9, <1>10, <1>11 DEF N

-----------------------------------------------------------------------------
\* The syntax

LEMMA NodeIs ==
  /\ \A n \in NodesOf({"local"}) : n.scope \in STRING
  /\ \A n \in NodesOf({"global"}) : n.name \in STRING
  /\ \A n \in NodesOf({"do"}) :
       n.scope \in STRING /\ n.slots \in Nat /\ n.statements \in Seq(Nodes)
  /\ \A n \in NodesOf({"define"}) : n.scope \in STRING /\ n.value \in Nodes
  /\ \A n \in NodesOf({"variable"}) : n.scope \in STRING /\ n.init \in Seq(Nodes)
  /\ \A n \in NodesOf({"set"}) : n.slot \in Nodes /\ n.value \in Nodes
  /\ \A n \in NodesOf({"call"}) : n.args \in Seq(Nodes) /\ n.callee \in Nodes
  /\ \A n \in NodesOf({"if"}) :
       n.branches \in Seq(Nodes \X Nodes) /\ n.branches # <<>> /\ n.else \in Seq(Nodes)
  /\ \A n \in NodesOf({"while"}) : n.cond \in Nodes /\ n.body \in Nodes
  /\ \A n \in NodesOf({"function"}) :
       n.name \in STRING /\ n.params \in Nat /\ n.body \in Nodes
BY SyntaxAssumption DEF Syntax, NodesOf

Ops == {"const", "unsupported", "local", "global", "do", "define", "variable", "set",
        "call", "if", "while", "function"}

LEMMA OpIs == \A n \in Nodes : n.op \in Ops
BY SyntaxAssumption DEF Syntax, Ops

LEMMA ProgramIs ==
  ASSUME program \in Programs
  PROVE  /\ DOMAIN program \subseteq STRING
         /\ \A f \in DOMAIN program :
              /\ program[f].op = "function" /\ program[f].name = f
              /\ program[f].params \in Nat /\ program[f].body \in Nodes
BY SyntaxAssumption DEF Syntax, NodesOf

-----------------------------------------------------------------------------
\* Scopes and bindings

LEMMA ScopeValueIs ==
  ASSUME NEW s, Types(s), NEW scope
  PROVE  ScopeValue(s, scope) \in Values
<1> DEFINE I == { i \in 1 .. Len(s.scopes) : s.scopes[i].scope = scope }
           i == SelectLastInSeq(s.scopes, LAMBDA e : e.scope = scope)
<1>1. s.scopes \in Seq(Scopes) /\ Len(s.scopes) \in Nat
  BY LenProperties DEF Types
<1>2. i = IF I # {} THEN Max(I) ELSE 0
  BY DEF SelectLastInSeq
<1>3. I # {} => Max(I) \in I
  <2>1. I \in SUBSET Nat /\ \A j \in I : j <= Len(s.scopes)
    BY <1>1
  <2> HIDE DEF I
  <2> QED
    BY <1>1, <2>1, MaxIsGreatest
<1>4. ScopeValue(s, scope) = IF i = 0 THEN NoValue ELSE s.scopes[i].value
  BY DEF ScopeValue
<1> HIDE DEF i
<1>5. CASE I = {}
  BY <1>2, <1>4, <1>5, Constants
<1>6. CASE I # {}
  <2>1. i \in 1 .. Len(s.scopes)
    BY <1>2, <1>3, <1>6
  <2>2. s.scopes[i] \in Scopes
    BY <1>1, <2>1, ElementOfSeq
  <2> QED
    BY <1>1, <1>4, <2>1, <2>2 DEF Scopes
<1> QED
  BY <1>5, <1>6

LEMMA ScopesIs ==
  ASSUME NEW s, Types(s), NEW e \in Scopes, NEW t, t = [s EXCEPT !.scopes = Append(@, e)]
  PROVE  Types(t) /\ Extended(s, t)
<1>1. s.scopes \in Seq(Scopes)
  BY DEF Types
<1>2. Append(s.scopes, e) \in Seq(Scopes)
  BY <1>1, Appended
<1>3. /\ DOMAIN t = DOMAIN Fresh
      /\ t.stack = s.stack /\ t.scopes = Append(s.scopes, e) /\ t.fn = s.fn /\ t.at = s.at
      /\ t.val = s.val /\ t.inst = s.inst /\ t.entries = s.entries /\ t.blocks = s.blocks
      /\ t.open = s.open /\ t.cut = s.cut /\ t.within = s.within /\ t.nested = s.nested
  BY DEF Types, Fresh
<1>4. Types(t)
  BY <1>2, <1>3 DEF Types
<1> QED
  BY <1>3, <1>4, ExtendedByNothing DEF Same

LEMMA PushBlockIs ==
  ASSUME NEW s, Types(s), Exists(s, s.at), NEW n \in NodesOf({"do"})
  PROVE  Types(PushBlock(s, n)) /\ Extended(s, PushBlock(s, n))
<1> DEFINE loc == IF n.slots > 0 THEN Result(s, "ptr") ELSE NoValue
           e == [scope |-> n.scope, value |-> loc]
           u == [s EXCEPT !.scopes = Append(@, e)]
           ins == Instruction("alloca", <<>>, <<>>)
<1>1. loc \in Values
  BY ResultIs, Constants
<1>2. PushBlock(s, n) = IF n.slots = 0 THEN u ELSE EmitReturned(u, "ptr", ins)
  BY DEF PushBlock
<1> HIDE DEF loc
<1>3. n.scope \in Names
  BY NodeIs DEF Names
<1>4. e \in Scopes
  BY <1>1, <1>3 DEF Scopes
<1> HIDE DEF e
<1>5. Types(u) /\ Extended(s, u)
  BY <1>4, ScopesIs
<1> HIDE DEF u
<1>6. Exists(u, u.at)
  BY <1>5, ExtendedExists DEF Extended
<1>7. ins \in Instructions /\ ins.op = "alloca"
  BY DEF Instruction, Instructions, Names
<1> HIDE DEF ins
<1>8. Types(EmitReturned(u, "ptr", ins)) /\ Extended(u, EmitReturned(u, "ptr", ins))
  BY <1>5, <1>6, <1>7, EmitReturnedPlainly
<1> QED
  BY <1>2, <1>5, <1>8, ExtendedTwice

LEMMA GenResolveIs ==
  ASSUME NEW s, Types(s), NEW n \in NodesOf({"local", "global"})
  PROVE  Types(GenResolve(s, n)) /\ Extended(s, GenResolve(s, n))
<1> DEFINE t == GenResolve(s, n)
<1>1. PICK v \in Values, x \in Names : t = [s EXCEPT !.val = v, !.inst = x]
  <2>1. CASE n.op = "local"
    <3>1. t = [s EXCEPT !.val = ScopeValue(s, n.scope), !.inst = "none"]
      BY <2>1 DEF GenResolve
    <3> QED
      BY <3>1, ScopeValueIs DEF Names
  <2>2. CASE n.op # "local"
    <3>1. n \in NodesOf({"global"})
      BY <2>2 DEF NodesOf
    <3>2. n.name \in Names
      BY <3>1, NodeIs DEF Names
    <3>3. t = [s EXCEPT !.val = NoValue, !.inst = n.name]
      BY <2>2 DEF GenResolve
    <3> QED
      BY <3>2, <3>3, Constants
  <2> QED
    BY <2>1, <2>2
<1> HIDE DEF t
<1>2. /\ DOMAIN t = DOMAIN Fresh
      /\ t.stack = s.stack /\ t.scopes = s.scopes /\ t.fn = s.fn /\ t.at = s.at
      /\ t.val = v /\ t.inst = x /\ t.entries = s.entries /\ t.blocks = s.blocks
      /\ t.open = s.open /\ t.cut = s.cut /\ t.within = s.within /\ t.nested = s.nested
  BY <1>1 DEF Types, Fresh
<1>3. Types(t)
  BY <1>2 DEF Types
<1> QED
  BY <1>2, <1>3, ExtendedByNothing DEF Same, t

-----------------------------------------------------------------------------
\* A step of the compiler: the innermost frame is gone, others may be in its place

Top(s) == s.stack[Len(s.stack)]
Under(s, t) ==
  /\ Len(s.stack) >= 3 /\ Len(t.stack) >= Len(s.stack) - 1
  /\ \A i \in 1 .. Len(s.stack) - 1 : t.stack[i] = s.stack[i]
Above(s, t) == Len(s.stack) .. Len(t.stack)

\* The functions a step may add blocks and instructions to
Mine(s) == IF Live(s) THEN {s.fn} ELSE Torn(s)

Onward(s, t) ==
  /\ Same(s, t) /\ Under(s, t)
  /\ s.nested \subseteq t.nested /\ t.nested \subseteq s.nested \cup {s.fn}
  /\ Exists(t, t.at) /\ t.at[1] \in Mine(s)
  /\ \A i \in Above(s, t) :
       /\ t.stack[i].step # "return"
       /\ \A p \in Named(t.stack[i]) : Exists(t, p) /\ p[1] \in Mine(s)
  /\ DOMAIN s.blocks \subseteq DOMAIN t.blocks
  /\ DOMAIN t.blocks \subseteq DOMAIN s.blocks \cup Mine(s)
  /\ \A f \in DOMAIN s.blocks :
       /\ DOMAIN s.blocks[f] \subseteq DOMAIN t.blocks[f]
       /\ f \notin Mine(s) => t.blocks[f] = s.blocks[f]

LEMMA StackBounds ==
  ASSUME NEW s, Types(s)
  PROVE  Len(s.stack) \in Nat /\ DOMAIN s.stack = 1 .. Len(s.stack)
BY LenProperties DEF Types

LEMMA MineIsNotDone ==
  ASSUME NEW s, IInv(s), s.open # {}
  PROVE  /\ Done(s) = s.entries /\ Mine(s) \cap (s.entries \ Torn(s)) = {}
         /\ s.fn \in Mine(s) /\ Exists(s, s.at) /\ s.at[1] \in Mine(s)
         /\ \A i \in DOMAIN s.stack : \A p \in Named(s.stack[i]) :
              Exists(s, p) /\ p[1] \in Mine(s)
<1>1. Done(s) = s.entries
  BY DEF Done
<1>2. Exists(s, s.at) /\ \A i \in DOMAIN s.stack : \A p \in Named(s.stack[i]) : Exists(s, p)
  BY DEF IInv, Standing
<1>3. CASE Live(s)
  BY <1>1, <1>2, <1>3 DEF IInv, Alive, Blocked, Mine
<1>4. CASE ~Live(s)
  BY <1>1, <1>2, <1>4 DEF IInv, Loose, Mine
<1> QED
  BY <1>3, <1>4

LEMMA OnwardKeeps ==
  ASSUME NEW s, NEW t, Types(s), Types(t), IInv(s), s.open # {}, Onward(s, t)
  PROVE  /\ Bottom(t) /\ Standing(t) /\ Kept(t) /\ Loose(t)
         /\ Live(t) <=> Live(s)
         /\ ~Live(s) => Alive(t)
<1> DEFINE k == Len(s.stack) - 1
<1>1. /\ Len(s.stack) \in Nat /\ DOMAIN s.stack = 1 .. Len(s.stack)
      /\ Len(t.stack) \in Nat /\ DOMAIN t.stack = 1 .. Len(t.stack)
      /\ Len(s.stack) >= 3 /\ Len(t.stack) >= k
      /\ \A i \in 1 .. k : t.stack[i] = s.stack[i]
  BY StackBounds DEF Onward, Under
<1>2. /\ Done(s) = s.entries /\ Mine(s) \cap (s.entries \ Torn(s)) = {}
      /\ \A i \in DOMAIN s.stack : \A p \in Named(s.stack[i]) :
           Exists(s, p) /\ p[1] \in Mine(s)
  BY MineIsNotDone
<1>3. Same(s, t) /\ Torn(t) = Torn(s) /\ Done(t) = s.entries
  BY DEF Onward, Same, Torn, Done
<1>4. Live(t) <=> Live(s)
  BY <1>3 DEF Live, Same
<1>5. ASSUME NEW p, Exists(s, p)
      PROVE  Exists(t, p)
  BY <1>5 DEF Exists, Onward
<1>6. \A i \in DOMAIN t.stack : \A p \in Named(t.stack[i]) : Exists(t, p) /\ p[1] \in Mine(s)
  <2>1. TAKE i \in DOMAIN t.stack
  <2>2. TAKE p \in Named(t.stack[i])
  <2>3. CASE i \in 1 .. k
    BY <1>1, <1>2, <1>5, <2>3
  <2>4. CASE i \notin 1 .. k
    <3>1. i \in Above(s, t)
      BY <1>1, <2>4 DEF Above
    <3> QED
      BY <3>1 DEF Onward
  <2> QED
    BY <2>3, <2>4
<1>7. Bottom(t)
  <2>1. /\ s.stack[1].step = "define" /\ s.stack[1].f \in s.open
        /\ s.stack[2].step = "return" /\ s.stack[2].open = {}
    BY <1>1 DEF IInv, Bottom
  <2>2. t.stack[1] = s.stack[1] /\ t.stack[2] = s.stack[2] /\ t.stack # <<>>
    BY <1>1
  <2> QED
    BY <1>1, <1>3, <2>1, <2>2 DEF Bottom, Same
<1>8. Standing(t)
  BY <1>6 DEF Standing, Onward
<1>9. Kept(t)
  <2>1. DOMAIN t.blocks \subseteq Done(t) \cup Torn(t) \cup t.open
    <3>1. DOMAIN s.blocks \subseteq s.entries \cup Torn(s) \cup s.open
      BY <1>2 DEF IInv, Kept
    <3>2. Mine(s) \subseteq Torn(s) \cup s.open
      BY DEF Mine, Live
    <3>3. DOMAIN t.blocks \subseteq DOMAIN s.blocks \cup Mine(s)
      BY DEF Onward
    <3>4. t.open = s.open
      BY <1>3 DEF Same
    <3> QED
      BY <1>3, <3>1, <3>2, <3>3, <3>4
  <2>2. ASSUME NEW f \in Done(t) \ Torn(t)
        PROVE  /\ f \in DOMAIN t.blocks
               /\ \A b \in DOMAIN t.blocks[f] : IsEnded(t, f, b)
               /\ f \notin t.nested => PhisMatch(t, f)
    <3>1. f \in Done(s) \ Torn(s) /\ f \notin Mine(s)
      BY <1>2, <1>3
    <3>2. /\ f \in DOMAIN s.blocks
          /\ \A b \in DOMAIN s.blocks[f] : IsEnded(s, f, b)
          /\ f \notin s.nested => PhisMatch(s, f)
      BY <3>1 DEF IInv, Kept
    <3>3. f \in DOMAIN t.blocks /\ t.blocks[f] = s.blocks[f]
      BY <3>1, <3>2 DEF Onward
    <3>4. \A b \in DOMAIN t.blocks[f] : IsEnded(t, f, b)
      BY <3>2, <3>3 DEF IsEnded
    <3>5. f \notin t.nested => f \notin s.nested
      BY DEF Onward
    <3>6. PhisMatch(s, f) => PhisMatch(t, f)
      BY <3>3 DEF PhisMatch, Preds
    <3> QED
      BY <3>2, <3>3, <3>4, <3>5, <3>6
  <2> QED
    BY <2>1, <2>2 DEF Kept
<1>10. Loose(t)
  <2>1. SUFFICES ASSUME ~Live(t)
                 PROVE  /\ t.open \subseteq Torn(t) /\ t.fn \in Torn(t) /\ t.at[1] \in Torn(t)
                        /\ \A i \in DOMAIN t.stack : \A p \in Named(t.stack[i]) : p[1] \in Torn(t)
    BY DEF Loose
  <2>2. ~Live(s) /\ Mine(s) = Torn(s)
    BY <1>4, <2>1 DEF Mine
  <2>3. s.open \subseteq Torn(s) /\ s.fn \in Torn(s)
    BY <2>2 DEF IInv, Loose
  <2> QED
    BY <1>3, <1>6, <2>2, <2>3 DEF Onward, Same
<1>11. ~Live(s) => Alive(t)
  BY <1>4 DEF Alive
<1> QED
  BY <1>4, <1>7, <1>8, <1>9, <1>10, <1>11

-----------------------------------------------------------------------------
\* Of a live function: what is filled, awaited and ended after a step

Fresher(s, t) == { <<s.fn, b>> : b \in DOMAIN t.blocks[s.fn] \ DOMAIN s.blocks[s.fn] }
Free(s, t) == {s.at} \cup Pending(Top(s)) \cup Fresher(s, t)
Waits(s, t) == {t.at} \cup UNION { Pending(t.stack[i]) : i \in Above(s, t) }

BlocksMove(s, t) ==
  /\ t.at[1] = s.fn
  /\ \A i \in Above(s, t) :
       /\ \A p \in Named(t.stack[i]) : p[1] = s.fn
       /\ Distinct(t.stack[i]) /\ t.at \notin Pending(t.stack[i])
  /\ \A i, j \in Above(s, t) :
       i # j => Pending(t.stack[i]) \cap Pending(t.stack[j]) = {}
  /\ Waits(s, t) \subseteq Free(s, t)
  /\ \A b \in DOMAIN t.blocks[s.fn] :
       /\ <<s.fn, b>> \in Waits(s, t) => IsOpen(t.blocks[s.fn][b])
       /\ <<s.fn, b>> \in Free(s, t) \ Waits(s, t) => IsEnded(t, s.fn, b)
       /\ <<s.fn, b>> \notin Free(s, t) => t.blocks[s.fn][b] = s.blocks[s.fn][b]

LEMMA PendingIsNamed ==
  ASSUME NEW frame
  PROVE  Pending(frame) \subseteq Named(frame) /\ Aims(frame) \subseteq Named(frame)
BY DEF Pending, Aims, Named

LEMMA BlocksMoveOn ==
  ASSUME NEW s, NEW t, Types(s), Types(t), IInv(s), s.open # {}, Live(s),
         Onward(s, t), BlocksMove(s, t)
  PROVE  Blocked(t)
<1> DEFINE f == s.fn
           k == Len(s.stack) - 1
<1>1. /\ Len(s.stack) \in Nat /\ DOMAIN s.stack = 1 .. Len(s.stack)
      /\ Len(t.stack) \in Nat /\ DOMAIN t.stack = 1 .. Len(t.stack)
      /\ Len(s.stack) >= 3 /\ Len(t.stack) >= k
      /\ \A i \in 1 .. k : t.stack[i] = s.stack[i]
  BY StackBounds DEF Onward, Under
<1>2. Blocked(s) /\ t.fn = f
  BY DEF IInv, Alive, Onward, Same
<1>3. f \in DOMAIN s.blocks /\ DOMAIN s.blocks[f] \subseteq DOMAIN t.blocks[f]
  <2>1. s.at[1] = f /\ Exists(s, s.at)
    BY <1>2, MineIsNotDone DEF Blocked
  <2> QED
    BY <2>1 DEF Exists, Onward
<1>4. ASSUME NEW i \in 1 .. k
      PROVE  /\ i \in DOMAIN s.stack /\ i # Len(s.stack) /\ t.stack[i] = s.stack[i]
             /\ Free(s, t) \cap Pending(s.stack[i]) = {}
  <2>1. i \in DOMAIN s.stack /\ Len(s.stack) \in DOMAIN s.stack /\ i # Len(s.stack)
    BY <1>1
  <2>2. s.at \notin Pending(s.stack[i])
    BY <1>2, <2>1 DEF Blocked
  <2>3. Pending(Top(s)) \cap Pending(s.stack[i]) = {}
    BY <1>2, <2>1 DEF Blocked, Top
  <2>4. Fresher(s, t) \cap Pending(s.stack[i]) = {}
    <3>1. \A p \in Pending(s.stack[i]) : Exists(s, p)
      BY <2>1, PendingIsNamed, MineIsNotDone
    <3> QED
      BY <3>1 DEF Exists, Fresher
  <2> QED
    BY <1>1, <2>1, <2>2, <2>3, <2>4 DEF Free
<1>5. \A i \in DOMAIN t.stack : i \in 1 .. k \/ i \in Above(s, t)
  BY <1>1 DEF Above
<1>6. \A i \in DOMAIN t.stack :
        /\ \A p \in Named(t.stack[i]) : p[1] = f
        /\ Distinct(t.stack[i]) /\ t.at \notin Pending(t.stack[i])
  <2>1. TAKE i \in DOMAIN t.stack
  <2>2. CASE i \in 1 .. k
    <3>1. t.at \in Free(s, t)
      BY DEF BlocksMove, Waits
    <3>2. /\ i \in DOMAIN s.stack /\ t.stack[i] = s.stack[i]
          /\ Free(s, t) \cap Pending(s.stack[i]) = {}
      BY <1>4, <2>2
    <3>3. (\A p \in Named(s.stack[i]) : p[1] = f) /\ Distinct(s.stack[i])
      BY <1>2, <3>2 DEF Blocked
    <3> QED
      BY <3>1, <3>2, <3>3
  <2>3. CASE i \in Above(s, t)
    BY <2>3 DEF BlocksMove
  <2> QED
    BY <1>5, <2>2, <2>3
<1>7. ASSUME NEW i \in DOMAIN t.stack, NEW j \in DOMAIN t.stack, i # j
      PROVE  Pending(t.stack[i]) \cap Pending(t.stack[j]) = {}
  <2>1. \A a \in Above(s, t) : Pending(t.stack[a]) \subseteq Free(s, t)
    BY DEF BlocksMove, Waits
  <2>2. CASE i \in 1 .. k /\ j \in 1 .. k
    BY <1>2, <1>4, <1>7, <2>2 DEF Blocked
  <2>3. CASE i \in 1 .. k /\ j \in Above(s, t)
    BY <1>4, <2>1, <2>3
  <2>4. CASE i \in Above(s, t) /\ j \in 1 .. k
    BY <1>4, <2>1, <2>4
  <2>5. CASE i \in Above(s, t) /\ j \in Above(s, t)
    BY <1>7, <2>5 DEF BlocksMove
  <2> QED
    BY <1>5, <2>2, <2>3, <2>4, <2>5
<1>8. ASSUME NEW b \in DOMAIN t.blocks[f]
      PROVE  IF <<f, b>> = t.at \/ Awaited(t, <<f, b>>)
             THEN IsOpen(t.blocks[f][b])
             ELSE IsEnded(t, f, b)
  <2> DEFINE p == <<f, b>>
  <2>1. Awaited(t, p) <=> \/ \E i \in 1 .. k : p \in Pending(s.stack[i])
                          \/ \E i \in Above(s, t) : p \in Pending(t.stack[i])
    <3>1. \A i \in 1 .. k : i \in DOMAIN t.stack
      BY <1>1
    <3>2. \A i \in Above(s, t) : i \in DOMAIN t.stack
      BY <1>1 DEF Above
    <3> QED
      BY <1>4, <1>5, <3>1, <3>2 DEF Awaited
  <2>2. CASE p \in Waits(s, t)
    <3>1. p = t.at \/ \E i \in Above(s, t) : p \in Pending(t.stack[i])
      BY <2>2 DEF Waits
    <3> QED
      BY <2>1, <2>2, <3>1 DEF BlocksMove
  <2>3. CASE p \in Free(s, t) \ Waits(s, t)
    <3>1. p # t.at /\ \A i \in Above(s, t) : p \notin Pending(t.stack[i])
      BY <2>3 DEF Waits
    <3>2. \A i \in 1 .. k : p \notin Pending(s.stack[i])
      BY <1>4, <2>3
    <3> QED
      BY <2>1, <2>3, <3>1, <3>2 DEF BlocksMove
  <2>4. CASE p \notin Free(s, t)
    <3>1. p \notin Waits(s, t)
      BY <2>4 DEF BlocksMove
    <3>2. p # t.at /\ \A i \in Above(s, t) : p \notin Pending(t.stack[i])
      BY <3>1 DEF Waits
    <3>3. b \in DOMAIN s.blocks[f] /\ p # s.at /\ p \notin Pending(Top(s))
      BY <2>4 DEF Free, Fresher
    <3>4. Awaited(t, p) <=> Awaited(s, p)
      <4>1. \A i \in DOMAIN s.stack : i \in 1 .. k \/ i = Len(s.stack)
        BY <1>1
      <4> QED
        BY <1>4, <2>1, <3>2, <3>3, <4>1 DEF Awaited, Top
    <3>5. t.blocks[f][b] = s.blocks[f][b]
      BY <2>4 DEF BlocksMove
    <3>6. IsEnded(s, f, b) => IsEnded(t, f, b)
      BY <1>3, <3>5 DEF IsEnded
    <3>7. IF p = s.at \/ Awaited(s, p) THEN IsOpen(s.blocks[f][b]) ELSE IsEnded(s, f, b)
      BY <1>2, <3>3 DEF Blocked
    <3> QED
      BY <3>2, <3>3, <3>4, <3>5, <3>6, <3>7
  <2> QED
    BY <2>2, <2>3, <2>4
<1>9. t.at[1] = t.fn
  BY <1>2 DEF BlocksMove
<1> HIDE DEF k
<1> QED
  BY <1>2, <1>6, <1>7, <1>8, <1>9 DEF Blocked

-----------------------------------------------------------------------------
\* ... and where its edges come from

Reach(s, t) == Aims(Top(s)) \cup Fresher(s, t)

EdgesMove(s, t, targets) ==
  /\ targets \subseteq Reach(s, t)
  /\ \A p : Preds(t, s.fn, p) = IF p \in targets THEN Preds(s, s.fn, p) \cup {s.at}
                                                 ELSE Preds(s, s.fn, p)
  /\ \A i, j \in Above(s, t) :
       /\ i < j /\ Arm(t.stack[i]) => ~InFlow(t.stack[j])
       /\ i # j => Aims(t.stack[i]) \cap Aims(t.stack[j]) = {}
  /\ \A i \in Above(s, t) :
       LET frame == t.stack[i]
       IN /\ Aims(frame) \subseteq Reach(s, t)
          /\ frame.step = "branch" => t.at = frame.body
          /\ frame.step = "loop" => /\ t.at = frame.loop
                                    /\ Preds(t, s.fn, frame.cond) = {frame.entry}
          /\ frame.step \in {"branch", "test"} =>
               Preds(t, s.fn, frame.end) = ToSet(frame.places)
          /\ \A p \in Aims(frame) : Phis(t.blocks[p[1]][p[2]]) = {}
  /\ t.at # s.at \/ (\E i \in Above(s, t) : InFlow(t.stack[i])) =>
       \A i \in 1 .. Len(s.stack) - 1 : ~Arm(s.stack[i])
  /\ \A b \in DOMAIN t.blocks[s.fn] :
       \/ /\ b \in DOMAIN s.blocks[s.fn]
          /\ Phis(t.blocks[s.fn][b]) = Phis(s.blocks[s.fn][b])
          /\ <<s.fn, b>> \in targets => Phis(s.blocks[s.fn][b]) = {}
       \/ /\ <<s.fn, b>> \in Reach(s, t)
          /\ \A i \in Phis(t.blocks[s.fn][b]) : ToSet(i.places) = Preds(t, s.fn, <<s.fn, b>>)

LEMMA EdgesMoveOn ==
  ASSUME NEW s, NEW t, Types(s), Types(t), IInv(s), s.open # {}, Live(s), Onward(s, t),
         s.fn \notin t.nested, NEW targets, EdgesMove(s, t, targets)
  PROVE  Edged(t) /\ PhisMatch(t, t.fn)
<1> DEFINE f == s.fn
           k == Len(s.stack) - 1
<1>1. /\ Len(s.stack) \in Nat /\ DOMAIN s.stack = 1 .. Len(s.stack)
      /\ Len(t.stack) \in Nat /\ DOMAIN t.stack = 1 .. Len(t.stack)
      /\ Len(s.stack) >= 3 /\ Len(t.stack) >= k
      /\ \A i \in 1 .. k : t.stack[i] = s.stack[i]
  BY StackBounds DEF Onward, Under
<1>2. Blocked(s) /\ Edged(s) /\ PhisMatch(s, f) /\ t.fn = f
  BY DEF IInv, Alive, Onward, Same
<1>3. DOMAIN s.blocks[f] \subseteq DOMAIN t.blocks[f]
  <2>1. s.at[1] = f /\ Exists(s, s.at)
    BY <1>2, MineIsNotDone DEF Blocked
  <2> QED
    BY <2>1 DEF Exists, Onward
<1>4. ASSUME NEW i \in 1 .. k
      PROVE  /\ i \in DOMAIN s.stack /\ t.stack[i] = s.stack[i]
             /\ Reach(s, t) \cap Aims(s.stack[i]) = {}
             /\ \A p \in Aims(s.stack[i]) : Exists(s, p) /\ p[1] = f
  <2>1. i \in DOMAIN s.stack /\ Len(s.stack) \in DOMAIN s.stack /\ i # Len(s.stack)
    BY <1>1
  <2>2. Aims(Top(s)) \cap Aims(s.stack[i]) = {}
    BY <1>2, <2>1 DEF Edged, Top
  <2>3. \A p \in Aims(s.stack[i]) : Exists(s, p) /\ p[1] = f
    BY <1>2, <2>1, PendingIsNamed, MineIsNotDone DEF Blocked
  <2>4. Fresher(s, t) \cap Aims(s.stack[i]) = {}
    BY <2>3 DEF Exists, Fresher
  <2> QED
    BY <1>1, <2>1, <2>2, <2>3, <2>4 DEF Reach
<1>5. \A i \in DOMAIN t.stack : i \in 1 .. k \/ i \in Above(s, t)
  BY <1>1 DEF Above
<1>6. ASSUME NEW p, p \notin targets
      PROVE  Preds(t, f, p) = Preds(s, f, p)
  BY <1>6 DEF EdgesMove
<1>7. ASSUME NEW i \in DOMAIN t.stack, NEW j \in DOMAIN t.stack
      PROVE  /\ i < j /\ Arm(t.stack[i]) => ~InFlow(t.stack[j])
             /\ i # j => Aims(t.stack[i]) \cap Aims(t.stack[j]) = {}
  <2>1. \A a \in Above(s, t) : Aims(t.stack[a]) \subseteq Reach(s, t)
    BY DEF EdgesMove
  <2>2. CASE i \in 1 .. k /\ j \in 1 .. k
    BY <1>2, <1>4, <2>2 DEF Edged
  <2>3. CASE i \in 1 .. k /\ j \in Above(s, t)
    <3>1. InFlow(t.stack[j]) => ~Arm(s.stack[i])
      BY <2>3 DEF EdgesMove
    <3> QED
      BY <1>4, <2>1, <2>3, <3>1
  <2>4. CASE i \in Above(s, t) /\ j \in 1 .. k
    <3>1. ~(i < j)
      BY <1>1, <2>4 DEF Above
    <3> QED
      BY <1>4, <2>1, <2>4, <3>1
  <2>5. CASE i \in Above(s, t) /\ j \in Above(s, t)
    BY <2>5 DEF EdgesMove
  <2> QED
    BY <1>5, <2>2, <2>3, <2>4, <2>5
<1>8. ASSUME NEW i \in DOMAIN t.stack, NEW frame, frame = t.stack[i]
      PROVE  /\ frame.step = "branch" => t.at = frame.body
             /\ frame.step = "loop" => /\ t.at = frame.loop
                                       /\ Preds(t, f, frame.cond) = {frame.entry}
             /\ frame.step \in {"branch", "test"} =>
                  Preds(t, f, frame.end) = ToSet(frame.places)
             /\ \A p \in Aims(frame) : Phis(t.blocks[p[1]][p[2]]) = {}
  <2>1. CASE i \in Above(s, t)
    BY <1>8, <2>1 DEF EdgesMove
  <2>2. CASE i \in 1 .. k
    <3>1. /\ frame = s.stack[i] /\ i \in DOMAIN s.stack
          /\ Reach(s, t) \cap Aims(frame) = {}
          /\ \A p \in Aims(frame) : Exists(s, p) /\ p[1] = f
      BY <1>4, <1>8, <2>2
    <3>2. /\ frame.step = "branch" => s.at = frame.body
          /\ frame.step = "loop" => /\ s.at = frame.loop
                                    /\ Preds(s, f, frame.cond) = {frame.entry}
          /\ frame.step \in {"branch", "test"} =>
               Preds(s, f, frame.end) = ToSet(frame.places)
          /\ \A p \in Aims(frame) : Phis(s.blocks[p[1]][p[2]]) = {}
      BY <1>2, <3>1 DEF Edged
    <3>3. Arm(frame) => t.at = s.at
      BY <2>2, <3>1 DEF EdgesMove
    <3>4. \A p \in Aims(frame) : p \notin targets
      BY <3>1 DEF EdgesMove
    <3>5. /\ frame.step \in {"branch", "test"} => frame.end \in Aims(frame)
          /\ frame.step = "loop" => frame.cond \in Aims(frame)
      BY DEF Aims
    <3>6. ASSUME NEW p \in Aims(frame)
          PROVE  Phis(t.blocks[p[1]][p[2]]) = {}
      <4> DEFINE b == p[2]
      <4>1. b \in DOMAIN s.blocks[f] /\ p[1] = f
        BY <3>1, <3>6 DEF Exists
      <4>2. p = <<f, b>>
        <5>1. p \in Places
          <6>1. Frames # {} /\ s.stack[i] \in Frames
            BY <1>1, <3>1, ElementOfSeq DEF Types
          <6> QED
            BY <3>1, <6>1 DEF Frames, CompileFrames, ReturnFrames, DefineFrames,
               ArgumentFrames, CalleeFrames, CallFrames, ConditionFrames, LoopFrames,
               AgainFrames, SlotFrames, StoreFrames, Aims
        <5> QED
          BY <4>1, <5>1 DEF Places
      <4>3. p \notin Reach(s, t)
        BY <3>1, <3>6
      <4>4. Phis(t.blocks[f][b]) = Phis(s.blocks[f][b])
        BY <1>3, <4>1, <4>2, <4>3 DEF EdgesMove
      <4> QED
        BY <3>2, <3>6, <4>1, <4>4
    <3> QED
      BY <1>6, <3>2, <3>3, <3>4, <3>5, <3>6 DEF Arm
  <2> QED
    BY <1>5, <2>1, <2>2
<1>9. ASSUME NEW b \in DOMAIN t.blocks[f], NEW i \in Phis(t.blocks[f][b])
      PROVE  ToSet(i.places) = Preds(t, f, <<f, b>>)
  <2>1. CASE /\ b \in DOMAIN s.blocks[f]
             /\ Phis(t.blocks[f][b]) = Phis(s.blocks[f][b])
             /\ <<f, b>> \in targets => Phis(s.blocks[f][b]) = {}
    <3>1. <<f, b>> \notin targets
      BY <1>9, <2>1
    <3>2. ToSet(i.places) = Preds(s, f, <<f, b>>)
      BY <1>2, <1>9, <2>1 DEF PhisMatch
    <3> QED
      BY <1>6, <3>1, <3>2
  <2>2. CASE \A j \in Phis(t.blocks[f][b]) : ToSet(j.places) = Preds(t, f, <<f, b>>)
    BY <1>9, <2>2
  <2> QED
    BY <2>1, <2>2 DEF EdgesMove
<1> HIDE DEF k
<1>10. Edged(t)
  BY <1>2, <1>7, <1>8 DEF Edged
<1> QED
  BY <1>2, <1>9, <1>10 DEF PhisMatch

-----------------------------------------------------------------------------
\* What a step has to keep, then, for the invariant to hold after it

MiddleAt(st, i) ==
  LET frame == st.stack[i]
  IN /\ frame.step = "return" =>
          /\ st.stack[1].f \in frame.open /\ frame.open \subseteq Torn(st)
          /\ ~Live(st)
     /\ frame.step = "define" =>
          \/ /\ Len(st.stack) = i + 1
             /\ st.stack[i + 1] = Compiling(program[frame.f])
             /\ frame.f \notin st.entries
          \/ frame.f \in st.within /\ ~Live(st)
     /\ frame.step = "compile" /\ frame.n \notin Nodes =>
          /\ i > 3 /\ st.stack[i - 1].step = "define"
          /\ frame.n = program[st.stack[i - 1].f]

\* What is no node of a body is a function of the module
LEMMA MiddleIff ==
  ASSUME NEW s, Types(s), program \in Programs
  PROVE  Middle(s) <=> \A i \in 3 .. Len(s.stack) : MiddleAt(s, i)
<1>1. ASSUME NEW i \in 3 .. Len(s.stack), s.stack[i].step = "compile"
      PROVE  s.stack[i].n \in Nodes \/ OfModule(s.stack[i].n)
  <2> DEFINE n == s.stack[i].n
  <2>1. s.stack[i] \in Frames
    BY StackBounds, ElementOfSeq DEF Types
  <2>2. n \in Nodes \cup { program[f] : f \in DOMAIN program }
    BY <1>1, <2>1 DEF Frames, CompileFrames, ReturnFrames, DefineFrames,
       ArgumentFrames, CalleeFrames, CallFrames, ConditionFrames, LoopFrames,
       AgainFrames, SlotFrames, StoreFrames
  <2> HIDE DEF n
  <2>3. n \in Nodes \/ OfModule(n)
    BY <2>2, ProgramIs DEF OfModule
  <2> QED
    BY <2>3 DEF n
<1> QED
  BY <1>1 DEF Middle, MiddleAt

LEMMA MiddleMoves ==
  ASSUME NEW s, NEW t, Types(s), Types(t), IInv(s), s.open # {}, Onward(s, t),
         program \in Programs,
         Top(s).step = "compile" => Top(s).n.op # "function",
         \A i \in Above(s, t) : MiddleAt(t, i)
  PROVE  Middle(t)
<1> DEFINE k == Len(s.stack) - 1
<1>1. /\ Len(s.stack) \in Nat /\ DOMAIN s.stack = 1 .. Len(s.stack)
      /\ Len(t.stack) \in Nat /\ DOMAIN t.stack = 1 .. Len(t.stack)
      /\ Len(s.stack) >= 3 /\ Len(t.stack) >= k
      /\ \A i \in 1 .. k : t.stack[i] = s.stack[i]
  BY StackBounds DEF Onward, Under
<1>2. Same(s, t) /\ (Live(t) <=> Live(s))
  BY OnwardKeeps DEF Onward
<1>3. ASSUME NEW i \in 3 .. k
      PROVE  MiddleAt(t, i)
  <2>1. MiddleAt(s, i)
    BY <1>1, MiddleIff DEF IInv
  <2>2. /\ t.stack[i] = s.stack[i] /\ t.stack[1] = s.stack[1]
        /\ i > 3 => t.stack[i - 1] = s.stack[i - 1]
        /\ i + 1 = Len(s.stack) => s.stack[i + 1] = Top(s)
    BY <1>1 DEF Top
  <2>3. s.stack[i].step = "define" =>
          ~ (/\ Len(s.stack) = i + 1
             /\ s.stack[i + 1] = Compiling(program[s.stack[i].f]))
    <3>1. SUFFICES ASSUME s.stack[i].step = "define",
                          Len(s.stack) = i + 1,
                          s.stack[i + 1] = Compiling(program[s.stack[i].f])
                   PROVE  FALSE
      OBVIOUS
    <3>2. s.stack[i] \in Frames
      BY <1>1, ElementOfSeq DEF Types
    <3>3. s.stack[i].f \in DOMAIN program
      BY <3>1, <3>2 DEF Frames, CompileFrames, ReturnFrames, DefineFrames,
         ArgumentFrames, CalleeFrames, CallFrames, ConditionFrames, LoopFrames,
         AgainFrames, SlotFrames, StoreFrames
    <3>4. Top(s).step = "compile" /\ Top(s).n = program[s.stack[i].f]
      BY <2>2, <3>1 DEF Compiling
    <3> QED
      BY <3>3, <3>4, ProgramIs
  <2> QED
    BY <1>1, <1>2, <2>1, <2>2, <2>3 DEF MiddleAt, Same, Torn
<1>4. \A i \in 3 .. Len(t.stack) : i \in 3 .. k \/ i \in Above(s, t)
  BY <1>1 DEF Above
<1>5. \A i \in 3 .. Len(t.stack) : MiddleAt(t, i)
  BY <1>3, <1>4
<1> QED
  BY <1>5, MiddleIff

LEMMA StepKeeps ==
  ASSUME NEW s, NEW t, Types(s), Types(t), IInv(s), s.open # {}, Onward(s, t),
         program \in Programs,
         Top(s).step = "compile" => Top(s).n.op # "function",
         \A i \in Above(s, t) : MiddleAt(t, i),
         Live(s) => BlocksMove(s, t),
         Live(s) /\ s.fn \notin t.nested => \E targets : EdgesMove(s, t, targets)
  PROVE  IInv(t)
<1>1. /\ Bottom(t) /\ Standing(t) /\ Kept(t) /\ Loose(t)
      /\ Live(t) <=> Live(s)
      /\ ~Live(s) => Alive(t)
  BY OnwardKeeps
<1>2. Middle(t)
  BY MiddleMoves
<1>3. ASSUME Live(s)
      PROVE  Alive(t)
  <2>1. t.fn = s.fn /\ t.entries = s.entries
    BY DEF Onward, Same
  <2>2. s.fn = s.stack[1].f /\ s.fn \notin s.entries
    BY <1>3 DEF IInv, Alive
  <2>3. t.stack[1] = s.stack[1]
    BY StackBounds DEF Onward, Under
  <2>4. Blocked(t)
    BY <1>3, BlocksMoveOn
  <2>5. t.fn \notin t.nested => Edged(t) /\ PhisMatch(t, t.fn)
    BY <1>3, <2>1, EdgesMoveOn
  <2> QED
    BY <2>1, <2>2, <2>3, <2>4, <2>5 DEF Alive
<1> QED
  BY <1>1, <1>2, <1>3 DEF IInv

-----------------------------------------------------------------------------
\* Straight code: no frame that knows blocks comes or goes

Straight(s, t) ==
  /\ Same(s, t) /\ t.at = s.at /\ t.nested = s.nested /\ Under(s, t)
  /\ DOMAIN t.blocks = DOMAIN s.blocks
  /\ \A f \in DOMAIN s.blocks :
       /\ DOMAIN t.blocks[f] = DOMAIN s.blocks[f]
       /\ \A b \in DOMAIN s.blocks[f] :
            /\ <<f, b>> # s.at => t.blocks[f][b] = s.blocks[f][b]
            /\ <<f, b>> = s.at => Similar(s.blocks[f][b], t.blocks[f][b])
  /\ \A i \in Above(s, t) : ~InFlow(t.stack[i]) /\ t.stack[i].step # "return"

LEMMA NotInFlow ==
  ASSUME NEW frame, ~InFlow(frame)
  PROVE  /\ Named(frame) = {} /\ Pending(frame) = {} /\ Aims(frame) = {}
         /\ Distinct(frame) /\ ~Arm(frame)
BY DEF InFlow, Named, Pending, Aims, Distinct, Arm

LEMMA StraightKeeps ==
  ASSUME NEW s, NEW t, Types(s), Types(t), IInv(s), s.open # {}, Straight(s, t),
         program \in Programs, ~InFlow(Top(s)),
         Top(s).step = "compile" => Top(s).n.op # "function",
         \A i \in Above(s, t) : MiddleAt(t, i)
  PROVE  IInv(t) /\ Onward(s, t)
<1>1. \A i \in Above(s, t) :
        /\ Named(t.stack[i]) = {} /\ Pending(t.stack[i]) = {} /\ Aims(t.stack[i]) = {}
        /\ Distinct(t.stack[i]) /\ ~Arm(t.stack[i]) /\ ~InFlow(t.stack[i])
        /\ t.stack[i].step # "return"
  BY NotInFlow DEF Straight
<1>2. Pending(Top(s)) = {} /\ Aims(Top(s)) = {}
  BY NotInFlow
<1>3. Exists(s, s.at) /\ s.at[1] \in Mine(s) /\ s.fn \in Mine(s)
  BY MineIsNotDone
<1>4. s.at = <<s.at[1], s.at[2]>>
  BY DEF Types, Places
<1>5. ASSUME NEW f \in DOMAIN s.blocks, f \notin Mine(s)
      PROVE  t.blocks[f] = s.blocks[f]
  <2>1. s.blocks[f] \in Seq(Seq(Instructions)) /\ t.blocks[f] \in Seq(Seq(Instructions))
    BY DEF Types, Straight
  <2>2. /\ DOMAIN s.blocks[f] = DOMAIN t.blocks[f]
        /\ \A b \in DOMAIN s.blocks[f] : t.blocks[f][b] = s.blocks[f][b]
    BY <1>3, <1>4, <1>5 DEF Straight
  <2>3. Len(s.blocks[f]) = Len(t.blocks[f]) /\ DOMAIN s.blocks[f] = 1 .. Len(s.blocks[f])
    BY <2>1, <2>2, LenProperties
  <2> QED
    BY <2>1, <2>2, <2>3, SeqEqual
<1>6. Onward(s, t)
  <2>1. Exists(t, t.at) /\ t.at[1] \in Mine(s)
    BY <1>3 DEF Straight, Exists
  <2> QED
    BY <1>1, <1>5, <2>1 DEF Onward, Straight
<1>7. ASSUME Live(s)
      PROVE  /\ BlocksMove(s, t)
             /\ s.fn \notin t.nested => EdgesMove(s, t, {})
  <2>1. Blocked(s) /\ s.at[1] = s.fn /\ s.fn \in DOMAIN s.blocks
    BY <1>3, <1>7 DEF IInv, Alive, Blocked, Exists
  <2>2. t.at = s.at /\ t.nested = s.nested /\ DOMAIN t.blocks[s.fn] = DOMAIN s.blocks[s.fn]
    BY <2>1 DEF Straight
  <2>3. Fresher(s, t) = {}
    BY <2>2 DEF Fresher
  <2>4. Free(s, t) = {s.at} /\ Waits(s, t) = {s.at} /\ Reach(s, t) = {}
    BY <1>1, <1>2, <2>2, <2>3 DEF Free, Waits, Reach
  <2>5. ASSUME NEW b \in DOMAIN t.blocks[s.fn]
        PROVE  /\ <<s.fn, b>> = s.at => IsOpen(t.blocks[s.fn][b])
               /\ <<s.fn, b>> # s.at => t.blocks[s.fn][b] = s.blocks[s.fn][b]
               /\ TargetsOf(t.blocks[s.fn][b]) = TargetsOf(s.blocks[s.fn][b])
               /\ Phis(t.blocks[s.fn][b]) = Phis(s.blocks[s.fn][b])
    <3>1. CASE <<s.fn, b>> = s.at
      <4>1. Similar(s.blocks[s.fn][b], t.blocks[s.fn][b])
        BY <2>1, <2>2, <3>1 DEF Straight
      <4>2. IsOpen(s.blocks[s.fn][b])
        BY <2>1, <2>2, <3>1 DEF Blocked
      <4> QED
        BY <3>1, <4>1, <4>2 DEF Similar
    <3>2. CASE <<s.fn, b>> # s.at
      BY <2>1, <2>2, <3>2 DEF Straight
    <3> QED
      BY <3>1, <3>2
  <2>6. BlocksMove(s, t)
    BY <1>1, <2>1, <2>2, <2>4, <2>5 DEF BlocksMove
  <2>7. \A p : Preds(t, s.fn, p) = Preds(s, s.fn, p)
    BY <2>2, <2>5 DEF Preds
  <2>8. EdgesMove(s, t, {})
    <3>1. \A i \in Above(s, t) : ~InFlow(t.stack[i]) /\ Aims(t.stack[i]) = {}
      BY <1>1
    <3>2. \A i \in Above(s, t) : t.stack[i].step \notin {"branch", "test", "loop"}
      BY <3>1 DEF InFlow
    <3>3. \A b \in DOMAIN t.blocks[s.fn] :
            /\ b \in DOMAIN s.blocks[s.fn]
            /\ Phis(t.blocks[s.fn][b]) = Phis(s.blocks[s.fn][b])
      BY <2>2, <2>5
    <3> QED
      BY <2>2, <2>7, <3>1, <3>2, <3>3 DEF EdgesMove
  <2> QED
    BY <2>6, <2>8
<1>8. Live(s) /\ s.fn \notin t.nested => \E targets : EdgesMove(s, t, targets)
  BY <1>7
<1>9. IInv(t)
  BY <1>6, <1>7, <1>8, StepKeeps
<1> QED
  BY <1>6, <1>9

Popped(s) == [s EXCEPT !.stack = Front(@)]

LEMMA PoppedIs ==
  ASSUME NEW s, Types(s), s.stack # <<>>
  PROVE  /\ Types(Popped(s)) /\ Same(s, Popped(s))
         /\ Len(s.stack) \in Nat \ {0} /\ Len(Popped(s).stack) = Len(s.stack) - 1
         /\ \A i \in 1 .. Len(s.stack) - 1 : Popped(s).stack[i] = s.stack[i]
         /\ Popped(s).at = s.at /\ Popped(s).nested = s.nested /\ Popped(s).val = s.val
         /\ Popped(s).inst = s.inst /\ Popped(s).blocks = s.blocks
         /\ Last(s.stack) = Top(s) /\ Top(s) \in Frames
<1>1. s.stack \in Seq(Frames)
  BY DEF Types
<1>2. /\ Len(s.stack) \in Nat \ {0}
      /\ Last(s.stack) = s.stack[Len(s.stack)] /\ Last(s.stack) \in Frames
      /\ Front(s.stack) \in Seq(Frames)
      /\ Len(Front(s.stack)) = Len(s.stack) - 1
      /\ \A i \in 1..(Len(s.stack) - 1) : Front(s.stack)[i] = s.stack[i]
  BY <1>1, FrontLast
<1> DEFINE k == Front(s.stack)
<1>3. Popped(s) = [s EXCEPT !.stack = k]
  BY DEF Popped
<1>4. k \in Seq(Frames) /\ Len(k) = Len(s.stack) - 1
      /\ \A i \in 1..(Len(s.stack) - 1) : k[i] = s.stack[i]
  BY <1>2
<1> HIDE DEF k
<1> QED
  BY <1>2, <1>3, <1>4, StackIs DEF Top

\* Frames of the handlers that straight code consists of
Plain(frame) ==
  /\ ~InFlow(frame) /\ frame.step \notin {"return", "define"}
  /\ frame.step = "compile" => frame.n \in Nodes

\* What such a handler makes of the state it starts in
Plainer(p, t) ==
  /\ Types(t)
  /\ \E u : Extended(p, u) /\ OnTop(u, t)
  /\ \A i \in Len(p.stack) + 1 .. Len(t.stack) : Plain(t.stack[i])

LEMMA StraightFromPopped ==
  ASSUME NEW s, NEW t, Types(s), s.open # {}, Len(s.stack) >= 3,
         NEW u, Extended(Popped(s), u), OnTop(u, t),
         \A i \in Above(s, t) : ~InFlow(t.stack[i]) /\ t.stack[i].step # "return"
  PROVE  Straight(s, t)
<1>1. s.stack # <<>>
  BY EmptySeq DEF Types
<1>2. /\ Same(s, Popped(s))
      /\ Len(s.stack) \in Nat /\ Len(Popped(s).stack) = Len(s.stack) - 1
      /\ \A i \in 1 .. Len(s.stack) - 1 : Popped(s).stack[i] = s.stack[i]
      /\ Popped(s).at = s.at /\ Popped(s).nested = s.nested /\ Popped(s).blocks = s.blocks
  BY <1>1, PoppedIs
<1>3. Under(s, t)
  BY <1>2 DEF Extended, OnTop, Under
<1>4. Same(s, t)
  BY <1>2 DEF Extended, OnTop, Same
<1> QED
  BY <1>2, <1>3, <1>4 DEF Extended, OnTop, Straight

LEMMA PlainKeeps ==
  ASSUME NEW s, NEW t, Types(s), IInv(s), s.open # {}, Len(s.stack) >= 3,
         program \in Programs, ~InFlow(Top(s)),
         Top(s).step = "compile" => Top(s).n.op # "function",
         Plainer(Popped(s), t)
  PROVE  Types(t) /\ IInv(t) /\ Onward(s, t)
<1>1. s.stack # <<>>
  BY EmptySeq DEF Types
<1>2. Len(s.stack) \in Nat /\ Len(Popped(s).stack) = Len(s.stack) - 1
  BY <1>1, PoppedIs
<1>3. \A i \in Above(s, t) : i \in Len(Popped(s).stack) + 1 .. Len(t.stack)
  BY <1>2 DEF Above
<1>4. \A i \in Above(s, t) : Plain(t.stack[i])
  BY <1>3 DEF Plainer
<1>5. \A i \in Above(s, t) : ~InFlow(t.stack[i]) /\ t.stack[i].step # "return"
  BY <1>4 DEF Plain
<1>6. PICK u : Extended(Popped(s), u) /\ OnTop(u, t)
  BY DEF Plainer
<1>7. Straight(s, t)
  BY <1>5, <1>6, StraightFromPopped
<1>8. \A i \in Above(s, t) : MiddleAt(t, i)
  BY <1>4 DEF Plain, MiddleAt
<1>9. Types(t)
  BY DEF Plainer
<1> QED
  BY <1>7, <1>8, <1>9, StraightKeeps

LEMMA PlainlyExtended ==
  ASSUME NEW p, NEW t, Types(p), Types(t), Extended(p, t)
  PROVE  Plainer(p, t)
<1>1. OnTop(t, t)
  BY StackBounds DEF OnTop, Same
<1>2. Len(p.stack) \in Nat /\ Len(t.stack) = Len(p.stack)
  BY StackBounds DEF Extended
<1>3. \A i \in Len(p.stack) + 1 .. Len(t.stack) : FALSE
  BY <1>2
<1> QED
  BY <1>1, <1>3 DEF Plainer

LEMMA CompilingIs ==
  ASSUME NEW n \in Nodes
  PROVE  Compiling(n) \in Frames /\ Plain(Compiling(n))
BY DEF Compiling, Frames, CompileFrames, Plain, InFlow

LEMMA PlainlyCalled ==
  ASSUME NEW p, NEW u, Types(p), Types(u), Extended(p, u),
         NEW frame \in Frames, Plain(frame), NEW n \in Nodes
  PROVE  Plainer(p, CallThen(u, n, frame))
<1> DEFINE t == CallThen(u, n, frame)
<1>1. Compiling(n) \in Frames /\ Plain(Compiling(n))
  BY CompilingIs
<1>2. /\ Types(t) /\ OnTop(u, t) /\ Len(t.stack) = Len(u.stack) + 2
      /\ t.stack[Len(u.stack) + 1] = frame /\ t.stack[Len(u.stack) + 2] = Compiling(n)
  BY <1>1, CallThenIs
<1> HIDE DEF t
<1>3. Len(p.stack) \in Nat /\ Len(u.stack) = Len(p.stack)
  BY StackBounds DEF Extended
<1>4. \A i \in Len(p.stack) + 1 .. Len(t.stack) : Plain(t.stack[i])
  <2>1. \A i \in Len(p.stack) + 1 .. Len(t.stack) :
          i = Len(p.stack) + 1 \/ i = Len(p.stack) + 2
    BY <1>2, <1>3
  <2> QED
    BY <1>1, <1>2, <1>3, <2>1
<1> QED
  BY <1>2, <1>4 DEF Plainer, t

LEMMA PlainlyCalledAll ==
  ASSUME NEW p, NEW u, Types(p), Types(u), Extended(p, u), NEW nodes \in Seq(Nodes)
  PROVE  Plainer(p, CallAll(u, nodes))
<1> DEFINE t == CallAll(u, nodes)
<1>1. /\ Types(t) /\ OnTop(u, t) /\ Len(t.stack) = Len(u.stack) + Len(nodes)
      /\ \A i \in Len(u.stack) + 1 .. Len(u.stack) + Len(nodes) :
           \E n \in Nodes : t.stack[i] = Compiling(n)
  BY CallAllIs
<1> HIDE DEF t
<1>2. Len(u.stack) = Len(p.stack)
  BY DEF Extended
<1>3. \A i \in Len(p.stack) + 1 .. Len(t.stack) : Plain(t.stack[i])
  BY <1>1, <1>2, CompilingIs
<1> QED
  BY <1>1, <1>3 DEF Plainer, t

-----------------------------------------------------------------------------
\* The handlers of straight code

LEMMA ExtendedByItself ==
  ASSUME NEW s
  PROVE  Extended(s, s)
BY DEF Extended, Similar, Same

LEMMA FramesIn ==
  /\ CompileFrames \subseteq Frames /\ ReturnFrames \subseteq Frames
  /\ DefineFrames \subseteq Frames /\ ArgumentFrames \subseteq Frames
  /\ CalleeFrames \subseteq Frames /\ CallFrames \subseteq Frames
  /\ ConditionFrames \subseteq Frames /\ LoopFrames \subseteq Frames
  /\ AgainFrames \subseteq Frames /\ SlotFrames \subseteq Frames
  /\ StoreFrames \subseteq Frames
BY DEF Frames

LEMMA StoreFrameIs ==
  ASSUME NEW step \in {"assign", "bind"}, NEW to \in Values
  PROVE  [step |-> step, to |-> to] \in Frames /\ Plain([step |-> step, to |-> to])
<1>1. [step |-> step, to |-> to] \in StoreFrames
  BY DEF StoreFrames
<1> QED
  BY <1>1, FramesIn DEF Plain, InFlow

LEMMA NextArgumentKeeps ==
  ASSUME NEW p, Types(p), NEW n \in NodesOf({"call"}), NEW args \in Seq(Values)
  PROVE  Plainer(p, NextArgument(p, n, args))
<1>1. n.args \in Seq(Nodes) /\ n.callee \in Nodes
  BY NodeIs
<1>2. CASE Len(args) < Len(n.args)
  <2> DEFINE frame == [step |-> "argument", n |-> n, args |-> args]
             m == n.args[Len(args) + 1]
  <2>1. NextArgument(p, n, args) = CallThen(p, m, frame)
    BY <1>2 DEF NextArgument
  <2>2. m \in Nodes
    <3>1. Len(args) \in Nat /\ Len(n.args) \in Nat
      BY <1>1, LenProperties
    <3>2. Len(args) + 1 \in 1 .. Len(n.args)
      BY <1>2, <3>1
    <3> QED
      BY <1>1, <3>2, ElementOfSeq
  <2>3. frame \in ArgumentFrames
    BY DEF ArgumentFrames
  <2>4. Plain(frame)
    BY DEF Plain, InFlow
  <2> HIDE DEF frame, m
  <2> QED
    BY <2>1, <2>2, <2>3, <2>4, FramesIn, ExtendedByItself, PlainlyCalled
<1>3. CASE ~(Len(args) < Len(n.args))
  <2> DEFINE frame == [step |-> "callee", args |-> args]
  <2>1. NextArgument(p, n, args) = CallThen(p, n.callee, frame)
    BY <1>3 DEF NextArgument
  <2>2. frame \in CalleeFrames
    BY DEF CalleeFrames
  <2>3. Plain(frame)
    BY DEF Plain, InFlow
  <2> HIDE DEF frame
  <2> QED
    BY <1>1, <2>1, <2>2, <2>3, FramesIn, ExtendedByItself, PlainlyCalled
<1> QED
  BY <1>2, <1>3

LEMMA GenBindSiteKeeps ==
  ASSUME NEW p, Types(p), NEW n \in NodesOf({"define"})
  PROVE  Plainer(p, GenBindSite(p, n))
<1> DEFINE to == ScopeValue(p, n.scope)
           frame == [step |-> "bind", to |-> to]
<1>1. to \in Values
  BY ScopeValueIs
<1>2. GenBindSite(p, n) = CallThen(p, n.value, frame)
  BY DEF GenBindSite
<1> HIDE DEF to
<1>3. frame \in Frames /\ Plain(frame)
  BY <1>1, StoreFrameIs
<1>4. n.value \in Nodes
  BY NodeIs
<1> HIDE DEF frame
<1> QED
  BY <1>2, <1>3, <1>4, ExtendedByItself, PlainlyCalled

LEMMA GenVariableKeeps ==
  ASSUME NEW p, Types(p), NEW n \in NodesOf({"variable"})
  PROVE  Plainer(p, GenVariable(p, n))
<1> DEFINE to == ScopeValue(p, n.scope)
           frame == [step |-> "assign", to |-> to]
           u == Call(p, frame)
           t == CallAll(u, n.init)
<1>1. n.init \in Seq(Nodes)
  BY NodeIs
<1>2. CASE n.init = <<>>
  <2>1. GenVariable(p, n) = Returned(p, NoValue)
    BY <1>2 DEF GenVariable
  <2> QED
    BY <2>1, ReturnedIs, Constants, PlainlyExtended
<1>3. CASE n.init # <<>>
  <2>1. GenVariable(p, n) = t
    BY <1>3 DEF GenVariable
  <2>2. to \in Values
    BY ScopeValueIs
  <2> HIDE DEF to
  <2>3. frame \in Frames /\ Plain(frame)
    BY <2>2, StoreFrameIs
  <2> HIDE DEF frame
  <2>4. /\ Types(u) /\ OnTop(p, u) /\ Len(u.stack) = Len(p.stack) + 1
        /\ u.stack[Len(p.stack) + 1] = frame
    BY <2>3, CallFrame
  <2> HIDE DEF u
  <2>5. /\ Types(t) /\ OnTop(u, t) /\ Len(t.stack) = Len(u.stack) + Len(n.init)
        /\ \A i \in Len(u.stack) + 1 .. Len(u.stack) + Len(n.init) :
             \E m \in Nodes : t.stack[i] = Compiling(m)
    BY <1>1, <2>4, CallAllIs
  <2> HIDE DEF t
  <2>6. Len(p.stack) \in Nat /\ Len(n.init) \in Nat
    BY <1>1, StackBounds, LenProperties
  <2>7. OnTop(p, t)
    <3>1. \A x, y \in Nat : x <= x + 1 + y /\ 1 .. x \subseteq 1 .. x + 1
      OBVIOUS
    <3>2. Len(p.stack) <= Len(t.stack)
      BY <2>4, <2>5, <2>6, <3>1
    <3>3. \A i \in 1 .. Len(p.stack) : t.stack[i] = p.stack[i]
      BY <2>4, <2>5, <2>6, <3>1 DEF OnTop
    <3> QED
      BY <2>4, <2>5, <3>2, <3>3 DEF OnTop, Same
  <2>8. ASSUME NEW i \in Len(p.stack) + 1 .. Len(t.stack)
        PROVE  Plain(t.stack[i])
    <3>1. CASE i = Len(p.stack) + 1
      <4>1. t.stack[i] = frame
        BY <2>4, <2>5, <2>6, <3>1 DEF OnTop
      <4> QED
        BY <2>3, <4>1
    <3>2. CASE i # Len(p.stack) + 1
      <4> DEFINE x == Len(p.stack)
                 y == Len(n.init)
      <4>0. /\ x \in Nat /\ y \in Nat /\ Len(u.stack) = x + 1 /\ Len(t.stack) = x + 1 + y
            /\ i \in x + 1 .. Len(t.stack) /\ i # x + 1
        BY <2>4, <2>5, <2>6, <3>2
      <4> HIDE DEF x, y
      <4>2. i \in (x + 1) + 1 .. (x + 1) + y
        BY <4>0
      <4>1. i \in Len(u.stack) + 1 .. Len(u.stack) + Len(n.init)
        BY <4>0, <4>2 DEF y
      <4> QED
        BY <2>5, <4>1, CompilingIs
    <3> QED
      BY <3>1, <3>2
  <2> QED
    BY <2>1, <2>5, <2>7, <2>8, ExtendedByItself DEF Plainer
<1> QED
  BY <1>2, <1>3

LEMMA GenAssignKeeps ==
  ASSUME NEW p, Types(p), NEW n \in NodesOf({"set"})
  PROVE  Plainer(p, GenAssign(p, n))
<1> DEFINE frame == [step |-> "slot", n |-> n]
<1>1. GenAssign(p, n) = CallThen(p, n.slot, frame)
  BY DEF GenAssign
<1>2. frame \in SlotFrames
  BY DEF SlotFrames
<1>3. Plain(frame)
  BY DEF Plain, InFlow
<1>4. n.slot \in Nodes
  BY NodeIs
<1> HIDE DEF frame
<1> QED
  BY <1>1, <1>2, <1>3, <1>4, FramesIn, ExtendedByItself, PlainlyCalled

LEMMA StraightNodes ==
  ASSUME NEW p, Types(p), Exists(p, p.at), NEW n \in Nodes,
         n.op \notin {"function", "if", "while"}
  PROVE  Plainer(p, Gen(p, n))
<1>1. CASE n.op = "const"
  <2>1. Gen(p, n) = Returned(p, Literal)
    BY <1>1 DEF Gen
  <2> QED
    BY <2>1, ReturnedIs, Constants, PlainlyExtended
<1>2. CASE n.op \in {"local", "global"}
  <2>1. Gen(p, n) = GenResolve(p, n)
    BY <1>2 DEF Gen
  <2>2. n \in NodesOf({"local", "global"})
    BY <1>2 DEF NodesOf
  <2> QED
    BY <2>1, <2>2, GenResolveIs, PlainlyExtended
<1>3. CASE n.op = "do"
  <2>1. Gen(p, n) = CallAll(PushBlock(p, n), n.statements)
    BY <1>3 DEF Gen
  <2>2. n \in NodesOf({"do"})
    BY <1>3 DEF NodesOf
  <2>3. n.statements \in Seq(Nodes)
    BY <2>2, NodeIs
  <2>4. Types(PushBlock(p, n)) /\ Extended(p, PushBlock(p, n))
    BY <2>2, PushBlockIs
  <2> QED
    BY <2>1, <2>3, <2>4, PlainlyCalledAll
<1>4. CASE n.op = "define"
  BY <1>4, GenBindSiteKeeps DEF Gen, NodesOf
<1>5. CASE n.op = "variable"
  BY <1>5, GenVariableKeeps DEF Gen, NodesOf
<1>6. CASE n.op = "set"
  BY <1>6, GenAssignKeeps DEF Gen, NodesOf
<1>7. CASE n.op = "call"
  <2>1. Gen(p, n) = NextArgument(p, n, <<>>)
    BY <1>7 DEF Gen
  <2>2. n \in NodesOf({"call"}) /\ <<>> \in Seq(Values)
    BY <1>7 DEF NodesOf
  <2> QED
    BY <2>1, <2>2, NextArgumentKeeps
<1>8. CASE n.op = "unsupported"
  <2>1. Gen(p, n) = Throw(p)
    BY <1>8 DEF Gen
  <2> QED
    BY <2>1, ThrowIs, PlainlyExtended
<1> QED
  BY <1>1, <1>2, <1>3, <1>4, <1>5, <1>6, <1>7, <1>8, OpIs DEF Ops

LEMMA GenArgumentKeeps ==
  ASSUME NEW p, Types(p), NEW frame \in ArgumentFrames
  PROVE  Plainer(p, GenArgument(p, frame))
<1>1. frame.args \in Seq(Values) /\ frame.n \in NodesOf({"call"}) /\ p.val \in Values
  BY DEF ArgumentFrames, Types
<1>2. Append(frame.args, p.val) \in Seq(Values)
  BY <1>1, Appended
<1> QED
  BY <1>1, <1>2, NextArgumentKeeps DEF GenArgument

LEMMA GenFunctionCallKeeps ==
  ASSUME NEW p, Types(p), Exists(p, p.at), NEW frame \in CallFrames, program \in Programs
  PROVE  Plainer(p, GenFunctionCall(p, frame))
<1> DEFINE faulty == Len(frame.args) # program[frame.f].params
           u == Fault(p, "arity", faulty)
<1>1. Types(u) /\ Extended(p, u)
  BY FaultIs
<1>2. frame.f \in Names /\ frame.args \in Seq(Values)
  BY ProgramIs DEF CallFrames, Names
<1>3. GenFunctionCall(p, frame) = GenCall(u, frame.f, "ptr", frame.args)
  BY DEF GenFunctionCall
<1> HIDE DEF u
<1>4. Exists(u, u.at)
  BY <1>1, ExtendedExists DEF Extended
<1> DEFINE t == GenCall(u, frame.f, "ptr", frame.args)
<1>5. Types(t) /\ Extended(u, t)
  BY <1>1, <1>2, <1>4, GenCallIs
<1> HIDE DEF t
<1>6. Extended(p, t)
  BY <1>1, <1>5, ExtendedTwice
<1> QED
  BY <1>3, <1>5, <1>6, PlainlyExtended DEF t

LEMMA GenSlotKeeps ==
  ASSUME NEW p, Types(p), NEW frame \in SlotFrames
  PROVE  Plainer(p, GenSlot(p, frame))
<1> DEFINE store == [step |-> "assign", to |-> p.val]
<1>1. p.val \in Values
  BY DEF Types
<1>2. store \in Frames /\ Plain(store)
  BY <1>1, StoreFrameIs
<1>3. GenSlot(p, frame) = CallThen(p, frame.n.value, store)
  BY DEF GenSlot
<1>4. frame.n.value \in Nodes
  BY NodeIs DEF SlotFrames
<1> HIDE DEF store
<1> QED
  BY <1>2, <1>3, <1>4, ExtendedByItself, PlainlyCalled

LEMMA GenStoreKeeps ==
  ASSUME NEW p, Types(p), Exists(p, p.at), NEW frame \in StoreFrames
  PROVE  Plainer(p, GenStore(p, frame)) /\ Plainer(p, GenBind(p, frame))
<1>1. frame.to \in Values /\ p.val \in Values
  BY DEF StoreFrames, Types
<1>2. /\ Types(GenInstanceAssign(p, frame.to, p.val))
      /\ Extended(p, GenInstanceAssign(p, frame.to, p.val))
  BY <1>1, GenInstanceAssignIs
<1>3. Plainer(p, GenStore(p, frame))
  BY <1>2, PlainlyExtended DEF GenStore
<1>4. Plainer(p, p)
  BY ExtendedByItself, PlainlyExtended
<1> QED
  BY <1>3, <1>4 DEF GenBind

\* The callee may have to be compiled first: its entry, and its function, on top of
\* the call
LEMMA GenCalleeKeeps ==
  ASSUME NEW s, Types(s), IInv(s), s.open # {}, Len(s.stack) >= 3, program \in Programs,
         Top(s).step = "callee", NEW t, t = GenCallee(Popped(s), Top(s))
  PROVE  Types(t) /\ IInv(t) /\ Onward(s, t)
<1> DEFINE p == Popped(s)
           args == Top(s).args
           f == p.inst
<1>1. s.stack # <<>>
  BY EmptySeq DEF Types
<1>2. /\ Types(p) /\ Same(s, p)
      /\ Len(s.stack) \in Nat \ {0} /\ Len(p.stack) = Len(s.stack) - 1
      /\ \A i \in 1 .. Len(s.stack) - 1 : p.stack[i] = s.stack[i]
      /\ p.at = s.at /\ p.nested = s.nested /\ p.blocks = s.blocks
      /\ Top(s) \in Frames
  BY <1>1, PoppedIs
<1>3. Exists(p, p.at)
  BY <1>2, MineIsNotDone DEF Exists
<1>4. args \in Seq(Values)
  BY <1>2 DEF Frames, CompileFrames, ReturnFrames, DefineFrames,
     ArgumentFrames, CalleeFrames, CallFrames, ConditionFrames, LoopFrames,
     AgainFrames, SlotFrames, StoreFrames
<1>5. f \in Names
  BY <1>2 DEF Types
<1>6. ~InFlow(Top(s)) /\ Top(s).step # "compile"
  BY DEF InFlow
<1> HIDE DEF p, args
<1>7. ASSUME Plainer(p, t)
      PROVE  Types(t) /\ IInv(t) /\ Onward(s, t)
  BY <1>6, <1>7, PlainKeeps DEF p
<1>8. CASE p.inst = "none"
  <2>1. t = Crash(p) \/ t = Throw(p)
    <3>1. t = GenCallee(p, Top(s))
      BY DEF p
    <3>2. CASE p.val = NoValue
      BY <1>8, <3>1, <3>2 DEF GenCallee
    <3>3. CASE p.val # NoValue
      BY <1>8, <3>1, <3>3 DEF GenCallee
    <3> QED
      BY <3>2, <3>3
  <2> QED
    BY <1>2, <1>7, <2>1, CrashIs, ThrowIs, PlainlyExtended
<1>9. CASE p.inst # "none" /\ p.inst \notin DOMAIN program
  <2>1. t = GenCall(p, f, "ptr", args) \/ t = Throw(p)
    <3>1. CASE p.inst \in Subroutines \ (DOMAIN program \cup {"none"})
      BY <1>9, <3>1 DEF GenCallee, p, args
    <3>2. CASE p.inst \notin Subroutines \ (DOMAIN program \cup {"none"})
      BY <1>9, <3>2 DEF GenCallee, p, args
    <3> QED
      BY <3>1, <3>2
  <2>2. "ptr" \in {"null", "inst", "ptr", "bool"}
    OBVIOUS
  <2>3. Types(t) /\ Extended(p, t)
    BY <1>2, <1>3, <1>4, <1>5, <2>1, <2>2, GenCallIs, ThrowIs
  <2> QED
    BY <1>2, <1>7, <2>3, PlainlyExtended
<1>10. CASE p.inst # "none" /\ p.inst \in DOMAIN program
  <2> DEFINE call == [step |-> "call", f |-> f, args |-> args]
             define == [step |-> "define", f |-> f]
             u == Call(p, call)
  <2>1. t = Require(u, f)
    BY <1>10 DEF GenCallee, p, args
  <2>2. call \in CallFrames
    BY <1>4, <1>10 DEF CallFrames
  <2>3. Plain(call)
    BY DEF Plain, InFlow
  <2>4. define \in DefineFrames /\ define.step = "define" /\ define.f = f
    BY <1>10 DEF DefineFrames
  <2>5. Compiling(program[f]) \in CompileFrames
    BY <1>10 DEF CompileFrames, Compiling
  <2> HIDE DEF call, define
  <2>6. /\ Types(u) /\ OnTop(p, u) /\ Len(u.stack) = Len(p.stack) + 1
        /\ u.stack[Len(p.stack) + 1] = call
    BY <1>2, <2>2, FramesIn, CallFrame
  <2> HIDE DEF u
  <2>7. Len(p.stack) \in Nat /\ Len(p.stack) >= 2
    BY <1>2
  <2>8. CASE f \in u.entries
    <3>1. t = u
      BY <2>1, <2>8 DEF Require
    <3>2. \A i \in Len(p.stack) + 1 .. Len(t.stack) : i = Len(p.stack) + 1
      BY <2>6, <2>7, <3>1
    <3>3. Plainer(p, t)
      BY <2>3, <2>6, <3>1, <3>2, ExtendedByItself DEF Plainer
    <3> QED
      BY <1>7, <3>3
  <2>9. CASE f \notin u.entries
    <3>1. t = CallThen(u, program[f], define)
      BY <2>1, <2>9 DEF Require, define
    <3>2. /\ Types(t) /\ OnTop(u, t) /\ Len(t.stack) = Len(u.stack) + 2
          /\ t.stack[Len(u.stack) + 1] = define
          /\ t.stack[Len(u.stack) + 2] = Compiling(program[f])
      BY <2>4, <2>5, <2>6, <3>1, FramesIn, CallThenIs
    <3> DEFINE k == Len(p.stack)
    <3>3. /\ k \in Nat /\ k >= 2 /\ Len(t.stack) = k + 3
          /\ t.stack[k + 1] = call /\ t.stack[k + 2] = define
          /\ t.stack[k + 3] = Compiling(program[f])
      BY <2>6, <2>7, <3>2 DEF OnTop
    <3>4. OnTop(p, t)
      BY <2>6, <2>7, <3>2 DEF OnTop, Same
    <3>5. \A i \in Above(s, t) : i = k + 1 \/ i = k + 2 \/ i = k + 3
      <4>1. Len(s.stack) = k + 1
        BY <1>2
      <4> HIDE DEF k
      <4> QED
        BY <3>3, <4>1 DEF Above
    <3> HIDE DEF k
    <3>6. t.entries = u.entries
      BY <3>2 DEF OnTop, Same
    <3>7. MiddleAt(t, k + 1)
      BY <2>3, <3>3 DEF MiddleAt, Plain
    <3>8. MiddleAt(t, k + 2)
      <4>1. k + 2 + 1 = k + 3
        BY <3>3
      <4> QED
        BY <2>4, <2>9, <3>3, <3>6, <4>1 DEF MiddleAt
    <3>9. MiddleAt(t, k + 3)
      <4>1. k + 3 - 1 = k + 2 /\ k + 3 > 3
        BY <3>3
      <4> QED
        BY <2>4, <3>3, <4>1 DEF MiddleAt, Compiling
    <3>10. \A i \in Above(s, t) : MiddleAt(t, i)
      BY <3>5, <3>7, <3>8, <3>9
    <3>11. \A i \in Above(s, t) : ~InFlow(t.stack[i]) /\ t.stack[i].step # "return"
      BY <2>3, <2>4, <3>3, <3>5 DEF Plain, InFlow, Compiling
    <3>12. Straight(s, t)
      BY <3>4, <3>11, ExtendedByItself, StraightFromPopped DEF p
    <3> QED
      BY <1>6, <3>2, <3>10, <3>12, StraightKeeps
  <2> QED
    BY <2>8, <2>9
<1> QED
  BY <1>8, <1>9, <1>10

-----------------------------------------------------------------------------
\* Control flow: the block being filled is ended, and another one goes on

Ends(block, to) ==
  /\ { i \in DOMAIN block : block[i].op \in Terminators } = {Len(block)}
  /\ TargetsOf(block) = to

LEMMA OpenTargets ==
  ASSUME NEW block, IsOpen(block)
  PROVE  TargetsOf(block) = {}
<1>1. { k \in ToSet(block) : k.op = "br" } = {}
  BY DEF IsOpen, ToSet, Terminators
<1> QED
  BY <1>1 DEF TargetsOf

LEMMA EmptyBlock ==
  IsOpen(<<>>) /\ TargetsOf(<<>>) = {} /\ Phis(<<>>) = {}
<1>1. DOMAIN <<>> = {}
  OBVIOUS
<1>2. ToSet(<<>>) = {}
  BY <1>1 DEF ToSet
<1> QED
  BY <1>1, <1>2, OpenTargets DEF IsOpen, Phis

LEMMA Terminated ==
  ASSUME NEW block \in Seq(Instructions), IsOpen(block),
         NEW ins \in Instructions, ins.op \in {"br", "ret"}
  PROVE  /\ Ends(Append(block, ins), IF ins.op = "br" THEN ToSet(ins.places) ELSE {})
         /\ Phis(Append(block, ins)) = Phis(block)
<1> DEFINE other == Append(block, ins)
<1>1. /\ Len(block) \in Nat /\ DOMAIN block = 1 .. Len(block)
      /\ Len(other) = Len(block) + 1 /\ DOMAIN other = 1 .. Len(block) + 1
      /\ \A i \in 1 .. Len(block) : other[i] = block[i]
      /\ other[Len(block) + 1] = ins
  BY Appended
<1> HIDE DEF other
<1>2. ToSet(other) = ToSet(block) \cup {ins}
  BY <1>1 DEF ToSet
<1>3. Phis(other) = Phis(block)
  BY <1>2 DEF Phis
<1>4. { i \in DOMAIN other : other[i].op \in Terminators } = {Len(other)}
  <2>1. \A i \in 1 .. Len(block) : other[i].op \notin Terminators
    BY <1>1 DEF IsOpen
  <2>2. \A i \in DOMAIN other : i \in 1 .. Len(block) \/ i = Len(block) + 1
    BY <1>1
  <2>3. Len(block) + 1 \in DOMAIN other
    BY <1>1
  <2> QED
    BY <1>1, <2>1, <2>2, <2>3 DEF Terminators
<1>5. \A k \in ToSet(block) : k.op # "br"
  BY DEF ToSet, IsOpen, Terminators
<1>6. { k \in ToSet(other) : k.op = "br" } = IF ins.op = "br" THEN {ins} ELSE {}
  BY <1>2, <1>5
<1>7. TargetsOf(other) = IF ins.op = "br" THEN ToSet(ins.places) ELSE {}
  BY <1>6 DEF TargetsOf
<1> QED
  BY <1>3, <1>4, <1>7 DEF Ends, other

LEMMA PhiAppended ==
  ASSUME NEW block \in Seq(Instructions), IsOpen(block),
         NEW phi \in Instructions, phi.op = "phi"
  PROVE  /\ IsOpen(Append(block, phi))
         /\ Phis(Append(block, phi)) = Phis(block) \cup {phi}
<1> DEFINE other == Append(block, phi)
<1>1. /\ Len(block) \in Nat /\ DOMAIN block = 1 .. Len(block)
      /\ DOMAIN other = 1 .. Len(block) + 1
      /\ \A i \in 1 .. Len(block) : other[i] = block[i]
      /\ other[Len(block) + 1] = phi
  BY Appended
<1> HIDE DEF other
<1>2. ToSet(other) = ToSet(block) \cup {phi}
  BY <1>1 DEF ToSet
<1>3. Phis(other) = Phis(block) \cup {phi}
  BY <1>2 DEF Phis
<1>4. IsOpen(other)
  BY <1>1 DEF IsOpen, Terminators
<1> QED
  BY <1>3, <1>4 DEF other

Flow(s, t, to) ==
  /\ t.at # s.at /\ DOMAIN s.blocks[s.fn] \subseteq DOMAIN t.blocks[s.fn]
  /\ \A b \in DOMAIN t.blocks[s.fn] :
       /\ b \notin DOMAIN s.blocks[s.fn] => t.blocks[s.fn][b] = <<>>
       /\ b \in DOMAIN s.blocks[s.fn] /\ <<s.fn, b>> \notin {s.at, t.at} =>
            t.blocks[s.fn][b] = s.blocks[s.fn][b]
       /\ <<s.fn, b>> = s.at => /\ Ends(t.blocks[s.fn][b], to)
                                /\ Phis(t.blocks[s.fn][b]) = Phis(s.blocks[s.fn][b])
       /\ b \in DOMAIN s.blocks[s.fn] /\ <<s.fn, b>> = t.at =>
            \/ t.blocks[s.fn][b] = s.blocks[s.fn][b]
            \/ \E phi \in Instructions :
                 /\ phi.op = "phi"
                 /\ t.blocks[s.fn][b] = Append(s.blocks[s.fn][b], phi)

\* The frames that know the new blocks know no other function's
Framed(s, t) ==
  /\ t.at[1] = s.fn
  /\ \A i \in Above(s, t) :
       /\ \A p \in Named(t.stack[i]) : p[1] = s.fn
       /\ Distinct(t.stack[i]) /\ t.at \notin Pending(t.stack[i])
  /\ \A i, j \in Above(s, t) :
       i # j => Pending(t.stack[i]) \cap Pending(t.stack[j]) = {}

LEMMA FlowIsOpen ==
  ASSUME NEW s, NEW t, Types(s), IInv(s), s.open # {}, Live(s), NEW to, Flow(s, t, to),
         t.at \in Pending(Top(s)) \cup Fresher(s, t)
  PROVE  \A b \in DOMAIN s.blocks[s.fn] :
           /\ s.blocks[s.fn][b] \in Seq(Instructions)
           /\ <<s.fn, b>> \in {s.at} \cup Pending(Top(s)) => IsOpen(s.blocks[s.fn][b])
           /\ <<s.fn, b>> \in Pending(Top(s)) => IsOpen(t.blocks[s.fn][b])
           /\ <<s.fn, b>> # s.at => TargetsOf(t.blocks[s.fn][b]) = TargetsOf(s.blocks[s.fn][b])
<1> DEFINE f == s.fn
<1>1. /\ Blocked(s) /\ s.at[1] = f /\ f \in DOMAIN s.blocks
  BY MineIsNotDone DEF IInv, Alive, Blocked, Exists
<1>2. s.blocks[f] \in Seq(Seq(Instructions))
  BY <1>1 DEF Types
<1>3. Len(s.stack) \in DOMAIN s.stack
  BY StackBounds DEF IInv, Bottom
<1>4. ASSUME NEW b \in DOMAIN s.blocks[f]
      PROVE  /\ s.blocks[f][b] \in Seq(Instructions)
             /\ <<f, b>> \in {s.at} \cup Pending(Top(s)) => IsOpen(s.blocks[f][b])
             /\ <<f, b>> \in Pending(Top(s)) => IsOpen(t.blocks[f][b])
             /\ <<f, b>> # s.at => TargetsOf(t.blocks[f][b]) = TargetsOf(s.blocks[f][b])
  <2>1. s.blocks[f][b] \in Seq(Instructions)
    BY <1>2, <1>4, ElementOfSeq, LenProperties
  <2>2. <<f, b>> \in {s.at} \cup Pending(Top(s)) => IsOpen(s.blocks[f][b])
    BY <1>1, <1>3, <1>4 DEF Blocked, Awaited, Top
  <2>3. s.at \notin Pending(Top(s))
    BY <1>1, <1>3 DEF Blocked, Top
  <2>4. b \in DOMAIN t.blocks[f]
    BY <1>4 DEF Flow
  <2>5. CASE <<f, b>> \notin {s.at, t.at}
    <3>1. t.blocks[f][b] = s.blocks[f][b]
      BY <1>4, <2>4, <2>5 DEF Flow
    <3> QED
      BY <2>1, <2>2, <3>1
  <2>6. CASE <<f, b>> = s.at
    BY <2>1, <2>2, <2>3, <2>6
  <2>7. CASE <<f, b>> = t.at /\ <<f, b>> # s.at
    <3>1. <<f, b>> \notin Fresher(s, t)
      BY <1>4 DEF Fresher
    <3>2. IsOpen(s.blocks[f][b])
      BY <2>2, <2>7, <3>1
    <3>3. CASE t.blocks[f][b] = s.blocks[f][b]
      BY <2>1, <2>2, <3>2, <3>3
    <3>4. CASE t.blocks[f][b] # s.blocks[f][b]
      <4>1. PICK phi \in Instructions :
              phi.op = "phi" /\ t.blocks[f][b] = Append(s.blocks[f][b], phi)
        BY <1>4, <2>4, <2>7, <3>4 DEF Flow
      <4>2. IsOpen(t.blocks[f][b])
        BY <2>1, <3>2, <4>1, PhiAppended
      <4> QED
        BY <2>1, <2>2, <3>2, <4>2, OpenTargets
    <3> QED
      BY <3>3, <3>4
  <2> QED
    BY <2>5, <2>6, <2>7
<1> QED
  BY <1>4

LEMMA FlowBlocks ==
  ASSUME NEW s, NEW t, Types(s), IInv(s), s.open # {}, Live(s), NEW to, Flow(s, t, to),
         Waits(s, t) = Pending(Top(s)) \cup Fresher(s, t), Framed(s, t),
         to \subseteq {s.fn} \X DOMAIN t.blocks[s.fn]
  PROVE  BlocksMove(s, t)
<1> DEFINE f == s.fn
<1>1. t.at \in Pending(Top(s)) \cup Fresher(s, t)
  BY DEF Waits
<1>2. Waits(s, t) \subseteq Free(s, t)
  BY DEF Free
<1>3. ASSUME NEW b \in DOMAIN t.blocks[f]
      PROVE  /\ <<f, b>> \in Waits(s, t) => IsOpen(t.blocks[f][b])
             /\ <<f, b>> \in Free(s, t) \ Waits(s, t) => IsEnded(t, f, b)
             /\ <<f, b>> \notin Free(s, t) => t.blocks[f][b] = s.blocks[f][b]
  <2>1. CASE b \notin DOMAIN s.blocks[f]
    <3>1. <<f, b>> \in Waits(s, t) /\ <<f, b>> \in Free(s, t)
      BY <1>3, <2>1 DEF Fresher, Free
    <3>2. t.blocks[f][b] = <<>>
      BY <1>3, <2>1 DEF Flow
    <3> QED
      BY <3>1, <3>2, EmptyBlock
  <2>2. CASE b \in DOMAIN s.blocks[f]
    <3>1. <<f, b>> \notin Fresher(s, t)
      BY <2>2 DEF Fresher
    <3>2. <<f, b>> \in Waits(s, t) => IsOpen(t.blocks[f][b])
      BY <1>1, <2>2, <3>1, FlowIsOpen
    <3>3. <<f, b>> \in Free(s, t) \ Waits(s, t) => IsEnded(t, f, b)
      <4>1. SUFFICES ASSUME <<f, b>> = s.at
                     PROVE  IsEnded(t, f, b)
        BY <3>1 DEF Free
      <4>2. Ends(t.blocks[f][b], to)
        BY <1>3, <4>1 DEF Flow
      <4> QED
        BY <4>2 DEF Ends, IsEnded
    <3>4. <<f, b>> \notin Free(s, t) => t.blocks[f][b] = s.blocks[f][b]
      <4>1. SUFFICES ASSUME <<f, b>> \notin Free(s, t)
                     PROVE  t.blocks[f][b] = s.blocks[f][b]
        OBVIOUS
      <4>2. <<f, b>> # s.at /\ <<f, b>> # t.at
        BY <1>1, <4>1 DEF Free
      <4> QED
        BY <1>3, <2>2, <4>2 DEF Flow
    <3> QED
      BY <3>2, <3>3, <3>4
  <2> QED
    BY <2>1, <2>2
<1> QED
  BY <1>2, <1>3 DEF BlocksMove, Framed

LEMMA FlowPreds ==
  ASSUME NEW s, NEW t, Types(s), IInv(s), s.open # {}, Live(s), NEW to, Flow(s, t, to),
         t.at \in Pending(Top(s)) \cup Fresher(s, t), NEW p
  PROVE  Preds(t, s.fn, p) = IF p \in to THEN Preds(s, s.fn, p) \cup {s.at}
                                         ELSE Preds(s, s.fn, p)
<1> DEFINE f == s.fn
           a == s.at[2]
           J(st) == { j \in DOMAIN st.blocks[f] : p \in TargetsOf(st.blocks[f][j]) }
<1>1. s.at = <<f, a>> /\ a \in DOMAIN s.blocks[f]
  <2>1. s.at[1] = f
    BY DEF IInv, Alive, Blocked
  <2>2. Exists(s, s.at)
    BY MineIsNotDone
  <2>3. s.at \in Places
    BY DEF Types
  <2> QED
    BY <2>1, <2>2, <2>3 DEF Exists, Places
<1>2. TargetsOf(s.blocks[f][a]) = {}
  BY <1>1, FlowIsOpen, OpenTargets
<1>3. TargetsOf(t.blocks[f][a]) = to /\ a \in DOMAIN t.blocks[f]
  BY <1>1 DEF Flow, Ends
<1>4. ASSUME NEW b \in DOMAIN t.blocks[f], b # a
      PROVE  b \in J(t) <=> b \in J(s)
  <2>1. CASE b \notin DOMAIN s.blocks[f]
    BY <1>4, <2>1, EmptyBlock DEF Flow
  <2>2. CASE b \in DOMAIN s.blocks[f]
    <3>0. <<f, b>> # s.at
      BY <1>1, <1>4
    <3>1. TargetsOf(t.blocks[f][b]) = TargetsOf(s.blocks[f][b])
      BY <2>2, <3>0, FlowIsOpen
    <3> QED
      BY <1>4, <2>2, <3>1
  <2> QED
    BY <2>1, <2>2
<1>5. DOMAIN s.blocks[f] \subseteq DOMAIN t.blocks[f]
  BY DEF Flow
<1>6. J(t) = IF p \in to THEN J(s) \cup {a} ELSE J(s)
  <2>1. a \notin J(s) /\ (a \in J(t) <=> p \in to)
    BY <1>2, <1>3
  <2>2. J(s) \subseteq DOMAIN t.blocks[f] /\ J(t) \subseteq DOMAIN t.blocks[f]
    BY <1>5
  <2> HIDE DEF J
  <2> QED
    BY <1>4, <2>1, <2>2
<1>7. Preds(t, f, p) = { <<f, k>> : k \in J(t) } /\ Preds(s, f, p) = { <<f, k>> : k \in J(s) }
  BY DEF Preds
<1> HIDE DEF J
<1> QED
  BY <1>1, <1>6, <1>7

PredsMove(s, t, to) ==
  \A p : Preds(t, s.fn, p) = IF p \in to THEN Preds(s, s.fn, p) \cup {s.at}
                                         ELSE Preds(s, s.fn, p)

LEMMA FlowMovesPreds ==
  ASSUME NEW s, NEW t, Types(s), IInv(s), s.open # {}, Live(s), NEW to, Flow(s, t, to),
         t.at \in Pending(Top(s)) \cup Fresher(s, t)
  PROVE  PredsMove(s, t, to)
BY FlowPreds DEF PredsMove

LEMMA NamedArePlaces ==
  ASSUME NEW frame \in Frames
  PROVE  Named(frame) \subseteq Places
BY DEF Frames, CompileFrames, ReturnFrames, DefineFrames, ArgumentFrames, CalleeFrames,
       CallFrames, ConditionFrames, LoopFrames, AgainFrames, SlotFrames, StoreFrames, Named

\* What the frames after a step expect of the edges, and a phi in the block it goes on in
Steered(s, t) ==
  /\ \A i, j \in Above(s, t) :
       /\ i < j /\ Arm(t.stack[i]) => ~InFlow(t.stack[j])
       /\ i # j => Aims(t.stack[i]) \cap Aims(t.stack[j]) = {}
  /\ \A i \in Above(s, t) :
       LET frame == t.stack[i]
       IN /\ Aims(frame) \subseteq Reach(s, t)
          /\ frame.step = "branch" => t.at = frame.body
          /\ frame.step = "loop" => /\ t.at = frame.loop
                                    /\ Preds(t, s.fn, frame.cond) = {frame.entry}
          /\ frame.step \in {"branch", "test"} =>
               Preds(t, s.fn, frame.end) = ToSet(frame.places)
  /\ \A b \in DOMAIN s.blocks[s.fn] :
       <<s.fn, b>> = t.at =>
         \/ Phis(t.blocks[s.fn][b]) = Phis(s.blocks[s.fn][b])
         \/ /\ t.at \in Aims(Top(s)) /\ \A i \in Above(s, t) : t.at \notin Aims(t.stack[i])
            /\ \A i \in Phis(t.blocks[s.fn][b]) : ToSet(i.places) = Preds(t, s.fn, t.at)

LEMMA FlowEdges ==
  ASSUME NEW s, NEW t, Types(s), IInv(s), s.open # {}, Live(s), NEW to, Flow(s, t, to),
         Waits(s, t) = Pending(Top(s)) \cup Fresher(s, t), s.fn \notin s.nested,
         to \subseteq Reach(s, t), Steered(s, t),
         \A i \in 1 .. Len(s.stack) - 1 : ~Arm(s.stack[i])
  PROVE  EdgesMove(s, t, to)
<1> DEFINE f == s.fn
<1>1. Edged(s) /\ Blocked(s)
  BY DEF IInv, Alive
<1>2. Len(s.stack) \in DOMAIN s.stack /\ s.stack \in Seq(Frames)
  BY StackBounds DEF IInv, Bottom, Types
<1>3. ASSUME NEW p \in Aims(Top(s))
      PROVE  /\ p = <<f, p[2]>> /\ p[2] \in DOMAIN s.blocks[f]
             /\ Phis(s.blocks[f][p[2]]) = {}
  <2>1. Phis(s.blocks[p[1]][p[2]]) = {}
    BY <1>1, <1>2, <1>3 DEF Edged, Top
  <2>2. Exists(s, p) /\ p[1] = f
    BY <1>1, <1>2, <1>3, PendingIsNamed, MineIsNotDone DEF Blocked, Top
  <2>3. p \in Places
    <3>1. Top(s) \in Frames
      BY <1>2, ElementOfSeq, StackBounds DEF Top
    <3> QED
      BY <1>3, <3>1, NamedArePlaces, PendingIsNamed
  <2> QED
    BY <2>1, <2>2, <2>3 DEF Exists, Places
<1>4. t.at \in Pending(Top(s)) \cup Fresher(s, t)
  BY DEF Waits
<1>5. ASSUME NEW b \in DOMAIN t.blocks[f], b \notin DOMAIN s.blocks[f]
      PROVE  <<f, b>> \in Reach(s, t) /\ Phis(t.blocks[f][b]) = {}
  BY <1>5, EmptyBlock DEF Fresher, Reach, Flow
<1>6. ASSUME NEW b \in DOMAIN s.blocks[f], <<f, b>> # t.at
      PROVE  Phis(t.blocks[f][b]) = Phis(s.blocks[f][b])
  <2>1. b \in DOMAIN t.blocks[f]
    BY DEF Flow
  <2> QED
    BY <1>6, <2>1 DEF Flow
<1>7. ASSUME NEW b \in DOMAIN s.blocks[f], <<f, b>> \in Reach(s, t)
      PROVE  Phis(s.blocks[f][b]) = {}
  <2>1. <<f, b>> \in Aims(Top(s))
    BY <1>7 DEF Reach, Fresher
  <2> QED
    BY <1>3, <2>1
<1>8. ASSUME NEW b \in DOMAIN t.blocks[f]
      PROVE  \/ /\ b \in DOMAIN s.blocks[f]
                /\ Phis(t.blocks[f][b]) = Phis(s.blocks[f][b])
                /\ <<f, b>> \in to => Phis(s.blocks[f][b]) = {}
             \/ /\ <<f, b>> \in Reach(s, t)
                /\ \A i \in Phis(t.blocks[f][b]) : ToSet(i.places) = Preds(t, f, <<f, b>>)
  <2>1. CASE b \notin DOMAIN s.blocks[f]
    BY <1>5, <2>1
  <2>2. CASE b \in DOMAIN s.blocks[f]
    <3>1. <<f, b>> \in to => Phis(s.blocks[f][b]) = {}
      BY <1>7, <2>2
    <3>2. CASE Phis(t.blocks[f][b]) = Phis(s.blocks[f][b])
      BY <2>2, <3>1, <3>2
    <3>3. CASE Phis(t.blocks[f][b]) # Phis(s.blocks[f][b])
      <4>1. <<f, b>> = t.at
        BY <1>6, <2>2, <3>3
      <4>2. /\ t.at \in Aims(Top(s))
            /\ \A i \in Phis(t.blocks[f][b]) : ToSet(i.places) = Preds(t, f, t.at)
        BY <2>2, <3>3, <4>1 DEF Steered
      <4> QED
        BY <4>1, <4>2 DEF Reach
    <3> QED
      BY <3>2, <3>3
  <2> QED
    BY <2>1, <2>2
<1>9. ASSUME NEW i \in Above(s, t), NEW p \in Aims(t.stack[i])
      PROVE  Phis(t.blocks[p[1]][p[2]]) = {}
  <2>1. p \in Reach(s, t)
    BY <1>9 DEF Steered
  <2>2. CASE p \in Fresher(s, t)
    <3>1. PICK b \in DOMAIN t.blocks[f] \ DOMAIN s.blocks[f] : p = <<f, b>>
      BY <2>2 DEF Fresher
    <3> QED
      BY <1>5, <3>1
  <2>3. CASE p \in Aims(Top(s))
    <3>1. /\ p = <<f, p[2]>> /\ p[2] \in DOMAIN s.blocks[f]
          /\ Phis(s.blocks[f][p[2]]) = {}
      BY <1>3, <2>3
    <3>2. Phis(t.blocks[f][p[2]]) = Phis(s.blocks[f][p[2]])
      <4>1. CASE p # t.at
        BY <1>6, <3>1, <4>1
      <4>2. CASE p = t.at
        BY <1>9, <3>1, <4>2 DEF Steered
      <4> QED
        BY <4>1, <4>2
    <3> QED
      BY <3>1, <3>2
  <2> QED
    BY <2>1, <2>2, <2>3 DEF Reach
<1>10. \A p : Preds(t, f, p) = IF p \in to THEN Preds(s, f, p) \cup {s.at} ELSE Preds(s, f, p)
  BY <1>4, FlowPreds
<1> QED
  BY <1>8, <1>9, <1>10 DEF EdgesMove, Steered

LEMMA FlowKeeps ==
  ASSUME NEW s, NEW t, Types(s), Types(t), IInv(s), s.open # {}, Onward(s, t),
         program \in Programs,
         Top(s).step = "compile" => Top(s).n.op # "function",
         \A i \in Above(s, t) : /\ t.stack[i].step \notin {"return", "define"}
                                /\ t.stack[i].step = "compile" => t.stack[i].n \in Nodes,
         NEW to,
         Live(s) => /\ Flow(s, t, to) /\ Framed(s, t)
                    /\ Waits(s, t) = Pending(Top(s)) \cup Fresher(s, t)
                    /\ to \subseteq {s.fn} \X DOMAIN t.blocks[s.fn]
                    /\ to \subseteq Reach(s, t),
         Live(s) /\ s.fn \notin t.nested =>
           /\ Steered(s, t)
           /\ ~InFlow(Top(s)) => \A i \in 1 .. Len(s.stack) - 1 : ~Arm(s.stack[i])
  PROVE  IInv(t)
<1>1. \A i \in Above(s, t) : MiddleAt(t, i)
  BY DEF MiddleAt
<1>2. Live(s) => BlocksMove(s, t)
  BY FlowBlocks
<1>3. ASSUME Live(s), s.fn \notin t.nested
      PROVE  EdgesMove(s, t, to)
  <2>1. s.fn \notin s.nested
    BY <1>3 DEF Onward
  <2>2. Edged(s)
    BY <1>3, <2>1 DEF IInv, Alive
  <2>3. Len(s.stack) \in Nat /\ DOMAIN s.stack = 1 .. Len(s.stack) /\ Len(s.stack) >= 3
    BY StackBounds DEF Onward, Under
  <2>4. ASSUME NEW i \in 1 .. Len(s.stack) - 1, InFlow(Top(s))
        PROVE  ~Arm(s.stack[i])
    <3>1. i \in DOMAIN s.stack /\ Len(s.stack) \in DOMAIN s.stack /\ i < Len(s.stack)
      BY <2>3
    <3> QED
      BY <2>2, <2>4, <3>1 DEF Edged, Top
  <2>5. \A i \in 1 .. Len(s.stack) - 1 : ~Arm(s.stack[i])
    BY <1>3, <2>4
  <2> QED
    BY <1>3, <2>1, <2>5, FlowEdges
<1>4. Live(s) /\ s.fn \notin t.nested => \E targets : EdgesMove(s, t, targets)
  BY <1>3
<1> QED
  BY <1>1, <1>2, <1>4, StepKeeps

-----------------------------------------------------------------------------
\* Which functions grow

Grown(s, t, M) ==
  /\ DOMAIN s.blocks \subseteq DOMAIN t.blocks
  /\ DOMAIN t.blocks \subseteq DOMAIN s.blocks \cup M
  /\ \A f \in DOMAIN s.blocks :
       /\ DOMAIN s.blocks[f] \subseteq DOMAIN t.blocks[f]
       /\ f \notin M => t.blocks[f] = s.blocks[f]

LEMMA GrownTwice ==
  ASSUME NEW s, NEW t, NEW u, NEW M, Grown(s, t, M), Grown(t, u, M)
  PROVE  Grown(s, u, M)
BY DEF Grown

LEMMA GrownExists ==
  ASSUME NEW s, NEW t, NEW M, Grown(s, t, M), NEW p, Exists(s, p)
  PROVE  Exists(t, p)
BY DEF Grown, Exists

LEMMA GrownNothing ==
  ASSUME NEW s, NEW t, NEW M, t.blocks = s.blocks
  PROVE  Grown(s, t, M)
BY DEF Grown

LEMMA GrownHere ==
  ASSUME NEW s, NEW t, Types(s), Types(t), NEW M, s.at[1] \in M,
         DOMAIN t.blocks = DOMAIN s.blocks,
         \A f \in DOMAIN s.blocks :
           /\ DOMAIN t.blocks[f] = DOMAIN s.blocks[f]
           /\ \A b \in DOMAIN s.blocks[f] :
                <<f, b>> # s.at => t.blocks[f][b] = s.blocks[f][b]
  PROVE  Grown(s, t, M)
<1>1. ASSUME NEW f \in DOMAIN s.blocks, f \notin M
      PROVE  t.blocks[f] = s.blocks[f]
  <2>1. s.blocks[f] \in Seq(Seq(Instructions)) /\ t.blocks[f] \in Seq(Seq(Instructions))
    BY DEF Types
  <2>2. \A b \in DOMAIN s.blocks[f] : t.blocks[f][b] = s.blocks[f][b]
    BY <1>1 DEF Types, Places
  <2>3. Len(s.blocks[f]) = Len(t.blocks[f]) /\ DOMAIN s.blocks[f] = 1 .. Len(s.blocks[f])
    BY <2>1, LenProperties
  <2> QED
    BY <2>1, <2>2, <2>3, SeqEqual
<1> QED
  BY <1>1 DEF Grown

LEMMA GrownExtended ==
  ASSUME NEW s, NEW t, Types(s), Types(t), NEW M, s.at[1] \in M, Extended(s, t)
  PROVE  Grown(s, t, M)
BY GrownHere DEF Extended

\* A branch out of the block being filled
LEMMA BranchIs ==
  ASSUME NEW h, Types(h), Exists(h, h.at), NEW M, h.at[1] \in M,
         NEW ins \in Instructions, ins.op \in {"br", "ret"}
  PROVE  /\ Types(Emit(h, ins)) /\ Same(h, Emit(h, ins)) /\ Grown(h, Emit(h, ins), M)
         /\ Emit(h, ins).stack = h.stack /\ Emit(h, ins).at = h.at
         /\ Emit(h, ins).nested = h.nested /\ Emit(h, ins).val = h.val
         /\ h.at[1] \in DOMAIN Emit(h, ins).blocks
         /\ DOMAIN Emit(h, ins).blocks[h.at[1]] = DOMAIN h.blocks[h.at[1]]
         /\ \A b \in DOMAIN h.blocks[h.at[1]] :
              /\ b # h.at[2] => Emit(h, ins).blocks[h.at[1]][b] = h.blocks[h.at[1]][b]
              /\ b = h.at[2] /\ IsOpen(h.blocks[h.at[1]][b]) =>
                   /\ Ends(Emit(h, ins).blocks[h.at[1]][b],
                           IF ins.op = "br" THEN ToSet(ins.places) ELSE {})
                   /\ Phis(Emit(h, ins).blocks[h.at[1]][b]) = Phis(h.blocks[h.at[1]][b])
<1> DEFINE e == Emit(h, ins)
           f == h.at[1]
           to == IF ins.op = "br" THEN ToSet(ins.places) ELSE {}
<1>1. /\ Types(e) /\ Same(h, e) /\ e.stack = h.stack /\ e.at = h.at
      /\ e.nested = h.nested /\ e.val = h.val
      /\ DOMAIN e.blocks = DOMAIN h.blocks
      /\ \A g \in DOMAIN h.blocks :
           /\ DOMAIN e.blocks[g] = DOMAIN h.blocks[g]
           /\ \A b \in DOMAIN h.blocks[g] :
                e.blocks[g][b] =
                  IF <<g, b>> = h.at THEN Append(h.blocks[g][b], ins) ELSE h.blocks[g][b]
  BY EmitIs
<1> HIDE DEF e
<1>2. Grown(h, e, M)
  BY <1>1, GrownHere
<1>3. f \in DOMAIN h.blocks /\ h.blocks[f] \in Seq(Seq(Instructions)) /\ h.at = <<f, h.at[2]>>
  BY DEF Types, Exists, Places
<1>4. ASSUME NEW b \in DOMAIN h.blocks[f]
      PROVE  /\ b # h.at[2] => e.blocks[f][b] = h.blocks[f][b]
             /\ b = h.at[2] /\ IsOpen(h.blocks[f][b]) =>
                  Ends(e.blocks[f][b], to) /\ Phis(e.blocks[f][b]) = Phis(h.blocks[f][b])
  <2>1. CASE b # h.at[2]
    <3>1. <<f, b>> # h.at
      BY <1>3, <2>1
    <3> QED
      BY <1>1, <1>3, <2>1, <3>1, SMTT(30)
  <2>2. CASE b = h.at[2]
    <3>1. e.blocks[f][b] = Append(h.blocks[f][b], ins)
      BY <1>1, <1>3, <2>2
    <3>2. h.blocks[f][b] \in Seq(Instructions)
      BY <1>3, ElementOfSeq, LenProperties
    <3> QED
      BY <2>2, <3>1, <3>2, Terminated
  <2> QED
    BY <2>1, <2>2
<1> QED
  BY <1>1, <1>2, <1>3, <1>4 DEF e

\* New blocks
Longer(s, t, k) ==
  /\ Types(t) /\ Same(s, t) /\ t.stack = s.stack /\ t.at = s.at /\ t.nested = s.nested
  /\ t.val = s.val /\ Grown(s, t, {s.fn}) /\ s.fn \in DOMAIN t.blocks
  /\ Len(t.blocks[s.fn]) = Len(Blocks(s, s.fn)) + k
  /\ \A b \in 1 .. Len(Blocks(s, s.fn)) : t.blocks[s.fn][b] = Blocks(s, s.fn)[b]
  /\ \A b \in Len(Blocks(s, s.fn)) + 1 .. Len(Blocks(s, s.fn)) + k : t.blocks[s.fn][b] = <<>>
  /\ NewBlock(t) = <<s.fn, Len(Blocks(s, s.fn)) + k + 1>>

LEMMA LongerByOne ==
  ASSUME NEW s, Types(s)
  PROVE  Longer(s, AddBlock(s), 1)
<1> DEFINE B == Blocks(s, s.fn)
           t == AddBlock(s)
<1>1. /\ Types(t) /\ Same(s, t) /\ t.stack = s.stack /\ t.at = s.at /\ t.nested = s.nested
      /\ t.val = s.val /\ DOMAIN t.blocks = DOMAIN s.blocks \cup {s.fn}
      /\ t.blocks[s.fn] = Append(B, <<>>)
      /\ \A g \in DOMAIN s.blocks : g # s.fn => t.blocks[g] = s.blocks[g]
  BY AddBlockIs
<1>2. B \in Seq(Seq(Instructions)) /\ <<>> \in Seq(Instructions)
  BY BlocksIs
<1>3. s.fn \in DOMAIN s.blocks => s.blocks[s.fn] = B
  BY DEF Blocks
<1>4. NewBlock(t) = <<s.fn, Len(t.blocks[s.fn]) + 1>>
  BY <1>1 DEF NewBlock, Blocks, Same
<1> HIDE DEF B, t
<1>5. /\ Len(B) \in Nat /\ DOMAIN B = 1 .. Len(B)
      /\ Len(t.blocks[s.fn]) = Len(B) + 1 /\ DOMAIN t.blocks[s.fn] = 1 .. Len(B) + 1
      /\ \A i \in 1 .. Len(B) : t.blocks[s.fn][i] = B[i]
      /\ t.blocks[s.fn][Len(B) + 1] = <<>>
  BY <1>1, <1>2, Appended
<1>6. Grown(s, t, {s.fn})
  <2>1. DOMAIN B \subseteq DOMAIN t.blocks[s.fn]
    BY <1>5
  <2> QED
    BY <1>1, <1>3, <2>1 DEF Grown
<1>7. \A b \in Len(B) + 1 .. Len(B) + 1 : t.blocks[s.fn][b] = <<>>
  BY <1>5
<1> QED
  BY <1>1, <1>4, <1>5, <1>6, <1>7 DEF B, t, Longer

LEMMA LongerByAnother ==
  ASSUME NEW s, Types(s), NEW t, NEW k \in Nat, Longer(s, t, k)
  PROVE  Longer(s, AddBlock(t), k + 1)
<1> DEFINE B == Blocks(s, s.fn)
           u == AddBlock(t)
<1>1. Types(t) /\ t.fn = s.fn /\ s.fn \in DOMAIN t.blocks
  BY DEF Longer, Same
<1>2. Longer(t, u, 1)
  BY <1>1, LongerByOne
<1>3. Blocks(t, t.fn) = t.blocks[s.fn]
  BY <1>1 DEF Blocks
<1>4. B \in Seq(Seq(Instructions)) /\ Len(B) \in Nat
  BY BlocksIs, LenProperties
<1> HIDE DEF B, u
<1>5. /\ Len(t.blocks[s.fn]) = Len(B) + k
      /\ Len(u.blocks[s.fn]) = Len(B) + k + 1
      /\ \A b \in 1 .. Len(B) + k : u.blocks[s.fn][b] = t.blocks[s.fn][b]
      /\ \A b \in Len(B) + k + 1 .. Len(B) + k + 1 : u.blocks[s.fn][b] = <<>>
      /\ NewBlock(u) = <<s.fn, Len(B) + k + 1 + 1>>
  BY <1>1, <1>2, <1>3 DEF Longer, B
<1>6. /\ \A b \in 1 .. Len(B) : t.blocks[s.fn][b] = B[b]
      /\ \A b \in Len(B) + 1 .. Len(B) + k : t.blocks[s.fn][b] = <<>>
  BY DEF Longer, B
<1>7. \A b \in 1 .. Len(B) : b \in 1 .. Len(B) + k
  BY <1>4
<1>8. \A b \in Len(B) + 1 .. Len(B) + (k + 1) :
        \/ b \in Len(B) + 1 .. Len(B) + k /\ b \in 1 .. Len(B) + k
        \/ b \in Len(B) + k + 1 .. Len(B) + k + 1
  <2>1. \A x, y \in Nat : \A b \in x + 1 .. x + (y + 1) :
          \/ b \in x + 1 .. x + y /\ b \in 1 .. x + y
          \/ b \in x + y + 1 .. x + y + 1
    OBVIOUS
  <2> QED
    BY <1>4, <2>1
<1>9. Grown(s, u, {s.fn})
  BY <1>1, <1>2, GrownTwice DEF Longer
<1>10. /\ Types(u) /\ Same(s, u) /\ u.stack = s.stack /\ u.at = s.at
       /\ u.nested = s.nested /\ u.val = s.val /\ s.fn \in DOMAIN u.blocks
  BY <1>1, <1>2 DEF Longer, Same
<1>11. Len(B) + k + 1 = Len(B) + (k + 1) /\ Len(B) + k + 1 + 1 = Len(B) + (k + 1) + 1
  BY <1>4
<1>12. /\ \A b \in 1 .. Len(B) : u.blocks[s.fn][b] = B[b]
       /\ \A b \in Len(B) + 1 .. Len(B) + (k + 1) : u.blocks[s.fn][b] = <<>>
  BY <1>5, <1>6, <1>7, <1>8
<1> QED
  BY <1>5, <1>9, <1>10, <1>11, <1>12 DEF Longer, B, u

-----------------------------------------------------------------------------
\* Before and after the branch out of the block being filled, with k new blocks

Begun(s, h, k) ==
  /\ Types(h) /\ Same(s, h) /\ h.at = s.at /\ Grown(s, h, Mine(s))
  /\ Live(s) =>
       /\ Len(h.blocks[s.fn]) = Len(s.blocks[s.fn]) + k
       /\ \A b \in DOMAIN h.blocks[s.fn] :
            /\ b \notin DOMAIN s.blocks[s.fn] => h.blocks[s.fn][b] = <<>>
            /\ b \in DOMAIN s.blocks[s.fn] /\ <<s.fn, b>> # s.at =>
                 h.blocks[s.fn][b] = s.blocks[s.fn][b]
            /\ <<s.fn, b>> = s.at => /\ IsOpen(h.blocks[s.fn][b])
                                     /\ Phis(h.blocks[s.fn][b]) = Phis(s.blocks[s.fn][b])

Gone(s, e, k, to) ==
  /\ Types(e) /\ Same(s, e) /\ Grown(s, e, Mine(s))
  /\ Live(s) =>
       /\ Len(e.blocks[s.fn]) = Len(s.blocks[s.fn]) + k
       /\ \A b \in DOMAIN e.blocks[s.fn] :
            /\ b \notin DOMAIN s.blocks[s.fn] => e.blocks[s.fn][b] = <<>>
            /\ b \in DOMAIN s.blocks[s.fn] /\ <<s.fn, b>> # s.at =>
                 e.blocks[s.fn][b] = s.blocks[s.fn][b]
            /\ <<s.fn, b>> = s.at => /\ Ends(e.blocks[s.fn][b], to)
                                     /\ Phis(e.blocks[s.fn][b]) = Phis(s.blocks[s.fn][b])

\* The blocks of a live function
LEMMA LiveIs ==
  ASSUME NEW s, Types(s), IInv(s), s.open # {}, Live(s)
  PROVE  /\ s.at[1] = s.fn /\ s.at = <<s.fn, s.at[2]>> /\ s.fn \in DOMAIN s.blocks
         /\ s.blocks[s.fn] \in Seq(Seq(Instructions))
         /\ Len(s.blocks[s.fn]) \in Nat /\ DOMAIN s.blocks[s.fn] = 1 .. Len(s.blocks[s.fn])
         /\ s.at[2] \in DOMAIN s.blocks[s.fn] /\ IsOpen(s.blocks[s.fn][s.at[2]])
         /\ Mine(s) = {s.fn}
<1>1. s.at[1] = s.fn /\ Blocked(s)
  BY DEF IInv, Alive, Blocked
<1>2. s.at = <<s.fn, s.at[2]>>
  BY <1>1 DEF Types, Places
<1>3. s.fn \in DOMAIN s.blocks /\ s.at[2] \in DOMAIN s.blocks[s.fn]
  BY <1>1, MineIsNotDone DEF Exists
<1>4. s.blocks[s.fn] \in Seq(Seq(Instructions))
  BY <1>3 DEF Types
<1>5. IsOpen(s.blocks[s.fn][s.at[2]])
  BY <1>1, <1>2, <1>3 DEF Blocked
<1> QED
  BY <1>1, <1>2, <1>3, <1>4, <1>5, LenProperties DEF Mine

LEMMA BegunExtended ==
  ASSUME NEW s, Types(s), IInv(s), s.open # {}, NEW p, Types(p), Same(s, p), p.at = s.at,
         p.blocks = s.blocks, NEW h, Types(h), Extended(p, h)
  PROVE  Begun(s, h, 0) /\ Exists(h, h.at)
<1>1. s.at[1] \in Mine(s) /\ Exists(s, s.at)
  BY MineIsNotDone
<1>2. Same(s, h) /\ h.at = s.at
  BY DEF Extended, Same
<1>3. Grown(s, h, Mine(s))
  BY <1>1, <1>2, GrownHere DEF Extended
<1>4. Exists(h, h.at)
  BY <1>1, <1>2, <1>3, GrownExists
<1>5. ASSUME Live(s)
      PROVE  /\ Len(h.blocks[s.fn]) = Len(s.blocks[s.fn]) + 0
             /\ \A b \in DOMAIN h.blocks[s.fn] :
                  /\ b \notin DOMAIN s.blocks[s.fn] => h.blocks[s.fn][b] = <<>>
                  /\ b \in DOMAIN s.blocks[s.fn] /\ <<s.fn, b>> # s.at =>
                       h.blocks[s.fn][b] = s.blocks[s.fn][b]
                  /\ <<s.fn, b>> = s.at =>
                       /\ IsOpen(h.blocks[s.fn][b])
                       /\ Phis(h.blocks[s.fn][b]) = Phis(s.blocks[s.fn][b])
  <2>1. /\ s.fn \in DOMAIN s.blocks /\ Len(s.blocks[s.fn]) \in Nat
        /\ DOMAIN s.blocks[s.fn] = 1 .. Len(s.blocks[s.fn])
        /\ s.at = <<s.fn, s.at[2]>> /\ IsOpen(s.blocks[s.fn][s.at[2]])
    BY <1>5, LiveIs
  <2>2. s.fn \in DOMAIN h.blocks /\ DOMAIN h.blocks[s.fn] = DOMAIN s.blocks[s.fn]
    BY <2>1 DEF Extended
  <2>3. h.blocks[s.fn] \in Seq(Seq(Instructions))
    BY <2>2 DEF Types
  <2>4. Len(h.blocks[s.fn]) \in Nat /\ DOMAIN h.blocks[s.fn] = 1 .. Len(h.blocks[s.fn])
    BY <2>3, LenProperties
  <2>5. Len(h.blocks[s.fn]) = Len(s.blocks[s.fn]) + 0
    <3>1. \A x, y \in Nat : 1 .. x = 1 .. y => x = y + 0
      OBVIOUS
    <3> QED
      BY <2>1, <2>2, <2>4, <3>1
  <2>6. \A b \in DOMAIN s.blocks[s.fn] : <<s.fn, b>> = s.at => b = s.at[2]
    BY <2>1
  <2> QED
    BY <2>1, <2>2, <2>5, <2>6 DEF Extended, Similar
<1> QED
  BY <1>2, <1>3, <1>4, <1>5 DEF Begun

\* A new block changes none there is
LEMMA Lengthened ==
  ASSUME NEW s, Types(s), NEW t, NEW k \in Nat, Longer(s, t, k), s.fn \in DOMAIN s.blocks
  PROVE  /\ Len(t.blocks[s.fn]) = Len(s.blocks[s.fn]) + k
         /\ DOMAIN s.blocks[s.fn] \subseteq DOMAIN t.blocks[s.fn]
         /\ \A b \in DOMAIN t.blocks[s.fn] :
              t.blocks[s.fn][b] = IF b \in DOMAIN s.blocks[s.fn] THEN s.blocks[s.fn][b] ELSE <<>>
<1> DEFINE B == s.blocks[s.fn]
<1>1. /\ Blocks(s, s.fn) = B /\ Len(t.blocks[s.fn]) = Len(B) + k
      /\ \A b \in 1 .. Len(B) : t.blocks[s.fn][b] = B[b]
      /\ \A b \in Len(B) + 1 .. Len(B) + k : t.blocks[s.fn][b] = <<>>
  BY DEF Longer, Blocks
<1>2. B \in Seq(Seq(Instructions)) /\ t.blocks[s.fn] \in Seq(Seq(Instructions))
  BY DEF Longer, Types
<1> HIDE DEF B
<1>3. Len(B) \in Nat /\ DOMAIN B = 1 .. Len(B) /\ DOMAIN t.blocks[s.fn] = 1 .. Len(B) + k
  BY <1>1, <1>2, LenProperties
<1>4. \A x, y \in Nat : /\ 1 .. x \subseteq 1 .. x + y
                         /\ \A b \in 1 .. x + y : b \in 1 .. x \/ b \in x + 1 .. x + y
  OBVIOUS
<1>5. /\ DOMAIN B \subseteq DOMAIN t.blocks[s.fn]
      /\ \A b \in DOMAIN t.blocks[s.fn] : b \notin DOMAIN B => b \in Len(B) + 1 .. Len(B) + k
  BY <1>3, <1>4
<1> QED
  BY <1>1, <1>3, <1>5 DEF B

LEMMA BegunLonger ==
  ASSUME NEW s, Types(s), IInv(s), s.open # {}, NEW h, NEW j \in Nat, Begun(s, h, j),
         NEW k \in Nat, NEW u, Longer(h, u, k)
  PROVE  Begun(s, u, j + k)
<1>1. /\ Types(h) /\ Types(u) /\ Same(s, h) /\ Same(s, u) /\ u.at = s.at /\ h.fn = s.fn
      /\ Grown(s, h, Mine(s)) /\ Grown(h, u, {s.fn})
  BY DEF Begun, Longer, Same
<1>2. Grown(h, u, Mine(s))
  BY <1>1, MineIsNotDone DEF Grown
<1>3. Grown(s, u, Mine(s))
  BY <1>1, <1>2, GrownTwice
<1>4. ASSUME Live(s)
      PROVE  /\ Len(u.blocks[s.fn]) = Len(s.blocks[s.fn]) + (j + k)
             /\ \A b \in DOMAIN u.blocks[s.fn] :
                  /\ b \notin DOMAIN s.blocks[s.fn] => u.blocks[s.fn][b] = <<>>
                  /\ b \in DOMAIN s.blocks[s.fn] /\ <<s.fn, b>> # s.at =>
                       u.blocks[s.fn][b] = s.blocks[s.fn][b]
                  /\ <<s.fn, b>> = s.at =>
                       /\ IsOpen(u.blocks[s.fn][b])
                       /\ Phis(u.blocks[s.fn][b]) = Phis(s.blocks[s.fn][b])
  <2>1. s.fn \in DOMAIN s.blocks /\ s.at[2] \in DOMAIN s.blocks[s.fn]
        /\ Len(s.blocks[s.fn]) \in Nat
    BY <1>4, LiveIs
  <2>2. /\ s.fn \in DOMAIN h.blocks
        /\ DOMAIN s.blocks[s.fn] \subseteq DOMAIN h.blocks[s.fn]
    BY <1>1, <2>1 DEF Grown
  <2>3. /\ Len(u.blocks[s.fn]) = Len(h.blocks[s.fn]) + k
        /\ \A b \in DOMAIN u.blocks[s.fn] :
             u.blocks[s.fn][b] = IF b \in DOMAIN h.blocks[s.fn] THEN h.blocks[s.fn][b] ELSE <<>>
    <3>1. h.fn \in DOMAIN h.blocks /\ Types(h)
      BY <1>1, <2>2
    <3>2. /\ Len(u.blocks[h.fn]) = Len(h.blocks[h.fn]) + k
          /\ \A b \in DOMAIN u.blocks[h.fn] :
               u.blocks[h.fn][b] = IF b \in DOMAIN h.blocks[h.fn] THEN h.blocks[h.fn][b]
                                                                  ELSE <<>>
      BY <3>1, Lengthened
    <3> QED
      BY <1>1, <3>2
  <2>4. Len(h.blocks[s.fn]) = Len(s.blocks[s.fn]) + j
    BY <1>4 DEF Begun
  <2>5. Len(u.blocks[s.fn]) = Len(s.blocks[s.fn]) + (j + k)
    <3> DEFINE x == Len(s.blocks[s.fn])
               y == Len(h.blocks[s.fn])
               z == Len(u.blocks[s.fn])
    <3>1. x \in Nat /\ y = x + j /\ z = y + k
      BY <2>1, <2>3, <2>4
    <3> HIDE DEF x, y, z
    <3>2. z = x + (j + k)
      BY <3>1
    <3> QED
      BY <3>2 DEF x, z
  <2>6. \A b : <<s.fn, b>> = s.at => b \in DOMAIN s.blocks[s.fn]
    BY <2>1
  <2> QED
    BY <1>4, <2>2, <2>3, <2>5, <2>6 DEF Begun
<1> QED
  BY <1>1, <1>3, <1>4 DEF Begun

Leads(ins) == IF ins.op = "br" THEN ToSet(ins.places) ELSE {}

LEMMA Left ==
  ASSUME NEW s, Types(s), IInv(s), s.open # {}, NEW h, NEW k, Begun(s, h, k),
         NEW ins \in Instructions, ins.op \in {"br", "ret"}
  PROVE  /\ Gone(s, Emit(h, ins), k, Leads(ins))
         /\ Emit(h, ins).stack = h.stack /\ Emit(h, ins).at = h.at
         /\ Emit(h, ins).nested = h.nested /\ Emit(h, ins).val = h.val
<1> DEFINE e == Emit(h, ins)
           to == Leads(ins)
<1>1. s.at[1] \in Mine(s) /\ Exists(s, s.at)
  BY MineIsNotDone
<1>2. h.at = s.at /\ Types(h) /\ Same(s, h) /\ Grown(s, h, Mine(s)) /\ Exists(h, h.at)
  BY <1>1, GrownExists DEF Begun
<1>3. /\ Types(e) /\ Same(h, e) /\ Grown(h, e, Mine(s)) /\ e.stack = h.stack /\ e.at = h.at
      /\ e.nested = h.nested /\ e.val = h.val
      /\ DOMAIN e.blocks[s.at[1]] = DOMAIN h.blocks[s.at[1]]
      /\ \A b \in DOMAIN h.blocks[s.at[1]] :
           /\ b # s.at[2] => e.blocks[s.at[1]][b] = h.blocks[s.at[1]][b]
           /\ b = s.at[2] /\ IsOpen(h.blocks[s.at[1]][b]) =>
                /\ Ends(e.blocks[s.at[1]][b], to)
                /\ Phis(e.blocks[s.at[1]][b]) = Phis(h.blocks[s.at[1]][b])
  BY <1>1, <1>2, BranchIs, SMTT(30) DEF Leads
<1> HIDE DEF e, to
<1>4. Same(s, e) /\ Grown(s, e, Mine(s))
  BY <1>2, <1>3, GrownTwice DEF Same
<1>5. ASSUME Live(s)
      PROVE  /\ Len(e.blocks[s.fn]) = Len(s.blocks[s.fn]) + k
             /\ \A b \in DOMAIN e.blocks[s.fn] :
                  /\ b \notin DOMAIN s.blocks[s.fn] => e.blocks[s.fn][b] = <<>>
                  /\ b \in DOMAIN s.blocks[s.fn] /\ <<s.fn, b>> # s.at =>
                       e.blocks[s.fn][b] = s.blocks[s.fn][b]
                  /\ <<s.fn, b>> = s.at =>
                       /\ Ends(e.blocks[s.fn][b], to)
                       /\ Phis(e.blocks[s.fn][b]) = Phis(s.blocks[s.fn][b])
  <2>1. /\ s.at = <<s.fn, s.at[2]>> /\ s.at[1] = s.fn /\ s.fn \in DOMAIN s.blocks
        /\ s.at[2] \in DOMAIN s.blocks[s.fn]
    BY <1>5, LiveIs
  <2>2. s.fn \in DOMAIN h.blocks /\ s.fn \in DOMAIN e.blocks
    BY <1>2, <1>3, <2>1 DEF Grown
  <2>3. h.blocks[s.fn] \in Seq(Seq(Instructions)) /\ e.blocks[s.fn] \in Seq(Seq(Instructions))
    BY <1>2, <1>3, <2>2 DEF Types
  <2>4. Len(e.blocks[s.fn]) = Len(h.blocks[s.fn])
    <3>1. \A x, y \in Nat : 1 .. x = 1 .. y => x = y
      OBVIOUS
    <3>2. /\ Len(h.blocks[s.fn]) \in Nat /\ DOMAIN h.blocks[s.fn] = 1 .. Len(h.blocks[s.fn])
          /\ Len(e.blocks[s.fn]) \in Nat /\ DOMAIN e.blocks[s.fn] = 1 .. Len(e.blocks[s.fn])
      BY <2>3, LenProperties
    <3> QED
      BY <1>3, <2>1, <3>1, <3>2
  <2>5. \A b : (<<s.fn, b>> = s.at) <=> (b = s.at[2])
    BY <2>1
  <2>6. /\ Len(h.blocks[s.fn]) = Len(s.blocks[s.fn]) + k
        /\ \A b \in DOMAIN h.blocks[s.fn] :
             /\ b \notin DOMAIN s.blocks[s.fn] => h.blocks[s.fn][b] = <<>>
             /\ b \in DOMAIN s.blocks[s.fn] /\ <<s.fn, b>> # s.at =>
                  h.blocks[s.fn][b] = s.blocks[s.fn][b]
             /\ <<s.fn, b>> = s.at => /\ IsOpen(h.blocks[s.fn][b])
                                      /\ Phis(h.blocks[s.fn][b]) = Phis(s.blocks[s.fn][b])
    BY <1>5 DEF Begun
  <2>7. ASSUME NEW b \in DOMAIN e.blocks[s.fn]
        PROVE  /\ b \notin DOMAIN s.blocks[s.fn] => e.blocks[s.fn][b] = <<>>
               /\ b \in DOMAIN s.blocks[s.fn] /\ <<s.fn, b>> # s.at =>
                    e.blocks[s.fn][b] = s.blocks[s.fn][b]
               /\ <<s.fn, b>> = s.at =>
                    /\ Ends(e.blocks[s.fn][b], to)
                    /\ Phis(e.blocks[s.fn][b]) = Phis(s.blocks[s.fn][b])
    BY <1>3, <2>1, <2>5, <2>6
  <2> QED
    BY <2>4, <2>6, <2>7
<1> QED
  BY <1>3, <1>4, <1>5 DEF Gone, e, to

LEMMA Branched ==
  ASSUME NEW s, Types(s), IInv(s), s.open # {}, NEW h, NEW k, Begun(s, h, k),
         NEW ins \in Instructions, ins.op = "br"
  PROVE  /\ Gone(s, Emit(h, ins), k, ToSet(ins.places))
         /\ Emit(h, ins).stack = h.stack /\ Emit(h, ins).at = h.at
         /\ Emit(h, ins).nested = h.nested /\ Emit(h, ins).val = h.val
BY Left DEF Leads

LEMMA GoneLonger ==
  ASSUME NEW s, Types(s), IInv(s), s.open # {}, NEW e, NEW j \in Nat, NEW to,
         Gone(s, e, j, to), NEW k \in Nat, NEW u, Longer(e, u, k)
  PROVE  Gone(s, u, j + k, to)
<1>1. /\ Types(e) /\ Types(u) /\ Same(s, e) /\ Same(s, u) /\ e.fn = s.fn
      /\ Grown(s, e, Mine(s)) /\ Grown(e, u, {s.fn})
  BY DEF Gone, Longer, Same
<1>2. Grown(e, u, Mine(s))
  BY <1>1, MineIsNotDone DEF Grown
<1>3. Grown(s, u, Mine(s))
  BY <1>1, <1>2, GrownTwice
<1>4. ASSUME Live(s)
      PROVE  /\ Len(u.blocks[s.fn]) = Len(s.blocks[s.fn]) + (j + k)
             /\ \A b \in DOMAIN u.blocks[s.fn] :
                  /\ b \notin DOMAIN s.blocks[s.fn] => u.blocks[s.fn][b] = <<>>
                  /\ b \in DOMAIN s.blocks[s.fn] /\ <<s.fn, b>> # s.at =>
                       u.blocks[s.fn][b] = s.blocks[s.fn][b]
                  /\ <<s.fn, b>> = s.at =>
                       /\ Ends(u.blocks[s.fn][b], to)
                       /\ Phis(u.blocks[s.fn][b]) = Phis(s.blocks[s.fn][b])
  <2>1. s.fn \in DOMAIN s.blocks /\ s.at[2] \in DOMAIN s.blocks[s.fn]
        /\ Len(s.blocks[s.fn]) \in Nat
    BY <1>4, LiveIs
  <2>2. /\ s.fn \in DOMAIN e.blocks
        /\ DOMAIN s.blocks[s.fn] \subseteq DOMAIN e.blocks[s.fn]
    BY <1>1, <2>1 DEF Grown
  <2>3. /\ Len(u.blocks[s.fn]) = Len(e.blocks[s.fn]) + k
        /\ \A b \in DOMAIN u.blocks[s.fn] :
             u.blocks[s.fn][b] = IF b \in DOMAIN e.blocks[s.fn] THEN e.blocks[s.fn][b] ELSE <<>>
    <3>1. e.fn \in DOMAIN e.blocks /\ Types(e)
      BY <1>1, <2>2
    <3>2. /\ Len(u.blocks[e.fn]) = Len(e.blocks[e.fn]) + k
          /\ \A b \in DOMAIN u.blocks[e.fn] :
               u.blocks[e.fn][b] = IF b \in DOMAIN e.blocks[e.fn] THEN e.blocks[e.fn][b]
                                                                  ELSE <<>>
      BY <3>1, Lengthened
    <3> QED
      BY <1>1, <3>2
  <2>4. Len(e.blocks[s.fn]) = Len(s.blocks[s.fn]) + j
    BY <1>4 DEF Gone
  <2>5. Len(u.blocks[s.fn]) = Len(s.blocks[s.fn]) + (j + k)
    <3> DEFINE x == Len(s.blocks[s.fn])
               y == Len(e.blocks[s.fn])
               z == Len(u.blocks[s.fn])
    <3>1. x \in Nat /\ y = x + j /\ z = y + k
      BY <2>1, <2>3, <2>4
    <3> HIDE DEF x, y, z
    <3>2. z = x + (j + k)
      BY <3>1
    <3> QED
      BY <3>2 DEF x, z
  <2>6. \A b : <<s.fn, b>> = s.at => b \in DOMAIN s.blocks[s.fn]
    BY <2>1
  <2> QED
    BY <1>4, <2>2, <2>3, <2>5, <2>6 DEF Gone
<1> QED
  BY <1>1, <1>3, <1>4 DEF Gone

LEMMA GoneSame ==
  ASSUME NEW s, NEW e, NEW k, NEW to, Gone(s, e, k, to),
         NEW t, Types(t), Same(e, t), t.blocks = e.blocks
  PROVE  Gone(s, t, k, to)
BY DEF Gone, Same, Grown

LEMMA GoneFlow ==
  ASSUME NEW s, Types(s), IInv(s), s.open # {}, Live(s), NEW k, NEW to, NEW t,
         Gone(s, t, k, to), t.at # s.at
  PROVE  /\ Flow(s, t, to)
         /\ \A b \in DOMAIN s.blocks[s.fn] : Phis(t.blocks[s.fn][b]) = Phis(s.blocks[s.fn][b])
<1>1. s.fn \in DOMAIN s.blocks
  BY LiveIs
<1>2. DOMAIN s.blocks[s.fn] \subseteq DOMAIN t.blocks[s.fn]
  BY <1>1 DEF Gone, Grown
<1> QED
  BY <1>2 DEF Gone, Flow

LEMMA FresherIs ==
  ASSUME NEW s, Types(s), IInv(s), s.open # {}, Live(s), NEW k \in Nat, NEW to, NEW t,
         Gone(s, t, k, to)
  PROVE  /\ Fresher(s, t) =
              { <<s.fn, b>> : b \in Len(s.blocks[s.fn]) + 1 .. Len(s.blocks[s.fn]) + k }
         /\ DOMAIN t.blocks[s.fn] = 1 .. Len(s.blocks[s.fn]) + k
<1> DEFINE L == Len(s.blocks[s.fn])
<1>1. s.fn \in DOMAIN s.blocks /\ L \in Nat /\ DOMAIN s.blocks[s.fn] = 1 .. L
  BY LiveIs
<1>2. s.fn \in DOMAIN t.blocks /\ Len(t.blocks[s.fn]) = L + k /\ Types(t)
  BY <1>1 DEF Gone, Grown
<1>3. DOMAIN t.blocks[s.fn] = 1 .. L + k
  <2>1. t.blocks[s.fn] \in Seq(Seq(Instructions))
    BY <1>2 DEF Types
  <2> QED
    BY <1>2, <2>1, LenProperties
<1> HIDE DEF L
<1>4. \A x, y \in Nat : (1 .. x + y) \ (1 .. x) = x + 1 .. x + y
  OBVIOUS
<1>5. DOMAIN t.blocks[s.fn] \ DOMAIN s.blocks[s.fn] = L + 1 .. L + k
  BY <1>1, <1>3, <1>4
<1> QED
  BY <1>3, <1>5 DEF Fresher, L

\* The phi of a condition or a loop, where the builder stands
LEMMA NoFresher ==
  ASSUME NEW s, Types(s), IInv(s), s.open # {}, Live(s), NEW to, NEW t, Gone(s, t, 0, to)
  PROVE  Fresher(s, t) = {}
<1>1. \A x \in Nat : x + 1 .. x + 0 = {}
  OBVIOUS
<1>2. Fresher(s, t) =
        { <<s.fn, b>> : b \in Len(s.blocks[s.fn]) + 1 .. Len(s.blocks[s.fn]) + 0 }
  BY FresherIs
<1>3. Len(s.blocks[s.fn]) \in Nat
  BY LiveIs
<1> QED
  BY <1>1, <1>2, <1>3

LEMMA OneFresher ==
  ASSUME NEW s, Types(s), IInv(s), s.open # {}, Live(s), NEW to, NEW e, Gone(s, e, 0, to),
         NEW t, Gone(s, t, 1, to), NEW p \in Places, p[1] = s.fn,
         p[2] = Len(Blocks(e, e.fn)) + 1
  PROVE  Fresher(s, t) = {p} /\ p[2] \notin DOMAIN s.blocks[s.fn]
<1> DEFINE L == Len(s.blocks[s.fn])
<1>1. Blocks(e, e.fn) = e.blocks[s.fn]
  BY LiveIs DEF Gone, Grown, Same, Blocks
<1>2. L \in Nat /\ DOMAIN s.blocks[s.fn] = 1 .. L
  BY LiveIs
<1>3. Len(e.blocks[s.fn]) = L + 0
  BY DEF Gone
<1> HIDE DEF L
<1>4. p = <<s.fn, L + 1>>
  BY <1>1, <1>2, <1>3 DEF Places
<1>5. Fresher(s, t) = { <<s.fn, b>> : b \in L + 1 .. L + 1 }
  BY FresherIs DEF L
<1>6. L + 1 .. L + 1 = {L + 1}
  BY <1>2
<1> QED
  BY <1>2, <1>4, <1>5, <1>6

LEMMA TwoFresher ==
  ASSUME NEW s, Types(s), IInv(s), s.open # {}, Live(s), NEW to, NEW e, Gone(s, e, 0, to),
         NEW h, Gone(s, h, 1, to), NEW t, Gone(s, t, 2, to),
         NEW p \in Places, p[1] = s.fn, p[2] = Len(Blocks(e, e.fn)) + 1,
         NEW q \in Places, q[1] = s.fn, q[2] = Len(Blocks(h, h.fn)) + 1
  PROVE  /\ Fresher(s, t) = {p, q} /\ p # q
         /\ p[2] \notin DOMAIN s.blocks[s.fn] /\ q[2] \notin DOMAIN s.blocks[s.fn]
<1> DEFINE L == Len(s.blocks[s.fn])
<1>1. Blocks(e, e.fn) = e.blocks[s.fn] /\ Blocks(h, h.fn) = h.blocks[s.fn]
  BY LiveIs DEF Gone, Grown, Same, Blocks
<1>2. L \in Nat /\ DOMAIN s.blocks[s.fn] = 1 .. L
  BY LiveIs
<1>3. Len(e.blocks[s.fn]) = L + 0 /\ Len(h.blocks[s.fn]) = L + 1
  BY DEF Gone
<1>4. Fresher(s, t) = { <<s.fn, b>> : b \in L + 1 .. L + 2 }
  BY FresherIs
<1> HIDE DEF L
<1>5. p = <<s.fn, L + 1>>
  BY <1>1, <1>2, <1>3 DEF Places
<1>6. q = <<s.fn, L + 2>>
  <2>1. L + 1 + 1 = L + 2
    BY <1>2
  <2> QED
    BY <1>1, <1>2, <1>3, <2>1 DEF Places
<1>7. L + 1 .. L + 2 = {L + 1, L + 2} /\ L + 1 # L + 2 /\ L + 1 \notin 1 .. L /\ L + 2 \notin 1 .. L
  BY <1>2
<1> QED
  BY <1>2, <1>4, <1>5, <1>6, <1>7

Phied(u, t, places) ==
  /\ DOMAIN t.blocks = DOMAIN u.blocks
  /\ \A f \in DOMAIN u.blocks :
       /\ DOMAIN t.blocks[f] = DOMAIN u.blocks[f]
       /\ \A b \in DOMAIN u.blocks[f] :
            \/ t.blocks[f][b] = u.blocks[f][b]
            \/ /\ <<f, b>> = u.at
               /\ \E phi \in Instructions :
                    /\ phi.op = "phi" /\ phi.places = places
                    /\ t.blocks[f][b] = Append(u.blocks[f][b], phi)

LEMMA PhiIs ==
  ASSUME NEW u, Types(u), Exists(u, u.at), NEW M, u.at[1] \in M,
         NEW values \in Seq(Values), NEW places \in Seq(Places)
  PROVE  /\ Types(GenPhi(u, values, places)) /\ Same(u, GenPhi(u, values, places))
         /\ GenPhi(u, values, places).stack = u.stack /\ GenPhi(u, values, places).at = u.at
         /\ GenPhi(u, values, places).nested = u.nested
         /\ Grown(u, GenPhi(u, values, places), M)
         /\ Phied(u, GenPhi(u, values, places), places)
<1> USE DEF Phied
<1> DEFINE t == GenPhi(u, values, places)
<1>1. CASE NoValue \in ToSet(values)
  <2>1. t = Crash(u)
    BY <1>1 DEF GenPhi
  <2>2. /\ Types(t) /\ Same(u, t) /\ t.stack = u.stack /\ t.at = u.at /\ t.nested = u.nested
        /\ t.blocks = u.blocks
    <3>1. Types(Crash(u)) /\ Extended(u, Crash(u))
      BY CrashIs
    <3>2. Crash(u).blocks = u.blocks
      BY DEF Crash, Types, Fresh
    <3> QED
      BY <2>1, <3>1, <3>2 DEF Extended
  <2> HIDE DEF t
  <2>3. Grown(u, t, M)
    BY <2>2, GrownNothing
  <2> QED
    BY <2>2, <2>3 DEF t
<1>2. CASE NoValue \notin ToSet(values)
  <2> DEFINE w == Fault(u, "phi", \E v \in ToSet(values) : v.type # "inst")
             phi == Instruction("phi", values, places)
             e == Emit(w, phi)
  <2>1. t = Returned(e, Result(w, "inst"))
    BY <1>2 DEF GenPhi, EmitReturned
  <2>2. Types(w) /\ Extended(u, w) /\ w.blocks = u.blocks
    BY FaultIs DEF Fault, Types, Fresh
  <2>3. phi \in Instructions /\ phi.op = "phi" /\ phi.places = places
    BY InstructionIs
  <2> HIDE DEF w, phi
  <2>4. w.at = u.at /\ Same(u, w) /\ w.stack = u.stack /\ w.nested = u.nested
    BY <2>2 DEF Extended
  <2>5. Exists(w, w.at)
    BY <2>2, <2>4 DEF Exists
  <2>6. /\ Types(e) /\ Same(w, e) /\ e.stack = w.stack /\ e.at = w.at /\ e.nested = w.nested
        /\ DOMAIN e.blocks = DOMAIN w.blocks
        /\ \A f \in DOMAIN w.blocks :
             /\ DOMAIN e.blocks[f] = DOMAIN w.blocks[f]
             /\ \A b \in DOMAIN w.blocks[f] :
                  e.blocks[f][b] =
                    IF <<f, b>> = w.at THEN Append(w.blocks[f][b], phi) ELSE w.blocks[f][b]
    BY <2>2, <2>3, <2>5, EmitIs
  <2> HIDE DEF e
  <2>7. Result(w, "inst") \in Values
    BY <2>2, <2>5, ResultIs
  <2>8. Types(t) /\ Extended(e, t) /\ t.blocks = e.blocks
    <3>1. Returned(e, Result(w, "inst")).blocks = e.blocks
      BY <2>6 DEF Returned, Types, Fresh
    <3> QED
      BY <2>1, <2>6, <2>7, <3>1, ReturnedIs
  <2> HIDE DEF t
  <2>9. /\ Same(u, t) /\ t.stack = u.stack /\ t.at = u.at /\ t.nested = u.nested
    BY <2>4, <2>6, <2>8 DEF Extended, Same
  <2>10. /\ DOMAIN t.blocks = DOMAIN u.blocks
         /\ \A f \in DOMAIN u.blocks :
              /\ DOMAIN t.blocks[f] = DOMAIN u.blocks[f]
              /\ \A b \in DOMAIN u.blocks[f] :
                   t.blocks[f][b] =
                     IF <<f, b>> = u.at THEN Append(u.blocks[f][b], phi) ELSE u.blocks[f][b]
    BY <2>2, <2>4, <2>6, <2>8
  <2>11. Grown(u, t, M)
    BY <2>8, <2>10, GrownHere
  <2> QED
    BY <2>3, <2>8, <2>9, <2>10, <2>11 DEF t
<1> QED
  BY <1>1, <1>2

\* At most this phi is new, where the builder stands
PhiAdded(s, t, places) ==
  \A b \in DOMAIN s.blocks[s.fn] :
    /\ <<s.fn, b>> # t.at => Phis(t.blocks[s.fn][b]) = Phis(s.blocks[s.fn][b])
    /\ <<s.fn, b>> = t.at =>
         \/ Phis(t.blocks[s.fn][b]) = Phis(s.blocks[s.fn][b])
         \/ \A i \in Phis(t.blocks[s.fn][b]) :
              i \in Phis(s.blocks[s.fn][b]) \/ i.places = places

LEMMA GonePhi ==
  ASSUME NEW s, Types(s), IInv(s), s.open # {}, Live(s), NEW k, NEW to, NEW u,
         Gone(s, u, k, to), u.at \in Pending(Top(s)),
         NEW places, NEW t, Phied(u, t, places), t.at = u.at
  PROVE  /\ Flow(s, t, to) /\ Fresher(s, t) = Fresher(s, u)
         /\ DOMAIN t.blocks[s.fn] = DOMAIN u.blocks[s.fn]
         /\ PhiAdded(s, t, places)
<1> DEFINE f == s.fn
<1>1. f \in DOMAIN s.blocks /\ f \in DOMAIN u.blocks
  BY LiveIs DEF Gone, Grown
<1>2. Blocked(s) /\ Len(s.stack) \in DOMAIN s.stack
  BY StackBounds DEF IInv, Alive, Bottom
<1>3. u.at # s.at
  BY <1>2 DEF Blocked, Top
<1>4. /\ Flow(s, u, to)
      /\ \A b \in DOMAIN s.blocks[f] : Phis(u.blocks[f][b]) = Phis(s.blocks[f][b])
  BY <1>3, GoneFlow
<1>7. /\ DOMAIN t.blocks[f] = DOMAIN u.blocks[f]
      /\ \A b \in DOMAIN u.blocks[f] :
           \/ t.blocks[f][b] = u.blocks[f][b]
           \/ /\ <<f, b>> = u.at
              /\ \E phi \in Instructions :
                   /\ phi.op = "phi" /\ phi.places = places
                   /\ t.blocks[f][b] = Append(u.blocks[f][b], phi)
  BY <1>1 DEF Phied
<1>8. Fresher(s, t) = Fresher(s, u)
  BY <1>7 DEF Fresher
<1>9. DOMAIN s.blocks[f] \subseteq DOMAIN u.blocks[f]
  BY <1>4 DEF Flow
<1>10. \A b \in DOMAIN s.blocks[f] :
         /\ s.blocks[f][b] \in Seq(Instructions)
         /\ <<f, b>> \in Pending(Top(s)) => IsOpen(s.blocks[f][b])
  BY <1>4, FlowIsOpen
<1>11. \A b \in DOMAIN s.blocks[f] : <<f, b>> = u.at => u.blocks[f][b] = s.blocks[f][b]
  BY <1>3, <1>9 DEF Gone
<1>12. \A b \in DOMAIN u.blocks[f] : <<f, b>> = u.at => b \in DOMAIN s.blocks[f]
  <2>1. Exists(s, u.at)
    BY <1>2, MineIsNotDone, PendingIsNamed DEF Top
  <2> QED
    BY <2>1 DEF Exists
<1>13. ASSUME NEW b \in DOMAIN s.blocks[f]
       PROVE  /\ <<f, b>> # u.at => Phis(t.blocks[f][b]) = Phis(s.blocks[f][b])
              /\ <<f, b>> = u.at =>
                   \/ Phis(t.blocks[f][b]) = Phis(s.blocks[f][b])
                   \/ \A i \in Phis(t.blocks[f][b]) :
                        i \in Phis(s.blocks[f][b]) \/ i.places = places
  <2>1. CASE t.blocks[f][b] = u.blocks[f][b]
    BY <1>4, <2>1
  <2>2. CASE t.blocks[f][b] # u.blocks[f][b]
    <3>1. PICK phi \in Instructions :
             /\ phi.op = "phi" /\ phi.places = places
             /\ t.blocks[f][b] = Append(u.blocks[f][b], phi)
      BY <1>7, <1>9, <2>2
    <3>2. <<f, b>> = u.at
      BY <1>7, <1>9, <2>2
    <3>3. t.blocks[f][b] = Append(s.blocks[f][b], phi)
      BY <1>11, <3>1, <3>2
    <3>4. Phis(t.blocks[f][b]) = Phis(s.blocks[f][b]) \cup {phi}
      BY <1>10, <3>1, <3>2, <3>3, PhiAppended
    <3>5. \A i \in Phis(t.blocks[f][b]) : i \in Phis(s.blocks[f][b]) \/ i = phi
      BY <3>4
    <3> QED
      BY <3>1, <3>2, <3>5
  <2> QED
    BY <2>1, <2>2
<1>14. Flow(s, t, to)
  <2>1. ASSUME NEW b \in DOMAIN u.blocks[f]
        PROVE  /\ b \notin DOMAIN s.blocks[f] => t.blocks[f][b] = <<>>
               /\ b \in DOMAIN s.blocks[f] /\ <<f, b>> \notin {s.at, t.at} =>
                    t.blocks[f][b] = s.blocks[f][b]
               /\ <<f, b>> = s.at => /\ Ends(t.blocks[f][b], to)
                                     /\ Phis(t.blocks[f][b]) = Phis(s.blocks[f][b])
               /\ b \in DOMAIN s.blocks[f] /\ <<f, b>> = t.at =>
                    \/ t.blocks[f][b] = s.blocks[f][b]
                    \/ \E phi \in Instructions :
                         /\ phi.op = "phi"
                         /\ t.blocks[f][b] = Append(s.blocks[f][b], phi)
    <3>1. CASE <<f, b>> = u.at
      BY <1>3, <1>7, <1>11, <1>12, <3>1
    <3>2. CASE <<f, b>> # u.at
      <4>1. t.blocks[f][b] = u.blocks[f][b]
        BY <1>7, <3>2
      <4> QED
        BY <1>4, <3>2, <4>1 DEF Flow
    <3> QED
      BY <3>1, <3>2
  <2> QED
    BY <1>3, <1>7, <1>9, <2>1 DEF Flow
<1> QED
  BY <1>7, <1>8, <1>13, <1>14 DEF PhiAdded

LEMMA FrameIs ==
  ASSUME NEW frame \in Frames
  PROVE  /\ frame.step = "compile" => frame \in CompileFrames
         /\ frame.step = "return" => frame \in ReturnFrames
         /\ frame.step = "define" => frame \in DefineFrames
         /\ frame.step = "argument" => frame \in ArgumentFrames
         /\ frame.step = "callee" => frame \in CalleeFrames
         /\ frame.step = "call" => frame \in CallFrames
         /\ frame.step \in {"branch", "test"} => frame \in ConditionFrames
         /\ frame.step = "loop" => frame \in LoopFrames
         /\ frame.step = "again" => frame \in AgainFrames
         /\ frame.step = "slot" => frame \in SlotFrames
         /\ frame.step \in {"assign", "bind"} => frame \in StoreFrames
         /\ frame.step \in {"compile", "return", "define", "argument", "callee", "call",
                            "branch", "test", "loop", "again", "slot", "assign", "bind"}
BY DEF Frames, CompileFrames, ReturnFrames, DefineFrames, ArgumentFrames, CalleeFrames,
       CallFrames, ConditionFrames, LoopFrames, AgainFrames, SlotFrames, StoreFrames

\* What is known of the innermost frame
LEMMA TopNames ==
  ASSUME NEW s, Types(s), IInv(s), s.open # {}
  PROVE  /\ Top(s) \in Frames /\ Len(s.stack) \in DOMAIN s.stack /\ s.stack # <<>>
         /\ \A p \in Named(Top(s)) : Exists(s, p) /\ p[1] \in Mine(s) /\ p \in Places
         /\ Live(s) => /\ \A p \in Named(Top(s)) :
                            p = <<s.fn, p[2]>> /\ p[1] = s.fn /\ p[2] \in DOMAIN s.blocks[s.fn]
                       /\ Distinct(Top(s)) /\ s.at \notin Pending(Top(s))
<1>1. Len(s.stack) \in DOMAIN s.stack /\ s.stack # <<>>
  BY StackBounds DEF IInv, Bottom
<1>2. Top(s) \in Frames
  BY <1>1, PoppedIs
<1>3. \A p \in Named(Top(s)) : Exists(s, p) /\ p[1] \in Mine(s) /\ p \in Places
  BY <1>1, <1>2, MineIsNotDone, NamedArePlaces DEF Top
<1>4. ASSUME Live(s)
      PROVE  /\ \A p \in Named(Top(s)) : p[1] = s.fn
             /\ Distinct(Top(s)) /\ s.at \notin Pending(Top(s))
  BY <1>1, <1>4 DEF IInv, Alive, Blocked, Top
<1> QED
  BY <1>1, <1>2, <1>3, <1>4 DEF Exists, Places

LEMMA TopEdges ==
  ASSUME NEW s, Types(s), IInv(s), s.open # {}, Live(s), s.fn \notin s.nested
  PROVE  /\ Top(s).step = "branch" => s.at = Top(s).body
         /\ Top(s).step = "loop" => /\ s.at = Top(s).loop
                                    /\ Preds(s, s.fn, Top(s).cond) = {Top(s).entry}
         /\ Top(s).step \in {"branch", "test"} =>
              Preds(s, s.fn, Top(s).end) = ToSet(Top(s).places)
         /\ \A p \in Aims(Top(s)) : Phis(s.blocks[p[1]][p[2]]) = {}
<1>1. Len(s.stack) \in DOMAIN s.stack
  BY TopNames
<1> QED
  BY <1>1 DEF IInv, Alive, Edged, Top

-----------------------------------------------------------------------------
\* The handlers of conditions and loops

LEMMA GenTestKeeps ==
  ASSUME NEW s, Types(s), IInv(s), s.open # {}, Len(s.stack) >= 3, program \in Programs,
         Top(s).step = "test", NEW t, t = GenTest(Popped(s), Top(s))
  PROVE  Types(t) /\ IInv(t) /\ Onward(s, t)
<1> DEFINE p == Popped(s)
           frame == Top(s)
           h == GenTruth(p)
           br == Instruction("br", <<h.val>>, <<frame.body, frame.else>>)
           e == Emit(h, br)
           u == SetInsertPoint(e, frame.body)
           next == [frame EXCEPT !.step = "branch", !.left = frame.left - 1]
           n == frame.n.branches[frame.left][2]
           to == {frame.body, frame.else}
           k == Len(s.stack)
<1>1. frame \in Frames /\ s.stack # <<>> /\ frame \in ConditionFrames
  BY TopNames, FrameIs
<1>2. /\ Types(p) /\ Same(s, p) /\ k \in Nat /\ Len(p.stack) = k - 1
      /\ \A i \in 1 .. k - 1 : p.stack[i] = s.stack[i]
      /\ p.at = s.at /\ p.nested = s.nested /\ p.blocks = s.blocks
  BY <1>1, PoppedIs
<1>3. Exists(p, p.at)
  BY <1>2, MineIsNotDone DEF Exists
<1>4. /\ frame.entry \in Places /\ frame.end \in Places /\ frame.else \in Places
      /\ frame.test \in Places /\ frame.body \in Places /\ frame.left \in Nat \ {0}
      /\ frame.n \in NodesOf({"if"}) /\ frame.left <= Len(frame.n.branches)
      /\ frame.step = "test" /\ frame.values \in Seq(Values) /\ frame.places \in Seq(Places)
      /\ DOMAIN frame = {"step", "n", "left", "entry", "end", "else", "test", "body",
                         "values", "places"}
  BY <1>1 DEF ConditionFrames
<1>5. t = CallThen(u, n, next)
  BY DEF GenTest, GenCondBr
<1> HIDE DEF p
<1>6. Types(h) /\ Extended(p, h)
  BY <1>2, <1>3, GenTruthIs
<1>7. h.val \in Values
  BY <1>6 DEF Types
<1>8. br \in Instructions /\ br.op = "br" /\ br.places = <<frame.body, frame.else>>
  <2>1. "br" \in {"alloca", "load", "store", "call", "phi", "br", "ret"}
    OBVIOUS
  <2>2. <<h.val>> \in Seq(Values) /\ <<frame.body, frame.else>> \in Seq(Places)
    BY <1>4, <1>7
  <2> DEFINE args == <<h.val>>
             places == <<frame.body, frame.else>>
  <2>3. br = Instruction("br", args, places) /\ args \in Seq(Values) /\ places \in Seq(Places)
    BY <2>2
  <2> HIDE DEF args, places, br
  <2>4. br \in Instructions /\ br.op = "br" /\ br.places = places
    BY <2>1, <2>3, InstructionIs
  <2> QED
    BY <2>4 DEF places
<1> HIDE DEF h, br
<1>9. Begun(s, h, 0) /\ h.stack = p.stack /\ h.nested = s.nested
  BY <1>2, <1>6, BegunExtended DEF Extended
<1>10. Gone(s, e, 0, ToSet(br.places)) /\ e.stack = p.stack /\ e.nested = s.nested
  BY <1>8, <1>9, Branched
<1>11. ToSet(br.places) = to
  <2>1. \A x, y : { <<x, y>>[i] : i \in DOMAIN <<x, y>> } = {x, y}
    OBVIOUS
  <2> HIDE DEF frame
  <2> QED
    BY <1>8, <2>1 DEF ToSet
<1> HIDE DEF e
<1>12. /\ Types(u) /\ Same(e, u) /\ u.stack = p.stack /\ u.at = frame.body
       /\ u.nested = s.nested /\ u.blocks = e.blocks
  BY <1>4, <1>10, SetInsertPointIs DEF Gone
<1>13. /\ next \in ConditionFrames /\ next.step = "branch" /\ next.left = frame.left - 1
       /\ next.entry = frame.entry /\ next.end = frame.end /\ next.else = frame.else
       /\ next.test = frame.test /\ next.body = frame.body /\ next.places = frame.places
  <2>1. /\ DOMAIN next = DOMAIN frame /\ next.step = "branch" /\ next.left = frame.left - 1
        /\ next.n = frame.n /\ next.entry = frame.entry /\ next.end = frame.end
        /\ next.else = frame.else /\ next.test = frame.test /\ next.body = frame.body
        /\ next.values = frame.values /\ next.places = frame.places
    BY <1>4
  <2>2. frame.left - 1 \in Nat /\ frame.left - 1 <= Len(frame.n.branches)
    <3>1. Len(frame.n.branches) \in Nat
      BY <1>4, NodeIs, LenProperties
    <3> QED
      BY <1>4, <3>1
  <2>3. next \in [step : {"branch", "test"}, n : NodesOf({"if"}), left : Nat,
                  entry : Places, end : Places, else : Places, test : Places, body : Places,
                  values : Seq(Values), places : Seq(Places)]
    <3>1. frame \in [step : {"branch", "test"}, n : NodesOf({"if"}), left : Nat,
                     entry : Places, end : Places, else : Places, test : Places,
                     body : Places, values : Seq(Values), places : Seq(Places)]
      BY <1>1 DEF ConditionFrames
    <3> HIDE DEF frame
    <3> QED
      BY <2>2, <3>1
  <2> HIDE DEF next
  <2>4. next \in ConditionFrames
    BY <1>4, <2>1, <2>2, <2>3 DEF ConditionFrames
  <2> QED
    BY <2>1, <2>4
<1>14. n \in Nodes
  <2>1. frame.n.branches \in Seq(Nodes \X Nodes)
    BY <1>4, NodeIs
  <2>2. frame.left \in 1 .. Len(frame.n.branches)
    BY <1>4, <2>1, LenProperties
  <2>3. frame.n.branches[frame.left] \in Nodes \X Nodes
    BY <2>1, <2>2, ElementOfSeq
  <2> QED
    BY <2>3
<1> HIDE DEF u, next, n
<1>15. Compiling(n) \in Frames /\ Plain(Compiling(n))
  BY <1>14, CompilingIs
<1>16. /\ Types(t) /\ OnTop(u, t) /\ Len(t.stack) = k + 1
       /\ t.stack[k] = next /\ t.stack[k + 1] = Compiling(n)
  <2>1. /\ Types(t) /\ OnTop(u, t) /\ Len(t.stack) = Len(u.stack) + 2
        /\ t.stack[Len(u.stack) + 1] = next /\ t.stack[Len(u.stack) + 2] = Compiling(n)
    BY <1>5, <1>12, <1>13, <1>15, CallThenIs, FramesIn
  <2>2. Len(u.stack) + 1 = k /\ Len(u.stack) + 2 = k + 1
    BY <1>2, <1>12
  <2> QED
    BY <2>1, <2>2
<1>17. \A i \in Above(s, t) : i = k \/ i = k + 1
  BY <1>2, <1>16 DEF Above
<1>18. k \in Above(s, t) /\ k + 1 \in Above(s, t)
  BY <1>2, <1>16 DEF Above
<1> HIDE DEF k
<1>19. Gone(s, t, 0, to) /\ t.at = frame.body /\ t.nested = s.nested
  BY <1>10, <1>11, <1>12, <1>16, GoneSame DEF OnTop, Same
<1>20. Named(next) \subseteq Named(frame) /\ Named(Compiling(n)) = {}
       /\ Pending(Compiling(n)) = {} /\ Aims(Compiling(n)) = {} /\ Distinct(Compiling(n))
  BY <1>4, <1>13, <1>15, NotInFlow DEF Named, Plain
<1>21. \A x \in Named(frame) : Exists(t, x) /\ x[1] \in Mine(s)
  BY <1>19, TopNames, GrownExists DEF Gone
<1>22. frame.body \in Named(frame) /\ to \subseteq Named(frame)
  BY <1>4 DEF Named
<1>23. Onward(s, t)
  <2>1. Under(s, t)
    BY <1>2, <1>12, <1>16 DEF Under, OnTop, k
  <2>2. \A i \in Above(s, t) :
          /\ t.stack[i].step # "return"
          /\ \A x \in Named(t.stack[i]) : Exists(t, x) /\ x[1] \in Mine(s)
    BY <1>13, <1>16, <1>17, <1>20, <1>21 DEF Compiling
  <2> QED
    BY <1>19, <1>21, <1>22, <2>1, <2>2 DEF Onward, Gone, Grown
<1>24. ASSUME Live(s)
       PROVE  /\ Flow(s, t, to) /\ Framed(s, t)
              /\ Waits(s, t) = Pending(Top(s)) \cup Fresher(s, t)
              /\ to \subseteq {s.fn} \X DOMAIN t.blocks[s.fn]
              /\ to \subseteq Reach(s, t)
              /\ Fresher(s, t) = {}
              /\ \A b \in DOMAIN s.blocks[s.fn] :
                   Phis(t.blocks[s.fn][b]) = Phis(s.blocks[s.fn][b])
  <2>1. /\ Distinct(frame) /\ s.at \notin Pending(frame)
        /\ \A x \in Named(frame) :
             x = <<s.fn, x[2]>> /\ x[1] = s.fn /\ x[2] \in DOMAIN s.blocks[s.fn]
    BY <1>24, TopNames
  <2>2. /\ frame.end \notin {frame.body, frame.else, frame.test}
        /\ frame.left # 1 => frame.entry \notin {frame.end, frame.body}
    BY <1>4, <2>1 DEF Distinct
  <2>3. /\ Pending(frame) = {frame.end, frame.body}
                              \cup (IF frame.left = 1 THEN {} ELSE {frame.entry})
        /\ Pending(next) = {frame.end} \cup (IF frame.left = 1 THEN {} ELSE {frame.entry})
    BY <1>4, <1>13 DEF Pending
  <2>4. t.at # s.at
    BY <1>19, <2>1, <2>3
  <2>5. /\ Flow(s, t, to)
        /\ \A b \in DOMAIN s.blocks[s.fn] :
             Phis(t.blocks[s.fn][b]) = Phis(s.blocks[s.fn][b])
    BY <1>19, <1>24, <2>4, GoneFlow
  <2>6. Fresher(s, t) = {}
    BY <1>19, <1>24, NoFresher
  <2>7. Distinct(next)
    BY <1>13, <2>2 DEF Distinct
  <2>8. Framed(s, t)
    <3>1. t.at[1] = s.fn
      BY <1>19, <1>22, <2>1
    <3>2. \A i \in Above(s, t) :
            /\ \A x \in Named(t.stack[i]) : x[1] = s.fn
            /\ Distinct(t.stack[i]) /\ t.at \notin Pending(t.stack[i])
      BY <1>16, <1>17, <1>19, <1>20, <2>1, <2>2, <2>3, <2>7
    <3>3. \A i, j \in Above(s, t) :
            i # j => Pending(t.stack[i]) \cap Pending(t.stack[j]) = {}
      BY <1>16, <1>17, <1>20
    <3> QED
      BY <3>1, <3>2, <3>3 DEF Framed
  <2>9. Waits(s, t) = Pending(Top(s)) \cup Fresher(s, t)
    <3>1. UNION { Pending(t.stack[i]) : i \in Above(s, t) } = Pending(next)
      BY <1>16, <1>17, <1>18, <1>20
    <3> HIDE DEF frame
    <3> QED
      BY <1>19, <2>3, <2>6, <3>1 DEF Waits, frame
  <2>10. to \subseteq {s.fn} \X DOMAIN t.blocks[s.fn]
    BY <1>22, <2>1, <2>5 DEF Flow
  <2>11. to \subseteq Reach(s, t)
    BY <1>4 DEF Reach, Aims
  <2> QED
    BY <2>5, <2>6, <2>8, <2>9, <2>10, <2>11
<1>25. ASSUME Live(s), s.fn \notin t.nested
       PROVE  Steered(s, t)
  <2>1. Aims(next) = {frame.end} \cup (IF frame.left = 1 THEN {} ELSE {frame.test})
    BY <1>4, <1>13 DEF Aims
  <2>2. Aims(next) \subseteq Reach(s, t)
    BY <1>4, <2>1 DEF Reach, Aims
  <2>3. Preds(t, s.fn, frame.end) = ToSet(frame.places)
    <3>1. Preds(s, s.fn, frame.end) = ToSet(frame.places)
      BY <1>4, <1>19, <1>25, TopEdges
    <3>2. frame.end \notin to
      BY <1>4, <1>25, TopNames DEF Distinct
    <3>3. t.at \in Pending(Top(s)) \cup Fresher(s, t)
      BY <1>24, <1>25 DEF Waits
    <3>4. Live(s) /\ Flow(s, t, to)
      BY <1>24, <1>25
    <3> HIDE DEF to, frame
    <3>5. PredsMove(s, t, to)
      BY <3>3, <3>4, FlowMovesPreds
    <3> QED
      BY <3>1, <3>2, <3>5 DEF PredsMove
  <2>4. \A i, j \in Above(s, t) :
          /\ i < j /\ Arm(t.stack[i]) => ~InFlow(t.stack[j])
          /\ i # j => Aims(t.stack[i]) \cap Aims(t.stack[j]) = {}
    <3>1. ~InFlow(Compiling(n)) /\ ~ (k < k)
      BY <1>2, <1>15 DEF Plain, k
    <3>2. ~ Arm(Compiling(n))
      BY <3>1, NotInFlow
    <3> QED
      BY <1>16, <1>17, <1>20, <3>1, <3>2
  <2>5. \A i \in Above(s, t) :
          LET f == t.stack[i]
          IN /\ Aims(f) \subseteq Reach(s, t)
             /\ f.step = "branch" => t.at = f.body
             /\ f.step = "loop" => /\ t.at = f.loop
                                   /\ Preds(t, s.fn, f.cond) = {f.entry}
             /\ f.step \in {"branch", "test"} => Preds(t, s.fn, f.end) = ToSet(f.places)
    BY <1>13, <1>16, <1>17, <1>19, <1>20, <2>2, <2>3 DEF Compiling
  <2> QED
    BY <1>24, <1>25, <2>4, <2>5 DEF Steered
<1>26. \A i \in Above(s, t) : /\ t.stack[i].step \notin {"return", "define"}
                              /\ t.stack[i].step = "compile" => t.stack[i].n \in Nodes
  BY <1>13, <1>14, <1>16, <1>17 DEF Compiling
<1>27. InFlow(Top(s)) /\ Top(s).step # "compile"
  BY DEF InFlow
<1> HIDE DEF to, frame
<1>28. IInv(t)
  BY <1>16, <1>23, <1>24, <1>25, <1>26, <1>27, FlowKeeps
<1> QED
  BY <1>16, <1>23, <1>28

LEMMA TupleIs ==
  /\ \A x : ToSet(<<x>>) = {x}
  /\ \A x, y : ToSet(<<x, y>>) = {x, y}
BY DEF ToSet

LEMMA BrIs ==
  ASSUME NEW args \in Seq(Values), NEW places \in Seq(Places)
  PROVE  /\ Instruction("br", args, places) \in Instructions
         /\ Instruction("br", args, places).op = "br"
         /\ Instruction("br", args, places).places = places
<1>1. "br" \in {"alloca", "load", "store", "call", "phi", "br", "ret"}
  OBVIOUS
<1> QED
  BY <1>1, InstructionIs

\* A function whose blocks end inside it branches to no other
LEMMA NoPreds ==
  ASSUME NEW s, Types(s), IInv(s), s.open # {}, Live(s),
         NEW p, p \notin {s.fn} \X DOMAIN s.blocks[s.fn]
  PROVE  Preds(s, s.fn, p) = {}
<1>1. Blocked(s)
  BY DEF IInv, Alive
<1>2. ASSUME NEW b \in DOMAIN s.blocks[s.fn]
      PROVE  p \notin TargetsOf(s.blocks[s.fn][b])
  <2>1. CASE IsOpen(s.blocks[s.fn][b])
    BY <2>1, OpenTargets
  <2>2. CASE ~IsOpen(s.blocks[s.fn][b])
    <3>1. IsEnded(s, s.fn, b)
      BY <1>1, <2>2 DEF Blocked
    <3> QED
      BY <3>1 DEF IsEnded
  <2> QED
    BY <2>1, <2>2
<1> QED
  BY <1>2 DEF Preds

LEMMA GenAgainKeeps ==
  ASSUME NEW s, Types(s), IInv(s), s.open # {}, Len(s.stack) >= 3, program \in Programs,
         Top(s).step = "again", NEW t, t = GenAgain(Popped(s), Top(s))
  PROVE  Types(t) /\ IInv(t) /\ Onward(s, t)
<1> DEFINE p == Popped(s)
           frame == Top(s)
           h == GenTruth(p)
           args == <<h.val>>
           places == <<frame.loop, frame.end>>
           br == Instruction("br", args, places)
           e == Emit(h, br)
           u == SetInsertPoint(e, frame.end)
           to == {frame.loop, frame.end}
           k == Len(s.stack)
<1>1. frame \in Frames /\ s.stack # <<>> /\ frame \in AgainFrames
  BY TopNames, FrameIs
<1>2. /\ Types(p) /\ Same(s, p) /\ k \in Nat /\ Len(p.stack) = k - 1
      /\ \A i \in 1 .. k - 1 : p.stack[i] = s.stack[i]
      /\ p.at = s.at /\ p.nested = s.nested /\ p.blocks = s.blocks
  BY <1>1, PoppedIs
<1>3. Exists(p, p.at)
  BY <1>2, MineIsNotDone DEF Exists
<1>4. /\ frame.loop \in Places /\ frame.end \in Places /\ frame.phi \in Values
      /\ frame.step = "again"
  BY <1>1 DEF AgainFrames
<1>5. t = Returned(u, frame.phi)
  BY DEF GenAgain, GenCondBr, LoopValue
<1> HIDE DEF p
<1>6. Types(h) /\ Extended(p, h)
  BY <1>2, <1>3, GenTruthIs
<1>7. args \in Seq(Values) /\ places \in Seq(Places)
  BY <1>4, <1>6 DEF Types
<1>8. ToSet(places) = to
  BY TupleIs
<1> HIDE DEF h, args, places
<1>9. br \in Instructions /\ br.op = "br" /\ br.places = places
  BY <1>7, BrIs
<1> HIDE DEF br
<1>10. Begun(s, h, 0) /\ h.stack = p.stack /\ h.nested = s.nested
  BY <1>2, <1>6, BegunExtended DEF Extended
<1>11. Gone(s, e, 0, to) /\ e.stack = p.stack /\ e.nested = s.nested
  <2>1. Gone(s, e, 0, ToSet(br.places)) /\ e.stack = p.stack /\ e.nested = s.nested
    BY <1>9, <1>10, Branched
  <2> QED
    BY <1>8, <1>9, <2>1
<1> HIDE DEF e, to
<1>12. /\ Types(u) /\ Same(e, u) /\ u.stack = p.stack /\ u.at = frame.end
       /\ u.nested = s.nested /\ u.blocks = e.blocks
  BY <1>4, <1>11, SetInsertPointIs DEF Gone
<1> HIDE DEF u
<1>13. Types(t) /\ Extended(u, t) /\ t.blocks = u.blocks
  <2>1. Types(t) /\ Extended(u, t)
    BY <1>4, <1>5, <1>12, ReturnedIs
  <2>2. t.blocks = u.blocks
    BY <1>5, <1>12 DEF Returned, Types, Fresh
  <2> QED
    BY <2>1, <2>2
<1>14. t.stack = p.stack /\ t.at = frame.end /\ t.nested = s.nested /\ Gone(s, t, 0, to)
  BY <1>11, <1>12, <1>13, GoneSame DEF Extended, Same
<1>15. \A i \in Above(s, t) : FALSE
  BY <1>2, <1>14 DEF Above
<1> HIDE DEF k
<1>16. to \subseteq Named(frame) /\ frame.end \in Named(frame)
  BY <1>4 DEF Named, to
<1>17. \A x \in Named(frame) : Exists(t, x) /\ x[1] \in Mine(s)
  BY <1>14, TopNames, GrownExists DEF Gone
<1>18. Onward(s, t)
  <2>1. Under(s, t)
    BY <1>2, <1>14 DEF Under, k
  <2> QED
    BY <1>14, <1>15, <1>16, <1>17, <2>1 DEF Onward, Gone, Grown
<1>19. ASSUME Live(s)
       PROVE  /\ Flow(s, t, to) /\ Framed(s, t)
              /\ Waits(s, t) = Pending(Top(s)) \cup Fresher(s, t)
              /\ to \subseteq {s.fn} \X DOMAIN t.blocks[s.fn]
              /\ to \subseteq Reach(s, t)
              /\ \A b \in DOMAIN s.blocks[s.fn] :
                   Phis(t.blocks[s.fn][b]) = Phis(s.blocks[s.fn][b])
  <2>1. /\ s.at \notin Pending(frame)
        /\ \A x \in Named(frame) :
             x = <<s.fn, x[2]>> /\ x[1] = s.fn /\ x[2] \in DOMAIN s.blocks[s.fn]
    BY <1>19, TopNames
  <2>2. Pending(frame) = {frame.end}
    BY <1>4 DEF Pending
  <2>3. t.at # s.at
    BY <1>14, <2>1, <2>2
  <2>4. /\ Flow(s, t, to)
        /\ \A b \in DOMAIN s.blocks[s.fn] :
             Phis(t.blocks[s.fn][b]) = Phis(s.blocks[s.fn][b])
    BY <1>14, <1>19, <2>3, GoneFlow
  <2>5. Fresher(s, t) = {}
    BY <1>14, <1>19, NoFresher
  <2>6. Framed(s, t)
    BY <1>14, <1>15, <1>16, <2>1 DEF Framed
  <2>7. Waits(s, t) = Pending(Top(s)) \cup Fresher(s, t)
    <3>1. UNION { Pending(t.stack[i]) : i \in Above(s, t) } = {}
      BY <1>15
    <3> HIDE DEF frame
    <3> QED
      BY <1>14, <2>2, <2>5, <3>1 DEF Waits, frame
  <2>8. to \subseteq {s.fn} \X DOMAIN t.blocks[s.fn]
    BY <1>16, <2>1, <2>4 DEF Flow
  <2>9. to \subseteq Reach(s, t)
    BY <1>4 DEF Reach, Aims, to
  <2> QED
    BY <2>4, <2>6, <2>7, <2>8, <2>9
<1>20. Live(s) => Steered(s, t)
  BY <1>15, <1>19 DEF Steered
<1>21. InFlow(Top(s)) /\ Top(s).step # "compile"
  BY DEF InFlow
<1> HIDE DEF frame
<1>22. IInv(t)
  BY <1>13, <1>15, <1>18, <1>19, <1>20, <1>21, FlowKeeps
<1> QED
  BY <1>13, <1>18, <1>22

LEMMA GenLoopBodyKeeps ==
  ASSUME NEW s, Types(s), IInv(s), s.open # {}, Len(s.stack) >= 3, program \in Programs,
         Top(s).step = "loop", NEW t, t = GenLoopBody(Popped(s), Top(s))
  PROVE  Types(t) /\ IInv(t) /\ Onward(s, t)
<1> DEFINE p == Popped(s)
           frame == Top(s)
           h == GenLoad(p)
           places == <<frame.cond>>
           br == Instruction("br", <<>>, places)
           e == Emit(h, br)
           u == SetInsertPoint(e, frame.cond)
           values == <<Default, h.val>>
           sources == <<frame.entry, frame.loop>>
           v == GenPhi(u, values, sources)
           w == Returned(v, h.val)
           next == [step |-> "again", loop |-> frame.loop, end |-> frame.end,
                    phi |-> v.val, last |-> h.val]
           n == frame.n.cond
           to == {frame.cond}
           k == Len(s.stack)
<1>1. frame \in Frames /\ s.stack # <<>> /\ frame \in LoopFrames
  BY TopNames, FrameIs
<1>2. /\ Types(p) /\ Same(s, p) /\ k \in Nat /\ Len(p.stack) = k - 1
      /\ \A i \in 1 .. k - 1 : p.stack[i] = s.stack[i]
      /\ p.at = s.at /\ p.nested = s.nested /\ p.blocks = s.blocks
  BY <1>1, PoppedIs
<1>3. Exists(p, p.at)
  BY <1>2, MineIsNotDone DEF Exists
<1>4. /\ frame.loop \in Places /\ frame.end \in Places /\ frame.entry \in Places
      /\ frame.cond \in Places /\ frame.step = "loop" /\ frame.n \in NodesOf({"while"})
  BY <1>1 DEF LoopFrames
<1>5. t = CallThen(w, n, next)
  BY DEF GenLoopBody, GenBr
<1> HIDE DEF p
<1>6. Types(h) /\ Extended(p, h)
  BY <1>2, <1>3, GenLoadIs
<1>7. /\ <<>> \in Seq(Values) /\ places \in Seq(Places) /\ values \in Seq(Values)
      /\ sources \in Seq(Places) /\ h.val \in Values
  BY <1>4, <1>6, Constants DEF Types
<1>8. ToSet(places) = to /\ ToSet(sources) = {frame.entry, frame.loop}
  BY TupleIs
<1>9. br \in Instructions /\ br.op = "br" /\ br.places = places
  <2> HIDE DEF h, places
  <2> QED
    BY <1>7, BrIs
<1> HIDE DEF h, places, br, values, sources
<1>10. Begun(s, h, 0) /\ h.stack = p.stack /\ h.nested = s.nested
  BY <1>2, <1>6, BegunExtended DEF Extended
<1>11. Gone(s, e, 0, to) /\ e.stack = p.stack /\ e.nested = s.nested
  <2>1. Gone(s, e, 0, ToSet(br.places)) /\ e.stack = p.stack /\ e.nested = s.nested
    BY <1>9, <1>10, Branched
  <2> QED
    BY <1>8, <1>9, <2>1
<1> HIDE DEF e, to
<1>12. /\ Types(u) /\ Same(e, u) /\ u.stack = p.stack /\ u.at = frame.cond
       /\ u.nested = s.nested /\ u.blocks = e.blocks
  BY <1>4, <1>11, SetInsertPointIs DEF Gone
<1> HIDE DEF u
<1>13. Gone(s, u, 0, to)
  BY <1>11, <1>12, GoneSame
<1>14. /\ to \subseteq Named(frame) /\ frame.cond \in Named(frame)
       /\ {frame.loop, frame.end} \subseteq Named(frame)
  BY <1>4 DEF Named, to
<1>15. \A x \in Named(frame) : Exists(u, x) /\ x[1] \in Mine(s)
  BY <1>13, TopNames, GrownExists DEF Gone
<1>16. /\ Types(v) /\ Same(u, v) /\ v.stack = p.stack /\ v.at = frame.cond
       /\ v.nested = s.nested /\ Grown(u, v, Mine(s)) /\ Phied(u, v, sources)
  <2>1. Exists(u, u.at) /\ u.at[1] \in Mine(s)
    BY <1>12, <1>14, <1>15
  <2> QED
    BY <1>7, <1>12, <2>1, PhiIs
<1> HIDE DEF v
<1>18. Types(w) /\ Extended(v, w) /\ w.blocks = v.blocks
  <2>1. Types(w) /\ Extended(v, w)
    BY <1>7, <1>16, ReturnedIs
  <2>2. w.blocks = v.blocks
    BY <1>16 DEF Returned, Types, Fresh
  <2> QED
    BY <2>1, <2>2
<1> HIDE DEF w
<1>19. next \in Frames /\ next.step = "again" /\ next.loop = frame.loop /\ next.end = frame.end
  <2>1. v.val \in Values
    BY <1>16 DEF Types
  <2>2. next \in AgainFrames
    BY <1>4, <1>7, <2>1 DEF AgainFrames
  <2> QED
    BY <2>2, FramesIn
<1>20. n \in Nodes /\ Compiling(n) \in Frames /\ Plain(Compiling(n))
  BY <1>4, NodeIs, CompilingIs
<1> HIDE DEF next, n
<1>21. /\ Types(t) /\ OnTop(w, t) /\ Len(t.stack) = k + 1
       /\ t.stack[k] = next /\ t.stack[k + 1] = Compiling(n)
  <2>1. /\ Types(t) /\ OnTop(w, t) /\ Len(t.stack) = Len(w.stack) + 2
        /\ t.stack[Len(w.stack) + 1] = next /\ t.stack[Len(w.stack) + 2] = Compiling(n)
    BY <1>5, <1>18, <1>19, <1>20, CallThenIs
  <2>2. Len(w.stack) + 1 = k /\ Len(w.stack) + 2 = k + 1
    BY <1>2, <1>16, <1>18 DEF Extended
  <2> QED
    BY <2>1, <2>2
<1>22. /\ t.at = frame.cond /\ t.nested = s.nested /\ Same(s, t)
       /\ t.blocks = v.blocks
  BY <1>13, <1>16, <1>18, <1>21 DEF Extended, OnTop, Same, Gone
<1>23. \A i \in Above(s, t) : i = k \/ i = k + 1
  BY <1>2, <1>21 DEF Above
<1>24. k \in Above(s, t) /\ k + 1 \in Above(s, t) /\ ~ (k < k)
  BY <1>2, <1>21 DEF Above
<1>25. Under(s, t)
  <2>1. w.stack = p.stack
    BY <1>16, <1>18 DEF Extended
  <2> QED
    BY <1>2, <1>21, <2>1 DEF Under, OnTop
<1> HIDE DEF k
<1>26. /\ Named(next) \subseteq Named(frame) /\ Named(Compiling(n)) = {}
       /\ Pending(Compiling(n)) = {} /\ Aims(Compiling(n)) = {} /\ Distinct(Compiling(n))
       /\ ~InFlow(Compiling(n)) /\ ~Arm(Compiling(n))
  BY <1>14, <1>19, <1>20, NotInFlow DEF Named, Plain
<1>27. Grown(s, t, Mine(s)) /\ \A x \in Named(frame) : Exists(t, x) /\ x[1] \in Mine(s)
  <2>1. Grown(s, v, Mine(s))
    BY <1>13, <1>16, GrownTwice DEF Gone
  <2>2. Grown(s, t, Mine(s))
    BY <1>22, <2>1 DEF Grown
  <2> QED
    BY <2>2, TopNames, GrownExists
<1>28. Onward(s, t)
  <2>1. \A i \in Above(s, t) :
          /\ t.stack[i].step # "return"
          /\ \A x \in Named(t.stack[i]) : Exists(t, x) /\ x[1] \in Mine(s)
    BY <1>19, <1>21, <1>23, <1>26, <1>27 DEF Compiling
  <2> QED
    BY <1>14, <1>22, <1>25, <1>27, <2>1 DEF Onward, Grown
<1>29. /\ Pending(frame) = {frame.cond, frame.end} /\ Pending(next) = {frame.end}
       /\ Aims(frame) = {frame.cond, frame.loop, frame.end}
       /\ Aims(next) = {frame.loop, frame.end} /\ Distinct(next)
  BY <1>4, <1>19 DEF Pending, Aims, Distinct
<1>30. ASSUME Live(s)
       PROVE  /\ Flow(s, t, to) /\ Framed(s, t)
              /\ Waits(s, t) = Pending(Top(s)) \cup Fresher(s, t)
              /\ to \subseteq {s.fn} \X DOMAIN t.blocks[s.fn]
              /\ to \subseteq Reach(s, t)
              /\ frame.cond \notin {frame.loop, frame.end}
              /\ PhiAdded(s, t, sources)
  <2>1. /\ Distinct(frame) /\ s.at \notin Pending(frame)
        /\ \A x \in Named(frame) :
             x = <<s.fn, x[2]>> /\ x[1] = s.fn /\ x[2] \in DOMAIN s.blocks[s.fn]
    BY <1>30, TopNames
  <2>2. frame.cond \notin {frame.loop, frame.end}
    BY <1>4, <2>1 DEF Distinct
  <2>3. u.at \in Pending(Top(s)) /\ Exists(u, u.at) /\ t.at = u.at
    BY <1>12, <1>14, <1>15, <1>22, <1>29
  <2>4. /\ Flow(s, t, to) /\ Fresher(s, t) = Fresher(s, u)
        /\ PhiAdded(s, t, sources)
    <3>1. Phied(u, t, sources)
      BY <1>16, <1>22 DEF Phied
    <3> HIDE DEF frame
    <3> QED
      BY <1>13, <1>30, <2>3, <3>1, GonePhi
  <2>5. Fresher(s, t) = {}
    BY <1>13, <1>30, <2>4, NoFresher
  <2>6. Framed(s, t)
    <3>1. t.at[1] = s.fn
      BY <1>14, <1>22, <2>1
    <3>2. \A i \in Above(s, t) :
            /\ \A x \in Named(t.stack[i]) : x[1] = s.fn
            /\ Distinct(t.stack[i]) /\ t.at \notin Pending(t.stack[i])
      BY <1>21, <1>22, <1>23, <1>26, <1>29, <2>1, <2>2
    <3>3. \A i, j \in Above(s, t) :
            i # j => Pending(t.stack[i]) \cap Pending(t.stack[j]) = {}
      BY <1>21, <1>23, <1>26
    <3> QED
      BY <3>1, <3>2, <3>3 DEF Framed
  <2>7. Waits(s, t) = Pending(Top(s)) \cup Fresher(s, t)
    <3>1. UNION { Pending(t.stack[i]) : i \in Above(s, t) } = Pending(next)
      BY <1>21, <1>23, <1>24, <1>26
    <3>2. Waits(s, t) = {frame.cond} \cup Pending(next)
      BY <1>22, <3>1 DEF Waits
    <3>3. {frame.cond} \cup Pending(next) = Pending(frame)
      BY <1>29
    <3> QED
      BY <2>5, <3>2, <3>3
  <2>8. to \subseteq {s.fn} \X DOMAIN t.blocks[s.fn]
    BY <1>14, <2>1, <2>4 DEF Flow
  <2>9. to \subseteq Reach(s, t)
    BY <1>29 DEF Reach, to
  <2> QED
    BY <2>2, <2>4, <2>6, <2>7, <2>8, <2>9
<1>31. ASSUME Live(s), s.fn \notin t.nested
       PROVE  Steered(s, t)
  <2>1. /\ s.at = frame.loop /\ Preds(s, s.fn, frame.cond) = {frame.entry}
        /\ \A x \in Aims(frame) : Phis(s.blocks[x[1]][x[2]]) = {}
    BY <1>4, <1>22, <1>31, TopEdges
  <2>2. Preds(t, s.fn, frame.cond) = {frame.entry, frame.loop}
    <3>1. t.at \in Pending(Top(s)) \cup Fresher(s, t)
      BY <1>22, <1>29
    <3>2. PredsMove(s, t, to)
      BY <1>30, <1>31, <3>1, FlowMovesPreds
    <3> QED
      BY <2>1, <3>2 DEF PredsMove, to
  <2>3. \A i, j \in Above(s, t) :
          /\ i < j /\ Arm(t.stack[i]) => ~InFlow(t.stack[j])
          /\ i # j => Aims(t.stack[i]) \cap Aims(t.stack[j]) = {}
    BY <1>21, <1>23, <1>24, <1>26
  <2>4. \A i \in Above(s, t) :
          LET f == t.stack[i]
          IN /\ Aims(f) \subseteq Reach(s, t)
             /\ f.step = "branch" => t.at = f.body
             /\ f.step = "loop" => /\ t.at = f.loop
                                   /\ Preds(t, s.fn, f.cond) = {f.entry}
             /\ f.step \in {"branch", "test"} => Preds(t, s.fn, f.end) = ToSet(f.places)
    BY <1>19, <1>21, <1>23, <1>26, <1>29 DEF Compiling, Reach
  <2>5. ASSUME NEW b \in DOMAIN s.blocks[s.fn], <<s.fn, b>> = t.at
        PROVE  /\ t.at \in Aims(Top(s)) /\ \A i \in Above(s, t) : t.at \notin Aims(t.stack[i])
               /\ \A i \in Phis(t.blocks[s.fn][b]) : ToSet(i.places) = Preds(t, s.fn, t.at)
    <3>1. Phis(s.blocks[s.fn][b]) = {}
      <4>1. frame.cond[1] = s.fn /\ frame.cond[2] = b
        BY <1>22, <2>5
      <4> QED
        BY <1>29, <2>1, <4>1
    <3>2. \A i \in Phis(t.blocks[s.fn][b]) : i.places = sources
      BY <1>30, <1>31, <2>5, <3>1 DEF PhiAdded
    <3>3. \A i \in Above(s, t) : t.at \notin Aims(t.stack[i])
      BY <1>21, <1>22, <1>23, <1>26, <1>29, <1>30, <1>31
    <3>4. ToSet(sources) = Preds(t, s.fn, t.at)
      BY <1>8, <1>22, <2>2
    <3> QED
      BY <1>22, <1>29, <3>2, <3>3, <3>4
  <2> QED
    BY <2>3, <2>4, <2>5 DEF Steered
<1>32. \A i \in Above(s, t) : /\ t.stack[i].step \notin {"return", "define"}
                              /\ t.stack[i].step = "compile" => t.stack[i].n \in Nodes
  BY <1>19, <1>20, <1>21, <1>23 DEF Compiling
<1>33. InFlow(Top(s)) /\ Top(s).step # "compile"
  BY DEF InFlow
<1> HIDE DEF frame
<1>34. IInv(t)
  BY <1>21, <1>28, <1>30, <1>31, <1>32, <1>33, FlowKeeps
<1> QED
  BY <1>21, <1>28, <1>34

LEMMA AppendedSet ==
  ASSUME NEW S, NEW x \in Seq(S), NEW y \in S
  PROVE  ToSet(Append(x, y)) = ToSet(x) \cup {y}
<1> DEFINE z == Append(x, y)
<1>1. /\ Len(x) \in Nat /\ DOMAIN x = 1 .. Len(x) /\ DOMAIN z = 1 .. Len(x) + 1
      /\ \A i \in 1 .. Len(x) : z[i] = x[i]
      /\ z[Len(x) + 1] = y
  BY Appended
<1> HIDE DEF z
<1>2. ToSet(z) = ToSet(x) \cup {y}
  BY <1>1 DEF ToSet
<1> QED
  BY <1>2 DEF z

\* An arm has ended: its value and the block it comes from are added to the others'
LEMMA ArmEnds ==
  ASSUME NEW s, Types(s), IInv(s), s.open # {}, Top(s).step = "branch",
         NEW next, next = [Top(s) EXCEPT !.values = Append(Top(s).values, ArmValue(Popped(s), Top(s))),
                                         !.places = Incoming(Top(s))]
  PROVE  /\ next \in ConditionFrames /\ next.step = "branch" /\ next.n = Top(s).n
         /\ next.left = Top(s).left /\ next.entry = Top(s).entry /\ next.end = Top(s).end
         /\ next.else = Top(s).else /\ next.test = Top(s).test /\ next.body = Top(s).body
         /\ next.values \in Seq(Values) /\ next.places \in Seq(Places)
         /\ ToSet(next.places) = ToSet(Top(s).places) \cup {Top(s).body}
<1> DEFINE frame == Top(s)
           value == ArmValue(Popped(s), frame)
           values == Append(frame.values, value)
           places == Append(frame.places, frame.body)
<1>1. frame \in Frames /\ s.stack # <<>> /\ frame \in ConditionFrames
  BY TopNames, FrameIs
<1>2. value \in Values
  <2>1. Popped(s).val \in Values
    BY <1>1, PoppedIs DEF Types
  <2> QED
    BY <2>1, Constants DEF ArmValue
<1>3. /\ frame.values \in Seq(Values) /\ frame.places \in Seq(Places) /\ frame.body \in Places
      /\ frame.step = "branch" /\ frame.left <= Len(frame.n.branches)
      /\ frame \in [step : {"branch", "test"}, n : NodesOf({"if"}), left : Nat,
                    entry : Places, end : Places, else : Places, test : Places,
                    body : Places, values : Seq(Values), places : Seq(Places)]
  BY <1>1 DEF ConditionFrames
<1>4. next = [frame EXCEPT !.values = values, !.places = places]
  BY DEF Incoming
<1> HIDE DEF value
<1>5. /\ values \in Seq(Values) /\ places \in Seq(Places)
      /\ ToSet(places) = ToSet(frame.places) \cup {frame.body}
  BY <1>2, <1>3, Appended, AppendedSet
<1> HIDE DEF values, places, frame
<1>6. /\ next.step = "branch" /\ next.n = frame.n
      /\ next.left = frame.left /\ next.entry = frame.entry /\ next.end = frame.end
      /\ next.else = frame.else /\ next.test = frame.test /\ next.body = frame.body
      /\ next.values = values /\ next.places = places
  BY <1>3, <1>4
<1>7. next \in [step : {"branch", "test"}, n : NodesOf({"if"}), left : Nat,
                entry : Places, end : Places, else : Places, test : Places,
                body : Places, values : Seq(Values), places : Seq(Places)]
  BY <1>3, <1>4, <1>5
<1>8. next \in ConditionFrames
  BY <1>3, <1>6, <1>7 DEF ConditionFrames
<1> QED
  BY <1>5, <1>6, <1>8 DEF frame

LEMMA GenArmIs ==
  ASSUME NEW s, Types(s), s.stack # <<>>, Top(s) \in Frames, Top(s).step = "branch"
  PROVE  GenArm(Popped(s), Top(s)) =
           LET frame == Top(s)
               e == GenBr(Popped(s), frame.end)
               next == [frame EXCEPT !.values = Append(frame.values, ArmValue(Popped(s), frame)),
                                     !.places = Incoming(frame)]
           IN IF frame.left = 0
              THEN GenPhi(SetInsertPoint(e, frame.end), next.values, next.places)
              ELSE NextTest(e, next)
<1> DEFINE frame == Top(s)
<1>1. frame \in ConditionFrames
  BY FrameIs
<1>2. "values" \in DOMAIN frame
  BY <1>1 DEF ConditionFrames
<1> QED
  BY <1>2 DEF GenArm

LEMMA GenArmNext ==
  ASSUME NEW s, Types(s), s.stack # <<>>, Top(s) \in Frames, Top(s).step = "branch",
         Top(s).left # 0
  PROVE  GenArm(Popped(s), Top(s)) =
           NextTest(GenBr(Popped(s), Top(s).end),
                    [Top(s) EXCEPT !.values = Append(Top(s).values, ArmValue(Popped(s), Top(s))),
                                   !.places = Incoming(Top(s))])
BY GenArmIs

LEMMA LastArmKeeps ==
  ASSUME NEW s, Types(s), IInv(s), s.open # {}, Len(s.stack) >= 3, program \in Programs,
         Top(s).step = "branch", Top(s).left = 0, NEW t, t = GenArm(Popped(s), Top(s))
  PROVE  Types(t) /\ IInv(t) /\ Onward(s, t)
<1> DEFINE p == Popped(s)
           frame == Top(s)
           places == <<frame.end>>
           br == Instruction("br", <<>>, places)
           e == Emit(p, br)
           u == SetInsertPoint(e, frame.end)
           next == [frame EXCEPT !.values = Append(frame.values, ArmValue(p, frame)),
                                 !.places = Incoming(frame)]
           to == {frame.end}
           k == Len(s.stack)
<1>1. frame \in Frames /\ s.stack # <<>> /\ frame \in ConditionFrames
  BY TopNames, FrameIs
<1>2. /\ Types(p) /\ Same(s, p) /\ k \in Nat /\ Len(p.stack) = k - 1
      /\ \A i \in 1 .. k - 1 : p.stack[i] = s.stack[i]
      /\ p.at = s.at /\ p.nested = s.nested /\ p.blocks = s.blocks
  BY <1>1, PoppedIs
<1>4. frame.end \in Places /\ frame.step = "branch" /\ frame.left = 0
  BY <1>1 DEF ConditionFrames
<1>5. t = GenPhi(u, next.values, next.places)
  BY <1>1, <1>4, GenArmIs DEF GenBr
<1>6. /\ next.values \in Seq(Values) /\ next.places \in Seq(Places)
      /\ ToSet(next.places) = ToSet(frame.places) \cup {frame.body}
  BY ArmEnds
<1>7. /\ <<>> \in Seq(Values) /\ places \in Seq(Places) /\ ToSet(places) = to
  BY <1>4, TupleIs
<1>8. br \in Instructions /\ br.op = "br" /\ br.places = places
  <2> HIDE DEF places
  <2> QED
    BY <1>7, BrIs
<1> HIDE DEF p, places, br, next
<1>9. Begun(s, p, 0)
  BY <1>2, ExtendedByItself, BegunExtended
<1>10. Gone(s, e, 0, to) /\ e.stack = p.stack /\ e.nested = s.nested
  <2>1. Gone(s, e, 0, ToSet(br.places)) /\ e.stack = p.stack /\ e.nested = p.nested
    BY <1>8, <1>9, Branched
  <2> QED
    BY <1>2, <1>7, <1>8, <2>1
<1> HIDE DEF e, to
<1>11. /\ Types(u) /\ Same(e, u) /\ u.stack = p.stack /\ u.at = frame.end
       /\ u.nested = s.nested /\ u.blocks = e.blocks
  BY <1>4, <1>10, SetInsertPointIs DEF Gone
<1> HIDE DEF u
<1>12. Gone(s, u, 0, to)
  BY <1>10, <1>11, GoneSame
<1>13. to \subseteq Named(frame) /\ frame.end \in Named(frame)
  BY <1>4 DEF Named, to
<1>14. \A x \in Named(frame) : Exists(u, x) /\ x[1] \in Mine(s)
  BY <1>12, TopNames, GrownExists DEF Gone
<1>15. /\ Types(t) /\ Same(u, t) /\ t.stack = p.stack /\ t.at = frame.end
       /\ t.nested = s.nested /\ Grown(u, t, Mine(s)) /\ Phied(u, t, next.places)
  <2>1. Exists(u, u.at) /\ u.at[1] \in Mine(s)
    BY <1>11, <1>13, <1>14
  <2> QED
    BY <1>5, <1>6, <1>11, <2>1, PhiIs
<1>16. Same(s, t) /\ Grown(s, t, Mine(s))
  BY <1>12, <1>15, GrownTwice DEF Gone, Same
<1>17. \A i \in Above(s, t) : FALSE
  BY <1>2, <1>15 DEF Above
<1>18. Under(s, t)
  BY <1>2, <1>15 DEF Under
<1> HIDE DEF k
<1>19. \A x \in Named(frame) : Exists(t, x) /\ x[1] \in Mine(s)
  BY <1>14, <1>15, GrownExists
<1>20. Onward(s, t)
  BY <1>13, <1>15, <1>16, <1>17, <1>18, <1>19 DEF Onward, Grown
<1>21. Pending(frame) = {frame.end} /\ Aims(frame) = {frame.end}
  BY <1>4 DEF Pending, Aims
<1>22. ASSUME Live(s)
       PROVE  /\ Flow(s, t, to) /\ Framed(s, t)
              /\ Waits(s, t) = Pending(Top(s)) \cup Fresher(s, t)
              /\ to \subseteq {s.fn} \X DOMAIN t.blocks[s.fn]
              /\ to \subseteq Reach(s, t)
              /\ PhiAdded(s, t, next.places)
  <2>1. \A x \in Named(frame) :
          x = <<s.fn, x[2]>> /\ x[1] = s.fn /\ x[2] \in DOMAIN s.blocks[s.fn]
    BY <1>22, TopNames
  <2>2. u.at \in Pending(Top(s)) /\ t.at = u.at
    BY <1>11, <1>15, <1>21
  <2>3. /\ Flow(s, t, to) /\ Fresher(s, t) = Fresher(s, u)
        /\ PhiAdded(s, t, next.places)
    <3> HIDE DEF frame
    <3> QED
      BY <1>12, <1>15, <1>22, <2>2, GonePhi
  <2>4. Fresher(s, t) = {}
    BY <1>12, <1>22, <2>3, NoFresher
  <2>5. Framed(s, t)
    BY <1>13, <1>15, <1>17, <2>1 DEF Framed
  <2>6. Waits(s, t) = Pending(Top(s)) \cup Fresher(s, t)
    <3>1. UNION { Pending(t.stack[i]) : i \in Above(s, t) } = {}
      BY <1>17
    <3> HIDE DEF frame
    <3> QED
      BY <1>15, <1>21, <2>4, <3>1 DEF Waits, frame
  <2>7. to \subseteq {s.fn} \X DOMAIN t.blocks[s.fn]
    BY <1>13, <2>1, <2>3 DEF Flow
  <2>8. to \subseteq Reach(s, t)
    BY <1>21 DEF Reach, to
  <2> QED
    BY <2>3, <2>5, <2>6, <2>7, <2>8
<1>23. ASSUME Live(s), s.fn \notin t.nested
       PROVE  Steered(s, t)
  <2>1. /\ s.at = frame.body /\ Preds(s, s.fn, frame.end) = ToSet(frame.places)
        /\ \A x \in Aims(frame) : Phis(s.blocks[x[1]][x[2]]) = {}
    BY <1>4, <1>15, <1>23, TopEdges
  <2>2. Preds(t, s.fn, frame.end) = ToSet(next.places)
    <3>1. t.at \in Pending(Top(s)) \cup Fresher(s, t)
      BY <1>15, <1>21
    <3>2. PredsMove(s, t, to)
      BY <1>22, <1>23, <3>1, FlowMovesPreds
    <3> QED
      BY <1>6, <2>1, <3>2 DEF PredsMove, to
  <2>3. ASSUME NEW b \in DOMAIN s.blocks[s.fn], <<s.fn, b>> = t.at
        PROVE  /\ t.at \in Aims(Top(s))
               /\ \A i \in Phis(t.blocks[s.fn][b]) : ToSet(i.places) = Preds(t, s.fn, t.at)
    <3>1. Phis(s.blocks[s.fn][b]) = {}
      <4>1. frame.end[1] = s.fn /\ frame.end[2] = b
        BY <1>15, <2>3
      <4> QED
        BY <1>21, <2>1, <4>1
    <3>2. \A i \in Phis(t.blocks[s.fn][b]) : i.places = next.places
      BY <1>22, <1>23, <2>3, <3>1 DEF PhiAdded
    <3> QED
      BY <1>15, <1>21, <2>2, <3>2
  <2> QED
    BY <1>17, <2>3 DEF Steered
<1>24. InFlow(Top(s)) /\ Top(s).step # "compile"
  BY DEF InFlow
<1> HIDE DEF frame
<1>25. IInv(t)
  BY <1>15, <1>17, <1>20, <1>22, <1>23, <1>24, FlowKeeps
<1> QED
  BY <1>15, <1>20, <1>25

\* The frame that waits for the test of the next branch
TestFrame(arm, test, body) ==
  [arm EXCEPT !.step = "test", !.else = arm.test, !.test = test, !.body = body]
IsTestFrame(next, arm, test, body) ==
  /\ next \in ConditionFrames /\ next.step = "test"
  /\ next.left = arm.left /\ next.entry = arm.entry /\ next.end = arm.end
  /\ next.else = arm.test /\ next.test = test /\ next.body = body
  /\ next.places = arm.places

LEMMA TestFrameIs ==
  ASSUME NEW arm \in ConditionFrames, arm.left # 0, NEW test \in Places, NEW body \in Places
  PROVE  /\ IsTestFrame(TestFrame(arm, test, body), arm, test, body)
         /\ arm.n.branches[arm.left][1] \in Nodes
<1> DEFINE next == TestFrame(arm, test, body)
<1>0. next = [arm EXCEPT !.step = "test", !.else = arm.test, !.test = test, !.body = body]
  BY DEF TestFrame
<1> HIDE DEF next
<1>1. /\ arm.test \in Places /\ arm.left <= Len(arm.n.branches)
      /\ arm.left \in Nat /\ arm.n \in NodesOf({"if"})
      /\ arm \in [step : {"branch", "test"}, n : NodesOf({"if"}), left : Nat,
                  entry : Places, end : Places, else : Places, test : Places,
                  body : Places, values : Seq(Values), places : Seq(Places)]
  BY DEF ConditionFrames
<1>2. /\ next.step = "test" /\ next.n = arm.n
      /\ next.left = arm.left /\ next.entry = arm.entry /\ next.end = arm.end
      /\ next.else = arm.test /\ next.test = test /\ next.body = body
      /\ next.places = arm.places
  BY <1>0, <1>1
<1>3. next \in [step : {"branch", "test"}, n : NodesOf({"if"}), left : Nat,
                entry : Places, end : Places, else : Places, test : Places,
                body : Places, values : Seq(Values), places : Seq(Places)]
  BY <1>0, <1>1
<1>4. next \in ConditionFrames
  BY <1>1, <1>2, <1>3 DEF ConditionFrames
<1>5. arm.n.branches[arm.left][1] \in Nodes
  <2>1. arm.n.branches \in Seq(Nodes \X Nodes)
    BY <1>1, NodeIs
  <2>2. arm.left \in 1 .. Len(arm.n.branches)
    BY <1>1, <2>1, LenProperties
  <2>3. arm.n.branches[arm.left] \in Nodes \X Nodes
    BY <2>1, <2>2, ElementOfSeq
  <2> QED
    BY <2>3
<1> QED
  BY <1>2, <1>4, <1>5 DEF next, IsTestFrame

LEMMA FirstTestKeeps ==
  ASSUME NEW s, Types(s), IInv(s), s.open # {}, Len(s.stack) >= 3, program \in Programs,
         Top(s).step = "branch", Top(s).left = 1, NEW t, t = GenArm(Popped(s), Top(s))
  PROVE  Types(t) /\ IInv(t) /\ Onward(s, t)
<1> DEFINE p == Popped(s)
           frame == Top(s)
           places == <<frame.end>>
           br == Instruction("br", <<>>, places)
           e == Emit(p, br)
           arm == [frame EXCEPT !.values = Append(frame.values, ArmValue(p, frame)),
                                !.places = Incoming(frame)]
           body == NewBlock(e)
           a == AddBlock(e)
           u == SetInsertPoint(a, arm.entry)
           next == [arm EXCEPT !.step = "test", !.else = arm.test,
                               !.test = arm.entry, !.body = body]
           n == arm.n.branches[arm.left][1]
           to == {frame.end}
           k == Len(s.stack)
<1>1. frame \in Frames /\ s.stack # <<>> /\ frame \in ConditionFrames
  BY TopNames, FrameIs
<1>2. /\ Types(p) /\ Same(s, p) /\ k \in Nat /\ Len(p.stack) = k - 1
      /\ \A i \in 1 .. k - 1 : p.stack[i] = s.stack[i]
      /\ p.at = s.at /\ p.nested = s.nested /\ p.blocks = s.blocks
  BY <1>1, PoppedIs
<1>3. /\ frame.end \in Places /\ frame.step = "branch" /\ frame.left = 1
      /\ frame.entry \in Places
  BY <1>1 DEF ConditionFrames
<1>4. /\ arm \in ConditionFrames /\ arm.left = 1 /\ arm.entry = frame.entry
      /\ arm.end = frame.end /\ arm.test = frame.test
      /\ ToSet(arm.places) = ToSet(frame.places) \cup {frame.body}
  BY <1>3, ArmEnds
<1>5. t = CallThen(u, n, next)
  <2>1. t = NextTest(e, arm)
    <3>1. e = GenBr(p, frame.end)
      BY DEF GenBr
    <3>2. frame.left # 0
      BY <1>3
    <3> HIDE DEF e
    <3> QED
      BY <1>1, <1>3, <3>1, <3>2, GenArmNext
  <2> HIDE DEF e, arm
  <2>2. DOMAIN arm = {"step", "n", "left", "entry", "end", "else", "test", "body",
                      "values", "places"}
    BY <1>4 DEF ConditionFrames
  <2> QED
    BY <1>4, <2>1, <2>2 DEF NextTest
<1>6. <<>> \in Seq(Values) /\ places \in Seq(Places) /\ ToSet(places) = to
  BY <1>3, TupleIs
<1>7. br \in Instructions /\ br.op = "br" /\ br.places = places
  <2> HIDE DEF places
  <2> QED
    BY <1>6, BrIs
<1> HIDE DEF p, places, br
<1>8. Begun(s, p, 0)
  BY <1>2, ExtendedByItself, BegunExtended
<1>9. Gone(s, e, 0, to) /\ e.stack = p.stack /\ e.nested = s.nested
  <2>1. Gone(s, e, 0, ToSet(br.places)) /\ e.stack = p.stack /\ e.nested = p.nested
    BY <1>7, <1>8, Branched
  <2> QED
    BY <1>2, <1>6, <1>7, <2>1
<1> HIDE DEF e, to, arm
<1>10. Types(e) /\ e.fn = s.fn /\ Longer(e, a, 1)
  BY <1>9, LongerByOne DEF Gone, Same
<1>11. body \in Places /\ body[1] = s.fn /\ body[2] = Len(Blocks(e, e.fn)) + 1 /\ Exists(a, body)
  BY <1>10, NewBlockIs
<1> HIDE DEF a, body
<1>12. Types(a) /\ Gone(s, a, 1, to) /\ a.stack = p.stack /\ a.nested = s.nested
  <2>1. Gone(s, a, 0 + 1, to)
    BY <1>9, <1>10, GoneLonger
  <2> QED
    BY <1>9, <1>10, <2>1 DEF Longer
<1>13. /\ Types(u) /\ Same(a, u) /\ u.stack = p.stack /\ u.at = frame.entry
       /\ u.nested = s.nested /\ u.blocks = a.blocks
  BY <1>3, <1>4, <1>12, SetInsertPointIs
<1>14. /\ next \in ConditionFrames /\ next.step = "test" /\ next.left = 1
       /\ next.entry = frame.entry /\ next.end = frame.end
       /\ next.else = frame.test /\ next.test = frame.entry /\ next.body = body
       /\ next.places = arm.places /\ n \in Nodes
  <2>1. arm.left # 0 /\ arm.entry \in Places
    BY <1>3, <1>4
  <2>2. next = TestFrame(arm, arm.entry, body)
    BY DEF TestFrame
  <2> HIDE DEF next
  <2>3. IsTestFrame(next, arm, arm.entry, body) /\ arm.n.branches[arm.left][1] \in Nodes
    BY <1>4, <1>11, <2>1, <2>2, TestFrameIs
  <2> QED
    BY <1>4, <2>3 DEF IsTestFrame
<1> HIDE DEF u, next, n
<1>15. Compiling(n) \in Frames /\ Plain(Compiling(n))
  BY <1>14, CompilingIs
<1>16. /\ Types(t) /\ OnTop(u, t) /\ Len(t.stack) = k + 1
       /\ t.stack[k] = next /\ t.stack[k + 1] = Compiling(n)
  <2>1. /\ Types(t) /\ OnTop(u, t) /\ Len(t.stack) = Len(u.stack) + 2
        /\ t.stack[Len(u.stack) + 1] = next /\ t.stack[Len(u.stack) + 2] = Compiling(n)
    BY <1>5, <1>13, <1>14, <1>15, CallThenIs, FramesIn
  <2>2. Len(u.stack) + 1 = k /\ Len(u.stack) + 2 = k + 1
    BY <1>2, <1>13
  <2> QED
    BY <2>1, <2>2
<1>17. Gone(s, t, 1, to) /\ t.at = frame.entry /\ t.nested = s.nested /\ t.blocks = a.blocks
  BY <1>12, <1>13, <1>16, GoneSame DEF OnTop, Same
<1>18. \A i \in Above(s, t) : i = k \/ i = k + 1
  BY <1>2, <1>16 DEF Above
<1>19. k \in Above(s, t) /\ k + 1 \in Above(s, t) /\ ~ (k < k)
  BY <1>2, <1>16 DEF Above
<1>20. Under(s, t)
  BY <1>2, <1>13, <1>16 DEF Under, OnTop
<1> HIDE DEF k
<1>21. /\ Named(next) \subseteq Named(frame) \cup {body} /\ Named(Compiling(n)) = {}
       /\ Pending(Compiling(n)) = {} /\ Aims(Compiling(n)) = {} /\ Distinct(Compiling(n))
       /\ ~InFlow(Compiling(n)) /\ ~Arm(Compiling(n)) /\ ~Arm(next)
       /\ {frame.entry, frame.end, frame.test} \subseteq Named(frame)
  BY <1>3, <1>14, <1>15, NotInFlow DEF Named, Plain, Arm
<1>22. \A x \in Named(frame) \cup {body} : Exists(t, x) /\ x[1] \in Mine(s)
  <2>1. \A x \in Named(frame) : Exists(t, x) /\ x[1] \in Mine(s)
    BY <1>17, TopNames, GrownExists DEF Gone
  <2>2. Exists(t, body) /\ body[1] \in Mine(s)
    BY <1>11, <1>17, MineIsNotDone DEF Exists
  <2> QED
    BY <2>1, <2>2
<1>23. Onward(s, t)
  <2>1. \A i \in Above(s, t) :
          /\ t.stack[i].step # "return"
          /\ \A x \in Named(t.stack[i]) : Exists(t, x) /\ x[1] \in Mine(s)
    BY <1>14, <1>16, <1>18, <1>21, <1>22 DEF Compiling
  <2> QED
    BY <1>17, <1>20, <1>21, <1>22, <2>1 DEF Onward, Gone, Grown
<1>24. /\ Pending(frame) = {frame.end, frame.entry} /\ Pending(next) = {frame.end, body}
       /\ Aims(frame) = {frame.end, frame.test}
       /\ Aims(next) = {frame.end, body, frame.test}
  BY <1>3, <1>14 DEF Pending, Aims
<1>25. ASSUME Live(s)
       PROVE  /\ Flow(s, t, to) /\ Framed(s, t)
              /\ Waits(s, t) = Pending(Top(s)) \cup Fresher(s, t)
              /\ to \subseteq {s.fn} \X DOMAIN t.blocks[s.fn]
              /\ to \subseteq Reach(s, t)
              /\ Fresher(s, t) = {body}
              /\ \A b \in DOMAIN s.blocks[s.fn] :
                   Phis(t.blocks[s.fn][b]) = Phis(s.blocks[s.fn][b])
  <2>1. /\ Distinct(frame) /\ s.at \notin Pending(frame)
        /\ \A x \in Named(frame) :
             x = <<s.fn, x[2]>> /\ x[1] = s.fn /\ x[2] \in DOMAIN s.blocks[s.fn]
    BY <1>25, TopNames
  <2>2. frame.end \notin {frame.entry, frame.test}
    BY <1>3, <2>1 DEF Distinct
  <2>3. t.at # s.at
    BY <1>17, <1>24, <2>1
  <2>4. /\ Flow(s, t, to)
        /\ \A b \in DOMAIN s.blocks[s.fn] :
             Phis(t.blocks[s.fn][b]) = Phis(s.blocks[s.fn][b])
    BY <1>17, <1>25, <2>3, GoneFlow
  <2>5. Fresher(s, t) = {body} /\ body[2] \notin DOMAIN s.blocks[s.fn]
    BY <1>9, <1>11, <1>17, <1>25, OneFresher
  <2>6. body \notin Named(frame)
    BY <2>1, <2>5
  <2>7. Distinct(next)
    BY <1>14, <1>21, <2>2, <2>6 DEF Distinct
  <2>8. Framed(s, t)
    <3>1. t.at[1] = s.fn
      BY <1>17, <1>21, <2>1
    <3>2. \A i \in Above(s, t) :
            /\ \A x \in Named(t.stack[i]) : x[1] = s.fn
            /\ Distinct(t.stack[i]) /\ t.at \notin Pending(t.stack[i])
      BY <1>11, <1>16, <1>17, <1>18, <1>21, <1>24, <2>1, <2>2, <2>6, <2>7
    <3>3. \A i, j \in Above(s, t) :
            i # j => Pending(t.stack[i]) \cap Pending(t.stack[j]) = {}
      BY <1>16, <1>18, <1>21
    <3> QED
      BY <3>1, <3>2, <3>3 DEF Framed
  <2>9. Waits(s, t) = Pending(Top(s)) \cup Fresher(s, t)
    <3>1. UNION { Pending(t.stack[i]) : i \in Above(s, t) } = Pending(next)
      BY <1>16, <1>18, <1>19, <1>21
    <3>2. Waits(s, t) = {frame.entry} \cup Pending(next)
      BY <1>17, <3>1 DEF Waits
    <3>3. {frame.entry} \cup Pending(next) = Pending(frame) \cup {body}
      BY <1>24
    <3> QED
      BY <2>5, <3>2, <3>3
  <2>10. to \subseteq {s.fn} \X DOMAIN t.blocks[s.fn]
    BY <1>21, <2>1, <2>4 DEF Flow, to
  <2>11. to \subseteq Reach(s, t)
    BY <1>24 DEF Reach, to
  <2> QED
    BY <2>4, <2>5, <2>8, <2>9, <2>10, <2>11
<1>26. ASSUME Live(s), s.fn \notin t.nested
       PROVE  Steered(s, t)
  <2>1. s.at = frame.body /\ Preds(s, s.fn, frame.end) = ToSet(frame.places)
    BY <1>3, <1>17, <1>26, TopEdges
  <2>2. Preds(t, s.fn, frame.end) = ToSet(next.places)
    <3>1. t.at \in Pending(Top(s)) \cup Fresher(s, t)
      BY <1>17, <1>24
    <3>2. PredsMove(s, t, to)
      BY <1>25, <1>26, <3>1, FlowMovesPreds
    <3> QED
      BY <1>4, <1>14, <2>1, <3>2 DEF PredsMove, to
  <2>3. \A i, j \in Above(s, t) :
          /\ i < j /\ Arm(t.stack[i]) => ~InFlow(t.stack[j])
          /\ i # j => Aims(t.stack[i]) \cap Aims(t.stack[j]) = {}
    BY <1>16, <1>18, <1>21
  <2>4. \A i \in Above(s, t) :
          LET f == t.stack[i]
          IN /\ Aims(f) \subseteq Reach(s, t)
             /\ f.step = "branch" => t.at = f.body
             /\ f.step = "loop" => /\ t.at = f.loop
                                   /\ Preds(t, s.fn, f.cond) = {f.entry}
             /\ f.step \in {"branch", "test"} => Preds(t, s.fn, f.end) = ToSet(f.places)
    BY <1>14, <1>16, <1>18, <1>21, <1>24, <1>25, <1>26, <2>2 DEF Compiling, Reach
  <2> QED
    BY <1>25, <1>26, <2>3, <2>4 DEF Steered
<1>27. \A i \in Above(s, t) : /\ t.stack[i].step \notin {"return", "define"}
                              /\ t.stack[i].step = "compile" => t.stack[i].n \in Nodes
  BY <1>14, <1>16, <1>18 DEF Compiling
<1>28. InFlow(Top(s)) /\ Top(s).step # "compile"
  BY DEF InFlow
<1> HIDE DEF frame
<1>29. IInv(t)
  BY <1>16, <1>23, <1>25, <1>26, <1>27, <1>28, FlowKeeps
<1> QED
  BY <1>16, <1>23, <1>29

LEMMA LaterTestKeeps ==
  ASSUME NEW s, Types(s), IInv(s), s.open # {}, Len(s.stack) >= 3, program \in Programs,
         Top(s).step = "branch", Top(s).left \notin {0, 1}, NEW t, t = GenArm(Popped(s), Top(s))
  PROVE  Types(t) /\ IInv(t) /\ Onward(s, t)
<1> DEFINE p == Popped(s)
           frame == Top(s)
           places == <<frame.end>>
           br == Instruction("br", <<>>, places)
           e == Emit(p, br)
           arm == [frame EXCEPT !.values = Append(frame.values, ArmValue(p, frame)),
                                !.places = Incoming(frame)]
           body == NewBlock(e)
           b0 == AddBlock(e)
           test == NewBlock(b0)
           a == AddBlock(b0)
           u == SetInsertPoint(a, test)
           next == [arm EXCEPT !.step = "test", !.else = arm.test,
                               !.test = test, !.body = body]
           n == arm.n.branches[arm.left][1]
           to == {frame.end}
           k == Len(s.stack)
<1>1. frame \in Frames /\ s.stack # <<>> /\ frame \in ConditionFrames
  BY TopNames, FrameIs
<1>2. /\ Types(p) /\ Same(s, p) /\ k \in Nat /\ Len(p.stack) = k - 1
      /\ \A i \in 1 .. k - 1 : p.stack[i] = s.stack[i]
      /\ p.at = s.at /\ p.nested = s.nested /\ p.blocks = s.blocks
  BY <1>1, PoppedIs
<1>3. /\ frame.end \in Places /\ frame.step = "branch" /\ frame.left \notin {0, 1}
      /\ frame.entry \in Places
  BY <1>1 DEF ConditionFrames
<1>4. /\ arm \in ConditionFrames /\ arm.left = frame.left /\ arm.entry = frame.entry
      /\ arm.end = frame.end /\ arm.test = frame.test
      /\ ToSet(arm.places) = ToSet(frame.places) \cup {frame.body}
  BY <1>3, ArmEnds
<1>5. t = CallThen(u, n, next)
  <2>1. t = NextTest(e, arm)
    <3>1. e = GenBr(p, frame.end)
      BY DEF GenBr
    <3>2. frame.left # 0
      BY <1>3
    <3> HIDE DEF e
    <3> QED
      BY <1>1, <1>3, <3>1, <3>2, GenArmNext
  <2> HIDE DEF e, arm
  <2>2. DOMAIN arm = {"step", "n", "left", "entry", "end", "else", "test", "body",
                      "values", "places"}
    BY <1>4 DEF ConditionFrames
  <2> QED
    BY <1>3, <1>4, <2>1, <2>2 DEF NextTest
<1>6. <<>> \in Seq(Values) /\ places \in Seq(Places) /\ ToSet(places) = to
  BY <1>3, TupleIs
<1>7. br \in Instructions /\ br.op = "br" /\ br.places = places
  <2> HIDE DEF places
  <2> QED
    BY <1>6, BrIs
<1> HIDE DEF p, places, br
<1>8. Begun(s, p, 0)
  BY <1>2, ExtendedByItself, BegunExtended
<1>9. Gone(s, e, 0, to) /\ e.stack = p.stack /\ e.nested = s.nested
  <2>1. Gone(s, e, 0, ToSet(br.places)) /\ e.stack = p.stack /\ e.nested = p.nested
    BY <1>7, <1>8, Branched
  <2> QED
    BY <1>2, <1>6, <1>7, <2>1
<1> HIDE DEF e, to, arm
<1>10. /\ Types(e) /\ e.fn = s.fn /\ Longer(e, b0, 1)
       /\ Types(b0) /\ b0.fn = s.fn /\ Longer(b0, a, 1)
  <2>1. Types(e) /\ e.fn = s.fn /\ Longer(e, b0, 1)
    BY <1>9, LongerByOne DEF Gone, Same
  <2>2. Types(b0) /\ b0.fn = s.fn
    BY <2>1 DEF Longer, Same
  <2> QED
    BY <2>1, <2>2, LongerByOne
<1>11. /\ body \in Places /\ body[1] = s.fn /\ body[2] = Len(Blocks(e, e.fn)) + 1
       /\ test \in Places /\ test[1] = s.fn /\ test[2] = Len(Blocks(b0, b0.fn)) + 1
       /\ Exists(b0, body) /\ Exists(a, test)
  BY <1>10, NewBlockIs
<1> HIDE DEF a, body, test, b0
<1>12. Exists(a, body)
  BY <1>10, <1>11, GrownExists DEF Longer
<1>13. Gone(s, b0, 1, to) /\ b0.stack = p.stack /\ b0.nested = s.nested
  <2>1. Gone(s, b0, 0 + 1, to)
    BY <1>9, <1>10, GoneLonger
  <2> QED
    BY <1>9, <1>10, <2>1 DEF Longer
<1>14. Types(a) /\ Gone(s, a, 2, to) /\ a.stack = p.stack /\ a.nested = s.nested
  <2>1. Gone(s, a, 1 + 1, to)
    BY <1>10, <1>13, GoneLonger
  <2> QED
    BY <1>10, <1>13, <2>1 DEF Longer
<1>15. /\ Types(u) /\ Same(a, u) /\ u.stack = p.stack /\ u.at = test
       /\ u.nested = s.nested /\ u.blocks = a.blocks
  BY <1>11, <1>14, SetInsertPointIs
<1>16. /\ next \in ConditionFrames /\ next.step = "test" /\ next.left = frame.left
       /\ next.entry = frame.entry /\ next.end = frame.end
       /\ next.else = frame.test /\ next.test = test /\ next.body = body
       /\ next.places = arm.places /\ n \in Nodes
  <2>1. arm.left # 0
    BY <1>3, <1>4
  <2>2. next = TestFrame(arm, test, body)
    BY DEF TestFrame
  <2> HIDE DEF next
  <2>3. IsTestFrame(next, arm, test, body) /\ arm.n.branches[arm.left][1] \in Nodes
    BY <1>4, <1>11, <2>1, <2>2, TestFrameIs
  <2> QED
    BY <1>4, <2>3 DEF IsTestFrame
<1> HIDE DEF u, next, n
<1>17. Compiling(n) \in Frames /\ Plain(Compiling(n))
  BY <1>16, CompilingIs
<1>18. /\ Types(t) /\ OnTop(u, t) /\ Len(t.stack) = k + 1
       /\ t.stack[k] = next /\ t.stack[k + 1] = Compiling(n)
  <2>1. /\ Types(t) /\ OnTop(u, t) /\ Len(t.stack) = Len(u.stack) + 2
        /\ t.stack[Len(u.stack) + 1] = next /\ t.stack[Len(u.stack) + 2] = Compiling(n)
    BY <1>5, <1>15, <1>16, <1>17, CallThenIs, FramesIn
  <2>2. Len(u.stack) + 1 = k /\ Len(u.stack) + 2 = k + 1
    BY <1>2, <1>15
  <2> QED
    BY <2>1, <2>2
<1>19. Gone(s, t, 2, to) /\ t.at = test /\ t.nested = s.nested /\ t.blocks = a.blocks
  BY <1>14, <1>15, <1>18, GoneSame DEF OnTop, Same
<1>20. \A i \in Above(s, t) : i = k \/ i = k + 1
  BY <1>2, <1>18 DEF Above
<1>21. k \in Above(s, t) /\ k + 1 \in Above(s, t) /\ ~ (k < k)
  BY <1>2, <1>18 DEF Above
<1>22. Under(s, t)
  BY <1>2, <1>15, <1>18 DEF Under, OnTop
<1> HIDE DEF k
<1>23. /\ Named(next) \subseteq Named(frame) \cup {body, test} /\ Named(Compiling(n)) = {}
       /\ Pending(Compiling(n)) = {} /\ Aims(Compiling(n)) = {} /\ Distinct(Compiling(n))
       /\ ~InFlow(Compiling(n)) /\ ~Arm(Compiling(n)) /\ ~Arm(next)
       /\ {frame.entry, frame.end, frame.test} \subseteq Named(frame)
  BY <1>3, <1>16, <1>17, NotInFlow DEF Named, Plain, Arm
<1>24. \A x \in Named(frame) \cup {body, test} : Exists(t, x) /\ x[1] \in Mine(s)
  <2>1. \A x \in Named(frame) : Exists(t, x) /\ x[1] \in Mine(s)
    BY <1>19, TopNames, GrownExists DEF Gone
  <2>2. \A x \in {body, test} : Exists(t, x) /\ x[1] \in Mine(s)
    BY <1>11, <1>19, <1>12, MineIsNotDone DEF Exists
  <2> QED
    BY <2>1, <2>2
<1>25. Onward(s, t)
  <2>1. \A i \in Above(s, t) :
          /\ t.stack[i].step # "return"
          /\ \A x \in Named(t.stack[i]) : Exists(t, x) /\ x[1] \in Mine(s)
    BY <1>16, <1>18, <1>20, <1>23, <1>24 DEF Compiling
  <2> QED
    BY <1>19, <1>22, <1>23, <1>24, <2>1 DEF Onward, Gone, Grown
<1>26. /\ Pending(frame) = {frame.end, frame.entry}
       /\ Pending(next) = {frame.end, body, frame.entry}
       /\ Aims(frame) = {frame.end, frame.test}
       /\ Aims(next) = {frame.end, body, frame.test, test}
  BY <1>3, <1>16 DEF Pending, Aims
<1>27. ASSUME Live(s)
       PROVE  /\ Flow(s, t, to) /\ Framed(s, t)
              /\ Waits(s, t) = Pending(Top(s)) \cup Fresher(s, t)
              /\ to \subseteq {s.fn} \X DOMAIN t.blocks[s.fn]
              /\ to \subseteq Reach(s, t)
              /\ Fresher(s, t) = {body, test}
              /\ \A b \in DOMAIN s.blocks[s.fn] :
                   Phis(t.blocks[s.fn][b]) = Phis(s.blocks[s.fn][b])
  <2>1. /\ Distinct(frame) /\ s.at \notin Pending(frame)
        /\ \A x \in Named(frame) :
             x = <<s.fn, x[2]>> /\ x[1] = s.fn /\ x[2] \in DOMAIN s.blocks[s.fn]
    BY <1>27, TopNames
  <2>2. frame.end \notin {frame.entry, frame.test}
    BY <1>3, <2>1 DEF Distinct
  <2>3. /\ Fresher(s, t) = {body, test} /\ body # test
        /\ body[2] \notin DOMAIN s.blocks[s.fn] /\ test[2] \notin DOMAIN s.blocks[s.fn]
    BY <1>9, <1>11, <1>19, <1>27, <1>13, TwoFresher
  <2>4. body \notin Named(frame) /\ test \notin Named(frame)
    BY <2>1, <2>3
  <2>5. t.at # s.at
    BY <1>19, <1>27, <2>3, LiveIs
  <2>6. /\ Flow(s, t, to)
        /\ \A b \in DOMAIN s.blocks[s.fn] :
             Phis(t.blocks[s.fn][b]) = Phis(s.blocks[s.fn][b])
    BY <1>19, <1>27, <2>5, GoneFlow
  <2>7. Distinct(next)
    BY <1>3, <1>16, <1>23, <2>2, <2>4 DEF Distinct
  <2>8. Framed(s, t)
    <3>1. t.at[1] = s.fn
      BY <1>11, <1>19
    <3>2. \A i \in Above(s, t) :
            /\ \A x \in Named(t.stack[i]) : x[1] = s.fn
            /\ Distinct(t.stack[i]) /\ t.at \notin Pending(t.stack[i])
      BY <1>11, <1>18, <1>19, <1>20, <1>23, <1>26, <2>1, <2>2, <2>3, <2>4, <2>7
    <3>3. \A i, j \in Above(s, t) :
            i # j => Pending(t.stack[i]) \cap Pending(t.stack[j]) = {}
      BY <1>18, <1>20, <1>23
    <3> QED
      BY <3>1, <3>2, <3>3 DEF Framed
  <2>9. Waits(s, t) = Pending(Top(s)) \cup Fresher(s, t)
    <3>1. UNION { Pending(t.stack[i]) : i \in Above(s, t) } = Pending(next)
      BY <1>18, <1>20, <1>21, <1>23
    <3>2. Waits(s, t) = {test} \cup Pending(next)
      BY <1>19, <3>1 DEF Waits
    <3>3. {test} \cup Pending(next) = Pending(frame) \cup {body, test}
      BY <1>26
    <3> QED
      BY <2>3, <3>2, <3>3
  <2>10. to \subseteq {s.fn} \X DOMAIN t.blocks[s.fn]
    BY <1>23, <2>1, <2>6 DEF Flow, to
  <2>11. to \subseteq Reach(s, t)
    BY <1>26 DEF Reach, to
  <2> QED
    BY <2>6, <2>3, <2>8, <2>9, <2>10, <2>11
<1>28. ASSUME Live(s), s.fn \notin t.nested
       PROVE  Steered(s, t)
  <2>1. s.at = frame.body /\ Preds(s, s.fn, frame.end) = ToSet(frame.places)
    BY <1>3, <1>19, <1>28, TopEdges
  <2>2. Preds(t, s.fn, frame.end) = ToSet(next.places)
    <3>1. t.at \in Pending(Top(s)) \cup Fresher(s, t)
      BY <1>19, <1>27, <1>28
    <3>2. PredsMove(s, t, to)
      BY <1>27, <1>28, <3>1, FlowMovesPreds
    <3> QED
      BY <1>4, <1>16, <2>1, <3>2 DEF PredsMove, to
  <2>3. \A i, j \in Above(s, t) :
          /\ i < j /\ Arm(t.stack[i]) => ~InFlow(t.stack[j])
          /\ i # j => Aims(t.stack[i]) \cap Aims(t.stack[j]) = {}
    BY <1>18, <1>20, <1>23
  <2>4. \A i \in Above(s, t) :
          LET f == t.stack[i]
          IN /\ Aims(f) \subseteq Reach(s, t)
             /\ f.step = "branch" => t.at = f.body
             /\ f.step = "loop" => /\ t.at = f.loop
                                   /\ Preds(t, s.fn, f.cond) = {f.entry}
             /\ f.step \in {"branch", "test"} => Preds(t, s.fn, f.end) = ToSet(f.places)
    BY <1>16, <1>18, <1>20, <1>23, <1>26, <1>27, <1>28, <2>2 DEF Compiling, Reach
  <2> QED
    BY <1>27, <1>28, <2>3, <2>4 DEF Steered
<1>29. \A i \in Above(s, t) : /\ t.stack[i].step \notin {"return", "define"}
                              /\ t.stack[i].step = "compile" => t.stack[i].n \in Nodes
  BY <1>16, <1>18, <1>20 DEF Compiling
<1>30. InFlow(Top(s)) /\ Top(s).step # "compile"
  BY DEF InFlow
<1> HIDE DEF frame
<1>31. IInv(t)
  BY <1>18, <1>25, <1>27, <1>28, <1>29, <1>30, FlowKeeps
<1> QED
  BY <1>18, <1>25, <1>31

LEMMA GenArmKeeps ==
  ASSUME NEW s, Types(s), IInv(s), s.open # {}, Len(s.stack) >= 3, program \in Programs,
         Top(s).step = "branch", NEW t, t = GenArm(Popped(s), Top(s))
  PROVE  Types(t) /\ IInv(t) /\ Onward(s, t)
<1>1. CASE Top(s).left = 0
  BY <1>1, LastArmKeeps
<1>2. CASE Top(s).left = 1
  BY <1>2, FirstTestKeeps
<1>3. CASE Top(s).left \notin {0, 1}
  BY <1>3, LaterTestKeeps
<1> QED
  BY <1>1, <1>2, <1>3

-----------------------------------------------------------------------------
\* A condition or loop begins

LEMMA NestIs ==
  ASSUME NEW s, Types(s)
  PROVE  /\ Types(Nest(s)) /\ Same(s, Nest(s)) /\ Nest(s).stack = s.stack
         /\ Nest(s).at = s.at /\ Nest(s).val = s.val /\ Nest(s).blocks = s.blocks
         /\ s.nested \subseteq Nest(s).nested /\ Nest(s).nested \subseteq s.nested \cup {s.fn}
         /\ s.fn \notin Nest(s).nested => \A i \in DOMAIN s.stack : ~Arm(s.stack[i])
<1> DEFINE inner == \E i \in DOMAIN s.stack : Arm(s.stack[i])
           nested == IF inner THEN s.nested \cup {s.fn} ELSE s.nested
           t == [s EXCEPT !.nested = nested]
<1>1. Nest(s) = t
  BY DEF Nest
<1>2. /\ s.nested \subseteq nested /\ nested \subseteq s.nested \cup {s.fn}
      /\ s.fn \notin nested => ~inner
  OBVIOUS
<1>3. nested \subseteq Names
  BY <1>2 DEF Types
<1> HIDE DEF nested
<1>4. /\ DOMAIN t = DOMAIN Fresh
      /\ t.stack = s.stack /\ t.scopes = s.scopes /\ t.fn = s.fn /\ t.at = s.at
      /\ t.val = s.val /\ t.inst = s.inst /\ t.blocks = s.blocks /\ t.entries = s.entries
      /\ t.open = s.open /\ t.cut = s.cut /\ t.within = s.within /\ t.nested = nested
  BY DEF Types, Fresh
<1> HIDE DEF t
<1>5. Types(t)
  BY <1>3, <1>4 DEF Types
<1> QED
  BY <1>1, <1>2, <1>4, <1>5 DEF Same

LEMMA LongerIs ==
  ASSUME NEW s, Types(s)
  PROVE  /\ Longer(s, AddBlock(s), 1)
         /\ Longer(s, AddBlock(AddBlock(s)), 2)
         /\ Longer(s, AddBlock(AddBlock(AddBlock(s))), 3)
<1>1. Longer(s, AddBlock(s), 1)
  BY LongerByOne
<1>2. Longer(s, AddBlock(AddBlock(s)), 2)
  <2>1. Longer(s, AddBlock(AddBlock(s)), 1 + 1)
    BY <1>1, LongerByAnother
  <2> QED
    BY <2>1
<1>3. Longer(s, AddBlock(AddBlock(AddBlock(s))), 3)
  <2>1. Longer(s, AddBlock(AddBlock(AddBlock(s))), 2 + 1)
    BY <1>2, LongerByAnother
  <2> QED
    BY <2>1
<1> QED
  BY <1>1, <1>2, <1>3

LEMMA NewPlaces ==
  ASSUME NEW s, Types(s), NEW k \in Nat, NEW t, Longer(s, t, k), NEW j \in 1 .. k
  PROVE  /\ Exists(t, <<s.fn, Len(Blocks(s, s.fn)) + j>>)
         /\ <<s.fn, Len(Blocks(s, s.fn)) + j>> \in Places
<1> DEFINE L == Len(Blocks(s, s.fn))
<1>1. L \in Nat
  BY BlocksIs, LenProperties
<1>2. s.fn \in DOMAIN t.blocks /\ Len(t.blocks[s.fn]) = L + k
  BY DEF Longer
<1>3. t.blocks[s.fn] \in Seq(Seq(Instructions))
  BY <1>2 DEF Longer, Types
<1>4. DOMAIN t.blocks[s.fn] = 1 .. L + k
  BY <1>2, <1>3, LenProperties
<1> HIDE DEF L
<1>5. L + j \in 1 .. L + k /\ L + j \in Nat
  BY <1>1
<1>6. s.fn \in Names
  BY DEF Types
<1> QED
  BY <1>2, <1>4, <1>5, <1>6 DEF Exists, Places, L

LEMMA GenLoopKeeps ==
  ASSUME NEW s, Types(s), IInv(s), s.open # {}, Len(s.stack) >= 3, program \in Programs,
         Top(s).step = "compile", NEW n \in NodesOf({"while"}), Top(s).n = n,
         NEW t, t = GenLoop(Popped(s), n)
  PROVE  Types(t) /\ IInv(t) /\ Onward(s, t)
<1> DEFINE p == Popped(s)
           L == Len(Blocks(p, p.fn))
           cond == NewBlock(p)
           loop == NewBlock(AddBlock(p))
           end == NewBlock(AddBlock(AddBlock(p)))
           z == Nest(p)
           a == AddBlock(AddBlock(AddBlock(z)))
           places == <<cond>>
           br == Instruction("br", <<>>, places)
           e == Emit(a, br)
           u == SetInsertPoint(e, loop)
           next == [step |-> "loop", n |-> n, entry |-> p.at,
                    cond |-> cond, loop |-> loop, end |-> end]
           m == n.body
           to == {cond}
           k == Len(s.stack)
<1>1. Top(s) \in Frames /\ s.stack # <<>>
  BY TopNames
<1>2. /\ Types(p) /\ Same(s, p) /\ k \in Nat /\ Len(p.stack) = k - 1
      /\ \A i \in 1 .. k - 1 : p.stack[i] = s.stack[i]
      /\ p.at = s.at /\ p.nested = s.nested /\ p.blocks = s.blocks
  BY <1>1, PoppedIs
<1>3. t = CallThen(u, m, next)
  BY DEF GenLoop, GenBr
<1> HIDE DEF p
<1>4. p.fn = s.fn /\ L \in Nat
  BY <1>2, BlocksIs, LenProperties DEF Same
<1>5. cond = <<s.fn, L + 1>> /\ loop = <<s.fn, L + 2>> /\ end = <<s.fn, L + 3>>
  <2>1. Longer(p, AddBlock(p), 1) /\ Longer(p, AddBlock(AddBlock(p)), 2)
    BY <1>2, LongerIs
  <2>2. L + 1 + 1 = L + 2 /\ L + 2 + 1 = L + 3
    BY <1>4
  <2> QED
    BY <1>4, <2>1, <2>2 DEF Longer, NewBlock
<1>6. /\ Types(z) /\ Same(p, z) /\ z.stack = p.stack /\ z.at = s.at /\ z.blocks = s.blocks
      /\ s.nested \subseteq z.nested /\ z.nested \subseteq s.nested \cup {s.fn}
      /\ s.fn \notin z.nested => \A i \in DOMAIN p.stack : ~Arm(p.stack[i])
  BY <1>2, <1>4, NestIs
<1> HIDE DEF z, cond, loop, end
<1>7. Same(s, z) /\ z.fn = s.fn /\ Len(Blocks(z, z.fn)) = L
  BY <1>2, <1>4, <1>6 DEF Same, Blocks
<1>8. Longer(z, a, 3)
  BY <1>6, LongerIs
<1> HIDE DEF a
<1>9. \A x \in {cond, loop, end} : Exists(a, x) /\ x \in Places /\ x[1] = s.fn
  <2>1. 1 \in 1 .. 3 /\ 2 \in 1 .. 3 /\ 3 \in 1 .. 3
    OBVIOUS
  <2>2. \A j \in 1 .. 3 : Exists(a, <<s.fn, L + j>>) /\ <<s.fn, L + j>> \in Places
    BY <1>6, <1>7, <1>8, NewPlaces
  <2> QED
    BY <1>5, <2>1, <2>2
<1> HIDE DEF L
<1>10. Begun(s, a, 3) /\ a.stack = p.stack /\ a.nested = z.nested
  <2>1. Begun(s, z, 0)
    BY <1>6, <1>7, ExtendedByItself, BegunExtended
  <2>2. Begun(s, a, 0 + 3)
    BY <1>8, <2>1, BegunLonger
  <2> QED
    BY <1>6, <1>8, <2>2 DEF Longer
<1>11. <<>> \in Seq(Values) /\ places \in Seq(Places) /\ ToSet(places) = to
  BY <1>9, TupleIs
<1>12. br \in Instructions /\ br.op = "br" /\ br.places = places
  <2> HIDE DEF places
  <2> QED
    BY <1>11, BrIs
<1> HIDE DEF places, br
<1>13. Gone(s, e, 3, to) /\ e.stack = p.stack /\ e.nested = z.nested
  <2>1. Gone(s, e, 3, ToSet(br.places)) /\ e.stack = a.stack /\ e.nested = a.nested
    BY <1>10, <1>12, Branched
  <2> QED
    BY <1>10, <1>11, <1>12, <2>1
<1>14. \A x \in {cond, loop, end} : Exists(e, x)
  <2>1. /\ Types(a) /\ Exists(a, a.at) /\ a.at[1] \in Mine(s)
    BY <1>10, MineIsNotDone, GrownExists DEF Begun
  <2>2. Grown(a, e, Mine(s))
    BY <1>12, <2>1, BranchIs
  <2> QED
    BY <1>9, <2>2, GrownExists
<1> HIDE DEF e, to
<1>15. /\ Types(u) /\ Same(e, u) /\ u.stack = p.stack /\ u.at = loop
       /\ u.nested = z.nested /\ u.blocks = e.blocks
  BY <1>9, <1>13, SetInsertPointIs DEF Gone
<1>16. /\ next \in Frames /\ next.step = "loop" /\ next.entry = s.at
       /\ next.cond = cond /\ next.loop = loop /\ next.end = end
  <2>1. s.at \in Places
    BY DEF Types
  <2>2. next \in LoopFrames
    BY <1>2, <1>9, <2>1 DEF LoopFrames
  <2> QED
    BY <1>2, <2>2, FramesIn
<1>17. m \in Nodes /\ Compiling(m) \in Frames /\ Plain(Compiling(m))
  BY NodeIs, CompilingIs
<1> HIDE DEF u, next, m
<1>18. /\ Types(t) /\ OnTop(u, t) /\ Len(t.stack) = k + 1
       /\ t.stack[k] = next /\ t.stack[k + 1] = Compiling(m)
  <2>1. /\ Types(t) /\ OnTop(u, t) /\ Len(t.stack) = Len(u.stack) + 2
        /\ t.stack[Len(u.stack) + 1] = next /\ t.stack[Len(u.stack) + 2] = Compiling(m)
    BY <1>3, <1>15, <1>16, <1>17, CallThenIs
  <2>2. Len(u.stack) + 1 = k /\ Len(u.stack) + 2 = k + 1
    BY <1>2, <1>15
  <2> QED
    BY <2>1, <2>2
<1>19. Gone(s, t, 3, to) /\ t.at = loop /\ t.nested = z.nested /\ t.blocks = e.blocks
  BY <1>13, <1>15, <1>18, GoneSame DEF OnTop, Same
<1>20. \A i \in Above(s, t) : i = k \/ i = k + 1
  BY <1>2, <1>18 DEF Above
<1>21. k \in Above(s, t) /\ k + 1 \in Above(s, t)
  BY <1>2, <1>18 DEF Above
<1>22. Under(s, t)
  BY <1>2, <1>15, <1>18 DEF Under, OnTop
<1>23. s.fn \notin t.nested => \A i \in 1 .. k - 1 : ~Arm(s.stack[i])
  <2>1. DOMAIN p.stack = 1 .. k - 1
    BY <1>2, StackBounds
  <2> QED
    BY <1>2, <1>6, <1>19, <2>1
<1>24. ~ (k < k) /\ ~ (k + 1 < k) /\ ~ (k + 1 < k + 1)
  BY <1>2
<1>25. /\ Named(next) = {s.at, cond, loop, end} /\ Pending(next) = {cond, end}
       /\ Aims(next) = {cond, loop, end}
       /\ Named(Compiling(m)) = {}
       /\ Pending(Compiling(m)) = {} /\ Aims(Compiling(m)) = {} /\ Distinct(Compiling(m))
       /\ ~InFlow(Compiling(m)) /\ ~Arm(Compiling(m))
       /\ Pending(Top(s)) = {} /\ Aims(Top(s)) = {} /\ ~InFlow(Top(s))
  <2>1. ~InFlow(Top(s))
    BY DEF InFlow
  <2> QED
    BY <1>16, <1>17, <2>1, NotInFlow DEF Named, Pending, Aims, Plain
<1>26. \A x \in {s.at, cond, loop, end} : Exists(t, x) /\ x[1] \in Mine(s)
  <2>1. Exists(t, s.at) /\ s.at[1] \in Mine(s)
    BY <1>19, MineIsNotDone, GrownExists DEF Gone
  <2>2. \A x \in {cond, loop, end} : Exists(t, x) /\ x[1] \in Mine(s)
    BY <1>9, <1>14, <1>19, MineIsNotDone DEF Exists
  <2> QED
    BY <2>1, <2>2
<1>27. cond \notin {loop, end} /\ loop \notin {cond, end}
  BY <1>4, <1>5 DEF L
<1>28. Onward(s, t)
  <2>1. \A i \in Above(s, t) :
          /\ t.stack[i].step # "return"
          /\ \A x \in Named(t.stack[i]) : Exists(t, x) /\ x[1] \in Mine(s)
    BY <1>16, <1>18, <1>20, <1>25, <1>26 DEF Compiling
  <2> QED
    BY <1>6, <1>19, <1>22, <1>26, <2>1 DEF Onward, Gone, Grown
<1>29. ASSUME Live(s)
       PROVE  /\ Flow(s, t, to) /\ Framed(s, t)
              /\ Waits(s, t) = Pending(Top(s)) \cup Fresher(s, t)
              /\ to \subseteq {s.fn} \X DOMAIN t.blocks[s.fn]
              /\ to \subseteq Reach(s, t)
              /\ Fresher(s, t) = {cond, loop, end}
              /\ \A x \in {cond, loop, end} : x \notin {s.fn} \X DOMAIN s.blocks[s.fn]
              /\ \A b \in DOMAIN s.blocks[s.fn] :
                   Phis(t.blocks[s.fn][b]) = Phis(s.blocks[s.fn][b])
  <2>1. /\ s.at[1] = s.fn /\ s.fn \in DOMAIN s.blocks
        /\ s.at[2] \in DOMAIN s.blocks[s.fn] /\ s.at = <<s.fn, s.at[2]>>
        /\ DOMAIN s.blocks[s.fn] = 1 .. Len(s.blocks[s.fn])
    BY <1>29, LiveIs
  <2>2. L = Len(s.blocks[s.fn])
    BY <1>2, <1>4, <2>1 DEF L, Blocks
  <2>3. Fresher(s, t) = {cond, loop, end} /\ DOMAIN t.blocks[s.fn] = 1 .. L + 3
    <3>1. /\ Fresher(s, t) = { <<s.fn, b>> : b \in L + 1 .. L + 3 }
          /\ DOMAIN t.blocks[s.fn] = 1 .. L + 3
      BY <1>19, <1>29, <2>2, FresherIs
    <3>2. L + 1 .. L + 3 = {L + 1, L + 2, L + 3}
      BY <1>4 DEF L
    <3> QED
      BY <1>5, <3>1, <3>2
  <2>4. L + 1 \notin 1 .. L /\ L + 2 \notin 1 .. L /\ L + 3 \notin 1 .. L /\ L + 1 \in 1 .. L + 3
    <3>1. L \in Nat
      BY <1>4 DEF L
    <3> QED
      BY <3>1
  <2>5. \A x \in {cond, loop, end} : x \notin {s.fn} \X DOMAIN s.blocks[s.fn]
    BY <1>5, <2>1, <2>2, <2>4
  <2>6. t.at # s.at
    <3>1. s.at \in {s.fn} \X DOMAIN s.blocks[s.fn]
      BY <2>1
    <3>2. loop \notin {s.fn} \X DOMAIN s.blocks[s.fn]
      BY <2>5
    <3> QED
      BY <1>19, <3>1, <3>2
  <2>7. /\ Flow(s, t, to)
        /\ \A b \in DOMAIN s.blocks[s.fn] :
             Phis(t.blocks[s.fn][b]) = Phis(s.blocks[s.fn][b])
    BY <1>19, <1>29, <2>6, GoneFlow
  <2>8. Distinct(next)
    BY <1>16, <1>27 DEF Distinct
  <2>9. Framed(s, t)
    <3>1. \A i \in Above(s, t) :
            /\ \A x \in Named(t.stack[i]) : x[1] = s.fn
            /\ Distinct(t.stack[i]) /\ t.at \notin Pending(t.stack[i])
      BY <1>9, <1>18, <1>19, <1>20, <1>25, <1>27, <2>1, <2>8
    <3>2. \A i, j \in Above(s, t) :
            i # j => Pending(t.stack[i]) \cap Pending(t.stack[j]) = {}
      BY <1>18, <1>20, <1>25
    <3> QED
      BY <1>9, <1>19, <3>1, <3>2 DEF Framed
  <2>10. Waits(s, t) = Pending(Top(s)) \cup Fresher(s, t)
    <3>1. UNION { Pending(t.stack[i]) : i \in Above(s, t) } = Pending(next)
      BY <1>18, <1>20, <1>21, <1>25
    <3>2. Waits(s, t) = {loop} \cup Pending(next)
      BY <1>19, <3>1 DEF Waits
    <3> QED
      BY <1>25, <2>3, <3>2
  <2>11. to \subseteq {s.fn} \X DOMAIN t.blocks[s.fn]
    BY <1>5, <2>3, <2>4 DEF to
  <2>12. to \subseteq Reach(s, t)
    BY <2>3 DEF Reach, to
  <2> QED
    BY <2>3, <2>5, <2>7, <2>9, <2>10, <2>11, <2>12
<1>30. ASSUME Live(s), s.fn \notin t.nested
       PROVE  Steered(s, t)
  <2>1. Preds(t, s.fn, cond) = {s.at}
    <3>1. t.at \in Pending(Top(s)) \cup Fresher(s, t)
      BY <1>19, <1>29, <1>30
    <3>2. PredsMove(s, t, to)
      BY <1>29, <1>30, <3>1, FlowMovesPreds
    <3>3. Preds(s, s.fn, cond) = {}
      BY <1>29, <1>30, NoPreds
    <3> QED
      BY <3>2, <3>3 DEF PredsMove, to
  <2>2. \A i, j \in Above(s, t) :
          /\ i < j /\ Arm(t.stack[i]) => ~InFlow(t.stack[j])
          /\ i # j => Aims(t.stack[i]) \cap Aims(t.stack[j]) = {}
    BY <1>18, <1>20, <1>24, <1>25
  <2>3. \A i \in Above(s, t) :
          LET f == t.stack[i]
          IN /\ Aims(f) \subseteq Reach(s, t)
             /\ f.step = "branch" => t.at = f.body
             /\ f.step = "loop" => /\ t.at = f.loop
                                   /\ Preds(t, s.fn, f.cond) = {f.entry}
             /\ f.step \in {"branch", "test"} => Preds(t, s.fn, f.end) = ToSet(f.places)
    BY <1>16, <1>18, <1>19, <1>20, <1>25, <1>29, <1>30, <2>1 DEF Compiling, Reach
  <2> QED
    BY <1>29, <1>30, <2>2, <2>3 DEF Steered
<1>31. \A i \in Above(s, t) : /\ t.stack[i].step \notin {"return", "define"}
                              /\ t.stack[i].step = "compile" => t.stack[i].n \in Nodes
  BY <1>16, <1>17, <1>18, <1>20 DEF Compiling
<1>32. Top(s).n.op # "function"
  BY DEF NodesOf
<1>33. s.fn \notin t.nested => \A i \in 1 .. Len(s.stack) - 1 : ~Arm(s.stack[i])
  BY <1>23
<1> HIDE DEF k
<1>34. IInv(t)
  BY <1>18, <1>28, <1>29, <1>30, <1>31, <1>32, <1>33, FlowKeeps
<1> QED
  BY <1>18, <1>28, <1>34

LEMMA GenConditionKeeps ==
  ASSUME NEW s, Types(s), IInv(s), s.open # {}, Len(s.stack) >= 3, program \in Programs,
         Top(s).step = "compile", NEW n \in NodesOf({"if"}), Top(s).n = n,
         NEW t, t = GenCondition(Popped(s), n)
  PROVE  Types(t) /\ IInv(t) /\ Onward(s, t)
<1> DEFINE p == Popped(s)
           L == Len(Blocks(p, p.fn))
           end == NewBlock(p)
           else == NewBlock(AddBlock(p))
           z == Nest(p)
           a == AddBlock(AddBlock(z))
           u == SetInsertPoint(a, else)
           frame == [step |-> "branch", n |-> n, left |-> Len(n.branches),
                     entry |-> p.at, end |-> end,
                     else |-> else, test |-> else, body |-> else,
                     values |-> <<>>, places |-> <<>>]
           v == Call(u, frame)
           k == Len(s.stack)
           N == Len(n.else)
<1>1. Top(s) \in Frames /\ s.stack # <<>>
  BY TopNames
<1>2. /\ Types(p) /\ Same(s, p) /\ k \in Nat /\ Len(p.stack) = k - 1
      /\ \A i \in 1 .. k - 1 : p.stack[i] = s.stack[i]
      /\ p.at = s.at /\ p.nested = s.nested /\ p.blocks = s.blocks
  BY <1>1, PoppedIs
<1>3. t = CallAll(v, n.else)
  BY DEF GenCondition
<1> HIDE DEF p
<1>4. p.fn = s.fn /\ L \in Nat
  BY <1>2, BlocksIs, LenProperties DEF Same
<1>5. end = <<s.fn, L + 1>> /\ else = <<s.fn, L + 2>>
  <2>1. Longer(p, AddBlock(p), 1)
    BY <1>2, LongerIs
  <2>2. L + 1 + 1 = L + 2
    BY <1>4
  <2> QED
    BY <1>4, <2>1, <2>2 DEF Longer, NewBlock
<1>6. /\ Types(z) /\ Same(p, z) /\ z.stack = p.stack /\ z.at = s.at /\ z.blocks = s.blocks
      /\ s.nested \subseteq z.nested /\ z.nested \subseteq s.nested \cup {s.fn}
      /\ s.fn \notin z.nested => \A i \in DOMAIN p.stack : ~Arm(p.stack[i])
  BY <1>2, <1>4, NestIs
<1> HIDE DEF z, end, else
<1>7. Same(s, z) /\ z.fn = s.fn /\ Len(Blocks(z, z.fn)) = L
  BY <1>2, <1>4, <1>6 DEF Same, Blocks
<1>8. Longer(z, a, 2)
  BY <1>6, LongerIs
<1> HIDE DEF a
<1>9. \A x \in {end, else} : Exists(a, x) /\ x \in Places /\ x[1] = s.fn
  <2>1. 1 \in 1 .. 2 /\ 2 \in 1 .. 2
    OBVIOUS
  <2>2. \A j \in 1 .. 2 : Exists(a, <<s.fn, L + j>>) /\ <<s.fn, L + j>> \in Places
    BY <1>6, <1>7, <1>8, NewPlaces
  <2> QED
    BY <1>5, <2>1, <2>2
<1> HIDE DEF L
<1>10. Begun(s, a, 2) /\ a.stack = p.stack /\ a.nested = z.nested
  <2>1. Begun(s, z, 0)
    BY <1>6, <1>7, ExtendedByItself, BegunExtended
  <2>2. Begun(s, a, 0 + 2)
    BY <1>8, <2>1, BegunLonger
  <2> QED
    BY <1>6, <1>8, <2>2 DEF Longer
<1>11. /\ Types(u) /\ Same(a, u) /\ u.stack = p.stack /\ u.at = else
       /\ u.nested = z.nested /\ u.blocks = a.blocks
  BY <1>9, <1>10, SetInsertPointIs DEF Begun
<1>12. N \in Nat /\ n.else \in Seq(Nodes) /\ Len(n.branches) \in Nat /\ Len(n.branches) # 0
  BY NodeIs, LenProperties, EmptySeq
<1>13. /\ frame \in Frames /\ frame.step = "branch" /\ frame.entry = s.at
       /\ frame.end = end /\ frame.else = else /\ frame.test = else /\ frame.body = else
       /\ frame.left # 0 /\ frame.places = <<>>
  <2>1. s.at \in Places /\ <<>> \in Seq(Values) /\ <<>> \in Seq(Places)
    BY DEF Types
  <2>2. frame \in [step : {"branch", "test"}, n : NodesOf({"if"}), left : Nat,
                   entry : Places, end : Places, else : Places, test : Places, body : Places,
                   values : Seq(Values), places : Seq(Places)]
    BY <1>2, <1>9, <1>12, <2>1
  <2>3. frame.left <= Len(frame.n.branches) /\ frame.step # "test"
    BY <1>12
  <2>4. frame \in ConditionFrames
    BY <2>2, <2>3 DEF ConditionFrames
  <2> QED
    BY <1>2, <1>12, <2>4, FramesIn
<1> HIDE DEF u, frame
<1>14. /\ Types(v) /\ OnTop(u, v) /\ Len(v.stack) = k /\ v.stack[k] = frame
  <2>1. /\ Types(v) /\ OnTop(u, v) /\ Len(v.stack) = Len(u.stack) + 1
        /\ v.stack[Len(u.stack) + 1] = frame
    BY <1>11, <1>13, CallFrame
  <2>2. Len(u.stack) + 1 = k
    BY <1>2, <1>11
  <2> QED
    BY <2>1, <2>2
<1> HIDE DEF v, N
<1>15. /\ Types(t) /\ OnTop(v, t) /\ Len(t.stack) = k + N
       /\ \A i \in k + 1 .. k + N : \E m \in Nodes : t.stack[i] = Compiling(m)
  <2>1. /\ Types(t) /\ OnTop(v, t) /\ Len(t.stack) = Len(v.stack) + Len(n.else)
        /\ \A i \in Len(v.stack) + 1 .. Len(v.stack) + Len(n.else) :
             \E m \in Nodes : t.stack[i] = Compiling(m)
    <3> DEFINE w == n.else
    <3>1. w \in Seq(Nodes)
      BY <1>12
    <3> HIDE DEF w
    <3>2. /\ Types(CallAll(v, w)) /\ OnTop(v, CallAll(v, w))
          /\ Len(CallAll(v, w).stack) = Len(v.stack) + Len(w)
          /\ \A i \in Len(v.stack) + 1 .. Len(v.stack) + Len(w) :
               \E m \in Nodes : CallAll(v, w).stack[i] = Compiling(m)
      BY <1>14, <3>1, CallAllIs
    <3> QED
      BY <1>3, <3>2 DEF w
  <2> QED
    BY <1>14, <2>1 DEF N
<1>16. /\ t.at = else /\ t.nested = z.nested /\ t.blocks = a.blocks /\ t.stack[k] = frame
       /\ Same(a, t)
  <2>1. k \in 1 .. Len(v.stack)
    BY <1>2, <1>14
  <2> QED
    BY <1>11, <1>14, <1>15, <2>1 DEF OnTop, Same
<1>17. Begun(s, a, 2) /\ Grown(s, t, Mine(s)) /\ Same(s, t)
  BY <1>10, <1>16 DEF Begun, Same, Grown
<1>18. \A i \in Above(s, t) : i = k \/ i \in k + 1 .. k + N
  BY <1>2, <1>12, <1>15 DEF Above
<1>19. \A i \in k + 1 .. k + N : /\ Plain(t.stack[i])
                                /\ Named(t.stack[i]) = {} /\ Pending(t.stack[i]) = {}
                                /\ Aims(t.stack[i]) = {} /\ Distinct(t.stack[i])
                                /\ ~Arm(t.stack[i]) /\ ~InFlow(t.stack[i])
                                /\ t.stack[i].step = "compile"
  <2> TAKE i \in k + 1 .. k + N
  <2>1. Plain(t.stack[i]) /\ t.stack[i].step = "compile"
    <3>1. PICK m \in Nodes : t.stack[i] = Compiling(m)
      BY <1>15
    <3>2. Plain(Compiling(m)) /\ Compiling(m).step = "compile"
      BY CompilingIs DEF Compiling
    <3> QED
      BY <3>1, <3>2
  <2>2. ~InFlow(t.stack[i])
    BY <2>1 DEF Plain
  <2> QED
    BY <2>1, <2>2, NotInFlow
<1>20. /\ Named(frame) = {s.at, end, else} /\ Pending(frame) = {end, s.at}
       /\ Aims(frame) = {end, else} /\ InFlow(frame)
  BY <1>13 DEF Named, Pending, Aims, InFlow
<1>21. /\ Pending(Top(s)) = {} /\ Aims(Top(s)) = {} /\ ~InFlow(Top(s))
  <2>1. ~InFlow(Top(s))
    BY DEF InFlow
  <2> QED
    BY <2>1, NotInFlow
<1>22. Under(s, t)
  <2>1. Len(t.stack) >= k - 1
    BY <1>2, <1>12, <1>15
  <2>2. ASSUME NEW i \in 1 .. k - 1
        PROVE  t.stack[i] = s.stack[i]
    <3>1. i \in 1 .. Len(u.stack) /\ i \in 1 .. Len(v.stack)
      BY <1>2, <1>11, <1>14
    <3>2. t.stack[i] = u.stack[i]
      BY <1>14, <1>15, <3>1 DEF OnTop
    <3> QED
      BY <1>2, <1>11, <3>2
  <2> QED
    BY <2>1, <2>2 DEF Under
<1>23. s.fn \notin t.nested => \A i \in 1 .. k - 1 : ~Arm(s.stack[i])
  <2>1. DOMAIN p.stack = 1 .. k - 1
    BY <1>2, StackBounds
  <2> QED
    BY <1>2, <1>6, <1>16, <2>1
<1>24. \A x \in {s.at, end, else} : Exists(t, x) /\ x[1] \in Mine(s)
  <2>1. Exists(t, s.at) /\ s.at[1] \in Mine(s)
    BY <1>17, MineIsNotDone, GrownExists
  <2>2. \A x \in {end, else} : Exists(t, x) /\ x[1] \in Mine(s)
    BY <1>9, <1>16, MineIsNotDone DEF Exists
  <2> QED
    BY <2>1, <2>2
<1>25. Onward(s, t)
  <2>1. \A i \in Above(s, t) :
          /\ t.stack[i].step # "return"
          /\ \A x \in Named(t.stack[i]) : Exists(t, x) /\ x[1] \in Mine(s)
    BY <1>13, <1>16, <1>18, <1>19, <1>20, <1>24
  <2> QED
    BY <1>6, <1>16, <1>17, <1>22, <1>24, <2>1 DEF Onward, Grown
<1>26. \A i \in Above(s, t) : MiddleAt(t, i)
  <2> TAKE i \in Above(s, t)
  <2>1. CASE i = k
    BY <1>13, <1>16, <2>1 DEF MiddleAt
  <2>2. CASE i \in k + 1 .. k + N
    BY <1>19, <2>2 DEF MiddleAt, Plain
  <2> QED
    BY <1>18, <2>1, <2>2
<1>27. Top(s).n.op # "function"
  BY DEF NodesOf
<1>28. end # else
  BY <1>4, <1>5 DEF L
<1>29. ~ (k < k) /\ \A i \in k + 1 .. k + N : ~ (i < k) /\ i # k
  BY <1>2
<1>30. k \in Above(s, t)
  BY <1>2, <1>12, <1>15 DEF Above
<1>31. ASSUME Live(s)
       PROVE  /\ s.at \in {s.fn} \X DOMAIN s.blocks[s.fn]
              /\ DOMAIN t.blocks[s.fn] = DOMAIN s.blocks[s.fn] \cup {end[2], else[2]}
              /\ end = <<s.fn, end[2]>> /\ else = <<s.fn, else[2]>>
              /\ Fresher(s, t) = {end, else}
              /\ \A x \in {end, else} : x \notin {s.fn} \X DOMAIN s.blocks[s.fn]
              /\ \A b \in DOMAIN t.blocks[s.fn] :
                   \/ /\ b \in DOMAIN s.blocks[s.fn]
                      /\ Phis(t.blocks[s.fn][b]) = Phis(s.blocks[s.fn][b])
                      /\ TargetsOf(t.blocks[s.fn][b]) = TargetsOf(s.blocks[s.fn][b])
                      /\ IF <<s.fn, b>> = s.at THEN IsOpen(t.blocks[s.fn][b])
                         ELSE t.blocks[s.fn][b] = s.blocks[s.fn][b]
                   \/ /\ <<s.fn, b>> \in {end, else} /\ t.blocks[s.fn][b] = <<>>
  <2>1. /\ s.at[1] = s.fn /\ s.fn \in DOMAIN s.blocks /\ s.at = <<s.fn, s.at[2]>>
        /\ s.at[2] \in DOMAIN s.blocks[s.fn] /\ IsOpen(s.blocks[s.fn][s.at[2]])
        /\ DOMAIN s.blocks[s.fn] = 1 .. Len(s.blocks[s.fn])
    BY <1>31, LiveIs
  <2>2. L = Len(s.blocks[s.fn])
    BY <1>2, <1>4, <2>1 DEF L, Blocks
  <2>3. DOMAIN t.blocks[s.fn] = 1 .. L + 2
    <3>1. Len(t.blocks[s.fn]) = L + 2 /\ s.fn \in DOMAIN t.blocks
      BY <1>16, <1>17, <1>31, <2>1, <2>2 DEF Begun, Grown
    <3>2. t.blocks[s.fn] \in Seq(Seq(Instructions))
      BY <1>15, <3>1 DEF Types
    <3> QED
      BY <3>1, <3>2, LenProperties
  <2>4. /\ 1 .. L + 2 = 1 .. L \cup {L + 1, L + 2}
        /\ (1 .. L + 2) \ (1 .. L) = {L + 1, L + 2}
        /\ L + 1 \notin 1 .. L /\ L + 2 \notin 1 .. L
    <3>1. L \in Nat
      BY <1>4 DEF L
    <3> QED
      BY <3>1
  <2>5. end[2] = L + 1 /\ else[2] = L + 2
    BY <1>5
  <2>6. Fresher(s, t) = {end, else}
    BY <1>5, <2>1, <2>2, <2>3, <2>4 DEF Fresher
  <2>7. DOMAIN t.blocks[s.fn] = DOMAIN s.blocks[s.fn] \cup {end[2], else[2]}
    BY <2>1, <2>2, <2>3, <2>4, <2>5
  <2>8. \A x \in {end, else} : x \notin {s.fn} \X DOMAIN s.blocks[s.fn]
    BY <1>5, <2>1, <2>2, <2>4
  <2>9. end = <<s.fn, end[2]>> /\ else = <<s.fn, else[2]>>
    BY <1>5
  <2>10. s.at \in {s.fn} \X DOMAIN s.blocks[s.fn]
    BY <2>1
  <2> HIDE DEF L
  <2>11. ASSUME NEW b \in DOMAIN t.blocks[s.fn]
         PROVE
           \/ /\ b \in DOMAIN s.blocks[s.fn]
              /\ Phis(t.blocks[s.fn][b]) = Phis(s.blocks[s.fn][b])
              /\ TargetsOf(t.blocks[s.fn][b]) = TargetsOf(s.blocks[s.fn][b])
              /\ IF <<s.fn, b>> = s.at THEN IsOpen(t.blocks[s.fn][b])
                 ELSE t.blocks[s.fn][b] = s.blocks[s.fn][b]
           \/ /\ <<s.fn, b>> \in {end, else} /\ t.blocks[s.fn][b] = <<>>
    <3>1. /\ b \notin DOMAIN s.blocks[s.fn] => t.blocks[s.fn][b] = <<>>
          /\ b \in DOMAIN s.blocks[s.fn] /\ <<s.fn, b>> # s.at =>
               t.blocks[s.fn][b] = s.blocks[s.fn][b]
          /\ <<s.fn, b>> = s.at => /\ IsOpen(t.blocks[s.fn][b])
                                   /\ Phis(t.blocks[s.fn][b]) = Phis(s.blocks[s.fn][b])
      BY <1>16, <1>17, <1>31 DEF Begun
    <3>2. CASE b \notin DOMAIN s.blocks[s.fn]
      BY <2>7, <2>9, <3>1, <3>2
    <3>3. CASE b \in DOMAIN s.blocks[s.fn] /\ <<s.fn, b>> # s.at
      BY <3>1, <3>3
    <3>4. CASE <<s.fn, b>> = s.at
      <4>1. b = s.at[2]
        BY <3>4
      <4>2. TargetsOf(t.blocks[s.fn][b]) = {} /\ TargetsOf(s.blocks[s.fn][b]) = {}
        BY <2>1, <3>1, <3>4, <4>1, OpenTargets
      <4> QED
        BY <2>1, <3>1, <3>4, <4>1, <4>2
    <3> QED
      BY <3>2, <3>3, <3>4
  <2> QED
    BY <2>6, <2>7, <2>8, <2>9, <2>10, <2>11
<1> HIDE DEF k
<1>32. ASSUME Live(s)
       PROVE  BlocksMove(s, t)
  <2>1. end \notin {s.at, else} /\ else \notin {s.at, end}
    BY <1>28, <1>31, <1>32
  <2>2. UNION { Pending(t.stack[i]) : i \in Above(s, t) } = {end, s.at}
    <3>1. Pending(t.stack[k]) = {end, s.at}
      BY <1>16, <1>20
    <3>2. \A i \in Above(s, t) : Pending(t.stack[i]) \subseteq {end, s.at}
      BY <1>18, <1>19, <3>1
    <3> DEFINE P == UNION { Pending(t.stack[i]) : i \in Above(s, t) }
    <3>3. \A x \in P : x \in {end, s.at}
      BY <3>2
    <3>4. {end, s.at} \subseteq P
      BY <1>30, <3>1
    <3> QED
      BY <3>3, <3>4
  <2>3. Waits(s, t) = {else, end, s.at} /\ Free(s, t) = {s.at, end, else}
    BY <1>16, <1>21, <1>31, <1>32, <2>2 DEF Waits, Free
  <2>4. \A i \in Above(s, t) :
          /\ \A x \in Named(t.stack[i]) : x[1] = s.fn
          /\ Distinct(t.stack[i]) /\ t.at \notin Pending(t.stack[i])
    <3>1. \A x \in {s.at, end, else} : x[1] = s.fn
      BY <1>9, <1>31, <1>32
    <3>2. Distinct(frame)
      BY <1>13, <2>1 DEF Distinct
    <3>3. t.at \notin Pending(frame)
      BY <1>16, <1>20, <2>1
    <3>4. ASSUME NEW i \in Above(s, t)
          PROVE  \/ t.stack[i] = frame
                 \/ Named(t.stack[i]) = {} /\ Pending(t.stack[i]) = {} /\ Distinct(t.stack[i])
      BY <1>16, <1>18, <1>19
    <3> QED
      BY <1>20, <3>1, <3>2, <3>3, <3>4
  <2>5. \A i, j \in Above(s, t) :
          i # j => Pending(t.stack[i]) \cap Pending(t.stack[j]) = {}
    BY <1>18, <1>19
  <2>6. \A b \in DOMAIN t.blocks[s.fn] :
          /\ <<s.fn, b>> \in Waits(s, t) => IsOpen(t.blocks[s.fn][b])
          /\ <<s.fn, b>> \notin Free(s, t) => t.blocks[s.fn][b] = s.blocks[s.fn][b]
    BY <1>31, <1>32, <2>3, EmptyBlock
  <2> QED
    BY <1>9, <1>16, <2>3, <2>4, <2>5, <2>6 DEF BlocksMove
<1>33. ASSUME Live(s), s.fn \notin t.nested
       PROVE  EdgesMove(s, t, {})
  <2>1. Reach(s, t) = {end, else}
    BY <1>21, <1>31, <1>33 DEF Reach
  <2>2. \A x : Preds(t, s.fn, x) = Preds(s, s.fn, x)
    <3>1. \A b \in DOMAIN t.blocks[s.fn] :
            \/ b \in DOMAIN s.blocks[s.fn]
               /\ TargetsOf(t.blocks[s.fn][b]) = TargetsOf(s.blocks[s.fn][b])
            \/ b \notin DOMAIN s.blocks[s.fn] /\ TargetsOf(t.blocks[s.fn][b]) = {}
      BY <1>31, <1>33, EmptyBlock
    <3>2. DOMAIN s.blocks[s.fn] \subseteq DOMAIN t.blocks[s.fn]
      BY <1>31, <1>33
    <3>3. \A x : { j \in DOMAIN t.blocks[s.fn] : x \in TargetsOf(t.blocks[s.fn][j]) }
               = { j \in DOMAIN s.blocks[s.fn] : x \in TargetsOf(s.blocks[s.fn][j]) }
      BY <3>1, <3>2
    <3> QED
      BY <3>3 DEF Preds
  <2>3. Preds(t, s.fn, end) = ToSet(frame.places)
    <3>1. Preds(s, s.fn, end) = {}
      BY <1>31, <1>33, NoPreds
    <3>2. ToSet(<<>>) = {}
      BY DEF ToSet
    <3> QED
      BY <1>13, <2>2, <3>1, <3>2
  <2>4. \A x \in {end, else} : Phis(t.blocks[x[1]][x[2]]) = {}
    <3>1. ASSUME NEW x \in {end, else}
          PROVE  Phis(t.blocks[x[1]][x[2]]) = {}
      <4>1. /\ x[2] \in DOMAIN t.blocks[s.fn] /\ x = <<s.fn, x[2]>> /\ x[1] = s.fn
        BY <1>9, <1>31, <1>33
      <4>2. x[2] \notin DOMAIN s.blocks[s.fn]
        BY <1>31, <1>33, <4>1
      <4>3. t.blocks[s.fn][x[2]] = <<>>
        BY <1>31, <1>33, <4>1, <4>2
      <4> QED
        BY <4>1, <4>3, EmptyBlock
    <3> QED
      BY <3>1
  <2>5. \A i \in Above(s, t) : i # k => ~InFlow(t.stack[i]) /\ ~Arm(t.stack[i])
                                          /\ Aims(t.stack[i]) = {}
                                          /\ t.stack[i].step = "compile"
    BY <1>18, <1>19
  <2>6. \A i, j \in Above(s, t) :
          /\ i < j /\ Arm(t.stack[i]) => ~InFlow(t.stack[j])
          /\ i # j => Aims(t.stack[i]) \cap Aims(t.stack[j]) = {}
    <3>1. \A i \in Above(s, t) : ~ (i < i)
      BY <1>2 DEF Above, k
    <3> QED
      BY <2>5, <3>1
  <2>7. \A i \in Above(s, t) :
          /\ Aims(t.stack[i]) \subseteq Reach(s, t)
          /\ t.stack[i].step = "branch" => t.at = t.stack[i].body
          /\ t.stack[i].step # "loop"
          /\ t.stack[i].step \in {"branch", "test"} =>
               Preds(t, s.fn, t.stack[i].end) = ToSet(t.stack[i].places)
          /\ \A x \in Aims(t.stack[i]) : Phis(t.blocks[x[1]][x[2]]) = {}
    <3> TAKE i \in Above(s, t)
    <3>1. CASE i = k
      BY <1>13, <1>16, <1>20, <2>1, <2>3, <2>4, <3>1
    <3>2. CASE i # k
      BY <2>5, <3>2
    <3> QED
      BY <3>1, <3>2
  <2>8. \A b \in DOMAIN t.blocks[s.fn] :
          \/ /\ b \in DOMAIN s.blocks[s.fn]
             /\ Phis(t.blocks[s.fn][b]) = Phis(s.blocks[s.fn][b])
          \/ /\ <<s.fn, b>> \in Reach(s, t)
             /\ Phis(t.blocks[s.fn][b]) = {}
    <3> TAKE b \in DOMAIN t.blocks[s.fn]
    <3>1. CASE b \in DOMAIN s.blocks[s.fn] /\ Phis(t.blocks[s.fn][b]) = Phis(s.blocks[s.fn][b])
      BY <3>1
    <3>2. CASE <<s.fn, b>> \in {end, else} /\ t.blocks[s.fn][b] = <<>>
      BY <2>1, <3>2, EmptyBlock
    <3> QED
      BY <1>31, <1>33, <3>1, <3>2
  <2>9. \A i \in 1 .. Len(s.stack) - 1 : ~Arm(s.stack[i])
    BY <1>23, <1>33 DEF k
  <2> QED
    BY <2>2, <2>6, <2>7, <2>8, <2>9 DEF EdgesMove
<1>34. IInv(t)
  BY <1>15, <1>25, <1>26, <1>27, <1>32, <1>33, StepKeeps
<1> QED
  BY <1>15, <1>25, <1>34

-----------------------------------------------------------------------------
\* Functions begin and end

LEMMA EnterFunctionIs ==
  ASSUME NEW p, Types(p), NEW n, n.name \in Names
  PROVE  /\ Types(EnterFunction(p, n))
         /\ EnterFunction(p, n).stack = p.stack /\ EnterFunction(p, n).fn = n.name
         /\ EnterFunction(p, n).at = <<n.name, Len(Blocks(p, n.name)) + 1>>
         /\ EnterFunction(p, n).entries = p.entries /\ EnterFunction(p, n).nested = p.nested
         /\ EnterFunction(p, n).open = p.open /\ EnterFunction(p, n).cut = p.cut
         /\ EnterFunction(p, n).within = p.within
         /\ DOMAIN EnterFunction(p, n).blocks = DOMAIN p.blocks \cup {n.name}
         /\ EnterFunction(p, n).blocks[n.name] = Append(Blocks(p, n.name), <<>>)
         /\ \A g \in DOMAIN p.blocks : g # n.name => EnterFunction(p, n).blocks[g] = p.blocks[g]
<1> DEFINE f == n.name
           s == [p EXCEPT !.fn = n.name]
           a == AddBlock(s)
           q == NewBlock(s)
           u == SetInsertPoint(a, q)
           e == [scope |-> n.name, value |-> Argument(u.fn, 2)]
           t == [u EXCEPT !.scopes = Append(@, e)]
<1>1. /\ DOMAIN s = DOMAIN Fresh
      /\ s.stack = p.stack /\ s.scopes = p.scopes /\ s.fn = f /\ s.at = p.at
      /\ s.val = p.val /\ s.inst = p.inst /\ s.entries = p.entries /\ s.blocks = p.blocks
      /\ s.open = p.open /\ s.cut = p.cut /\ s.within = p.within /\ s.nested = p.nested
  BY DEF Types, Fresh
<1>2. EnterFunction(p, n) = t
  BY DEF EnterFunction, PushFunction
<1> HIDE DEF s
<1>3. Types(s)
  BY <1>1 DEF Types
<1>4. Blocks(s, f) = Blocks(p, f)
  BY <1>1 DEF Blocks
<1>5. q \in Places /\ q = <<f, Len(Blocks(p, f)) + 1>>
  BY <1>1, <1>3, <1>4, NewBlockIs DEF NewBlock
<1>6. /\ Types(a) /\ Same(s, a) /\ a.stack = s.stack /\ a.nested = s.nested
      /\ DOMAIN a.blocks = DOMAIN s.blocks \cup {s.fn}
      /\ a.blocks[s.fn] = Append(Blocks(s, s.fn), <<>>)
      /\ \A g \in DOMAIN s.blocks : g # s.fn => a.blocks[g] = s.blocks[g]
  BY <1>3, AddBlockIs
<1> HIDE DEF q, a
<1>7. /\ Types(u) /\ Same(a, u) /\ u.stack = a.stack /\ u.at = q /\ u.nested = a.nested
      /\ u.blocks = a.blocks
  BY <1>5, <1>6, SetInsertPointIs
<1> HIDE DEF u
<1>8. e \in Scopes
  <2>1. u.fn = f
    BY <1>1, <1>6, <1>7 DEF Same
  <2>2. Argument(u.fn, 2) \in Values
    BY <2>1, Constants
  <2> QED
    BY <2>2 DEF Scopes
<1> HIDE DEF e
<1>9. u.scopes \in Seq(Scopes) /\ Append(u.scopes, e) \in Seq(Scopes)
  BY <1>7, <1>8, Appended DEF Types
<1>10. /\ DOMAIN t = DOMAIN Fresh
       /\ t.stack = u.stack /\ t.scopes = Append(u.scopes, e) /\ t.fn = u.fn /\ t.at = u.at
       /\ t.val = u.val /\ t.inst = u.inst /\ t.entries = u.entries /\ t.blocks = u.blocks
       /\ t.open = u.open /\ t.cut = u.cut /\ t.within = u.within /\ t.nested = u.nested
  BY <1>7 DEF Types, Fresh
<1> HIDE DEF t
<1>11. Types(t)
  BY <1>7, <1>9, <1>10 DEF Types
<1> QED
  BY <1>1, <1>2, <1>4, <1>5, <1>6, <1>7, <1>10, <1>11 DEF Same

Entered(p, n, t) ==
  /\ Types(t) /\ t.fn = n.name
  /\ t.at = <<n.name, Len(Blocks(p, n.name)) + 1>>
  /\ t.entries = p.entries /\ t.nested = p.nested
  /\ t.open = p.open \cup {n.name} /\ t.cut = p.cut \cup p.open
  /\ t.within = IF p.open = {} THEN p.within ELSE p.within \cup {n.name}
  /\ DOMAIN t.blocks = DOMAIN p.blocks \cup {n.name}
  /\ t.blocks[n.name] = Append(Blocks(p, n.name), <<>>)
  /\ \A g \in DOMAIN p.blocks : g # n.name => t.blocks[g] = p.blocks[g]
  /\ Len(t.stack) = Len(p.stack) + 2
  /\ \A i \in 1 .. Len(p.stack) : t.stack[i] = p.stack[i]
  /\ t.stack[Len(p.stack) + 1] = [step |-> "return", open |-> p.open]
  /\ t.stack[Len(p.stack) + 2] = Compiling(n.body)

LEMMA GenFunctionIs ==
  ASSUME NEW p, Types(p), NEW n, n.name \in Names, n.body \in Nodes
  PROVE  Entered(p, n, GenFunction(p, n))
<1> DEFINE s == EnterFunction(p, n)
           params == IF n.params > 0 THEN Returned(s, NoValue) ELSE s
           within == IF p.open = {} THEN params.within ELSE params.within \cup {n.name}
           open == [params EXCEPT !.open = params.open \cup {n.name},
                                  !.cut = params.cut \cup p.open,
                                  !.within = within]
           frame == [step |-> "return", open |-> p.open]
           m == n.body
<1>1. /\ Types(s) /\ s.stack = p.stack /\ s.fn = n.name
      /\ s.at = <<n.name, Len(Blocks(p, n.name)) + 1>>
      /\ s.entries = p.entries /\ s.nested = p.nested
      /\ s.open = p.open /\ s.cut = p.cut /\ s.within = p.within
      /\ DOMAIN s.blocks = DOMAIN p.blocks \cup {n.name}
      /\ s.blocks[n.name] = Append(Blocks(p, n.name), <<>>)
      /\ \A g \in DOMAIN p.blocks : g # n.name => s.blocks[g] = p.blocks[g]
  BY EnterFunctionIs
<1>2. GenFunction(p, n) = CallThen(open, m, frame)
  BY DEF GenFunction
<1> HIDE DEF s
<1>3. /\ Types(params) /\ Same(s, params) /\ params.stack = s.stack /\ params.at = s.at
      /\ params.nested = s.nested /\ params.blocks = s.blocks
  <2>1. CASE n.params > 0
    <3>1. Returned(s, NoValue).blocks = s.blocks
      BY <1>1 DEF Returned, Types, Fresh
    <3> QED
      BY <1>1, <2>1, <3>1, ReturnedIs, Constants DEF Extended
  <2>2. CASE ~(n.params > 0)
    BY <1>1, <2>2 DEF Same
  <2> QED
    BY <2>1, <2>2
<1> HIDE DEF params
<1>4. within = IF p.open = {} THEN p.within ELSE p.within \cup {n.name}
  BY <1>1, <1>3 DEF Same
<1> HIDE DEF within
<1>5. /\ DOMAIN open = DOMAIN Fresh
      /\ open.stack = params.stack /\ open.scopes = params.scopes /\ open.fn = params.fn
      /\ open.at = params.at /\ open.val = params.val /\ open.inst = params.inst
      /\ open.entries = params.entries /\ open.blocks = params.blocks
      /\ open.open = params.open \cup {n.name} /\ open.cut = params.cut \cup p.open
      /\ open.within = within /\ open.nested = params.nested
  BY <1>3 DEF Types, Fresh
<1> HIDE DEF open
<1>6. /\ open.stack = p.stack /\ open.fn = n.name /\ open.at = s.at /\ open.blocks = s.blocks
      /\ open.entries = p.entries /\ open.nested = p.nested
      /\ open.open = p.open \cup {n.name} /\ open.cut = p.cut \cup p.open
      /\ open.within = IF p.open = {} THEN p.within ELSE p.within \cup {n.name}
  BY <1>1, <1>3, <1>4, <1>5 DEF Same
<1>7. Types(open)
  <2>1. open.open \subseteq Names /\ open.cut \subseteq Names /\ open.within \subseteq Names
    BY <1>6 DEF Types
  <2> QED
    BY <1>3, <1>5, <2>1 DEF Types
<1>8. frame \in Frames
  <2>1. frame \in ReturnFrames
    BY DEF ReturnFrames, Types
  <2> QED
    BY <2>1, FramesIn
<1>9. Compiling(m) \in Frames
  BY CompilingIs
<1> HIDE DEF frame, m
<1> DEFINE t == CallThen(open, m, frame)
<1>10. /\ Types(t) /\ OnTop(open, t) /\ Len(t.stack) = Len(open.stack) + 2
       /\ t.stack[Len(open.stack) + 1] = frame /\ t.stack[Len(open.stack) + 2] = Compiling(m)
  BY <1>7, <1>8, <1>9, CallThenIs
<1> HIDE DEF t
<1>11. /\ t.fn = n.name /\ t.at = s.at /\ t.entries = p.entries /\ t.nested = p.nested
       /\ t.open = p.open \cup {n.name} /\ t.cut = p.cut \cup p.open
       /\ t.within = (IF p.open = {} THEN p.within ELSE p.within \cup {n.name})
       /\ t.blocks = s.blocks
       /\ \A i \in 1 .. Len(p.stack) : t.stack[i] = p.stack[i]
  BY <1>6, <1>10 DEF OnTop, Same
<1>12. /\ Len(t.stack) = Len(p.stack) + 2
       /\ t.stack[Len(p.stack) + 1] = frame /\ t.stack[Len(p.stack) + 2] = Compiling(m)
  BY <1>6, <1>10
<1>13. GenFunction(p, n) = t
  BY <1>2 DEF t
<1> QED
  BY <1>1, <1>10, <1>11, <1>12, <1>13 DEF frame, m, Entered

\* What has been compiled and is not torn stays as it is
Spared(s, t) == \A f \in s.entries \ Torn(s) : t.blocks[f] = s.blocks[f]

\* ... but for a block that a function inside another adds to its namesake
Begins(s, f) ==
  /\ s.stack # <<>> /\ Last(s.stack).step = "compile"
  /\ LET n == Last(s.stack).n IN n \in Nodes /\ n.op = "function" /\ n.name = f
SparedBut(s, t) ==
  \A f \in s.entries \ Torn(s) :
    \/ t.blocks[f] = s.blocks[f]
    \/ Begins(s, f) /\ t.blocks[f] = Append(s.blocks[f], <<>>)

LEMMA SparedWholly ==
  ASSUME NEW s, NEW t, Spared(s, t)
  PROVE  SparedBut(s, t)
BY DEF Spared, SparedBut

LEMMA OnwardSpares ==
  ASSUME NEW s, NEW t, IInv(s), s.open # {}, Onward(s, t)
  PROVE  Spared(s, t)
<1>1. \A f \in s.entries \ Torn(s) : f \in DOMAIN s.blocks /\ f \notin Mine(s)
  <2>1. Done(s) = s.entries /\ Mine(s) \cap (s.entries \ Torn(s)) = {}
    BY MineIsNotDone
  <2> QED
    BY <2>1 DEF IInv, Kept
<1> QED
  BY <1>1 DEF Onward, Spared

\* Blocks of a function that a step left alone
LEMMA KeptBlocks ==
  ASSUME NEW s, NEW t, NEW f, t.blocks[f] = s.blocks[f]
  PROVE  /\ \A b \in DOMAIN s.blocks[f] : IsEnded(s, f, b) => IsEnded(t, f, b)
         /\ PhisMatch(s, f) => PhisMatch(t, f)
BY DEF IsEnded, PhisMatch, Preds

\* A frame that knows no blocks
LEMMA QuietFrame ==
  ASSUME NEW frame, frame.step \in {"compile", "return", "define"}
  PROVE  /\ Named(frame) = {} /\ Pending(frame) = {} /\ Aims(frame) = {}
         /\ Distinct(frame) /\ ~Arm(frame) /\ ~InFlow(frame)
         /\ frame.step \notin {"branch", "loop", "test"}
<1>1. ~InFlow(frame)
  BY DEF InFlow
<1> QED
  BY <1>1, NotInFlow

\* The function that was required
LEMMA FirstFunctionKeeps ==
  ASSUME NEW s, Types(s), IInv(s), s.open = {}, Len(s.stack) = 2, program \in Programs,
         NEW t, t = GenFunction(Popped(s), Top(s).n)
  PROVE  Types(t) /\ IInv(t) /\ Spared(s, t)
<1> DEFINE p == Popped(s)
           f == s.stack[1].f
           n == Top(s).n
<1>1. s.stack # <<>>
  BY StackBounds, EmptySeq
<1>2. /\ s.stack[1].step = "define" /\ Top(s) = Compiling(program[f]) /\ f \notin s.entries
  BY <1>1 DEF IInv, Bottom, Top
<1>3. /\ Types(p) /\ Same(s, p) /\ Len(p.stack) = 1 /\ p.stack[1] = s.stack[1]
      /\ p.nested = s.nested /\ p.blocks = s.blocks
  <2>1. /\ Types(p) /\ Same(s, p) /\ Len(p.stack) = Len(s.stack) - 1
        /\ \A i \in 1 .. Len(s.stack) - 1 : p.stack[i] = s.stack[i]
        /\ p.nested = s.nested /\ p.blocks = s.blocks
    BY <1>1, PoppedIs
  <2>2. Len(s.stack) - 1 = 1 /\ 1 \in 1 .. 1
    OBVIOUS
  <2> QED
    BY <2>1, <2>2
<1>4. s.stack[1] \in Frames
  <2>1. 1 \in DOMAIN s.stack
    BY StackBounds
  <2> QED
    BY <2>1, ElementOfSeq DEF Types
<1>5. f \in DOMAIN program
  BY <1>2, <1>4 DEF Frames, CompileFrames, ReturnFrames, DefineFrames,
     ArgumentFrames, CalleeFrames, CallFrames, ConditionFrames, LoopFrames,
     AgainFrames, SlotFrames, StoreFrames
<1>6. n = program[f] /\ n.name = f /\ n.body \in Nodes /\ n.name \in Names
  BY <1>2, <1>5, ProgramIs DEF Compiling, Names
<1>7. Entered(p, n, t)
  <2>1. t = GenFunction(p, n)
    OBVIOUS
  <2> HIDE DEF p, n, f
  <2> QED
    BY <1>3, <1>6, <2>1, GenFunctionIs
<1> HIDE DEF p, n, f
<1>8. /\ Types(t) /\ t.fn = f
      /\ t.at = <<f, Len(Blocks(p, f)) + 1>>
      /\ t.entries = s.entries /\ t.nested = s.nested
      /\ t.open = {f} /\ t.cut = s.cut /\ t.within = s.within
      /\ DOMAIN t.blocks = DOMAIN s.blocks \cup {f}
      /\ t.blocks[f] = Append(Blocks(p, f), <<>>)
      /\ \A g \in DOMAIN s.blocks : g # f => t.blocks[g] = s.blocks[g]
  <2>1. p.entries = s.entries /\ p.open = {} /\ p.cut = s.cut /\ p.within = s.within
    BY <1>3 DEF Same
  <2>2. {} \cup {f} = {f} /\ p.cut \cup {} = p.cut
    OBVIOUS
  <2>3. /\ Types(t) /\ t.fn = n.name
        /\ t.at = <<n.name, Len(Blocks(p, n.name)) + 1>>
        /\ t.entries = p.entries /\ t.nested = p.nested
        /\ t.open = p.open \cup {n.name} /\ t.cut = p.cut \cup p.open
        /\ t.within = IF p.open = {} THEN p.within ELSE p.within \cup {n.name}
        /\ DOMAIN t.blocks = DOMAIN p.blocks \cup {n.name}
        /\ t.blocks[n.name] = Append(Blocks(p, n.name), <<>>)
        /\ \A g \in DOMAIN p.blocks : g # n.name => t.blocks[g] = p.blocks[g]
    BY <1>7 DEF Entered
  <2>4. n.name = f
    BY <1>6
  <2> QED
    BY <1>3, <2>1, <2>2, <2>3, <2>4
<1>9. /\ Len(t.stack) = 3 /\ t.stack[1] = s.stack[1]
      /\ t.stack[2].step = "return" /\ t.stack[2].open = {}
      /\ t.stack[3].step = "compile" /\ t.stack[3].n \in Nodes
  <2>1. 1 + 2 = 3 /\ 1 + 1 = 2 /\ 1 \in 1 .. 1 /\ p.open = {}
    BY <1>3 DEF Same
  <2>2. /\ Len(t.stack) = Len(p.stack) + 2
        /\ \A i \in 1 .. Len(p.stack) : t.stack[i] = p.stack[i]
        /\ t.stack[Len(p.stack) + 1] = [step |-> "return", open |-> p.open]
        /\ t.stack[Len(p.stack) + 2] = Compiling(n.body)
    BY <1>7 DEF Entered
  <2>3. Len(p.stack) + 2 = 3 /\ Len(p.stack) + 1 = 2 /\ 1 \in 1 .. Len(p.stack)
    <3>1. Len(p.stack) = 1
      BY <1>3
    <3> QED
      BY <2>1, <3>1
  <2>4. /\ Len(t.stack) = 3 /\ t.stack[1] = s.stack[1]
        /\ t.stack[2] = [step |-> "return", open |-> {}]
        /\ t.stack[3] = Compiling(n.body)
    <3>1. p.stack[1] = s.stack[1]
      BY <1>3
    <3> QED
      BY <2>1, <2>2, <2>3, <3>1, Zenon
  <2> QED
    BY <1>6, <2>4 DEF Compiling
<1>10. t.stack # <<>> /\ DOMAIN t.stack = 1 .. 3
  <2>1. DOMAIN t.stack = 1 .. 3
    BY <1>8, <1>9, StackBounds
  <2> QED
    BY <1>9, <2>1
<1>11. \A i \in DOMAIN t.stack : t.stack[i].step \in {"define", "return", "compile"}
  <2>1. \A i \in 1 .. 3 : i = 1 \/ i = 2 \/ i = 3
    OBVIOUS
  <2> QED
    BY <1>2, <1>9, <1>10, <2>1
<1>12. \A i \in DOMAIN t.stack :
         /\ Named(t.stack[i]) = {} /\ Pending(t.stack[i]) = {} /\ Aims(t.stack[i]) = {}
         /\ Distinct(t.stack[i]) /\ ~Arm(t.stack[i]) /\ ~InFlow(t.stack[i])
         /\ t.stack[i].step \notin {"branch", "loop", "test"}
  <2> TAKE i \in DOMAIN t.stack
  <2>1. t.stack[i].step \in {"define", "return", "compile"}
    BY <1>11
  <2> QED
    BY <2>1, QuietFrame
<1>13. Bottom(t)
  <2>1. Len(t.stack) >= 2
    BY <1>9
  <2> QED
    BY <1>2, <1>8, <1>9, <1>10, <2>1 DEF Bottom, f
<1>14. Middle(t)
  <2>1. \A i \in 3 .. 3 : i = 3
    OBVIOUS
  <2>2. MiddleAt(t, 3)
    BY <1>6, <1>9 DEF MiddleAt, Compiling
  <2> QED
    BY <1>8, <1>9, <2>1, <2>2, MiddleIff
<1>15. Blocks(p, f) \in Seq(Seq(Instructions)) /\ <<>> \in Seq(Instructions)
  BY <1>3, BlocksIs
<1>16. Exists(t, t.at)
  <2>1. Len(Blocks(p, f)) + 1 \in DOMAIN Append(Blocks(p, f), <<>>)
    BY <1>15, Appended
  <2> QED
    BY <1>8, <2>1 DEF Exists
<1>17. Standing(t)
  BY <1>12, <1>16 DEF Standing
<1>18. Done(s) = s.entries /\ Done(t) = s.entries /\ Torn(t) = Torn(s)
  BY <1>8 DEF Done, Torn
<1>19. Kept(t)
  <2>1. DOMAIN t.blocks \subseteq Done(t) \cup Torn(t) \cup t.open
    BY <1>8, <1>18 DEF IInv, Kept
  <2>2. ASSUME NEW g \in Done(t) \ Torn(t)
        PROVE  /\ g \in DOMAIN t.blocks /\ \A b \in DOMAIN t.blocks[g] : IsEnded(t, g, b)
               /\ g \notin t.nested => PhisMatch(t, g)
    <3>1. g # f /\ g \in Done(s) \ Torn(s)
      BY <1>2, <1>18, <2>2
    <3>2. /\ g \in DOMAIN s.blocks /\ \A b \in DOMAIN s.blocks[g] : IsEnded(s, g, b)
          /\ g \notin s.nested => PhisMatch(s, g)
      BY <3>1 DEF IInv, Kept
    <3>3. t.blocks[g] = s.blocks[g]
      BY <1>8, <3>1, <3>2
    <3> QED
      BY <1>8, <3>2, <3>3, KeptBlocks
  <2> QED
    BY <2>1, <2>2 DEF Kept
<1>20. Loose(t)
  <2>1. ~Live(t) => f \in Torn(t)
    BY <1>8 DEF Live
  <2>2. t.at[1] = f
    BY <1>8
  <2>3. \A i \in DOMAIN t.stack : Named(t.stack[i]) = {}
    BY <1>12
  <2> QED
    BY <1>8, <2>1, <2>2, <2>3 DEF Loose
<1>21. ASSUME Live(t)
       PROVE  Blocked(t) /\ Edged(t) /\ PhisMatch(t, t.fn)
  <2>1. f \notin DOMAIN s.blocks
    BY <1>2, <1>8, <1>18, <1>21 DEF Live, IInv, Kept
  <2>2. Blocks(p, f) = <<>>
    BY <1>3, <2>1 DEF Blocks
  <2>3. t.blocks[f] = <<<<>>>> /\ t.at = <<f, 1>>
    <3>1. Append(<<>>, <<>>) = <<<<>>>> /\ Len(<<>>) + 1 = 1
      OBVIOUS
    <3> QED
      BY <1>8, <2>2, <3>1
  <2>4. DOMAIN t.blocks[f] = {1} /\ t.blocks[f][1] = <<>>
    <3>1. 1 .. 1 = {1}
      OBVIOUS
    <3> QED
      BY <2>3, <3>1
  <2>5. Blocked(t)
    <3>1. t.at[1] = t.fn /\ t.at = <<t.fn, 1>> /\ DOMAIN t.blocks[t.fn] = {1}
      BY <1>8, <2>3, <2>4
    <3>2. IsOpen(t.blocks[t.fn][1])
      BY <1>8, <2>4, EmptyBlock
    <3> QED
      BY <1>12, <3>1, <3>2 DEF Blocked
  <2>6. Edged(t)
    BY <1>12 DEF Edged
  <2>7. PhisMatch(t, f)
    BY <2>4, EmptyBlock DEF PhisMatch
  <2> QED
    BY <1>8, <2>5, <2>6, <2>7
<1>22. Alive(t)
  BY <1>2, <1>8, <1>9, <1>21 DEF Alive, f
<1>23. Spared(s, t)
  BY <1>2, <1>8, <1>18 DEF Spared, IInv, Kept
<1> QED
  BY <1>8, <1>13, <1>14, <1>17, <1>19, <1>20, <1>22, <1>23 DEF IInv

LEMMA DefinesIsDefined ==
  ASSUME NEW s, Types(s), NEW i \in DOMAIN s.stack, s.stack[i].step = "define"
  PROVE  s.stack[i].f \in DOMAIN program
<1>1. s.stack[i] \in Frames
  BY ElementOfSeq, StackBounds DEF Types
<1> QED
  BY <1>1 DEF Frames, CompileFrames, ReturnFrames, DefineFrames,
     ArgumentFrames, CalleeFrames, CallFrames, ConditionFrames, LoopFrames,
     AgainFrames, SlotFrames, StoreFrames

LEMMA MiddleIs ==
  ASSUME NEW s, Types(s), IInv(s), program \in Programs
  PROVE  \A i \in 3 .. Len(s.stack) : MiddleAt(s, i)
BY MiddleIff DEF IInv

\* The bottom of a stack with handlers on it
LEMMA BottomIs ==
  ASSUME NEW s, Types(s), IInv(s), Len(s.stack) >= 3
  PROVE  /\ s.stack # <<>> /\ s.stack[1].step = "define" /\ s.stack[1].f \in s.open
         /\ s.stack[2].step = "return" /\ s.stack[2].open = {}
<1>1. Len(s.stack) \in Nat
  BY StackBounds
<1>2. Len(s.stack) # 0 /\ Len(s.stack) # 1 /\ Len(s.stack) # 2
  <2>1. \A x \in Nat : x >= 3 => x # 0 /\ x # 1 /\ x # 2
    OBVIOUS
  <2> QED
    BY <1>1, <2>1
<1>3. s.stack # <<>>
  BY <1>2
<1> QED
  BY <1>2, <1>3 DEF IInv, Bottom

\* The function that the innermost handler begins: its blocks are nobody's yet, unless
\* it is inside another
LEMMA NestedFunctionIs ==
  ASSUME NEW s, Types(s), IInv(s), s.open # {}, Len(s.stack) >= 3, program \in Programs,
         Top(s).step = "compile", NEW n, Top(s).n = n, n.op = "function"
  PROVE  /\ n.name \in Names /\ n.body \in Nodes
         /\ n \in Nodes \/ n.name \notin s.entries \ Torn(s)
<1> DEFINE k == Len(s.stack)
<1>1. k \in Nat /\ k \in 3 .. Len(s.stack) /\ DOMAIN s.stack = 1 .. k
  BY StackBounds
<1>2. MiddleAt(s, k)
  BY <1>1, MiddleIs
<1>3. CASE n \in Nodes
  <2>1. n \in NodesOf({"function"})
    BY <1>3 DEF NodesOf
  <2>2. n.name \in STRING /\ n.body \in Nodes
    BY <2>1, NodeIs
  <2> QED
    BY <1>3, <2>2 DEF Names
<1>4. CASE n \notin Nodes
  <2>1. k > 3 /\ s.stack[k - 1].step = "define" /\ n = program[s.stack[k - 1].f]
    BY <1>2, <1>4 DEF MiddleAt, Top
  <2> DEFINE f == s.stack[k - 1].f
  <2>2. k - 1 \in 3 .. Len(s.stack) /\ k - 1 \in DOMAIN s.stack
    BY <1>1, <2>1
  <2>3. f \in DOMAIN program
    BY <2>1, <2>2, DefinesIsDefined
  <2>4. MiddleAt(s, k - 1)
    BY <2>2, MiddleIs
  <2>5. f \notin s.entries \/ f \in Torn(s)
    BY <2>1, <2>4 DEF MiddleAt, Torn
  <2> HIDE DEF f
  <2>6. n = program[f]
    BY <2>1 DEF f
  <2>7. n.name = f /\ n.body \in Nodes /\ f \in Names
    BY <2>3, <2>6, ProgramIs DEF Names
  <2> QED
    BY <2>5, <2>7
<1> QED
  BY <1>3, <1>4

LEMMA NestedFunctionKeeps ==
  ASSUME NEW s, Types(s), IInv(s), s.open # {}, Len(s.stack) >= 3, program \in Programs,
         Top(s).step = "compile", NEW n, Top(s).n = n, n.op = "function",
         NEW t, t = GenFunction(Popped(s), n)
  PROVE  /\ Types(t) /\ IInv(t) /\ SparedBut(s, t)
         /\ \A g \in s.entries \ Torn(t) : t.blocks[g] = s.blocks[g]
<1> DEFINE p == Popped(s)
           f == n.name
           k == Len(s.stack)
<1>1. /\ s.stack # <<>> /\ s.stack[1].step = "define" /\ s.stack[1].f \in s.open
      /\ s.stack[2].step = "return" /\ s.stack[2].open = {}
  BY BottomIs
<1>2. /\ Types(p) /\ Same(s, p) /\ k \in Nat /\ Len(p.stack) = k - 1
      /\ \A i \in 1 .. k - 1 : p.stack[i] = s.stack[i]
      /\ p.nested = s.nested /\ p.blocks = s.blocks
  BY <1>1, PoppedIs
<1>3. f \in Names /\ n.body \in Nodes /\ (n \in Nodes \/ f \notin s.entries \ Torn(s))
  BY NestedFunctionIs
<1> HIDE DEF p
<1>4. Entered(p, n, t)
  BY <1>2, <1>3, GenFunctionIs DEF p
<1>5. p.entries = s.entries /\ p.open = s.open /\ p.cut = s.cut /\ p.within = s.within
  BY <1>2 DEF Same
<1>6. /\ Types(t) /\ t.fn = f /\ t.at = <<f, Len(Blocks(p, f)) + 1>>
      /\ t.entries = s.entries /\ t.nested = s.nested
      /\ t.open = s.open \cup {f} /\ t.cut = s.cut \cup s.open
      /\ t.within = s.within \cup {f}
      /\ DOMAIN t.blocks = DOMAIN s.blocks \cup {f}
      /\ t.blocks[f] = Append(Blocks(p, f), <<>>)
      /\ \A g \in DOMAIN s.blocks : g # f => t.blocks[g] = s.blocks[g]
  BY <1>2, <1>4, <1>5 DEF Entered
<1>7. /\ Len(t.stack) = k + 1 /\ \A i \in 1 .. k - 1 : t.stack[i] = s.stack[i]
      /\ t.stack[k] = [step |-> "return", open |-> s.open]
      /\ t.stack[k + 1] = Compiling(n.body)
  <2>1. /\ Len(t.stack) = Len(p.stack) + 2
        /\ \A i \in 1 .. Len(p.stack) : t.stack[i] = p.stack[i]
        /\ t.stack[Len(p.stack) + 1] = [step |-> "return", open |-> p.open]
        /\ t.stack[Len(p.stack) + 2] = Compiling(n.body)
    BY <1>4 DEF Entered
  <2>2. Len(p.stack) + 2 = k + 1 /\ Len(p.stack) + 1 = k
    BY <1>2
  <2> QED
    BY <1>2, <1>5, <2>1, <2>2
<1>8. /\ DOMAIN s.stack = 1 .. k /\ DOMAIN t.stack = 1 .. k + 1 /\ k >= 3
      /\ t.stack[1] = s.stack[1] /\ t.stack[2] = s.stack[2] /\ t.stack # <<>>
  <2>1. 1 \in 1 .. k - 1 /\ 2 \in 1 .. k - 1
    BY <1>2
  <2>2. DOMAIN s.stack = 1 .. k /\ DOMAIN t.stack = 1 .. k + 1
    BY <1>6, <1>7, StackBounds
  <2>3. 1 \in DOMAIN t.stack
    BY <1>2, <2>2
  <2> QED
    BY <1>7, <2>1, <2>2, <2>3
<1>9. f \in Torn(t) /\ Torn(s) \subseteq Torn(t) /\ s.open \subseteq Torn(t) /\ ~Live(t)
  BY <1>6 DEF Torn, Live
<1> HIDE DEF k, f
<1>10. \A i \in 1 .. k + 1 : i \in 1 .. k - 1 \/ i = k \/ i = k + 1
  BY <1>2
<1>11. Bottom(t)
  <2>1. Len(t.stack) >= 2
    BY <1>2, <1>7, <1>8
  <2> QED
    BY <1>1, <1>6, <1>8, <2>1 DEF Bottom
<1>12. Middle(t)
  <2>1. ASSUME NEW i \in 3 .. k - 1
        PROVE  MiddleAt(t, i)
    <3>1. i \in 3 .. Len(s.stack) /\ t.stack[i] = s.stack[i] /\ i \in DOMAIN s.stack
      BY <1>2, <1>7, <1>8 DEF k
    <3>2. MiddleAt(s, i)
      BY <3>1, MiddleIs
    <3>3. i > 3 => t.stack[i - 1] = s.stack[i - 1]
      <4>1. i > 3 => i - 1 \in 1 .. k - 1
        BY <1>2
      <4> QED
        BY <1>7, <4>1
    <3>4. s.stack[i].step = "define" => s.stack[i].f \in t.within
      <4>1. SUFFICES ASSUME s.stack[i].step = "define", s.stack[i].f \notin s.within
                     PROVE  s.stack[i].f = f
        BY <1>6
      <4>2. Len(s.stack) = i + 1 /\ s.stack[i + 1] = Compiling(program[s.stack[i].f])
        BY <3>2, <4>1 DEF MiddleAt
      <4>3. n = program[s.stack[i].f]
        BY <4>2 DEF Top, Compiling
      <4>4. s.stack[i].f \in DOMAIN program
        BY <3>1, <4>1, DefinesIsDefined
      <4> QED
        BY <4>3, <4>4, ProgramIs DEF f
    <3> QED
      BY <1>8, <1>9, <3>1, <3>2, <3>3, <3>4 DEF MiddleAt
  <2>2. MiddleAt(t, k)
    BY <1>1, <1>7, <1>8, <1>9 DEF MiddleAt
  <2>3. MiddleAt(t, k + 1)
    BY <1>3, <1>7 DEF MiddleAt, Compiling
  <2>4. \A i \in 3 .. Len(t.stack) : i \in 3 .. k - 1 \/ i = k \/ i = k + 1
    <3>1. \A x \in Nat : \A i \in 3 .. x + 1 : i \in 3 .. x - 1 \/ i = x \/ i = x + 1
      OBVIOUS
    <3> QED
      BY <1>2, <1>7, <3>1
  <2>5. \A i \in 3 .. Len(t.stack) : MiddleAt(t, i)
    BY <2>1, <2>2, <2>3, <2>4
  <2> QED
    BY <1>6, <2>5, MiddleIff
<1>13. Done(s) = s.entries /\ Done(t) = s.entries
  <2>1. t.open # {}
    BY <1>6
  <2> QED
    BY <1>6, <2>1 DEF Done
<1>14. \A i \in DOMAIN t.stack :
         \/ i \in DOMAIN s.stack /\ t.stack[i] = s.stack[i]
         \/ Named(t.stack[i]) = {}
  <2> TAKE i \in DOMAIN t.stack
  <2>1. CASE i \in 1 .. k - 1
    <3>1. i \in 1 .. k
      BY <1>2, <2>1
    <3> QED
      BY <1>7, <1>8, <2>1, <3>1
  <2>2. CASE i = k
    BY <1>7, <2>2, QuietFrame
  <2>3. CASE i = k + 1
    BY <1>7, <2>3, QuietFrame DEF Compiling
  <2> QED
    BY <1>8, <1>10, <2>1, <2>2, <2>3
<1>15. \A q : Exists(s, q) => Exists(t, q)
  <2>1. f \in DOMAIN s.blocks => DOMAIN s.blocks[f] \subseteq DOMAIN t.blocks[f]
    <3>1. Blocks(p, f) \in Seq(Seq(Instructions)) /\ <<>> \in Seq(Instructions)
      BY <1>2, BlocksIs
    <3>2. DOMAIN Blocks(p, f) \subseteq DOMAIN Append(Blocks(p, f), <<>>)
      BY <3>1, Appended
    <3> QED
      BY <1>2, <1>6, <3>2 DEF Blocks
  <2> QED
    BY <1>6, <2>1 DEF Exists
<1>16. Exists(t, t.at)
  <2>1. Blocks(p, f) \in Seq(Seq(Instructions)) /\ <<>> \in Seq(Instructions)
    BY <1>2, BlocksIs
  <2>2. Len(Blocks(p, f)) + 1 \in DOMAIN Append(Blocks(p, f), <<>>)
    BY <2>1, Appended
  <2> QED
    BY <1>6, <2>2 DEF Exists
<1>17. Standing(t)
  BY <1>14, <1>15, <1>16 DEF IInv, Standing
<1>18. Kept(t)
  <2>1. DOMAIN t.blocks \subseteq Done(t) \cup Torn(t) \cup t.open
    BY <1>6, <1>9, <1>13 DEF IInv, Kept
  <2>2. ASSUME NEW g \in Done(t) \ Torn(t)
        PROVE  /\ g \in DOMAIN t.blocks /\ \A b \in DOMAIN t.blocks[g] : IsEnded(t, g, b)
               /\ g \notin t.nested => PhisMatch(t, g)
    <3>1. g # f /\ g \in Done(s) \ Torn(s)
      BY <1>9, <1>13, <2>2
    <3>2. /\ g \in DOMAIN s.blocks /\ \A b \in DOMAIN s.blocks[g] : IsEnded(s, g, b)
          /\ g \notin s.nested => PhisMatch(s, g)
      BY <3>1 DEF IInv, Kept
    <3>3. t.blocks[g] = s.blocks[g]
      BY <1>6, <3>1, <3>2
    <3> QED
      BY <1>6, <3>2, <3>3, KeptBlocks
  <2> QED
    BY <2>1, <2>2 DEF Kept
<1>19. Loose(t)
  <2>1. Mine(s) \subseteq Torn(t)
    BY <1>9 DEF Mine, Live
  <2>2. \A i \in DOMAIN s.stack : \A q \in Named(s.stack[i]) : q[1] \in Torn(t)
    BY <2>1, MineIsNotDone
  <2>3. \A i \in DOMAIN t.stack : \A q \in Named(t.stack[i]) : q[1] \in Torn(t)
    BY <1>14, <2>2
  <2>4. t.at[1] = f /\ t.open \subseteq Torn(t)
    BY <1>6, <1>9
  <2> QED
    BY <1>6, <1>9, <2>3, <2>4 DEF Loose
<1>20. Alive(t)
  BY <1>9 DEF Alive
<1>21. ASSUME NEW g \in s.entries, g # f, g \notin Torn(s)
       PROVE  t.blocks[g] = s.blocks[g]
  BY <1>6, <1>13, <1>21 DEF IInv, Kept
<1>22. SparedBut(s, t)
  <2> SUFFICES ASSUME NEW g \in s.entries \ Torn(s), g = f
               PROVE  Begins(s, g) /\ t.blocks[g] = Append(s.blocks[g], <<>>)
    BY <1>21 DEF SparedBut
  <2>1. g \in DOMAIN s.blocks
    BY <1>13 DEF IInv, Kept
  <2>2. Blocks(p, f) = s.blocks[f]
    BY <1>2, <2>1 DEF Blocks
  <2>3. Last(s.stack) = Top(s)
    BY <1>1, PoppedIs
  <2>4. Begins(s, g)
    BY <1>1, <1>3, <2>3 DEF Begins, f
  <2> QED
    BY <1>6, <2>2, <2>4
<1>23. \A g \in s.entries \ Torn(t) : t.blocks[g] = s.blocks[g]
  BY <1>9, <1>21
<1> QED
  BY <1>6, <1>11, <1>12, <1>17, <1>18, <1>19, <1>20, <1>22, <1>23 DEF IInv

\* A function is left: the block being filled is ended
Concluded(s, t) ==
  /\ Types(t) /\ t.fn = s.fn /\ t.entries = s.entries /\ t.nested = s.nested /\ t.at = s.at
  /\ t.cut = s.cut /\ t.within = s.within /\ t.open = Top(s).open
  /\ Len(t.stack) = Len(s.stack) - 1
  /\ \A i \in 1 .. Len(s.stack) - 1 : t.stack[i] = s.stack[i]
  /\ Exists(t, s.at) /\ Grown(s, t, Mine(s))
  /\ Live(s) =>
       /\ DOMAIN t.blocks[s.fn] = DOMAIN s.blocks[s.fn]
       /\ \A b \in DOMAIN s.blocks[s.fn] :
            /\ Phis(t.blocks[s.fn][b]) = Phis(s.blocks[s.fn][b])
            /\ IF <<s.fn, b>> = s.at THEN Ends(t.blocks[s.fn][b], {})
               ELSE t.blocks[s.fn][b] = s.blocks[s.fn][b]

LEMMA EndFunctionIs ==
  ASSUME NEW s, Types(s), IInv(s), s.open # {}, s.stack # <<>>, Top(s).step = "return"
  PROVE  Concluded(s, EndFunction(Popped(s), Top(s)))
<1> DEFINE p == Popped(s)
           dest == Argument(p.fn, 1)
           src == p.val
           h == GenInstanceAssign(p, dest, src)
           ret == Instruction("ret", <<>>, <<>>)
           e == Emit(h, ret)
           open == Top(s).open
           t == [e EXCEPT !.open = open]
<1>1. /\ Types(p) /\ Same(s, p) /\ Len(p.stack) = Len(s.stack) - 1
      /\ \A i \in 1 .. Len(s.stack) - 1 : p.stack[i] = s.stack[i]
      /\ p.at = s.at /\ p.nested = s.nested /\ p.blocks = s.blocks /\ Top(s) \in Frames
  BY PoppedIs
<1>2. EndFunction(Popped(s), Top(s)) = t
  BY DEF EndFunction, GenReturn
<1> HIDE DEF p
<1>3. open \subseteq Names
  BY <1>1 DEF Frames, CompileFrames, ReturnFrames, DefineFrames,
     ArgumentFrames, CalleeFrames, CallFrames, ConditionFrames, LoopFrames,
     AgainFrames, SlotFrames, StoreFrames
<1> HIDE DEF open
<1>4. s.at[1] \in Mine(s) /\ Exists(s, s.at)
  BY MineIsNotDone
<1>5. Exists(p, p.at)
  BY <1>1, <1>4 DEF Exists
<1>6. dest \in Values /\ src \in Values
  BY <1>1, Constants DEF Types
<1> HIDE DEF dest, src
<1>7. Types(h) /\ Extended(p, h)
  BY <1>1, <1>5, <1>6, GenInstanceAssignIs
<1> HIDE DEF h
<1>8. Begun(s, h, 0)
  BY <1>1, <1>7, BegunExtended
<1>9. ret \in Instructions /\ ret.op \in {"br", "ret"} /\ Leads(ret) = {}
  <2>1. <<>> \in Seq(Values) /\ <<>> \in Seq(Places)
    OBVIOUS
  <2>2. "ret" \in {"alloca", "load", "store", "call", "phi", "br", "ret"}
    OBVIOUS
  <2> DEFINE args == <<>>
             places == <<>>
  <2>3. ret = Instruction("ret", args, places) /\ args \in Seq(Values) /\ places \in Seq(Places)
    BY <2>1
  <2> HIDE DEF args, places, ret
  <2>4. ret \in Instructions /\ ret.op = "ret"
    BY <2>2, <2>3, InstructionIs
  <2> QED
    BY <2>4 DEF Leads
<1> HIDE DEF ret
<1>10. /\ Gone(s, e, 0, {}) /\ e.stack = h.stack /\ e.at = h.at /\ e.nested = h.nested
  BY <1>8, <1>9, Left
<1>11. Exists(e, s.at)
  BY <1>4, <1>10, GrownExists DEF Gone
<1> HIDE DEF e
<1>12. /\ DOMAIN t = DOMAIN Fresh
       /\ t.stack = e.stack /\ t.scopes = e.scopes /\ t.fn = e.fn /\ t.at = e.at
       /\ t.val = e.val /\ t.inst = e.inst /\ t.entries = e.entries /\ t.blocks = e.blocks
       /\ t.open = open /\ t.cut = e.cut /\ t.within = e.within /\ t.nested = e.nested
  BY <1>10 DEF Types, Fresh, Gone
<1> HIDE DEF t
<1>13. Types(t)
  BY <1>3, <1>10, <1>12 DEF Types, Gone
<1>14. e.stack = p.stack /\ e.at = s.at /\ e.nested = s.nested
  BY <1>1, <1>7, <1>10 DEF Extended
<1>15. ASSUME Live(s)
       PROVE  /\ DOMAIN t.blocks[s.fn] = DOMAIN s.blocks[s.fn]
              /\ \A b \in DOMAIN s.blocks[s.fn] :
                   /\ Phis(t.blocks[s.fn][b]) = Phis(s.blocks[s.fn][b])
                   /\ IF <<s.fn, b>> = s.at THEN Ends(t.blocks[s.fn][b], {})
                      ELSE t.blocks[s.fn][b] = s.blocks[s.fn][b]
  <2>1. /\ s.fn \in DOMAIN s.blocks /\ Len(s.blocks[s.fn]) \in Nat
        /\ DOMAIN s.blocks[s.fn] = 1 .. Len(s.blocks[s.fn])
    BY <1>15, LiveIs
  <2>2. Len(t.blocks[s.fn]) = Len(s.blocks[s.fn]) + 0 /\ s.fn \in DOMAIN t.blocks
    BY <1>10, <1>12, <1>15, <2>1 DEF Gone, Grown
  <2>3. t.blocks[s.fn] \in Seq(Seq(Instructions))
    BY <1>13, <2>2 DEF Types
  <2>4. DOMAIN t.blocks[s.fn] = DOMAIN s.blocks[s.fn]
    <3>1. Len(s.blocks[s.fn]) + 0 = Len(s.blocks[s.fn])
      BY <2>1
    <3> QED
      BY <2>1, <2>2, <2>3, <3>1, LenProperties
  <2> QED
    BY <1>10, <1>12, <1>15, <2>4 DEF Gone
<1>16. Grown(s, t, Mine(s)) /\ Exists(t, s.at)
  BY <1>10, <1>11, <1>12 DEF Gone, Grown, Exists
<1> QED
  BY <1>1, <1>2, <1>10, <1>12, <1>13, <1>14, <1>15, <1>16 DEF Concluded, Gone, Same, open

\* The function that was required has been left
LEMMA LastReturnKeeps ==
  ASSUME NEW s, Types(s), IInv(s), s.open # {}, Len(s.stack) = 2, Top(s).step = "return",
         NEW t, Concluded(s, t)
  PROVE  Types(t) /\ IInv(t) /\ Spared(s, t)
<1> DEFINE f == s.stack[1].f
<1>1. s.stack # <<>>
  <2>1. Len(<<>>) # 2
    OBVIOUS
  <2>2. Len(s.stack) = 2
    OBVIOUS
  <2> QED
    BY <2>1, <2>2, Zenon
<1>2. s.stack[1].step = "define" /\ f \in s.open /\ Top(s).open = {}
  <2>1. Top(s) = s.stack[2] /\ Len(s.stack) # 1
    BY DEF Top
  <2>2. Top(s) # Compiling(program[f])
    BY DEF Compiling
  <2> QED
    BY <1>1, <2>1, <2>2 DEF IInv, Bottom
<1>3. /\ Len(t.stack) = 1 /\ t.stack[1] = s.stack[1] /\ t.stack # <<>>
      /\ DOMAIN t.stack = {1} /\ DOMAIN s.stack = 1 .. 2 /\ Top(s) = s.stack[2]
  <2>1. Types(t) /\ Len(t.stack) = 2 - 1 /\ \A i \in 1 .. 2 - 1 : t.stack[i] = s.stack[i]
    BY DEF Concluded
  <2>2. 2 - 1 = 1 /\ 1 \in 1 .. 1 /\ 1 .. 1 = {1}
    OBVIOUS
  <2>3. DOMAIN t.stack = {1}
    BY <2>1, <2>2, StackBounds
  <2>4. t.stack # <<>>
    BY <2>3
  <2> QED
    BY <2>1, <2>2, <2>3, <2>4, StackBounds DEF Top
<1>4. \A i \in DOMAIN s.stack : Named(s.stack[i]) = {} /\ Pending(s.stack[i]) = {}
  <2>1. \A i \in 1 .. 2 : i = 1 \/ i = 2
    OBVIOUS
  <2> QED
    BY <1>2, <1>3, <2>1, QuietFrame
<1>5. \A i \in DOMAIN t.stack : Named(t.stack[i]) = {}
  BY <1>2, <1>3, QuietFrame
<1>6. Torn(t) = Torn(s) /\ t.open = {}
  BY <1>2 DEF Concluded, Torn
<1>7. Done(s) = s.entries /\ Done(t) = s.entries \cup {f}
  BY <1>3, <1>6 DEF Done, Concluded
<1>8. Mine(s) \cap (s.entries \ Torn(s)) = {} /\ s.open \subseteq {f} \cup Torn(s)
  <2>1. Mine(s) \cap (s.entries \ Torn(s)) = {}
    BY MineIsNotDone
  <2>2. CASE Live(s)
    BY <1>2, <2>1, <2>2 DEF Live, IInv, Alive
  <2>3. CASE ~Live(s)
    BY <2>1, <2>3 DEF IInv, Loose
  <2> QED
    BY <2>1, <2>2, <2>3
<1>9. ASSUME f \notin Torn(s)
      PROVE  Live(s) /\ s.fn = f /\ Blocked(s)
             /\ (f \notin s.nested => PhisMatch(s, f))
  BY <1>2, <1>9 DEF IInv, Alive, Loose
<1> HIDE DEF f
<1>10. Bottom(t)
  BY <1>2, <1>3, <1>6 DEF Bottom
<1>11. Middle(t)
  <2>1. 3 .. 1 = {}
    OBVIOUS
  <2> QED
    BY <1>3, <2>1 DEF Middle
<1>12. Standing(t)
  BY <1>5 DEF Standing, Concluded
<1>13. ASSUME f \notin Torn(s)
       PROVE  /\ f \in DOMAIN t.blocks /\ \A b \in DOMAIN t.blocks[f] : IsEnded(t, f, b)
              /\ f \notin t.nested => PhisMatch(t, f)
  <2>1. Live(s) /\ s.fn = f /\ Blocked(s) /\ (f \notin s.nested => PhisMatch(s, f))
    BY <1>9, <1>13
  <2>2. /\ s.at[1] = f /\ f \in DOMAIN s.blocks /\ s.at = <<f, s.at[2]>>
        /\ s.at[2] \in DOMAIN s.blocks[f] /\ IsOpen(s.blocks[f][s.at[2]])
    BY <2>1, LiveIs
  <2>3. /\ f \in DOMAIN t.blocks /\ DOMAIN t.blocks[f] = DOMAIN s.blocks[f]
        /\ \A b \in DOMAIN s.blocks[f] :
             /\ Phis(t.blocks[f][b]) = Phis(s.blocks[f][b])
             /\ IF <<f, b>> = s.at THEN Ends(t.blocks[f][b], {})
                ELSE t.blocks[f][b] = s.blocks[f][b]
    BY <2>1, <2>2 DEF Concluded, Grown
  <2>4. ASSUME NEW b \in DOMAIN s.blocks[f]
        PROVE  /\ IsEnded(t, f, b)
               /\ TargetsOf(t.blocks[f][b]) = TargetsOf(s.blocks[f][b])
    <3>1. CASE <<f, b>> = s.at
      <4>1. b = s.at[2]
        BY <3>1
      <4>2. TargetsOf(s.blocks[f][b]) = {}
        BY <2>2, <4>1, OpenTargets
      <4>3. Ends(t.blocks[f][b], {})
        BY <2>3, <3>1
      <4> QED
        BY <4>2, <4>3 DEF Ends, IsEnded
    <3>2. CASE <<f, b>> # s.at
      <4>1. ~Awaited(s, <<f, b>>)
        BY <1>4 DEF Awaited
      <4>2. IsEnded(s, f, b)
        BY <2>1, <3>2, <4>1 DEF Blocked
      <4>3. t.blocks[f][b] = s.blocks[f][b]
        BY <2>3, <3>2
      <4> QED
        BY <2>3, <4>2, <4>3 DEF IsEnded
    <3> QED
      BY <3>1, <3>2
  <2>5. f \notin t.nested => PhisMatch(t, f)
    <3>1. \A q : Preds(t, f, q) = Preds(s, f, q)
      <4>1. \A q : { j \in DOMAIN t.blocks[f] : q \in TargetsOf(t.blocks[f][j]) }
                 = { j \in DOMAIN s.blocks[f] : q \in TargetsOf(s.blocks[f][j]) }
        BY <2>3, <2>4
      <4> QED
        BY <4>1 DEF Preds
    <3>2. t.nested = s.nested
      BY DEF Concluded
    <3> QED
      BY <2>1, <2>3, <3>1, <3>2 DEF PhisMatch
  <2> QED
    BY <2>3, <2>4, <2>5
<1>14. Kept(t)
  <2>1. DOMAIN t.blocks \subseteq Done(t) \cup Torn(t) \cup t.open
    <3>1. DOMAIN s.blocks \subseteq s.entries \cup Torn(s) \cup s.open
      BY <1>7 DEF IInv, Kept
    <3>2. Mine(s) \subseteq Torn(s) \cup s.open
      BY DEF Mine, Live
    <3>3. DOMAIN t.blocks \subseteq DOMAIN s.blocks \cup Mine(s)
      BY DEF Concluded, Grown
    <3> QED
      BY <1>6, <1>7, <1>8, <3>1, <3>2, <3>3
  <2>2. ASSUME NEW g \in Done(t) \ Torn(t)
        PROVE  /\ g \in DOMAIN t.blocks /\ \A b \in DOMAIN t.blocks[g] : IsEnded(t, g, b)
               /\ g \notin t.nested => PhisMatch(t, g)
    <3>1. CASE g = f
      BY <1>6, <1>13, <2>2, <3>1
    <3>2. CASE g # f
      <4>1. g \in s.entries \ Torn(s) /\ g \notin Mine(s)
        BY <1>6, <1>7, <1>8, <2>2, <3>2
      <4>2. /\ g \in DOMAIN s.blocks /\ \A b \in DOMAIN s.blocks[g] : IsEnded(s, g, b)
            /\ g \notin s.nested => PhisMatch(s, g)
        BY <1>7, <4>1 DEF IInv, Kept
      <4>3. t.blocks[g] = s.blocks[g] /\ g \in DOMAIN t.blocks /\ t.nested = s.nested
        BY <4>1, <4>2 DEF Concluded, Grown
      <4> QED
        BY <4>2, <4>3, KeptBlocks
    <3> QED
      BY <3>1, <3>2
  <2> QED
    BY <2>1, <2>2 DEF Kept
<1>15. Loose(t) /\ Alive(t)
  BY <1>6 DEF Loose, Alive, Live
<1>16. Spared(s, t)
  <2>1. \A g \in s.entries \ Torn(s) : g \in DOMAIN s.blocks /\ g \notin Mine(s)
    BY <1>7, <1>8 DEF IInv, Kept
  <2> QED
    BY <2>1 DEF Spared, Concluded, Grown
<1>17. Types(t)
  BY DEF Concluded
<1> QED
  BY <1>10, <1>11, <1>12, <1>14, <1>15, <1>16, <1>17 DEF IInv

\* A function that was begun in the middle of another
LEMMA NestedReturnKeeps ==
  ASSUME NEW s, Types(s), IInv(s), s.open # {}, Len(s.stack) >= 3, Top(s).step = "return",
         program \in Programs, NEW t, Concluded(s, t)
  PROVE  Types(t) /\ IInv(t) /\ Spared(s, t)
<1> DEFINE k == Len(s.stack)
<1>1. /\ s.stack # <<>> /\ s.stack[1].step = "define" /\ s.stack[1].f \in s.open
      /\ s.stack[2].step = "return" /\ s.stack[2].open = {}
  BY BottomIs
<1>2. /\ Types(t) /\ t.fn = s.fn /\ t.at = s.at /\ t.entries = s.entries
      /\ t.cut = s.cut /\ t.within = s.within /\ t.nested = s.nested /\ t.open = Top(s).open
      /\ Len(t.stack) = k - 1 /\ \A i \in 1 .. k - 1 : t.stack[i] = s.stack[i]
      /\ Exists(t, s.at) /\ Grown(s, t, Mine(s))
  BY DEF Concluded
<1>3. /\ k \in Nat /\ DOMAIN s.stack = 1 .. k /\ DOMAIN t.stack = 1 .. k - 1
      /\ 1 .. k - 1 \subseteq 1 .. k /\ k \in 3 .. k /\ 1 \in 1 .. k - 1 /\ 2 \in 1 .. k - 1
      /\ k - 1 >= 2
  BY <1>2, StackBounds
<1>4. MiddleAt(s, k)
  BY <1>3, MiddleIs
<1>5. ~Live(s) /\ s.stack[1].f \in Top(s).open /\ Top(s).open \subseteq Torn(s)
  BY <1>4 DEF MiddleAt, Top
<1>6. Torn(t) = Torn(s) /\ Mine(s) = Torn(s)
  BY <1>2, <1>5 DEF Torn, Mine
<1>7. /\ s.open \subseteq Torn(s) /\ s.fn \in Torn(s) /\ s.at[1] \in Torn(s)
      /\ \A i \in DOMAIN s.stack : \A q \in Named(s.stack[i]) : q[1] \in Torn(s)
  BY <1>5 DEF IInv, Loose
<1>8. t.open # {} /\ ~Live(t)
  BY <1>2, <1>5, <1>6, <1>7 DEF Live
<1>9. Done(s) = s.entries /\ Done(t) = s.entries
  BY <1>2, <1>8 DEF Done
<1> HIDE DEF k
<1>10. Bottom(t)
  <2>1. t.stack # <<>>
    BY <1>3
  <2> QED
    BY <1>1, <1>2, <1>3, <1>5, <2>1 DEF Bottom
<1>11. Middle(t)
  <2>1. ASSUME NEW i \in 3 .. k - 1
        PROVE  MiddleAt(t, i)
    <3>1. /\ i \in 3 .. Len(s.stack) /\ i \in 1 .. k - 1
          /\ i > 3 => i - 1 \in 1 .. k - 1
      BY <1>3 DEF k
    <3>2. MiddleAt(s, i)
      BY <3>1, MiddleIs
    <3>3. /\ t.stack[i] = s.stack[i] /\ t.stack[1] = s.stack[1]
          /\ i > 3 => t.stack[i - 1] = s.stack[i - 1]
      BY <1>2, <1>3, <3>1
    <3>4. ~ (Len(s.stack) = i + 1 /\ s.stack[i + 1] = Compiling(program[s.stack[i].f]))
      BY DEF Compiling, Top
    <3> QED
      BY <1>2, <1>6, <1>8, <3>2, <3>3, <3>4 DEF MiddleAt
  <2>2. \A i \in 3 .. Len(t.stack) : MiddleAt(t, i)
    BY <1>2, <2>1
  <2> QED
    BY <1>2, <2>2, MiddleIff
<1>12. \A i \in DOMAIN t.stack : i \in DOMAIN s.stack /\ t.stack[i] = s.stack[i]
  BY <1>2, <1>3
<1>13. Standing(t)
  <2>1. \A i \in DOMAIN s.stack : \A q \in Named(s.stack[i]) : Exists(t, q)
    BY <1>2, MineIsNotDone, GrownExists
  <2> QED
    BY <1>2, <1>12, <2>1 DEF Standing
<1>14. \A g \in s.entries \ Torn(s) :
         /\ g \in DOMAIN s.blocks /\ t.blocks[g] = s.blocks[g] /\ g \in DOMAIN t.blocks
  BY <1>2, <1>6, <1>9 DEF Grown, IInv, Kept
<1>15. Kept(t)
  <2>1. DOMAIN t.blocks \subseteq Done(t) \cup Torn(t) \cup t.open
    <3>1. DOMAIN s.blocks \subseteq s.entries \cup Torn(s) \cup s.open
      BY <1>9 DEF IInv, Kept
    <3> QED
      BY <1>2, <1>6, <1>7, <1>9, <3>1 DEF Grown
  <2>2. ASSUME NEW g \in Done(t) \ Torn(t)
        PROVE  /\ g \in DOMAIN t.blocks /\ \A b \in DOMAIN t.blocks[g] : IsEnded(t, g, b)
               /\ g \notin t.nested => PhisMatch(t, g)
    <3>1. g \in s.entries \ Torn(s)
      BY <1>6, <1>9, <2>2
    <3>2. /\ \A b \in DOMAIN s.blocks[g] : IsEnded(s, g, b)
          /\ g \notin s.nested => PhisMatch(s, g)
      BY <1>9, <3>1 DEF IInv, Kept
    <3> QED
      BY <1>2, <1>14, <3>1, <3>2, KeptBlocks
  <2> QED
    BY <2>1, <2>2 DEF Kept
<1>16. Loose(t)
  BY <1>2, <1>5, <1>6, <1>7, <1>12 DEF Loose
<1>17. Alive(t)
  BY <1>8 DEF Alive
<1>18. Spared(s, t)
  BY <1>14 DEF Spared
<1> QED
  BY <1>2, <1>10, <1>11, <1>13, <1>15, <1>16, <1>17, <1>18 DEF IInv

LEMMA EndFunctionKeeps ==
  ASSUME NEW s, Types(s), IInv(s), s.open # {}, Len(s.stack) >= 2, Top(s).step = "return",
         program \in Programs, NEW t, t = EndFunction(Popped(s), Top(s))
  PROVE  Types(t) /\ IInv(t) /\ Spared(s, t)
<1>1. Len(s.stack) \in Nat
  BY StackBounds
<1>2. s.stack # <<>>
  <2>1. Len(<<>>) = 0 /\ ~ (0 >= 2)
    OBVIOUS
  <2> QED
    BY <1>1, <2>1
<1>3. Concluded(s, t)
  BY <1>2, EndFunctionIs
<1>4. Len(s.stack) = 2 \/ Len(s.stack) >= 3
  <2>1. \A x \in Nat : x >= 2 => x = 2 \/ x >= 3
    OBVIOUS
  <2> QED
    BY <1>1, <2>1
<1> QED
  BY <1>3, <1>4, LastReturnKeeps, NestedReturnKeeps

-----------------------------------------------------------------------------
\* Entries

\* A step that changes none of the blocks, and no function's state
LEMMA EntriesIs ==
  ASSUME NEW s, Types(s), NEW f \in DOMAIN program, NEW t,
         t = [s EXCEPT !.entries = @ \cup {f}]
  PROVE  /\ Types(t) /\ t.stack = s.stack /\ t.fn = s.fn /\ t.at = s.at
         /\ t.entries = s.entries \cup {f} /\ t.blocks = s.blocks /\ t.nested = s.nested
         /\ t.open = s.open /\ t.cut = s.cut /\ t.within = s.within
<1>1. /\ DOMAIN t = DOMAIN Fresh
      /\ t.stack = s.stack /\ t.scopes = s.scopes /\ t.fn = s.fn /\ t.at = s.at
      /\ t.val = s.val /\ t.inst = s.inst /\ t.blocks = s.blocks
      /\ t.entries = s.entries \cup {f}
      /\ t.open = s.open /\ t.cut = s.cut /\ t.within = s.within /\ t.nested = s.nested
  BY DEF Types, Fresh
<1>2. Types(t)
  BY <1>1 DEF Types
<1> QED
  BY <1>1, <1>2

LEMMA DefineEntryIs ==
  ASSUME NEW s, Types(s), s.stack # <<>>, Top(s).step = "define",
         NEW t, t = DefineEntry(Popped(s), Top(s))
  PROVE  /\ Types(t) /\ t.fn = s.fn /\ t.at = s.at /\ t.blocks = s.blocks
         /\ t.entries = s.entries \cup {Top(s).f} /\ t.nested = s.nested
         /\ t.open = s.open /\ t.cut = s.cut /\ t.within = s.within
         /\ Len(t.stack) = Len(s.stack) - 1
         /\ \A i \in 1 .. Len(s.stack) - 1 : t.stack[i] = s.stack[i]
<1> DEFINE p == Popped(s)
           f == Top(s).f
<1>1. /\ Types(p) /\ Same(s, p) /\ Len(p.stack) = Len(s.stack) - 1
      /\ \A i \in 1 .. Len(s.stack) - 1 : p.stack[i] = s.stack[i]
      /\ p.at = s.at /\ p.nested = s.nested /\ p.blocks = s.blocks /\ Top(s) \in Frames
  BY PoppedIs
<1>2. f \in DOMAIN program
  BY <1>1 DEF Frames, CompileFrames, ReturnFrames, DefineFrames,
     ArgumentFrames, CalleeFrames, CallFrames, ConditionFrames, LoopFrames,
     AgainFrames, SlotFrames, StoreFrames
<1>3. t = [p EXCEPT !.entries = @ \cup {f}]
  BY DEF DefineEntry
<1> HIDE DEF p, f
<1>4. /\ Types(t) /\ t.stack = p.stack /\ t.fn = p.fn /\ t.at = p.at
      /\ t.entries = p.entries \cup {f} /\ t.blocks = p.blocks /\ t.nested = p.nested
      /\ t.open = p.open /\ t.cut = p.cut /\ t.within = p.within
  BY <1>1, <1>2, <1>3, EntriesIs
<1> QED
  BY <1>1, <1>4 DEF Same, f

\* The invariant of a state that differs in its entries and its stack only
LEMMA DefineKeeps ==
  ASSUME NEW s, Types(s), IInv(s), NEW t,
         t.fn = s.fn, t.at = s.at, t.blocks = s.blocks, t.nested = s.nested,
         t.open = s.open, t.cut = s.cut, t.within = s.within,
         Done(t) \subseteq Done(s) \cup Torn(s), Done(s) \subseteq Done(t) \cup Torn(s),
         \A i \in DOMAIN t.stack : \/ i \in DOMAIN s.stack /\ t.stack[i] = s.stack[i]
                                   \/ Named(t.stack[i]) = {},
         t.open \cup Done(t) # {} => s.open \cup Done(s) # {}, ~Live(s)
  PROVE  Standing(t) /\ Kept(t) /\ Loose(t) /\ Alive(t)
<1>1. Torn(t) = Torn(s) /\ ~Live(t)
  BY DEF Torn, Live
<1>2. \A p : Exists(s, p) <=> Exists(t, p)
  BY DEF Exists
<1>3. Standing(t)
  BY <1>2 DEF IInv, Standing
<1>4. Kept(t)
  <2>1. DOMAIN t.blocks \subseteq Done(t) \cup Torn(t) \cup t.open
    BY <1>1 DEF IInv, Kept
  <2>2. ASSUME NEW g \in Done(t) \ Torn(t)
        PROVE  /\ g \in DOMAIN t.blocks /\ \A b \in DOMAIN t.blocks[g] : IsEnded(t, g, b)
               /\ g \notin t.nested => PhisMatch(t, g)
    <3>1. g \in Done(s) \ Torn(s)
      BY <1>1, <2>2
    <3>2. /\ g \in DOMAIN s.blocks /\ \A b \in DOMAIN s.blocks[g] : IsEnded(s, g, b)
          /\ g \notin s.nested => PhisMatch(s, g)
      BY <3>1 DEF IInv, Kept
    <3> QED
      BY <3>2, KeptBlocks
  <2> QED
    BY <2>1, <2>2 DEF Kept
<1>5. Loose(t)
  BY <1>1 DEF IInv, Loose
<1>6. Alive(t)
  BY <1>1 DEF Alive
<1> QED
  BY <1>3, <1>4, <1>5, <1>6

LEMMA LastDefineKeeps ==
  ASSUME NEW s, Types(s), IInv(s), Len(s.stack) = 1, s.open = {}, Top(s).step = "define",
         NEW t, t = DefineEntry(Popped(s), Top(s))
  PROVE  Types(t) /\ IInv(t) /\ Spared(s, t)
<1>1. s.stack # <<>> /\ Top(s) = s.stack[1]
  <2>1. Len(<<>>) # 1
    OBVIOUS
  <2>2. Len(s.stack) = 1
    OBVIOUS
  <2>3. s.stack # <<>>
    BY <2>1, <2>2, Zenon
  <2> QED
    BY <2>3 DEF Top
<1>2. /\ Types(t) /\ t.fn = s.fn /\ t.at = s.at /\ t.blocks = s.blocks
      /\ t.entries = s.entries \cup {Top(s).f} /\ t.nested = s.nested
      /\ t.open = s.open /\ t.cut = s.cut /\ t.within = s.within
      /\ Len(t.stack) = Len(s.stack) - 1
  BY <1>1, DefineEntryIs
<1>3. Len(t.stack) = 0 /\ t.stack = <<>> /\ DOMAIN t.stack = {}
  <2>1. 1 - 1 = 0 /\ 1 .. 0 = {}
    OBVIOUS
  <2>2. Len(t.stack) = 0
    BY <1>2, <2>1
  <2>3. t.stack \in Seq(Frames)
    BY <1>2 DEF Types
  <2> QED
    BY <1>2, <2>1, <2>2, <2>3, EmptySeq, StackBounds
<1>4. Done(s) = s.entries \cup {Top(s).f} /\ Done(t) = Done(s)
  BY <1>1, <1>2, <1>3 DEF Done
<1>5. Bottom(t) /\ Middle(t)
  <2>1. 3 .. 0 = {}
    OBVIOUS
  <2> QED
    BY <1>2, <1>3, <2>1 DEF Bottom, Middle
<1>6. ~Live(s)
  BY DEF Live
<1>7. Standing(t) /\ Kept(t) /\ Loose(t) /\ Alive(t)
  BY <1>2, <1>3, <1>4, <1>6, DefineKeeps
<1> QED
  BY <1>2, <1>5, <1>7 DEF IInv, Spared

LEMMA NestedDefineKeeps ==
  ASSUME NEW s, Types(s), IInv(s), Len(s.stack) >= 3, Top(s).step = "define",
         program \in Programs, NEW t, t = DefineEntry(Popped(s), Top(s))
  PROVE  Types(t) /\ IInv(t) /\ Spared(s, t)
<1> DEFINE k == Len(s.stack)
           f == Top(s).f
<1>1. /\ s.stack # <<>> /\ s.stack[1].step = "define" /\ s.stack[1].f \in s.open
      /\ s.stack[2].step = "return" /\ s.stack[2].open = {}
  BY BottomIs
<1>2. /\ Types(t) /\ t.fn = s.fn /\ t.at = s.at /\ t.blocks = s.blocks
      /\ t.entries = s.entries \cup {f} /\ t.nested = s.nested
      /\ t.open = s.open /\ t.cut = s.cut /\ t.within = s.within
      /\ Len(t.stack) = k - 1 /\ \A i \in 1 .. k - 1 : t.stack[i] = s.stack[i]
  BY <1>1, DefineEntryIs
<1>3. /\ k \in Nat /\ DOMAIN s.stack = 1 .. k /\ DOMAIN t.stack = 1 .. k - 1
      /\ 1 .. k - 1 \subseteq 1 .. k /\ k \in 3 .. k /\ 1 \in 1 .. k - 1 /\ 2 \in 1 .. k - 1
      /\ k - 1 >= 2
  BY <1>2, StackBounds
<1>4. MiddleAt(s, k)
  BY <1>3, MiddleIs
<1>5. f \in s.within /\ ~Live(s)
  <2>1. ~ (Len(s.stack) = k + 1)
    BY <1>3
  <2> QED
    BY <1>4, <2>1 DEF MiddleAt, Top
<1>6. Torn(t) = Torn(s) /\ f \in Torn(s) /\ ~Live(t)
  BY <1>2, <1>5 DEF Torn, Live
<1>7. Done(s) = s.entries /\ Done(t) = s.entries \cup {f} /\ s.open # {}
  BY <1>1, <1>2 DEF Done
<1> HIDE DEF k, f
<1>8. Bottom(t)
  <2>1. t.stack # <<>>
    BY <1>3
  <2> QED
    BY <1>1, <1>2, <1>3, <2>1 DEF Bottom
<1>9. Middle(t)
  <2>1. ASSUME NEW i \in 3 .. k - 1
        PROVE  MiddleAt(t, i)
    <3>1. /\ i \in 3 .. Len(s.stack) /\ i \in 1 .. k - 1
          /\ i > 3 => i - 1 \in 1 .. k - 1
      BY <1>3 DEF k
    <3>2. MiddleAt(s, i)
      BY <3>1, MiddleIs
    <3>3. /\ t.stack[i] = s.stack[i] /\ t.stack[1] = s.stack[1]
          /\ i > 3 => t.stack[i - 1] = s.stack[i - 1]
      BY <1>2, <1>3, <3>1
    <3>4. ~ (Len(s.stack) = i + 1 /\ s.stack[i + 1] = Compiling(program[s.stack[i].f]))
      BY DEF Compiling, Top
    <3> QED
      BY <1>2, <1>6, <3>2, <3>3, <3>4 DEF MiddleAt
  <2>2. \A i \in 3 .. Len(t.stack) : MiddleAt(t, i)
    BY <1>2, <2>1
  <2> QED
    BY <1>2, <2>2, MiddleIff
<1>10. \A i \in DOMAIN t.stack : i \in DOMAIN s.stack /\ t.stack[i] = s.stack[i]
  BY <1>2, <1>3
<1>11. Standing(t) /\ Kept(t) /\ Loose(t) /\ Alive(t)
  BY <1>2, <1>5, <1>6, <1>7, <1>10, DefineKeeps
<1> QED
  BY <1>2, <1>8, <1>9, <1>11 DEF IInv, Spared

LEMMA RequireIs ==
  ASSUME NEW s, Types(s), NEW f \in DOMAIN program, f \notin s.entries
  PROVE  /\ Types(Require(s, f)) /\ OnTop(s, Require(s, f))
         /\ Len(Require(s, f).stack) = Len(s.stack) + 2
         /\ Require(s, f).stack[Len(s.stack) + 1] = [step |-> "define", f |-> f]
         /\ Require(s, f).stack[Len(s.stack) + 2] = Compiling(program[f])
<1> DEFINE frame == [step |-> "define", f |-> f]
<1>1. frame \in Frames
  BY FramesIn DEF DefineFrames
<1>2. Compiling(program[f]) \in Frames
  BY FramesIn DEF Compiling, CompileFrames
<1>3. Require(s, f) = CallThen(s, program[f], frame)
  BY DEF Require
<1> HIDE DEF frame
<1> QED
  BY <1>1, <1>2, <1>3, CallThenIs DEF frame

LEMMA RequireKeeps ==
  ASSUME NEW s, Types(s), IInv(s), s.stack = <<>>, program \in Programs,
         NEW f \in DOMAIN program, f \notin s.entries, NEW t, t = Require(s, f)
  PROVE  Types(t) /\ IInv(t) /\ Spared(s, t)
<1> DEFINE frame == [step |-> "define", f |-> f]
           n == program[f]
<1>1. s.open = {} /\ Len(s.stack) = 0
  BY DEF IInv, Bottom
<1>2. frame.step = "define" /\ frame.f = f
  OBVIOUS
<1>3. Compiling(n).step = "compile"
  BY DEF Compiling
<1>4. /\ Types(t) /\ OnTop(s, t) /\ Len(t.stack) = Len(s.stack) + 2
      /\ t.stack[Len(s.stack) + 1] = frame /\ t.stack[Len(s.stack) + 2] = Compiling(n)
  BY RequireIs, Zenon
<1> HIDE DEF frame, n
<1>5. /\ Len(t.stack) = 2 /\ t.stack[1] = frame /\ t.stack[2] = Compiling(n)
      /\ DOMAIN t.stack = 1 .. 2 /\ t.stack # <<>>
  <2>1. 0 + 2 = 2 /\ 0 + 1 = 1
    OBVIOUS
  <2>2. Len(t.stack) = 2 /\ t.stack[1] = frame /\ t.stack[2] = Compiling(n)
    BY <1>1, <1>4, <2>1
  <2>3. DOMAIN t.stack = 1 .. 2
    BY <1>4, <2>2, StackBounds
  <2>4. t.stack # <<>>
    BY <2>3
  <2> QED
    BY <2>2, <2>3, <2>4
<1>6. /\ t.fn = s.fn /\ t.at = s.at /\ t.blocks = s.blocks /\ t.nested = s.nested
      /\ t.open = s.open /\ t.cut = s.cut /\ t.within = s.within /\ t.entries = s.entries
  BY <1>4 DEF OnTop, Same
<1>7. Done(s) = s.entries /\ Done(t) = s.entries
  BY <1>1, <1>5, <1>6 DEF Done
<1>8. \A i \in DOMAIN t.stack : Named(t.stack[i]) = {}
  <2>1. \A i \in 1 .. 2 : i = 1 \/ i = 2
    OBVIOUS
  <2> QED
    BY <1>2, <1>3, <1>5, <2>1, QuietFrame
<1>9. Bottom(t)
  BY <1>1, <1>2, <1>5, <1>6 DEF Bottom, n
<1>10. Middle(t)
  <2>1. 3 .. 2 = {}
    OBVIOUS
  <2> QED
    BY <1>5, <2>1 DEF Middle
<1>11. ~Live(s)
  BY <1>1 DEF Live
<1>12. Standing(t) /\ Kept(t) /\ Loose(t) /\ Alive(t)
  BY <1>6, <1>7, <1>8, <1>11, DefineKeeps
<1> QED
  BY <1>4, <1>6, <1>9, <1>10, <1>12 DEF IInv, Spared

-----------------------------------------------------------------------------
\* Every step of the compiler keeps the invariant

LEMMA NodeGoesOn ==
  ASSUME NEW s, Types(s), IInv(s), s.open # {}, Len(s.stack) >= 3, program \in Programs,
         Top(s).step = "compile", Top(s).n.op # "function",
         NEW t, t = Gen(Popped(s), Top(s).n)
  PROVE  Types(t) /\ IInv(t) /\ Onward(s, t)
<1> DEFINE p == Popped(s)
           n == Top(s).n
<1>1. s.stack # <<>> /\ Exists(s, s.at)
  BY BottomIs, MineIsNotDone
<1>2. /\ Types(p) /\ p.at = s.at /\ p.blocks = s.blocks /\ Top(s) \in Frames
  BY <1>1, PoppedIs
<1>3. Exists(p, p.at)
  BY <1>1, <1>2 DEF Exists
<1>4. n \in Nodes
  <2>1. n \in Nodes \cup { program[f] : f \in DOMAIN program }
    BY <1>2 DEF Frames, CompileFrames, ReturnFrames, DefineFrames,
       ArgumentFrames, CalleeFrames, CallFrames, ConditionFrames, LoopFrames,
       AgainFrames, SlotFrames, StoreFrames
  <2> QED
    BY <2>1, ProgramIs
<1>5. t = Gen(p, n)
  OBVIOUS
<1>6. CASE n.op = "if"
  <2>1. t = GenCondition(Popped(s), n) /\ n \in NodesOf({"if"})
    BY <1>4, <1>6 DEF Gen, NodesOf
  <2> HIDE DEF n
  <2>2. Top(s).n = n
    BY DEF n
  <2> QED
    BY <2>1, <2>2, GenConditionKeeps
<1>7. CASE n.op = "while"
  <2>1. t = GenLoop(Popped(s), n) /\ n \in NodesOf({"while"})
    BY <1>4, <1>7 DEF Gen, NodesOf
  <2> HIDE DEF n
  <2>2. Top(s).n = n
    BY DEF n
  <2> QED
    BY <2>1, <2>2, GenLoopKeeps
<1>8. CASE n.op \notin {"function", "if", "while"}
  <2>1. ~InFlow(Top(s)) /\ (Top(s).step = "compile" => Top(s).n.op # "function")
    BY DEF InFlow
  <2> HIDE DEF p, n
  <2>2. Plainer(p, t)
    BY <1>2, <1>3, <1>4, <1>5, <1>8, StraightNodes
  <2> QED
    BY <2>1, <2>2, PlainKeeps DEF p
<1> QED
  BY <1>6, <1>7, <1>8

\* The steps that stacks of fewer than three frames have on top, and the others
LEMMA Steps ==
  ASSUME NEW s, Types(s), IInv(s), s.stack # <<>>
  PROVE  \/ Len(s.stack) = 1 /\ s.open = {} /\ Top(s).step = "define"
         \/ Len(s.stack) = 2 /\ s.open = {} /\ Top(s).step = "compile"
         \/ Len(s.stack) = 2 /\ s.open # {} /\ Top(s).step = "return"
         \/ Len(s.stack) >= 3 /\ s.open # {}
<1>1. Len(s.stack) \in Nat /\ Len(s.stack) # 0
  BY EmptySeq, StackBounds DEF Types
<1>2. Len(s.stack) = 1 \/ Len(s.stack) = 2 \/ Len(s.stack) >= 3
  <2>1. \A x \in Nat : x # 0 => x = 1 \/ x = 2 \/ x >= 3
    OBVIOUS
  <2> QED
    BY <1>1, <2>1
<1>3. \A x \in Nat : x >= 3 => x # 1 /\ x # 2
  OBVIOUS
<1> QED
  BY <1>1, <1>2, <1>3 DEF IInv, Bottom, Top, Compiling

LEMMA StepOfFrame ==
  ASSUME NEW frame \in Frames
  PROVE  \/ frame.step = "compile" \/ frame.step = "return" \/ frame.step = "define"
         \/ frame.step = "argument" /\ frame \in ArgumentFrames
         \/ frame.step = "callee"
         \/ frame.step = "call" /\ frame \in CallFrames
         \/ frame.step = "branch" \/ frame.step = "test"
         \/ frame.step = "loop" \/ frame.step = "again"
         \/ frame.step = "slot" /\ frame \in SlotFrames
         \/ frame.step \in {"assign", "bind"} /\ frame \in StoreFrames
<1>1. CASE frame \in ConditionFrames
  BY <1>1 DEF ConditionFrames
<1>2. CASE frame \in StoreFrames
  <2>1. frame.step \in {"assign", "bind"}
    BY <1>2 DEF StoreFrames
  <2> QED
    BY <1>2, <2>1
<1>3. CASE frame \in ArgumentFrames
  BY <1>3 DEF ArgumentFrames
<1>4. CASE frame \in CallFrames
  BY <1>4 DEF CallFrames
<1>5. CASE frame \in SlotFrames
  BY <1>5 DEF SlotFrames
<1>6. CASE frame \in CompileFrames \cup ReturnFrames \cup DefineFrames \cup CalleeFrames
                       \cup LoopFrames \cup AgainFrames
  BY <1>6 DEF CompileFrames, ReturnFrames, DefineFrames, CalleeFrames, LoopFrames, AgainFrames
<1> QED
  BY <1>1, <1>2, <1>3, <1>4, <1>5, <1>6 DEF Frames

\* The handlers that neither enter nor leave a function
LEMMA GoesOn ==
  ASSUME NEW s, Types(s), IInv(s), s.open # {}, Len(s.stack) >= 3, program \in Programs,
         Top(s).step \notin {"return", "define"},
         Top(s).step = "compile" => Top(s).n.op # "function",
         NEW t, t = Resume(Popped(s), Top(s))
  PROVE  Types(t) /\ IInv(t) /\ Onward(s, t)
<1> DEFINE p == Popped(s)
           frame == Top(s)
<1>1. s.stack # <<>> /\ Exists(s, s.at)
  BY BottomIs, MineIsNotDone
<1>2. /\ Types(p) /\ p.at = s.at /\ p.blocks = s.blocks /\ frame \in Frames
  BY <1>1, PoppedIs
<1>3. Exists(p, p.at)
  BY <1>1, <1>2 DEF Exists
<1>4. t = Resume(p, frame)
  OBVIOUS
<1>5. ASSUME Plainer(p, t), ~InFlow(frame), frame.step # "compile"
      PROVE  Types(t) /\ IInv(t) /\ Onward(s, t)
  BY <1>5, PlainKeeps
<1>6. CASE frame.step = "compile"
  BY <1>6, NodeGoesOn DEF Resume
<1>7. CASE frame.step = "callee"
  <2>1. t = GenCallee(Popped(s), Top(s))
    BY <1>7 DEF Resume
  <2> QED
    BY <1>7, <2>1, GenCalleeKeeps
<1>8. CASE frame.step = "branch"
  <2>1. t = GenArm(Popped(s), Top(s))
    BY <1>8 DEF Resume
  <2> QED
    BY <1>8, <2>1, GenArmKeeps
<1>9. CASE frame.step = "test"
  <2>1. t = GenTest(Popped(s), Top(s))
    BY <1>9 DEF Resume
  <2> QED
    BY <1>9, <2>1, GenTestKeeps
<1>10. CASE frame.step = "loop"
  <2>1. t = GenLoopBody(Popped(s), Top(s))
    BY <1>10 DEF Resume
  <2> QED
    BY <1>10, <2>1, GenLoopBodyKeeps
<1>11. CASE frame.step = "again"
  <2>1. t = GenAgain(Popped(s), Top(s))
    BY <1>11 DEF Resume
  <2> QED
    BY <1>11, <2>1, GenAgainKeeps
<1>12. CASE frame.step \in {"argument", "call", "slot", "assign", "bind"}
  <2>1. ~InFlow(frame) /\ frame.step # "compile"
    BY <1>12 DEF InFlow
  <2> HIDE DEF p
  <2>2. Plainer(p, t)
    <3>1. CASE frame.step = "argument" /\ frame \in ArgumentFrames
      <4>1. t = GenArgument(p, frame)
        BY <1>4, <3>1 DEF Resume
      <4> QED
        BY <1>2, <3>1, <4>1, GenArgumentKeeps
    <3>2. CASE frame.step = "call" /\ frame \in CallFrames
      <4>1. t = GenFunctionCall(p, frame)
        BY <1>4, <3>2 DEF Resume
      <4> QED
        BY <1>2, <1>3, <3>2, <4>1, GenFunctionCallKeeps
    <3>3. CASE frame.step = "slot" /\ frame \in SlotFrames
      <4>1. t = GenSlot(p, frame)
        BY <1>4, <3>3 DEF Resume
      <4> QED
        BY <1>2, <3>3, <4>1, GenSlotKeeps
    <3>4. CASE frame.step \in {"assign", "bind"} /\ frame \in StoreFrames
      <4>1. t = GenStore(p, frame) \/ t = GenBind(p, frame)
        BY <1>4, <3>4 DEF Resume
      <4> QED
        BY <1>2, <1>3, <3>4, <4>1, GenStoreKeeps
    <3> QED
      BY <1>2, <1>12, <3>1, <3>2, <3>3, <3>4, StepOfFrame
  <2> QED
    BY <1>5, <2>1, <2>2
<1> QED
  BY <1>2, <1>6, <1>7, <1>8, <1>9, <1>10, <1>11, <1>12, StepOfFrame

LEMMA ResumeKeeps ==
  ASSUME NEW s, Types(s), IInv(s), s.open # {}, Len(s.stack) >= 3, program \in Programs,
         NEW t, t = Resume(Popped(s), Top(s))
  PROVE  Types(t) /\ IInv(t) /\ SparedBut(s, t)
<1>1. CASE Top(s).step = "compile" /\ Top(s).n.op = "function"
  <2>1. t = GenFunction(Popped(s), Top(s).n)
    BY <1>1 DEF Resume, Gen
  <2> QED
    BY <1>1, <2>1, NestedFunctionKeeps
<1>2. CASE Top(s).step = "return"
  <2>1. t = EndFunction(Popped(s), Top(s))
    BY <1>2 DEF Resume
  <2>2. Len(s.stack) >= 2
    BY StackBounds
  <2> QED
    BY <1>2, <2>1, <2>2, EndFunctionKeeps, SparedWholly
<1>3. CASE Top(s).step = "define"
  <2>1. t = DefineEntry(Popped(s), Top(s))
    BY <1>3 DEF Resume
  <2> QED
    BY <1>3, <2>1, NestedDefineKeeps, SparedWholly
<1>4. CASE /\ Top(s).step \notin {"return", "define"}
           /\ Top(s).step = "compile" => Top(s).n.op # "function"
  BY <1>4, GoesOn, OnwardSpares, SparedWholly
<1> QED
  BY <1>1, <1>2, <1>3, <1>4

LEMMA ContinueKeeps ==
  ASSUME NEW s, Types(s), IInv(s), s.stack # <<>>, program \in Programs,
         NEW t, t = Continue(s)
  PROVE  Types(t) /\ IInv(t) /\ SparedBut(s, t)
<1>1. Last(s.stack) = Top(s)
  BY PoppedIs
<1>2. t = Resume(Popped(s), Top(s))
  BY <1>1 DEF Continue, Popped
<1>3. CASE Len(s.stack) = 1 /\ s.open = {} /\ Top(s).step = "define"
  <2>1. t = DefineEntry(Popped(s), Top(s))
    BY <1>2, <1>3 DEF Resume
  <2> QED
    BY <1>3, <2>1, LastDefineKeeps, SparedWholly
<1>4. CASE Len(s.stack) = 2 /\ s.open = {} /\ Top(s).step = "compile"
  <2>1. t = Gen(Popped(s), Top(s).n)
    BY <1>2, <1>4 DEF Resume
  <2>2. Top(s).n.op = "function"
    <3>1. s.stack[1].step = "define" /\ Top(s) = Compiling(program[s.stack[1].f])
      BY <1>4 DEF IInv, Bottom, Top
    <3>2. 1 \in DOMAIN s.stack
      BY <1>4, StackBounds
    <3>3. s.stack[1].f \in DOMAIN program
      BY <3>1, <3>2, DefinesIsDefined
    <3>4. program[s.stack[1].f].op = "function"
      BY <3>3, ProgramIs
    <3> QED
      BY <3>1, <3>4 DEF Compiling
  <2>3. t = GenFunction(Popped(s), Top(s).n)
    BY <2>1, <2>2 DEF Gen
  <2> QED
    BY <1>4, <2>3, FirstFunctionKeeps, SparedWholly
<1>5. CASE Len(s.stack) = 2 /\ s.open # {} /\ Top(s).step = "return"
  <2>1. t = EndFunction(Popped(s), Top(s))
    BY <1>2, <1>5 DEF Resume
  <2>2. Len(s.stack) >= 2
    BY <1>5
  <2> QED
    BY <1>5, <2>1, <2>2, EndFunctionKeeps, SparedWholly
<1>6. CASE Len(s.stack) >= 3 /\ s.open # {}
  BY <1>2, <1>6, ResumeKeeps
<1> QED
  BY <1>3, <1>4, <1>5, <1>6, Steps

-----------------------------------------------------------------------------
\* The invariant of the specification

CodegenInv == program \in Programs /\ Types(c) /\ IInv(c)

LEMMA InitInv == Init => CodegenInv
<1> SUFFICES ASSUME Init PROVE CodegenInv
  OBVIOUS
<1>1. program \in Programs /\ c = Fresh
  BY DEF Init
<1>2. /\ DOMAIN c = DOMAIN Fresh
      /\ c.stack = <<>> /\ c.scopes = <<>> /\ c.fn = "none" /\ c.at = <<"none", 0>>
      /\ c.val = NoValue /\ c.inst = "none" /\ c.entries = {} /\ c.blocks = <<>>
      /\ c.open = {} /\ c.cut = {} /\ c.within = {} /\ c.nested = {}
  BY <1>1 DEF Fresh
<1>3. DOMAIN <<>> = {} /\ Len(<<>>) = 0 /\ 3 .. 0 = {}
  OBVIOUS
<1>4. Types(c)
  <2>1. c.stack \in Seq(Frames) /\ c.scopes \in Seq(Scopes)
    BY <1>2
  <2>2. c.fn \in Names /\ c.at \in Places /\ c.val \in Values /\ c.inst \in Names
    <3>1. "none" \in Names
      BY DEF Names
    <3> QED
      BY <1>2, <3>1, Constants DEF Places
  <2>3. \A f \in DOMAIN c.blocks : c.blocks[f] \in Seq(Seq(Instructions))
    BY <1>2, <1>3
  <2> QED
    BY <1>2, <2>1, <2>2, <2>3 DEF Types
<1>5. Done(c) = {} /\ Torn(c) = {} /\ DOMAIN c.blocks = {} /\ DOMAIN c.stack = {}
  BY <1>2, <1>3 DEF Done, Torn
<1>6. Bottom(c) /\ Middle(c)
  BY <1>2, <1>3 DEF Bottom, Middle
<1>7. Standing(c) /\ Kept(c) /\ Loose(c) /\ Alive(c)
  BY <1>2, <1>5 DEF Standing, Kept, Loose, Alive, Live
<1> QED
  BY <1>1, <1>4, <1>6, <1>7 DEF CodegenInv, IInv

\* The program stays what it is
LEMMA SameProgram ==
  ASSUME program' = program, Types(c'), IInv(c')
  PROVE  Types(c)' /\ IInv(c)'
<1>1. Frames' = Frames
  BY DEF Frames, CompileFrames, ReturnFrames, DefineFrames, ArgumentFrames, CalleeFrames,
     CallFrames, ConditionFrames, LoopFrames, AgainFrames, SlotFrames, StoreFrames
<1>2. Types(c)'
  BY <1>1 DEF Types
<1>3. Bottom(c)' /\ Middle(c)'
  BY DEF IInv, Bottom, Middle, OfModule
<1>4. Standing(c)' /\ Kept(c)' /\ Loose(c)' /\ Alive(c)'
  BY DEF IInv
<1> QED
  BY <1>2, <1>3, <1>4 DEF IInv

LEMMA NextInv ==
  ASSUME CodegenInv, [Next]_vars
  PROVE  CodegenInv' /\ SparedBut(c, c')
<1>1. CASE UNCHANGED vars
  <2>1. program' = program /\ c' = c
    BY <1>1 DEF vars
  <2> QED
    BY <2>1, SameProgram DEF CodegenInv, SparedBut
<1>2. ASSUME NEW f \in DOMAIN program, RequireFunction(f)
      PROVE  CodegenInv' /\ SparedBut(c, c')
  <2>1. /\ c.stack = <<>> /\ f \notin c.entries /\ c' = Require(c, f) /\ program' = program
    BY <1>2 DEF RequireFunction
  <2>2. Types(c') /\ IInv(c') /\ SparedBut(c, c')
    BY <2>1, RequireKeeps, SparedWholly DEF CodegenInv
  <2> QED
    BY <2>1, <2>2, SameProgram DEF CodegenInv
<1>3. CASE Compile
  <2>1. c.stack # <<>> /\ c' = Continue(c) /\ program' = program
    BY <1>3 DEF Compile
  <2>2. Types(c') /\ IInv(c') /\ SparedBut(c, c')
    BY <2>1, ContinueKeeps DEF CodegenInv
  <2> QED
    BY <2>1, <2>2, SameProgram DEF CodegenInv
<1>4. CASE Finished
  BY <1>1, <1>4 DEF Finished
<1> QED
  BY <1>1, <1>2, <1>3, <1>4 DEF Next

LEMMA AlwaysCodegenInv == Spec => []CodegenInv
<1>1. CodegenInv /\ [Next]_vars => CodegenInv'
  BY NextInv
<1> QED
  BY <1>1, InitInv, PTL DEF Spec

-----------------------------------------------------------------------------
\* What follows from it

\* The invariant of the walk, for all programs: at every step of the compiler each
\* block of the function being compiled is being filled, awaited by exactly one
\* handler or ended, and what has been left is complete.
THEOREM AlwaysInductive == Spec => []Inductive
<1>1. CodegenInv => Inductive
  BY DEF CodegenInv, Inductive
<1> QED
  BY <1>1, AlwaysCodegenInv, PTL

\* Whatever program is compiled, in whatever order its functions are required: the
\* registers keep their types, and between two requirements every function that was
\* entered has been left and the irBuilder stands in a block that exists.
THEOREM TypesKept == Spec => []TypeOK
<1>1. CodegenInv => TypeOK
  <2> SUFFICES ASSUME CodegenInv PROVE TypeOK
    OBVIOUS
  <2>1. c.entries \subseteq DOMAIN program /\ c.val.type \in {"null", "inst", "ptr", "bool"}
    BY DEF CodegenInv, Types, Values
  <2>2. c.stack = <<>> => c.open = {}
    BY DEF CodegenInv, IInv, Bottom
  <2>3. c.open \cup c.entries # {} => Exists(c, c.at)
    BY DEF CodegenInv, IInv, Standing, Done
  <2> QED
    BY <2>1, <2>2, <2>3 DEF TypeOK, Exists
<1> QED
  BY <1>1, AlwaysCodegenInv, PTL

\* However conditions and loops nest, and wherever compile gives a node up with an
\* exception: each block of a function compiled in one piece ends in its only
\* terminator, and branches within the function.
THEOREM BlocksAreWellFormed == Spec => []WellFormedBlocks
<1>1. CodegenInv => WellFormedBlocks
  <2> SUFFICES ASSUME CodegenInv, NEW f \in Whole, NEW b \in DOMAIN c.blocks[f]
               PROVE  LET block == c.blocks[f][b]
                      IN /\ { i \in DOMAIN block : block[i].op \in Terminators } = {Len(block)}
                         /\ Targets(f, b) \subseteq {f} \X DOMAIN c.blocks[f]
    BY DEF WellFormedBlocks
  <2>1. f \in Done(c) \ Torn(c)
    BY DEF Whole, Done, Torn
  <2>2. IsEnded(c, f, b)
    BY <2>1 DEF CodegenInv, IInv, Kept
  <2> QED
    BY <2>2 DEF IsEnded, TargetsOf, Targets
<1> QED
  BY <1>1, AlwaysCodegenInv, PTL

\* The blocks that compile/Condition and compile/Loop name as a phi's predecessors are
\* the ones control comes from, in every function without control flow inside an arm.
THEOREM PhisNameTheirEdges == Spec => []PhisMatchEdges
<1>1. CodegenInv => PhisMatchEdges
  <2> SUFFICES ASSUME CodegenInv, NEW f \in Whole \ c.nested, NEW b \in DOMAIN c.blocks[f],
                      NEW i \in ToSet(c.blocks[f][b]), i.op = "phi"
               PROVE  ToSet(i.places) = Predecessors(f, b)
    BY DEF PhisMatchEdges
  <2>1. f \in Done(c) \ Torn(c) /\ f \notin c.nested
    BY DEF Whole, Done, Torn
  <2>2. PhisMatch(c, f)
    BY <2>1 DEF CodegenInv, IInv, Kept
  <2>3. ToSet(i.places) = Preds(c, f, <<f, b>>)
    BY <2>2 DEF PhisMatch, Phis
  <2>4. \A j : TargetsOf(c.blocks[f][j]) = Targets(f, j)
    BY DEF TargetsOf, Targets
  <2> QED
    BY <2>3, <2>4 DEF Preds, Predecessors
<1> QED
  BY <1>1, AlwaysCodegenInv, PTL

\* Although codeFunction and the irBuilder's place stay behind when a function is left:
\* no later step adds to a function that was compiled in one piece, but that a function
\* of the same name inside another begins in a block of its own behind it.
THEOREM NothingIsAdded == Spec => CompiledCodeKept
<1>1. CodegenInv /\ [Next]_vars =>
        [\A f \in Whole :
           \/ c'.blocks[f] = c.blocks[f]
           \/ Reopens(f) /\ c'.blocks[f] = Append(c.blocks[f], <<>>)]_vars
  <2> SUFFICES ASSUME CodegenInv, [Next]_vars, NEW f \in Whole
               PROVE  \/ c'.blocks[f] = c.blocks[f]
                      \/ Reopens(f) /\ c'.blocks[f] = Append(c.blocks[f], <<>>)
    OBVIOUS
  <2>1. SparedBut(c, c')
    BY NextInv
  <2>2. f \in c.entries \ Torn(c)
    BY DEF Whole, Torn
  <2> QED
    BY <2>1, <2>2 DEF SparedBut, Begins, Reopens
<1> QED
  BY <1>1, AlwaysCodegenInv, PTL DEF Spec, CompiledCodeKept
=============================================================================
