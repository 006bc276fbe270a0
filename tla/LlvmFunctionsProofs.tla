------------------------- MODULE LlvmFunctionsProofs -------------------------
(***************************************************************************)
(* The properties of LlvmFunctions for every program: names first, then    *)
(* what stands behind them.                                                *)
(***************************************************************************)
EXTENDS LlvmFunctions, TLAPS

-----------------------------------------------------------------------------
\* Names

\* The separator stands behind the symbol, and one character behind it is none
\* of the separator's: a uri does not begin with one.
LEMMA Separator ==
  ASSUME NEW s \in Text, NEW u \in Text, u # <<>> => u[1] # "@"
  PROVE  /\ MangledName(s, u)[Len(s) + 1] = "@"
         /\ MangledName(s, u)[Len(s) + 2] = "@"
         /\ MangledName(s, u)[Len(s) + 3] = "@"
         /\ MangledName(s, u)[Len(s) + 4] # "@"
BY DEF MangledName, At, AbiName, Text

LEMMA SymbolInName ==
  ASSUME NEW s \in Text, NEW u \in Text
  PROVE  \A i \in 1..Len(s) : MangledName(s, u)[i] = s[i]
BY DEF MangledName, At, AbiName, Text

LEMMA NameLength ==
  ASSUME NEW s \in Text, NEW u \in Text
  PROVE  Len(MangledName(s, u)) = Len(s) + Len(u) + 7
BY DEF MangledName, At, AbiName, Text

LEMMA UriInName ==
  ASSUME NEW s \in Text, NEW u \in Text
  PROVE  \A i \in 1..Len(u) : MangledName(s, u)[Len(s) + 3 + i] = u[i]
BY DEF MangledName, At, AbiName, Text

LEMMA SameSequence ==
  ASSUME NEW S, NEW T, NEW s \in Seq(S), NEW t \in Seq(T), Len(s) = Len(t),
         \A i \in 1..Len(s) : s[i] = t[i]
  PROVE  s = t
OBVIOUS

LEMMA SameText ==
  ASSUME NEW s \in Text, NEW t \in Text, Len(s) = Len(t),
         \A i \in 1..Len(s) : s[i] = t[i]
  PROVE  s = t
BY SameSequence DEF Text

LEMMA IsAt ==
  ASSUME NEW s \in Text, Len(s) = 3, s[1] = "@", s[2] = "@", s[3] = "@"
  PROVE  s = At
<1>1. At \in Seq({"@"}) /\ Len(At) = 3
  BY DEF At
<1>2. At[1] = "@" /\ At[2] = "@" /\ At[3] = "@"
  BY DEF At
<1>3. \A i \in 1..Len(s) : s[i] = At[i]
  <2>1. TAKE i \in 1..Len(s)
  <2>2. i = 1 \/ i = 2 \/ i = 3
    OBVIOUS
  <2> QED
    BY <1>2, <2>2
<1>4. s \in Seq(STRING) /\ Len(s) = Len(At)
  BY <1>1 DEF Text
<1> HIDE DEF At
<1> QED
  BY <1>1, <1>3, <1>4, SameSequence

\* A plain symbol does not reach into a longer one of the same name
LEMMA NotShorter ==
  ASSUME NEW s \in Text, NEW u \in Text, u # <<>> => u[1] # "@",
         NEW t \in Text, NEW w \in Text, Plain(t), w # <<>> => w[1] # "@",
         MangledName(s, u) = MangledName(t, w)
  PROVE  Len(s) >= Len(t)
<1> SUFFICES ASSUME Len(s) < Len(t) PROVE FALSE
  BY DEF Text
<1> DEFINE n == Len(s)
           name == MangledName(s, u)
<1>1. n \in Nat /\ Len(t) \in Nat
  BY DEF Text
<1>2. name[n + 1] = "@" /\ name[n + 2] = "@" /\ name[n + 3] = "@" /\ name[n + 4] # "@"
  BY Separator
<1>3. /\ name[Len(t) + 1] = "@" /\ name[Len(t) + 2] = "@" /\ name[Len(t) + 3] = "@"
      /\ \A i \in 1..Len(t) : name[i] = t[i]
  <2>1. /\ MangledName(t, w)[Len(t) + 1] = "@"
        /\ MangledName(t, w)[Len(t) + 2] = "@"
        /\ MangledName(t, w)[Len(t) + 3] = "@"
    BY Separator
  <2>2. \A i \in 1..Len(t) : MangledName(t, w)[i] = t[i]
    BY SymbolInName
  <2>3. name = MangledName(t, w)
    OBVIOUS
  <2> HIDE DEF name
  <2> QED
    BY <2>1, <2>2, <2>3
<1>4. CASE Len(t) >= n + 3
  <2>1. SubSeq(t, n + 1, n + 3) = At
    <3>1. t[n + 1] = "@" /\ t[n + 2] = "@" /\ t[n + 3] = "@"
      BY <1>1, <1>2, <1>3, <1>4
    <3>2. n + 1 \in 1..Len(t) + 1 /\ n + 3 \in (n + 1) - 1..Len(t)
      BY <1>1, <1>4
    <3>3. /\ Len(SubSeq(t, n + 1, n + 3)) = 3
          /\ SubSeq(t, n + 1, n + 3) \in Text
          /\ \A i \in 1..3 : SubSeq(t, n + 1, n + 3)[i] = t[n + i]
      BY <1>1, <1>4, <3>2 DEF Text
    <3> QED
      <4> PICK sub : sub = SubSeq(t, n + 1, n + 3)
        OBVIOUS
      <4>1. sub \in Text /\ Len(sub) = 3 /\ \A i \in 1..3 : sub[i] = t[n + i]
        BY <3>3
      <4>2. sub[1] = "@" /\ sub[2] = "@" /\ sub[3] = "@"
        BY <3>1, <4>1
      <4>3. sub = At
        BY <4>1, <4>2, IsAt
      <4> QED
        BY <4>3
  <2>2. n + 1 \in 1..(Len(t) - 2) /\ (n + 1) + 2 = n + 3
    BY <1>1, <1>4
  <2> QED
    BY <2>1, <2>2 DEF Plain
<1>5. CASE Len(t) \in {n + 1, n + 2}
  BY <1>1, <1>2, <1>3, <1>5
<1> QED
  BY <1>1, <1>4, <1>5

\* The mangling takes no two bindings to one name.
LEMMA MangledNameInjective ==
  ASSUME NEW s \in Text, NEW u \in Text, Plain(s), u # <<>> => u[1] # "@",
         NEW t \in Text, NEW w \in Text, Plain(t), w # <<>> => w[1] # "@",
         MangledName(s, u) = MangledName(t, w)
  PROVE  s = t /\ u = w
<1>1. Len(s) \in Nat /\ Len(t) \in Nat /\ Len(u) \in Nat /\ Len(w) \in Nat
  BY DEF Text
<1>2. Len(s) = Len(t)
  BY <1>1, NotShorter
<1>3. Len(u) = Len(w)
  BY <1>1, <1>2, NameLength
<1>4. s = t
  BY <1>2, SymbolInName, SameText
<1>5. \A i \in 1..Len(u) : u[i] = w[i]
  <2>1. TAKE i \in 1..Len(u)
  <2>2. MangledName(s, u)[Len(s) + 3 + i] = u[i]
    BY UriInName
  <2>3. i \in 1..Len(w)
    BY <1>3
  <2>4. MangledName(t, w)[Len(t) + 3 + i] = w[i]
    BY <2>3, UriInName
  <2> QED
    BY <1>2, <2>2, <2>4
<1> QED
  BY <1>3, <1>4, <1>5, SameText

\* The name of a function is longer than that of any runtime function.
LEMMA NotInternal ==
  ASSUME NEW s \in Text, NEW u \in Text
  PROVE  MangledName(s, u) \notin {Truth, Execute}
<1>1. Len(MangledName(s, u)) # 1
  <2>1. Len(s) \in Nat /\ Len(u) \in Nat
    BY DEF Text
  <2>2. Len(MangledName(s, u)) = Len(s) + Len(u) + 7
    BY NameLength
  <2> QED
    BY <2>1, <2>2
<1>2. Len(Truth) = 1 /\ Len(Execute) = 1
  BY DEF Truth, Execute
<1>3. MangledName(s, u) # Truth
  BY <1>1, <1>2
<1>4. MangledName(s, u) # Execute
  BY <1>1, <1>2
<1> QED
  BY <1>3, <1>4

LEMMA ProgramShape ==
  ASSUME program \in Programs, NEW f \in Functions
  PROVE  /\ program[f].symbol \in Text /\ program[f].uri \in Text
         /\ program[f].params \in Seq(Entry) /\ program[f].returns \in Entry
<1>1. program \in Program
  BY FunctionsAssumption
<1> QED
  BY <1>1 DEF Program

\* With unambiguous names, functions of one name are one function.
LEMMA OneName ==
  ASSUME program \in Programs, Unambiguous, NEW f \in Functions, NEW g \in Functions,
         NameOf(f) = NameOf(g)
  PROVE  f = g
<1>1. program[f].symbol = program[g].symbol /\ program[f].uri = program[g].uri
  BY ProgramShape, MangledNameInjective DEF NameOf, Unambiguous, Clean
<1> QED
  BY <1>1 DEF Unambiguous, DistinctBindings

-----------------------------------------------------------------------------
\* Who reaches the JIT

LEMMA WithMore ==
  ASSUME NEW f, NEW k, NEW v, NEW g, g = With(f, k, v)
  PROVE  /\ DOMAIN g = DOMAIN f \cup {k}
         /\ g[k] = v
         /\ \A d \in DOMAIN f : d # k => g[d] = f[d]
BY DEF With

Names == program \in Programs /\ Compiled \subseteq Functions /\ jit \subseteq Compiled

LEMMA NamesStep == Names /\ [Next]_vars => Names'
<1> SUFFICES ASSUME Names, [Next]_vars PROVE Names'
  OBVIOUS
<1>1. CASE UNCHANGED vars
  BY <1>1 DEF vars, Names, Compiled
<1>2. ASSUME NEW f \in Functions, Compile(f) PROVE Names'
  <2>1. DOMAIN scopes' = DOMAIN scopes \cup {f}
    BY <1>2, WithMore DEF Compile
  <2> QED
    BY <1>2, <2>1 DEF Names, Compiled, Compile
<1>3. ASSUME NEW f \in Functions, Invoke(f) PROVE Names'
  BY <1>3 DEF Invoke, Names, Compiled
<1>4. ASSUME NEW f \in Functions, NEW type \in Types, Constant(f, type) PROVE Names'
  BY <1>4 DEF Constant, Names, Compiled
<1>5. ASSUME NEW f \in Functions, NEW callee \in Functions, NEW args, Call(f, callee, args)
      PROVE  Names'
  BY <1>5 DEF Call, Names, Compiled
<1>6. ASSUME NEW f \in Functions, NEW name, NEW value, CallRuntime(f, name, value)
      PROVE  Names'
  BY <1>6 DEF CallRuntime, Names, Compiled
<1> QED
  BY <1>1, <1>2, <1>3, <1>4, <1>5, <1>6 DEF Next

\* A name the JIT knows is one function's, for every program.
THEOREM OneFunctionPerName == Spec => []NamesReachOneFunction
<1>1. Init => Names
  BY DEF Init, Names, Compiled
<1>2. Names => NamesReachOneFunction
  BY OneName DEF Names, NamesReachOneFunction
<1> QED
  BY <1>1, <1>2, NamesStep, PTL DEF Spec

-----------------------------------------------------------------------------
\* Signatures

Ones == [t \in Types |-> 1]

\* What getOrMakeFunction makes for a type
Made(type) == [type |-> TransmuteSignature(type), sret |-> RequiresStructReturn(type)]

LEMMA CacheHasStructs ==
  ASSUME typeCache \in [Types -> {0, 1}], NEW S \in SUBSET Types
  PROVE  /\ CacheFor(S) \in [Types -> {0, 1}]
         /\ \A t \in S : CacheFor(S)[t] = 1
         /\ \A t \in Types : typeCache[t] = 1 => CacheFor(S)[t] = 1
BY DEF CacheFor, GetTypeCache

LEMMA TypesOfSignature ==
  ASSUME program \in Programs, NEW f \in Functions
  PROVE  /\ TypesOf(program[f]) \in SUBSET Types
         /\ program[f].returns # ExpressionAny => program[f].returns \in TypesOf(program[f])
         /\ \A i \in DOMAIN program[f].params :
              program[f].params[i] # ExpressionAny
                => program[f].params[i] \in TypesOf(program[f])
<1> DEFINE params == program[f].params
           all == Append(params, program[f].returns)
<1>1. params \in Seq(Entry) /\ program[f].returns \in Entry
  BY ProgramShape
<1>2. /\ all \in Seq(Entry) /\ Len(all) = Len(params) + 1 /\ Len(params) \in Nat
      /\ all[Len(params) + 1] = program[f].returns
      /\ \A i \in 1..Len(params) : all[i] = params[i]
  BY <1>1
<1> HIDE DEF all
<1>3. \A i \in 1..Len(all) : all[i] \in ToSet(all) /\ all[i] \in Entry
  BY <1>2 DEF ToSet
<1>4. ToSet(all) \in SUBSET Entry
  BY <1>2 DEF ToSet
<1>5. TypesOf(program[f]) = ToSet(all) \ {ExpressionAny}
  BY DEF TypesOf, all
<1>6. TypesOf(program[f]) \in SUBSET Types
  BY <1>4, <1>5 DEF Entry
<1>7. program[f].returns \in ToSet(all)
  <2>1. Len(all) \in 1..Len(all)
    BY <1>2
  <2> QED
    BY <1>2, <1>3, <2>1
<1>8. \A i \in DOMAIN params : params[i] \in ToSet(all)
  <2>1. DOMAIN params = 1..Len(params)
    BY <1>1
  <2>2. \A i \in 1..Len(params) : i \in 1..Len(all)
    BY <1>2
  <2> QED
    BY <1>2, <1>3, <2>1, <2>2
<1> QED
  BY <1>5, <1>6, <1>7, <1>8

\* Two caches that hold the structs of a signature give it one type.
LEMMA OneType ==
  ASSUME program \in Programs, NEW f \in Functions, NEW of,
         \A t \in TypesOf(program[f]) : of[t] = 1
  PROVE  FunctionType(of, program[f]) = FunctionType(Ones, program[f])
<1>1. \A t \in TypesOf(program[f]) : of[t] = Ones[t]
  BY TypesOfSignature DEF Ones
<1>2. InstanceType(of, program[f].returns) = InstanceType(Ones, program[f].returns)
  BY <1>1, TypesOfSignature DEF InstanceType
<1>3. \A i \in DOMAIN program[f].params :
        InstanceType(of, program[f].params[i]) = InstanceType(Ones, program[f].params[i])
  BY <1>1, TypesOfSignature DEF InstanceType
<1> QED
  BY <1>2, <1>3 DEF FunctionType

LEMMA FunctionsKeep ==
  ASSUME NEW uri, NEW name, NEW type, NEW made,
         made = GetOrMakeFunction(uri, name, type)
  PROVE  /\ DOMAIN made = DOMAIN functions \cup {<<uri, name>>}
         /\ \A a \in DOMAIN functions : made[a] = functions[a]
         /\ <<uri, name>> \notin DOMAIN functions => made[<<uri, name>>] = Made(type)
<1>1. CASE <<uri, name>> \in DOMAIN functions
  BY <1>1 DEF GetOrMakeFunction
<1>2. CASE <<uri, name>> \notin DOMAIN functions
  BY <1>2 DEF GetOrMakeFunction, With, Made
<1> QED
  BY <1>1, <1>2

-----------------------------------------------------------------------------
\* What the functions are made from

\* The types a function of this name may have been made with
MadeFor(name, function) ==
  \/ name \in {Truth, Execute} /\ function = Made(InternalType(name))
  \/ \E f \in Functions : /\ name = NameOf(f)
                          /\ function = Made(FunctionType(Ones, program[f]))

Origins ==
  /\ Names
  /\ typeCache \in [Types -> {0, 1}]
  /\ \A a \in DOMAIN functions : MadeFor(a[2], functions[a])

LEMMA FunctionsGrow ==
  ASSUME NEW uri, NEW name, NEW type, functions' = GetOrMakeFunction(uri, name, type)
  PROVE  /\ DOMAIN functions \subseteq DOMAIN functions'
         /\ <<uri, name>> \in DOMAIN functions'
         /\ \A a \in DOMAIN functions : functions'[a] = functions[a]
<1>1. /\ DOMAIN functions' = DOMAIN functions \cup {<<uri, name>>}
      /\ \A a \in DOMAIN functions : functions'[a] = functions[a]
      /\ <<uri, name>> \notin DOMAIN functions => functions'[<<uri, name>>] = Made(type)
  BY FunctionsKeep
<1> QED
  BY <1>1

LEMMA NewOrigin ==
  ASSUME \A a \in DOMAIN functions : MadeFor(a[2], functions[a]),
         NEW uri, NEW name, NEW type, MadeFor(name, Made(type)),
         functions' = GetOrMakeFunction(uri, name, type), program' = program
  PROVE  (\A a \in DOMAIN functions : MadeFor(a[2], functions[a]))'
<1>0. /\ DOMAIN functions' = DOMAIN functions \cup {<<uri, name>>}
      /\ \A a \in DOMAIN functions : functions'[a] = functions[a]
      /\ <<uri, name>> \notin DOMAIN functions => functions'[<<uri, name>>] = Made(type)
  BY FunctionsKeep
<1>1. \A a \in DOMAIN functions' : MadeFor(a[2], functions'[a])
  <2>1. TAKE a \in DOMAIN functions'
  <2>2. CASE a \in DOMAIN functions
    <3>1. functions'[a] = functions[a]
      BY <1>0, <2>2
    <3> QED
      BY <2>2, <3>1
  <2>3. CASE a \notin DOMAIN functions
    <3>1. a = <<uri, name>> /\ functions'[a] = Made(type)
      BY <1>0, <2>1, <2>3
    <3>2. a[2] = name
      BY <3>1
    <3> QED
      BY <3>1, <3>2
  <2> QED
    BY <2>2, <2>3
<1> QED
  BY <1>1 DEF MadeFor, NameOf

\* getLlvmType before getOrMakeFunction: the cache has the structs by then
LEMMA SignatureOrigin ==
  ASSUME Origins, NEW f \in Functions
  PROVE  /\ CacheFor(TypesOf(program[f])) \in [Types -> {0, 1}]
         /\ MadeFor(NameOf(f), Made(FunctionType(CacheFor(TypesOf(program[f])), program[f])))
<1>1. program \in Programs
  BY DEF Origins, Names
<1>2. /\ CacheFor(TypesOf(program[f])) \in [Types -> {0, 1}]
      /\ \A t \in TypesOf(program[f]) : CacheFor(TypesOf(program[f]))[t] = 1
  BY <1>1, TypesOfSignature, CacheHasStructs DEF Origins
<1>3. FunctionType(CacheFor(TypesOf(program[f])), program[f])
        = FunctionType(Ones, program[f])
  BY <1>1, <1>2, OneType
<1> QED
  BY <1>2, <1>3 DEF MadeFor

LEMMA OriginsStep == Origins /\ [Next]_vars => Origins'
<1> SUFFICES ASSUME Origins, [Next]_vars PROVE Origins'
  OBVIOUS
<1>0. Names' /\ program \in Programs
  BY NamesStep DEF Origins, Names
<1>1. CASE UNCHANGED vars
  BY <1>0, <1>1 DEF vars, Origins, MadeFor, NameOf
<1>2. ASSUME NEW f \in Functions, Compile(f) PROVE Origins'
  <2>1. /\ typeCache' = CacheFor(TypesOf(program[f]))
        /\ functions' = GetOrMakeFunction(program[f].uri, NameOf(f),
                          FunctionType(CacheFor(TypesOf(program[f])), program[f]))
        /\ program' = program
    BY <1>2 DEF Compile
  <2> QED
    BY <1>0, <2>1, SignatureOrigin, NewOrigin DEF Origins
<1>3. ASSUME NEW f \in Functions, Invoke(f) PROVE Origins'
  BY <1>0, <1>3 DEF Invoke, Origins, MadeFor, NameOf
<1>4. ASSUME NEW f \in Functions, NEW type \in Types, Constant(f, type) PROVE Origins'
  <2>1. typeCache' = CacheFor({type}) /\ functions' = functions /\ program' = program
    BY <1>4 DEF Constant
  <2>2. typeCache' \in [Types -> {0, 1}]
    BY <2>1, CacheHasStructs DEF Origins
  <2> QED
    BY <1>0, <2>1, <2>2 DEF Origins, MadeFor, NameOf
<1>5. ASSUME NEW f \in Functions, NEW callee \in Functions, NEW args, Call(f, callee, args)
      PROVE  Origins'
  <2>1. /\ typeCache' = CacheFor(TypesOf(program[callee]))
        /\ functions' = GetOrMakeFunction(program[f].uri, NameOf(callee),
             FunctionType(CacheFor(TypesOf(program[callee])), program[callee]))
        /\ program' = program
    BY <1>5 DEF Call, EmitCall
  <2> QED
    BY <1>0, <2>1, SignatureOrigin, NewOrigin DEF Origins
<1>6. ASSUME NEW f \in Functions, NEW name \in {Truth, Execute}, NEW value,
             CallRuntime(f, name, value)
      PROVE  Origins'
  <2>1. /\ typeCache' = typeCache /\ program' = program
        /\ functions' = GetOrMakeFunction(program[f].uri, name, InternalType(name))
    BY <1>6 DEF CallRuntime, EmitCall
  <2>2. MadeFor(name, Made(InternalType(name)))
    BY DEF MadeFor
  <2> QED
    BY <1>0, <2>1, <2>2, NewOrigin DEF Origins
<1> QED
  BY <1>1, <1>2, <1>3, <1>4, <1>5, <1>6 DEF Next

\* Every declaration of a function agrees with its definition, in every program.
THEOREM OneTypePerName == Spec => []DeclarationsAgree
<1>1. Init => Origins
  BY DEF Init, Origins, Names, Compiled
<1>2. Origins => DeclarationsAgree
  <2> SUFFICES ASSUME Origins, Unambiguous,
                      NEW a \in DOMAIN functions, NEW b \in DOMAIN functions, a[2] = b[2]
               PROVE  functions[a] = functions[b]
    BY DEF DeclarationsAgree
  <2>1. MadeFor(a[2], functions[a]) /\ MadeFor(a[2], functions[b])
    BY DEF Origins
  <2>2. program \in Programs
    BY DEF Origins, Names
  <2>3. \A f \in Functions : NameOf(f) \notin {Truth, Execute}
    BY <2>2, ProgramShape, NotInternal DEF NameOf
  <2>4. \A f, g \in Functions : NameOf(f) = NameOf(g) => f = g
    BY <2>2, OneName
  <2> QED
    BY <2>1, <2>3, <2>4, Zenon DEF MadeFor
<1> QED
  BY <1>1, <1>2, OriginsStep, PTL DEF Spec

-----------------------------------------------------------------------------
\* Arguments

\* The types of the arguments of a lisp function
Arguments(of, signature) ==
  [ i \in DOMAIN signature.params |-> Pointer(InstanceType(of, signature.params[i])) ]

LEMMA InstanceSize ==
  ASSUME NEW of, NEW t, PointerSize = 8
  PROVE  TypeSize(InstanceType(of, t)) = 16 /\ InstanceType(of, t) # Void
<1>1. InstanceType(of, t)[1] = "instance"
  BY DEF InstanceType, AnyInstance, Instance
<1>2. Void[1] = "void"
  BY DEF Void
<1>3. TypeSize(InstanceType(of, t)) = 2 * PointerSize
  BY <1>1 DEF TypeSize
<1> QED
  BY <1>1, <1>2, <1>3

LEMMA PointerStays ==
  ASSUME NEW type, PointerSize = 8
  PROVE  ByPointer(Pointer(type)) = Pointer(type)
<1>1. TypeSize(Pointer(type)) = 8
  BY DEF TypeSize, Pointer
<1> QED
  BY <1>1 DEF ByPointer

\* A lisp function gives its result through a slot, which is its first argument.
LEMMA SlotFirst ==
  ASSUME program \in Programs, NEW f \in Functions, NEW of, PointerSize = 8
  PROVE  LET made == Made(FunctionType(of, program[f]))
         IN /\ made.sret
            /\ made.type.params = <<Pointer(InstanceType(of, program[f].returns))>>
                                    \o Arguments(of, program[f])
<1> DEFINE type == FunctionType(of, program[f])
<1>1. /\ type.returns = InstanceType(of, program[f].returns)
      /\ type.params = Arguments(of, program[f])
  BY DEF FunctionType, Arguments
<1>2. RequiresStructReturn(type) = TRUE
  BY <1>1, InstanceSize DEF RequiresStructReturn
<1>3. [i \in DOMAIN type.params |-> ByPointer(type.params[i])] = type.params
  <2>1. \A i \in DOMAIN type.params : ByPointer(type.params[i]) = type.params[i]
    BY <1>1, PointerStays DEF Arguments
  <2>2. type.params = [i \in DOMAIN type.params |-> type.params[i]]
    BY <1>1 DEF Arguments
  <2> QED
    BY <2>1, <2>2
<1>4. TransmuteSignature(type).params = <<Pointer(type.returns)>> \o type.params
  BY <1>2, <1>3 DEF TransmuteSignature
<1> HIDE DEF type
<1>5. Made(type).sret = RequiresStructReturn(type)
      /\ Made(type).type = TransmuteSignature(type)
  BY DEF Made
<1> QED
  BY <1>1, <1>2, <1>4, <1>5 DEF type

LEMMA OneBefore ==
  ASSUME NEW S, NEW x \in S, NEW n \in Nat, NEW rest \in [1..n -> S]
  PROVE  /\ Len(<<x>> \o rest) = n + 1 /\ DOMAIN (<<x>> \o rest) = 1..(n + 1)
         /\ \A i \in 1..n : (<<x>> \o rest)[i + 1] = rest[i]
<1>1. rest \in Seq(S) /\ Len(rest) = n
  OBVIOUS
<1> QED
  BY <1>1

LEMMA ArgumentsFollow ==
  ASSUME program \in Programs, NEW f \in Functions, NEW params,
         params = <<Pointer(InstanceType(Ones, program[f].returns))>>
                    \o Arguments(Ones, program[f])
  PROVE  \A i \in DOMAIN program[f].params :
           i + 1 \in DOMAIN params /\ params[i + 1] = Arguments(Ones, program[f])[i]
<1> DEFINE S == { Pointer(InstanceType(Ones, t)) : t \in Entry }
           slot == Pointer(InstanceType(Ones, program[f].returns))
           args == Arguments(Ones, program[f])
           n == Len(program[f].params)
<1>1. program[f].params \in Seq(Entry) /\ program[f].returns \in Entry
  BY ProgramShape
<1>2. n \in Nat /\ DOMAIN program[f].params = 1..n
  BY <1>1
<1>3. \A i \in 1..n : args[i] \in S
  BY <1>1, <1>2 DEF Arguments
<1>4. args = [i \in 1..n |-> args[i]]
  BY <1>2 DEF Arguments
<1>5. slot \in S
  BY <1>1
<1> HIDE DEF S, slot, args, n
<1>6. args \in [1..n -> S]
  BY <1>3, <1>4
<1>7. params = <<slot>> \o args
  BY DEF slot, args
<1>8. DOMAIN params = 1..(n + 1) /\ \A i \in 1..n : params[i + 1] = args[i]
  BY <1>2, <1>5, <1>6, <1>7, OneBefore
<1>9. \A i \in 1..n : i + 1 \in 1..(n + 1)
  BY <1>2
<1> QED
  BY <1>2, <1>8, <1>9 DEF args

LEMMA OwnFunction ==
  ASSUME program \in Programs, Unambiguous, NEW f \in Functions, NEW function,
         MadeFor(NameOf(f), function)
  PROVE  function = Made(FunctionType(Ones, program[f]))
<1>1. NameOf(f) \notin {Truth, Execute}
  BY ProgramShape, NotInternal DEF NameOf
<1>2. PICK g \in Functions : /\ NameOf(f) = NameOf(g)
                             /\ function = Made(FunctionType(Ones, program[g]))
  BY <1>1 DEF MadeFor
<1>3. f = g
  BY <1>2, OneName
<1> QED
  BY <1>2, <1>3

\* What is known of a compiled function
Placed(f) ==
  /\ <<program[f].uri, NameOf(f)>> \in DOMAIN functions
  /\ \A t \in TypesOf(program[f]) : typeCache[t] = 1
  /\ Unambiguous /\ PointerSize = 8 => scopes[f] = Arguments(Ones, program[f])

Own == Origins /\ \A f \in Compiled : Placed(f)

\* A compiled function stays as it is while others are made.
LEMMA StaysPlaced ==
  ASSUME Own, program' = program, NEW f \in Compiled, scopes'[f] = scopes[f],
         DOMAIN functions \subseteq DOMAIN functions',
         \A t \in Types : typeCache[t] = 1 => typeCache'[t] = 1
  PROVE  Placed(f)'
<1>1. program \in Programs /\ f \in Functions
  BY DEF Own, Origins, Names
<1>2. TypesOf(program[f]) \in SUBSET Types
  BY <1>1, TypesOfSignature
<1>3. Placed(f)
  BY DEF Own
<1>4. <<program'[f].uri, NameOf(f)'>> \in DOMAIN functions'
  BY <1>3 DEF Placed, NameOf
<1>5. \A t \in TypesOf(program'[f]) : typeCache'[t] = 1
  BY <1>2, <1>3 DEF Placed
<1>6. Unambiguous' /\ PointerSize = 8 => scopes'[f] = Arguments(Ones, program'[f])
  <2>1. Unambiguous' = Unambiguous
    BY DEF Unambiguous, Clean, DistinctBindings
  <2> QED
    BY <1>3, <2>1 DEF Placed
<1> QED
  BY <1>4, <1>5, <1>6 DEF Placed

\* setFunction and pushScope find the function's own arguments.
LEMMA CompilePlaces ==
  ASSUME Own, NEW f \in Functions, Compile(f), Origins'
  PROVE  Placed(f)'
<1> DEFINE at == <<program[f].uri, NameOf(f)>>
<1>1. /\ program' = program /\ program \in Programs
      /\ typeCache' = CacheFor(TypesOf(program[f]))
      /\ functions' = GetOrMakeFunction(program[f].uri, NameOf(f),
                        FunctionType(CacheFor(TypesOf(program[f])), program[f]))
  BY DEF Compile, Own, Origins, Names
<1>2. at \in DOMAIN functions'
  BY <1>1, FunctionsGrow
<1>3. \A t \in TypesOf(program[f]) : typeCache'[t] = 1
  BY <1>1, TypesOfSignature, CacheHasStructs DEF Own, Origins
<1>4. MadeFor(NameOf(f), functions'[at])
  <2>1. PICK name : name = NameOf(f)
    OBVIOUS
  <2>2. PICK a : a = at
    OBVIOUS
  <2>3. \A b \in DOMAIN functions' : MadeFor(b[2], functions'[b])
    BY <1>1 DEF Origins, MadeFor, NameOf
  <2>4. a \in DOMAIN functions' /\ a[2] = name
    BY <1>2, <2>1, <2>2
  <2> QED
    BY <2>1, <2>2, <2>3, <2>4
<1>5. ASSUME Unambiguous, PointerSize = 8 PROVE scopes'[f] = Arguments(Ones, program[f])
  <2> DEFINE params == functions'[at].type.params
  <2>1. params = <<Pointer(InstanceType(Ones, program[f].returns))>>
                   \o Arguments(Ones, program[f])
    BY <1>1, <1>4, <1>5, OwnFunction, SlotFirst
  <2>2. \A i \in DOMAIN program[f].params :
          i + 1 \in DOMAIN params /\ params[i + 1] = Arguments(Ones, program[f])[i]
    BY <1>1, <2>1, ArgumentsFollow
  <2>3. scopes' = With(scopes, f, [ i \in DOMAIN program[f].params |->
                    IF TransmuteArgumentIndex(i) \in DOMAIN params
                    THEN params[TransmuteArgumentIndex(i)] ELSE Void ])
    BY <1>1 DEF Compile
  <2> HIDE DEF params
  <2>4. scopes'[f] = [ i \in DOMAIN program[f].params |->
                         IF i + 1 \in DOMAIN params THEN params[i + 1] ELSE Void ]
    BY <2>3 DEF With, TransmuteArgumentIndex
  <2> QED
    BY <2>2, <2>4 DEF Arguments
<1>6. Unambiguous' = Unambiguous
  BY <1>1 DEF Unambiguous, Clean, DistinctBindings
<1> QED
  BY <1>1, <1>2, <1>3, <1>5, <1>6 DEF Placed, NameOf

LEMMA OwnStep == Own /\ [Next]_vars => Own'
<1> SUFFICES ASSUME Own, [Next]_vars PROVE Own'
  OBVIOUS
<1>0. Origins'
  BY OriginsStep DEF Own
<1>1. typeCache \in [Types -> {0, 1}] /\ program \in Programs
  BY DEF Own, Origins, Names
<1> SUFFICES ASSUME NEW g \in Compiled' PROVE Placed(g)'
  BY <1>0 DEF Own
<1>2. CASE UNCHANGED vars
  BY <1>2, StaysPlaced DEF vars, Compiled
<1>3. ASSUME NEW f \in Functions, Compile(f) PROVE Placed(g)'
  <2>1. CASE g = f
    BY <1>0, <1>3, <2>1, CompilePlaces
  <2>2. CASE g # f
    <3>1. PICK v : scopes' = With(scopes, f, v)
      BY <1>3 DEF Compile
    <3>2. g \in Compiled /\ scopes'[g] = scopes[g]
      <4>1. /\ DOMAIN scopes' = DOMAIN scopes \cup {f}
            /\ \A d \in DOMAIN scopes : d # f => scopes'[d] = scopes[d]
        BY <3>1 DEF With
      <4> QED
        BY <2>2, <4>1 DEF Compiled
    <3>3. /\ program' = program
          /\ typeCache' = CacheFor(TypesOf(program[f]))
          /\ functions' = GetOrMakeFunction(program[f].uri, NameOf(f),
                            FunctionType(CacheFor(TypesOf(program[f])), program[f]))
      BY <1>3 DEF Compile
    <3>4. DOMAIN functions \subseteq DOMAIN functions'
      BY <3>3, FunctionsGrow
    <3>5. \A t \in Types : typeCache[t] = 1 => typeCache'[t] = 1
      BY <1>1, <3>3, TypesOfSignature, CacheHasStructs
    <3> QED
      BY <3>2, <3>3, <3>4, <3>5, StaysPlaced
  <2> QED
    BY <2>1, <2>2
<1>4. ASSUME NEW f \in Functions, Invoke(f) PROVE Placed(g)'
  BY <1>4, StaysPlaced DEF Invoke, Compiled
<1>5. ASSUME NEW f \in Functions, NEW type \in Types, Constant(f, type) PROVE Placed(g)'
  <2>1. \A t \in Types : typeCache[t] = 1 => typeCache'[t] = 1
    BY <1>1, <1>5, CacheHasStructs DEF Constant
  <2> QED
    BY <1>5, <2>1, StaysPlaced DEF Constant, Compiled
<1>6. ASSUME NEW f \in Functions, NEW callee \in Functions, NEW args, Call(f, callee, args)
      PROVE  Placed(g)'
  <2>1. /\ typeCache' = CacheFor(TypesOf(program[callee]))
        /\ functions' = GetOrMakeFunction(program[f].uri, NameOf(callee),
             FunctionType(CacheFor(TypesOf(program[callee])), program[callee]))
        /\ program' = program /\ scopes' = scopes
    BY <1>6 DEF Call, EmitCall
  <2>2. DOMAIN functions \subseteq DOMAIN functions'
    BY <2>1, FunctionsGrow
  <2>3. \A t \in Types : typeCache[t] = 1 => typeCache'[t] = 1
    BY <1>1, <2>1, TypesOfSignature, CacheHasStructs
  <2> QED
    BY <2>1, <2>2, <2>3, StaysPlaced DEF Compiled
<1>7. ASSUME NEW f \in Functions, NEW name, NEW value, CallRuntime(f, name, value)
      PROVE  Placed(g)'
  <2>1. /\ typeCache' = typeCache /\ program' = program /\ scopes' = scopes
        /\ functions' = GetOrMakeFunction(program[f].uri, name, InternalType(name))
    BY <1>7 DEF CallRuntime, EmitCall
  <2>2. DOMAIN functions \subseteq DOMAIN functions'
    BY <2>1, FunctionsGrow
  <2> QED
    BY <2>1, <2>2, StaysPlaced DEF Compiled
<1> QED
  BY <1>2, <1>3, <1>4, <1>5, <1>6, <1>7 DEF Next

\* On a 64 bit machine each function finds its own arguments, in every program.
THEOREM OwnArguments == ASSUME PointerSize = 8 PROVE Spec => []ArgumentsAreOwn
<1>1. Init => Own
  BY DEF Init, Own, Origins, Names, Compiled
<1>2. Own => ArgumentsAreOwn
  <2> SUFFICES ASSUME Own, Unambiguous, NEW f \in Compiled
               PROVE  LET function == functions[<<program[f].uri, NameOf(f)>>]
                      IN /\ function.sret
                         /\ function.type.params
                              = <<Pointer(InstanceType(typeCache, program[f].returns))>>
                                  \o scopes[f]
                         /\ scopes[f] = Arguments(typeCache, program[f])
    BY DEF ArgumentsAreOwn, Arguments
  <2>1. f \in Functions /\ program \in Programs /\ Placed(f)
    BY DEF Own, Origins, Names
  <2>2. FunctionType(typeCache, program[f]) = FunctionType(Ones, program[f])
    BY <2>1, OneType DEF Placed
  <2>3. /\ InstanceType(typeCache, program[f].returns)
             = InstanceType(Ones, program[f].returns)
        /\ Arguments(typeCache, program[f]) = Arguments(Ones, program[f])
    BY <2>2 DEF FunctionType, Arguments
  <2>4. functions[<<program[f].uri, NameOf(f)>>] = Made(FunctionType(Ones, program[f]))
    <3>1. MadeFor(NameOf(f), functions[<<program[f].uri, NameOf(f)>>])
      BY <2>1 DEF Own, Origins, Placed
    <3> QED
      BY <2>1, <3>1, OwnFunction
  <2>5. scopes[f] = Arguments(Ones, program[f])
    BY <2>1 DEF Placed
  <2> QED
    BY <2>1, <2>3, <2>4, <2>5, SlotFirst
<1> QED
  BY <1>1, <1>2, OwnStep, PTL DEF Spec

-----------------------------------------------------------------------------
\* Calls

\* The types genCall may be given
Passable == {AnyInstance} \cup { Pointer(InstanceType(Ones, t)) : t \in Entry }

\* What genCall makes of the type of an argument
Spilled(type) == IF ~IsPointer(type) /\ TypeSize(type) > 8 THEN Pointer(AnyInstance) ELSE type

\* What the call sites of unambiguous programs guarantee of what they pass
PassedWell(call) ==
  Unambiguous /\ PointerSize = 8 /\ call.at[2] # Execute => call.passed \in Seq(Passable)

Known(call) ==
  /\ call.by \in Compiled /\ call.at \in DOMAIN functions
  /\ call.operands = GenCall(functions[call.at], call.passed)
  /\ PassedWell(call)
  /\ call.at[2] \in {Truth, Execute} \/ \E f \in Compiled : call.at[2] = NameOf(f)

CallsKnown == Own /\ \A call \in calls : Known(call)

LEMMA StaysKnown ==
  ASSUME CallsKnown, program' = program, NEW call \in calls,
         DOMAIN scopes \subseteq DOMAIN scopes',
         DOMAIN functions \subseteq DOMAIN functions',
         \A a \in DOMAIN functions : functions'[a] = functions[a]
  PROVE  Known(call)'
<1>1. Known(call)
  BY DEF CallsKnown
<1>2. call.by \in Compiled' /\ call.at \in DOMAIN functions'
  BY <1>1 DEF Known, Compiled
<1>3. call.operands = GenCall(functions'[call.at], call.passed)
  BY <1>1 DEF Known
<1>4. PassedWell(call)'
  BY <1>1 DEF Known, PassedWell, Unambiguous, Clean, DistinctBindings
<1>5. call.at[2] \in {Truth, Execute} \/ \E f \in Compiled' : call.at[2] = NameOf(f)'
  BY <1>1 DEF Known, NameOf, Compiled
<1> QED
  BY <1>2, <1>3, <1>4, <1>5 DEF Known

\* A constant, a pointer to a slot or an argument of the caller
LEMMA ValuesPassable ==
  ASSUME Own, Unambiguous, PointerSize = 8, NEW f \in Compiled
  PROVE  Values(f) \subseteq Passable
<1>1. f \in Functions /\ program \in Programs /\ scopes[f] = Arguments(Ones, program[f])
  BY DEF Own, Origins, Names, Placed
<1>2. \A i \in DOMAIN scopes[f] : scopes[f][i] \in Passable
  <2>1. program[f].params \in Seq(Entry)
    BY <1>1, ProgramShape
  <2>2. \A i \in DOMAIN program[f].params : program[f].params[i] \in Entry
    BY <2>1
  <2> QED
    BY <1>1, <2>2 DEF Arguments, Passable
<1>3. Pointer(AnyInstance) \in Passable
  <2>1. ExpressionAny \in Entry /\ InstanceType(Ones, ExpressionAny) = AnyInstance
    BY DEF Entry, InstanceType
  <2> QED
    BY <2>1 DEF Passable
<1>4. AnyInstance \in Passable
  BY DEF Passable
<1> QED
  BY <1>2, <1>3, <1>4 DEF Values, ToSet

LEMMA ArgListsPassable ==
  ASSUME Own, Unambiguous, PointerSize = 8, NEW f \in Compiled, NEW args \in ArgLists(f)
  PROVE  args \in Seq(Passable)
<1>1. \A v \in Values(f) : v \in Passable
  BY ValuesPassable
<1>2. CASE args = <<>>
  BY <1>2
<1>3. CASE \E v \in Values(f) : args = <<v>>
  BY <1>1, <1>3
<1>4. CASE \E v, w \in Values(f) : args = <<v, w>>
  BY <1>1, <1>4
<1> QED
  BY <1>2, <1>3, <1>4 DEF ArgLists

LEMMA EmittedKnown ==
  ASSUME CallsKnown, Own', program' = program, scopes' = scopes, NEW f \in Compiled,
         NEW name, NEW type, NEW args, EmitCall(f, name, type, args),
         Unambiguous /\ PointerSize = 8 /\ name # Execute => args \in Seq(Passable),
         name \in {Truth, Execute} \/ \E g \in Compiled : name = NameOf(g)
  PROVE  CallsKnown'
<1>1. PICK at : at = <<program[f].uri, name>>
  OBVIOUS
<1>2. functions' = GetOrMakeFunction(program[f].uri, name, type)
  BY DEF EmitCall
<1>3. /\ DOMAIN functions \subseteq DOMAIN functions' /\ at \in DOMAIN functions'
      /\ \A a \in DOMAIN functions : functions'[a] = functions[a]
  BY <1>1, <1>2, FunctionsGrow
<1>4. PICK new : new = [ by |-> f, at |-> at, passed |-> args,
                         operands |-> GenCall(functions'[at], args) ]
  OBVIOUS
<1>5. calls' = calls \cup {new}
  BY <1>1, <1>2, <1>4 DEF EmitCall
<1>6. /\ new.by = f /\ new.at = at /\ new.passed = args
      /\ new.operands = GenCall(functions'[at], args)
  BY <1>4
<1>7. Known(new)'
  <2>1. new.by \in Compiled' /\ new.at \in DOMAIN functions'
    BY <1>3, <1>6 DEF Compiled
  <2>2. new.operands = GenCall(functions'[new.at], new.passed)
    BY <1>6
  <2>4. new.at[2] = name
    BY <1>1, <1>6
  <2>3. PassedWell(new)'
    BY <1>6, <2>4 DEF PassedWell, Unambiguous, Clean, DistinctBindings
  <2>5. new.at[2] \in {Truth, Execute} \/ \E g \in Compiled' : new.at[2] = NameOf(g)'
    BY <2>4 DEF Compiled, NameOf
  <2> QED
    BY <2>1, <2>2, <2>3, <2>5 DEF Known
<1>8. \A call \in calls : Known(call)'
  BY <1>3, StaysKnown
<1> QED
  BY <1>5, <1>7, <1>8 DEF CallsKnown

LEMMA CallsKnownStep == CallsKnown /\ [Next]_vars => CallsKnown'
<1> SUFFICES ASSUME CallsKnown, [Next]_vars PROVE CallsKnown'
  OBVIOUS
<1>0. Own' /\ Own
  BY OwnStep DEF CallsKnown
<1>1. CASE UNCHANGED vars
  BY <1>0, <1>1, StaysKnown DEF vars, CallsKnown
<1>2. ASSUME NEW f \in Functions, Compile(f) PROVE CallsKnown'
  <2>1. DOMAIN scopes' = DOMAIN scopes \cup {f}
    BY <1>2, WithMore DEF Compile
  <2>2. /\ program' = program /\ calls' = calls
        /\ functions' = GetOrMakeFunction(program[f].uri, NameOf(f),
                          FunctionType(CacheFor(TypesOf(program[f])), program[f]))
    BY <1>2 DEF Compile
  <2>3. /\ DOMAIN functions \subseteq DOMAIN functions'
        /\ \A a \in DOMAIN functions : functions'[a] = functions[a]
    BY <2>2, FunctionsGrow
  <2> QED
    BY <1>0, <2>1, <2>2, <2>3, StaysKnown DEF CallsKnown
<1>3. ASSUME NEW f \in Functions, Invoke(f) PROVE CallsKnown'
  BY <1>0, <1>3, StaysKnown DEF Invoke, CallsKnown
<1>4. ASSUME NEW f \in Functions, NEW type \in Types, Constant(f, type) PROVE CallsKnown'
  BY <1>0, <1>4, StaysKnown DEF Constant, CallsKnown
<1>5. ASSUME NEW f \in Functions, f \in Compiled, NEW callee \in Functions,
             NEW args \in ArgLists(f), Call(f, callee, args)
      PROVE  CallsKnown'
  <2>1. /\ program' = program /\ scopes' = scopes /\ callee \in Compiled
        /\ EmitCall(f, NameOf(callee),
             FunctionType(CacheFor(TypesOf(program[callee])), program[callee]), args)
    BY <1>5 DEF Call
  <2>2. Unambiguous /\ PointerSize = 8 => args \in Seq(Passable)
    BY <1>0, <1>5, ArgListsPassable
  <2> QED
    BY <1>0, <1>5, <2>1, <2>2, EmittedKnown
<1>6. ASSUME NEW f \in Functions, f \in Compiled, NEW name \in {Truth, Execute},
             NEW value \in Values(f), CallRuntime(f, name, value)
      PROVE  CallsKnown'
  <2>1. /\ program' = program /\ scopes' = scopes
        /\ EmitCall(f, name, InternalType(name), RuntimeArgs(name, value))
    BY <1>6 DEF CallRuntime
  <2>2. ASSUME Unambiguous, PointerSize = 8, name # Execute
        PROVE  RuntimeArgs(name, value) \in Seq(Passable)
    BY <1>0, <1>6, <2>2, ValuesPassable DEF RuntimeArgs
  <2> QED
    BY <1>0, <1>6, <2>1, <2>2, EmittedKnown
<1> QED
  BY <1>1, <1>2, <1>3, <1>4, <1>5, <1>6 DEF Next

LEMMA AlwaysKnown == Spec => []CallsKnown
<1>1. Init => CallsKnown
  BY DEF Init, CallsKnown, Own, Origins, Names, Compiled
<1> QED
  BY <1>1, CallsKnownStep, PTL DEF Spec

\* The structs of a signature are made before any call or definition uses it,
\* only compiled functions are jitted, and only they call.
THEOREM TypeCorrect == Spec => []TypeOK
<1>1. CallsKnown => TypeOK
  <2> SUFFICES ASSUME CallsKnown PROVE TypeOK
    OBVIOUS
  <2>1. program \in Programs /\ Compiled \subseteq Functions /\ jit \subseteq Compiled
    BY DEF CallsKnown, Own, Origins, Names
  <2>2. typeCache \in [Types -> {0, 1}]
    BY DEF CallsKnown, Own, Origins
  <2>3. \A f \in Compiled, t \in Types : t \in TypesOf(program[f]) => typeCache[t] = 1
    BY DEF CallsKnown, Own, Placed
  <2>4. \A call \in calls : call.by \in Compiled /\ call.at \in DOMAIN functions
    BY DEF CallsKnown, Known
  <2> QED
    BY <2>1, <2>2, <2>3, <2>4 DEF TypeOK
<1> QED
  BY <1>1, AlwaysKnown, PTL

\* Pointers are to one type only if they are one type
LEMMA SameInstance ==
  ASSUME NEW t \in Entry, NEW u \in Entry,
         Pointer(InstanceType(Ones, t)) = Pointer(InstanceType(Ones, u))
  PROVE  t = u
<1>1. InstanceType(Ones, t) = InstanceType(Ones, u)
  BY DEF Pointer
<1> DEFINE Key(x) == IF x = ExpressionAny THEN ExpressionAny ELSE <<x, 1>>
<1>2. \A x \in Entry : InstanceType(Ones, x) = <<"instance", Key(x)>>
  BY DEF InstanceType, AnyInstance, Instance, Ones, Entry
<1> HIDE DEF Key
<1>3. Key(t) = Key(u)
  BY <1>1, <1>2
<1>4. \A x \in Types : x # ExpressionAny /\ <<x, 1>> # ExpressionAny
  BY FunctionsAssumption
<1>5. \A x \in Types : Key(x) = <<x, 1>> /\ Key(ExpressionAny) = ExpressionAny
  BY <1>4 DEF Key
<1> QED
  BY <1>3, <1>4, <1>5 DEF Entry

\* genCall makes an argument what the parameter of a signature wants exactly
\* when the value is a pointer to just that, or untyped and wanted so.
LEMMA SpilledFits ==
  ASSUME PointerSize = 8, NEW v \in Passable, NEW t \in Entry, NEW type,
         type = InstanceType(Ones, t)
  PROVE  Spilled(v) = Pointer(type)
           <=> v \in {Pointer(type)} \cup (IF type = AnyInstance THEN {type} ELSE {})
<1>1. InstanceType(Ones, ExpressionAny) = AnyInstance /\ ExpressionAny \in Entry
  BY DEF InstanceType, Entry
<1>2. \A u \in Entry : IsPointer(Pointer(InstanceType(Ones, u)))
                       /\ ~IsPointer(InstanceType(Ones, u))
  BY DEF IsPointer, Pointer, InstanceType, AnyInstance, Instance
<1>3. CASE v = AnyInstance
  <2>1. Spilled(v) = Pointer(AnyInstance)
    BY <1>1, <1>2, <1>3, InstanceSize DEF Spilled
  <2>2. Pointer(type) = Pointer(AnyInstance) => type = AnyInstance
    BY DEF Pointer
  <2>3. v # Pointer(type)
    BY <1>1, <1>2, <1>3
  <2> QED
    BY <1>3, <2>1, <2>2, <2>3
<1>4. CASE v # AnyInstance
  <2>1. IsPointer(v)
    BY <1>2, <1>4 DEF Passable
  <2>2. Spilled(v) = v
    BY <2>1 DEF Spilled
  <2> QED
    BY <1>4, <2>2
<1> QED
  BY <1>3, <1>4

\* Operands agree with parameters one by one.
Before(x, s) == <<x>> \o s
Row(f, n) == n \in Nat /\ f = [i \in 1..n |-> f[i]]

LEMMA SameOperands ==
  ASSUME NEW x, NEW y, NEW f, NEW m, Row(f, m), NEW g, NEW n, Row(g, n)
  PROVE  Before(x, f) = Before(y, g)
           <=> x = y /\ m = n /\ \A i \in 1..m : f[i] = g[i]
<1> DEFINE S == {x, y} \cup { f[i] : i \in 1..m } \cup { g[i] : i \in 1..n }
<1>1. x \in S /\ y \in S /\ f \in [1..m -> S] /\ g \in [1..n -> S] /\ m \in Nat /\ n \in Nat
  BY DEF Row
<1> HIDE DEF S
<1>2. f \in Seq(S) /\ Len(f) = m /\ g \in Seq(S) /\ Len(g) = n
  BY <1>1
<1>3. /\ Len(<<x>> \o f) = m + 1 /\ Len(<<y>> \o g) = n + 1
      /\ (<<x>> \o f)[1] = x /\ (<<y>> \o g)[1] = y
      /\ \A i \in 1..m : (<<x>> \o f)[i + 1] = f[i]
      /\ \A i \in 1..n : (<<y>> \o g)[i + 1] = g[i]
  BY <1>1, <1>2
<1>4. ASSUME <<x>> \o f = <<y>> \o g PROVE x = y /\ m = n /\ \A i \in 1..m : f[i] = g[i]
  <2> DEFINE left == <<x>> \o f
             right == <<y>> \o g
  <2>1. left = right
    BY <1>4
  <2> HIDE DEF left, right
  <2>2. /\ Len(left) = m + 1 /\ Len(right) = n + 1 /\ left[1] = x /\ right[1] = y
        /\ \A i \in 1..m : left[i + 1] = f[i]
        /\ \A i \in 1..n : right[i + 1] = g[i]
    BY <1>3 DEF left, right
  <2>3. x = y /\ m = n
    BY <1>1, <2>1, <2>2
  <2> QED
    BY <2>1, <2>2, <2>3
<1>5. ASSUME x = y, m = n, \A i \in 1..m : f[i] = g[i] PROVE f = g
  BY <1>5 DEF Row
<1> QED
  BY <1>4, <1>5 DEF Before

\* A call of a lisp function
LEMMA FunctionMatches ==
  ASSUME program \in Programs, PointerSize = 8, NEW g \in Functions,
         NEW args \in Seq(Passable), NEW function,
         function = Made(FunctionType(Ones, program[g]))
  PROVE  GenCall(function, args) = function.type.params
           <=> /\ program[g].returns = ExpressionAny
               /\ Len(args) = Len(program[g].params)
               /\ \A i \in DOMAIN args :
                    Spilled(args[i]) = Pointer(InstanceType(Ones, program[g].params[i]))
<1> DEFINE params == program[g].params
           slot == Pointer(InstanceType(Ones, program[g].returns))
           wanted == Arguments(Ones, program[g])
           given == [ i \in DOMAIN args |-> Spilled(args[i]) ]
<1>1. params \in Seq(Entry) /\ program[g].returns \in Entry
  BY ProgramShape
<1>2. function.sret /\ function.type.params = <<slot>> \o wanted
  BY SlotFirst
<1>3. GenCall(function, args) = <<Pointer(AnyInstance)>> \o given
  BY <1>2 DEF GenCall, Spilled
<1>4. /\ Len(args) \in Nat /\ DOMAIN args = 1..Len(args)
      /\ Len(params) \in Nat /\ DOMAIN params = 1..Len(params)
  BY <1>1
<1>5. given = [ i \in 1..Len(args) |-> given[i] ]
  BY <1>4
<1>6. wanted = [ i \in 1..Len(params) |-> wanted[i] ]
  BY <1>4 DEF Arguments
<1>7. \A i \in 1..Len(params) : wanted[i] = Pointer(InstanceType(Ones, params[i]))
  BY <1>4 DEF Arguments
<1>8. \A i \in 1..Len(args) : given[i] = Spilled(args[i])
  BY <1>4
<1>9. Pointer(AnyInstance) = slot <=> program[g].returns = ExpressionAny
  <2>1. ExpressionAny \in Entry /\ InstanceType(Ones, ExpressionAny) = AnyInstance
    BY DEF Entry, InstanceType
  <2> QED
    BY <1>1, <2>1, SameInstance
<1> HIDE DEF given, wanted, slot
<1>10. Before(Pointer(AnyInstance), given) = Before(slot, wanted)
         <=> /\ Pointer(AnyInstance) = slot /\ Len(args) = Len(params)
             /\ \A i \in 1..Len(args) : given[i] = wanted[i]
  <2>1. Row(given, Len(args)) /\ Row(wanted, Len(params))
    BY <1>4, <1>5, <1>6 DEF Row
  <2> QED
    BY <2>1, SameOperands
<1> QED
  BY <1>2, <1>3, <1>4, <1>7, <1>8, <1>9, <1>10 DEF Before

\* A truth test
LEMMA TruthMatches ==
  ASSUME PointerSize = 8, NEW args \in Seq(Passable), NEW function,
         function = Made(InternalType(Truth))
  PROVE  GenCall(function, args) = function.type.params
           <=> Len(args) = 1 /\ \A i \in DOMAIN args : Spilled(args[i]) = Pointer(AnyInstance)
<1> DEFINE given == [ i \in DOMAIN args |-> Spilled(args[i]) ]
           type == InternalType(Truth)
<1>1. type.returns = Integer(1) /\ type.params = <<AnyInstance>>
  BY DEF InternalType
<1>2. TypeSize(Integer(1)) = 1
  BY DEF TypeSize, Integer
<1>3. RequiresStructReturn(type) = FALSE
  BY <1>1, <1>2 DEF RequiresStructReturn
<1>4. ByPointer(AnyInstance) = Pointer(AnyInstance)
  <2>1. TypeSize(AnyInstance) = 16
    BY DEF TypeSize, AnyInstance, Instance
  <2> QED
    BY <2>1 DEF ByPointer
<1>5. function.sret = FALSE /\ function.type = TransmuteSignature(type)
  BY <1>3 DEF Made
<1>6. function.type.params = <<>> \o [i \in DOMAIN type.params |-> ByPointer(type.params[i])]
  BY <1>3, <1>5 DEF TransmuteSignature
<1>7. function.type.params = <<Pointer(AnyInstance)>>
  <2>1. [i \in DOMAIN type.params |-> ByPointer(type.params[i])] = <<Pointer(AnyInstance)>>
    BY <1>1, <1>4
  <2> QED
    BY <1>6, <2>1
<1>8. GenCall(function, args) = <<>> \o given
  BY <1>5 DEF GenCall, Spilled
<1>9. Len(args) \in Nat /\ DOMAIN args = 1..Len(args)
  OBVIOUS
<1>10. given \in Seq({ given[i] : i \in 1..Len(args) })
       /\ Len(given) = Len(args) /\ \A i \in DOMAIN args : given[i] = Spilled(args[i])
  BY <1>9
<1> HIDE DEF given, type
<1>11. GenCall(function, args) = given
  BY <1>8, <1>10
<1>12. given = <<Pointer(AnyInstance)>>
         <=> Len(given) = 1 /\ \A i \in 1..Len(given) : given[i] = Pointer(AnyInstance)
  <2> DEFINE p == Pointer(AnyInstance)
             S == {p} \cup { given[i] : i \in 1..Len(args) }
  <2>1. given \in Seq(S) /\ p \in S
    BY <1>9, <1>10
  <2> HIDE DEF S, p
  <2>2. <<p>> \in Seq(S) /\ Len(<<p>>) = 1 /\ <<p>>[1] = p
    BY <2>1
  <2>3. ASSUME Len(given) = 1, \A i \in 1..Len(given) : given[i] = p PROVE given = <<p>>
    <3>1. \A i \in 1..Len(given) : given[i] = <<p>>[i]
      BY <2>2, <2>3
    <3> QED
      BY <2>1, <2>2, <2>3, <3>1, SameSequence
  <2>4. ASSUME given = <<p>>
        PROVE  Len(given) = 1 /\ \A i \in 1..Len(given) : given[i] = p
    BY <2>2, <2>4
  <2> QED
    BY <2>3, <2>4 DEF p
<1> QED
  BY <1>7, <1>9, <1>10, <1>11, <1>12

\* On a 64 bit machine a call is what its callee's llvm::Function takes exactly
\* if its call site keeps to the untyped convention, in every program.
THEOREM CallsFitIfUntyped == ASSUME PointerSize = 8 PROVE Spec => []CallsMatch
<1>1. CallsKnown => CallsMatch
  <2> SUFFICES ASSUME CallsKnown, Unambiguous, NEW call \in calls,
                      NEW signature \in Meant(call)
               PROVE  call.operands = functions[call.at].type.params
                        <=> Fits(call, signature)
    BY DEF CallsMatch
  <2>1. /\ program \in Programs /\ Own /\ Origins /\ Known(call)
        /\ \A f \in Compiled : f \in Functions
    BY DEF CallsKnown, Own, Origins, Names
  <2>2. /\ call.operands = GenCall(functions[call.at], call.passed)
        /\ call.at[2] # Execute => call.passed \in Seq(Passable)
        /\ MadeFor(call.at[2], functions[call.at])
    BY <2>1 DEF Known, PassedWell, Origins
  <2>3. \A f \in Functions : NameOf(f) \notin {Truth, Execute}
    BY <2>1, ProgramShape, NotInternal DEF NameOf
  <2>4. CASE call.at[2] = Truth
    <3>1. Truth # Execute
      BY DEF Truth, Execute
    <3>2. functions[call.at] = Made(InternalType(Truth)) /\ call.passed \in Seq(Passable)
      BY <2>2, <2>3, <2>4, <3>1 DEF MadeFor
    <3>3. /\ signature.params = <<ExpressionAny>> /\ signature.returns = ExpressionAny
      BY <2>4 DEF Meant
    <3>4. \A of : InstanceType(of, ExpressionAny) = AnyInstance
      BY DEF InstanceType
    <3>5. \A i \in DOMAIN call.passed :
            call.passed[i] \in Passable /\ (Len(call.passed) = 1 => signature.params[i] = ExpressionAny)
      BY <3>2, <3>3
    <3>6. \A i \in DOMAIN call.passed :
            Spilled(call.passed[i]) = Pointer(AnyInstance)
              <=> call.passed[i] \in {Pointer(AnyInstance)} \cup {AnyInstance}
      BY <3>4, <3>5, SpilledFits DEF Entry
    <3>7. Len(signature.params) = 1
      BY <3>3
    <3> QED
      BY <2>2, <3>2, <3>3, <3>4, <3>5, <3>6, <3>7, TruthMatches DEF Fits
  <2>5. CASE call.at[2] # Truth /\ call.at[2] # Execute
    <3>1. PICK g \in Compiled : call.at[2] = NameOf(g)
      BY <2>1, <2>5 DEF Known
    <3>2. g \in Functions /\ \A f \in Callees(call) : f = g
      BY <2>1, <3>1, OneName DEF Callees
    <3>3. signature = program[g]
      BY <2>5, <3>2 DEF Meant
    <3>4. functions[call.at] = Made(FunctionType(Ones, program[g]))
      BY <2>1, <2>2, <3>1, <3>2, OwnFunction
    <3>5. call.passed \in Seq(Passable)
      BY <2>2, <2>5
    <3>6. \A i \in DOMAIN program[g].params :
            /\ program[g].params[i] \in Entry
            /\ InstanceType(typeCache, program[g].params[i])
                 = InstanceType(Ones, program[g].params[i])
      <4>1. FunctionType(typeCache, program[g]) = FunctionType(Ones, program[g])
        BY <2>1, <3>2, OneType DEF Own, Placed
      <4>2. program[g].params \in Seq(Entry)
        BY <2>1, <3>2, ProgramShape
      <4>3. \A t \in TypesOf(program[g]) : typeCache[t] = Ones[t]
        BY <2>1, <3>2, TypesOfSignature DEF Own, Placed, Ones
      <4> QED
        BY <2>1, <3>2, <4>2, <4>3, TypesOfSignature DEF InstanceType
    <3>7. ASSUME Len(call.passed) = Len(program[g].params), NEW i \in DOMAIN call.passed
          PROVE  Spilled(call.passed[i]) = Pointer(InstanceType(Ones, program[g].params[i]))
                   <=> LET type == InstanceType(typeCache, program[g].params[i])
                       IN call.passed[i] \in {Pointer(type)}
                                              \cup (IF type = AnyInstance THEN {type} ELSE {})
      <4>1. program[g].params \in Seq(Entry)
        BY <2>1, <3>2, ProgramShape
      <4>2. i \in DOMAIN program[g].params /\ call.passed[i] \in Passable
        BY <3>5, <3>7, <4>1
      <4> QED
        BY <3>6, <4>2, SpilledFits
    <3>8. GenCall(functions[call.at], call.passed) = functions[call.at].type.params
            <=> /\ program[g].returns = ExpressionAny
                /\ Len(call.passed) = Len(program[g].params)
                /\ \A i \in DOMAIN call.passed :
                     Spilled(call.passed[i])
                       = Pointer(InstanceType(Ones, program[g].params[i]))
      BY <2>1, <3>2, <3>4, <3>5, FunctionMatches
    <3> QED
      BY <2>2, <3>3, <3>7, <3>8 DEF Fits
  <2>6. CASE call.at[2] = Execute
    <3>1. Truth # Execute
      BY DEF Truth, Execute
    <3> QED
      BY <2>6, <3>1 DEF Meant
  <2> QED
    BY <2>4, <2>5, <2>6
<1> QED
  BY <1>1, AlwaysKnown, PTL
=============================================================================
