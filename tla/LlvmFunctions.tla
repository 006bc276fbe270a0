---------------------------- MODULE LlvmFunctions ----------------------------
(***************************************************************************)
(* The llvm::Functions of the prototype modules and of the JIT: under what *)
(* names and with what signatures they are made, found again and called.   *)
(*                                                                         *)
(* A lisp function gets its llvm::Function in setFunction, a callee gets   *)
(* one in the module of its caller in getGenericFunction; each time only   *)
(* the mangled name decides whether there is one already.  The signature   *)
(* goes through the compiler's type cache and the Windows ABI, and the     *)
(* arguments of definitions and calls are placed by two different          *)
(* operations of that ABI.                                                 *)
(***************************************************************************)
EXTENDS Naturals, SequencesExt

CONSTANTS
  Functions,    \* the lisp::Functions of the program
  Types,        \* types::TypeIds a signature may name
  ExpressionAny, \* an untyped argument or result
  Programs,     \* the programs considered: functions with binding and signature
  PointerSize,  \* bytes
  MaxCalls      \* bound: calls emitted

Text == Seq(STRING)   \* character by character, as mangling needs it
Entry == Types \cup {ExpressionAny}

Program == [Functions -> [symbol : Text, uri : Text,
                          params : Seq(Entry), returns : Entry]]

ASSUME FunctionsAssumption ==
  /\ Programs \subseteq Program
  /\ ExpressionAny \notin Types \cup (Types \X {1})   \* nor a struct's key
  /\ PointerSize \in {4, 8}
  /\ MaxCalls \in Nat

VARIABLES
  program,    \* fixed by Init
  typeCache,  \* LlvmCompiler::_typeCache: which struct named after the type it
              \* holds (LLVM numbers structs of one name), 0 for none
  functions,  \* the llvm::Functions, by module and name
  scopes,     \* of each compiled function: the LLVM types of its arguments
  calls,      \* the calls emitted
  jit         \* what specialize gave to the JIT

vars == <<program, typeCache, functions, scopes, calls, jit>>

-----------------------------------------------------------------------------
\* LLVM types

Void == <<"void">>
Integer(bytes) == <<"int", bytes>>
Pointer(type) == <<"pointer", type>>
Instance(struct) == <<"instance", struct>>   \* header pointer, object pointer
AnyInstance == Instance(ExpressionAny)

TypeSize(type) == CASE type[1] = "int" -> type[2]
                    [] type[1] = "pointer" -> PointerSize
                    [] type[1] = "instance" -> 2 * PointerSize

IsPointer(type) == type[1] = "pointer"

\* Mutant: no test whether the key exists
GetTypeCacheAlways(made) == made + 1

\* _getTypeCache: a struct is made once per type
GetTypeCache(made) == IF made # 0 THEN made ELSE 1

\* getLlvmType of a signature: the cache as it leaves it, and the type
TypesOf(signature) == ToSet(Append(signature.params, signature.returns)) \ {ExpressionAny}
CacheFor(types) ==
  [t \in Types |-> IF t \in types THEN GetTypeCache(typeCache[t]) ELSE typeCache[t]]
InstanceType(of, type) ==
  IF type = ExpressionAny THEN AnyInstance ELSE Instance(<<type, of[type]>>)
FunctionType(of, signature) ==
  [ returns |-> InstanceType(of, signature.returns),
    params |-> [ i \in DOMAIN signature.params |->
                   Pointer(InstanceType(of, signature.params[i])) ] ]

\* LlvmBackend::_internal_functions
Truth == <<"___cult__runtime_truth">>
Execute == <<"___cult__runtime_subroutine_execute">>
InternalType(name) ==
  IF name = Truth THEN [returns |-> Integer(1), params |-> <<AnyInstance>>]
  ELSE [ returns |-> AnyInstance,
         params |-> <<AnyInstance, Pointer(AnyInstance), Integer(8)>> ]

-----------------------------------------------------------------------------
\* LlvmAbiWindows

RequiresStructReturn(type) ==
  type.returns # Void /\ TypeSize(type.returns) > 8

ByPointer(type) == IF TypeSize(type) > 8 THEN Pointer(type) ELSE type
TransmuteSignature(type) ==
  LET sret == RequiresStructReturn(type)
  IN [ returns |-> IF sret THEN Void ELSE type.returns,
       params |-> (IF sret THEN <<Pointer(type.returns)>> ELSE <<>>)
                    \o [i \in DOMAIN type.params |-> ByPointer(type.params[i])] ]

\* Mutant: the struct return forgotten
TransmuteArgumentIndexSame(i) == i

\* From an argument of the lisp function to one of the llvm::Function
TransmuteArgumentIndex(i) == i + 1

\* The map f with v at k
With(f, k, v) == [ d \in DOMAIN f \cup {k} |-> IF d = k THEN v ELSE f[d] ]

\* getOrMakeFunction: the functions of all modules after it
GetOrMakeFunction(uri, name, type) ==
  IF <<uri, name>> \in DOMAIN functions THEN functions
  ELSE With(functions, <<uri, name>>, [ type |-> TransmuteSignature(type),
                                        sret |-> RequiresStructReturn(type) ])

\* Mutant: the result slot pushed last
GenCallResultLast(function, args) ==
  [ i \in DOMAIN args |-> IF ~IsPointer(args[i]) /\ TypeSize(args[i]) > 8
                          THEN Pointer(AnyInstance) ELSE args[i] ]
    \o (IF function.sret THEN <<Pointer(AnyInstance)>> ELSE <<>>)

\* genCall: the types of the operands of the call
GenCall(function, args) ==
  (IF function.sret THEN <<Pointer(AnyInstance)>> ELSE <<>>)
    \o [ i \in DOMAIN args |-> IF ~IsPointer(args[i]) /\ TypeSize(args[i]) > 8
                               THEN Pointer(AnyInstance) ELSE args[i] ]

-----------------------------------------------------------------------------
\* Names

At == <<"@", "@", "@">>
AbiName == <<":", ":", ":", "windows">>

\* Mutant: the symbol alone
MangledSymbol(symbol, uri) == symbol \o At \o AbiName

MangledName(symbol, uri) == symbol \o At \o uri \o AbiName

NameOf(f) == MangledName(program[f].symbol, program[f].uri)

-----------------------------------------------------------------------------
Init ==
  /\ program \in Programs
  /\ typeCache = [t \in Types |-> 0]
  /\ functions = <<>>
  /\ scopes = [f \in {} |-> <<>>]
  /\ calls = {}
  /\ jit = {}

Compiled == DOMAIN scopes

\* setFunction and pushScope: an argument is whatever stands at its index, if
\* the function found has that many
Compile(f) ==
  LET cache == CacheFor(TypesOf(program[f]))
      new == GetOrMakeFunction(program[f].uri, NameOf(f),
                               FunctionType(cache, program[f]))
      params == new[<<program[f].uri, NameOf(f)>>].type.params
      place(i) == TransmuteArgumentIndex(i)
  IN /\ f \notin Compiled
     /\ typeCache' = cache
     /\ functions' = new
     /\ scopes' = With(scopes, f, [ i \in DOMAIN program[f].params |->
                      IF place(i) \in DOMAIN params THEN params[place(i)] ELSE Void ])
     /\ UNCHANGED <<program, calls, jit>>

\* genAsConstant: the cache gets an entry for the type, whose struct is not used
Constant(f, type) ==
  /\ f \in Compiled
  /\ typeCache' = CacheFor({type})
  /\ UNCHANGED <<program, functions, scopes, calls, jit>>

\* The types of the values f may pass: a constant, a pointer to a slot or to a
\* result, an argument of f
Values(f) == {AnyInstance, Pointer(AnyInstance)} \cup (ToSet(scopes[f]) \ {Void})
ArgLists(f) == {<<>>} \cup { <<v>> : v \in Values(f) }
                 \cup { <<v, w>> : v, w \in Values(f) }

\* A call of the function `name' emitted into f's module
EmitCall(f, name, type, args) ==
  LET at == <<program[f].uri, name>>
      new == GetOrMakeFunction(program[f].uri, name, type)
  IN /\ functions' = new
     /\ calls' = calls \cup {[ by |-> f, at |-> at, passed |-> args,
                               operands |-> GenCall(new[at], args) ]}

\* compile/CallSite on a lisp::Function that has been required
Call(f, callee, args) ==
  LET cache == CacheFor(TypesOf(program[callee]))
  IN /\ {f, callee} \subseteq Compiled /\ f # callee
     /\ Cardinality(calls) < MaxCalls
     /\ jit' = jit \cup {callee}   \* specialize
     /\ typeCache' = cache
     /\ EmitCall(f, NameOf(callee), FunctionType(cache, program[callee]), args)
     /\ UNCHANGED <<program, scopes>>

\* compile/CallSite on a PSubroutine, and the genTruth of a condition or loop
RuntimeArgs(name, value) ==
  IF name = Truth THEN <<value>> ELSE <<AnyInstance, Pointer(AnyInstance), Integer(8)>>
CallRuntime(f, name, value) ==
  /\ f \in Compiled
  /\ Cardinality(calls) < MaxCalls
  /\ EmitCall(f, name, InternalType(name), RuntimeArgs(name, value))
  /\ UNCHANGED <<program, typeCache, scopes, jit>>

\* llvm-call
Invoke(f) ==
  /\ f \in Compiled
  /\ jit' = jit \cup {f}
  /\ UNCHANGED <<program, typeCache, functions, scopes, calls>>

Next ==
  \E f \in Functions :
    \/ Compile(f)
    \/ Invoke(f)
    \/ \E type \in Types : Constant(f, type)
    \/ f \in Compiled /\ \E callee \in Functions, args \in ArgLists(f) :
                           Call(f, callee, args)
    \/ f \in Compiled /\ \E name \in {Truth, Execute}, v \in Values(f) :
                           CallRuntime(f, name, v)

Spec == Init /\ [][Next]_vars

-----------------------------------------------------------------------------
\* The vocabulary of the properties

\* LlvmBackend.cpp:61 asks for symbols without three @ in a row.  Uris start
\* with the name of a loader, if they are not empty.
Plain(symbol) == \A i \in 1..(Len(symbol) - 2) : SubSeq(symbol, i, i + 2) # At
Clean == \A f \in Functions : /\ Plain(program[f].symbol)
                              /\ program[f].uri # <<>> => program[f].uri[1] # "@"
DistinctBindings ==
  \A f, g \in Functions : f # g => \/ program[f].symbol # program[g].symbol
                                   \/ program[f].uri # program[g].uri
Unambiguous == Clean /\ DistinctBindings

Callees(call) == { f \in Functions : NameOf(f) = call.at[2] }

\* The signatures a call may be for
Meant(call) ==
  CASE call.at[2] = Truth -> {[params |-> <<ExpressionAny>>, returns |-> ExpressionAny]}
    [] call.at[2] = Execute -> {}
    [] OTHER -> { program[f] : f \in Callees(call) }

\* What genCall can pass for a signature: anything untyped for an untyped
\* argument, and its own pointer type for a typed one
Fits(call, signature) ==
  /\ signature.returns = ExpressionAny
  /\ Len(call.passed) = Len(signature.params)
  /\ \A i \in DOMAIN call.passed :
       LET type == InstanceType(typeCache, signature.params[i])
       IN call.passed[i] \in {Pointer(type)}
                              \cup (IF type = AnyInstance THEN {type} ELSE {})

-----------------------------------------------------------------------------
\* Properties

\* Types, and: a struct is made once for a type, before a signature needs it.
TypeOK ==
  /\ program \in Programs
  /\ typeCache \in [Types -> {0, 1}]
  /\ Compiled \subseteq Functions
  /\ \A f \in Compiled, t \in Types : t \in TypesOf(program[f]) => typeCache[t] = 1
  /\ jit \subseteq Compiled
  /\ \A call \in calls : call.by \in Compiled /\ call.at \in DOMAIN functions

\* setFunction takes whatever llvm::Function has the name, and pushScope and
\* genReturn index its parameters blindly.  With unambiguous names each function
\* finds the slot of its result first and then its own arguments.
ArgumentsAreOwn ==
  Unambiguous => \A f \in Compiled :
    LET function == functions[<<program[f].uri, NameOf(f)>>]
    IN /\ function.sret
       /\ function.type.params
            = <<Pointer(InstanceType(typeCache, program[f].returns))>> \o scopes[f]
       /\ scopes[f] = [ i \in DOMAIN program[f].params |->
                          Pointer(InstanceType(typeCache, program[f].params[i])) ]

\* The llvm::Functions of one name in two modules have one type, whenever and in
\* whatever order their signatures were translated: a declaration links to a
\* definition it agrees with.
DeclarationsAgree ==
  Unambiguous => \A a, b \in DOMAIN functions :
    a[2] = b[2] => functions[a] = functions[b]

\* LLVM accepts a call emitted for a function exactly when the call site fits
\* the untyped convention: results and by-value arguments are always spilled to
\* untyped instances.  A truth test is one of an untyped value.
CallsMatch ==
  Unambiguous => \A call \in calls : \A signature \in Meant(call) :
    call.operands = functions[call.at].type.params <=> Fits(call, signature)

\* A name the JIT is asked for, by a call or by invoke, leads to the one function
\* it was made from, however similar symbols and uris are.
NamesReachOneFunction ==
  Unambiguous => \A f, g \in jit : NameOf(f) = NameOf(g) => f = g
=============================================================================
