---------------------------- MODULE LlvmPipeline ----------------------------
(***************************************************************************)
(* The path of a lisp function through the LLVM backend, at the grain of   *)
(* functions and call sites:                                               *)
(*                                                                         *)
(*   LlvmBackend::require -> LlvmModule::generate / LlvmModule::require    *)
(*     -> LlvmSubroutine::generate -> LlvmCompileState (compile/Function,  *)
(*        compile/CallSite, ...) -> back into LlvmBackend::require         *)
(*   LlvmSubroutine::specialize -> LlvmBackend::addModule                  *)
(*                                                                         *)
(* Everything runs on one thread, but the compiler is re-entrant: a call   *)
(* site compiles its callee (and the callee's whole module) before its own *)
(* call is emitted, and all activations share ONE LlvmCompileState.  The   *)
(* native call stack is the variable `stack'; an action is what runs       *)
(* between two recursive calls.                                            *)
(***************************************************************************)
EXTENDS Naturals, SequencesExt

CONSTANTS
  Functions,   \* the lisp::Function nodes of the program
  Modules,     \* the lisp::Modules
  Symbols,     \* the symbols functions are bound to
  Programs,    \* the programs considered
  Runtime,     \* ___cult__runtime_subroutine_execute
  NoNode,      \* no _Entry in LlvmModule::_entries
  NoTarget,    \* irBuilder = nullptr
  NoModule,    \* codeModule = nullptr
  MaxDepth,    \* bound: activations the native stack can hold
  DiskFaults   \* whether addModule may fail to open "output.o"

\* LlvmBackend::mangledName: one name per symbol and module uri
Name == Symbols \X Modules

Site == [kind : {"call", "local"}, fn : Functions]
          \cup [kind : {"runtime", "unsupported"}]

Program ==
  { p \in [ home   : [Functions -> Modules],
            sym    : [Functions -> Symbols],
            body   : [Functions -> Seq(Site)],     \* its nodes, in order
            stmts  : [Modules -> Seq(Functions)],  \* BindSites of the module
            opaque : SUBSET Functions ] :          \* getLlvmType() throws
      \A m \in Modules : \A i \in DOMAIN p.stmts[m] :
        p.home[p.stmts[m][i]] = m }

ASSUME ConstantsAssumption ==
  /\ Programs \subseteq Program
  /\ Runtime \notin Name
  /\ NoNode \notin Functions
  /\ NoModule \notin Modules
  /\ MaxDepth \in Nat
  /\ DiskFaults \in BOOLEAN

\* An emitted instruction, with the function whose compilation emitted it
Call == [op : {"call"}, by : Functions, to : Name \cup {Runtime}]
Instr == Call \cup [op : {"ret", "store"}, by : Functions]

Target == [name : Name, block : Nat \ {0}]
ASSUME TargetAssumption == NoTarget \notin Target

Frame == [op : {"require"}, fn : Functions]
           \cup [op : {"lookup"}, name : Name]
           \cup [op : {"generate"}, mod : Modules, next : Nat \ {0}]
           \cup [op : {"compile"}, fn : Functions, site : Nat \ {0},
                 entry : BOOLEAN]

Status == {"ok", "overflow", "assert", "null-proto", "null-entry", "redefined"}

VARIABLES
  program,     \* fixed by Init
  status,      \* "ok", or how the process ended
  stack,       \* native activations, innermost last
  generated,   \* modules whose LlvmModule::_ir exists
  entries,     \* LlvmModule::_entries: the _cult node defined for a name
  code,        \* blocks of the llvm::Function of a name in LlvmModule::_ir
  codeModule,  \* LlvmCompileState::codeModule
  target,      \* LlvmCompileState::irBuilder: the block it appends to
  jitted,      \* names whose LlvmSubroutine::_jitted is set
  installed    \* the copy of code that addModule gave to the JIT, or <<>>

compileState == <<codeModule, target>>
jit == <<jitted, installed>>
vars == <<program, status, stack, generated, entries, code, codeModule,
          target, jitted, installed>>

NameOf(f) == <<program.sym[f], program.home[f]>>

Init ==
  /\ program \in Programs
  /\ status = "ok"
  /\ stack = <<>>
  /\ generated = {}
  /\ entries = [n \in Name |-> NoNode]
  /\ code = [n \in Name |-> <<>>]
  /\ codeModule = NoModule
  /\ target = NoTarget
  /\ jitted = {}
  /\ installed = [n \in Name |-> <<>>]

-----------------------------------------------------------------------------
\* The native stack

CanRun == status = "ok" /\ Len(stack) < MaxDepth
Top == Last(stack)
Running(op) == CanRun /\ stack # <<>> /\ Top.op = op

\* The innermost activation moves to its next statement or node
AdvancedSite(s) == [s EXCEPT ![Len(s)].site = @ + 1]
AdvancedStatement(s) == [s EXCEPT ![Len(s)].next = @ + 1]

RequireFrame(f) == [op |-> "require", fn |-> f]

Die(how) ==
  /\ status' = how
  /\ UNCHANGED <<program, stack, generated, entries, code, codeModule, target,
                 jitted, installed>>

\* The recursion exhausted the native stack.
Overflow == status = "ok" /\ Len(stack) >= MaxDepth /\ Die("overflow")

-----------------------------------------------------------------------------
\* LlvmCompileState: where emitted instructions go

EmitAll(instrs) ==
  code' = [code EXCEPT ![target.name][target.block] = @ \o instrs]
Emit(instr) == EmitAll(<<instr>>)

\* Mutant: the index of the new block taken before the block is made
EnterFunctionBeforeBlock(f) ==
  /\ f \notin program.opaque
  /\ codeModule' = program.home[f]
  /\ code' = [code EXCEPT ![NameOf(f)] = Append(@, <<>>)]
  /\ target' = [name |-> NameOf(f), block |-> Len(code[NameOf(f)])]

\* compile/Function up to its first node: setModule, setFunction (a new block
\* in the function found or made by getOrMakeFunction, a new irBuilder on it).
EnterFunction(f) ==
  /\ f \notin program.opaque
  /\ codeModule' = program.home[f]
  /\ code' = [code EXCEPT ![NameOf(f)] = Append(@, <<>>)]
  /\ target' = [name |-> NameOf(f), block |-> Len(code[NameOf(f)]) + 1]

CompileFrame(f, entry) ==
  [op |-> "compile", fn |-> f, site |-> 1, entry |-> entry]

\* getLlvmType() throws inside setFunction: compile() logs it and returns,
\* with setModule done and the irBuilder still where it was.
RejectFunction(f) ==
  /\ f \in program.opaque
  /\ codeModule' = program.home[f]
  /\ UNCHANGED target

\* Mutant: the _Entry defined before the function is compiled
CompileMissingEntryFirst(f, base) ==
  /\ \/ EnterFunction(f) /\ stack' = Append(base, CompileFrame(f, TRUE))
     \/ RejectFunction(f) /\ stack' = base /\ UNCHANGED code
  /\ entries' = [entries EXCEPT ![NameOf(f)] = f]

\* LlvmModule::require on a miss; `base' is the stack to return to
CompileMissing(f, base) ==
  \/ /\ EnterFunction(f)
     /\ stack' = Append(base, CompileFrame(f, TRUE))
     /\ UNCHANGED entries
  \/ /\ RejectFunction(f)
     /\ stack' = base
     /\ entries' = [entries EXCEPT ![NameOf(f)] = f]
     /\ UNCHANGED code

-----------------------------------------------------------------------------
\* LlvmBackend::require and LlvmModule

\* llvm-call or llvm-ir on a function, from interpreted or JITted code
Demand(f) ==
  /\ CanRun /\ stack = <<>>
  /\ stack' = <<RequireFrame(f)>>
  /\ UNCHANGED <<program, status, generated, entries, code, compileState, jit>>

\* LlvmSemanticsProvider::lookup
DemandLookup(n) ==
  /\ CanRun /\ stack = <<>>
  /\ stack' = <<[op |-> "lookup", name |-> n]>>
  /\ UNCHANGED <<program, status, generated, entries, code, compileState, jit>>

\* LlvmModule::generate with _ir null
GenerateModule(m) ==
  /\ \/ Running("require") /\ m = program.home[Top.fn]
     \/ Running("lookup") /\ m = Top.name[2]
  /\ m \notin generated
  /\ generated' = generated \cup {m}
  /\ stack' = Append(stack, [op |-> "generate", mod |-> m, next |-> 1])
  /\ UNCHANGED <<program, status, entries, code, compileState, jit>>

\* Mutant: the statements generated last to first
GenerateStatementBackwards ==
  /\ Running("generate")
  /\ Top.next <= Len(program.stmts[Top.mod])
  /\ LET f == Reverse(program.stmts[Top.mod])[Top.next]
     IN \/ /\ entries[NameOf(f)] = f
           /\ stack' = AdvancedStatement(stack)
           /\ UNCHANGED <<entries, code, compileState>>
        \/ /\ entries[NameOf(f)] = NoNode
           /\ CompileMissing(f, AdvancedStatement(stack))
  /\ UNCHANGED <<program, status, generated, jit>>

\* Mutant: a statement that is compiled already is not skipped
GenerateStatementStuck ==
  /\ Running("generate")
  /\ Top.next <= Len(program.stmts[Top.mod])
  /\ LET f == program.stmts[Top.mod][Top.next]
     IN /\ entries[NameOf(f)] = NoNode
        /\ CompileMissing(f, stack)
  /\ UNCHANGED <<program, status, generated, jit>>

\* One turn of the loop in LlvmModule::generate
GenerateStatement ==
  /\ Running("generate")
  /\ Top.next <= Len(program.stmts[Top.mod])
  /\ LET f == program.stmts[Top.mod][Top.next]
     IN \/ /\ entries[NameOf(f)] = f
           /\ stack' = AdvancedStatement(stack)
           /\ UNCHANGED <<program, status, generated, entries, code,
                          compileState, jit>>
        \/ /\ entries[NameOf(f)] = NoNode
           /\ CompileMissing(f, AdvancedStatement(stack))
           /\ UNCHANGED <<program, status, generated, jit>>
        \/ /\ entries[NameOf(f)] \notin {NoNode, f}
           /\ Die("assert")

\* Mutant: the loop ends one statement early
GenerateDoneEarly ==
  /\ Running("generate")
  /\ Top.next >= Len(program.stmts[Top.mod])
  /\ stack' = Front(stack)
  /\ UNCHANGED <<program, status, generated, entries, code, compileState, jit>>

GenerateDone ==
  /\ Running("generate")
  /\ Top.next > Len(program.stmts[Top.mod])
  /\ stack' = Front(stack)
  /\ UNCHANGED <<program, status, generated, entries, code, compileState, jit>>

\* LlvmModule::require, after generate() has returned
Requiring == Running("require") /\ program.home[Top.fn] \in generated
Hit == Requiring /\ entries[NameOf(Top.fn)] = Top.fn

RequireMiss ==
  /\ Requiring
  /\ entries[NameOf(Top.fn)] = NoNode
  /\ CompileMissing(Top.fn, stack)
  /\ UNCHANGED <<program, status, generated, jit>>

\* assert(entry->_cult == snode)
RequireClash ==
  /\ Requiring
  /\ entries[NameOf(Top.fn)] \notin {NoNode, Top.fn}
  /\ Die("assert")

\* _entries.lookup(sym)->_llvm, which dereferences whatever lookup returned
FinishLookup ==
  /\ Running("lookup")
  /\ Top.name[2] \in generated
  /\ \/ /\ entries[Top.name] # NoNode
        /\ stack' = Front(stack)
        /\ UNCHANGED <<program, status, generated, entries, code,
                       compileState, jit>>
     \/ /\ entries[Top.name] = NoNode
        /\ Die("null-entry")

-----------------------------------------------------------------------------
\* LlvmSubroutine::specialize and LlvmBackend::addModule

\* Mutant: no test of _jitted, so the JIT gets the prototype again
SpecializeAgain(n) ==
  /\ code[n] # <<>>
  /\ jitted' = jitted \cup {n}
  /\ installed' = [installed EXCEPT ![n] = code[n]]

\* The prototype is copied as it is now; a failed open leaves the copy out of
\* the JIT, and _jitted is set all the same.
Specialize(n) ==
  \/ n \in jitted /\ UNCHANGED jit
  \/ /\ n \notin jitted /\ code[n] # <<>>
     /\ jitted' = jitted \cup {n}
     /\ \/ installed' = [installed EXCEPT ![n] = code[n]]
        \/ DiskFaults /\ UNCHANGED installed

\* getFunction(name) is null and specialize dereferences it
NullPrototype ==
  /\ Hit
  /\ NameOf(Top.fn) \notin jitted /\ code[NameOf(Top.fn)] = <<>>
  /\ Die("null-proto")

\* llvm-call returns after invoke: specialize, then the call by symbol (an
\* address of 0 makes invoke return null; neither outcome changes the backend)
FinishLlvmCall ==
  /\ Hit /\ Len(stack) = 1
  /\ Specialize(NameOf(Top.fn))
  /\ stack' = <<>>
  /\ UNCHANGED <<program, status, generated, entries, code, compileState>>

\* llvm-ir returns the prototype's text, or throws when there is none
FinishLlvmIr ==
  /\ Hit /\ Len(stack) = 1
  /\ stack' = <<>>
  /\ UNCHANGED <<program, status, generated, entries, code, compileState, jit>>

-----------------------------------------------------------------------------
\* The nodes of a function's body

Body(f) == program.body[f]
AtSite(kind) ==
  /\ Running("compile")
  /\ Top.site <= Len(Body(Top.fn))
  /\ Body(Top.fn)[Top.site].kind = kind

\* compile/CallSite, callee a lisp::Function: require it ...
CallSite ==
  /\ AtSite("call")
  /\ stack' = Append(stack, RequireFrame(Body(Top.fn)[Top.site].fn))
  /\ UNCHANGED <<program, status, generated, entries, code, compileState, jit>>

\* Mutant: the callee is named without being specialized
FinishCallSiteUnspecialized ==
  /\ Hit /\ Len(stack) > 1
  /\ LET caller == Last(Front(stack)) IN
       /\ Emit([op |-> "call", by |-> caller.fn, to |-> NameOf(Top.fn)])
       /\ stack' = AdvancedSite(Front(stack))
  /\ UNCHANGED <<program, status, generated, entries, compileState, jit>>

\* ... then getGenericFunction (specialize it) and genCall, in whatever block
\* the irBuilder points to by then
FinishCallSite ==
  /\ Hit /\ Len(stack) > 1
  /\ LET caller == Last(Front(stack)) IN
       /\ Specialize(NameOf(Top.fn))
       /\ Emit([op |-> "call", by |-> caller.fn, to |-> NameOf(Top.fn)])
       /\ stack' = AdvancedSite(Front(stack))
  /\ UNCHANGED <<program, status, generated, entries, compileState>>

\* compile/CallSite, callee a PSubroutine: a call of the runtime
RuntimeCallSite ==
  /\ AtSite("runtime")
  /\ Emit([op |-> "call", by |-> Top.fn, to |-> Runtime])
  /\ stack' = AdvancedSite(stack)
  /\ UNCHANGED <<program, status, generated, entries, compileState, jit>>

\* A node whose compile throws: LlvmCompileState::compile logs and returns
UnsupportedNode ==
  /\ AtSite("unsupported")
  /\ stack' = AdvancedSite(stack)
  /\ UNCHANGED <<program, status, generated, entries, code, compileState, jit>>

\* The store of compile/BindSite, of whatever value was last returned
StoreBy(f) == [op |-> "store", by |-> f]

\* compile/BindSite of a local function: compile/Function in the middle of the
\* enclosing one, without LlvmModule::require.  After a rejected function the
\* last value is that of an earlier node, and may be null (no store).
LocalFunction ==
  /\ AtSite("local")
  /\ LET g == Body(Top.fn)[Top.site].fn
     IN \/ /\ EnterFunction(g)
           /\ stack' = Append(stack, CompileFrame(g, FALSE))
        \/ /\ RejectFunction(g)
           /\ stack' = AdvancedSite(stack)
           /\ UNCHANGED code \/ Emit(StoreBy(Top.fn))
  /\ UNCHANGED <<program, status, generated, entries, jit>>

\* The end of compile/Function: genReturn ...
AtReturn == Running("compile") /\ Top.site > Len(Body(Top.fn))
Return == [op |-> "ret", by |-> Top.fn]

\* Mutants: no _entries.define; no genReturn
FinishFunctionUndefined ==
  /\ AtReturn /\ Top.entry
  /\ Emit(Return)
  /\ stack' = Front(stack)
  /\ UNCHANGED <<program, status, generated, entries, compileState, jit>>
FinishFunctionWithoutReturn ==
  /\ AtReturn /\ Top.entry
  /\ entries[NameOf(Top.fn)] = NoNode
  /\ entries' = [entries EXCEPT ![NameOf(Top.fn)] = Top.fn]
  /\ stack' = Front(stack)
  /\ UNCHANGED <<program, status, generated, code, compileState, jit>>

\* ... then, in LlvmModule::require, _entries.define(sym, ...)
FinishFunction ==
  /\ AtReturn /\ Top.entry
  /\ entries[NameOf(Top.fn)] = NoNode
  /\ Emit(Return)
  /\ entries' = [entries EXCEPT ![NameOf(Top.fn)] = Top.fn]
  /\ stack' = Front(stack)
  /\ UNCHANGED <<program, status, generated, compileState, jit>>

\* A second define of a symbol: what SymbolTableIndexed does is not in src/
RedefineEntry ==
  /\ AtReturn /\ Top.entry
  /\ entries[NameOf(Top.fn)] # NoNode
  /\ Die("redefined")

\* ... or, for a local function, the enclosing function stores and goes on
FinishLocalFunction ==
  /\ AtReturn /\ ~Top.entry
  /\ EmitAll(<<Return, StoreBy(Last(Front(stack)).fn)>>)
  /\ stack' = AdvancedSite(Front(stack))
  /\ UNCHANGED <<program, status, generated, entries, compileState, jit>>

-----------------------------------------------------------------------------
\* The process has ended
Dead == status # "ok" /\ UNCHANGED vars

\* What runs on the compiler's thread once an operation has been demanded
Step ==
  \/ \E m \in Modules : GenerateModule(m)
  \/ GenerateStatement \/ GenerateDone
  \/ RequireMiss \/ RequireClash \/ FinishLookup
  \/ NullPrototype \/ FinishLlvmCall \/ FinishLlvmIr
  \/ CallSite \/ FinishCallSite \/ RuntimeCallSite \/ UnsupportedNode
  \/ LocalFunction \/ FinishFunction \/ RedefineEntry \/ FinishLocalFunction
  \/ Overflow

Next ==
  \/ \E f \in Functions : Demand(f)
  \/ \E n \in Name : DemandLookup(n)
  \/ Step
  \/ Dead

Spec == Init /\ [][Next]_vars

\* The thread that entered the backend keeps running; nobody has to demand
FairSpec == Spec /\ WF_vars(Step)

-----------------------------------------------------------------------------
\* The vocabulary of the properties

\* The functions whose code must exist before f's own code is complete
Needs(f) ==
  { g \in Functions :
      /\ f \notin program.opaque
      /\ \E i \in DOMAIN Body(f) : /\ Body(f)[i].kind \in {"call", "local"}
                                 /\ Body(f)[i].fn = g }

\* f calls itself, or reaches a function that does, through any number of calls
Recursive(f) == \E S \in SUBSET Functions :
                  f \in S /\ \A g \in S : Needs(g) \cap S # {}

Imports(m) ==
  { k \in Modules \ {m} : \E f, g \in Functions : /\ g \in Needs(f)
                                                /\ program.home[f] = m
                                                /\ program.home[g] = k }
ImportCycle == \E S \in SUBSET Modules :
                 S # {} /\ \A m \in S : Imports(m) \cap S # {}

\* What node s of f may add to the block of f: a local function takes the rest of
\* f elsewhere, and of one that is rejected at most the store remains.
OwnInstrs(f, s) ==
  CASE s.kind = "call" -> { << [op |-> "call", by |-> f, to |-> NameOf(s.fn)] >> }
    [] s.kind = "runtime" -> { << [op |-> "call", by |-> f, to |-> Runtime] >> }
    [] s.kind = "unsupported" -> { <<>> }
    [] OTHER -> IF s.fn \in program.opaque THEN { <<>>, <<StoreBy(f)>> } ELSE {}

\* By the number of nodes compiled: the code f, compiled alone, may have by then
Extended(codes, ends) == { c \o e : c \in codes, e \in ends }
Beginnings(f) ==
  LET codes[i \in 0..Len(Body(f))] ==
        IF i = 0 THEN { <<>> }
        ELSE Extended(codes[i - 1], OwnInstrs(f, Body(f)[i]))
  IN codes

\* The code of f, compiled alone
OwnCodes(f) == { Append(c, [op |-> "ret", by |-> f]) : c \in Beginnings(f)[Len(Body(f))] }

\* Two functions are bound to one symbol of one module
SharedName == \E f, g \in Functions : f # g /\ NameOf(f) = NameOf(g)

\* Every call is to an earlier statement of the caller's own module
Position(f) == { i \in DOMAIN program.stmts[program.home[f]] :
                   program.stmts[program.home[f]][i] = f }
Ordered ==
  \A f \in Functions : \A i \in DOMAIN Body(f) :
    /\ Body(f)[i].kind # "local"
    /\ Body(f)[i].kind = "call" =>
         LET g == Body(f)[i].fn
         IN /\ program.home[g] = program.home[f]
            /\ \E j \in Position(g) : \A k \in Position(f) : j < k

\* The names a piece of code calls
Refs(blocks) ==
  { n \in Name : \E b \in DOMAIN blocks : \E i \in DOMAIN blocks[b] :
                   blocks[b][i].op = "call" /\ blocks[b][i].to = n }

-----------------------------------------------------------------------------
\* Properties that hold

\* Types, and: the irBuilder always points into an existing block.
TypeOK ==
  /\ program \in Program
  /\ status \in Status
  /\ stack \in Seq(Frame)
  /\ generated \subseteq Modules
  /\ entries \in [Name -> Functions \cup {NoNode}]
  /\ code \in [Name -> Seq(Seq(Instr))]
  /\ codeModule \in Modules \cup {NoModule}
  /\ target \in Target \cup {NoTarget}
  /\ target # NoTarget => target.block \in DOMAIN code[target.name]
  /\ jitted \subseteq Name
  /\ installed \in [Name -> Seq(Seq(Instr))]

\* getGenericFunction specializes a callee before genCall names it, so however
\* the compilations nest, no emitted call can be to a name that no
\* LlvmSubroutine has handed to the JIT.
CallsLinked == \A n \in Name : Refs(code[n]) \cup Refs(installed[n]) \subseteq jitted

\* An _Entry is defined only after its function's callees have theirs: a
\* function on a cycle of calls, or that reaches one, never gets an _Entry.
NoEntryForRecursion ==
  \A f \in Functions : entries[NameOf(f)] = f => ~Recursive(f)

\* `if (_ir) return' lets a re-entrant caller see a module whose generate() is
\* unfinished.  Once control has left the backend, though, every module whose
\* _ir exists has an entry for each of its statements.
GeneratedMeansComplete ==
  status = "ok" /\ stack = <<>> =>
    \A m \in generated : \A i \in DOMAIN program.stmts[m] :
      entries[NameOf(program.stmts[m][i])] = program.stmts[m][i]

\* When a nested compilation leaves the irBuilder in another function, the
\* rest of the interrupted function is appended there, but only behind that
\* function's own return: a block holds a beginning of its function's code, or
\* all of it and then strays.  The function interrupted is truncated; the one
\* compiled in the middle of it still runs as written.
HoldsOwnCode(n, block) ==
  \E f \in Functions :
    /\ NameOf(f) = n
    /\ \/ \E i \in 0..Len(Body(f)) : block \in Beginnings(f)[i]
       \/ \E c \in OwnCodes(f) : IsPrefix(c, block)
StrayCodeFollowsReturn ==
  \A n \in Name : \A b \in DOMAIN code[n] : HoldsOwnCode(n, code[n][b])

\* Programs that define every callee before its callers, in the same module,
\* are compiled completely: one block per function, its own calls in order and
\* one return, and the JIT runs exactly that.
OrderedProgramsAreWhole ==
  Ordered => \A f \in Functions :
    entries[NameOf(f)] = f /\ f \notin program.opaque =>
      /\ \E c \in OwnCodes(f) : code[NameOf(f)] = <<c>>
      /\ installed[NameOf(f)] \in {<<>>, code[NameOf(f)]}

\* Each way the process can end has its cause in the program: the native stack
\* overflows only on recursion, a symbol is defined twice only across an import
\* cycle or by two functions, a prototype is missing only for a function whose
\* signature was rejected, the assertion fails only where two functions share a
\* name, and a lookup finds nothing only when no statement of its module binds the
\* name it looks up.
DeathHasCause ==
  /\ status = "overflow" => \E f \in Functions : Recursive(f)
  /\ status = "redefined" => ImportCycle \/ SharedName
  /\ status = "null-proto" => Top.fn \in program.opaque
  /\ status = "assert" => SharedName
  /\ status = "null-entry" => /\ Top.op = "lookup"
                               /\ \A f \in Functions :
                                    NameOf(f) = Top.name => Position(f) = {}

\* With a file system that works, the JIT's contents develop as JitImage says.
Image == INSTANCE JitImage WITH Name <- Name, Absent <- <<>>, Refs <- Refs,
                                image <- installed
ImplementsJitImage == Image!Spec

\* Whatever the program, an operation demanded of the backend ends: it returns
\* to its caller, or the process dies.
DemandEnds == stack # <<>> ~> stack = <<>> \/ status # "ok"

-----------------------------------------------------------------------------
\* What the code's comments and assertions say, and the code does not do

\* LlvmBackend.h:16: "The LlvmModule ... holds all the IR for a module".
ModuleHoldsItsIr ==
  \A n \in Name : \A b \in DOMAIN code[n] : \A i \in DOMAIN code[n][b] :
    program.home[code[n][b][i].by] = n[2]

\* LlvmBackend.h:19-21: LlvmSubroutine "will manage the cache of type
\* signatures -> jit'ed code": a cached handle stands for jitted code.
JittedMeansInstalled == \A n \in jitted : installed[n] # <<>>

\* LlvmModule.cpp:77: assert(entry->_cult == snode).
NoAssertFailure == status # "assert"
=============================================================================
