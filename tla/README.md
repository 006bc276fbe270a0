# Verification of the LLVM backend of cultlang

The repository is a JIT backend: it turns functions of the lisp-like language
*cult* into LLVM IR, hands the IR to LLVM's ORC JIT (the legacy layers of LLVM
7), and lets the language call the machine code.  This directory holds TLA+
specifications of it, the TLC configurations that check them on small
instances, and proofs about them that TLAPS checks for every instance.

Everything runs on one thread.  What makes the code hard is *re-entrancy*: the
compiler calls the backend, which calls the compiler, in the middle of what the
compiler is doing, and all the activations share one mutable compile state.
The second source of trouble is state that *outlives* what it describes: the
`_jitted` flags, the scopes that are never popped, the static map of unwind
tables.

## 1. Inventory

Paths are below `src/src/backendllvm/`.

### LlvmBackend (`LlvmBackend.cpp`)
- **State**: the ORC layers (what the JIT holds), `_resolvers`, the table of
  internal functions, the one `LlvmCompiler`.
- **Operations**: `require(node)` finds the node's module, generates it and asks
  it for the node; `addModule(ir)` writes a debugging dump `output.o` and hands
  the IR to the JIT; `findSymbol`/`getSymbolAddress`; `optimizeModule`;
  `addJit`, `removeJit` (no callers); `mangledName`.
- **Interacts**: `compile/CallSite` calls `require` in the middle of a
  compilation; the resolver is called back by the linker.
- **Correct when**: every name compiled code refers to is in the JIT before the
  linker asks for it; what is in the JIT is the whole function and is never
  replaced.

### LlvmModule (`LlvmModule.cpp`)
- **State**: `_ir` (an `llvm::Module`, null until generated), `_entries` (symbol
  to node and subroutine).
- **Operations**: `generate()` compiles every `BindSite` of a `Function`, once;
  `require(node)` finds or compiles one; `LlvmSemanticsProvider::lookup(symbol)`.
- **Hard**: `if (_ir) return` admits re-entrant callers to a module that is half
  generated; an `_Entry` is defined only after its function is compiled, so a
  recursive function never finds itself; `_entries` is keyed by symbol alone.
- **Correct when**: what `generate` promised is there once control leaves the
  backend, an entry belongs to the node it is looked up for, and each way the
  process can die has a cause one can name in the program.

### LlvmSubroutine (`LlvmSubroutine.cpp`)
- **State**: `_jitted`, `_jit_handle_generic`.
- **Operations**: `generate()` (compile the prototype), `specialize()` (copy the
  prototype *as it is now* into the JIT, once), `invoke()`,
  `stringifyPrototypeIr()`.
- **Correct when**: a cached handle stands for code, and that code is complete.

### LlvmCompileState, LlvmCompiler, the ABIs (`LlvmCompiler.cpp`)
- **State**: `currentModule`/`codeModule`, `codeFunction`, `irBuilder` (the
  block instructions are appended to), `scopeStack`, `lastReturnedValue`,
  `lastReturnedInstance`; the compiler's cache of types.
- **Operations**: `compile(node)` (dispatch, with a catch that only logs),
  `setModule`, `setFunction`, `pushScope`, `getScopeValue`, `genCall`,
  `genReturn`, `genTruth`, `genInstanceAssign`, `genSpillInstances`.
- **Hard**: nothing saves and restores the state around a nested compilation;
  a node given up half way leaves the registers as they happen to be.
- **Correct when**: each function's instructions go to that function, in order,
  in well-formed blocks, with operands that are defined where they are used,
  and do not depend on what was compiled before.

### The compile multimethod (`all.cpp`)
One method per kind of node: Constant, Resolve, Assign, Function, Block,
Variable, BindSite, CallSite, Condition, Loop.  No state of their own; they
drive the compile state.  `llvm-call` and `llvm-ir`, in the same file, are the
two ways into the backend from the language.

### SingleSectionMemoryManager, SEHFrameHandler (`WindowsMemoryManager.cpp`)
- **State**: per object, the reserved blocks, `ImageBase`, `EHFrames`; for the
  process, the static `m_Map` from image base to the ranges of its code, and
  the tables the operating system was told of.
- **Operations**: `reserveAllocationSpace`, `registerEHFrames`,
  `finalizeMemory`, `deregisterEHFrames`; `FindEHFrame`, `RaiseSEHException`.
- **Correct when**: an exception thrown by live JIT code is attributed to that
  code's own image, and code that is gone is forgotten.

### The rest
Runtime entry points (`_cult_runtime_truth`,
`_cult_runtime_subroutine_execute`), providers and the builtin module, the
entry program (a read-eval-print loop) and four `.cult` tests, each of which
prints the result of one `llvm-call` (its `main.cpp` is empty).

## 2. Modules and the code they model

| Module | Models | State |
| --- | --- | --- |
| `LlvmPipeline` | `LlvmBackend::require` → `LlvmModule` → `LlvmSubroutine` → `LlvmCompileState` → back, and `specialize`/`addModule`, at the grain of functions and call sites | `stack` (native activations), `generated`, `entries`, `code`, `codeModule`, `target`, `jitted`, `installed`, `status` |
| `JitImage` | the abstract specification: code enters the JIT once, after everything it refers to | `image` |
| `LlvmPipelineInv` | the inductive invariant | |
| `LlvmPipelineProofs`, `LlvmPipelineCodeProofs` | theorems and proofs: types and recursion; links, the refinement, the abstract image and whose code is where; complete modules and causes of death | |
| `LlvmCodegen` | every method of the compile multimethod, as an explicit walk: blocks of instructions, through the shared registers | `c`, one record with the fields of `LlvmCompileState` and the walk's stack |
| `LlvmCodegenInv`, `LlvmCodegenProofs` | its inductive invariant; its theorems and proofs | |
| `LlvmSupported` | which functions the compiler supports, by syntax alone, and what their code is like | extends `LlvmCodegen`, no state of its own |
| `LlvmSupportedInv`, `LlvmSupportedProofs` | the inductive invariant of the work on supported functions; its theorems and proofs | |
| `LlvmHistory` | the code of a function, against the code it gets by itself | extends `LlvmSupported`, no state of its own |
| `LlvmExecution` | what those blocks do when they run, against a direct evaluation of the syntax tree | extends `LlvmHistory`, no state of its own |
| `LlvmFunctions` | names, signatures, the type cache and the Windows ABI: how `llvm::Function`s are made, found again and called | `typeCache`, `functions` (by module and name), `scopes` (what `pushScope` bound to the arguments), `calls`, `jit` |
| `LlvmFunctionsProofs` | its theorems and proofs | |
| `SectionBlocks` | the three blocks of `SingleSectionMemoryManager` and the sections RuntimeDyld cuts from them | `base`, `addr`, `end`, `sections`, `imageBase`, and RuntimeDyld's `align` and `budget` |
| `SectionBlocksProofs` | its theorems and proofs | |
| `SehFrames` | the Windows memory manager and the process-wide table of unwind ranges | `imageMap` (= `m_Map`), `imageBase`, `ehFrames`, `tables`, the pages held |
| `SehFramesProofs` | its theorems and proofs | |
| `LeastElements` | lemmas on minima of sets of numbers that two proofs need | |
| `MC…` | small instances | |

### LlvmPipeline
An action is what runs between two recursive calls.  The native call stack is
the variable `stack`: a `require` frame is `LlvmBackend::require` of a function,
a `lookup` frame is `LlvmSemanticsProvider::lookup`, a `generate` frame is the
loop of `LlvmModule::generate` with its index, a `compile` frame is
`compile/Function` with the node it is at and whether `LlvmModule::require`
(which will define the entry) or an enclosing function called it.  `target` is
where `irBuilder` appends; `EnterFunction` moves it and nothing moves it back,
as in the code.  Every instruction records in `by` the function whose
compilation emitted it, which is what the properties compare with the function
it ended up in.

`code[n]` is the `llvm::Function` in the module's prototype IR, `installed[n]`
the copy that `specialize` cloned.  `DiskFaults` decides whether `output.o` may
fail to open.  The ways a process can end are values of `status`: the native
stack overflows, the assertion of `LlvmModule::require` fails, a null prototype
or entry is dereferenced, a symbol is defined a second time (what the symbol
table then does is outside the repository; the model stops there).

A program is data: for each function its module, its symbol, its body as a
sequence of sites (a call, a call of the runtime, a node the compiler rejects, a
local function), and whether `getLlvmType` rejects its signature.  Bodies here
are straight-line.

### LlvmCodegen, LlvmSupported, LlvmHistory and LlvmExecution
The complement: one function at a time, with all control flow.  The multimethod
is a recursive walk of the syntax tree.  Its native stack is `c.stack`: a handler
runs up to its next call of `compile` (`Call`, `CallThen`, `CallAll`) and leaves a
frame with the locals it needs when the call returns.  `compile/Condition` leaves
a `branch` frame while an arm is compiled and a `test` frame while a test is, with
its blocks and the phi's operands so far; `compile/Loop` leaves `loop` and `again`;
`compile/CallSite` leaves `argument`, `callee` and `call`; `compile/Function`
leaves `return`, and `LlvmModule::require`, which defines the entry after the
call, `define`.  Action `Compile` lets the innermost frame go on (`Resume`).  What a
handler throws ends that handler alone (`Throw`), since every `compile` catches.

A block is a sequence of instructions (alloca, store, call, load, phi, branch,
return); a value is its LLVM type (instance by value, pointer to one, truth value,
none) and the instruction it is the result of.  How arguments and results are
passed is in `LlvmFunctions`: here a call is one instruction.  Programs that TLC
checks have no recursive calls; for the theorems they may have.  After a crash the
step under way is computed to its end, and then nothing happens any more.

A callee that is not compiled yet, or a local function, is compiled in the
middle of its user.  `cut` are the functions interrupted that way and `within`
the ones that interrupted; most properties are about `Whole` functions, neither
cut nor within, and `InterruptionSpares` is about the ones within.

`LlvmSupported` says which functions the compiler translates (`Supported`: every
operand has a type its user can take) and what it promises for those.  What this
needs to know of a node (`Subtree`, the nodes under it; `TypeOf`, the LLVM type of
what it leaves in `lastReturnedValue`; `FreeScopes`, the scopes it uses and does not
make) is defined over the syntax tree.  A RECURSIVE operator would keep the provers
out, so these three are constant operators, of which `AnalysisAssumption` says
that they satisfy their rules (`SubtreeRule`, `TypeRule`, `FreeRule`).
`MCLlvmCodegen` defines them by recursion, and TLC evaluates the assumption.  `Slotless` are the scopes without slots; a scope has the same slots
wherever it is mentioned, which is a fact of the syntax tree.

`LlvmHistory` compares the code of a function with what the walk makes of it from a
fresh state, by running the walk to its end, and is RECURSIVE; so is
`LlvmExecution`.

`LlvmExecution` runs the blocks: memory by stack depth and value, pointers
passed as they are, host subroutines as events.  Its other half, `Eval`, gives
the syntax tree its meaning without any of the compiler's notions.  It is the
reference, so it models no code; what the host's truth function answers is from
`_cult_runtime_truth`.

### LlvmFunctions
Actions are `setFunction` with `pushScope` (`Compile`), a constant (which fills
the type cache), a call of a lisp function (`Call`, with `specialize`), a call
of a runtime function (`CallRuntime`) and `llvm-call` (`Invoke`), for functions
of any signature in any order.  LLVM tells opaque structs apart by identity, so
the cache counts how often the struct of a type has been made.  Names are
sequences of characters, since what can go wrong with them is where they split.

### SectionBlocks
RuntimeDyld is external: it asks for a block the greatest alignment of its
sections and the sum of their sizes, each rounded up to that alignment, and then
places the sections in any order.  The operating system may refuse a
reservation, which only an assertion notices.

### SehFrames
Memory is a few pages; an image takes one for code and one for data, in either
order.  Unwind ranges are absolute addresses instead of offsets from the base.
`Debug` says whether `assert` is compiled in, because the two builds behave
differently when an image base is used again.

## 3. What the runs check

Passing runs:

- **pipeline** (`MCLlvmPipeline.cfg`): over 1032 programs of three functions in
  two modules, demanded in any order, with files that may fail to open.
  `CallsLinked`: however compilations nest, every call emitted is to a function
  whose subroutine has been specialized.  `NoEntryForRecursion`: functions on,
  or leading to, a cycle of calls never get an entry.  `GeneratedMeansComplete`:
  although re-entrant callers do see half-generated modules, once control has
  left the backend every generated module has all its entries.
  `StrayCodeFollowsReturn`: the rest of an interrupted function may land in
  another one, but only behind that one's return.  `OrderedProgramsAreWhole`:
  programs that define callees before callers in one module are compiled
  exactly as written.  `DeathHasCause`: each way to die has its cause in the
  program: the stack overflows only on recursion, a symbol is defined twice only
  across an import cycle or by two functions of one name, a prototype is missing
  only for a function whose own signature was rejected, and a lookup finds nothing
  only when no statement of its module binds the name it looks up.  `Inductive`: the invariant of the proofs.
- **refines** (`MCLlvmPipelineRefines.cfg`): with a working file system the
  pipeline implements `JitImage` (code enters once, is not replaced, and enters
  after the functions it calls; it does not say that what enters is the code of the
  whole function, which `OrderedProgramsAreWhole` says where it is so), and
  `DemandEnds`: every demand returns or the process dies.
- **seh** and **seh_release**: three objects over their lifetimes.  With
  assertions, a throw is never attributed to another live image and the
  assertions fail only for an image whose base or table lies where a removed image
  had its base (the history variable `former`), or whose table lies at its own base;
  without them, live code is always found.  Until something is removed,
  every throw is attributed to the right image.
- **codegen** (`MCLlvmCodegen.cfg`): some 5,900 pairs of functions, in both
  orders.  Blocks are well formed whatever nests in what and wherever a node is
  given up (`WellFormedBlocks`); phis name the true predecessors when no arm of
  a condition or loop has control flow of its own (`PhisMatchEdges`); operands
  are defined where used (`OperandsAvailable`), nothing null is dereferenced and
  LLVM is handed no operand of a wrong type (`SupportedCompiles`), calls are to
  the callees written (`CalledAsWritten`) and code does not depend on what was
  compiled before (`HistoryIndependent`), all four for the functions that
  `Supported` describes by syntax alone.  A function compiled in the middle of
  another, even inside one of its branches, keeps its own code in front of
  everything the other leaves in its blocks (`InterruptionSpares`); of several
  functions of one name the first to be compiled does.  Nothing is
  added to a function compiled in one piece (`CompiledCodeKept`), although
  `codeFunction` and the irBuilder stay where it ended, but for a local function of
  the same name: `getOrMakeFunction` finds the compiled function for it, and its code
  begins in a block added to that.  `Inductive` and
  `SupportedInductive` are the invariants of the proofs.  And for supported flat
  functions the machine code does what the function says
  (`RunsAsWritten`): the same events in the same order and the same result, for
  a true and a false argument and for host subroutines that return either.
- **functions** (`MCLlvmFunctions.cfg`): a caller and two functions with bindings
  and signatures that vary.  Definitions find their own arguments behind the result
  slot (`ArgumentsAreOwn`), the declarations of a name agree across modules
  (`DeclarationsAgree`), a call is well-typed exactly when its callee is untyped
  or given its own types (`CallsMatch`), and a name leads to one function
  (`NamesReachOneFunction`), all for symbols without `@@@` and distinct
  bindings, which is what `LlvmBackend.cpp:61` says should be checked.
- **sections** (`MCSectionBlocks.cfg`): `NeverOutOfBounds`, the assertion of
  `Block::Next` holds for every order of sections; `SectionsApart`, also without
  assertions; `ImageBaseIsLowest`, `ImageBase` is the address unwind offsets are
  from as long as the lowest block is used, and never 0 with assertions;
  `Inductive`, the invariant of the proofs.

`Supported` and `Flat` are therefore part of what the run shows: they say what
the compiler can translate.  They leave out branch values that are pointers (a
call, a variable: the phi is of the instance type), loop bodies that are not
pointers (`compile/Loop` loads unconditionally), and, for phis, arms with
control flow of their own, whose last block is not the one the phi names.
`Unshared` is the same kind of condition, for `RunsAsWritten`: variables are
passed as pointers to their slots, so an argument that assigns a variable
passed before it, or a function that assigns its parameter, is seen through the
pointer.  TLC finds `RunsAsWritten` violated without `Unshared`, and a phi with
no value to take without `Flat`.

Runs that find a violation, each one a finding:

| Run | The code says | and does |
| --- | --- | --- |
| **foreign_ir** | `LlvmBackend.h:16`: an LlvmModule holds all the IR for a module | a call into another module leaves the rest of the caller in that module |
| **disk_fault** | `LlvmBackend.h:19-21`: the subroutine caches jit'ed code | when `output.o` cannot be opened, it caches a handle with no code |
| **name_clash** | `LlvmModule.cpp:77`: `assert(entry->_cult == snode)` | two statements of a module that bind functions of one symbol violate it |
| **codegen_default** | `LlvmCompiler.cpp:190`: "default returned" | the value of an earlier node is returned |
| **seh_stale** | `WindowsMemoryManager.cpp:185,188`: remove from lookup, unregister | the base looked up was zeroed by `finalizeMemory`; nothing is removed |

### Bounds
- *Programs* (`MCLlvmPipeline.tla`): three functions and two modules give
  forward, backward, mutual, self and cross-module calls, import cycles, and a
  function compiled inside a function compiled inside a third, and functions
  that call one of their own name.  Layouts vary
  where functions live, the order of statements, and functions no statement
  binds.
- `MaxDepth = 22` activations: without recursion a stack holds at most one
  `require` and one `compile` frame per function, and one `generate` or `lookup`
  frame, for each module being generated and once more before any is:
  `(2+1)*(2*3+1) = 21`.  Reaching 22 therefore means recursion, which is what
  `DeathHasCause` checks and the theorem `DeathsHaveCauses` shows in general.
- *SEH*: three objects, four pages, so that a third object has to use the memory
  of a removed one; three addresses per page, enough for two adjacent functions
  that share a boundary address; unwind tables at the start of their block and
  not.  Objects are interchangeable and their symmetry is used only with
  invariants.
- *Codegen*: `Subroutines` are the module-level values that are a `PSubroutine`
  (`print`); a call of any other that is not a function throws, as in the code.
  The programs are a helper of one parameter with five bodies and a main function
  whose body combines each kind of node with each kind of test, nested at most
  control flow in control flow; a second level shows every disagreement of
  blocks a deeper one could.  For execution, two statements in a row read, test
  and change one variable, with three more helpers.  `MaxEvents = 12` lets a
  loop go around at least three times before the traces are cut.
- *Functions*: one type besides the untyped one; symbols and uris that give the
  same name when the separator is split elsewhere, and ones that nearly do; and
  `MaxCalls = 2` calls, so that a call finds the declaration another one made and
  definitions and calls come in any order.
- *Sections*: three sections in three interchangeable blocks 8 bytes long, with
  alignments 1, 2 and 4.  The theorems have no such bounds.

### Fairness
`FairSpec` asks for `WF_vars(Step)`: the thread that has entered the backend
keeps executing.  Nothing else runs on it and no step of it waits, so this is
what the operating system gives any process.  Nobody is obliged to make demands
(`Demand` and `DemandLookup` are outside `Step`).

## 4. What is proved

For every set of functions, modules, symbols and programs and every stack depth
(the assumptions are `ConstantsAssumption` and `TargetAssumption` of
`LlvmPipeline`, which say the programs are well-formed and the markers are no
names):

- `TypeCorrect`: `Spec => []TypeOK`, including that `irBuilder` always points
  into an existing block.
- `RecursionHasNoEntry`: `Spec => []NoEntryForRecursion`.
- `EveryCallIsLinked`: `Spec => []CallsLinked`.
- `PipelineImplementsJitImage`: `Spec => Image!Spec` when `DiskFaults = FALSE`, and
  `InstalledCodeIsClosed`: `Spec => []Image!Closed`, the resolver is never asked for
  a name that was not added.
- `StrayCodeIsUnreachable`: `Spec => []StrayCodeFollowsReturn`.
- `AlwaysInductive` of `LlvmPipelineCodeProofs`: `Spec => []Inductive`, the whole
  invariant.
- `OrderedCodeIsWhole`: `Spec => []OrderedProgramsAreWhole`.
- `GeneratedModulesAreComplete`: `Spec => []GeneratedMeansComplete`.
- `DeathsHaveCauses`: `Spec => []DeathHasCause` for finite programs whose stack
  has `MaxDepth > (Cardinality(Modules) + 1) * (2 * Cardinality(Functions) + 1)`;
  the assumption says the stack is not so small that straight nesting fills it.
- `ImageIsClosed`: `Image!Spec => []Image!Closed`, nothing in an image that develops
  as `JitImage` says refers to a name that is not in it.  `InstalledCodeIsClosed`
  follows from it and the refinement.
- `AlwaysInductive`, `TypesKept`, `BlocksAreWellFormed`, `PhisNameTheirEdges` and
  `NothingIsAdded` (about `LlvmCodegen`, from `SyntaxAssumption`): `Spec => []Inductive`,
  `[]TypeOK`, `[]WellFormedBlocks`, `[]PhisMatchEdges` and `CompiledCodeKept`, for any
  set of programs, bodies nested to any depth, any number of branches, statements
  and arguments, recursive calls, local functions and rejected nodes anywhere.
- `AlwaysSupported`, `SupportedFunctionsCompile` and `CallsAreAsWritten` (about
  `LlvmSupported`, from `SyntaxAssumption` and `AnalysisAssumption`):
  `Spec => []SupportedInductive`, `[]SupportedCompiles` and `[]CalledAsWritten`, for
  any set of programs again.
- `AlwaysInductive`, `SectionsFit`, `SectionsAreApart` and `TablesCountFromLowest`
  (about `SectionBlocks`, from `BlocksAssumption`): `Spec => []Inductive`,
  `[]NeverOutOfBounds`, `[]SectionsApart` and `[]ImageBaseIsLowest`,
  for any number of blocks and sections, any sizes, and any alignments of which
  the smaller divide the larger, as powers of two do.
- `OneFunctionPerName` and `OneTypePerName` (about `LlvmFunctions`, from
  `FunctionsAssumption`): `Spec => []NamesReachOneFunction` and
  `Spec => []DeclarationsAgree`, for any set of programs with any bindings and
  signatures; `TypeCorrect`: `Spec => []TypeOK`; `OwnArguments` and
  `CallsFitIfUntyped`: `Spec => []ArgumentsAreOwn` and `Spec => []CallsMatch`,
  when `PointerSize = 8`.
- `TypeCorrect`, `AssertionsHaveCauses`, `NoThrowIsLost`, `ThrowsAreOwn` and
  `NoThrowIsAnothers` (about `SehFrames`, from `MemoryAssumption`, which only says
  that pages have positive numbers and hold at least three addresses): `Spec => []P` for every
  invariant of the two runs *seh* and *seh_release*, in both builds, for any memory
  and any number of objects.

The argument.  None of the pipeline's is inductive alone, because the actions act on
behalf of what waits further down the stack.  `LlvmPipelineInv` adds:
`StackShape`, what may stand on what (a `require` frame above a call site that
waits for that very function, and so on), from which the action that returns
knows whom it returns to; `TargetSet`, an activation that emits has a block to
emit to; `StackDone`, all callees an activation has already passed reach no
cycle, which with the next node and `NoEntryForRecursion` gives the conclusion
at the moment an entry is defined; `JitConsistent`, a handle is cached exactly
for the installed names.  The proofs have a lemma per action and conjunct.
The links need one more observation: `FinishCallSite` specializes before it
emits, and a copy is made of code whose calls are linked already, so the copy's
are too.  For the refinement, only `FinishLlvmCall` and `FinishCallSite` change
`installed`, and each is an `Install` or a stutter.

Whose code is where needs no count of what is emitted.  `Beginnings(f)[i]` is the
set of the codes that `f`, compiled alone, may have after `i` nodes, and
`OwnCodes(f)` those with the return; they are sets because a rejected local
function may or may not leave a store.  The definition is by recursion over the
nodes, and `Steps` shows that such a function exists.  `BlockAtHand` then says that
the block `target` points at has a whole code of its function in front
(`Whole`), or belongs to the innermost function being compiled and holds what that
has done so far (`Progress`).  A step does one of four things to it
(`BlockKinds`): nothing, a node of the innermost function, a new block, or a return
with whatever follows.  When a nested compilation ends, the block at hand is
`Whole`, which nothing emitted later can change; hence all strays are behind a
return.

In an ordered program `OneByOne` adds that no function is ever compiled in the
middle of another: the function being compiled is on top of the stack, or below a
`require` of a callee that has its entry.  The callee has it
(`CalleeIsThere`) because its statement comes earlier in the module whose
`generate` frame, by `StatementsDone`, has got as far as the caller's.  The block at
hand is then that function's only one, so with the return it is one of `OwnCodes`.

For `SectionBlocks` the observation is `Room`: `Addr` rounded up to the block's
greatest alignment, plus what RuntimeDyld has not used of its sum, never passes
`End`.  A section of a smaller alignment goes at most that far up, because
rounding to a divisor and then to the multiple is rounding to the multiple, and
uses at least its size of the sum.  `Reserved` keeps the blocks apart, `Passed`
keeps `Addr` behind every section, and the two give `SectionsApart`.

For `LlvmFunctions` the names come first (`MangledNameInjective`): where the
symbol ends three `@` stand and then something else, so of two equal names
neither symbol can end before the other does (`NotShorter`), and with the symbols
the uris agree.  No name is as short as a runtime function's (`NotInternal`).
Then `Origins` says what each `llvm::Function` was made from: the fixed type of a
runtime function or the signature of a function of that name, translated with
the structs in the cache; translating it again gives the same (`OneType`).
`Own` adds, for the compiled functions, that theirs exists, that the cache has
their structs and that their arguments are bound in order.  Pointers of 8 bytes
are needed: with 4, an instance is no larger than 8 bytes, no slot is made for
the result, and `transmuteArgumentIndex` would be wrong.

`GeneratedMeansComplete` needs to know which frame fills which module.
`StatementsDone` says that each generated module is complete or has a `generate`
frame that has got its first statements done.  To keep it, `Settled` shows that a
module without such a frame changes no entry it has, since entries are added to
a name only while it has none.  `GeneratedOnce` makes the frame unique: nothing
below a `generate` frame fills the entries of the same module.  When the stack is
empty no frame is left, and `GeneratedMeansComplete` follows.

`DeathHasCause` is two arguments.  That no function gets a second definition
(`NotYetDefined`) is by following the stack: from a frame that compiles a
function to a later one that compiles it again there is a path of calls
(`PathStep`), which is recursion (`PathRecursive`), or a path through imports,
which is a cycle of them (`PathCycle`), or another function of the same name.
That the stack stays below `MaxDepth` without recursion is by counting: two
frames between which no module is begun and which do the same thing to the same
function are on a cycle of calls (`SameLabel`), so that a frame's module begun
last and its task identify it, and there are no more of these pairs than the
bound (`Tasks`, `DepthBound`).

For `SehFrames` the invariant `IInv` relates three records of the same fact: the
pages an object holds (`PagesHeld`), the frames it remembers (`FramesInPage`: their
functions are in its code page) and the ranges in the static map.  `RangesKept`:
the range of every live table is under its base, and with assertions nothing else
is; `RangesOwned`: any other range is under the base of a former image, and until
something is removed there is none.  When an assertion fails, the range in the way
is not that of another live image (`BasesApart`, `NoBaseInForeignPage`), so it is a
former one's.
`BaseUntilFinal` is what makes removals forget nothing: the base is right until
`finalizeMemory` and 0 when `deregisterEHFrames` looks it up.

For `ImageBaseIsLowest`, `FirstAtBase` follows the first section of each block,
which stands at its base because the base is aligned for every section of it.
For `CallsMatch`, `CallsKnown` ties the operands of a call to the values its
caller had when it was made.

For `LlvmCodegen` an induction over the syntax tree is what one would expect, and
what the provers cannot do.  With the walk's stack in the state, the induction is
over steps instead, and what the induction hypothesis would say of the parts still
to be compiled is said of the frames that wait for them (`LlvmCodegenInv`):

- `Bottom` and `Middle` are the shape of the stack: at the bottom a `define` and a
  `return` frame of the function that was required, and any later `define` or
  `return` is of a function begun in the middle of another.
- `Torn` are the functions interrupted or begun that way.  As long as the required
  function is not among them (`Live`), each of its blocks is the one the irBuilder
  is in, or is `Pending` in exactly one frame, or is ended: one terminator, the last
  instruction, with targets in the function (`Blocked`).  `Pending` blocks have no
  terminator.  That a pending block is awaited by one frame only is what makes the
  blocks come out with one terminator, not two.
- `Edged` says, until control flow is nested in an arm, where the edges into the
  blocks a frame has yet to branch to (`Aims`) come from: the predecessors of a
  condition's merge block are the places its frame has gathered for the phi, a
  loop's condition is entered from `entry` alone, and no two frames aim at one
  block.  The conjunct about `Arm` and `InFlow` keeps the irBuilder in the block that the arm
  began with.
- `Loose`: once the required function is torn, the irBuilder, `codeFunction` and
  every block a frame names belong to torn functions.  `Kept`: a function that is
  done and not torn is ended, every block, with matching phis.  Together they give
  `NothingIsAdded`: each step changes blocks of torn functions, or of the live one,
  which is not done (`Mine`, `Grown`).
- `Standing`: the blocks that frames name exist, and so does the irBuilder's.

A handler's step is described by what it does to the blocks (`Onward`: it pops its
frame, pushes frames, makes blocks and adds to its own), to the edges and to what is
pending (`Framed`, `Flow`, `Steered`); `StepKeeps` shows once that such a step keeps
the invariant, and there is a lemma per handler that its step is one
(`GenConditionKeeps`, `GenArmKeeps`, `GenLoopKeeps` and so on).
Interruption and return are separate (`NestedFunctionKeeps`, `EndFunctionKeeps`).
`SyntaxAssumption` says what the constructors of the syntax tree guarantee (a
condition has a branch, a call site has a callee).  Functions of one name, of the
module or inside others, are compiled to one `llvm::Function`, the one that
`getOrMakeFunction` finds; the assumption asks that they have as many parameters,
since `pushScope` would otherwise take arguments from beyond that function's own.
A function that is done gets such a namesake's block behind its own (`Reopens`) and
is torn from then on.

For `SupportedCompiles` and `CalledAsWritten` the same method needs two more records
of what the frames wait for (`LlvmSupportedInv`), of the required function, as long
as it is `Live` and supported:

- `Fed`: what comes down to each frame is of a type the frame goes on with.
  `Wants(frame)` are these types; what comes is `Gives` of the nearest frame above
  that leaves a value of its own (a `compile` frame leaves `TypeOf` of its node),
  past the ones that store and leave what they find (`Passes`), or else
  `lastReturnedValue` as it is now.
- `CallsAddUp`: the callees of the calls emitted, with those each frame has yet to
  call (`ToCome`), are the callees the function is written with.  The runtime's
  truth function, which tests call, is left out of account.

`Provided` is what a frame needs besides: the bindings of its part are of scopes that
have values (`Fits`, with `Pushed`: scopes are never popped, so that what is there
stays there), the arguments gathered are instances, and the callee takes as many.
`Scoped` says that a scope's value is a pointer unless it has no slots.

The two are invariants because a handler consumes exactly what it was promised, and
what it pushes adds up to what it was: `Continues` is the conclusion of the lemma of
each handler (`CallContinues`, `IfContinues`, `NewCalleeContinues` and so on) and
says that the step emits only what LLVM accepts, and feeds what stands below as
before.  `Carries` does once what all handlers share, `CallsAllOn` what the ones
that push a frame per part do.  A step of a function that is not
supported, or has been torn, may crash or offend LLVM; `StepBlames` notes that it is
that function which is blamed (`Blamed`).  When an interruption tears the required
function nothing is left to be shown of it, and when it ends in one piece `ToCome`
is empty, so that what was called is what is written.

Only model-checked:

- `DemandEnds`, liveness, which is out of the prover's reach;
- `OperandsAvailable`: which blocks control must pass is a set computed by
  iteration over the blocks (`Avoiding`), and the induction along it is over data;
- `HistoryIndependent` and `InterruptionSpares`, which compare with a second run of
  the walk, and `RunsAsWritten`, which compares two evaluations: they are defined by
  recursion.

## 5. What is not modelled

- `addJit`, `removeJit`, `genInstanceCast`, `popScope` and `MergeRanges` have no callers.
- LLVM itself: optimization, the ORC layers, code generation.  The target
  machine's refusal to emit a file is a second early return of `addModule` with
  the same effect as the modelled one.
- The layers of ORC: `addModule` gives modules to the compile-on-demand layer and
  the resolver asks the layer below it.  `JitImage` shows that names are added
  before they are referred to; when LLVM's layers show them is theirs.
- The leaked `DataLayout` objects; reference counts, which belong to another
  library; how much stack calls in a loop take, which depends on the optimizer.
- Platforms with 4 byte pointers or names that get an underscore: the code has
  constants for 8 bytes (`transmuteArgumentIndex` relies on a result being larger
  than 8 bytes), and internal functions carry the underscore in their names.
- What a function does that was cut by the compilation of another: part of its
  code is elsewhere, which is the finding of *foreign_ir*.  `LlvmCodegen` computes
  such code; its properties are about the functions that did the cutting and
  those that were left alone.
- After a failed `assert` of `LlvmModule::require` a release build would go on
  with the other function's entry; the model stops.
- The read-eval-print loop, providers and builtin module: no state of interest.

## 6. Plan

Done, in this order: `LlvmPipeline` with its runs; `JitImage` and the
refinement; the inductive invariant and the first proofs; `SehFrames`;
`LlvmCodegen`; `LlvmFunctions`; `SectionBlocks` with its proofs;
`InterruptionSpares`; `LlvmExecution`; the proofs about `LlvmFunctions`.

Also done: the proofs about `SehFrames`, the rest of `LlvmFunctions`, the whole
inductive invariant of the pipeline, complete modules, the causes of death, whose
code is where, and ordered programs; and `LlvmCodegen` as a walk with an
explicit stack, with its invariant and proofs.  Then what
supported functions are, as constants with rules, and the proofs that they compile
and call what they say.  Every invariant of the passing runs has a theorem but
`OperandsAvailable`, `HistoryIndependent`, `InterruptionSpares` and `RunsAsWritten`.

What could follow: `OperandsAvailable`, with the blocks that dominate the irBuilder's
as a record in each frame; and a simulation between two walks, from which
`HistoryIndependent` would follow.

## 7. Running

`tlc -config X.cfg M` for a run of module `M`; `tlapm M.tla` for the modules
with proofs.  `PROJECT.json` lists the runs, the mutated definitions that show
each property can fail, the source lines of every definition, and the hazards.
