-------------------------- MODULE LlvmPipelineInv --------------------------
(***************************************************************************)
(* The inductive invariant behind the theorems about LlvmPipeline: what    *)
(* the native stack looks like, and what each activation on it has already *)
(* achieved.                                                               *)
(***************************************************************************)
EXTENDS LlvmPipeline

\* Activation x is at a node of the given kind for function f
Waiting(x, kind, f) ==
  /\ x.op = "compile"
  /\ x.site \in DOMAIN Body(x.fn)
  /\ Body(x.fn)[x.site] = [kind |-> kind, fn |-> f]

\* generate() has taken the statement that binds f
Taken(x, f) ==
  /\ x.op = "generate"
  /\ x.next - 1 \in DOMAIN program.stmts[x.mod]
  /\ program.stmts[x.mod][x.next - 1] = f

\* The module an activation works in
ModOf(x) ==
  CASE x.op = "generate" -> x.mod
    [] x.op = "lookup" -> x.name[2]
    [] OTHER -> program.home[x.fn]

\* What may run directly on top of what
Bottom(y) == y.op \in {"require", "lookup"}
Above(x, y) ==
  \/ y.op = "require" /\ Waiting(x, "call", y.fn)
  \/ y.op = "generate" /\ x.op \in {"require", "lookup"} /\ y.mod = ModOf(x)
  \/ /\ y.op = "compile" /\ y.entry
     /\ Taken(x, y.fn) \/ (x.op = "require" /\ x.fn = y.fn)
  \/ y.op = "compile" /\ ~y.entry /\ Waiting(x, "local", y.fn)

Shape(s) ==
  /\ s # <<>> => Bottom(s[1])
  /\ \A i \in 2..Len(s) : Above(s[i - 1], s[i])

StackShape == Shape(stack)

\* An activation that emits has somewhere to emit to
TargetSet ==
  (\E i \in DOMAIN stack : stack[i].op = "compile") => target # NoTarget

\* The functions an activation has already got code for reach no cycle
SitesDone(x) ==
  x.op = "compile" =>
    \A i \in DOMAIN Body(x.fn) :
      i < x.site /\ Body(x.fn)[i].kind \in {"call", "local"} =>
        ~Recursive(Body(x.fn)[i].fn)
StackDone == \A i \in DOMAIN stack : SitesDone(stack[i])

\* A module is complete, or its generate() is still at work, possibly inside
\* the compilation of the statement it took last
Bound(m, i) == entries[NameOf(program.stmts[m][i])] = program.stmts[m][i]
StatementsDone ==
  \A m \in generated :
    \/ \A i \in DOMAIN program.stmts[m] : Bound(m, i)
    \/ \E k \in DOMAIN stack :
         /\ stack[k].op = "generate" /\ stack[k].mod = m
         /\ \A i \in DOMAIN program.stmts[m] :
              i < stack[k].next =>
                \/ Bound(m, i)
                \/ /\ i = stack[k].next - 1
                   /\ k < Len(stack) /\ stack[k + 1].op = "compile"

\* A handle is cached for exactly the names the JIT has, when files open
JitConsistent ==
  /\ \A n \in Name : installed[n] # <<>> => n \in jitted
  /\ ~DiskFaults => \A n \in jitted : installed[n] # <<>>

\* An _Entry is found under its function's name
NamedEntries == \A n \in Name : entries[n] # NoNode => NameOf(entries[n]) = n

\* A function that is or was compiled has a block, unless its signature is rejected
CodeMade ==
  /\ \A n \in Name :
       entries[n] # NoNode /\ entries[n] \notin program.opaque => code[n] # <<>>
  /\ \A i \in DOMAIN stack : stack[i].op = "compile" =>
       stack[i].fn \notin program.opaque /\ code[NameOf(stack[i].fn)] # <<>>

\* Activation x fills the entries of module m
Fills(x, m) ==
  \/ x.op = "generate" /\ x.mod = m
  \/ x.op = "compile" /\ x.entry /\ program.home[x.fn] = m

\* A module is generated once, before anything of it is compiled for an entry
GeneratedOnce ==
  /\ \A i \in DOMAIN stack, m \in Modules : Fills(stack[i], m) => m \in generated
  /\ \A i, j \in DOMAIN stack :
       i < j /\ stack[j].op = "generate" => ~Fills(stack[i], stack[j].mod)

\* A function that is being compiled for an _Entry has none yet
NotYetDefined ==
  \/ \A i \in DOMAIN stack : stack[i].op = "compile" /\ stack[i].entry =>
       entries[NameOf(stack[i].fn)] = NoNode
  \/ ImportCycle \/ SharedName

\* The block the irBuilder appends to has its function's whole code, or is the
\* one of the innermost function being compiled, with the nodes compiled so far
Innermost(i) ==
  stack[i].op = "compile" /\ \A j \in DOMAIN stack : j > i => stack[j].op # "compile"
Progress(x, block) ==
  x.site \in 1..(Len(Body(x.fn)) + 1) /\ block \in Beginnings(x.fn)[x.site - 1]
Whole(n, block) ==
  \E f \in Functions : NameOf(f) = n /\ \E c \in OwnCodes(f) : IsPrefix(c, block)
BlockAtHand ==
  target # NoTarget =>
    LET block == code[target.name][target.block]
    IN \/ Whole(target.name, block)
       \/ \E i \in DOMAIN stack : /\ Innermost(i) /\ NameOf(stack[i].fn) = target.name
                                 /\ Progress(stack[i], block)

\* In an ordered program a function is compiled with no other in its middle: the
\* callee required at a call has an _Entry.  The function's name is new.
Alone(i) ==
  LET f == stack[i].fn
      n == NameOf(f)
  IN /\ entries[n] = NoNode
     /\ target = [name |-> n, block |-> 1]
     /\ Len(code[n]) = 1 /\ Progress(stack[i], code[n][1])
     /\ i < Len(stack) => /\ i = Len(stack) - 1
                          /\ Top.op = "require"
                          /\ program.home[Top.fn] \in generated
                          /\ entries[NameOf(Top.fn)] = Top.fn
OneByOne ==
  Ordered =>
    /\ \A i \in DOMAIN stack : stack[i].op = "compile" => Alone(i)
    /\ \A n \in Name : entries[n] = NoNode =>
         /\ installed[n] = <<>>
         /\ \/ code[n] = <<>>
            \/ \E i \in DOMAIN stack : stack[i].op = "compile" /\ NameOf(stack[i].fn) = n

\* The conjunction is inductive; TLC checks it beside the properties it implies
Inductive ==
  /\ TypeOK /\ StackShape /\ TargetSet
  /\ StackDone /\ NoEntryForRecursion
  /\ StatementsDone
  /\ CallsLinked /\ JitConsistent
  /\ NamedEntries /\ CodeMade
  /\ GeneratedOnce /\ NotYetDefined
  /\ StrayCodeFollowsReturn /\ BlockAtHand
  /\ OrderedProgramsAreWhole /\ OneByOne
=============================================================================
