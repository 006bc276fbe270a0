----------------------------- MODULE LlvmHistory -----------------------------
(***************************************************************************)
(* What else was compiled, before a function or in the middle of another,  *)
(* and the code the function gets: against the code it gets by itself.     *)
(***************************************************************************)
EXTENDS LlvmSupported

\* The code a function gets from a fresh state, where it meets no callee that is
\* not compiled
RECURSIVE Completed(_)
Completed(st) ==
  IF st.stack = <<>> \/ st.crashed # "no" THEN st ELSE Completed(Continue(st))
FreshBlocks(n) ==
  Completed(Call([Fresh EXCEPT !.entries = DOMAIN program], Compiling(n)))
    .blocks[n.name]

\* Every function of the program: those of the module, and those inside them
Functions ==
  UNION { { k \in Subtree(program[f]) : k.op = "function" } : f \in DOMAIN program }

-----------------------------------------------------------------------------
\* Properties that hold

\* The compile state is shared by all functions and its scopes are never popped;
\* still a supported function gets the code it would get in a fresh state.
HistoryIndependent ==
  \A f \in Compiled : SupportedFunction(f) => c.blocks[f] = FreshBlocks(program[f])

\* A function compiled in the middle of another, a callee or a local function of
\* it, gets the rest of the other's code: compile/Function restores neither
\* codeFunction nor the irBuilder.  All of that comes after its own code, block by
\* block, even where the other was in a branch and goes on to make blocks.  Of
\* several functions of one name the first to be compiled has its code in front:
\* that is where a call of any of them goes.
InFront(n) ==
  /\ n.name \in DOMAIN c.blocks
  /\ LET own == FreshBlocks(n) IN
     /\ Len(own) <= Len(c.blocks[n.name])
     /\ \A b \in DOMAIN own : IsPrefix(own[b], c.blocks[n.name][b])
InterruptionSpares ==
  c.crashed = "no" /\ c.stack = <<>> =>
    \A f \in c.within \ c.cut :
      LET named == { n \in Functions : n.name = f }
      IN (\A n \in named : SupportedNode(n)) => \E n \in named : InFront(n)
=============================================================================
