SPECIFICATION Spec
CONSTANTS
  Programs <- MCPrograms
  Nodes <- MCNodes
  Subroutines = {"print"}
  Subtree <- MCSubtree
  TypeOf <- MCTypeOf
  FreeScopes <- MCFreeScopes
  Slotless = {"bare", "nothing"}
  MaxEvents = 12
INVARIANTS
  TypeOK
  Inductive
  SupportedInductive
  WellFormedBlocks
  PhisMatchEdges
  OperandsAvailable
  SupportedCompiles
  CalledAsWritten
  HistoryIndependent
  InterruptionSpares
  RunsAsWritten
PROPERTIES
  CompiledCodeKept
