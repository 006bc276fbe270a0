SPECIFICATION Spec
CONSTANTS
  Programs <- MCPrograms
  Nodes <- MCNodes
  Subroutines = {"print"}
  Subtree <- MCSubtree
  TypeOf <- MCTypeOf
  FreeScopes <- MCFreeScopes
  Slotless = {"bare", "nothing"}
  MaxEvents = 12
INVARIANT
  DefaultReturned
