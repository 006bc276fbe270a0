SPECIFICATION Spec
CONSTANTS
  caller = caller  foo = foo  bar = bar  T = T
  Functions = {caller, foo, bar}
  Types = {T}
  ExpressionAny = ExpressionAny
  Programs <- MCPrograms
  PointerSize = 8
  MaxCalls = 2
INVARIANTS
  TypeOK
  ArgumentsAreOwn
  DeclarationsAgree
  CallsMatch
  NamesReachOneFunction
