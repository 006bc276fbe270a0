SPECIFICATION FairSpec
CONSTANTS
  foo = foo  bar = bar  baz = baz  A = A  B = B  sf = sf  sg = sg  sh = sh
  Functions = {foo, bar, baz}
  Modules = {A, B}
  Symbols = {sf, sg, sh}
  Programs <- MCPrograms
  Runtime = Runtime
  NoNode = NoNode
  NoTarget = NoTarget
  NoModule = NoModule
  MaxDepth = 22
  DiskFaults = FALSE
PROPERTIES
  ImplementsJitImage
  DemandEnds
