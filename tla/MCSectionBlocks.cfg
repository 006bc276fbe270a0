SPECIFICATION Spec
CONSTANTS
  Code = Code  ROData = ROData  RWData = RWData
  Blocks <- MCBlocks
  Bases = {8, 16, 24}
  Spacing = 8
  Alignments = {1, 2, 4}
  Sizes = {1, 3}
  Totals = {0, 4, 8}
  Builds = {TRUE, FALSE}
  MaxSections = 3
SYMMETRY Symmetry
INVARIANTS
  Inductive
  NeverOutOfBounds
  SectionsApart
  ImageBaseIsLowest
