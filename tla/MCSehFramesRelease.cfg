SPECIFICATION Spec
CONSTANTS
  Managers = {m1, m2, m3}
  Pages = {1, 2, 3, 4}
  PageSize = 3
  Debug = FALSE
  None = None
SYMMETRY Symmetry
INVARIANTS
  LiveCodeIsFound
  ThrowsFromOwnImage
