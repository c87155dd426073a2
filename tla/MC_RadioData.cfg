CONSTANTS
  b1 = b1
  b2 = b2
  BinderThreads <- MCBinderThreads
  MaxId = 4
  MaxSetups = 3
SYMMETRY Symmetry
SPECIFICATION Spec
INVARIANT IdsExclusive
INVARIANT ReturnedBelowGenerator
PROPERTY AllocatorRefinement
