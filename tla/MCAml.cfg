CONSTANT
    Trees <- MCTrees
SPECIFICATION Spec
INVARIANTS
    TilesBuffer
    PackagesNest
