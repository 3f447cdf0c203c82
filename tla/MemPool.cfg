\* a pool of two sub pools, with and without XJR_MP_OPTS_NOALIGN
SPECIFICATION Spec
CONSTANTS
  SubSize = 6
  MaxPools = 2
  Hdr = 1
  Invalid = 3
  Sizes = {1, 2, 5}
  Contents = {x, y}
INVARIANTS PoolSound ServedWhenRoom
PROPERTIES ImplementsHeap PointersStable
SYMMETRY Symmetry
