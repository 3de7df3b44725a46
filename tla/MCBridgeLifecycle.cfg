\* Two handles of one runtime; every allocation may fail.
CONSTANTS
  Runtimes = {r1}
  Handles = {h1, h2}
  Objects = {o1, o2}
  Names = {n1}
  Indices = {}
  Prim = Prim
  NULL = NULL
  AllocMayFail = TRUE
  MaxArgs = 0
SPECIFICATION Spec
SYMMETRY Symmetry
INVARIANTS
  TypeOK
  ValueCountExact
  RuntimeOutlivesHandles
  RuntimeNotLeaked
  ReferencesBalanced
  NothingLeaked
PROPERTIES
  ImplementsOwnership
\* A runtime that has been freed takes no further step.
CHECK_DEADLOCK FALSE
