\* Two runtimes; handles of one passed to calls on the other.
CONSTANTS
  Runtimes = {r1, r2}
  Handles = {h1, h2}
  Objects = {o1, o2, o3}
  Names = {n1}
  Indices = {}
  Prim = Prim
  NULL = NULL
  AllocMayFail = FALSE
  MaxArgs = 1
SPECIFICATION Spec
SYMMETRY Symmetry
CONSTRAINTS
  TwoProperties
  NoModules
  NoPending
INVARIANTS
  HeapsAreSeparate
\* A runtime that has been freed takes no further step.
CHECK_DEADLOCK FALSE
