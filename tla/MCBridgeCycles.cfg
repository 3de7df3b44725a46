\* Two handles and two objects besides the global one: cycles, collections.
CONSTANTS
  Runtimes = {r1}
  Handles = {h1, h2}
  Objects = {o1, o2, o3}
  Names = {n1}
  Indices = {}
  Prim = Prim
  NULL = NULL
  AllocMayFail = FALSE
  MaxArgs = 0
SPECIFICATION Spec
SYMMETRY Symmetry
CONSTRAINTS
  PendingInSmallHeap
  NoModules
INVARIANTS
  HandleKeepsValue
\* A runtime that has been freed takes no further step.
CHECK_DEADLOCK FALSE
