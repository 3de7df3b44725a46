\* One handle and room for a module, its namespace copy and the global object.
CONSTANTS
  Runtimes = {r1}
  Handles = {h1}
  Objects = {o1, o2, o3}
  Names = {}
  Indices = {i1}
  Prim = Prim
  NULL = NULL
  AllocMayFail = FALSE
  MaxArgs = 0
SPECIFICATION Spec
SYMMETRY Symmetry
CONSTRAINTS
  PendingInSmallHeap
INVARIANTS
  ReferencesBalanced
  NothingLeaked
\* A runtime that has been freed takes no further step.
CHECK_DEADLOCK FALSE
