\* Two exports: the copy of a namespace may stop before, between or after them.
CONSTANTS
  Runtimes = {r1}
  Handles = {h1}
  Objects = {o1, o2, o3}
  Names = {n1}
  Indices = {i1}
  Prim = Prim
  NULL = NULL
  AllocMayFail = TRUE
  MaxArgs = 0
SPECIFICATION Spec
SYMMETRY Symmetry
CONSTRAINTS
  OneProperty
  NoPending
INVARIANTS
  ReferencesBalanced
\* A runtime that has been freed takes no further step.
CHECK_DEADLOCK FALSE
