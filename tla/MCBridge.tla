------------------------------ MODULE MCBridge ------------------------------
(* Model-checking instances of Bridge. *)
EXTENDS Bridge, TLC

\* Addresses are interchangeable; so are runtimes.
Symmetry ==
  Permutations(Handles) \cup Permutations(Objects) \cup Permutations(Runtimes)

\* Bounds on the states from which calls are made.  What is cut in one run is explored by
\* another: see the README.
Properties == {e \in Objects \X Keys : heap.slot[e[1]][e[2]] # Prim}

NoModules == \A r \in Runtimes : heap.mods[r] = {}
NoPending == \A r \in Runtimes : heap.exc[r] = NULL
OneProperty == Cardinality(Properties) <= 1
TwoProperties == Cardinality(Properties) <= 2
PendingInSmallHeap == NoPending \/ OneProperty

=============================================================================
