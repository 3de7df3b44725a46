--------------------------- MODULE HandleOwnership ---------------------------
(***************************************************************************)
(* What the bridge promises about the memory of a runtime, without its     *)
(* counter and flag: a runtime is shared by its creator and by the value   *)
(* handles made from it, any of which may let go at any time and in any    *)
(* order; it is released when the last of them does.                       *)
(***************************************************************************)
CONSTANTS Runtimes, Handles, Creator   \* Creator is no member of Handles

VARIABLES
  state,    \* "none", "live" or "freed", for every runtime
  owners    \* who may still use it

vars == <<state, owners>>

Init ==
  /\ state = [r \in Runtimes |-> "none"]
  /\ owners = [r \in Runtimes |-> {}]

Create(r) ==
  /\ state[r] = "none"
  /\ state' = [state EXCEPT ![r] = "live"]
  /\ owners' = [owners EXCEPT ![r] = {Creator}]

\* A new value handle.  One can be made from another after the creator has let go.
Acquire(r, h) ==
  /\ owners[r] # {}
  /\ \A q \in Runtimes : h \notin owners[q]
  /\ owners' = [owners EXCEPT ![r] = @ \cup {h}]
  /\ UNCHANGED state

Drop(r, x) ==
  /\ x \in owners[r]
  /\ owners' = [owners EXCEPT ![r] = @ \ {x}]
  /\ state' = [state EXCEPT ![r] = IF owners[r] = {x} THEN "freed" ELSE @]

Next ==
  \E r \in Runtimes :
    \/ Create(r)
    \/ \E h \in Handles : Acquire(r, h)
    \/ \E x \in Handles \cup {Creator} : Drop(r, x)

Spec == Init /\ [][Next]_vars

=============================================================================
