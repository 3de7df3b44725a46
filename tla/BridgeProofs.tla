---------------------------- MODULE BridgeProofs ----------------------------
(***************************************************************************)
(* Proofs about Bridge for any number of runtimes, handles and objects:    *)
(* the counter of a runtime is exact, a runtime outlives its handles and   *)
(* is not leaked, and the bridge implements HandleOwnership.               *)
(***************************************************************************)
EXTENDS Bridge, FiniteSetTheorems, TLAPS

-----------------------------------------------------------------------------
(* What a step does to the lifecycle variables: one of five shapes. *)

Same == UNCHANGED <<mem, destroying, value_count, live, runtime>>

Grow(r, h) ==
  /\ mem[r] = "live"
  /\ h \in Handles \ live
  /\ live' = live \cup {h}
  /\ runtime' = [runtime EXCEPT ![h] = r]
  /\ value_count' = [value_count EXCEPT ![r] = @ + 1]
  /\ UNCHANGED <<mem, destroying>>

Begin(r) ==
  /\ mem[r] = "none"
  /\ mem' = [mem EXCEPT ![r] = "live"]
  /\ UNCHANGED <<destroying, value_count, live, runtime>>

Close(r) ==
  /\ mem[r] = "live" /\ ~destroying[r]
  /\ destroying' = [destroying EXCEPT ![r] = TRUE]
  /\ mem' = IF value_count[r] = 0 THEN [mem EXCEPT ![r] = "freed"] ELSE mem
  /\ UNCHANGED <<value_count, live, runtime>>

Shrink(r, h) ==
  /\ h \in live /\ runtime[h] = r /\ mem[r] = "live"
  /\ LET rest == IF value_count[r] > 0 THEN value_count[r] - 1 ELSE 0
     IN  /\ value_count' = [value_count EXCEPT ![r] = rest]
         /\ mem' = IF value_count[r] > 0 /\ destroying[r] /\ rest = 0
                   THEN [mem EXCEPT ![r] = "freed"] ELSE mem
  /\ live' = live \ {h}
  /\ runtime' = [runtime EXCEPT ![h] = NULL]
  /\ UNCHANGED destroying

Shape ==
  \/ Same
  \/ \E r \in Runtimes : \E h \in Handles : Grow(r, h) \/ Shrink(r, h)
  \/ \E r \in Runtimes : Begin(r) \/ Close(r)

\* The ends of a call either leave the lifecycle alone or allocate one handle.
LEMMA FailShape ==
  ASSUME NEW r \in Runtimes, NEW H, Fails(r, H)
  PROVE  Same
BY DEF Fails, lifecycle, Same

\* So does a call that fails because the engine threw (capture_exception).
LEMMA ExceptionShape ==
  ASSUME NEW r \in Runtimes, NEW outcomes, FailsWithException(r, outcomes)
  PROVE  Same
BY FailShape DEF FailsWithException

\* new_value_handle adds one counted handle, or nothing when calloc fails.
LEMMA NewHandleShape ==
  ASSUME NEW r \in Runtimes, NEW H, NEW v, mem[r] = "live", new_value_handle(r, H, v)
  PROVE  Same \/ \E h \in Handles : Grow(r, h)
BY FailShape DEF new_value_handle, Grow

\* A call that returns a value handle adds one handle to its runtime, or none.
LEMMA HandleShape ==
  ASSUME NEW r \in Runtimes, NEW outcomes, mem[r] = "live", ReturnsHandle(r, outcomes)
  PROVE  Same \/ \E h \in Handles : Grow(r, h)
BY ExceptionShape, NewHandleShape DEF ReturnsHandle

\* A call that returns a status adds no handle and destroys none.
LEMMA StatusShape ==
  ASSUME NEW r \in Runtimes, NEW outcomes, ReturnsStatus(r, outcomes)
  PROVE  Same
BY ExceptionShape DEF ReturnsStatus, Succeeds, lifecycle, Same

\* The js_runtime_* calls that make a value add at most one handle.
LEMMA RuntimeCallShape ==
  ASSUME NEW r \in Runtimes, NEW arg,
         \/ js_runtime_new_bool(r) \/ js_runtime_new_number(r)
         \/ js_runtime_get_global_property(r, arg) \/ js_runtime_eval_value(r, arg)
         \/ js_runtime_new_string(r, arg) \/ js_runtime_new_bigint(r, arg)
         \/ js_runtime_import_module(r, arg)
  PROVE  Same \/ \E h \in Handles : Grow(r, h)
<1>1. CASE js_runtime_new_bool(r) \/ js_runtime_new_number(r)
  BY <1>1, HandleShape DEF js_runtime_new_bool, js_runtime_new_number, Owned
<1>2. CASE js_runtime_get_global_property(r, arg)
  BY <1>2, HandleShape, FailShape DEF js_runtime_get_global_property, Owned
<1>3. CASE js_runtime_eval_value(r, arg)
  BY <1>3, HandleShape, FailShape DEF js_runtime_eval_value, Owned
<1>4. CASE js_runtime_new_string(r, arg)
  BY <1>4, HandleShape, FailShape DEF js_runtime_new_string, Owned
<1>5. CASE js_runtime_new_bigint(r, arg)
  BY <1>5, HandleShape, FailShape DEF js_runtime_new_bigint, Owned
<1>6. CASE js_runtime_import_module(r, arg)
  BY <1>6, HandleShape, ExceptionShape, FailShape, ZenonT(30) DEF js_runtime_import_module, Owned
<1> QED
  BY <1>1, <1>2, <1>3, <1>4, <1>5, <1>6, SMTT(30)

\* The js_value_* calls other than js_value_destroy add at most one handle.
LEMMA ValueCallShape ==
  ASSUME NEW h \in Handles, NEW arg, NEW w, NEW args, RuntimeOutlivesHandles,
         \/ js_value_to_number(h) \/ js_value_to_string(h) \/ js_value_is_array(h)
         \/ js_value_array_length(h)
         \/ js_value_get_property(h, arg) \/ js_value_set_property(h, arg, w)
         \/ js_value_get_index(h, arg) \/ js_value_set_index(h, arg, w)
         \/ js_value_construct(h, args) \/ js_value_call(h, w, args)
  PROVE  Same \/ \E r \in Runtimes : \E g \in Handles : Grow(r, g)
<1> DEFINE r == runtime[h]
<1>0. valid_value(h)
  BY SMTT(30) DEF js_value_to_number, js_value_to_string, js_value_is_array, js_value_array_length,
         js_value_get_property, js_value_set_property, js_value_get_index,
         js_value_set_index, js_value_construct, js_value_call
<1>1. r \in Runtimes /\ mem[r] = "live"
  BY <1>0, SMTT(30) DEF RuntimeOutlivesHandles, valid_value
<1> HIDE DEF r
<1>2. CASE js_value_to_number(h) \/ js_value_to_string(h) \/ js_value_is_array(h)
  BY <1>1, <1>2, FailShape, SMTT(30) DEF js_value_to_number, js_value_to_string, js_value_is_array,
     Succeeds, lifecycle, Same, r
<1>3. CASE js_value_array_length(h)
  BY <1>1, <1>3, FailShape, ExceptionShape, SMTT(30) DEF js_value_array_length, Succeeds, lifecycle, Same, r
<1>4. CASE js_value_get_property(h, arg) \/ js_value_get_index(h, arg)
  BY <1>1, <1>4, FailShape, HandleShape, SMTT(30) DEF js_value_get_property, js_value_get_index, r
<1>5. CASE js_value_set_property(h, arg, w) \/ js_value_set_index(h, arg, w)
  BY <1>1, <1>5, FailShape, StatusShape, SMTT(30) DEF js_value_set_property, js_value_set_index, r
<1>6. CASE js_value_construct(h, args) \/ js_value_call(h, w, args)
  BY <1>1, <1>6, FailShape, HandleShape, SMTT(30) DEF js_value_construct, js_value_call, r
<1> QED
  BY <1>2, <1>3, <1>4, <1>5, <1>6, SMTT(30)

\* Every step of the bridge has one of the five shapes.
LEMMA StepShape ==
  ASSUME Next, RuntimeOutlivesHandles
  PROVE  Shape
<1>1. CASE free_zero_refcount_obj
  BY <1>1 DEF free_zero_refcount_obj, lifecycle, Same, Shape
<1>2. ASSUME NEW r \in Runtimes,
             js_runtime_create(r) \/ js_runtime_destroy(r)
               \/ js_runtime_enable_std_module(r)
      PROVE  Shape
  <2>1. CASE js_runtime_create(r)
    BY <2>1, Zenon DEF js_runtime_create, Begin, Shape
  <2>2. CASE js_runtime_destroy(r)
    BY <2>2, Zenon DEF js_runtime_destroy, free_runtime_if, Owned, Close, Shape
  <2>3. CASE js_runtime_enable_std_module(r)
    BY <2>3, ExceptionShape
    DEF js_runtime_enable_std_module, Succeeds, lifecycle, Same, Shape
  <2> QED
    BY <1>2, <2>1, <2>2, <2>3
<1>3. ASSUME NEW r \in Runtimes, NEW arg,
             \/ js_runtime_new_bool(r) \/ js_runtime_new_number(r)
             \/ js_runtime_get_global_property(r, arg) \/ js_runtime_eval_value(r, arg)
             \/ js_runtime_new_string(r, arg) \/ js_runtime_new_bigint(r, arg)
             \/ js_runtime_import_module(r, arg)
      PROVE  Shape
  BY <1>3, RuntimeCallShape DEF Shape
<1>4. ASSUME NEW h \in Handles, js_value_destroy(h)
      PROVE  Shape
  <2>1. h \in live /\ runtime[h] \in Runtimes /\ mem[runtime[h]] = "live"
    BY <1>4, SMTT(30) DEF js_value_destroy, valid_value, RuntimeOutlivesHandles
  <2>2. Shrink(runtime[h], h)
    BY <1>4, <2>1 DEF js_value_destroy, free_runtime_if, Shrink
  <2> QED
    BY <2>1, <2>2, SMTT(30) DEF Shape
<1>5. ASSUME NEW h \in Handles, NEW arg, NEW w, NEW args,
             \/ js_value_to_number(h) \/ js_value_to_string(h) \/ js_value_is_array(h)
             \/ js_value_array_length(h)
             \/ js_value_get_property(h, arg) \/ js_value_set_property(h, arg, w)
             \/ js_value_get_index(h, arg) \/ js_value_set_index(h, arg, w)
             \/ js_value_construct(h, args) \/ js_value_call(h, w, args)
      PROVE  Shape
  BY <1>5, ValueCallShape DEF Shape
<1> QED
  BY <1>1, <1>2, <1>3, <1>4, <1>5, SMTT(30) DEF Next

-----------------------------------------------------------------------------
(* The inductive invariant.  The three properties are not inductive on their *)
(* own: a step that frees a runtime must know that the flag was set and that *)
(* the counter, not the set of handles, is what the code looks at.           *)

FlagsAgree ==
  \A r \in Runtimes :
    /\ destroying[r] => mem[r] # "none"
    /\ mem[r] = "freed" => destroying[r]

LifecycleInv ==
  /\ LifecycleTypeOK
  /\ ValueCountExact
  /\ RuntimeOutlivesHandles
  /\ RuntimeNotLeaked
  /\ FlagsAgree

\* Sets of handles are finite, so their cardinalities are natural numbers.
LEMMA HandlesOfFinite ==
  ASSUME LifecycleTypeOK, NEW r \in Runtimes
  PROVE  /\ IsFiniteSet(HandlesOf(r))
         /\ Cardinality(HandlesOf(r)) \in Nat
         /\ Cardinality(HandlesOf(r)) = 0 <=> HandlesOf(r) = {}
<1>1. HandlesOf(r) \subseteq Handles
  BY DEF HandlesOf, LifecycleTypeOK
<1>2. IsFiniteSet(HandlesOf(r))
  BY <1>1, FS_Subset, BridgeAssumption
<1> QED
  BY <1>2, FS_CardinalityType, FS_EmptySet

\* The invariant holds before the first js_runtime_create.
LEMMA InitInv ==
  Init => LifecycleInv
<1> SUFFICES ASSUME Init PROVE LifecycleInv
  OBVIOUS
<1>1. LifecycleTypeOK
  BY DEF Init, LifecycleTypeOK
<1>2. \A r \in Runtimes : HandlesOf(r) = {}
  BY DEF Init, HandlesOf
<1>3. ValueCountExact
  BY <1>2, FS_EmptySet, Zenon DEF Init, ValueCountExact
<1>4. RuntimeOutlivesHandles /\ RuntimeNotLeaked /\ FlagsAgree
  BY DEF Init, RuntimeOutlivesHandles, RuntimeNotLeaked, FlagsAgree
<1> QED
  BY <1>1, <1>3, <1>4 DEF LifecycleInv

\* Allocating a handle.
LEMMA GrowInv ==
  ASSUME LifecycleInv, NEW r \in Runtimes, NEW h \in Handles, Grow(r, h)
  PROVE  /\ LifecycleInv'
         /\ HandlesOf(r)' = HandlesOf(r) \cup {h}
         /\ \A q \in Runtimes : q # r => HandlesOf(q)' = HandlesOf(q)
<1> USE DEF LifecycleInv
<1>1. LifecycleTypeOK'
  BY DEF LifecycleTypeOK, Grow
<1>2. HandlesOf(r)' = HandlesOf(r) \cup {h} /\ h \notin HandlesOf(r)
  BY DEF HandlesOf, Grow, LifecycleTypeOK
<1>3. \A q \in Runtimes : q # r => HandlesOf(q)' = HandlesOf(q)
  BY DEF HandlesOf, Grow, LifecycleTypeOK
<1>4. Cardinality(HandlesOf(r)') = Cardinality(HandlesOf(r)) + 1
  BY <1>2, HandlesOfFinite, FS_AddElement, ZenonT(30)
<1>5. ValueCountExact'
  BY <1>3, <1>4 DEF ValueCountExact, Grow, LifecycleTypeOK
<1>6. RuntimeOutlivesHandles'
  BY DEF RuntimeOutlivesHandles, Grow, LifecycleTypeOK
<1>7. RuntimeNotLeaked'
  BY <1>2, <1>3 DEF RuntimeNotLeaked, Grow
<1>8. FlagsAgree'
  BY DEF FlagsAgree, Grow
<1> QED
  BY <1>1, <1>2, <1>3, <1>5, <1>6, <1>7, <1>8, SMTT(30)

\* Destroying a handle, and the runtime with the last one.
LEMMA ShrinkInv ==
  ASSUME LifecycleInv, NEW r \in Runtimes, NEW h \in Handles, Shrink(r, h)
  PROVE  /\ LifecycleInv'
         /\ HandlesOf(r)' = HandlesOf(r) \ {h}
         /\ \A q \in Runtimes : q # r => HandlesOf(q)' = HandlesOf(q)
         /\ mem' = IF destroying[r] /\ HandlesOf(r) = {h}
                   THEN [mem EXCEPT ![r] = "freed"] ELSE mem
<1> USE DEF LifecycleInv
<1>1. HandlesOf(r)' = HandlesOf(r) \ {h} /\ h \in HandlesOf(r)
  BY BridgeAssumption DEF HandlesOf, Shrink, LifecycleTypeOK
<1>2. \A q \in Runtimes : q # r => HandlesOf(q)' = HandlesOf(q)
  BY BridgeAssumption DEF HandlesOf, Shrink, LifecycleTypeOK
<1>3. Cardinality(HandlesOf(r)') = Cardinality(HandlesOf(r)) - 1
  BY <1>1, HandlesOfFinite, FS_RemoveElement, ZenonT(30)
<1>4. value_count[r] = Cardinality(HandlesOf(r)) /\ value_count[r] \in Nat /\ value_count[r] > 0
  BY <1>1, HandlesOfFinite DEF ValueCountExact
<1>5. value_count' = [value_count EXCEPT ![r] = value_count[r] - 1]
  BY <1>4 DEF Shrink
<1>6. value_count[r] = 1 <=> HandlesOf(r)' = {}
  <2>1. IsFiniteSet(HandlesOf(r) \ {h})
    BY HandlesOfFinite, FS_RemoveElement
  <2>2. Cardinality(HandlesOf(r) \ {h}) = 0 <=> HandlesOf(r) \ {h} = {}
    BY <2>1, FS_EmptySet
  <2> QED
    BY <1>1, <1>3, <1>4, <2>2
<1>7. mem' = IF destroying[r] /\ HandlesOf(r)' = {} THEN [mem EXCEPT ![r] = "freed"] ELSE mem
  BY <1>4, <1>6 DEF Shrink
<1>8. LifecycleTypeOK'
  BY <1>4, <1>5, <1>7 DEF LifecycleTypeOK, Shrink
<1>9. ValueCountExact'
  BY <1>2, <1>3, <1>4, <1>5, SMTT(30) DEF ValueCountExact, LifecycleTypeOK
<1>10. RuntimeOutlivesHandles'
  <2> SUFFICES ASSUME NEW g \in live'
               PROVE  runtime'[g] \in Runtimes /\ mem'[runtime'[g]] = "live"
    BY DEF RuntimeOutlivesHandles
  <2>1. g \in live /\ g # h /\ runtime'[g] = runtime[g]
    BY DEF Shrink, LifecycleTypeOK
  <2>2. runtime[g] \in Runtimes /\ mem[runtime[g]] = "live"
    BY <2>1 DEF RuntimeOutlivesHandles
  <2>3. runtime[g] = r => HandlesOf(r)' # {}
    BY <2>1, <1>1, SMTT(30) DEF HandlesOf
  <2> QED
    BY <2>1, <2>2, <2>3, <1>7 DEF LifecycleTypeOK
<1>11. RuntimeNotLeaked'
  BY <1>2, <1>7, SMTT(30) DEF RuntimeNotLeaked, Shrink, LifecycleTypeOK
<1>12. FlagsAgree'
  BY <1>7 DEF FlagsAgree, Shrink, LifecycleTypeOK
<1>13. HandlesOf(r)' = {} <=> HandlesOf(r) = {h}
  BY <1>1
<1> QED
  BY <1>1, <1>2, <1>7, <1>8, <1>9, <1>10, <1>11, <1>12, <1>13, SMTT(30)

\* Steps that leave the handles alone leave every runtime its handles.
LEMMA SameHandles ==
  ASSUME UNCHANGED <<live, runtime>>
  PROVE  \A r \in Runtimes : HandlesOf(r)' = HandlesOf(r)
BY DEF HandlesOf

\* Steps that leave the lifecycle alone keep the invariant.
LEMMA SameInv ==
  ASSUME LifecycleInv, Same
  PROVE  LifecycleInv'
BY SameHandles DEF LifecycleInv, LifecycleTypeOK, ValueCountExact, RuntimeOutlivesHandles,
   RuntimeNotLeaked, FlagsAgree, Same

\* A runtime that was just created has no handles yet.
LEMMA BeginInv ==
  ASSUME LifecycleInv, NEW r \in Runtimes, Begin(r)
  PROVE  LifecycleInv' /\ HandlesOf(r) = {} /\ ~destroying[r]
<1> USE DEF LifecycleInv
<1>1. \A q \in Runtimes : HandlesOf(q)' = HandlesOf(q)
  BY SameHandles DEF Begin
<1>2. HandlesOf(r) = {} /\ ~destroying[r]
  BY DEF HandlesOf, RuntimeOutlivesHandles, FlagsAgree, Begin
<1>3. LifecycleTypeOK' /\ FlagsAgree'
  BY DEF LifecycleTypeOK, FlagsAgree, Begin
<1>4. ValueCountExact'
  BY <1>1 DEF ValueCountExact, Begin
<1>5. RuntimeOutlivesHandles'
  BY DEF RuntimeOutlivesHandles, Begin, LifecycleTypeOK
<1>6. RuntimeNotLeaked'
  BY <1>1, <1>2 DEF RuntimeNotLeaked, Begin, LifecycleTypeOK
<1> QED
  BY <1>2, <1>3, <1>4, <1>5, <1>6, SMTT(30)

\* js_runtime_destroy frees the runtime exactly when it has no handles.
LEMMA CloseInv ==
  ASSUME LifecycleInv, NEW r \in Runtimes, Close(r)
  PROVE  /\ LifecycleInv'
         /\ mem' = IF HandlesOf(r) = {} THEN [mem EXCEPT ![r] = "freed"] ELSE mem
<1> USE DEF LifecycleInv
<1>1. \A q \in Runtimes : HandlesOf(q)' = HandlesOf(q)
  BY SameHandles DEF Close
<1>2. value_count[r] = 0 <=> HandlesOf(r) = {}
  BY HandlesOfFinite DEF ValueCountExact
<1>3. mem' = IF HandlesOf(r) = {} THEN [mem EXCEPT ![r] = "freed"] ELSE mem
  BY <1>2 DEF Close
<1>4. LifecycleTypeOK' /\ FlagsAgree'
  BY <1>3 DEF LifecycleTypeOK, FlagsAgree, Close
<1>5. ValueCountExact'
  BY <1>1 DEF ValueCountExact, Close
<1>6. RuntimeOutlivesHandles'
  <2> SUFFICES ASSUME NEW g \in live
               PROVE  runtime[g] \in Runtimes /\ mem'[runtime[g]] = "live"
    BY DEF RuntimeOutlivesHandles, Close
  <2>1. runtime[g] \in Runtimes /\ mem[runtime[g]] = "live"
    BY DEF RuntimeOutlivesHandles
  <2>2. runtime[g] = r => HandlesOf(r) # {}
    BY DEF HandlesOf
  <2> QED
    BY <2>1, <2>2, <1>3 DEF LifecycleTypeOK
<1>7. RuntimeNotLeaked'
  BY <1>1, <1>3 DEF RuntimeNotLeaked, Close, LifecycleTypeOK
<1> QED
  BY <1>3, <1>4, <1>5, <1>6, <1>7, SMTT(30)

\* Every step keeps the invariant.
LEMMA StepInv ==
  LifecycleInv /\ [Next]_vars => LifecycleInv'
<1> SUFFICES ASSUME LifecycleInv, [Next]_vars PROVE LifecycleInv'
  OBVIOUS
<1>1. CASE Next
  <2>1. Shape
    BY <1>1, StepShape DEF LifecycleInv
  <2> QED
    BY <2>1, SameInv, GrowInv, ShrinkInv, BeginInv, CloseInv DEF Shape
<1>2. CASE UNCHANGED vars
  BY <1>2, SameInv DEF vars, Same
<1> QED
  BY <1>1, <1>2

\* In every reachable state value_count is the number of live handles of its runtime,
\* a runtime is allocated while a handle refers to it, and it is freed once destroyed
\* and without handles: js_runtime_destroy, js_value_destroy and new_value_handle.
THEOREM LifecycleCorrect ==
  Spec => [](ValueCountExact /\ RuntimeOutlivesHandles /\ RuntimeNotLeaked)
<1>1. LifecycleInv => ValueCountExact /\ RuntimeOutlivesHandles /\ RuntimeNotLeaked
  BY DEF LifecycleInv
<1> QED
  BY InitInv, StepInv, <1>1, PTL DEF Spec

-----------------------------------------------------------------------------
(* The bridge implements shared ownership. *)

\* At the start no runtime has an owner.
LEMMA InitOwnership ==
  Init => Ownership!Init
<1> SUFFICES ASSUME Init PROVE Ownership!Init
  OBVIOUS
<1>1. \A r \in Runtimes : OwnersOf(r) = {}
  BY DEF Init, OwnersOf, HandlesOf
<1> QED
  BY <1>1 DEF Init, Ownership!Init

\* A new value handle is a new owner of its runtime.
LEMMA GrowAcquires ==
  ASSUME LifecycleInv, NEW r \in Runtimes, NEW h \in Handles, Grow(r, h)
  PROVE  Ownership!Acquire(r, h)
<1>1. /\ HandlesOf(r)' = HandlesOf(r) \cup {h}
      /\ \A q \in Runtimes : q # r => HandlesOf(q)' = HandlesOf(q)
  BY GrowInv
<1>2. /\ OwnersOf(r)' = OwnersOf(r) \cup {h}
      /\ \A q \in Runtimes : q # r => OwnersOf(q)' = OwnersOf(q)
  BY <1>1 DEF OwnersOf, Grow
<1>3. OwnersOf(r) # {}
  BY DEF OwnersOf, Grow, LifecycleInv, RuntimeNotLeaked
<1>4. \A q \in Runtimes : h \notin OwnersOf(q)
  BY BridgeAssumption DEF OwnersOf, HandlesOf, Grow
<1> QED
  BY <1>2, <1>3, <1>4, ZenonT(30) DEF Ownership!Acquire, Grow

\* js_value_destroy drops an owner, and frees the runtime with the last one.
LEMMA ShrinkDrops ==
  ASSUME LifecycleInv, NEW r \in Runtimes, NEW h \in Handles, Shrink(r, h)
  PROVE  Ownership!Drop(r, h)
<1>1. /\ HandlesOf(r)' = HandlesOf(r) \ {h}
      /\ \A q \in Runtimes : q # r => HandlesOf(q)' = HandlesOf(q)
      /\ mem' = IF destroying[r] /\ HandlesOf(r) = {h}
                THEN [mem EXCEPT ![r] = "freed"] ELSE mem
  BY ShrinkInv
<1>2. h \in OwnersOf(r) /\ h # NULL
  BY BridgeAssumption DEF OwnersOf, HandlesOf, Shrink
<1>3. /\ OwnersOf(r)' = OwnersOf(r) \ {h}
      /\ \A q \in Runtimes : q # r => OwnersOf(q)' = OwnersOf(q)
  BY <1>1, <1>2, SMTT(30) DEF OwnersOf, Shrink, LifecycleInv, LifecycleTypeOK
<1>4. OwnersOf(r) = {h} <=> destroying[r] /\ HandlesOf(r) = {h}
  BY <1>2 DEF OwnersOf, HandlesOf, Shrink
<1>5. mem' = [mem EXCEPT ![r] = IF OwnersOf(r) = {h} THEN "freed" ELSE mem[r]]
  BY <1>1, <1>4, Zenon DEF LifecycleInv, LifecycleTypeOK
<1> QED
  BY <1>2, <1>3, <1>5, ZenonT(30) DEF Ownership!Drop

\* js_runtime_create makes the caller the only owner.
LEMMA BeginCreates ==
  ASSUME LifecycleInv, NEW r \in Runtimes, Begin(r)
  PROVE  Ownership!Create(r)
<1>1. HandlesOf(r) = {} /\ ~destroying[r]
  BY BeginInv
<1>2. \A q \in Runtimes : HandlesOf(q)' = HandlesOf(q)
  BY SameHandles DEF Begin
<1>3. OwnersOf(r)' = {NULL} /\ \A q \in Runtimes : q # r => OwnersOf(q)' = OwnersOf(q)
  BY <1>1, <1>2 DEF OwnersOf, Begin, LifecycleInv, LifecycleTypeOK
<1> QED
  BY <1>3, Zenon DEF Ownership!Create, Begin

\* js_runtime_destroy drops the creator.
LEMMA CloseDrops ==
  ASSUME LifecycleInv, NEW r \in Runtimes, Close(r)
  PROVE  Ownership!Drop(r, NULL)
<1>1. mem' = IF HandlesOf(r) = {} THEN [mem EXCEPT ![r] = "freed"] ELSE mem
  BY CloseInv
<1>2. \A q \in Runtimes : HandlesOf(q)' = HandlesOf(q) /\ NULL \notin HandlesOf(q)
  BY SameHandles, BridgeAssumption DEF Close, HandlesOf, LifecycleInv, LifecycleTypeOK
<1>3. OwnersOf(r) = HandlesOf(r) \cup {NULL}
  BY DEF OwnersOf, Close
<1>4. /\ OwnersOf(r)' = OwnersOf(r) \ {NULL}
      /\ \A q \in Runtimes : q # r => OwnersOf(q)' = OwnersOf(q)
  BY <1>1, <1>2, <1>3 DEF OwnersOf, Close, LifecycleInv, LifecycleTypeOK
<1>5. mem' = [mem EXCEPT ![r] = IF OwnersOf(r) = {NULL} THEN "freed" ELSE mem[r]]
  BY <1>1, <1>2, <1>3, ZenonT(30) DEF LifecycleInv, LifecycleTypeOK
<1> QED
  BY <1>3, <1>4, <1>5, ZenonT(30) DEF Ownership!Drop

\* Other calls change nothing that HandleOwnership shows.
LEMMA SameStutters ==
  ASSUME Same
  PROVE  UNCHANGED Ownership!vars
BY SameHandles DEF Same, Ownership!vars, OwnersOf

\* Every step of the bridge is a step of HandleOwnership or none.
LEMMA StepOwnership ==
  LifecycleInv /\ [Next]_vars => [Ownership!Next]_(Ownership!vars)
<1> SUFFICES ASSUME LifecycleInv, [Next]_vars PROVE [Ownership!Next]_(Ownership!vars)
  OBVIOUS
<1>1. CASE Next
  <2>1. Shape
    BY <1>1, StepShape DEF LifecycleInv
  <2>2. CASE Same
    BY <2>2, SameStutters
  <2>3. CASE \E r \in Runtimes : \E h \in Handles : Grow(r, h) \/ Shrink(r, h)
    BY <2>3, GrowAcquires, ShrinkDrops DEF Ownership!Next
  <2>4. CASE \E r \in Runtimes : Begin(r) \/ Close(r)
    BY <2>4, BeginCreates, CloseDrops DEF Ownership!Next
  <2> QED
    BY <2>1, <2>2, <2>3, <2>4 DEF Shape
<1>2. CASE UNCHANGED vars
  BY <1>2, SameStutters DEF vars, Same
<1> QED
  BY <1>1, <1>2

\* Every behaviour of the bridge is one of HandleOwnership under the mapping of
\* Bridge!Ownership: counting handles and deferring the free implement it.
THEOREM BridgeImplementsOwnership ==
  Spec => ImplementsOwnership
BY InitInv, StepInv, InitOwnership, StepOwnership, PTL
   DEF Spec, ImplementsOwnership, Ownership!Spec

=============================================================================
