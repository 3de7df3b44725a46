---------------------------- MODULE BridgeTypes -----------------------------
(***************************************************************************)
(* Bridge keeps its type invariant: every operator on the heap returns a   *)
(* heap, every engine call an outcome, and no handle holds JS_EXCEPTION.   *)
(***************************************************************************)
EXTENDS BridgeProofs

Outcomes == [heap : HeapType, val : Values \cup {Exception}]

\* Where an engine call hands over a value, and not an exception.
Yields == [heap : HeapType, val : Values]

\* Properties and objects can be counted.
LEMMA KeysFinite ==
  IsFiniteSet(Keys) /\ IsFiniteSet(Objects)
BY BridgeAssumption, FS_Union, Zenon DEF Keys

-----------------------------------------------------------------------------
(* Operators on a heap.  The types of the new fields are steps of their own: *)
(* no prover does both the arithmetic and the record update.                 *)

\* JS_DupValue returns a heap.
LEMMA DupValueType ==
  ASSUME NEW H \in HeapType, NEW v
  PROVE  DupValue(H, v) \in HeapType
<1>1. CASE v \in Objects
  <2>1. [H.ref EXCEPT ![v] = @ + 1] \in [Objects -> Int]
    BY <1>1 DEF HeapType
  <2> QED
    BY <1>1, <2>1, Zenon DEF DupValue, HeapType
<1>2. CASE v \notin Objects
  BY <1>2 DEF DupValue
<1> QED
  BY <1>1, <1>2

\* JS_FreeValue returns a heap.
LEMMA FreeValueType ==
  ASSUME NEW H \in HeapType, NEW v
  PROVE  FreeValue(H, v) \in HeapType
<1>1. CASE v \in Objects
  <2>1. [H.ref EXCEPT ![v] = @ - 1] \in [Objects -> Int]
    BY <1>1 DEF HeapType
  <2>2. (IF H.ref[v] = 1 THEN H.zero \cup {v} ELSE H.zero) \in SUBSET Objects
    BY <1>1 DEF HeapType
  <2> QED
    BY <1>1, <2>1, <2>2, Zenon DEF FreeValue, HeapType
<1>2. CASE v \notin Objects
  BY <1>2 DEF FreeValue
<1> QED
  BY <1>1, <1>2

\* Allocating an object returns a heap.
LEMMA NewObjectType ==
  ASSUME NEW H \in HeapType, NEW r \in Runtimes, NEW o \in Objects
  PROVE  NewObject(H, r, o) \in HeapType
<1>1. [H.home EXCEPT ![o] = r] \in [Objects -> Runtimes \cup {NULL}]
  BY DEF HeapType
<1>2. [H.ref EXCEPT ![o] = 1] \in [Objects -> Int]
  BY DEF HeapType
<1> QED
  BY <1>1, <1>2, Zenon DEF NewObject, HeapType

\* Setting the global object or adding a module record returns a heap.
LEMMA RootType ==
  ASSUME NEW H \in HeapType, NEW r \in Runtimes, NEW o \in Objects
  PROVE  SetGlobal(H, r, o) \in HeapType /\ AddModule(H, r, o) \in HeapType
BY Zenon DEF SetGlobal, AddModule, HeapType

\* Storing a property returns a heap.
LEMMA PutSlotType ==
  ASSUME NEW H \in HeapType, NEW p \in Objects, NEW k \in Keys, NEW v \in Values
  PROVE  PutSlot(H, p, k, v) \in HeapType
<1>1. [H EXCEPT !.slot[p][k] = v] \in HeapType
  BY Zenon DEF HeapType
<1> QED
  BY <1>1, FreeValueType DEF PutSlot

\* JS_Throw returns a heap.
LEMMA ThrowType ==
  ASSUME NEW H \in HeapType, NEW r \in Runtimes, NEW v \in Values \cup {NULL}
  PROVE  JS_Throw(H, r, v) \in HeapType
<1>1. [H EXCEPT !.exc[r] = v] \in HeapType
  BY Zenon DEF HeapType
<1> QED
  BY <1>1, FreeValueType DEF JS_Throw

\* The number of properties that refer to an object is a number.
LEMMA InDegreeType ==
  ASSUME NEW H, NEW S \in SUBSET Objects, NEW o
  PROVE  InDegree(H, S, o) \in Nat
<1>1. IsFiniteSet(S \X Keys)
  BY KeysFinite, FS_Subset, FS_Product
<1>2. IsFiniteSet({e \in S \X Keys : H.slot[e[1]][e[2]] = o})
  BY <1>1, FS_Subset
<1> QED
  BY <1>2, FS_CardinalityType DEF InDegree

\* Freeing objects returns a heap.
LEMMA FreeObjectsType ==
  ASSUME NEW H \in HeapType, NEW S \in SUBSET Objects
  PROVE  FreeObjects(H, S) \in HeapType
<1> DEFINE ref == [o \in Objects |-> IF o \in S THEN 0 ELSE H.ref[o] - InDegree(H, S, o)]
<1>1. ref \in [Objects -> Int]
  BY InDegreeType DEF HeapType
<1>2. [o \in Objects |-> IF o \in S THEN [k \in Keys |-> Prim] ELSE H.slot[o]]
        \in [Objects -> [Keys -> Values]]
  BY DEF HeapType, Values
<1>3. [o \in Objects |-> IF o \in S THEN NULL ELSE H.home[o]]
        \in [Objects -> Runtimes \cup {NULL}]
  BY DEF HeapType
<1>4. (H.zero \ S) \cup {o \in Objects \ S : ref[o] = 0 /\ H.ref[o] > 0} \in SUBSET Objects
  BY SMTT(30) DEF HeapType
<1> QED
  BY <1>1, <1>2, <1>3, <1>4, Zenon DEF FreeObjects, HeapType

\* JS_FreeContext returns a heap.
LEMMA DropRootsType ==
  ASSUME NEW H \in HeapType, NEW r \in Runtimes
  PROVE  DropRoots(H, r) \in HeapType
<1>1. [o \in Objects |-> H.ref[o] - (IF o \in H.mods[r] THEN 1 ELSE 0)
                                - (IF o = H.global[r] THEN 1 ELSE 0)
                                - (IF o = H.exc[r] THEN 1 ELSE 0)] \in [Objects -> Int]
  BY DEF HeapType
<1>2. /\ [H.mods EXCEPT ![r] = {}] \in [Runtimes -> SUBSET Objects]
      /\ [H.global EXCEPT ![r] = NULL] \in [Runtimes -> Objects \cup {NULL}]
      /\ [H.exc EXCEPT ![r] = NULL] \in [Runtimes -> Values \cup {NULL}]
  BY DEF HeapType
<1> QED
  BY <1>1, <1>2, Zenon DEF DropRoots, HeapType

\* A collection and JS_FreeRuntime return a heap.
LEMMA CollectType ==
  ASSUME NEW H \in HeapType, NEW r \in Runtimes
  PROVE  js_trigger_gc(H, r) \in SUBSET HeapType /\ JS_FreeRuntime(H, r) \in HeapType
<1>1. Garbage(H, r) \in SUBSET Objects
  BY Zenon DEF Garbage, gc_decref
<1>2. JS_RunGC(H, r) \in HeapType
  BY <1>1, FreeObjectsType DEF JS_RunGC
<1> QED
  BY <1>2, DropRootsType, FreeObjectsType DEF js_trigger_gc, JS_FreeRuntime

\* Copying the exports of a module returns a heap.
LEMMA CopyPropertiesType ==
  ASSUME NEW H \in HeapType, NEW m \in Objects, NEW o \in Objects, NEW K \in SUBSET Keys
  PROVE  CopyProperties(H, m, o, K) \in HeapType
<1> DEFINE Copies(x) == Cardinality({k \in K : H.slot[m][k] = x})
<1>1. \A x : Copies(x) \in Nat
  BY KeysFinite, FS_Subset, FS_CardinalityType
<1>2. [H.slot EXCEPT ![o] = [k \in Keys |-> IF k \in K THEN H.slot[m][k] ELSE Prim]]
        \in [Objects -> [Keys -> Values]]
  BY DEF HeapType, Values
<1>3. [x \in Objects |-> H.ref[x] + Copies(x)] \in [Objects -> Int]
  <2> HIDE DEF Copies
  <2> QED
    BY <1>1 DEF HeapType
<1> QED
  BY <1>2, <1>3, Zenon DEF CopyProperties, HeapType

-----------------------------------------------------------------------------
(* Engine calls. *)

\* Code that returns without a collection yields a heap and a value.
LEMMA ReturnedType ==
  ASSUME NEW H \in HeapType, NEW r \in Runtimes, NEW args
  PROVE  Returned(H, r, args) \in SUBSET Yields
BY DupValueType, NewObjectType
   DEF Returned, Outcome, Yields, Values, FreshObjects, HeapOf

\* Code that throws without a collection yields a heap and JS_EXCEPTION.
LEMMA ThrownType ==
  ASSUME NEW H \in HeapType, NEW r \in Runtimes, NEW args
  PROVE  Thrown(H, r, args) \in SUBSET Outcomes
BY ReturnedType, ThrowType DEF Thrown, Outcome, Yields, Outcomes

\* Code that assigns to a property without a collection yields a heap.
LEMMA AssignedType ==
  ASSUME NEW H \in HeapType, NEW r \in Runtimes, NEW args \in SUBSET Values
  PROVE  Assigned(H, r, args) \in SUBSET Outcomes
BY DupValueType, PutSlotType DEF Assigned, Outcome, Outcomes, HeapOf, Values

\* Code that returns yields a heap and a value.
LEMMA ReturnsType ==
  ASSUME NEW H \in HeapType, NEW r \in Runtimes, NEW args
  PROVE  Returns(H, r, args) \in SUBSET Yields
BY CollectType, ReturnedType DEF Returns

\* Code that throws yields a heap and JS_EXCEPTION.
LEMMA ThrowsType ==
  ASSUME NEW H \in HeapType, NEW r \in Runtimes, NEW args
  PROVE  Throws(H, r, args) \in SUBSET Outcomes
BY CollectType, ThrownType DEF Throws

\* A value is a possible outcome of an engine call.
LEMMA YieldsAreOutcomes ==
  Yields \subseteq Outcomes
BY DEF Yields, Outcomes

\* Running JavaScript has outcomes of the right type.
LEMMA RunType ==
  ASSUME NEW H \in HeapType, NEW r \in Runtimes, NEW args \in SUBSET Values
  PROVE  Run(H, r, args) \in SUBSET Outcomes /\ RunVoid(H, r, args) \in SUBSET Outcomes
<1>1. ASSUME NEW G \in js_trigger_gc(H, r)
      PROVE  /\ Returned(G, r, args) \in SUBSET Outcomes
             /\ Thrown(G, r, args) \in SUBSET Outcomes
             /\ Assigned(G, r, args) \in SUBSET Outcomes
             /\ Outcome(G, Prim) \in Outcomes
  <2>1. G \in HeapType
    BY CollectType
  <2>2. Outcome(G, Prim) \in Outcomes
    BY <2>1 DEF Outcome, Outcomes, Values
  <2> QED
    BY <2>1, <2>2, ReturnedType, ThrownType, AssignedType, YieldsAreOutcomes, SMTT(30)
<1>2. Run(H, r, args) \in SUBSET Outcomes
  BY <1>1 DEF Run
<1>3. RunVoid(H, r, args) \in SUBSET Outcomes
  BY <1>1 DEF RunVoid
<1> QED
  BY <1>2, <1>3

\* Dropping a reference afterwards changes the heap of an outcome only.
LEMMA FreeAfterType ==
  ASSUME NEW outs \in SUBSET Outcomes, NEW v
  PROVE  {Outcome(FreeValue(out.heap, v), out.val) : out \in outs} \in SUBSET Outcomes
BY FreeValueType DEF Outcome, Outcomes

\* JS_GetProperty has outcomes of the right type.
LEMMA GetPropertyType ==
  ASSUME NEW H \in HeapType, NEW r \in Runtimes, NEW v, NEW k \in Keys
  PROVE  JS_GetProperty(H, r, v, k) \in SUBSET Outcomes
<1>1. Run(H, r, {}) \in SUBSET Outcomes
  BY RunType
<1>2. v \in Objects => Outcome(DupValue(H, H.slot[v][k]), H.slot[v][k]) \in Outcomes
  <2>1. v \in Objects => H.slot[v][k] \in Values
    BY DEF HeapType
  <2> QED
    BY <2>1, DupValueType DEF Outcome, Outcomes
<1> QED
  BY <1>1, <1>2 DEF JS_GetProperty

\* JS_SetProperty has outcomes of the right type.
LEMMA SetPropertyType ==
  ASSUME NEW H \in HeapType, NEW r \in Runtimes, NEW v, NEW k \in Keys, NEW w \in Values
  PROVE  JS_SetProperty(H, r, v, k, w) \in SUBSET Outcomes
<1>1. RunVoid(H, r, {w}) \in SUBSET Outcomes
  BY RunType
<1>2. v \in Objects => Outcome(PutSlot(H, v, k, w), Prim) \in Outcomes
  BY PutSlotType DEF Outcome, Outcomes, Values
<1> QED
  BY <1>1, <1>2, FreeAfterType, Zenon DEF JS_SetProperty

\* capture_exception returns a heap.
LEMMA CaptureType ==
  ASSUME NEW H \in HeapType, NEW r \in Runtimes
  PROVE  capture_exception(H, r) \in SUBSET HeapType
<1> DEFINE taken == [H EXCEPT !.exc[r] = NULL]
<1>1. taken \in HeapType
  BY Zenon DEF HeapType
<1> HIDE DEF taken
<1>2. \A out \in RunVoid(taken, r, {}) : out.heap \in HeapType
  BY <1>1, RunType DEF Outcomes
<1> QED
  BY <1>2, FreeValueType DEF capture_exception, taken

\* Copying the exports to one object has outcomes of the right type.
LEMMA CopyNamespaceType ==
  ASSUME NEW H \in HeapType, NEW r \in Runtimes, NEW m \in Objects, NEW o \in Objects
  PROVE  CopyNamespace(H, r, m, o) \in SUBSET Outcomes
<1> DEFINE Copy(K) == CopyProperties(NewObject(H, r, o), m, o, K)
<1>1. \A K \in SUBSET Keys : Copy(K) \in HeapType
  BY NewObjectType, CopyPropertiesType
<1> HIDE DEF Copy
<1>2. Outcome(Copy(Keys), o) \in Outcomes
  BY <1>1 DEF Outcome, Outcomes, Values
<1>3. \A K \in SUBSET Keys : Throws(Copy(K), r, {}) \in SUBSET Outcomes
  BY <1>1, ThrowsType
<1>4. \A K \in SUBSET Keys : \A out \in Throws(Copy(K), r, {}) :
        Outcome(FreeValue(out.heap, o), Exception) \in Outcomes
  BY <1>3, FreeValueType, SMTT(30) DEF Outcome, Outcomes
<1> QED
  BY <1>2, <1>4 DEF CopyNamespace, Copy

\* new_mutable_namespace_object has outcomes of the right type.
LEMMA NamespaceType ==
  ASSUME NEW H \in HeapType, NEW r \in Runtimes, NEW m \in Objects
  PROVE  new_mutable_namespace_object(H, r, m) \in SUBSET Outcomes
BY CollectType, CopyNamespaceType, SMTT(30) DEF new_mutable_namespace_object, FreshObjects

\* The phases of js_runtime_import_module keep the types.
LEMMA ImportType ==
  ASSUME NEW H \in HeapType, NEW r \in Runtimes, NEW m \in Objects
  PROVE  /\ CompileModule(H, r, m) \in HeapType
         /\ EvalModule(H, r, m) \in SUBSET HeapType
         /\ ImportOutcomes(H, r, m) \in SUBSET Outcomes
<1>1. CompileModule(H, r, m) \in HeapType
  BY NewObjectType, RootType, DupValueType DEF CompileModule
<1>2. EvalModule(H, r, m) \in SUBSET HeapType
  <2>1. RunVoid(FreeValue(H, m), r, {}) \in SUBSET Outcomes
    BY FreeValueType, RunType
  <2> QED
    BY <2>1 DEF EvalModule, Outcomes
<1>3. new_mutable_namespace_object(DupValue(H, m), r, m) \in SUBSET Outcomes
  BY DupValueType, NamespaceType
<1>4. ImportOutcomes(H, r, m) \in SUBSET Outcomes
  BY <1>3, ThrowsType, FreeAfterType, SMTT(30) DEF ImportOutcomes
<1> QED
  BY <1>1, <1>2, <1>4, SMTT(30)

\* js_runtime_new_bigint gets outcomes of the right type from the engine.
LEMMA BigIntType ==
  ASSUME heap \in HeapType, NEW r \in Runtimes
  PROVE  UNION {CallBigInt(c, r) : c \in GetBigInt(r)} \in SUBSET Outcomes
<1>1. GetBigInt(r) \in SUBSET Outcomes
  BY DupValueType, RunType, FreeAfterType, Zenon DEF GetBigInt
<1>2. ASSUME NEW c \in Outcomes PROVE CallBigInt(c, r) \in SUBSET Outcomes
  <2>1. c.heap \in HeapType
    BY DEF Outcomes
  <2>2. Throws(c.heap, r, {}) \cup (IF c.val = Exception THEN {} ELSE Returns(c.heap, r, {}))
          \in SUBSET Outcomes
    BY <2>1, ThrowsType, ReturnsType, YieldsAreOutcomes, SMTT(30)
  <2> QED
    BY <2>2, FreeAfterType, Zenon DEF CallBigInt
<1> QED
  BY <1>1, <1>2

-----------------------------------------------------------------------------
(* Calls of the bridge.  LifecycleTypeOK is part of LifecycleInv.  The types *)
(* are inductive only with the fact that an allocated handle holds a value.  *)

EngineTypeOK ==
  /\ live \in SUBSET Handles
  /\ \A h \in live : value[h] \in Values
  /\ last_error \in [Runtimes -> {NoError, Message}]
  /\ std_module_enabled \in [Runtimes -> BOOLEAN]
  /\ value \in [Handles -> Values \cup {NULL}]
  /\ heap \in HeapType
  /\ leaked \in SUBSET Objects

\* set_error and clear_error keep the type of last_error.
LEMMA ErrorType ==
  ASSUME EngineTypeOK, NEW r \in Runtimes, set_error(r) \/ clear_error(r)
  PROVE  last_error' \in [Runtimes -> {NoError, Message}]
BY DEF EngineTypeOK, set_error, clear_error

\* A failing call keeps the types.
LEMMA FailsType ==
  ASSUME EngineTypeOK, NEW r \in Runtimes, NEW H \in HeapType, Fails(r, H)
  PROVE  EngineTypeOK'
BY ErrorType DEF EngineTypeOK, Fails, lifecycle

\* A call that captures an exception keeps the types.
LEMMA ExceptionType ==
  ASSUME EngineTypeOK, NEW r \in Runtimes, NEW outs \in SUBSET Outcomes,
         FailsWithException(r, outs)
  PROVE  EngineTypeOK'
<1>1. PICK out \in outs : \E H \in capture_exception(out.heap, r) : Fails(r, H)
  BY DEF FailsWithException
<1>2. out.heap \in HeapType
  BY DEF Outcomes
<1> QED
  BY <1>1, <1>2, CaptureType, FailsType, SMTT(30)

\* new_value_handle keeps the types when it is given a value.
LEMMA NewHandleType ==
  ASSUME EngineTypeOK, NEW r \in Runtimes, NEW H \in HeapType, NEW v \in Values,
         new_value_handle(r, H, v)
  PROVE  EngineTypeOK'
<1>1. CASE AllocMayFail /\ Fails(r, FreeValue(H, v))
  BY <1>1, FreeValueType, FailsType, SMTT(30)
<1>2. CASE \E h \in Handles \ live :
             /\ live' = live \cup {h}
             /\ value' = [value EXCEPT ![h] = v]
             /\ heap' = H
             /\ clear_error(r)
             /\ UNCHANGED <<std_module_enabled, leaked>>
  BY <1>2, ErrorType, SMTT(30) DEF EngineTypeOK
<1> QED
  BY <1>1, <1>2, SMTT(30) DEF new_value_handle

\* A call that returns a handle keeps the types: JS_EXCEPTION never reaches a handle.
LEMMA HandleType ==
  ASSUME EngineTypeOK, NEW r \in Runtimes, NEW outs \in SUBSET Outcomes,
         ReturnsHandle(r, outs)
  PROVE  EngineTypeOK'
<1>1. ASSUME NEW out \in outs, out.val # Exception
      PROVE  out.heap \in HeapType /\ out.val \in Values
  BY <1>1, SMTT(30) DEF Outcomes
<1> QED
  BY <1>1, ExceptionType, NewHandleType, SMTT(30) DEF ReturnsHandle

\* A call that succeeds without a handle keeps the types.
LEMMA SucceedsType ==
  ASSUME EngineTypeOK, NEW r \in Runtimes, NEW out \in Outcomes, Succeeds(out.heap),
         UNCHANGED last_error \/ clear_error(r)
  PROVE  EngineTypeOK'
BY ErrorType DEF EngineTypeOK, Succeeds, lifecycle, Outcomes

\* A call that returns a status keeps the types.
LEMMA StatusType ==
  ASSUME EngineTypeOK, NEW r \in Runtimes, NEW outs \in SUBSET Outcomes,
         ReturnsStatus(r, outs)
  PROVE  EngineTypeOK'
BY ExceptionType, SucceedsType, SMTT(30) DEF ReturnsStatus

\* Calls that end a handle or a runtime.
LEMMA FreeRuntimeType ==
  ASSUME EngineTypeOK, NEW r \in Runtimes, NEW H \in HeapType, NEW ready \in BOOLEAN,
         free_runtime_if(ready, r, H)
  PROVE  /\ last_error' \in [Runtimes -> {NoError, Message}]
         /\ heap' \in HeapType
         /\ leaked' \in SUBSET Objects
<1>1. Survivors(H, r) \in SUBSET Objects
  BY DEF Survivors
<1> QED
  BY <1>1, CollectType DEF free_runtime_if, EngineTypeOK

\* Every call on a runtime handle keeps the types.
LEMMA RuntimeCallType ==
  ASSUME EngineTypeOK, NEW r \in Runtimes, NEW text \in Strings, NEW name \in Names \cup {NULL},
         \/ js_runtime_create(r)
         \/ js_runtime_destroy(r)
         \/ js_runtime_enable_std_module(r)
         \/ js_runtime_new_bool(r)
         \/ js_runtime_new_number(r)
         \/ js_runtime_get_global_property(r, name)
         \/ js_runtime_eval_value(r, text)
         \/ js_runtime_new_string(r, text)
         \/ js_runtime_new_bigint(r, text)
         \/ js_runtime_import_module(r, text)
  PROVE  EngineTypeOK'
<1>0. heap \in HeapType
  BY DEF EngineTypeOK
<1>1. {Outcome(heap, Prim)} \in SUBSET Outcomes
  BY <1>0, SMTT(30) DEF Outcome, Outcomes, Values
<1>2. CASE js_runtime_create(r)
  <2>1. heap' \in HeapType
    BY <1>0, <1>2, NewObjectType, RootType, SMTT(30) DEF js_runtime_create, FreshObjects
  <2> QED
    BY <1>2, <2>1, SMTT(30) DEF js_runtime_create, EngineTypeOK
<1>3. CASE js_runtime_destroy(r)
  <2>1. free_runtime_if(value_count[r] = 0, r, heap)
    BY <1>3, SMTT(30) DEF js_runtime_destroy
  <2> QED
    BY <1>0, <1>3, <2>1, FreeRuntimeType, ZenonT(30) DEF js_runtime_destroy, EngineTypeOK
<1>4. CASE js_runtime_enable_std_module(r)
  <2>1. CASE std_module_enabled[r] /\ Succeeds(heap) /\ UNCHANGED last_error
    BY <2>1, <1>0, SMTT(30) DEF Succeeds, lifecycle, EngineTypeOK
  <2>2. CASE FailsWithException(r, Throws(heap, r, {}))
    BY <2>2, <1>0, ThrowsType, ExceptionType, SMTT(30)
  <2>3. CASE /\ \E m \in FreshObjects(heap) : heap' = AddModule(NewObject(heap, r, m), r, m)
             /\ std_module_enabled' = [std_module_enabled EXCEPT ![r] = TRUE]
             /\ clear_error(r)
             /\ UNCHANGED <<lifecycle, leaked>>
    <3>1. heap' \in HeapType
      BY <1>0, <2>3, NewObjectType, RootType, SMTT(30) DEF FreshObjects
    <3> QED
      BY <2>3, <3>1, ErrorType, SMTT(30) DEF lifecycle, EngineTypeOK
  <2> QED
    BY <1>4, <2>1, <2>2, <2>3, SMTT(30) DEF js_runtime_enable_std_module
<1>5. CASE js_runtime_new_bool(r) \/ js_runtime_new_number(r)
  BY <1>1, <1>5, HandleType, SMTT(30) DEF js_runtime_new_bool, js_runtime_new_number
<1>6. CASE js_runtime_get_global_property(r, name)
  <2>1. CASE name = NULL /\ Fails(r, heap)
    BY <1>0, <2>1, FailsType, SMTT(30)
  <2>2. ASSUME name # NULL
        PROVE  JS_GetProperty(DupValue(heap, heap.global[r]), r, heap.global[r], name)
                 \in SUBSET Outcomes
    BY <1>0, <2>2, DupValueType, GetPropertyType, SMTT(30) DEF Keys
  <2> QED
    BY <1>6, <2>1, <2>2, FreeAfterType, HandleType, SMTT(30) DEF js_runtime_get_global_property
<1>7. CASE js_runtime_eval_value(r, text)
  BY <1>0, <1>7, RunType, FailsType, HandleType, SMTT(30) DEF js_runtime_eval_value
<1>8. CASE js_runtime_new_string(r, text)
  <2>1. JS_NewString(heap, r) \in SUBSET Outcomes
    BY <1>0, <1>1, ThrowsType, SMTT(30) DEF JS_NewString
  <2> QED
    BY <1>0, <1>8, <2>1, FailsType, HandleType, SMTT(30) DEF js_runtime_new_string
<1>9. CASE js_runtime_new_bigint(r, text)
  BY <1>0, <1>9, BigIntType, FailsType, HandleType, SMTT(30) DEF js_runtime_new_bigint
<1>10. CASE js_runtime_import_module(r, text)
  <2>1. CASE Fails(r, heap)
    BY <1>0, <2>1, FailsType, SMTT(30)
  <2>2. CASE FailsWithException(r, Throws(heap, r, {}))
    BY <1>0, <2>2, ThrowsType, ExceptionType, SMTT(30)
  <2>3. ASSUME NEW G \in js_trigger_gc(heap, r), NEW m \in Objects
        PROVE  UNION {ImportOutcomes(H, r, m) : H \in EvalModule(CompileModule(G, r, m), r, m)}
                 \in SUBSET Outcomes
    <3>1. EvalModule(CompileModule(G, r, m), r, m) \in SUBSET HeapType
      BY <1>0, CollectType, ImportType
    <3> QED
      BY <3>1, ImportType, SMTT(30)
  <2> QED
    BY <1>10, <2>1, <2>2, <2>3, HandleType, ZenonT(30) DEF js_runtime_import_module, FreshObjects
<1> QED
  BY <1>2, <1>3, <1>4, <1>5, <1>6, <1>7, <1>8, <1>9, <1>10, SMTT(30)

\* Handles that pass the tests of the bridge hold values.
LEMMA ArgumentType ==
  ASSUME EngineTypeOK, NEW h, NEW args, Usable(args), fill_argv(h, args)
  PROVE  {value[a] : a \in args} \in SUBSET Values
BY DEF EngineTypeOK, Usable, fill_argv, SameRuntime

\* Every call on a value handle keeps the types.
LEMMA ValueCallType ==
  ASSUME EngineTypeOK, RuntimeOutlivesHandles, NEW h \in Handles, valid_value(h),
         NEW name \in Names \cup {NULL}, NEW index \in Indices \cup {NULL},
         NEW w \in HandleArgs, NEW args \in ArgLists,
         \/ js_value_destroy(h)
         \/ js_value_to_number(h)
         \/ js_value_to_string(h)
         \/ js_value_is_array(h)
         \/ js_value_array_length(h)
         \/ js_value_get_property(h, name)
         \/ js_value_set_property(h, name, w)
         \/ js_value_get_index(h, index)
         \/ js_value_set_index(h, index, w)
         \/ js_value_construct(h, args)
         \/ js_value_call(h, w, args)
  PROVE  EngineTypeOK'
<1> DEFINE r == runtime[h]
<1>0. heap \in HeapType /\ r \in Runtimes /\ h \in live /\ value[h] \in Values
  BY ZenonT(30) DEF EngineTypeOK, RuntimeOutlivesHandles, valid_value
<1> HIDE DEF r
<1>1. {Outcome(heap, Prim)} \in SUBSET Outcomes
  BY <1>0, SMTT(30) DEF Outcome, Outcomes, Values
<1>2. CASE js_value_destroy(h)
  <2>1. PICK ready \in BOOLEAN : free_runtime_if(ready, r, FreeValue(heap, value[h]))
    BY <1>2, ZenonT(30) DEF js_value_destroy, r
  <2>2. /\ last_error' \in [Runtimes -> {NoError, Message}]
        /\ heap' \in HeapType
        /\ leaked' \in SUBSET Objects
    BY <1>0, <2>1, FreeValueType, FreeRuntimeType, SMTT(30)
  <2>3. /\ live' = live \ {h}
        /\ value' = [value EXCEPT ![h] = NULL]
        /\ UNCHANGED std_module_enabled
    BY <1>2 DEF js_value_destroy
  <2> QED
    BY <2>2, <2>3, SMTT(30) DEF EngineTypeOK
<1>3. CASE js_value_to_number(h) \/ js_value_to_string(h)
  <2>1. PICK out \in RunVoid(heap, r, {}) :
          Fails(r, out.heap) \/ (Succeeds(out.heap) /\ UNCHANGED last_error)
    BY <1>3, SMTT(30) DEF js_value_to_number, js_value_to_string, r
  <2>2. out \in Outcomes /\ out.heap \in HeapType
    BY <1>0, <2>1, RunType, SMTT(30) DEF Outcomes
  <2> QED
    BY <1>0, <2>1, <2>2, FailsType, SucceedsType, SMTT(30)
<1>4. CASE js_value_is_array(h)
  <2>1. PICK out \in {Outcome(heap, Prim)} \cup Throws(heap, r, {}) : Succeeds(out.heap)
    BY <1>4, SMTT(30) DEF js_value_is_array, r
  <2>2. out \in Outcomes
    BY <1>0, <1>1, <2>1, ThrowsType, SMTT(30)
  <2> QED
    BY <1>0, <1>4, <2>1, <2>2, SucceedsType, ZenonT(30) DEF js_value_is_array
<1>5. CASE js_value_array_length(h)
  <2> DEFINE read == Run(heap, r, {})
             Converted(len) == {Outcome(FreeValue(out.heap, len.val), out.val) :
                                  out \in {Outcome(len.heap, Prim)} \cup Throws(len.heap, r, {})}
  <2>1. read \in SUBSET Outcomes
    BY <1>0, RunType
  <2>2. ASSUME NEW len \in Outcomes PROVE Converted(len) \in SUBSET Outcomes
    <3>1. len.heap \in HeapType
      BY SMTT(30) DEF Outcomes
    <3>2. {Outcome(len.heap, Prim)} \cup Throws(len.heap, r, {}) \in SUBSET Outcomes
      BY <1>0, <3>1, ThrowsType, SMTT(30) DEF Outcome, Outcomes, Values
    <3> QED
      BY <3>2, FreeAfterType, ZenonT(30)
  <2>3. \/ FailsWithException(r, read)
        \/ \E len \in read : \E out \in Converted(len) :
             Fails(r, out.heap) \/ (Succeeds(out.heap) /\ UNCHANGED last_error)
    BY <1>5, Zenon DEF js_value_array_length, r
  <2> HIDE DEF read, Converted
  <2>4. CASE FailsWithException(r, read)
    BY <1>0, <2>1, <2>4, ExceptionType, SMTT(30)
  <2>5. ASSUME NEW len \in read, NEW out \in Converted(len),
               Fails(r, out.heap) \/ (Succeeds(out.heap) /\ UNCHANGED last_error)
        PROVE  EngineTypeOK'
    <3>1. out \in Outcomes /\ out.heap \in HeapType
      BY <2>1, <2>2, <2>5, SMTT(30) DEF Outcomes
    <3> QED
      BY <1>0, <2>5, <3>1, FailsType, SucceedsType, SMTT(30)
  <2> QED
    BY <2>3, <2>4, <2>5, SMTT(30)
<1>6. CASE js_value_get_property(h, name)
  <2>1. name # NULL => JS_GetProperty(heap, r, value[h], name) \in SUBSET Outcomes
    BY <1>0, GetPropertyType, SMTT(30) DEF Keys
  <2> QED
    BY <1>0, <1>6, <2>1, FailsType, HandleType, ZenonT(30) DEF js_value_get_property, r
<1>7. CASE js_value_get_index(h, index)
  <2>1. index # NULL => JS_GetProperty(heap, r, value[h], index) \in SUBSET Outcomes
    BY <1>0, GetPropertyType, SMTT(30) DEF Keys
  <2> QED
    BY <1>0, <1>7, <2>1, FailsType, HandleType, ZenonT(30) DEF js_value_get_index, r
<1>8. ASSUME NEW k \in Keys, Usable({w}), SameRuntime(w, h)
      PROVE  JS_SetProperty(DupValue(heap, value[w]), r, value[h], k, value[w]) \in SUBSET Outcomes
  <2>1. value[w] \in Values
    BY <1>8, SMTT(30) DEF EngineTypeOK, Usable, SameRuntime
  <2> QED
    BY <1>0, <2>1, DupValueType, SetPropertyType, SMTT(30)
<1>9. CASE js_value_set_property(h, name, w)
  BY <1>0, <1>8, <1>9, FailsType, StatusType, ZenonT(30) DEF js_value_set_property, Keys, r
<1>10. CASE js_value_set_index(h, index, w)
  BY <1>0, <1>8, <1>10, FailsType, StatusType, ZenonT(30) DEF js_value_set_index, Keys, r
<1>11. CASE js_value_construct(h, args)
  <2>1. Usable(args) /\ fill_argv(h, args) => {value[a] : a \in args \cup {h}} \in SUBSET Values
    BY <1>0, ArgumentType, ZenonT(30)
  <2>2. Usable(args) /\ fill_argv(h, args) =>
          Run(heap, r, {value[a] : a \in args \cup {h}}) \in SUBSET Outcomes
    BY <1>0, <2>1, RunType, ZenonT(30)
  <2> QED
    BY <1>0, <1>11, <2>2, FailsType, HandleType, ZenonT(30) DEF js_value_construct, r
<1>12. CASE js_value_call(h, w, args)
  <2> DEFINE accepted == (w = NULL \/ SameRuntime(w, h)) /\ fill_argv(h, args)
             passed == {value[a] : a \in args \cup {h} \cup ({w} \ {NULL})}
  <2>1. accepted => passed \in SUBSET Values
    <3>1. Usable(args \cup {w})
      BY <1>12, ZenonT(30) DEF js_value_call
    <3> QED
      BY <1>0, <3>1, ArgumentType, SMTT(30) DEF Usable, EngineTypeOK
  <2>2. accepted => Run(heap, r, passed) \in SUBSET Outcomes
    BY <1>0, <2>1, RunType, SMTT(30)
  <2>3. \/ Fails(r, heap)
        \/ accepted /\ ReturnsHandle(r, Run(heap, r, passed))
    BY <1>12, ZenonT(30) DEF js_value_call, r
  <2> QED
    BY <1>0, <2>2, <2>3, FailsType, HandleType, ZenonT(30)
<1> QED
  BY <1>2, <1>3, <1>4, <1>5, <1>6, <1>7, <1>9, <1>10, <1>11, <1>12, SMTT(30)

\* Every step keeps the types.
LEMMA StepType ==
  ASSUME EngineTypeOK, RuntimeOutlivesHandles, Next
  PROVE  EngineTypeOK'
<1>1. Prim \in Strings /\ NULL \in Names \cup {NULL} /\ NULL \in Indices \cup {NULL}
        /\ NULL \in HandleArgs /\ {} \in ArgLists
  BY BridgeAssumption, FS_EmptySet, SMTT(30) DEF Strings, HandleArgs, ArgLists
<1>2. CASE free_zero_refcount_obj
  <2>1. PICK o \in heap.zero : heap' = FreeObjects(heap, {o})
    BY <1>2, ZenonT(30) DEF free_zero_refcount_obj
  <2>2. heap' \in HeapType
    <3>1. {o} \in SUBSET Objects
      BY DEF EngineTypeOK, HeapType
    <3> QED
      BY <2>1, <3>1, FreeObjectsType, SMTT(30) DEF EngineTypeOK
  <2> QED
    BY <1>2, <2>2 DEF free_zero_refcount_obj, lifecycle, EngineTypeOK
<1>3. ASSUME NEW r \in Runtimes, NEW text \in Strings, NEW name \in Names \cup {NULL},
             \/ js_runtime_create(r)
             \/ js_runtime_destroy(r)
             \/ js_runtime_enable_std_module(r)
             \/ js_runtime_new_bool(r)
             \/ js_runtime_new_number(r)
             \/ js_runtime_get_global_property(r, name)
             \/ js_runtime_eval_value(r, text)
             \/ js_runtime_new_string(r, text)
             \/ js_runtime_new_bigint(r, text)
             \/ js_runtime_import_module(r, text)
      PROVE  EngineTypeOK'
  BY <1>3, RuntimeCallType, SMTT(30)
<1>4. ASSUME NEW h \in Handles, NEW name \in Names \cup {NULL},
             NEW index \in Indices \cup {NULL}, NEW w \in HandleArgs, NEW args \in ArgLists,
             \/ js_value_destroy(h)
             \/ js_value_to_number(h)
             \/ js_value_to_string(h)
             \/ js_value_is_array(h)
             \/ js_value_array_length(h)
             \/ js_value_get_property(h, name)
             \/ js_value_set_property(h, name, w)
             \/ js_value_get_index(h, index)
             \/ js_value_set_index(h, index, w)
             \/ js_value_construct(h, args)
             \/ js_value_call(h, w, args)
      PROVE  EngineTypeOK'
  <2>1. valid_value(h)
    BY <1>4, ZenonT(30)
    DEF js_value_destroy, js_value_to_number, js_value_to_string, js_value_is_array,
        js_value_array_length, js_value_get_property, js_value_set_property,
        js_value_get_index, js_value_set_index, js_value_construct, js_value_call
  <2> QED
    BY <1>4, <2>1, ValueCallType
<1>5. CASE \E r \in Runtimes :
             \/ js_runtime_create(r)
             \/ js_runtime_destroy(r)
             \/ js_runtime_enable_std_module(r)
             \/ js_runtime_new_bool(r)
             \/ js_runtime_new_number(r)
             \/ \E name \in Names \cup {NULL} : js_runtime_get_global_property(r, name)
  BY <1>1, <1>3, <1>5, SMTT(30)
<1>6. CASE \E r \in Runtimes, text \in Strings :
             \/ js_runtime_eval_value(r, text)
             \/ js_runtime_new_string(r, text)
             \/ js_runtime_new_bigint(r, text)
             \/ js_runtime_import_module(r, text)
  BY <1>1, <1>3, <1>6, SMTT(30)
<1>7. CASE \E h \in Handles :
             \/ js_value_destroy(h)
             \/ js_value_to_number(h)
             \/ js_value_to_string(h)
             \/ js_value_is_array(h)
             \/ js_value_array_length(h)
  BY <1>1, <1>4, <1>7, SMTT(30)
<1>8. CASE \E h \in Handles, name \in Names \cup {NULL} :
             \/ js_value_get_property(h, name)
             \/ \E w \in HandleArgs : js_value_set_property(h, name, w)
  BY <1>1, <1>4, <1>8, SMTT(30)
<1>9. CASE \E h \in Handles, index \in Indices \cup {NULL} :
             \/ js_value_get_index(h, index)
             \/ \E w \in HandleArgs : js_value_set_index(h, index, w)
  BY <1>1, <1>4, <1>9, SMTT(30)
<1>10. CASE \E h \in Handles, args \in ArgLists :
             \/ js_value_construct(h, args)
             \/ \E this \in HandleArgs : js_value_call(h, this, args)
  BY <1>1, <1>4, <1>10
<1> QED
  BY <1>2, <1>5, <1>6, <1>7, <1>8, <1>9, <1>10, SMTT(30) DEF Next

\* Whatever calls are made and whatever JavaScript does, every field of the bridge's
\* structures and of the heap keeps its type.  In particular no value handle ever holds
\* JS_EXCEPTION: every engine result is tested before new_value_handle gets it.
THEOREM TypeCorrect ==
  Spec => []TypeOK
<1> DEFINE Inv == LifecycleInv /\ EngineTypeOK
<1>1. Init => Inv
  <2> SUFFICES ASSUME Init PROVE EngineTypeOK
    BY InitInv, SMTT(30)
  <2>1. heap \in HeapType
    BY SMTT(30) DEF Init, HeapType, Values
  <2> QED
    BY <2>1 DEF Init, EngineTypeOK
<1>2. Inv /\ [Next]_vars => Inv'
  <2> SUFFICES ASSUME Inv, [Next]_vars PROVE EngineTypeOK'
    BY StepInv
  <2>1. CASE Next
    BY <2>1, StepType, SMTT(30) DEF LifecycleInv
  <2>2. CASE UNCHANGED vars
    BY <2>2 DEF vars, EngineTypeOK
  <2> QED
    BY <2>1, <2>2
<1>3. Inv => TypeOK
  BY DEF LifecycleInv, EngineTypeOK, TypeOK
<1> HIDE DEF Inv
<1> QED
  BY <1>1, <1>2, <1>3, PTL DEF Spec

=============================================================================
