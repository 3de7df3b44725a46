------------------------------- MODULE Bridge -------------------------------
(***************************************************************************)
(* The C bridge (native/bridge/quickjs_bridge.c): runtime handles, value   *)
(* handles, the last-error string of a runtime and the references the      *)
(* bridge holds on values of the QuickJS heap.                             *)
(*                                                                         *)
(* One action is one call of an exported function.  The caller is the most *)
(* general one that keeps the bridge's contract: it destroys a handle once *)
(* and does not use it afterwards.  Calls are made one at a time.          *)
(*                                                                         *)
(* The engine is reduced to what the bridge depends on: reference counts,  *)
(* one pending exception per runtime, the global object, the list of       *)
(* loaded modules, and JavaScript code that does anything it could do with *)
(* the objects of its runtime (the operator Run).                          *)
(***************************************************************************)
EXTENDS Integers, FiniteSets

CONSTANTS
  Runtimes,      \* js_runtime_handle pointers
  Handles,       \* js_value_handle pointers
  Objects,       \* addresses of reference-counted JSValues
  Names,         \* property names
  Indices,       \* array indices that fit a uint32_t
  Prim,          \* any JSValue without a reference count
  NULL,          \* the null pointer, also "no exception" and "no runtime"
  AllocMayFail,  \* whether malloc and calloc may return NULL
  MaxArgs        \* bound: the distinct arguments of a call

Keys == Names \cup Indices
Exception == "exception"   \* JS_EXCEPTION, the result of an engine call that threw

ASSUME BridgeAssumption ==
  /\ IsFiniteSet(Handles) /\ IsFiniteSet(Objects)
  /\ IsFiniteSet(Names) /\ IsFiniteSet(Indices)
  /\ Prim \notin Objects /\ Exception \notin Objects \cup {Prim}
  /\ NULL \notin Objects \cup Runtimes \cup Handles \cup Keys \cup {Prim}
  /\ AllocMayFail \in BOOLEAN
  /\ MaxArgs \in Nat

VARIABLES
  mem,                 \* is a js_runtime_handle allocated: "none", "live", "freed"
  destroying,          \* js_runtime_handle.destroying
  value_count,         \* js_runtime_handle.value_count
  last_error,          \* js_runtime_handle.last_error
  std_module_enabled,  \* js_runtime_handle.std_module_enabled
  live,                \* the allocated js_value_handles
  runtime,             \* js_value_handle.runtime
  value,               \* js_value_handle.value
  heap,                \* the engine's heaps, see HeapType
  leaked               \* objects a JS_FreeRuntime found still referenced

lifecycle == <<mem, destroying, value_count, live, runtime, value>>
vars == <<mem, destroying, value_count, last_error, std_module_enabled, live,
          runtime, value, heap, leaked>>

Values == Objects \cup {Prim}

\* What last_error points to: no string, or some message.
NoError == "none"
Message == "message"

HeapType ==
  [ref    : [Objects -> Int],                    \* header.ref_count
   home   : [Objects -> Runtimes \cup {NULL}],   \* the runtime it is allocated in
   slot   : [Objects -> [Keys -> Values]],       \* properties; absent reads as Prim
   exc    : [Runtimes -> Values \cup {NULL}],    \* rt->current_exception
   global : [Runtimes -> Objects \cup {NULL}],   \* ctx->global_obj
   mods   : [Runtimes -> SUBSET Objects],        \* ctx->loaded_modules
   zero   : SUBSET Objects]                      \* rt->gc_zero_ref_count_list

-----------------------------------------------------------------------------
(* The engine: reference counting. *)

DupValue(H, v) ==
  IF v \in Objects THEN [H EXCEPT !.ref[v] = @ + 1] ELSE H

\* A count that reaches zero queues the object on gc_zero_ref_count_list; see
\* free_zero_refcount_obj below.
FreeValue(H, v) ==
  IF v \in Objects
  THEN [H EXCEPT !.ref[v] = @ - 1,
                 !.zero = IF H.ref[v] = 1 THEN @ \cup {v} ELSE @]
  ELSE H

FreshObjects(H) == {o \in Objects : H.home[o] = NULL}

NewObject(H, r, o) == [H EXCEPT !.home[o] = r, !.ref[o] = 1]

\* The context takes over a reference to its global object, or to a module record.
SetGlobal(H, r, g) == [H EXCEPT !.global[r] = g]
AddModule(H, r, m) == [H EXCEPT !.mods[r] = @ \cup {m}]

\* Objects of runtime r that code running in r may still get hold of.
HeapOf(H, r) == {o \in Objects : H.home[o] = r /\ o \notin H.zero}

\* Store v, whose reference the caller gives away, in a property of p.
PutSlot(H, p, k, v) ==
  FreeValue([H EXCEPT !.slot[p][k] = v], H.slot[p][k])

\* JS_Throw takes over the reference to v and drops an earlier pending exception.
JS_Throw(H, r, v) == FreeValue([H EXCEPT !.exc[r] = v], H.exc[r])

-----------------------------------------------------------------------------
(* The engine: freeing objects. *)

InDegree(H, S, o) == Cardinality({e \in S \X Keys : H.slot[e[1]][e[2]] = o})

\* Free the objects of S together; their properties give up their references.
FreeObjects(H, S) ==
  LET ref == [o \in Objects |-> IF o \in S THEN 0 ELSE H.ref[o] - InDegree(H, S, o)]
  IN  [H EXCEPT
        !.ref  = ref,
        !.home = [o \in Objects |-> IF o \in S THEN NULL ELSE H.home[o]],
        !.slot = [o \in Objects |-> IF o \in S THEN [k \in Keys |-> Prim] ELSE H.slot[o]],
        !.zero = (H.zero \ S) \cup {o \in Objects \ S : ref[o] = 0 /\ H.ref[o] > 0}]

\* gc_decref: the objects of r that no one but objects of r refers to.
gc_decref(H, r) ==
  LET all == {o \in Objects : H.home[o] = r}
  IN  {o \in all : H.ref[o] = InDegree(H, all, o)}

\* The largest set of them that only properties inside the set refer to: what gc_scan
\* leaves and gc_free_cycles frees.
Garbage(H, r) ==
  UNION {S \in SUBSET gc_decref(H, r) : \A o \in S : H.ref[o] = InDegree(H, S, o)}

JS_RunGC(H, r) == FreeObjects(H, Garbage(H, r))

\* Creating an object may start a collection, in the middle of a call, while the bridge
\* holds references in its locals.  One that finds no garbage changes nothing.
js_trigger_gc(H, r) == {H} \cup (IF gc_decref(H, r) = {} THEN {} ELSE {JS_RunGC(H, r)})

\* JS_FreeContext and the start of JS_FreeRuntime: module list, global object and
\* pending exception are released.
DropRoots(H, r) ==
  [H EXCEPT
    !.ref = [o \in Objects |->
               H.ref[o] - (IF o \in H.mods[r] THEN 1 ELSE 0)
                        - (IF o = H.global[r] THEN 1 ELSE 0)
                        - (IF o = H.exc[r] THEN 1 ELSE 0)],
    !.mods[r] = {}, !.global[r] = NULL, !.exc[r] = NULL]

\* The collection that follows must leave nothing: assert(list_empty(gc_obj_list)).
Survivors(H, r) == {o \in Objects : H.home[o] = r} \ Garbage(DropRoots(H, r), r)

JS_FreeRuntime(H, r) == FreeObjects(DropRoots(H, r), {o \in Objects : H.home[o] = r})

-----------------------------------------------------------------------------
(* The engine: running JavaScript.  An outcome is a heap and a result the   *)
(* caller owns a reference to, or Exception with an exception pending.      *)

Outcome(H, v) == [heap |-> H, val |-> v]

\* Code running in r may return or throw any value it can get hold of: a primitive,
\* an object of r, one of the values args handed to it, or a new object ...
Returned(H, r, args) ==
  {Outcome(H, Prim)}
    \cup {Outcome(DupValue(H, o), o) : o \in HeapOf(H, r) \cup (args \cap Objects)}
    \cup {Outcome(NewObject(H, r, o), o) : o \in FreshObjects(H)}

Thrown(H, r, args) ==
  {Outcome(JS_Throw(out.heap, r, out.val), Exception) : out \in Returned(H, r, args)}

\* ... or may assign to any property.
Assigned(H, r, args) ==
  {Outcome(PutSlot(DupValue(H, v), p, k, v), Prim) :
     p \in HeapOf(H, r), k \in Keys, v \in HeapOf(H, r) \cup args \cup {Prim}}

\* A run of code does one of the three, after a collection or without one; a longer one
\* is a sequence of calls.
Returns(H, r, args) == UNION {Returned(G, r, args) : G \in js_trigger_gc(H, r)}
Throws(H, r, args) == UNION {Thrown(G, r, args) : G \in js_trigger_gc(H, r)}
Run(H, r, args) ==
  UNION {Returned(G, r, args) \cup Thrown(G, r, args) \cup Assigned(G, r, args) :
           G \in js_trigger_gc(H, r)}

\* As Run, for a call whose result the engine itself discards.
RunVoid(H, r, args) ==
  UNION {{Outcome(G, Prim)} \cup Thrown(G, r, args) \cup Assigned(G, r, args) :
           G \in js_trigger_gc(H, r)}

\* A data property is read as it is; an accessor or a proxy runs code.
JS_GetProperty(H, r, v, k) ==
  Run(H, r, {}) \cup
    (IF v \in Objects THEN {Outcome(DupValue(H, H.slot[v][k]), H.slot[v][k])} ELSE {})

\* Takes over the caller's reference to w on every path.
JS_SetProperty(H, r, v, k, w) ==
  {Outcome(FreeValue(out.heap, w), out.val) : out \in RunVoid(H, r, {w})} \cup
    (IF v \in Objects THEN {Outcome(PutSlot(H, v, k, w), Prim)} ELSE {})

-----------------------------------------------------------------------------
(* Helpers of the bridge. *)

\* No JS_FreeValue is still at work: calls of the bridge run to completion.
Quiet == heap.zero = {}

\* The fields the test reads are set for as long as the runtime is allocated.
valid_value(h) == Quiet /\ h \in live /\ mem[runtime[h]] = "live"

\* The caller owns the runtime handle until it passes it to js_runtime_destroy.
Owned(r) == Quiet /\ mem[r] = "live" /\ ~destroying[r]

\* set_error: the message is copied, and the copy may fail.
set_error(r) ==
  \E copy \in {Message} \cup (IF AllocMayFail THEN {NoError} ELSE {}) :
    last_error' = [last_error EXCEPT ![r] = copy]

clear_error(r) == last_error' = [last_error EXCEPT ![r] = NoError]

\* A call on runtime r returns NULL, or a non-zero status, having set the error.
Fails(r, H) ==
  /\ set_error(r)
  /\ heap' = H
  /\ UNCHANGED <<lifecycle, std_module_enabled, leaked>>

Succeeds(H) ==
  /\ heap' = H
  /\ UNCHANGED <<lifecycle, std_module_enabled, leaked>>

\* The pending exception is taken off the runtime and turned into a message.  The
\* conversion may run a toString: it may assign, or throw, which leaves a new exception
\* pending.
capture_exception(H, r) ==
  LET taken == [H EXCEPT !.exc[r] = NULL]
  IN  {FreeValue(out.heap, H.exc[r]) : out \in RunVoid(taken, r, {})}

\* What the call fails with when one of the outcomes is an exception.
FailsWithException(r, outcomes) ==
  LET thrown == {out \in outcomes : out.val = Exception}
  IN  \E H \in UNION {capture_exception(out.heap, r) : out \in thrown} : Fails(r, H)

\* Faulty: counts the handle before it tests the allocation.
new_value_handle_CountedFirst(r, H, v) ==
  \/ \E h \in Handles \ live :
       /\ live' = live \cup {h}
       /\ runtime' = [runtime EXCEPT ![h] = r]
       /\ value' = [value EXCEPT ![h] = v]
       /\ value_count' = [value_count EXCEPT ![r] = @ + 1]
       /\ heap' = H
       /\ clear_error(r)
       /\ UNCHANGED <<mem, destroying, std_module_enabled, leaked>>
  \/ /\ AllocMayFail
     /\ value_count' = [value_count EXCEPT ![r] = @ + 1]
     /\ heap' = FreeValue(H, v)
     /\ set_error(r)
     /\ UNCHANGED <<mem, destroying, live, runtime, value, std_module_enabled, leaked>>

\* Faulty: a failed allocation does not free the value.
new_value_handle_KeepsValue(r, H, v) ==
  \/ \E h \in Handles \ live :
       /\ live' = live \cup {h}
       /\ runtime' = [runtime EXCEPT ![h] = r]
       /\ value' = [value EXCEPT ![h] = v]
       /\ value_count' = [value_count EXCEPT ![r] = @ + 1]
       /\ heap' = H
       /\ clear_error(r)
       /\ UNCHANGED <<mem, destroying, std_module_enabled, leaked>>
  \/ AllocMayFail /\ Fails(r, H)

\* The handle takes over the caller's reference to v.
new_value_handle(r, H, v) ==
  \/ \E h \in Handles \ live :
       /\ live' = live \cup {h}
       /\ runtime' = [runtime EXCEPT ![h] = r]
       /\ value' = [value EXCEPT ![h] = v]
       /\ value_count' = [value_count EXCEPT ![r] = @ + 1]
       /\ heap' = H
       /\ clear_error(r)
       /\ UNCHANGED <<mem, destroying, std_module_enabled, leaked>>
  \/ AllocMayFail /\ Fails(r, FreeValue(H, v))

\* The common end of the calls that return a value handle.
ReturnsHandle(r, outcomes) ==
  \/ FailsWithException(r, outcomes)
  \/ \E out \in outcomes : out.val # Exception /\ new_value_handle(r, out.heap, out.val)

\* The common end of the calls that return a status.
ReturnsStatus(r, outcomes) ==
  \/ FailsWithException(r, outcomes)
  \/ \E out \in outcomes : out.val # Exception /\ clear_error(r) /\ Succeeds(out.heap)

-----------------------------------------------------------------------------
(* Calls on a runtime handle. *)

\* A creation that fails returns NULL and leaves nothing behind.
js_runtime_create(r) ==
  /\ Quiet /\ mem[r] = "none"
  /\ \E g \in FreshObjects(heap) :
       heap' = SetGlobal(NewObject(heap, r, g), r, g)
  /\ mem' = [mem EXCEPT ![r] = "live"]
  /\ UNCHANGED <<destroying, value_count, last_error, std_module_enabled, live,
                 runtime, value, leaked>>

\* free_runtime when `ready', else only the heap changes to H.
free_runtime_if(ready, r, H) ==
  /\ mem' = IF ready THEN [mem EXCEPT ![r] = "freed"] ELSE mem
  /\ heap' = IF ready THEN JS_FreeRuntime(H, r) ELSE H
  /\ leaked' = IF ready THEN leaked \cup Survivors(H, r) ELSE leaked
  /\ last_error' = IF ready THEN [last_error EXCEPT ![r] = NoError] ELSE last_error

\* Faulty: frees the runtime at once.
js_runtime_destroy_AtOnce(r) ==
  /\ Owned(r)
  /\ destroying' = [destroying EXCEPT ![r] = TRUE]
  /\ free_runtime_if(TRUE, r, heap)
  /\ UNCHANGED <<value_count, std_module_enabled, live, runtime, value>>

js_runtime_destroy(r) ==
  /\ Owned(r)
  /\ destroying' = [destroying EXCEPT ![r] = TRUE]
  /\ free_runtime_if(value_count[r] = 0, r, heap)
  /\ UNCHANGED <<value_count, std_module_enabled, live, runtime, value>>

js_runtime_enable_std_module(r) ==
  /\ Owned(r)
  /\ \/ std_module_enabled[r] /\ Succeeds(heap) /\ UNCHANGED last_error
     \/ /\ ~std_module_enabled[r]
        /\ \/ AllocMayFail /\ FailsWithException(r, Throws(heap, r, {}))
           \/ /\ \E m \in FreshObjects(heap) :
                   heap' = AddModule(NewObject(heap, r, m), r, m)
              /\ std_module_enabled' = [std_module_enabled EXCEPT ![r] = TRUE]
              /\ clear_error(r)
              /\ UNCHANGED <<lifecycle, leaked>>

\* Faulty: no JS_IsException test after JS_Eval.
js_runtime_eval_value_Unchecked(r, source) ==
  /\ Owned(r)
  /\ \/ source = NULL /\ Fails(r, heap)
     \/ source # NULL /\ \E out \in Run(heap, r, {}) : new_value_handle(r, out.heap, out.val)

js_runtime_eval_value(r, source) ==
  /\ Owned(r)
  /\ \/ source = NULL /\ Fails(r, heap)
     \/ source # NULL /\ ReturnsHandle(r, Run(heap, r, {}))

\* Faulty: the reference to the global object is not given back.
js_runtime_get_global_property_KeepsGlobal(r, name) ==
  /\ Owned(r)
  /\ \/ name = NULL /\ Fails(r, heap)
     \/ /\ name # NULL
        /\ LET g == heap.global[r]
           IN  ReturnsHandle(r, JS_GetProperty(DupValue(heap, g), r, g, name))

js_runtime_get_global_property(r, name) ==
  /\ Owned(r)
  /\ \/ name = NULL /\ Fails(r, heap)
     \/ /\ name # NULL
        /\ LET g == heap.global[r]
           IN  ReturnsHandle(r, {Outcome(FreeValue(out.heap, g), out.val) :
                                   out \in JS_GetProperty(DupValue(heap, g), r, g, name)})

js_runtime_new_bool(r) == Owned(r) /\ ReturnsHandle(r, {Outcome(heap, Prim)})

js_runtime_new_number(r) == Owned(r) /\ ReturnsHandle(r, {Outcome(heap, Prim)})

\* JS_NewString: throws only when the engine is out of memory.
JS_NewString(H, r) ==
  {Outcome(H, Prim)} \cup (IF AllocMayFail THEN Throws(H, r, {}) ELSE {})

js_runtime_new_string(r, val) ==
  /\ Owned(r)
  /\ \/ val = NULL /\ Fails(r, heap)
     \/ val # NULL /\ ReturnsHandle(r, JS_NewString(heap, r))

GetBigInt(r) ==
  LET g == heap.global[r]
  IN  {Outcome(FreeValue(out.heap, g), out.val) : out \in Run(DupValue(heap, g), r, {})}

\* JS_Call drops the argument string and the constructor on every path.
CallBigInt(c, r) ==
  {Outcome(FreeValue(out.heap, c.val), out.val) :
     out \in Throws(c.heap, r, {}) \cup (IF c.val = Exception THEN {} ELSE Returns(c.heap, r, {}))}

\* The constructor is whatever the global property "BigInt" holds by now.  When
\* reading it threw, the call finds no function to call and throws anew.
js_runtime_new_bigint(r, val) ==
  /\ Owned(r)
  /\ \/ val = NULL /\ Fails(r, heap)
     \/ val # NULL /\ ReturnsHandle(r, UNION {CallBigInt(c, r) : c \in GetBigInt(r)})

\* Copy the properties K of object m to o, as JS_GetProperty and
\* JS_DefinePropertyValue do one at a time.
CopyProperties(H, m, o, K) ==
  [H EXCEPT
    !.slot[o] = [k \in Keys |-> IF k \in K THEN H.slot[m][k] ELSE Prim],
    !.ref = [x \in Objects |-> H.ref[x] + Cardinality({k \in K : H.slot[m][k] = x})]]

\* Faulty: the half-built object is not freed when an export cannot be read.
CopyNamespace_Leaky(H, r, m, o) ==
  LET Copy(K) == CopyProperties(NewObject(H, r, o), m, o, K)
  IN  {Outcome(Copy(Keys), o)}
        \cup UNION {Throws(Copy(K), r, {}) : K \in (SUBSET Keys) \ {Keys}}

\* Faulty: the half-built object is freed only when it is still empty.
CopyNamespace_LeaksPart(H, r, m, o) ==
  LET Copy(K) == CopyProperties(NewObject(H, r, o), m, o, K)
  IN  {Outcome(Copy(Keys), o)}
        \cup UNION {{Outcome(IF K = {} THEN FreeValue(out.heap, o) ELSE out.heap, Exception) :
                        out \in Throws(Copy(K), r, {})} : K \in (SUBSET Keys) \ {Keys}}

\* A new object o of heap H gets the exports of m.  An export still in its temporal dead
\* zone stops the copy with an exception, after the exports K.
CopyNamespace(H, r, m, o) ==
  LET Copy(K) == CopyProperties(NewObject(H, r, o), m, o, K)
  IN  {Outcome(Copy(Keys), o)}
        \cup UNION {{Outcome(FreeValue(out.heap, o), Exception) :
                        out \in Throws(Copy(K), r, {})} : K \in (SUBSET Keys) \ {Keys}}

new_mutable_namespace_object(H, r, m) ==
  UNION {UNION {CopyNamespace(G, r, m, o) : o \in FreshObjects(G)} : G \in js_trigger_gc(H, r)}

\* Compile: the module record m is held by ctx->loaded_modules and by `compiled'.
CompileModule(H, r, m) == DupValue(AddModule(NewObject(H, r, m), r, m), m)

\* JS_EvalFunction drops `compiled'.  The body may assign, to its exports for one; a
\* body that throws rejects a promise the bridge drops, so it counts as one that ran.
EvalModule(H, r, m) ==
  {out.heap : out \in {ran \in RunVoid(FreeValue(H, m), r, {}) : ran.val = Prim}}

\* m stands for the module record and its namespace.
ImportOutcomes(H, r, m) ==
  Throws(H, r, {}) \cup
    {Outcome(FreeValue(out.heap, m), out.val) :
       out \in new_mutable_namespace_object(DupValue(H, m), r, m)}

\* JS_ResolveModule has nothing left to do after the compilation and cannot fail.
js_runtime_import_module(r, path) ==
  /\ Owned(r)
  /\ \/ path = NULL /\ Fails(r, heap)
     \/ path # NULL /\ Fails(r, heap)    \* read_file
     \/ path # NULL /\ FailsWithException(r, Throws(heap, r, {}))
     \/ /\ path # NULL
        /\ \E G \in js_trigger_gc(heap, r) : \E m \in FreshObjects(G) :
             ReturnsHandle(r, UNION {ImportOutcomes(H, r, m) :
                                       H \in EvalModule(CompileModule(G, r, m), r, m)})

-----------------------------------------------------------------------------
(* Calls on a value handle. *)

\* Faulty: the last handle of a destroyed runtime does not free it.
js_value_destroy_KeepsRuntime(h) ==
  /\ valid_value(h)
  /\ value_count' = [value_count EXCEPT ![runtime[h]] = @ - 1]
  /\ free_runtime_if(FALSE, runtime[h], FreeValue(heap, value[h]))
  /\ live' = live \ {h}
  /\ runtime' = [runtime EXCEPT ![h] = NULL]
  /\ value' = [value EXCEPT ![h] = NULL]
  /\ UNCHANGED <<destroying, std_module_enabled>>

js_value_destroy(h) ==
  /\ valid_value(h)
  /\ LET r == runtime[h]
         counted == value_count[r] > 0
         rest == IF counted THEN value_count[r] - 1 ELSE 0
     IN  /\ value_count' = [value_count EXCEPT ![r] = rest]
         /\ free_runtime_if(counted /\ destroying[r] /\ rest = 0, r,
                            FreeValue(heap, value[h]))
  /\ live' = live \ {h}
  /\ runtime' = [runtime EXCEPT ![h] = NULL]
  /\ value' = [value EXCEPT ![h] = NULL]
  /\ UNCHANGED <<destroying, std_module_enabled>>

\* The conversions clear no earlier error and leave what they threw pending.
js_value_to_number(h) ==
  /\ valid_value(h)
  /\ \E out \in RunVoid(heap, runtime[h], {}) :
       \/ out.val = Exception /\ Fails(runtime[h], out.heap)
       \/ out.val # Exception /\ Succeeds(out.heap) /\ UNCHANGED last_error

js_value_to_string(h) ==
  /\ valid_value(h)
  /\ \E out \in RunVoid(heap, runtime[h], {}) :
       \/ out.val = Exception /\ Fails(runtime[h], out.heap)
       \/ out.val # Exception /\ Succeeds(out.heap) /\ UNCHANGED last_error
       \/ out.val # Exception /\ AllocMayFail /\ Fails(runtime[h], out.heap)

\* JS_IsArray throws on a revoked proxy; the bridge then answers "yes".
js_value_is_array(h) ==
  /\ valid_value(h)
  /\ \E out \in {Outcome(heap, Prim)} \cup Throws(heap, runtime[h], {}) :
       Succeeds(out.heap)
  /\ UNCHANGED last_error

\* Reading "length" may throw, and so may its conversion to a number.
js_value_array_length(h) ==
  /\ valid_value(h)
  /\ LET r == runtime[h]
         read == Run(heap, r, {})
         lengths == {out \in read : out.val # Exception}
         Converted(len) == {Outcome(FreeValue(out.heap, len.val), out.val) :
                              out \in {Outcome(len.heap, Prim)} \cup Throws(len.heap, r, {})}
     IN  \/ FailsWithException(r, read)
         \/ \E out \in UNION {Converted(len) : len \in lengths} :
              \/ out.val = Exception /\ Fails(r, out.heap)
              \/ out.val # Exception /\ Succeeds(out.heap) /\ UNCHANGED last_error

js_value_get_property(h, name) ==
  /\ valid_value(h)
  /\ \/ name = NULL /\ Fails(runtime[h], heap)
     \/ /\ name # NULL
        /\ ReturnsHandle(runtime[h], JS_GetProperty(heap, runtime[h], value[h], name))

\* Faulty: tests the pointer only.
SameRuntime_NullTest(w, h) == w # NULL

\* The test the bridge makes on every handle it is passed besides the first.
SameRuntime(w, h) == w # NULL /\ runtime[w] = runtime[h]

\* The caller passes no handle that it has destroyed.
Usable(handles) == handles \subseteq live \cup {NULL}

js_value_set_property(h, name, w) ==
  /\ valid_value(h) /\ Usable({w})
  /\ \/ ~(name # NULL /\ SameRuntime(w, h)) /\ Fails(runtime[h], heap)
     \/ /\ name # NULL /\ SameRuntime(w, h)
        /\ ReturnsStatus(runtime[h],
             JS_SetProperty(DupValue(heap, value[w]), runtime[h], value[h], name, value[w]))

\* Here and in js_value_set_index NULL stands for a negative index.
js_value_get_index(h, index) ==
  /\ valid_value(h)
  /\ \/ index = NULL /\ Fails(runtime[h], heap)
     \/ /\ index # NULL
        /\ ReturnsHandle(runtime[h], JS_GetProperty(heap, runtime[h], value[h], index))

\* Faulty: gives the engine a reference the bridge does not own (no JS_DupValue).
js_value_set_index_NoDup(h, index, w) ==
  /\ valid_value(h) /\ Usable({w})
  /\ \/ ~(index # NULL /\ SameRuntime(w, h)) /\ Fails(runtime[h], heap)
     \/ /\ index # NULL /\ SameRuntime(w, h)
        /\ ReturnsStatus(runtime[h],
             JS_SetProperty(heap, runtime[h], value[h], index, value[w]))

js_value_set_index(h, index, w) ==
  /\ valid_value(h) /\ Usable({w})
  /\ \/ ~(index # NULL /\ SameRuntime(w, h)) /\ Fails(runtime[h], heap)
     \/ /\ index # NULL /\ SameRuntime(w, h)
        /\ ReturnsStatus(runtime[h],
             JS_SetProperty(DupValue(heap, value[w]), runtime[h], value[h], index, value[w]))

\* Every argument is a value of the callee's runtime.
fill_argv(h, args) == \A a \in args : SameRuntime(a, h)

\* Faulty: takes the result for a borrowed value and frees it.
js_value_call_FreesResult(f, this, args) ==
  /\ valid_value(f) /\ Usable(args \cup {this}) /\ this = NULL /\ args = {}
  /\ \E out \in Run(heap, runtime[f], {}) :
       out.val # Exception /\ new_value_handle(runtime[f], FreeValue(out.heap, out.val), out.val)

js_value_call(f, this, args) ==
  /\ valid_value(f) /\ Usable(args \cup {this})
  /\ LET accepted == (this = NULL \/ SameRuntime(this, f)) /\ fill_argv(f, args)
         passed == {value[a] : a \in args \cup {f} \cup ({this} \ {NULL})}
     IN  \/ ~accepted /\ Fails(runtime[f], heap)
         \/ accepted /\ ReturnsHandle(runtime[f], Run(heap, runtime[f], passed))

js_value_construct(f, args) ==
  /\ valid_value(f) /\ Usable(args)
  /\ \/ ~fill_argv(f, args) /\ Fails(runtime[f], heap)
     \/ /\ fill_argv(f, args)
        /\ ReturnsHandle(runtime[f],
             Run(heap, runtime[f], {value[a] : a \in args \cup {f}}))

-----------------------------------------------------------------------------
(* The end of a call. *)

\* free_zero_refcount: the loop behind JS_FreeValue.  No call starts before the list
\* is empty, so it always runs to its end.
free_zero_refcount_obj ==
  /\ \E o \in heap.zero : heap' = FreeObjects(heap, {o})
  /\ UNCHANGED <<lifecycle, last_error, std_module_enabled, leaked>>

-----------------------------------------------------------------------------
Init ==
  /\ mem = [r \in Runtimes |-> "none"]
  /\ destroying = [r \in Runtimes |-> FALSE]
  /\ value_count = [r \in Runtimes |-> 0]
  /\ last_error = [r \in Runtimes |-> NoError]
  /\ std_module_enabled = [r \in Runtimes |-> FALSE]
  /\ live = {}
  /\ runtime = [h \in Handles |-> NULL]
  /\ value = [h \in Handles |-> NULL]
  /\ heap = [ref    |-> [o \in Objects |-> 0],
             home   |-> [o \in Objects |-> NULL],
             slot   |-> [o \in Objects |-> [k \in Keys |-> Prim]],
             exc    |-> [r \in Runtimes |-> NULL],
             global |-> [r \in Runtimes |-> NULL],
             mods   |-> [r \in Runtimes |-> {}],
             zero   |-> {}]
  /\ leaked = {}

Strings == {Prim, NULL}             \* a C string whose text does not matter, or none
HandleArgs == Handles \cup {NULL}   \* an optional value handle
ArgLists == {args \in SUBSET HandleArgs : Cardinality(args) <= MaxArgs}

Next ==
  \/ free_zero_refcount_obj
  \/ \E r \in Runtimes :
       \/ js_runtime_create(r)
       \/ js_runtime_destroy(r)
       \/ js_runtime_enable_std_module(r)
       \/ js_runtime_new_bool(r)
       \/ js_runtime_new_number(r)
       \/ \E name \in Names \cup {NULL} : js_runtime_get_global_property(r, name)
  \/ \E r \in Runtimes, text \in Strings :
       \/ js_runtime_eval_value(r, text)
       \/ js_runtime_new_string(r, text)
       \/ js_runtime_new_bigint(r, text)
       \/ js_runtime_import_module(r, text)
  \/ \E h \in Handles :
       \/ js_value_destroy(h)
       \/ js_value_to_number(h)
       \/ js_value_to_string(h)
       \/ js_value_is_array(h)
       \/ js_value_array_length(h)
  \/ \E h \in Handles, name \in Names \cup {NULL} :
       \/ js_value_get_property(h, name)
       \/ \E w \in HandleArgs : js_value_set_property(h, name, w)
  \/ \E h \in Handles, index \in Indices \cup {NULL} :
       \/ js_value_get_index(h, index)
       \/ \E w \in HandleArgs : js_value_set_index(h, index, w)
  \/ \E h \in Handles, args \in ArgLists :
       \/ js_value_construct(h, args)
       \/ \E this \in HandleArgs : js_value_call(h, this, args)

Spec == Init /\ [][Next]_vars

-----------------------------------------------------------------------------
(* Properties. *)

\* The fields that decide when a runtime is freed have their types.
LifecycleTypeOK ==
  /\ mem \in [Runtimes -> {"none", "live", "freed"}]
  /\ destroying \in [Runtimes -> BOOLEAN]
  /\ value_count \in [Runtimes -> Nat]
  /\ live \in SUBSET Handles
  /\ runtime \in [Handles -> Runtimes \cup {NULL}]

\* Every field and every heap cell has its type; a handle never holds JS_EXCEPTION.
TypeOK ==
  /\ LifecycleTypeOK
  /\ last_error \in [Runtimes -> {NoError, Message}]
  /\ std_module_enabled \in [Runtimes -> BOOLEAN]
  /\ value \in [Handles -> Values \cup {NULL}]
  /\ heap \in HeapType
  /\ leaked \in SUBSET Objects

HandlesOf(r) == {h \in live : runtime[h] = r}

\* value_count is the number of allocated value handles of the runtime, whatever
\* calls failed on the way (new_value_handle, js_value_destroy).
ValueCountExact == \A r \in Runtimes : value_count[r] = Cardinality(HandlesOf(r))

\* js_value_destroy and every valid_value test read the runtime handle behind a value
\* handle: it is still allocated, also long after js_runtime_destroy.
RuntimeOutlivesHandles == \A h \in live : runtime[h] \in Runtimes /\ mem[runtime[h]] = "live"

\* Who keeps a runtime allocated: its handles and, until js_runtime_destroy, its
\* creator, written NULL.
OwnersOf(r) == HandlesOf(r) \cup (IF mem[r] = "live" /\ ~destroying[r] THEN {NULL} ELSE {})

Ownership ==
  INSTANCE HandleOwnership WITH
    state <- mem, owners <- [r \in Runtimes |-> OwnersOf(r)], Creator <- NULL

\* The counter, the destroying flag and the deferred free implement shared ownership:
\* a runtime is freed in the call that drops its last owner, and in no other.
ImplementsOwnership == Ownership!Spec

\* Once the runtime and all of its values have been destroyed, free_runtime has run:
\* no order of the destroy calls leaves the runtime allocated.
RuntimeNotLeaked ==
  \A r \in Runtimes : destroying[r] /\ HandlesOf(r) = {} => mem[r] = "freed"

\* The places that refer to an object.
Referrers(o) ==
  InDegree(heap, Objects, o)
    + Cardinality({h \in live : value[h] = o})
    + Cardinality({r \in Runtimes : heap.global[r] = o})
    + Cardinality({r \in Runtimes : heap.exc[r] = o})
    + Cardinality({r \in Runtimes : o \in heap.mods[r]})

\* The bridge balances every JSValue reference on every path, error paths included:
\* an object's count is the number of places that refer to it.
ReferencesBalanced == \A o \in Objects : heap.ref[o] = Referrers(o)

\* The value behind a handle is never freed by the engine, neither by a reference
\* count nor by a collection, while the handle exists.
HandleKeepsValue ==
  \A h \in live : value[h] \in Objects =>
    heap.home[value[h]] = runtime[h] /\ value[h] \notin heap.zero

\* JS_FreeRuntime's assert(list_empty(&rt->gc_obj_list)) holds whenever free_runtime
\* runs.
NothingLeaked == leaked = {}

\* Runtimes "cannot exchange objects" (doc/quickjs.texi): no property of one runtime's
\* object refers to an object of another runtime or to a freed one.
HeapsAreSeparate ==
  \A p \in Objects, k \in Keys :
    heap.slot[p][k] \in Objects => heap.home[heap.slot[p][k]] = heap.home[p]

=============================================================================
