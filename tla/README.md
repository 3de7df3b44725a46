# A TLA+ model of the QuickJS interop library

This directory specifies and verifies the Cangjie/JavaScript interop library of
this repository. Paths below are relative to the repository root.

## 1. The system

Cangjie code uses JavaScript values through `Extern<JSRuntime>`. Four layers lie
between such a value and the JavaScript object:

| Layer | Source | State |
| --- | --- | --- |
| `JSRuntime` and helpers | `src/quickJSRuntime.cj` | one static runtime pointer; payloads of `Extern`: `JSValueRef`, `JSMethodRef` (function and receiver), raw pointers |
| Finalizers | `src/quickJSRuntime.cj` (`~init`) | reachability of the references, decided by the Cangjie collector |
| C bridge | `native/bridge/quickjs_bridge.c` | `js_runtime_handle` (engine runtime, context, `last_error`, `value_count`, `destroying`, `std_module_enabled`), `js_value_handle` (runtime, value) |
| QuickJS | `native/quickjs/` (vendored) | heap with reference counts, pending exception, global object, module list, job queue |

### 1.1 Inventory

**C bridge.** Operations: `js_runtime_create`, `_destroy`, `_enable_std_module`,
`_eval_value`, `_get_global_property`, `_new_bool`, `_new_number`, `_new_string`,
`_new_bigint`, `_import_module`, `_last_error`; `js_value_destroy`, `_kind`, `_to_bool`,
`_to_number`, `_to_string`, `_is_array`, `_array_length`, `_get_property`,
`_set_property`, `_get_index`, `_set_index`, `_call`, `_construct`;
`js_bridge_free_string`.
Hard behaviours: the runtime is destroyed while values exist and is freed later by
the last of them; allocations fail after the engine has produced a value; some engine calls
consume a reference and others do not; JavaScript runs inside almost every call (accessors,
proxies, conversions) and may throw anywhere, also while an exception is being
converted to a message.
It should guarantee: no runtime freed early, twice or never; every reference taken is
given back once; no value of one runtime stored in another; no handle around
`JS_EXCEPTION`.

**QuickJS heap.** `JS_DupValue`, `JS_FreeValue`, the deferred list of objects at zero,
the cycle collector, `JS_FreeContext`, `JS_FreeRuntime` with its assertion that no object
is left. The bridge depends on handles counting as references from outside.

**`functionCall`.** Calls a value and, when that fails for any reason,
constructs it with the same arguments. Hard behaviours: bodies with effects, functions that
cannot be constructed, classes that cannot be called, messages overwritten by the second attempt,
thrown values that cannot be printed.
It should guarantee: a body runs as often as the caller asked, and the caller sees its
exception.

**References and finalizers.** `JSValueRef` owns a handle and destroys it when
collected, on a thread of the collector. `JSMethodRef` keeps function and receiver alive.
Hard behaviours: a finalizer runs while another thread is in the engine ("Inside a
given runtime, no multi-threading is supported", `native/quickjs/doc/quickjs.texi`); two references
own one handle when the payload is a raw pointer.
It should guarantee: a handle is destroyed once, after its last use, and by one thread at a time.

**Conversions.** `toJSValue` and `quickJS2Cangjie` route 8 and 16 bit integers, `Int32`
and floats through Number, `Int64`, `UInt32`, `UInt64` and `BigInt` through BigInt
(and its decimal text). It should guarantee that a value survives the way there and
back, and that a value that does not fit is rejected.

**Member and index access.** Kind tests, then one native call; array access checks the
index against `length` first. Hard behaviours: reading `length` runs JavaScript; the
native call uses the low 32 bits of the index; a failed length is -1.

**Scripts, globals, modules.** One native call each, then `runtimeError` reads `last_error`.
`getModule` compiles the file again each time, evaluates it and copies the namespace into a
mutable object. Hard behaviours: the promise of the evaluation is dropped; pending jobs
are never run; a nested import resolves by name among the records already loaded.

`PROJECT.json` lists the hazards with their source lines and the properties that
address them.

## 2. Modules

| Module | Models | Depends on |
| --- | --- | --- |
| `HandleOwnership` | abstract: a runtime shared by its creator and its value handles | |
| `Bridge` | every state-changing function of the C bridge, over a reference-counted heap | `HandleOwnership` (refinement) |
| `MCBridge` | symmetry and bounds for TLC | `Bridge` |
| `BridgeProofs` | proofs: lifecycle, refinement | `Bridge` |
| `BridgeTypes` | proof: types | `BridgeProofs` |
| `FunctionCall` | `JSRuntime.functionCall` over `js_value_call` and `js_value_construct` | |

### 2.1 Bridge

Variables are the fields of the two structures (`destroying`, `value_count`,
`last_error`, `std_module_enabled`, `runtime`, `value`), what is allocated (`mem`,
`live`), the engine (`heap`) and the history variable `leaked`. One action is one
call; the names are the C names. The caller is the most general one that respects
the contract of the interface: it destroys each handle once and does not use it afterwards, and it
makes one call at a time. Early returns on a null pointer or an invalid handle that touch nothing
are not steps.

The heap is a record: reference counts, the runtime an object lives in, properties,
pending exception, global object, module records, and the objects whose count has reached
zero and that are not freed yet. Running JavaScript (`Run`) returns a
primitive, an existing object or a new one, throws one of these, or makes one
assignment. Longer programs are sequences of calls. A value without a
reference count is the single value `Prim`; strings and big integers
are among them, so a leaked string would not be noticed. `last_error` is kept as present or
absent.

Freeing an object frees what only it referred to; this recursion is the separate
action `free_zero_refcount_obj`, and no call starts before the list is empty (`Quiet`), so it
is part of the call that caused it. The engine collects cycles when it creates an object, that is
in the middle of a call: `js_trigger_gc` gives the heap before and after a collection, and
every run of JavaScript, every exception and the creation of a namespace object go on from either. The
references the bridge holds in C locals at that point (the exception being converted to a
message, the `BigInt` function, the module and its namespace, the half-built copy) are counted and keep
their objects. `Garbage` is the largest set of objects that only members of the set refer to.

`capture_exception` takes the exception off the runtime and converts it to a string, which may run a
`toString` that assigns, throws anew or collects. The copy of a namespace (`CopyNamespace`) may stop
after any of the exports.

`js_value_kind`, `js_value_to_bool`, `js_runtime_last_error` and
`js_bridge_free_string` change nothing the model keeps. (`JS_ToBool` fails only for
`JS_EXCEPTION`, which no handle holds: `TypeOK`.) `JS_ResolveModule` in `js_runtime_import_module`
has no work left after the compilation, which resolves the module already.

### 2.2 FunctionCall

A `functionCall` is three steps: payload and arguments, call, construction. The callee is a
plain function (callable and constructible), a "method" (callable only: methods, arrow functions and
generator functions, where a call runs the parameter initialisers), an async function (a call always
returns a promise, which is rejected when the body throws; not constructible), a class
(constructible only, `OP_check_ctor`), another object, or a null handle. A body may end
differently in its two runs. `runs` and `writer` are history variables: the runs of the body, and which
native call last wrote `last_error`.

A thrown value is the text it is printed as, without the name of its class, or `Unprintable`: a Symbol, or an
object whose `toString` throws. For the latter `JS_ToCString` returns null and `copy_string`
puts "unknown QuickJS error" in place of the message. With `AllocMayFail` the conversion, the copy and the
allocation of a handle may each fail; `last_error` is then null, which `js_runtime_last_error`
gives to Cangjie as the empty string, and `valueFromCallHandle` replaces the empty string by a fixed text. The
engine's own errors are printed by `Error.prototype.toString`; a script that replaces it is not modelled.
Converting an argument may fail in `toJSValue` itself, in the bridge, or in the function a script has
put in place of `BigInt`.

## 3. Runs

| Run | Instance | Shows |
| --- | --- | --- |
| `bridge_lifecycle` | 1 runtime, 2 handles, 2 objects, one name, allocations may fail | `TypeOK`, `ValueCountExact`, `RuntimeOutlivesHandles`, `RuntimeNotLeaked`, `ImplementsOwnership`: `Bridge` refines `HandleOwnership`; `ReferencesBalanced`: every reference count is the number of referrers after every call, also one that could not allocate its result; `NothingLeaked`: the assertion in `JS_FreeRuntime` holds |
| `bridge_modules` | 1 handle, 3 objects, one index | `ReferencesBalanced` and `NothingLeaked` with modules and their namespaces |
| `bridge_exports` | 1 handle, 3 objects, a name and an index, allocations may fail | `ReferencesBalanced` when the copy of a namespace stops before, between or after two exports |
| `bridge_cycles` | 2 handles, 3 objects, no modules | `HandleKeepsValue`: neither counting nor the collector frees what a handle holds |
| `bridge_runtimes` | 2 runtimes, 2 handles, 3 objects, calls with one argument, no modules and no exception left pending | `HeapsAreSeparate` |
| `function_call` | 3 texts, one of them empty | `RetryOnlyAfterThrow`, `ConstructorErrorKept` |
| `function_call_memory` | the same, allocations may fail | `TypeOK` (an exception of `functionCall` always has a message), `ReturnIsLastRun`, `NoRunOnBadArguments`, `MessageOfThisCall` |
| `function_call_method_error` | as `function_call` | `FunctionErrorKept` is violated, see 3.2 |
| `function_call_swallowed` | as `function_call` | `ThrowingFunctionThrows` is violated, see 3.2 |

`RetryOnlyAfterThrow` and `ConstructorErrorKept` need memory: a call whose result gets no handle is retried
although the body returned, and a message that cannot be copied is lost. `MessageOfThisCall` leaves out the null
handle, which the bridge refuses without touching `last_error`: the exception then has the message of
whatever failed before.

### 3.1 Bounds

Two handles give every order of two destroy calls and the destruction of the runtime, and a
handle that outlives another of the same object. Three objects are the global object and
two more: enough for a cycle, for a cycle hanging off a handle, and for a module and the
copy of its namespace. One property name (or index) per object is enough to
build these graphs; `bridge_exports` has two keys, so that a copy can stop in the middle. Longer chains of objects and more handles are not explored; the
lifecycle and type results are proved without bounds. The runs other than `bridge_lifecycle` bound the
states from which calls are made; the invariants are checked after the calls that leave the bound, too.
`PendingInSmallHeap` (`bridge_modules`, `bridge_cycles`): an exception is left pending only while at most one
property holds an object. `NoModules` (`bridge_cycles`, `bridge_runtimes`): no module is loaded. `NoPending`:
no exception is left pending (`bridge_exports`, `bridge_runtimes`). `OneProperty` (`bridge_exports`) and
`TwoProperties` (`bridge_runtimes`): at most that many properties hold an object. `bridge_lifecycle` has no such
bound, so modules, pending exceptions and failed allocations meet there. `MaxArgs` bounds
the distinct argument handles of a call. Handles, objects and runtimes are symmetric.

`CHECK_DEADLOCK FALSE` is set for `Bridge`: a freed runtime is never used again, so the system may stop.
No fairness is assumed anywhere and no liveness property is stated so far: the bridge only
answers calls.

### 3.2 Disagreements between code and tests

`tests/smoke/src/errors_and_lifecycle.cj` calls a throwing function and fails when the
call succeeds ("throwing function unexpectedly succeeded") or when the message is
not that of the function ("throwing function error message was not preserved").
The tests pass, as they use a plain function that throws the same error each time. In general:

- `function_call_method_error`: for a method or an arrow function, `functionCall` drops the
  exception of the call and throws the construction's "not a constructor".
- `function_call_swallowed`: a plain function that throws when called is run again by the
  construction; if that run returns, `functionCall` returns an object and the exception
  is lost.

## 4. Proofs

The proofs hold for every value of the constants that satisfies `BridgeAssumption`: finite
sets of handles, objects, names and indices, and `NULL`, `Prim` and `JS_EXCEPTION` distinct from
the rest.

- `BridgeProofs!LifecycleCorrect`: `ValueCountExact`, `RuntimeOutlivesHandles` and
  `RuntimeNotLeaked` always hold.
  Every action is first shown to have one of five effects on the lifecycle variables
  (`Same`, `Grow`, `Begin`, `Close`, `Shrink`; lemma `StepShape`). The inductive invariant
  `LifecycleInv` adds the types and `FlagsAgree`, which relates `destroying` to `mem`.
  The code tests a counter where the property speaks of a set, so `ValueCountExact` is needed to show
  the other two, and `RuntimeOutlivesHandles` to know that a call on a handle acts on an
  allocated runtime.
- `BridgeProofs!BridgeImplementsOwnership`: `Bridge` implements `HandleOwnership`. The owners
  of a runtime are its handles and, until `js_runtime_destroy`, its creator. Each
  effect maps to one abstract step, or to none.
- `BridgeTypes!TypeCorrect`: `TypeOK` always holds. One lemma per heap operator, one per
  engine call (its outcomes are a heap and a value or `JS_EXCEPTION`), one per
  common ending of a call, then one case per action. The types are inductive only together with the
  fact that an allocated handle holds a value, not null.

Only model-checked: `ReferencesBalanced`, `NothingLeaked`, `HandleKeepsValue`, `HeapsAreSeparate` and
all of `FunctionCall`. The prover handles neither liveness nor induction over data.

## 5. Not modelled

JavaScript as a language (parser, compiler, interpreter, libraries), the std module's input
and output, and the command line programs: the bridge sees JavaScript only through what it
returns, throws and assigns. Atoms, shapes, strings and weak references of the heap. Two threads in the
bridge at once, see the plan.

## 6. Plan

1. `Interop`: references, the collector and the finalizer thread over `HandleOwnership`.
   Calls have a beginning and an end, so that a finalizer, or another thread, can run in
   between. Properties: no handle is used after it is destroyed or destroyed twice; one thread at
   a time is in the engine; a message read by `runtimeError` belongs to the call that failed; an
   unreachable handle is eventually destroyed (weak fairness of the finalizer thread).
2. `Conversion`: `toJSValue` and `quickJS2Cangjie` by type and width over scaled-down
   integers. Properties: round trips, rejection of what does not fit; theorems for every width.
3. `ArrayAccess`: the bounds check against an array that JavaScript changes in between,
   indices with 32 of 64 bits.
4. `ModuleImport`: records, names, nested imports, evaluation with top-level await and throw,
   the job queue that nobody runs.
5. `Collector`: the three passes of the cycle collector, shown to free exactly `Bridge!Garbage`.
6. Proofs: `HeapsAreSeparate` and `HandleKeepsValue` from a balance invariant on the
   heap; the `FunctionCall` properties; the safety properties of `Interop` and `Conversion`.
