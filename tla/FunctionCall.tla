---------------------------- MODULE FunctionCall ----------------------------
(***************************************************************************)
(* JSRuntime.functionCall (src/quickJSRuntime.cj): a value is first called *)
(* and, when anything at all goes wrong, constructed with the same         *)
(* arguments.  This is how Cangjie code writes both f(x) and new C(x).     *)
(*                                                                         *)
(* One functionCall is up to three steps: the match on the payload and the *)
(* conversion of the arguments, js_value_call, js_value_construct.  What a *)
(* body does is open: a second run may end differently from the first, as  *)
(* it sees the effects of the first.                                       *)
(***************************************************************************)
EXTENDS Naturals, Sequences

CONSTANTS
  Texts,         \* what a value thrown by a JavaScript body is printed as
  EmptyText,     \* the one of Texts that is the empty string
  AllocMayFail   \* whether a message cannot be printed or copied, or a handle
                 \* allocated, for lack of memory

\* What a handle refers to.  "method" stands for methods, arrow functions and generator
\* functions (calling one of these runs its parameter initialisers), "async" for async
\* functions, "null" for the null handle.
Callees == {"function", "method", "async", "class", "object", "null"}
Functions == {"function", "method", "async", "class"}

\* How a run of a body may end besides throwing a value printed as one of Texts.
Returned == "returned"
Unprintable == "a Symbol, or an object whose toString throws"
Thrown == Texts \cup {Unprintable}

\* Messages of the engine, of the bridge and of JSRuntime.
NotAFunction == "not a function"
NotAConstructor == "not a constructor"
NeedsNew == "class constructors must be invoked with 'new'"
BadArgument == "argument does not belong to this runtime"
OutOfMemory == "failed to allocate JavaScript value handle"
Unknown == "unknown QuickJS error"
CallFailed == "JavaScript function call failed"
NotCallable == "Expected function or class"
Unsupported == "Unsupported type by JSRuntime"
NoJSValue == "Extern value does not contain a JavaScript value"
NULL == "the null pointer"

ASSUME FunctionCallAssumption ==
  /\ EmptyText \in Texts
  /\ Texts \cap {Returned, Unprintable, NULL} = {}
  /\ AllocMayFail \in BOOLEAN

\* What last_error may point to.
Messages ==
  Texts \cup {NotAFunction, NotAConstructor, NeedsNew, BadArgument, OutOfMemory, Unknown}

VARIABLES
  pc,          \* the next step of functionCall: "idle", "call" or "construct"
  target,      \* the payload of the Extern and what its handle refers to
  args,        \* the arguments, see Arguments
  last_error,  \* js_runtime_handle.last_error
  writer,      \* the native call of this functionCall that last wrote last_error
  runs,        \* the runs of the body in this functionCall
  answer       \* what the latest functionCall returned or threw

vars == <<pc, target, args, last_error, writer, runs, answer>>

\* memberAccess makes a JSMethodRef only of a function.
Targets ==
  [payload : {"JSValueRef"}, callee : Callees]
    \cup [payload : {"JSMethodRef"}, callee : Functions]
    \cup [payload : {"other"}, callee : {"null"}]

\* "unsupported": one that toJSValue does not convert.  "failing": one for which the
\* bridge returns no handle.  "foreign": one whose handle fill_argv refuses.
Arguments == {"good", "unsupported", "failing", "foreign"}

Run == [how  : {"call", "construct"},
        this : {"receiver", "undefined", "new object"},
        end  : Thrown \cup {Returned}]

\* An exception comes from the conversion of the arguments or from functionCall itself,
\* whose exceptions always have a message.
Answers ==
  [by : {"none", "call", "construct"}, text : {Returned}]
    \cup [by : {"arguments"}, text : Messages \cup {Unsupported, NoJSValue}]
    \cup [by : {"functionCall"}, text : (Messages \ {EmptyText}) \cup {CallFailed, NotCallable}]

-----------------------------------------------------------------------------
(* The engine. *)

\* A run of the body, recorded in `ran'.
BodyRun(how, this, end) == [ran |-> <<[how |-> how, this |-> this, end |-> end]>>, end |-> end]

BodyRuns(how, this) == {BodyRun(how, this, end) : end \in Thrown \cup {Returned}}

Refuses(text) == {[ran |-> <<>>, end |-> text]}

\* What the body of an async function throws rejects the promise the call returns.
js_async_function_call(this) == {BodyRun("call", this, Returned)}

\* The first instruction of a class constructor, when it is not called by `new'.
OP_check_ctor == Refuses(NeedsNew)

JS_Call(callee, this) ==
  CASE callee \in {"function", "method"} -> BodyRuns("call", this)
    [] callee = "async" -> js_async_function_call(this)
    [] callee = "class" -> OP_check_ctor
    [] callee = "object" -> Refuses(NotAFunction)

\* "object" is an object without [[Construct]]; a primitive is refused with another text.
JS_CallConstructor(callee) ==
  CASE callee \in {"function", "class"} -> BodyRuns("construct", "new object")
    [] callee \in {"method", "async"} -> Refuses(NotAConstructor)
    [] callee = "object" -> Refuses(NotAConstructor) \cup Refuses(NotAFunction)

\* A thrown value as a C string.
JS_ToCString(thrown) ==
  IF thrown = Unprintable
  THEN {NULL}
  ELSE {thrown} \cup (IF AllocMayFail THEN {NULL} ELSE {})

-----------------------------------------------------------------------------
(* The bridge. *)

\* What last_error is set to: a copy of the message, which may fail, or of a fixed text
\* when there is no message.
set_error(message) ==
  {IF message = NULL THEN Unknown ELSE message} \cup (IF AllocMayFail THEN {NULL} ELSE {})

capture_exception(thrown) == UNION {set_error(message) : message \in JS_ToCString(thrown)}

\* The native call `how' ends, with a handle or with NULL, having written last_error.
Ends(how, out, succeeded, errors) ==
  {[ran |-> out.ran, ok |-> succeeded, error |-> e, writer |-> how] : e \in errors}

\* The end of a native call the engine has answered; clear_error came before.
Answered(how, out) ==
  IF out.end # Returned
  THEN Ends(how, out, FALSE, capture_exception(out.end))
  ELSE Ends(how, out, TRUE, {NULL})
         \cup (IF AllocMayFail THEN Ends(how, out, FALSE, set_error(OutOfMemory)) ELSE {})

Silent == {[ran |-> <<>>, ok |-> FALSE, error |-> last_error, writer |-> writer]}

\* Faulty: fill_argv refuses an argument without a message.
Native_SilentArgument(how, callee, outs) ==
  IF callee = "null" \/ args = "foreign"
  THEN Silent
  ELSE UNION {Answered(how, out) : out \in outs}

\* Faulty: no fill_argv test.
Native_AnyArgument(how, callee, outs) ==
  IF callee = "null" THEN Silent ELSE UNION {Answered(how, out) : out \in outs}

\* The part js_value_call and js_value_construct share: valid_value, fill_argv, the
\* engine call, capture_exception or new_value_handle.  A null handle is refused
\* without a word.
Native(how, callee, outs) ==
  CASE callee = "null" -> Silent
    [] callee # "null" /\ args = "foreign" ->
         Ends(how, [ran |-> <<>>], FALSE, set_error(BadArgument))
    [] OTHER -> UNION {Answered(how, out) : out \in outs}

js_value_call(callee, this) ==
  Native("call", callee, IF callee = "null" THEN {} ELSE JS_Call(callee, this))

js_value_construct(callee) ==
  Native("construct", callee, IF callee = "null" THEN {} ELSE JS_CallConstructor(callee))

-----------------------------------------------------------------------------
(* JSRuntime. *)

\* js_runtime_last_error gives the empty string for a missing message.
runtimeError(error) == IF error = NULL THEN EmptyText ELSE error

\* Faulty: no default for an empty message.
valueFromCallHandle_NoDefault(error) == runtimeError(error)

\* The message of the exception valueFromCallHandle throws for a NULL result.
valueFromCallHandle(error) ==
  IF runtimeError(error) = EmptyText THEN CallFailed ELSE runtimeError(error)

Throws(by, text) == answer' = [by |-> by, text |-> text]

Performed(native) ==
  /\ last_error' = native.error
  /\ writer' = native.writer
  /\ runs' = runs \o native.ran
  /\ UNCHANGED <<target, args>>

\* What a failed conversion leaves in last_error: an exception out of the BigInt a script
\* may have replaced, or no handle for the value.
ConversionErrors ==
  UNION {capture_exception(thrown) : thrown \in Thrown \cup {NotAFunction}}
    \cup (IF AllocMayFail THEN set_error(OutOfMemory) ELSE {})

\* Converting the arguments: an allocated handle clears last_error, and
\* valueFromRuntimeHandle throws what a failed call left there.
toJSValues(a) ==
  \/ /\ a = "unsupported"
     /\ \E text \in {Unsupported, NoJSValue} : Throws("arguments", text)
     /\ last_error' \in {last_error, NULL}
     /\ UNCHANGED pc
  \/ /\ a = "failing"
     /\ last_error' \in ConversionErrors
     /\ Throws("arguments", runtimeError(last_error'))
     /\ UNCHANGED pc
  \/ /\ a \in {"good", "foreign"}
     /\ pc' = "call"
     /\ answer' = [by |-> "none", text |-> Returned]
     /\ last_error' \in {last_error, NULL}

functionCall(t, a) ==
  /\ pc = "idle"
  /\ target' = t
  /\ args' = a
  /\ runs' = <<>>
  /\ writer' = "earlier"
  /\ \/ t.payload = "other" /\ Throws("functionCall", NotCallable) /\ UNCHANGED <<pc, last_error>>
     \/ t.payload # "other" /\ toJSValues(a)

\* Faulty: forgets the receiver of a method.
callValue_NoReceiver ==
  /\ pc = "call"
  /\ \E native \in js_value_call(target.callee, "undefined") :
       /\ Performed(native)
       /\ IF native.ok
          THEN pc' = "idle" /\ answer' = [by |-> "call", text |-> Returned]
          ELSE pc' = "construct" /\ UNCHANGED answer

\* Faulty: retries although the call returned.
callValue_AlwaysRetries ==
  /\ pc = "call"
  /\ \E native \in js_value_call(target.callee,
                     IF target.payload = "JSMethodRef" THEN "receiver" ELSE "undefined") :
       Performed(native) /\ pc' = "construct" /\ UNCHANGED answer

\* A plain value is called with `this' undefined.
callValue ==
  /\ pc = "call"
  /\ \E native \in js_value_call(target.callee,
                     IF target.payload = "JSMethodRef" THEN "receiver" ELSE "undefined") :
       /\ Performed(native)
       /\ IF native.ok
          THEN pc' = "idle" /\ answer' = [by |-> "call", text |-> Returned]
          ELSE pc' = "construct" /\ UNCHANGED answer    \* catch (_)

\* Faulty: rethrows the error of the call instead of its own.
constructValue_FirstError ==
  /\ pc = "construct"
  /\ \E native \in js_value_construct(target.callee) :
       /\ Performed(native)
       /\ pc' = "idle"
       /\ IF native.ok
          THEN answer' = [by |-> "construct", text |-> Returned]
          ELSE Throws("functionCall", valueFromCallHandle(last_error))

constructValue ==
  /\ pc = "construct"
  /\ \E native \in js_value_construct(target.callee) :
       /\ Performed(native)
       /\ pc' = "idle"
       /\ IF native.ok
          THEN answer' = [by |-> "construct", text |-> Returned]
          ELSE Throws("functionCall", valueFromCallHandle(native.error))

Init ==
  /\ pc = "idle"
  /\ target = [payload |-> "other", callee |-> "null"]
  /\ args = "good"
  /\ last_error = NULL
  /\ writer = "earlier"
  /\ runs = <<>>
  /\ answer = [by |-> "none", text |-> Returned]

Next ==
  \/ \E t \in Targets, a \in Arguments : functionCall(t, a)
  \/ callValue
  \/ constructValue

Spec == Init /\ [][Next]_vars

-----------------------------------------------------------------------------
(* Properties of a functionCall that is over. *)

\* Every variable has its type; a functionCall makes at most two runs of the body, and an
\* exception of its own never has an empty message, also when none could be stored
\* (valueFromCallHandle).
TypeOK ==
  /\ pc \in {"idle", "call", "construct"}
  /\ target \in Targets
  /\ args \in Arguments
  /\ last_error \in Messages \cup {NULL}
  /\ writer \in {"earlier", "call", "construct"}
  /\ Len(runs) <= 2 /\ \A i \in DOMAIN runs : runs[i] \in Run
  /\ answer \in Answers

Over == pc = "idle" /\ answer.by # "none"
Threw == Over /\ answer.by \in {"arguments", "functionCall"}

\* The message for a run that ended with a thrown value: the text of the value, or a
\* fixed one when there is none or it is empty.
Reported(end) ==
  CASE end = Unprintable -> Unknown
    [] end = EmptyText -> CallFailed
    [] OTHER -> end

\* What functionCall returns is the result of the last run of the body, made the way the
\* answer says; a result of js_value_call is the result of the only run, with the
\* receiver memberAccess remembered as `this'.
ReturnIsLastRun ==
  Over /\ ~Threw =>
    /\ runs # <<>>
    /\ runs[Len(runs)].end = Returned /\ runs[Len(runs)].how = answer.by
    /\ answer.by = "call" =>
         /\ Len(runs) = 1
         /\ target.payload = "JSMethodRef" <=> runs[1].this = "receiver"

\* When memory does not run out, the construction after the call is made only if the
\* call threw: no body that returned runs a second time.
RetryOnlyAfterThrow == Len(runs) = 2 => runs[1].end # Returned

\* No part of the body runs when an argument cannot be converted or passed.
NoRunOnBadArguments == args # "good" => runs = <<>>

\* When memory does not run out, a constructor's own message reaches the caller:
\* "throwing constructor error message was not preserved" (tests/smoke/src/
\* errors_and_lifecycle.cj).  A value that cannot be printed is reported as "unknown
\* QuickJS error" (copy_string), an empty message as "JavaScript function call failed".
ConstructorErrorKept ==
  Threw /\ args = "good" /\ target.callee \in {"function", "class"} =>
    runs # <<>> /\ answer.text = Reported(runs[Len(runs)].end)

\* The message of the exception is one that the construction, the last native call, left:
\* never that of an earlier call.  (A null handle is refused without a message.)
MessageOfThisCall ==
  Threw /\ args \in {"good", "foreign"} /\ target.callee # "null" => writer = "construct"

\* "throwing function error message was not preserved" (errors_and_lifecycle.cj): when
\* the body threw and functionCall throws, it throws a message of the body.
FunctionErrorKept ==
  Threw /\ runs # <<>> => \E i \in DOMAIN runs : answer.text = Reported(runs[i].end)

\* "throwing function unexpectedly succeeded" (errors_and_lifecycle.cj): when the called
\* body threw, functionCall throws.
ThrowingFunctionThrows ==
  Over /\ runs # <<>> /\ runs[1].how = "call" /\ runs[1].end # Returned => Threw

=============================================================================
