------------------------------- MODULE JsFrame -------------------------------
(***************************************************************************)
(* What JavaScript does to a call of the runtime (src/pocketjs_runtime.c): *)
(* the extension callbacks, the evaluation of the application or its frame *)
(* function, and the pending jobs, each of which may reject promises,      *)
(* handle rejected ones, queue jobs and leave an exception pending.  The   *)
(* runtime learns of rejections by a counter (the rejection tracker) and   *)
(* of exceptions by JS_HasException, which says neither who left one       *)
(* pending nor when.  QuickJS, the scripts and the native functions that   *)
(* extensions install for them are external.                               *)
(*                                                                         *)
(* An operator named Faulty<Name> is <Name> with a slip a programmer could *)
(* make; Next never uses it.                                               *)
(***************************************************************************)
EXTENDS Naturals, FiniteSets

CONSTANTS
  Promises,         \* the promises rejected and not handled at one time
  ExtensionCount,   \* the extensions, each with install and before_frame
  MaxJobs           \* bound on the queued jobs

ASSUME JsAssumption ==
  /\ IsFiniteSet(Promises)
  /\ {ExtensionCount, MaxJobs} \subseteq Nat

(* Where an exception was left pending: in an extension's callback, or     *)
(* outside them, by a native function that the application's script or a   *)
(* job called, whoever installed it; and whether in this call or before.   *)
Outside == 0
Origins == [at : 0 .. ExtensionCount, call : {"this", "earlier"}]

VARIABLES
  phase,                  \* "create" or "frame": the call that runs, or ran last
  pc,                     \* where it is
  next,                   \* the extension its loop is at
  unhandled_rejections,
  promise,                \* "new": rejected in this call; "old": in an earlier one
  late,                   \* has this call handled an old one
  jobs,                   \* the number of jobs queued
  exception,              \* {the origin of the pending exception}, or {}
  result

scripts == <<promise, late, jobs>>
vars == <<phase, pc, next, unhandled_rejections, scripts, exception, result>>

NoneRejected == [p \in Promises |-> "none"]
RejectedNow == {p \in Promises : promise[p] = "new"}

Init ==
  /\ phase = "create"
  /\ pc = "extensions"
  /\ next = 1
  /\ unhandled_rejections = 0
  /\ promise = NoneRejected
  /\ late = FALSE
  /\ jobs = 0
  /\ exception = {}
  /\ result = "NONE"

Goto(from, to) == pc = from /\ pc' = to

(* A call that ends; a create that fails takes the context with it.        *)
Finish(status) ==
  /\ result' = status
  /\ pc' = IF phase = "create" /\ status = "FAIL" THEN "gone" ELSE "idle"

------------------------------------------------------------------------------
(* What scripts do while they run (QuickJS calls the rejection tracker).   *)

Scripted == pc \in {"callback", "script", "job"}
Place == IF pc = "callback" THEN next ELSE Outside

FaultyLessOne(count) == count - 1
LessOne(count) == IF count > 0 THEN count - 1 ELSE 0

Reject(p) ==
  /\ Scripted /\ promise[p] = "none"
  /\ promise' = [promise EXCEPT ![p] = "new"]
  /\ unhandled_rejections' = unhandled_rejections + 1
  /\ UNCHANGED <<phase, pc, next, late, jobs, exception, result>>

(* A handler attached to a rejected promise also queues its reaction.      *)
Handle(p) ==
  /\ Scripted /\ promise[p] # "none" /\ jobs < MaxJobs
  /\ promise' = [promise EXCEPT ![p] = "none"]
  /\ late' = (late \/ promise[p] = "old")
  /\ unhandled_rejections' = LessOne(unhandled_rejections)
  /\ jobs' = jobs + 1
  /\ UNCHANGED <<phase, pc, next, exception, result>>

QueueJob ==
  /\ Scripted /\ jobs < MaxJobs
  /\ jobs' = jobs + 1
  /\ UNCHANGED <<phase, pc, next, unhandled_rejections, promise, late, exception, result>>

(* A host operation whose number argument does not convert: js_arg_i32 and *)
(* its like yield 0, the operation is done and returns normally, and the   *)
(* exception stays pending.                                                *)
HostOperation ==
  /\ Scripted
  /\ exception' = {[at |-> Place, call |-> "this"]}
  /\ UNCHANGED <<phase, pc, next, unhandled_rejections, scripts, result>>

(* An operation that does throw (a text or bytes it cannot use), or the    *)
(* script itself, in a script that catches: what was pending is replaced   *)
(* by the throw and cleared by the catch.                                  *)
ThrowAndCatch ==
  /\ Scripted /\ exception # {}
  /\ exception' = {}
  /\ UNCHANGED <<phase, pc, next, unhandled_rejections, scripts, result>>

------------------------------------------------------------------------------
(* js_runtime_create and js_runtime_run_frame.                             *)

(* A new runtime, after a create that failed.                              *)
Create ==
  /\ pc = "gone"
  /\ phase' = "create" /\ pc' = "extensions" /\ next' = 1
  /\ unhandled_rejections' = 0
  /\ promise' = NoneRejected /\ late' = FALSE
  /\ jobs' = 0 /\ exception' = {}
  /\ result' = "NONE"

FaultyReset == unhandled_rejections
Reset == 0
RunFrame ==
  /\ Goto("idle", "extensions")
  /\ phase' = "frame" /\ next' = 1
  /\ unhandled_rejections' = Reset
  /\ promise' = [p \in Promises |-> IF promise[p] = "new" THEN "old" ELSE promise[p]]
  /\ late' = FALSE
  /\ exception' = {[e EXCEPT !.call = "earlier"] : e \in exception}
  /\ result' = "NONE"
  /\ UNCHANGED jobs

EnterCallback ==
  /\ Goto("extensions", "callback")
  /\ next <= ExtensionCount
  /\ UNCHANGED <<phase, next, unhandled_rejections, scripts, exception, result>>

(* finish_extension_callback: an exception found pending is dumped, which  *)
(* clears it, and fails the call whatever the callback returned.           *)
FaultyDumped == exception
Dumped == {}
CallbackEnds ==
  /\ exception = {}
  /\ Goto("callback", "extensions")
  /\ next' = next + 1
  /\ UNCHANGED <<phase, unhandled_rejections, scripts, exception, result>>

CallbackFails ==
  /\ pc = "callback"
  /\ Finish("FAIL")
  /\ exception' = Dumped
  /\ unhandled_rejections' = IF phase = "frame" THEN 0 ELSE unhandled_rejections
  /\ UNCHANGED <<phase, next, scripts>>

(* JS_Eval or JS_Call.                                                     *)
CallScript ==
  /\ Goto("extensions", "script")
  /\ next > ExtensionCount
  /\ UNCHANGED <<phase, next, unhandled_rejections, scripts, exception, result>>

ScriptReturns ==
  /\ Goto("script", "jobs")
  /\ UNCHANGED <<phase, next, unhandled_rejections, scripts, exception, result>>

(* It throws; the jobs it queued stay queued.                              *)
ScriptThrows ==
  /\ pc = "script"
  /\ Finish("FAIL")
  /\ exception' = Dumped
  /\ unhandled_rejections' = IF phase = "frame" THEN 0 ELSE unhandled_rejections
  /\ UNCHANGED <<phase, next, scripts>>

(* The application installed no function globalThis.frame.                 *)
FrameMissing ==
  /\ pc = "script" /\ phase = "create"
  /\ Finish("FAIL")
  /\ UNCHANGED <<phase, next, unhandled_rejections, scripts, exception>>

------------------------------------------------------------------------------
(* execute_pending_jobs.                                                   *)

JobsLeft == jobs > 0
RunJob ==
  /\ Goto("jobs", "job")
  /\ JobsLeft
  /\ jobs' = jobs - 1
  /\ UNCHANGED <<phase, next, unhandled_rejections, promise, late, exception, result>>

JobReturns ==
  /\ Goto("job", "jobs")
  /\ UNCHANGED <<phase, next, unhandled_rejections, scripts, exception, result>>

(* A job that fails ends the call; the counter keeps its value.            *)
JobFails ==
  /\ pc = "job"
  /\ Finish("FAIL")
  /\ exception' = Dumped
  /\ UNCHANGED <<phase, next, unhandled_rejections, scripts>>

FaultyVerdict == IF unhandled_rejections > 1 THEN "FAIL" ELSE "OK"
Verdict == IF unhandled_rejections # 0 THEN "FAIL" ELSE "OK"
JobsEnd ==
  /\ pc = "jobs" /\ ~JobsLeft
  /\ Finish(Verdict)
  /\ unhandled_rejections' = 0
  /\ UNCHANGED <<phase, next, scripts, exception>>

Scripts == (\E p \in Promises : Reject(p) \/ Handle(p))
           \/ QueueJob \/ HostOperation \/ ThrowAndCatch
Calls == Create \/ RunFrame \/ EnterCallback \/ CallbackEnds \/ CallbackFails
         \/ CallScript \/ ScriptReturns \/ ScriptThrows \/ FrameMissing
Jobs == RunJob \/ JobReturns \/ JobFails \/ JobsEnd

Next == Scripts \/ Calls \/ Jobs

Spec == Init /\ [][Next]_vars

------------------------------------------------------------------------------
(* Properties.                                                             *)

(* Types of the state.                                                     *)
TypeOK ==
  /\ phase \in {"create", "frame"}
  /\ pc \in {"extensions", "callback", "script", "jobs", "job", "idle", "gone"}
  /\ next \in 1 .. ExtensionCount + 1
  /\ pc = "callback" => next <= ExtensionCount
  /\ unhandled_rejections \in Nat
  /\ promise \in [Promises -> {"none", "new", "old"}]
  /\ late \in BOOLEAN
  /\ jobs \in 0 .. MaxJobs
  /\ exception \in SUBSET Origins
  /\ result \in {"NONE", "OK", "FAIL"}

(* The counter never exceeds the promises rejected in this very call and   *)
(* still unhandled: no call fails for a rejection of an earlier one or for *)
(* one that was handled, also after calls that broke off in their jobs.    *)
NoFalseAlarm == unhandled_rejections <= Cardinality(RejectedNow)

(* A call that succeeded left no promise rejected and unhandled, unless a  *)
(* handler was attached to a promise of an earlier call.                   *)
RejectionFailsCallInTime ==
  pc = "idle" /\ result = "OK" /\ ~late => RejectedNow = {}

(* A call that succeeded has run every job, those included that jobs       *)
(* queued and that calls before it left behind.                            *)
JobsDrained == pc = "idle" /\ result = "OK" => jobs = 0

(* A call that returned success has done all of its work.                  *)
SuccessLeavesNothing == RejectionFailsCallInTime /\ JobsDrained

(* finish_extension_callback blames an extension for any exception that it *)
(* finds pending.  That is one left in this very callback, or, for the     *)
(* first extension, one left outside the callbacks in the call just before;*)
(* it is none of another extension's callback, and none that a callback    *)
(* and a whole call came after.                                            *)
BlameStaysClose ==
  /\ pc = "callback" => \A e \in exception :
       \/ e = [at |-> next, call |-> "this"]
       \/ next = 1 /\ e = [at |-> Outside, call |-> "earlier"]
  /\ pc = "idle" /\ ExtensionCount > 0 => \A e \in exception : e.call = "this"

(* Pending exceptions and rejected promises make the current frame fail    *)
(* (README.md): a frame that leaves both behind has two reasons to.        *)
FaultsFailFrame ==
  ~ /\ phase = "frame" /\ pc = "idle" /\ result = "OK"
    /\ \E e \in exception : e.call = "this"
    /\ RejectedNow # {}
=============================================================================
