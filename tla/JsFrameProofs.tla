---------------------------- MODULE JsFrameProofs ----------------------------
(***************************************************************************)
(* JsFrame for any number of promises, extensions and jobs.  The counter   *)
(* is exact while a call runs, as long as no promise of an earlier call is *)
(* handled (Exact); from that both of its properties follow.               *)
(***************************************************************************)
EXTENDS JsFrame, FiniteSetTheorems, TLAPS

LEMMA Bounds == ExtensionCount \in Nat /\ MaxJobs \in Nat
  BY JsAssumption

USE JsAssumption, Bounds

------------------------------------------------------------------------------
(* Types.                                                                  *)

LEMMA LessOneType ==
  ASSUME NEW count \in Nat
  PROVE  LessOne(count) \in Nat /\ LessOne(count) <= count
  BY DEF LessOne

LEMMA NoneRejectedType == NoneRejected \in [Promises -> {"none", "new", "old"}]
  BY DEF NoneRejected

LEMMA TypeInit == Init => TypeOK
<1> SUFFICES ASSUME Init PROVE TypeOK
  OBVIOUS
<1>1. late \in BOOLEAN
  BY Zenon DEF Init
<1>2. jobs \in 0 .. MaxJobs /\ next \in 1 .. ExtensionCount + 1 /\ exception \in SUBSET Origins
  BY DEF Init
<1> QED BY <1>1, <1>2, NoneRejectedType DEF Init, TypeOK

LEMMA TypeNext == TypeOK /\ [Next]_vars => TypeOK'
<1> SUFFICES ASSUME TypeOK, [Next]_vars PROVE TypeOK'
  OBVIOUS
<1> USE DEF TypeOK, Origins, Goto, Finish, scripts
<1>1. ASSUME NEW p \in Promises, Reject(p) PROVE TypeOK'
  BY <1>1 DEF Reject
<1>2. ASSUME NEW p \in Promises, Handle(p) PROVE TypeOK'
  BY <1>2, LessOneType DEF Handle
<1>3. CASE QueueJob BY <1>3 DEF QueueJob
<1>4. CASE HostOperation BY <1>4 DEF HostOperation, Scripted, Place, Outside
<1>5. CASE ThrowAndCatch BY <1>5 DEF ThrowAndCatch
<1>6. CASE Create
  <2>1. late' \in BOOLEAN
    BY <1>6, Zenon DEF Create
  <2> QED BY <1>6, <2>1, NoneRejectedType DEF Create
<1>7. CASE RunFrame
  <2>1. promise' \in [Promises -> {"none", "new", "old"}]
    BY <1>7 DEF RunFrame
  <2>2. late' \in BOOLEAN
    BY <1>7, Zenon DEF RunFrame
  <2> QED BY <1>7, <2>1, <2>2 DEF RunFrame, Reset
<1>8. CASE EnterCallback BY <1>8 DEF EnterCallback
<1>9. CASE CallbackEnds BY <1>9 DEF CallbackEnds
<1>10. CASE CallbackFails BY <1>10 DEF CallbackFails, Dumped
<1>11. CASE CallScript BY <1>11 DEF CallScript
<1>12. CASE ScriptReturns BY <1>12 DEF ScriptReturns
<1>13. CASE ScriptThrows BY <1>13 DEF ScriptThrows, Dumped
<1>14. CASE FrameMissing BY <1>14 DEF FrameMissing
<1>15. CASE RunJob BY <1>15 DEF RunJob, JobsLeft
<1>16. CASE JobReturns BY <1>16 DEF JobReturns
<1>17. CASE JobFails BY <1>17 DEF JobFails, Dumped
<1>18. CASE JobsEnd BY <1>18 DEF JobsEnd, Verdict
<1>19. CASE UNCHANGED vars BY <1>19 DEF vars
<1> QED BY <1>1, <1>2, <1>3, <1>4, <1>5, <1>6, <1>7, <1>8, <1>9, <1>10, <1>11, <1>12, <1>13,
           <1>14, <1>15, <1>16, <1>17, <1>18, <1>19 DEF Next, Scripts, Calls, Jobs

(* Every variable keeps its type, in particular the counter never goes     *)
(* below zero, whatever order the tracker is called in.                    *)
THEOREM TypeCorrect == Spec => []TypeOK
  BY TypeInit, TypeNext, PTL DEF Spec

------------------------------------------------------------------------------
(* Exceptions.  Every callback ends by looking for one, so what it finds   *)
(* is its own or, for the first, what was left outside the callbacks.      *)

LeftBefore == [at |-> Outside, call |-> "earlier"]

Pending ==
  /\ pc = "extensions" => \A e \in exception : next = 1 /\ e = LeftBefore
  /\ pc = "callback" => \A e \in exception : \/ e = [at |-> next, call |-> "this"]
                                             \/ next = 1 /\ e = LeftBefore
  /\ pc \in {"script", "jobs", "job", "idle"} =>
       \A e \in exception : /\ e.at = Outside
                            /\ ExtensionCount > 0 => e.call = "this"
  /\ pc \in {"script", "jobs", "job"} => next = ExtensionCount + 1

LEMMA PendingInit == Init => Pending
  BY DEF Init, Pending

LEMMA PendingNext == TypeOK /\ Pending /\ [Next]_vars => Pending'
<1> SUFFICES ASSUME TypeOK, Pending, [Next]_vars PROVE Pending'
  OBVIOUS
<1> USE DEF Pending, LeftBefore, Outside, Goto, Finish, scripts
<1>1. CASE Scripts
  BY <1>1 DEF Scripts, Reject, Handle, QueueJob, HostOperation, ThrowAndCatch, Scripted, Place
<1>2. CASE RunFrame
  BY <1>2 DEF RunFrame, TypeOK, Origins
<1>3. CASE CallScript
  BY <1>3 DEF CallScript, TypeOK
<1>4. CASE Calls /\ ~RunFrame /\ ~CallScript
  BY <1>4 DEF Calls, Create, EnterCallback, CallbackEnds, CallbackFails, ScriptReturns,
              ScriptThrows, FrameMissing, Dumped
<1>5. CASE Jobs
  BY <1>5 DEF Jobs, RunJob, JobReturns, JobFails, JobsEnd, Dumped
<1>6. CASE UNCHANGED vars BY <1>6 DEF vars
<1> QED BY <1>1, <1>2, <1>3, <1>4, <1>5, <1>6 DEF Next

(* An extension fails only for an exception left in its own callback or,   *)
(* the first one, outside the callbacks in the call before.                *)
THEOREM BlameIsClose == Spec => []BlameStaysClose
<1>1. Pending => BlameStaysClose
  BY DEF Pending, BlameStaysClose, LeftBefore
<1> QED BY PendingInit, PendingNext, TypeCorrect, <1>1, PTL DEF Spec

------------------------------------------------------------------------------
(* The job queue.                                                          *)

LEMMA DrainedNext == JobsDrained /\ TypeOK /\ [Next]_vars => JobsDrained'
<1> SUFFICES ASSUME JobsDrained, TypeOK, [Next]_vars PROVE JobsDrained'
  OBVIOUS
<1> USE DEF JobsDrained, Goto, Finish, scripts
<1>1. CASE Scripts
  BY <1>1 DEF Scripts, Reject, Handle, QueueJob, HostOperation, ThrowAndCatch, Scripted
<1>2. CASE Calls
  BY <1>2 DEF Calls, Create, RunFrame, EnterCallback, CallbackEnds, CallbackFails, CallScript,
              ScriptReturns, ScriptThrows, FrameMissing
<1>3. CASE Jobs
  BY <1>3 DEF Jobs, RunJob, JobReturns, JobFails, JobsEnd, JobsLeft, TypeOK
<1>4. CASE UNCHANGED vars BY <1>4 DEF vars
<1> QED BY <1>1, <1>2, <1>3, <1>4 DEF Next

(* A call that succeeds leaves no job behind, not even those of calls that *)
(* broke off before it.                                                    *)
THEOREM QueueDrained == Spec => []JobsDrained
<1>1. Init => JobsDrained
  BY DEF Init, JobsDrained
<1> QED BY <1>1, DrainedNext, TypeCorrect, PTL DEF Spec

------------------------------------------------------------------------------
(* The counter of rejections.                                              *)

InCall == pc \notin {"idle", "gone"}

Exact == InCall /\ ~late => unhandled_rejections = Cardinality(RejectedNow)

Counting == NoFalseAlarm /\ Exact /\ RejectionFailsCallInTime

LEMMA RejectedFinite ==
  IsFiniteSet(RejectedNow) /\ Cardinality(RejectedNow) \in Nat
<1>1. RejectedNow \in SUBSET Promises
  BY DEF RejectedNow
<1>2. IsFiniteSet(RejectedNow)
  BY <1>1, FS_Subset
<1> QED BY <1>2, FS_CardinalityType

LEMMA NothingRejected ==
  /\ RejectedNow = {} => Cardinality(RejectedNow) = 0
  /\ Cardinality(RejectedNow) = 0 => RejectedNow = {}
  BY RejectedFinite, FS_EmptySet

LEMMA CountInit == Init => Counting
<1> SUFFICES ASSUME Init PROVE Counting
  OBVIOUS
<1>1. RejectedNow = {}
  BY DEF Init, NoneRejected, RejectedNow
<1> QED BY <1>1, NothingRejected DEF Init, Counting, NoFalseAlarm, Exact, RejectionFailsCallInTime

(* A rejection adds one promise and one to the count.                      *)
LEMMA CountReject ==
  ASSUME TypeOK, Counting, NEW p \in Promises, Reject(p)
  PROVE  Counting'
<1>1. RejectedNow' = RejectedNow \cup {p} /\ p \notin RejectedNow
  BY DEF Reject, RejectedNow, TypeOK
<1>2. Cardinality(RejectedNow') = Cardinality(RejectedNow) + 1
  BY <1>1, RejectedFinite, FS_AddElement
<1>3. pc' = pc /\ InCall /\ unhandled_rejections' = unhandled_rejections + 1 /\ late' = late
  BY DEF Reject, Scripted, InCall
<1> QED BY <1>2, <1>3, RejectedFinite
        DEF Counting, NoFalseAlarm, Exact, RejectionFailsCallInTime, InCall, TypeOK

(* A handler takes one promise and one from the count, or it is late.      *)
LEMMA CountHandle ==
  ASSUME TypeOK, Counting, NEW p \in Promises, Handle(p)
  PROVE  Counting'
<1>1. /\ pc' = pc /\ InCall
      /\ unhandled_rejections' = LessOne(unhandled_rejections)
      /\ unhandled_rejections \in Nat
  BY DEF Handle, Scripted, InCall, TypeOK
<1>2. CASE promise[p] = "new"
  <2>1. RejectedNow' = RejectedNow \ {p} /\ p \in RejectedNow
    BY <1>2 DEF Handle, RejectedNow, TypeOK
  <2>2. Cardinality(RejectedNow') = Cardinality(RejectedNow) - 1
    BY <2>1, RejectedFinite, FS_RemoveElement
  <2>3. Cardinality(RejectedNow) > 0
    BY <2>1, RejectedFinite, NothingRejected
  <2>4. late' = late
    BY <1>2 DEF Handle, TypeOK
  <2> QED BY <1>1, <2>2, <2>3, <2>4, RejectedFinite
          DEF Counting, NoFalseAlarm, Exact, RejectionFailsCallInTime, InCall, LessOne
<1>3. CASE promise[p] = "old"
  <2>1. RejectedNow' = RejectedNow
    BY <1>3 DEF Handle, RejectedNow, TypeOK
  <2>2. late'
    BY <1>3 DEF Handle
  <2> QED BY <1>1, <2>1, <2>2, RejectedFinite, LessOneType
          DEF Counting, NoFalseAlarm, Exact, RejectionFailsCallInTime
<1> QED BY <1>2, <1>3 DEF Handle, TypeOK

(* What a step does that leaves the promises and the count alone.          *)
LEMMA CountUnchanged ==
  ASSUME Counting, UNCHANGED <<unhandled_rejections, promise, late>>,
         InCall' => InCall, pc' = "idle" /\ result' = "OK" => pc = "idle" /\ result = "OK"
  PROVE  Counting'
<1>1. RejectedNow' = RejectedNow
  BY DEF RejectedNow
<1> QED BY <1>1 DEF Counting, NoFalseAlarm, Exact, RejectionFailsCallInTime

(* What a step does that fails the call and may clear the count.           *)
LEMMA CountFailed ==
  ASSUME Counting, Finish("FAIL"), UNCHANGED <<promise, late>>,
         unhandled_rejections' \in {0, unhandled_rejections}
  PROVE  Counting'
<1>1. RejectedNow' = RejectedNow
  BY DEF RejectedNow
<1> QED BY <1>1, RejectedFinite
        DEF Counting, NoFalseAlarm, Exact, RejectionFailsCallInTime, Finish, InCall

(* A new call starts with nothing rejected and a count of zero.            *)
LEMMA CountFresh ==
  ASSUME RejectedNow' = {}, unhandled_rejections' = 0
  PROVE  Counting'
<1>1. Cardinality({}) = 0
  BY FS_EmptySet
<1> QED BY <1>1 DEF Counting, NoFalseAlarm, Exact, RejectionFailsCallInTime

LEMMA CountNext == TypeOK /\ Counting /\ [Next]_vars => Counting'
<1> SUFFICES ASSUME TypeOK, Counting, [Next]_vars PROVE Counting'
  OBVIOUS
<1> USE DEF Goto, scripts, InCall
<1>1. ASSUME NEW p \in Promises, Reject(p) PROVE Counting'
  BY <1>1, CountReject
<1>2. ASSUME NEW p \in Promises, Handle(p) PROVE Counting'
  BY <1>2, CountHandle
<1>3. CASE QueueJob \/ HostOperation \/ ThrowAndCatch
  BY <1>3, CountUnchanged DEF QueueJob, HostOperation, ThrowAndCatch
<1>4. CASE Create
  <2>1. RejectedNow' = {}
    BY <1>4 DEF Create, NoneRejected, RejectedNow
  <2> QED BY <1>4, <2>1, CountFresh DEF Create
<1>5. CASE RunFrame
  <2>1. RejectedNow' = {}
    BY <1>5 DEF RunFrame, RejectedNow
  <2> QED BY <1>5, <2>1, CountFresh DEF RunFrame, Reset
<1>6. CASE EnterCallback BY <1>6, CountUnchanged DEF EnterCallback
<1>7. CASE CallbackEnds BY <1>7, CountUnchanged DEF CallbackEnds
<1>8. CASE CallScript BY <1>8, CountUnchanged DEF CallScript
<1>9. CASE ScriptReturns BY <1>9, CountUnchanged DEF ScriptReturns
<1>10. CASE RunJob BY <1>10, CountUnchanged DEF RunJob
<1>11. CASE JobReturns BY <1>11, CountUnchanged DEF JobReturns
<1>12. CASE CallbackFails BY <1>12, CountFailed DEF CallbackFails
<1>13. CASE ScriptThrows BY <1>13, CountFailed DEF ScriptThrows
<1>14. CASE FrameMissing BY <1>14, CountFailed DEF FrameMissing
<1>15. CASE JobFails BY <1>15, CountFailed DEF JobFails
<1>16. CASE JobsEnd
  <2>1. RejectedNow' = RejectedNow /\ late' = late /\ unhandled_rejections' = 0
    BY <1>16 DEF JobsEnd, RejectedNow
  <2>2. pc = "jobs" /\ ~InCall' /\ result' = Verdict
    BY <1>16 DEF JobsEnd, Finish
  <2>3. result' = "OK" /\ ~late => RejectedNow = {}
    BY <2>2, NothingRejected DEF Verdict, Counting, Exact
  <2> QED BY <2>1, <2>2, <2>3, RejectedFinite
          DEF Counting, NoFalseAlarm, Exact, RejectionFailsCallInTime
<1>17. CASE UNCHANGED vars BY <1>17, CountUnchanged DEF vars
<1> QED BY <1>1, <1>2, <1>3, <1>4, <1>5, <1>6, <1>7, <1>8, <1>9, <1>10, <1>11, <1>12, <1>13,
           <1>14, <1>15, <1>16, <1>17 DEF Next, Scripts, Calls, Jobs

(* No call fails for a rejection that was handled, or that belongs to an   *)
(* earlier call: the counter is at most the promises of this one.          *)
THEOREM AlarmsAreTrue == Spec => []NoFalseAlarm
<1>1. Counting => NoFalseAlarm
  BY DEF Counting
<1> QED BY CountInit, CountNext, TypeCorrect, <1>1, PTL DEF Spec

(* Without late handlers, a call that succeeds left no rejection behind.   *)
THEOREM RejectionsFailCalls == Spec => []RejectionFailsCallInTime
<1>1. Counting => RejectionFailsCallInTime
  BY DEF Counting
<1> QED BY CountInit, CountNext, TypeCorrect, <1>1, PTL DEF Spec

(* js_runtime_run_frame reports success only when no job is left, of an    *)
(* earlier call either, and no rejection of its own but one that a late    *)
(* handler hid.                                                            *)
THEOREM SuccessIsComplete == Spec => []SuccessLeavesNothing
<1>1. RejectionFailsCallInTime /\ JobsDrained => SuccessLeavesNothing
  BY DEF SuccessLeavesNothing
<1> QED BY <1>1, RejectionsFailCalls, QueueDrained, PTL
=============================================================================
