---------------------------- MODULE FlushHandshake ----------------------------
(***************************************************************************)
(* The completion handshake of a display (src/pocketjs_display.c): the     *)
(* owner task submits a map and later waits for it, and the driver ends    *)
(* the map with flush_ready (inside the flush callback, by the owner) or   *)
(* flush_ready_from_isr (an interrupt, on either core).  Each atomic       *)
(* access of awaiting_ready, completion_status and the binary semaphore is *)
(* a step of its own, so an interrupt falls between any two of them.       *)
(*                                                                         *)
(* An operator named Faulty<Name> is <Name> with a slip a programmer could *)
(* make; Next never uses it.                                               *)
(***************************************************************************)
EXTENDS Naturals

CONSTANTS
  MaxFlushes,     \* bound on the maps submitted
  Drivers         \* subset of {"punctual", "late"}: the drivers considered

ASSUME FlushAssumption ==
  /\ MaxFlushes \in Nat
  /\ Drivers \subseteq {"punctual", "late"}

Maps == 1 .. MaxFlushes
Verdicts == {"OK", "FAIL"}
Statuses == Verdicts \cup {"TIMEOUT", "INVALID_STATE"}

(* A map is handed to the flush callback, read by the driver, finished     *)
(* (with a verdict, its completion call still to come or in progress) and  *)
(* done, or dropped (the driver never reports it) or refused.              *)
MapStates == {"unused", "handed", "reading", "finished", "done", "dropped", "refused"}

(* Who runs flush_ready[_from_isr]: the owner inside the flush callback,   *)
(* or the one interrupt handler of the driver.                             *)
Callers == {"owner", "isr"}
NoCall == [at |-> "none", map |-> 0]

VARIABLES
  awaiting_ready,
  completion_status,
  completion,         \* the binary semaphore: is it given
  flush_inflight,
  flush_wait,         \* is the optional wait callback installed
  pc,                 \* where the owner task is in submit_flush or wait_for_flush
  result,             \* what the last of the two returned
  submitted,          \* number of the last map handed to the driver
  map,                \* the driver's side of each map
  verdict,            \* the status the driver gives each map
  ready,              \* caller -> its progress through flush_ready[_from_isr]
  driver

handshake == <<awaiting_ready, completion_status, completion, flush_inflight>>
outside == <<map, verdict, ready>>
vars == <<handshake, outside, flush_wait, pc, result, submitted, driver>>

Init ==
  /\ awaiting_ready = FALSE
  /\ completion_status = "INVALID_STATE"
  /\ completion = FALSE
  /\ flush_inflight = FALSE
  /\ flush_wait \in BOOLEAN
  /\ pc = "idle"
  /\ result = "OK"
  /\ submitted = 0
  /\ map = [n \in Maps |-> "unused"]
  /\ verdict = [n \in Maps |-> "OK"]
  /\ ready = [c \in Callers |-> NoCall]
  /\ driver \in Drivers

Goto(from, to) == pc = from /\ pc' = to
Return(from, status) == Goto(from, "idle") /\ result' = status

------------------------------------------------------------------------------
(* submit_flush.                                                           *)

SubmitRefused ==
  /\ flush_inflight
  /\ Return("idle", "INVALID_STATE")
  /\ UNCHANGED <<handshake, outside, flush_wait, submitted, driver>>

SubmitStarts ==
  /\ ~flush_inflight
  /\ submitted < MaxFlushes
  /\ Goto("idle", "drain")
  /\ UNCHANGED <<handshake, outside, flush_wait, result, submitted, driver>>

(* drain_completion: take without waiting until there is nothing to take.  *)
FaultyDrainCompletion ==
  /\ Goto("drain", "reset")
  /\ UNCHANGED <<handshake, outside, flush_wait, result, submitted, driver>>
DrainCompletion ==
  /\ Goto("drain", IF completion THEN "drain" ELSE "reset")
  /\ completion' = FALSE
  /\ UNCHANGED <<awaiting_ready, completion_status, flush_inflight, outside, flush_wait,
                 result, submitted, driver>>

ResetStatus ==
  /\ Goto("reset", "arm")
  /\ completion_status' = "INVALID_STATE"
  /\ UNCHANGED <<awaiting_ready, completion, flush_inflight, outside, flush_wait, result,
                 submitted, driver>>

(* From here a completion is accepted; then the driver's callback runs.    *)
Arm ==
  /\ Goto("arm", "flushing")
  /\ awaiting_ready' = TRUE
  /\ flush_inflight' = TRUE
  /\ submitted' = submitted + 1
  /\ map' = [map EXCEPT ![submitted + 1] = "handed"]
  /\ UNCHANGED <<completion_status, completion, verdict, ready, flush_wait, result, driver>>

FlushAccepted ==
  /\ Return("flushing", "OK")
  /\ map[submitted] # "handed"
  /\ ready["owner"] = NoCall
  /\ UNCHANGED <<handshake, outside, flush_wait, submitted, driver>>

(* The callback fails, before it took the map or after it completed it.    *)
FlushRefused ==
  /\ Goto("flushing", "disarm")
  /\ map[submitted] \in {"handed", "done"}
  /\ ready["owner"] = NoCall
  /\ map' = IF map[submitted] = "handed" THEN [map EXCEPT ![submitted] = "refused"] ELSE map
  /\ UNCHANGED <<handshake, verdict, ready, flush_wait, result, submitted, driver>>

Disarm ==
  /\ Return("disarm", "FAIL")
  /\ awaiting_ready' = FALSE
  /\ flush_inflight' = FALSE
  /\ UNCHANGED <<completion_status, completion, outside, flush_wait, submitted, driver>>

------------------------------------------------------------------------------
(* wait_for_flush.                                                         *)

NothingToWaitFor ==
  /\ ~flush_inflight
  /\ Return("idle", "OK")
  /\ UNCHANGED <<handshake, outside, flush_wait, submitted, driver>>

WaitStarts ==
  /\ flush_inflight
  /\ Goto("idle", IF flush_wait THEN "callback" ELSE "take")
  /\ UNCHANGED <<handshake, outside, flush_wait, result, submitted, driver>>

(* The driver's own wait returns the map's final status or gives up.       *)
WaitCallback ==
  /\ Goto("callback", "idle")
  /\ \/ map[submitted] = "finished" /\ result' = verdict[submitted]
     \/ map[submitted] = "dropped" /\ result' = "TIMEOUT"
     \/ map[submitted] = "reading" /\ driver = "late" /\ result' = "TIMEOUT"
  /\ awaiting_ready' = FALSE
  /\ flush_inflight' = FALSE
  /\ map' = IF map[submitted] = "finished" THEN [map EXCEPT ![submitted] = "done"] ELSE map
  /\ UNCHANGED <<completion_status, completion, verdict, ready, flush_wait, submitted, driver>>

Take ==
  /\ completion
  /\ Goto("take", "load")
  /\ completion' = FALSE
  /\ UNCHANGED <<awaiting_ready, completion_status, flush_inflight, outside, flush_wait,
                 result, submitted, driver>>

Load ==
  /\ Return("load", completion_status)
  /\ flush_inflight' = FALSE
  /\ UNCHANGED <<awaiting_ready, completion_status, completion, outside, flush_wait,
                 submitted, driver>>

(* flush_timeout_ms runs out.  A punctual driver reports every map it      *)
(* reports at all in time, so only a dropped map times out.                *)
FaultyTimeout == FALSE /\ UNCHANGED vars
Timeout ==
  /\ Goto("take", "expire")
  /\ ~completion
  /\ map[submitted] = "dropped" \/ driver = "late"
  /\ UNCHANGED <<handshake, outside, flush_wait, result, submitted, driver>>

Expire ==
  /\ Return("expire", "TIMEOUT")
  /\ awaiting_ready' = FALSE
  /\ flush_inflight' = FALSE
  /\ UNCHANGED <<completion_status, completion, outside, flush_wait, submitted, driver>>

------------------------------------------------------------------------------
(* The driver (board code) and flush_ready[_from_isr].                     *)

Inside == <<awaiting_ready, completion_status, completion, flush_inflight, flush_wait, pc,
            result, submitted, driver>>

StartReading ==
  /\ pc = "flushing"
  /\ map[submitted] = "handed"
  /\ map' = [map EXCEPT ![submitted] = "reading"]
  /\ UNCHANGED <<verdict, ready, Inside>>

FinishReading(n) ==
  /\ map[n] = "reading"
  /\ map' = [map EXCEPT ![n] = "finished"]
  /\ \E status \in Verdicts : verdict' = [verdict EXCEPT ![n] = status]
  /\ UNCHANGED <<ready, Inside>>

DropMap(n) ==
  /\ map[n] = "reading"
  /\ map' = [map EXCEPT ![n] = "dropped"]
  /\ UNCHANGED <<verdict, ready, Inside>>

(* A synchronous driver calls flush_ready from its flush callback.         *)
OwnerCalls ==
  /\ pc = "flushing"
  /\ ~flush_wait
  /\ map[submitted] = "handed"
  /\ map' = [map EXCEPT ![submitted] = "finished"]
  /\ \E status \in Verdicts : verdict' = [verdict EXCEPT ![submitted] = status]
  /\ ready' = [ready EXCEPT !["owner"] = [at |-> "exchange", map |-> submitted]]
  /\ UNCHANGED Inside

IsrCalls(n) ==
  /\ ~flush_wait
  /\ map[n] = "finished"
  /\ ready["isr"] = NoCall
  /\ ready["owner"].map # n
  /\ ready' = [ready EXCEPT !["isr"] = [at |-> "exchange", map |-> n]]
  /\ UNCHANGED <<map, verdict, Inside>>

ReadyReturns(c) ==
  /\ map' = [map EXCEPT ![ready[c].map] = "done"]
  /\ ready' = [ready EXCEPT ![c] = NoCall]

(* Nothing awaited: the call is rejected and changes nothing.              *)
ReadyRejected(c) ==
  /\ ready[c].at = "exchange"
  /\ ~awaiting_ready
  /\ ReadyReturns(c)
  /\ UNCHANGED <<verdict, Inside>>

Exchange(c) ==
  /\ ready[c].at = "exchange"
  /\ awaiting_ready
  /\ awaiting_ready' = FALSE
  /\ ready' = [ready EXCEPT ![c].at = "store"]
  /\ UNCHANGED <<completion_status, completion, flush_inflight, map, verdict, flush_wait, pc,
                 result, submitted, driver>>

StoreStatus(c) ==
  /\ ready[c].at = "store"
  /\ completion_status' = verdict[ready[c].map]
  /\ ready' = [ready EXCEPT ![c].at = "give"]
  /\ UNCHANGED <<awaiting_ready, completion, flush_inflight, map, verdict, flush_wait, pc,
                 result, submitted, driver>>

(* Giving a semaphore that is already given reports a failure to the       *)
(* driver and leaves it given.                                             *)
FaultyGive(c) ==
  /\ ready[c].at = "store"
  /\ completion' = TRUE
  /\ ready' = [ready EXCEPT ![c].at = "give"]
  /\ UNCHANGED <<awaiting_ready, completion_status, flush_inflight, map, verdict, flush_wait,
                 pc, result, submitted, driver>>
Give(c) ==
  /\ ready[c].at = "give"
  /\ completion' = TRUE
  /\ ReadyReturns(c)
  /\ UNCHANGED <<awaiting_ready, completion_status, flush_inflight, verdict, flush_wait, pc,
                 result, submitted, driver>>

Submit == SubmitRefused \/ SubmitStarts \/ DrainCompletion \/ ResetStatus \/ Arm
          \/ FlushAccepted \/ FlushRefused \/ Disarm
Wait == NothingToWaitFor \/ WaitStarts \/ WaitCallback \/ Take \/ Load \/ Timeout \/ Expire
Driver == StartReading \/ OwnerCalls \/ \E n \in Maps : FinishReading(n) \/ DropMap(n) \/ IsrCalls(n)
Ready(c) == ReadyRejected(c) \/ Exchange(c) \/ StoreStatus(c) \/ Give(c)

Next == Submit \/ Wait \/ Driver \/ \E c \in Callers : Ready(c)

Spec == Init /\ [][Next]_vars

(* The owner task runs on, flush callbacks return, the timer of a timed    *)
(* take expires, the driver's hardware finishes or gives up, and an        *)
(* interrupt that is raised runs to its end.                               *)
OwnerRuns == pc # "idle" /\ (Submit \/ Wait)
Fairness ==
  /\ WF_vars(OwnerRuns)
  /\ WF_vars(StartReading \/ OwnerCalls)
  /\ \A n \in Maps : WF_vars(FinishReading(n) \/ DropMap(n))
  /\ \A n \in Maps : WF_vars(IsrCalls(n))
  /\ \A c \in Callers : WF_vars(Ready(c))

FairSpec == Spec /\ Fairness

------------------------------------------------------------------------------
(* Properties.                                                             *)

Points == {"idle", "drain", "reset", "arm", "flushing", "disarm", "callback", "take", "load",
           "expire"}

(* Types of the state.                                                     *)
TypeOK ==
  /\ awaiting_ready \in BOOLEAN
  /\ completion_status \in Statuses \ {"TIMEOUT"}
  /\ completion \in BOOLEAN
  /\ flush_inflight \in BOOLEAN
  /\ flush_wait \in BOOLEAN
  /\ pc \in Points
  /\ result \in Statuses
  /\ submitted \in 0 .. MaxFlushes
  /\ map \in [Maps -> MapStates]
  /\ verdict \in [Maps -> Verdicts]
  /\ ready \in [Callers -> [at : {"none", "exchange", "store", "give"}, map : 0 .. MaxFlushes]]
  /\ driver \in Drivers

(* What a wait is about to return without having timed out is the driver's *)
(* own verdict on the map last submitted: no status of an earlier map and  *)
(* no status that was never reported.                                      *)
OwnVerdict ==
  pc = "load" => map[submitted] = "done" /\ completion_status = verdict[submitted]

(* The phases of one submission.  Where the owner is tells whether a map   *)
(* is out; how far the map is tells who may still report it and where the  *)
(* report has got to.                                                      *)
OwnerPhase ==
  /\ pc \in {"drain", "reset", "arm"} => ~flush_inflight
  /\ pc \in {"flushing", "disarm", "callback", "take", "load", "expire"} => flush_inflight
  /\ pc = "callback" => flush_wait
  /\ pc \in {"take", "load", "expire"} => ~flush_wait
  /\ pc \in {"reset", "arm"} => ~completion
  /\ flush_inflight => submitted \in Maps

Settled(n) == map[n] \in {"done", "dropped", "refused"}
MapPhase ==
  /\ \A n \in Maps : n < submitted => Settled(n)
  /\ submitted \in Maps /\ ~flush_inflight => Settled(submitted)
  /\ \A n \in Maps : n > submitted => map[n] = "unused"
  /\ flush_inflight =>
       /\ map[submitted] # "unused"
       /\ map[submitted] = "handed" => pc = "flushing"
       /\ map[submitted] = "refused" => pc = "disarm"
       /\ pc = "expire" => map[submitted] = "dropped"
       /\ pc = "load" => map[submitted] = "done"
       /\ pc = "disarm" => map[submitted] \in {"refused", "done"}

CallPhase ==
  /\ \A c \in Callers : ready[c] # NoCall =>
       /\ flush_inflight /\ ~flush_wait
       /\ ready[c].at # "none" /\ ready[c].map = submitted
       /\ map[submitted] = "finished"
       /\ ready[c].at = "give" => completion_status = verdict[submitted]
       /\ awaiting_ready <=> ready[c].at = "exchange"
  /\ ready["owner"] # NoCall => pc = "flushing" /\ ready["isr"] = NoCall

ReportPhase ==
  /\ ~flush_inflight => ~awaiting_ready
  /\ flush_inflight /\ map[submitted] # "done" =>
       /\ ~completion
       /\ (\A c \in Callers : ready[c] = NoCall) => awaiting_ready
  /\ flush_inflight /\ map[submitted] = "done" =>
       /\ ~flush_wait
       /\ ~awaiting_ready
       /\ completion_status = verdict[submitted]
       /\ completion <=> pc # "load"

HandshakeInv ==
  /\ TypeOK
  /\ driver = "punctual" => OwnerPhase /\ MapPhase /\ CallPhase /\ ReportPhase

(* Where the owner and the map are in MapExchange.                         *)
Call == IF pc \in {"flushing", "disarm"} THEN "submit"
        ELSE IF pc \in {"callback", "take", "load", "expire"} THEN "wait" ELSE "idle"
Fate(n) == IF map[n] \in {"finished", "done"} THEN verdict[n]
           ELSE IF map[n] = "dropped" THEN "TIMEOUT" ELSE "reading"

Promised == INSTANCE MapExchange WITH
  owner <- Call,
  flight <- IF flush_inflight THEN Fate(submitted) ELSE "none",
  answer <- result

(* With a driver that reports in time, flag, status, semaphore and         *)
(* interrupts make no difference to the caller: a map's fate is settled    *)
(* once, by the driver, and the wait that ends the map answers with it;    *)
(* a submission the driver refuses leaves nothing out.                     *)
ImplementsExchange ==
  Promised!Init /\ [][driver = "punctual" => Promised!Next]_(Promised!vars)

(* Every submit and every wait returns, also when the driver never reports *)
(* the map: the owner task is never stuck in the display.                  *)
OwnerReturns == (pc # "idle") ~> (pc = "idle")
=============================================================================
