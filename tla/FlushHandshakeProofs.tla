------------------------ MODULE FlushHandshakeProofs ------------------------
(***************************************************************************)
(* FlushHandshake for any number of maps: with a driver that reports in    *)
(* time, a wait returns the verdict on its own map and no completion is    *)
(* ever left over.  HandshakeInv is inductive as it stands; OwnerPhase,    *)
(* MapPhase, CallPhase and ReportPhase are what makes it so.               *)
(***************************************************************************)
EXTENDS FlushHandshake, TLAPS

USE FlushAssumption

Phases == OwnerPhase /\ MapPhase /\ CallPhase /\ ReportPhase

------------------------------------------------------------------------------
(* Types.                                                                  *)

Calls == [at : {"none", "exchange", "store", "give"}, map : 0 .. MaxFlushes]

LEMMA NoCallType == NoCall \in Calls
  BY DEF NoCall, Calls

(* The map being submitted is within the bound, and one that is waited for *)
(* or reported has been submitted.                                         *)
Started ==
  /\ pc \in {"drain", "reset", "arm"} => submitted + 1 \in Maps
  /\ flush_inflight \/ pc \in {"flushing", "disarm", "callback", "take", "load", "expire"}
       => submitted \in Maps
  /\ \A c \in Callers : ready[c].at # "none" => ready[c].map \in Maps

Typed == TypeOK /\ Started

LEMMA TypeInit == Init => Typed
<1> SUFFICES ASSUME Init PROVE Typed
  OBVIOUS
<1>1. ready \in [Callers -> Calls]
  BY NoCallType DEF Init
<1>2. map \in [Maps -> MapStates] /\ verdict \in [Maps -> Verdicts]
  BY DEF Init, MapStates, Verdicts
<1>3. submitted \in 0 .. MaxFlushes
  BY DEF Init
<1> QED BY <1>1, <1>2, <1>3 DEF Init, Typed, Started, TypeOK, Calls, Statuses, Verdicts, Points, Callers, NoCall

LEMMA TypeSubmit ==
  ASSUME Typed, Submit
  PROVE  Typed'
<1> USE NoCallType DEF Typed, Started, TypeOK, Calls, handshake, outside, Goto, Return, Maps, MapStates, Verdicts, Statuses,
            Points, Callers
<1>1. CASE SubmitRefused BY <1>1 DEF SubmitRefused
<1>2. CASE SubmitStarts BY <1>2 DEF SubmitStarts
<1>3. CASE DrainCompletion BY <1>3 DEF DrainCompletion
<1>4. CASE ResetStatus BY <1>4 DEF ResetStatus
<1>5. CASE Arm
  <2>1. submitted + 1 \in Maps BY <1>5 DEF Arm
  <2> QED BY <1>5, <2>1 DEF Arm
<1>6. CASE FlushAccepted BY <1>6 DEF FlushAccepted
<1>7. CASE FlushRefused BY <1>7 DEF FlushRefused
<1>8. CASE Disarm BY <1>8 DEF Disarm
<1> QED BY <1>1, <1>2, <1>3, <1>4, <1>5, <1>6, <1>7, <1>8 DEF Submit

LEMMA TypeWait ==
  ASSUME Typed, Wait
  PROVE  Typed'
<1> USE NoCallType DEF Typed, Started, TypeOK, Calls, handshake, outside, Goto, Return, Maps, MapStates, Verdicts, Statuses,
            Points, Callers
<1>1. CASE NothingToWaitFor BY <1>1 DEF NothingToWaitFor
<1>2. CASE WaitStarts BY <1>2 DEF WaitStarts
<1>3. CASE WaitCallback BY <1>3 DEF WaitCallback
<1>4. CASE Take BY <1>4 DEF Take
<1>5. CASE Load BY <1>5 DEF Load
<1>6. CASE Timeout BY <1>6 DEF Timeout
<1>7. CASE Expire BY <1>7 DEF Expire
<1> QED BY <1>1, <1>2, <1>3, <1>4, <1>5, <1>6, <1>7 DEF Wait

LEMMA TypeDriver ==
  ASSUME Typed, Driver
  PROVE  Typed'
<1> USE NoCallType DEF Typed, Started, TypeOK, Calls, handshake, outside, Inside, Maps, MapStates, Verdicts, Statuses, Points,
            Callers, NoCall
<1>1. CASE StartReading BY <1>1 DEF StartReading
<1>2. CASE OwnerCalls BY <1>2 DEF OwnerCalls
<1>3. ASSUME NEW n \in Maps, FinishReading(n) PROVE Typed' BY <1>3 DEF FinishReading
<1>4. ASSUME NEW n \in Maps, DropMap(n) PROVE Typed' BY <1>4 DEF DropMap
<1>5. ASSUME NEW n \in Maps, IsrCalls(n) PROVE Typed' BY <1>5 DEF IsrCalls
<1> QED BY <1>1, <1>2, <1>3, <1>4, <1>5 DEF Driver

LEMMA TypeReady ==
  ASSUME Typed, NEW c \in Callers, Ready(c)
  PROVE  Typed'
<1> USE NoCallType DEF Typed, Started, TypeOK, Calls, handshake, outside, Inside, Maps, MapStates, Verdicts, Statuses, Points,
            Callers, NoCall, ReadyReturns
<1>1. CASE ReadyRejected(c) BY <1>1 DEF ReadyRejected
<1>2. CASE Exchange(c)
  <2>1. [ready[c] EXCEPT !.at = "store"] = [at |-> "store", map |-> ready[c].map]
    OBVIOUS
  <2>2. ready' = [ready EXCEPT ![c] = [at |-> "store", map |-> ready[c].map]]
    BY <1>2, <2>1, Zenon DEF Exchange
  <2>3. /\ ready[c].at = "exchange" /\ awaiting_ready' = FALSE
        /\ UNCHANGED <<completion_status, completion, flush_inflight, map, verdict, flush_wait,
                       pc, result, submitted, driver>>
    BY <1>2, Zenon DEF Exchange
  <2>4. ready' \in [Callers -> Calls] BY <2>2, <2>3
  <2>5. TypeOK' BY <2>3, <2>4
  <2>6. Started' BY <2>2, <2>3, <2>4
  <2> QED BY <2>5, <2>6
<1>3. CASE StoreStatus(c)
  <2>1. verdict[ready[c].map] \in Verdicts BY <1>3 DEF StoreStatus
  <2>2. [ready[c] EXCEPT !.at = "give"] = [at |-> "give", map |-> ready[c].map]
    OBVIOUS
  <2>3. ready' = [ready EXCEPT ![c] = [at |-> "give", map |-> ready[c].map]]
    BY <1>3, <2>2, Zenon DEF StoreStatus
  <2> QED BY <1>3, <2>1, <2>3 DEF StoreStatus
<1>4. CASE Give(c) BY <1>4 DEF Give
<1> QED BY <1>1, <1>2, <1>3, <1>4 DEF Ready

LEMMA TypeStep ==
  ASSUME Typed, [Next]_vars
  PROVE  Typed'
<1>1. CASE UNCHANGED vars
  BY <1>1 DEF Typed, Started, TypeOK, vars, handshake, outside
<1> QED BY <1>1, TypeSubmit, TypeWait, TypeDriver, TypeReady DEF Next

------------------------------------------------------------------------------
(* The phases of a submission.                                             *)

LEMMA PhasesInit == Init => Phases
  BY DEF Init, Phases, OwnerPhase, MapPhase, CallPhase, ReportPhase, Settled, Maps, Callers, NoCall

(* The owner's steps of submit_flush: only Arm opens a submission, only    *)
(* Disarm closes one, and a refused map is reported by nobody.             *)
LEMMA PhasesSubmit ==
  ASSUME TypeOK, TypeOK', Phases, Submit
  PROVE  Phases'
<1> USE DEF TypeOK, Phases, handshake, outside, Goto, Return, Maps, Callers, NoCall,
            OwnerPhase, MapPhase, CallPhase, ReportPhase, Settled
<1>1. CASE SubmitRefused BY <1>1 DEF SubmitRefused
<1>2. CASE SubmitStarts BY <1>2 DEF SubmitStarts
<1>3. CASE DrainCompletion BY <1>3 DEF DrainCompletion
<1>4. CASE ResetStatus BY <1>4 DEF ResetStatus
<1>5. CASE Arm BY <1>5 DEF Arm
<1>6. CASE FlushAccepted BY <1>6 DEF FlushAccepted
<1>7. CASE FlushRefused BY <1>7 DEF FlushRefused
<1>8. CASE Disarm BY <1>8 DEF Disarm
<1> QED BY <1>1, <1>2, <1>3, <1>4, <1>5, <1>6, <1>7, <1>8 DEF Submit

(* The owner's steps of wait_for_flush: with a driver in time the timer    *)
(* only runs out on a map that is never reported.                          *)
LEMMA PhasesWait ==
  ASSUME TypeOK, TypeOK', Phases, Wait, driver = "punctual"
  PROVE  Phases'
<1> USE DEF TypeOK, Phases, handshake, outside, Goto, Return, Maps, Callers, NoCall,
            OwnerPhase, MapPhase, CallPhase, ReportPhase, Settled
<1>1. CASE NothingToWaitFor BY <1>1 DEF NothingToWaitFor
<1>2. CASE WaitStarts BY <1>2 DEF WaitStarts
<1>3. CASE WaitCallback BY <1>3 DEF WaitCallback
<1>4. CASE Take BY <1>4 DEF Take
<1>5. CASE Load BY <1>5 DEF Load
<1>6. CASE Timeout BY <1>6 DEF Timeout
<1>7. CASE Expire BY <1>7 DEF Expire
<1> QED BY <1>1, <1>2, <1>3, <1>4, <1>5, <1>6, <1>7 DEF Wait

(* The driver only ever touches the map submitted last.                    *)
LEMMA PhasesDriver ==
  ASSUME TypeOK, TypeOK', Phases, Driver
  PROVE  Phases'
<1> USE DEF TypeOK, Phases, handshake, outside, Inside, Maps, Callers, NoCall,
            OwnerPhase, MapPhase, CallPhase, ReportPhase, Settled
<1>1. CASE StartReading BY <1>1 DEF StartReading
<1>2. CASE OwnerCalls BY <1>2 DEF OwnerCalls
<1>3. ASSUME NEW n \in Maps, FinishReading(n) PROVE Phases' BY <1>3 DEF FinishReading
<1>4. ASSUME NEW n \in Maps, DropMap(n) PROVE Phases' BY <1>4 DEF DropMap
<1>5. ASSUME NEW n \in Maps, IsrCalls(n) PROVE Phases' BY <1>5 DEF IsrCalls
<1> QED BY <1>1, <1>2, <1>3, <1>4, <1>5 DEF Driver

(* Inside flush_ready[_from_isr] the status is stored before the give.     *)
LEMMA PhasesReady ==
  ASSUME TypeOK, TypeOK', Phases, NEW c \in Callers, Ready(c)
  PROVE  Phases'
<1> USE DEF TypeOK, Phases, handshake, outside, Inside, Maps, Callers, NoCall, ReadyReturns,
            OwnerPhase, MapPhase, CallPhase, ReportPhase, Settled
<1>1. CASE ReadyRejected(c) BY <1>1 DEF ReadyRejected
<1>2. CASE Exchange(c) BY <1>2 DEF Exchange
<1>3. CASE StoreStatus(c) BY <1>3 DEF StoreStatus
<1>4. CASE Give(c) BY <1>4 DEF Give
<1> QED BY <1>1, <1>2, <1>3, <1>4 DEF Ready

------------------------------------------------------------------------------
(* The kind of driver never changes.                                       *)
LEMMA DriverStays == [Next]_vars => driver' = driver
  BY DEF Next, vars, Submit, Wait, Driver, Ready, handshake, outside, Inside,
         SubmitRefused, SubmitStarts, DrainCompletion, ResetStatus, Arm, FlushAccepted,
         FlushRefused, Disarm, NothingToWaitFor, WaitStarts, WaitCallback, Take, Load, Timeout,
         Expire, StartReading, OwnerCalls, FinishReading, DropMap, IsrCalls, ReadyRejected,
         Exchange, StoreStatus, Give

(* HandshakeInv: the state keeps its types and, with a driver that reports *)
(* in time, every submission goes through its phases, for any number of    *)
(* maps (submit_flush, wait_for_flush, flush_ready, flush_ready_from_isr). *)
THEOREM HandshakePhases == Spec => []HandshakeInv
<1> DEFINE IInv == Typed /\ HandshakeInv
<1>1. Init => IInv
  BY TypeInit, PhasesInit DEF HandshakeInv, Phases, Typed
<1>2. IInv /\ [Next]_vars => IInv'
  <2> SUFFICES ASSUME IInv, [Next]_vars PROVE IInv'
    OBVIOUS
  <2>1. Typed /\ Typed' /\ TypeOK /\ TypeOK'
    BY TypeStep DEF Typed
  <2>2. ASSUME driver' = "punctual" PROVE Phases'
    <3>1. driver = "punctual" /\ Phases
      BY <2>2, DriverStays DEF HandshakeInv, Phases
    <3>2. CASE UNCHANGED vars
      BY <3>1, <3>2 DEF vars, handshake, outside, Phases, OwnerPhase, MapPhase, CallPhase,
                        ReportPhase, Settled
    <3> QED
      BY <2>1, <3>1, <3>2, PhasesSubmit, PhasesWait, PhasesDriver, PhasesReady DEF Next
  <2> QED
    BY <2>1, <2>2 DEF HandshakeInv, Phases
<1> QED
  BY <1>1, <1>2, PTL DEF Spec

(* With a driver whose every report comes before the timeout.              *)
OwnVerdictInTime == driver = "punctual" => OwnVerdict

(* OwnVerdictInTime: what wait_for_flush reads from completion_status is   *)
(* the driver's verdict on the map submitted last.                         *)
THEOREM OwnVerdictReturned == Spec => []OwnVerdictInTime
<1>1. HandshakeInv => OwnVerdictInTime
  BY DEF HandshakeInv, OwnVerdictInTime, OwnVerdict, OwnerPhase, MapPhase, ReportPhase
<1> QED
  BY <1>1, HandshakePhases, PTL

(* While nothing is submitted or being submitted, no completion would be   *)
(* accepted and none is under way, so none can land in the next wait.      *)
QuietInTime ==
  driver = "punctual" /\ ~flush_inflight =>
    ~awaiting_ready /\ \A c \in Callers : ready[c] = NoCall

(* QuietInTime: between submissions awaiting_ready is clear and no report  *)
(* is under way.                                                           *)
THEOREM QuietBetween == Spec => []QuietInTime
<1>1. HandshakeInv => QuietInTime
  BY DEF HandshakeInv, QuietInTime, CallPhase, ReportPhase
<1> QED
  BY <1>1, HandshakePhases, PTL
------------------------------------------------------------------------------
(* MapExchange is implemented, call by call.                               *)

ExchangeStep == [Promised!Next]_(Promised!vars)

(* The owner's calls see the map handed over at Arm, and gone again at     *)
(* Disarm; what is out is always the map submitted last.                   *)
LEMMA ExchangeSubmit ==
  ASSUME TypeOK, TypeOK', Phases, Submit
  PROVE  ExchangeStep
<1> USE DEF TypeOK, Phases, handshake, outside, Goto, Return, Maps, OwnerPhase, MapPhase,
            ExchangeStep, Promised!Next, Promised!vars, Promised!Call, Call, Fate
<1>1. CASE SubmitRefused
  <2>1. submitted \in Maps BY <1>1 DEF SubmitRefused
  <2>2. Fate(submitted) # "none" BY <2>1 DEF Verdicts
  <2>3. flush_inflight /\ pc = "idle" /\ pc' = "idle" /\ result' = "INVALID_STATE"
        /\ UNCHANGED <<flush_inflight, map, verdict, submitted>>
    BY <1>1 DEF SubmitRefused
  <2>4. Promised!TurnDown BY <2>2, <2>3 DEF Promised!TurnDown
  <2> QED BY <2>4
<1>2. CASE SubmitStarts BY <1>2 DEF SubmitStarts
<1>3. CASE DrainCompletion BY <1>3 DEF DrainCompletion
<1>4. CASE ResetStatus BY <1>4 DEF ResetStatus
<1>5. CASE Arm
  <2>1. submitted + 1 \in Maps BY <1>5 DEF Arm
  <2>2. /\ pc = "arm" /\ pc' = "flushing" /\ ~flush_inflight /\ flush_inflight'
        /\ map'[submitted'] = "handed"
        /\ UNCHANGED result
    BY <1>5, <2>1 DEF Arm
  <2>3. Promised!Submit BY <2>2 DEF Promised!Submit
  <2> QED BY <2>3
<1>6. CASE FlushAccepted BY <1>6 DEF FlushAccepted, Promised!Accept
<1>7. CASE FlushRefused BY <1>7 DEF FlushRefused
<1>8. CASE Disarm BY <1>8 DEF Disarm, Promised!Refuse
<1> QED BY <1>1, <1>2, <1>3, <1>4, <1>5, <1>6, <1>7, <1>8 DEF Submit

(* A wait that ends answers with the fate of the map: the status loaded is *)
(* the driver's verdict on it, and only a dropped map times out.           *)
LEMMA ExchangeWait ==
  ASSUME TypeOK, Phases, Wait, driver = "punctual"
  PROVE  ExchangeStep
<1> USE DEF TypeOK, Phases, handshake, outside, Goto, Return, Maps, OwnerPhase, MapPhase,
            ExchangeStep, Promised!Next, Promised!vars, Promised!Call, Call, Fate,
            Promised!Fates, Verdicts
<1>1. CASE NothingToWaitFor BY <1>1 DEF NothingToWaitFor, Promised!NothingOut
<1>2. CASE WaitStarts BY <1>2 DEF WaitStarts, Promised!Wait
<1>3. CASE WaitCallback BY <1>3 DEF WaitCallback, Promised!Collect
<1>4. CASE Take BY <1>4 DEF Take
<1>5. CASE Load BY <1>5 DEF Load, Promised!Collect, ReportPhase
<1>6. CASE Timeout BY <1>6 DEF Timeout
<1>7. CASE Expire BY <1>7 DEF Expire, Promised!Collect
<1> QED BY <1>1, <1>2, <1>3, <1>4, <1>5, <1>6, <1>7 DEF Wait

(* The fate is settled when the driver is through with the pixels.         *)
LEMMA ExchangeDriver ==
  ASSUME TypeOK, Phases, Driver
  PROVE  ExchangeStep
<1> USE DEF TypeOK, Phases, Inside, Maps, MapPhase, ExchangeStep, Promised!Next, Promised!vars,
            Call, Fate, Promised!Fates, Verdicts, Promised!Settle, Settled
<1>1. CASE StartReading BY <1>1 DEF StartReading
<1>2. CASE OwnerCalls BY <1>2 DEF OwnerCalls
<1>3. ASSUME NEW n \in Maps, FinishReading(n) PROVE ExchangeStep BY <1>3 DEF FinishReading
<1>4. ASSUME NEW n \in Maps, DropMap(n) PROVE ExchangeStep BY <1>4 DEF DropMap
<1>5. ASSUME NEW n \in Maps, IsrCalls(n) PROVE ExchangeStep BY <1>5 DEF IsrCalls
<1> QED BY <1>1, <1>2, <1>3, <1>4, <1>5 DEF Driver

(* Between the two, flush_ready[_from_isr] makes no difference.            *)
LEMMA ExchangeReady ==
  ASSUME TypeOK, Phases, NEW c \in Callers, Ready(c)
  PROVE  ExchangeStep
<1> USE DEF TypeOK, Phases, Inside, Maps, CallPhase, ExchangeStep, Promised!vars,
            Call, Fate, ReadyReturns, NoCall
<1>1. CASE ReadyRejected(c) BY <1>1 DEF ReadyRejected
<1>2. CASE Exchange(c) BY <1>2 DEF Exchange
<1>3. CASE StoreStatus(c) BY <1>3 DEF StoreStatus
<1>4. CASE Give(c) BY <1>4 DEF Give
<1> QED BY <1>1, <1>2, <1>3, <1>4 DEF Ready

(* ImplementsExchange: with a driver that reports in time, callers of      *)
(* submit_flush and wait_for_flush see MapExchange, for any number of maps *)
(* and wherever the completions fall.                                      *)
THEOREM ExchangeRefinement == Spec => ImplementsExchange
<1>1. Init => Promised!Init
  BY DEF Init, Promised!Init, Call
<1>2. HandshakeInv /\ HandshakeInv' /\ [Next]_vars
        => [driver = "punctual" => Promised!Next]_(Promised!vars)
  <2> SUFFICES ASSUME HandshakeInv, HandshakeInv', [Next]_vars, driver = "punctual" PROVE ExchangeStep
    BY DEF ExchangeStep
  <2>1. TypeOK /\ TypeOK' /\ Phases
    BY DEF HandshakeInv, Phases
  <2>2. CASE UNCHANGED vars
    BY <2>2 DEF vars, handshake, outside, ExchangeStep, Promised!vars, Call, Fate
  <2> QED
    BY <2>1, <2>2, ExchangeSubmit, ExchangeWait, ExchangeDriver, ExchangeReady DEF Next
<1> QED
  BY <1>1, <1>2, HandshakePhases, PTL DEF Spec, ImplementsExchange
=============================================================================
