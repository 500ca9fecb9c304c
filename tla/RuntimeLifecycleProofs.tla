----------------------- MODULE RuntimeLifecycleProofs -----------------------
(***************************************************************************)
(* RuntimeLifecycle for any number of tasks, displays and extensions.      *)
(* LifecycleInv is the inductive invariant.  Each of its parts has a       *)
(* section of its own: what the part says, that Init has it, and that each *)
(* action keeps it (<Part>Init, <Part>Claim, <Part>Create, ..., <Part>Step *)
(* follow the disjuncts of Next).                                          *)
(***************************************************************************)
EXTENDS RuntimeLifecycle, TLAPS

USE LifecycleAssumption

------------------------------------------------------------------------------
(* Types.                                                                  *)

LEMMA TypeOKInit == Init => TypeOK
<1> SUFFICES ASSUME Init PROVE TypeOK
  OBVIOUS
<1>1. extension \in [Tasks -> [Extensions -> {"none", "installed", "destroyed"}]]
  BY ZenonT(30) DEF Init
<1>2. next \in [Tasks -> 0 .. ExtensionCount + 1] /\ installed \in [Tasks -> 0 .. ExtensionCount]
  BY DEF Init
<1>3. active \in [Tasks -> SUBSET Extensions]
  BY DEF Init
<1>4. pc \in [Tasks -> Points]
  BY DEF Init, Points
<1>5. held \in [Tasks -> Displays \cup {None}] /\ drawing \in [Tasks -> Displays \cup {None}]
  BY DEF Init
<1> QED
  BY <1>1, <1>2, <1>3, <1>4, <1>5 DEF Init, TypeOK

LEMMA TypeOKClaim ==
  ASSUME TypeOK, NEW t \in Tasks, Claim(t)
  PROVE  TypeOK'
  BY DEF TypeOK, Points, Extensions, control, platform, script, screen, Goto, At, Claim

LEMMA TypeOKCreate ==
  ASSUME TypeOK, NEW t \in Tasks, Create(t)
  PROVE  TypeOK'
<1> USE DEF TypeOK, Points, Extensions, control, platform, script, screen, Goto, At
<1>1. CASE Alloc(t)
  BY <1>1 DEF Alloc
<1>2. CASE AllocFails(t)
  BY <1>2 DEF AllocFails
<1>3. CASE CreateFails(t)
  BY <1>3 DEF CreateFails
<1>4. CASE CreateCore(t)
  BY <1>4 DEF CreateCore
<1>5. CASE InitPpa(t)
  BY <1>5 DEF InitPpa
<1>6. CASE CreateJs(t)
  BY <1>6 DEF CreateJs
<1>7. CASE CreateJsFails(t)
  BY <1>7 DEF CreateJsFails
<1>8. CASE EnterInstall(t)
  BY <1>8 DEF EnterInstall, EnterCallback, Has
<1>9. CASE InstallNext(t)
  BY <1>9 DEF InstallNext, FinishCallback, Deactivated, Counted
<1>10. CASE InstallFails(t)
  BY <1>10 DEF InstallFails, FinishCallback, Deactivated
<1>11. CASE Evaluate(t)
  BY <1>11 DEF Evaluate
<1>12. CASE EvaluateFails(t)
  BY <1>12 DEF EvaluateFails
<1> QED
  BY <1>1, <1>2, <1>3, <1>4, <1>5, <1>6, <1>7, <1>8, <1>9, <1>10, <1>11, <1>12 DEF Create

LEMMA TypeOKCalls ==
  ASSUME TypeOK, NEW t \in Tasks, Calls(t)
  PROVE  TypeOK'
<1> USE DEF TypeOK, Points, Extensions, control, platform, script, screen, Goto, At
<1>1. CASE Detach(t)
  BY <1>1 DEF MayCall, Unhook, Detach
<1>2. CASE Destroy(t)
  BY <1>2 DEF MayCall, Unhook, Destroy
<1>3. CASE RunFrame(t)
  BY <1>3 DEF MayCall, RunFrame
<1>4. ASSUME NEW d \in Displays, Attach(t, d) PROVE TypeOK'
  BY <1>4 DEF MayCall, Attach, Attachable
<1> QED
  BY <1>1, <1>2, <1>3, <1>4 DEF Calls

LEMMA TypeOKFrame ==
  ASSUME TypeOK, NEW t \in Tasks, Frame(t)
  PROVE  TypeOK'
<1> USE DEF TypeOK, Points, Extensions, control, platform, script, screen, Goto, At
<1>1. CASE EnterBeforeFrame(t)
  BY <1>1 DEF EnterBeforeFrame, EnterCallback, Has
<1>2. CASE BeforeNext(t)
  BY <1>2 DEF BeforeNext, FinishCallback, Deactivated
<1>3. CASE BeforeFails(t)
  BY <1>3 DEF BeforeFails, FinishCallback, Deactivated, Finished
<1>4. CASE CallFrame(t)
  BY <1>4 DEF CallFrame
<1>5. CASE FrameFails(t)
  BY <1>5 DEF FrameFails, Finished
<1>6. CASE TickAndRender(t)
  BY <1>6 DEF TickAndRender
<1>7. CASE FinishFrame(t)
  BY <1>7 DEF FinishFrame, Finished
<1> QED
  BY <1>1, <1>2, <1>3, <1>4, <1>5, <1>6, <1>7 DEF Frame

LEMMA TypeOKTakeDown ==
  ASSUME TypeOK, NEW t \in Tasks, TakeDown(t)
  PROVE  TypeOK'
<1> USE DEF TypeOK, Points, Extensions, control, platform, script, screen, Goto, At
<1>1. CASE EnterDestroy(t)
  BY <1>1 DEF EnterDestroy, EnterCallback, Has
<1>2. CASE DestroyNext(t)
  BY <1>2 DEF DestroyNext, FinishCallback, Deactivated
<1>3. CASE FreeJs(t)
  BY <1>3 DEF FreeJs
<1>4. CASE DeinitPpa(t)
  BY <1>4 DEF DeinitPpa
<1>5. CASE FreeCore(t)
  BY <1>5 DEF FreeCore
<1>6. CASE Release(t)
  BY <1>6 DEF Release
<1> QED
  BY <1>1, <1>2, <1>3, <1>4, <1>5, <1>6 DEF TakeDown

LEMMA TypeOKDisplays ==
  ASSUME TypeOK, NEW d \in Displays, CreateDisplay(d) \/ DeleteDisplay(d)
  PROVE  TypeOK'
  BY DEF TypeOK, Points, Extensions, control, platform, script, screen, Goto, At,
       CreateDisplay, DeleteDisplay

LEMMA TypeOKStep ==
  ASSUME TypeOK, [Next]_vars
  PROVE  TypeOK'
<1>1. CASE UNCHANGED vars
  BY <1>1 DEF TypeOK, Points, Extensions, control, platform, script, screen, Goto, At,
       vars
<1>2. CASE Next
  BY <1>2, TypeOKClaim, TypeOKCreate, TypeOKCalls, TypeOKFrame, TypeOKTakeDown,
       TypeOKDisplays
     DEF Next
<1> QED
  BY <1>1, <1>2

------------------------------------------------------------------------------
(* The claim: it is taken while any task is past it, by one task only.     *)

Exclusive ==
  /\ \A t, u \in Tasks : pc[t] # "absent" /\ pc[u] # "absent" => t = u
  /\ \A t \in Tasks : pc[t] # "absent" => claimed
ExclusiveInv == TypeOK /\ Exclusive

LEMMA ExclusiveInit == Init => Exclusive
  BY DEF Init, Exclusive

LEMMA ExclusiveStep ==
  ASSUME ExclusiveInv, [Next]_vars
  PROVE  Exclusive'
<1> USE DEF ExclusiveInv, Exclusive, TypeOK, Goto, At, control, platform, script, screen
<1>1. CASE UNCHANGED vars
  BY <1>1 DEF vars
<1>2. ASSUME NEW t \in Tasks, Claim(t) PROVE Exclusive'
  BY <1>2 DEF Claim
<1>3. ASSUME NEW t \in Tasks, Create(t) PROVE Exclusive'
  BY <1>3 DEF Create, Alloc, AllocFails, CreateFails, CreateCore, InitPpa, CreateJs,
     CreateJsFails, EnterInstall, EnterCallback, Has, InstallNext, FinishCallback,
     Deactivated, Counted, InstallFails, Evaluate, EvaluateFails
<1>4. ASSUME NEW t \in Tasks, Calls(t) PROVE Exclusive'
  BY <1>4 DEF Calls, MayCall, ForeignCode, Detach, Destroy, Unhook, RunFrame, Attach
<1>5. ASSUME NEW t \in Tasks, Frame(t) PROVE Exclusive'
  <2>1. CASE EnterBeforeFrame(t)
    BY <2>1 DEF EnterBeforeFrame, EnterCallback, Has
  <2>2. CASE BeforeNext(t)
    BY <2>2 DEF BeforeNext, FinishCallback, Deactivated
  <2>3. CASE BeforeFails(t)
    BY <2>3 DEF BeforeFails, FinishCallback, Deactivated, Finished
  <2>4. CASE CallFrame(t)
    BY <2>4 DEF CallFrame
  <2>5. CASE FrameFails(t)
    BY <2>5 DEF FrameFails, Finished
  <2>6. CASE TickAndRender(t)
    BY <2>6 DEF TickAndRender
  <2>7. CASE FinishFrame(t)
    BY <2>7 DEF FinishFrame, Finished
  <2> QED
    BY <1>5, <2>1, <2>2, <2>3, <2>4, <2>5, <2>6, <2>7 DEF Frame
<1>6. ASSUME NEW t \in Tasks, TakeDown(t) PROVE Exclusive'
  <2>1. CASE EnterDestroy(t)
    BY <2>1 DEF EnterDestroy, EnterCallback, Has
  <2>2. CASE DestroyNext(t)
    BY <2>2 DEF DestroyNext, FinishCallback, Deactivated
  <2>3. CASE FreeJs(t)
    BY <2>3 DEF FreeJs
  <2>4. CASE DeinitPpa(t)
    BY <2>4 DEF DeinitPpa
  <2>5. CASE FreeCore(t)
    BY <2>5 DEF FreeCore
  <2>6. CASE Release(t)
    BY <2>6 DEF Release
  <2> QED
    BY <1>6, <2>1, <2>2, <2>3, <2>4, <2>5, <2>6 DEF TakeDown
<1>7. ASSUME NEW d \in Displays, CreateDisplay(d) \/ DeleteDisplay(d) PROVE Exclusive'
  BY <1>7 DEF CreateDisplay, DeleteDisplay
<1> QED
  BY <1>1, <1>2, <1>3, <1>4, <1>5, <1>6, <1>7 DEF Next

------------------------------------------------------------------------------
(* The stages of a runtime: what it has at each point of its life.         *)

Unallocated == {"absent", "alloc", "release"}
NoJs == Unallocated \cup {"core", "ppa_on", "js", "ppa_off", "free"}
Stages ==
  \A t \in Tasks :
    /\ busy[t] <=> pc[t] \notin Unallocated \cup {"idle"}
    /\ pc[t] \in Unallocated \cup {"core", "ppa_on"} => ~ppa_initialized[t]
    /\ pc[t] = "free" => ~ppa_initialized[t]
    /\ pc[t] \in Unallocated => ~core[t]
    /\ pc[t] \in NoJs => ~ctx[t] /\ installed[t] = 0 /\ active[t] = {}
    /\ held[t] # None => pc[t] \in {"idle", "before", "in_before", "frame", "render"}
StagesInv == TypeOK /\ Stages

LEMMA StagesInit == Init => Stages
  BY DEF StagesInv, Stages, Unallocated, NoJs, TypeOK, ForeignCode, control, platform,
       script, screen, Goto, At, Init

LEMMA StagesClaim ==
  ASSUME StagesInv, NEW t \in Tasks, Claim(t)
  PROVE  Stages'
  BY DEF StagesInv, Stages, Unallocated, NoJs, TypeOK, ForeignCode, control, platform,
       script, screen, Goto, At, Claim

LEMMA StagesCreate ==
  ASSUME StagesInv, NEW t \in Tasks, Create(t)
  PROVE  Stages'
<1> USE DEF StagesInv, Stages, Unallocated, NoJs, TypeOK, ForeignCode, control, platform,
        script, screen, Goto, At
<1>1. CASE Alloc(t)
  BY <1>1 DEF Alloc
<1>2. CASE AllocFails(t)
  BY <1>2 DEF AllocFails
<1>3. CASE CreateFails(t)
  BY <1>3 DEF CreateFails
<1>4. CASE CreateCore(t)
  BY <1>4 DEF CreateCore
<1>5. CASE InitPpa(t)
  BY <1>5 DEF InitPpa
<1>6. CASE CreateJs(t)
  BY <1>6 DEF CreateJs
<1>7. CASE CreateJsFails(t)
  BY <1>7 DEF CreateJsFails
<1>8. CASE EnterInstall(t)
  BY <1>8 DEF EnterInstall, EnterCallback, Has
<1>9. CASE InstallNext(t)
  BY <1>9 DEF InstallNext, FinishCallback, Deactivated, Counted
<1>10. CASE InstallFails(t)
  BY <1>10 DEF InstallFails, FinishCallback, Deactivated
<1>11. CASE Evaluate(t)
  BY <1>11 DEF Evaluate
<1>12. CASE EvaluateFails(t)
  BY <1>12 DEF EvaluateFails
<1> QED
  BY <1>1, <1>2, <1>3, <1>4, <1>5, <1>6, <1>7, <1>8, <1>9, <1>10, <1>11, <1>12 DEF Create

LEMMA StagesCalls ==
  ASSUME StagesInv, NEW t \in Tasks, Calls(t)
  PROVE  Stages'
<1> USE DEF StagesInv, Stages, Unallocated, NoJs, TypeOK, ForeignCode, control, platform,
        script, screen, Goto, At
<1>1. CASE Detach(t)
  BY <1>1 DEF MayCall, Unhook, Detach
<1>2. CASE Destroy(t)
  BY <1>2 DEF MayCall, Unhook, Destroy
<1>3. CASE RunFrame(t)
  BY <1>3 DEF MayCall, RunFrame
<1>4. ASSUME NEW d \in Displays, Attach(t, d) PROVE Stages'
  BY <1>4 DEF MayCall, Attach, Attachable
<1> QED
  BY <1>1, <1>2, <1>3, <1>4 DEF Calls

LEMMA StagesFrame ==
  ASSUME StagesInv, NEW t \in Tasks, Frame(t)
  PROVE  Stages'
<1> USE DEF StagesInv, Stages, Unallocated, NoJs, TypeOK, ForeignCode, control, platform,
        script, screen, Goto, At
<1>1. CASE EnterBeforeFrame(t)
  BY <1>1 DEF EnterBeforeFrame, EnterCallback, Has
<1>2. CASE BeforeNext(t)
  BY <1>2 DEF BeforeNext, FinishCallback, Deactivated
<1>3. CASE BeforeFails(t)
  BY <1>3 DEF BeforeFails, FinishCallback, Deactivated, Finished
<1>4. CASE CallFrame(t)
  BY <1>4 DEF CallFrame
<1>5. CASE FrameFails(t)
  BY <1>5 DEF FrameFails, Finished
<1>6. CASE TickAndRender(t)
  BY <1>6 DEF TickAndRender
<1>7. CASE FinishFrame(t)
  BY <1>7 DEF FinishFrame, Finished
<1> QED
  BY <1>1, <1>2, <1>3, <1>4, <1>5, <1>6, <1>7 DEF Frame

LEMMA StagesTakeDown ==
  ASSUME StagesInv, NEW t \in Tasks, TakeDown(t)
  PROVE  Stages'
<1> USE DEF StagesInv, Stages, Unallocated, NoJs, TypeOK, ForeignCode, control, platform,
        script, screen, Goto, At
<1>1. CASE EnterDestroy(t)
  BY <1>1 DEF EnterDestroy, EnterCallback, Has
<1>2. CASE DestroyNext(t)
  BY <1>2 DEF DestroyNext, FinishCallback, Deactivated
<1>3. CASE FreeJs(t)
  BY <1>3 DEF FreeJs
<1>4. CASE DeinitPpa(t)
  BY <1>4 DEF DeinitPpa
<1>5. CASE FreeCore(t)
  BY <1>5 DEF FreeCore
<1>6. CASE Release(t)
  BY <1>6 DEF Release
<1> QED
  BY <1>1, <1>2, <1>3, <1>4, <1>5, <1>6 DEF TakeDown

LEMMA StagesDisplays ==
  ASSUME StagesInv, NEW d \in Displays, CreateDisplay(d) \/ DeleteDisplay(d)
  PROVE  Stages'
  BY DEF StagesInv, Stages, Unallocated, NoJs, TypeOK, ForeignCode, control, platform,
       script, screen, Goto, At, CreateDisplay, DeleteDisplay

LEMMA StagesStep ==
  ASSUME StagesInv, [Next]_vars
  PROVE  Stages'
<1>1. CASE UNCHANGED vars
  BY <1>1 DEF StagesInv, Stages, Unallocated, NoJs, TypeOK, ForeignCode, control,
       platform, script, screen, Goto, At, vars
<1>2. CASE Next
  BY <1>2, StagesClaim, StagesCreate, StagesCalls, StagesFrame, StagesTakeDown,
       StagesDisplays
     DEF Next
<1> QED
  BY <1>1, <1>2

------------------------------------------------------------------------------
(* The PPA clients, and with them the whole of OneRuntime.                 *)

PpaOwned == ppa <=> \E t \in Tasks : ppa_initialized[t]
OwnedInv == TypeOK /\ Exclusive /\ Stages /\ PpaOwned

LEMMA PpaOwnedInit == Init => PpaOwned
  BY DEF OwnedInv, Exclusive, Stages, Unallocated, PpaOwned, TypeOK, ForeignCode, control,
       platform, script, screen, Goto, At, Init

LEMMA PpaOwnedClaim ==
  ASSUME OwnedInv, NEW t \in Tasks, Claim(t)
  PROVE  PpaOwned'
  BY DEF OwnedInv, Exclusive, Stages, Unallocated, PpaOwned, TypeOK, ForeignCode, control,
       platform, script, screen, Goto, At, Claim

LEMMA PpaOwnedCreate ==
  ASSUME OwnedInv, NEW t \in Tasks, Create(t)
  PROVE  PpaOwned'
<1> USE DEF OwnedInv, Exclusive, Stages, Unallocated, PpaOwned, TypeOK, ForeignCode,
        control, platform, script, screen, Goto, At
<1>1. CASE Alloc(t)
  BY <1>1 DEF Alloc
<1>2. CASE AllocFails(t)
  BY <1>2 DEF AllocFails
<1>3. CASE CreateFails(t)
  BY <1>3 DEF CreateFails
<1>4. CASE CreateCore(t)
  BY <1>4 DEF CreateCore
<1>5. CASE InitPpa(t)
  BY <1>5 DEF InitPpa
<1>6. CASE CreateJs(t)
  BY <1>6 DEF CreateJs
<1>7. CASE CreateJsFails(t)
  BY <1>7 DEF CreateJsFails
<1>8. CASE EnterInstall(t)
  BY <1>8 DEF EnterInstall, EnterCallback, Has
<1>9. CASE InstallNext(t)
  BY <1>9 DEF InstallNext, FinishCallback, Deactivated, Counted
<1>10. CASE InstallFails(t)
  BY <1>10 DEF InstallFails, FinishCallback, Deactivated
<1>11. CASE Evaluate(t)
  BY <1>11 DEF Evaluate
<1>12. CASE EvaluateFails(t)
  BY <1>12 DEF EvaluateFails
<1> QED
  BY <1>1, <1>2, <1>3, <1>4, <1>5, <1>6, <1>7, <1>8, <1>9, <1>10, <1>11, <1>12 DEF Create

LEMMA PpaOwnedCalls ==
  ASSUME OwnedInv, NEW t \in Tasks, Calls(t)
  PROVE  PpaOwned'
<1> USE DEF OwnedInv, Exclusive, Stages, Unallocated, PpaOwned, TypeOK, ForeignCode,
        control, platform, script, screen, Goto, At
<1>1. CASE Detach(t)
  BY <1>1 DEF MayCall, Unhook, Detach
<1>2. CASE Destroy(t)
  BY <1>2 DEF MayCall, Unhook, Destroy
<1>3. CASE RunFrame(t)
  BY <1>3 DEF MayCall, RunFrame
<1>4. ASSUME NEW d \in Displays, Attach(t, d) PROVE PpaOwned'
  BY <1>4 DEF MayCall, Attach, Attachable
<1> QED
  BY <1>1, <1>2, <1>3, <1>4 DEF Calls

LEMMA PpaOwnedFrame ==
  ASSUME OwnedInv, NEW t \in Tasks, Frame(t)
  PROVE  PpaOwned'
<1> USE DEF OwnedInv, Exclusive, Stages, Unallocated, PpaOwned, TypeOK, ForeignCode,
        control, platform, script, screen, Goto, At
<1>1. CASE EnterBeforeFrame(t)
  BY <1>1 DEF EnterBeforeFrame, EnterCallback, Has
<1>2. CASE BeforeNext(t)
  BY <1>2 DEF BeforeNext, FinishCallback, Deactivated
<1>3. CASE BeforeFails(t)
  BY <1>3 DEF BeforeFails, FinishCallback, Deactivated, Finished
<1>4. CASE CallFrame(t)
  BY <1>4 DEF CallFrame
<1>5. CASE FrameFails(t)
  BY <1>5 DEF FrameFails, Finished
<1>6. CASE TickAndRender(t)
  BY <1>6 DEF TickAndRender
<1>7. CASE FinishFrame(t)
  BY <1>7 DEF FinishFrame, Finished
<1> QED
  BY <1>1, <1>2, <1>3, <1>4, <1>5, <1>6, <1>7 DEF Frame

LEMMA PpaOwnedTakeDown ==
  ASSUME OwnedInv, NEW t \in Tasks, TakeDown(t)
  PROVE  PpaOwned'
<1> USE DEF OwnedInv, Exclusive, Stages, Unallocated, PpaOwned, TypeOK, ForeignCode,
        control, platform, script, screen, Goto, At
<1>1. CASE EnterDestroy(t)
  BY <1>1 DEF EnterDestroy, EnterCallback, Has
<1>2. CASE DestroyNext(t)
  BY <1>2 DEF DestroyNext, FinishCallback, Deactivated
<1>3. CASE FreeJs(t)
  BY <1>3 DEF FreeJs
<1>4. CASE DeinitPpa(t)
  BY <1>4 DEF DeinitPpa
<1>5. CASE FreeCore(t)
  BY <1>5 DEF FreeCore
<1>6. CASE Release(t)
  BY <1>6 DEF Release
<1> QED
  BY <1>1, <1>2, <1>3, <1>4, <1>5, <1>6 DEF TakeDown

LEMMA PpaOwnedDisplays ==
  ASSUME OwnedInv, NEW d \in Displays, CreateDisplay(d) \/ DeleteDisplay(d)
  PROVE  PpaOwned'
  BY DEF OwnedInv, Exclusive, Stages, Unallocated, PpaOwned, TypeOK, ForeignCode, control,
       platform, script, screen, Goto, At, CreateDisplay, DeleteDisplay

LEMMA PpaOwnedStep ==
  ASSUME OwnedInv, [Next]_vars
  PROVE  PpaOwned'
<1>1. CASE UNCHANGED vars
  BY <1>1 DEF OwnedInv, Exclusive, Stages, Unallocated, PpaOwned, TypeOK, ForeignCode,
       control, platform, script, screen, Goto, At, vars
<1>2. CASE Next
  BY <1>2, PpaOwnedClaim, PpaOwnedCreate, PpaOwnedCalls, PpaOwnedFrame, PpaOwnedTakeDown,
       PpaOwnedDisplays
     DEF Next
<1> QED
  BY <1>1, <1>2

------------------------------------------------------------------------------
(* The contexts handed to extensions.                                      *)

ContextInv == TypeOK /\ Stages /\ ContextOnlyInCallback

LEMMA ContextOnlyInCallbackInit == Init => ContextOnlyInCallback
  BY DEF ContextInv, Stages, Unallocated, NoJs, ContextOnlyInCallback, InCallback, TypeOK,
       ForeignCode, control, platform, script, screen, Goto, At, Init

LEMMA ContextOnlyInCallbackClaim ==
  ASSUME ContextInv, NEW t \in Tasks, Claim(t)
  PROVE  ContextOnlyInCallback'
  BY DEF ContextInv, Stages, Unallocated, NoJs, ContextOnlyInCallback, InCallback, TypeOK,
       ForeignCode, control, platform, script, screen, Goto, At, Claim

LEMMA ContextOnlyInCallbackCreate ==
  ASSUME ContextInv, NEW t \in Tasks, Create(t)
  PROVE  ContextOnlyInCallback'
<1> USE DEF ContextInv, Stages, Unallocated, NoJs, ContextOnlyInCallback, InCallback,
        TypeOK, ForeignCode, control, platform, script, screen, Goto, At
<1>1. CASE Alloc(t)
  BY <1>1 DEF Alloc
<1>2. CASE AllocFails(t)
  BY <1>2 DEF AllocFails
<1>3. CASE CreateFails(t)
  BY <1>3 DEF CreateFails
<1>4. CASE CreateCore(t)
  BY <1>4 DEF CreateCore
<1>5. CASE InitPpa(t)
  BY <1>5 DEF InitPpa
<1>6. CASE CreateJs(t)
  BY <1>6 DEF CreateJs
<1>7. CASE CreateJsFails(t)
  BY <1>7 DEF CreateJsFails
<1>8. CASE EnterInstall(t)
  BY <1>8 DEF EnterInstall, EnterCallback, Has
<1>9. CASE InstallNext(t)
  BY <1>9 DEF InstallNext, FinishCallback, Deactivated, Counted
<1>10. CASE InstallFails(t)
  BY <1>10 DEF InstallFails, FinishCallback, Deactivated
<1>11. CASE Evaluate(t)
  BY <1>11 DEF Evaluate
<1>12. CASE EvaluateFails(t)
  BY <1>12 DEF EvaluateFails
<1> QED
  BY <1>1, <1>2, <1>3, <1>4, <1>5, <1>6, <1>7, <1>8, <1>9, <1>10, <1>11, <1>12 DEF Create

LEMMA ContextOnlyInCallbackCalls ==
  ASSUME ContextInv, NEW t \in Tasks, Calls(t)
  PROVE  ContextOnlyInCallback'
<1> USE DEF ContextInv, Stages, Unallocated, NoJs, ContextOnlyInCallback, InCallback,
        TypeOK, ForeignCode, control, platform, script, screen, Goto, At
<1>1. CASE Detach(t)
  BY <1>1 DEF MayCall, Unhook, Detach
<1>2. CASE Destroy(t)
  BY <1>2 DEF MayCall, Unhook, Destroy
<1>3. CASE RunFrame(t)
  BY <1>3 DEF MayCall, RunFrame
<1>4. ASSUME NEW d \in Displays, Attach(t, d) PROVE ContextOnlyInCallback'
  BY <1>4 DEF MayCall, Attach, Attachable
<1> QED
  BY <1>1, <1>2, <1>3, <1>4 DEF Calls

LEMMA ContextOnlyInCallbackFrame ==
  ASSUME ContextInv, NEW t \in Tasks, Frame(t)
  PROVE  ContextOnlyInCallback'
<1> USE DEF ContextInv, Stages, Unallocated, NoJs, ContextOnlyInCallback, InCallback,
        TypeOK, ForeignCode, control, platform, script, screen, Goto, At
<1>1. CASE EnterBeforeFrame(t)
  BY <1>1 DEF EnterBeforeFrame, EnterCallback, Has
<1>2. CASE BeforeNext(t)
  BY <1>2 DEF BeforeNext, FinishCallback, Deactivated
<1>3. CASE BeforeFails(t)
  BY <1>3 DEF BeforeFails, FinishCallback, Deactivated, Finished
<1>4. CASE CallFrame(t)
  BY <1>4 DEF CallFrame
<1>5. CASE FrameFails(t)
  BY <1>5 DEF FrameFails, Finished
<1>6. CASE TickAndRender(t)
  BY <1>6 DEF TickAndRender
<1>7. CASE FinishFrame(t)
  BY <1>7 DEF FinishFrame, Finished
<1> QED
  BY <1>1, <1>2, <1>3, <1>4, <1>5, <1>6, <1>7 DEF Frame

LEMMA ContextOnlyInCallbackTakeDown ==
  ASSUME ContextInv, NEW t \in Tasks, TakeDown(t)
  PROVE  ContextOnlyInCallback'
<1> USE DEF ContextInv, Stages, Unallocated, NoJs, ContextOnlyInCallback, InCallback,
        TypeOK, ForeignCode, control, platform, script, screen, Goto, At
<1>1. CASE EnterDestroy(t)
  BY <1>1 DEF EnterDestroy, EnterCallback, Has
<1>2. CASE DestroyNext(t)
  BY <1>2 DEF DestroyNext, FinishCallback, Deactivated
<1>3. CASE FreeJs(t)
  BY <1>3 DEF FreeJs
<1>4. CASE DeinitPpa(t)
  BY <1>4 DEF DeinitPpa
<1>5. CASE FreeCore(t)
  BY <1>5 DEF FreeCore
<1>6. CASE Release(t)
  BY <1>6 DEF Release
<1> QED
  BY <1>1, <1>2, <1>3, <1>4, <1>5, <1>6 DEF TakeDown

LEMMA ContextOnlyInCallbackDisplays ==
  ASSUME ContextInv, NEW d \in Displays, CreateDisplay(d) \/ DeleteDisplay(d)
  PROVE  ContextOnlyInCallback'
  BY DEF ContextInv, Stages, Unallocated, NoJs, ContextOnlyInCallback, InCallback, TypeOK,
       ForeignCode, control, platform, script, screen, Goto, At, CreateDisplay,
       DeleteDisplay

LEMMA ContextOnlyInCallbackStep ==
  ASSUME ContextInv, [Next]_vars
  PROVE  ContextOnlyInCallback'
<1>1. CASE UNCHANGED vars
  BY <1>1 DEF ContextInv, Stages, Unallocated, NoJs, ContextOnlyInCallback, InCallback,
       TypeOK, ForeignCode, control, platform, script, screen, Goto, At, vars
<1>2. CASE Next
  BY <1>2, ContextOnlyInCallbackClaim, ContextOnlyInCallbackCreate,
       ContextOnlyInCallbackCalls, ContextOnlyInCallbackFrame,
       ContextOnlyInCallbackTakeDown, ContextOnlyInCallbackDisplays
     DEF Next
<1> QED
  BY <1>1, <1>2

------------------------------------------------------------------------------
(* The displays.                                                           *)

Drawing == \A t \in Tasks : drawing[t] # None => pc[t] = "render"
HeldInv == TypeOK /\ Stages /\ Drawing /\ DisplaysHeld

LEMMA DrawingInit == Init => Drawing
  BY DEF Init, Drawing

LEMMA DrawingStep ==
  ASSUME HeldInv, [Next]_vars
  PROVE  Drawing'
<1> USE DEF HeldInv, Drawing, Stages, Unallocated, TypeOK, Goto, At, control, platform,
        script, screen
<1>1. CASE UNCHANGED vars
  BY <1>1 DEF vars
<1>2. ASSUME NEW t \in Tasks, Claim(t) PROVE Drawing'
  BY <1>2 DEF Claim
<1>3. ASSUME NEW t \in Tasks, Create(t) PROVE Drawing'
  BY <1>3 DEF Create, Alloc, AllocFails, CreateFails, CreateCore, InitPpa, CreateJs,
     CreateJsFails, EnterInstall, EnterCallback, Has, InstallNext, FinishCallback,
     Deactivated, Counted, InstallFails, Evaluate, EvaluateFails
<1>4. ASSUME NEW t \in Tasks, Calls(t) PROVE Drawing'
  BY <1>4 DEF Calls, MayCall, ForeignCode, Detach, Destroy, Unhook, RunFrame, Attach
<1>5. ASSUME NEW t \in Tasks, Frame(t) PROVE Drawing'
  <2>1. CASE EnterBeforeFrame(t)
    BY <2>1 DEF EnterBeforeFrame, EnterCallback, Has
  <2>2. CASE BeforeNext(t)
    BY <2>2 DEF BeforeNext, FinishCallback, Deactivated
  <2>3. CASE BeforeFails(t)
    BY <2>3 DEF BeforeFails, FinishCallback, Deactivated, Finished
  <2>4. CASE CallFrame(t)
    BY <2>4 DEF CallFrame
  <2>5. CASE FrameFails(t)
    BY <2>5 DEF FrameFails, Finished
  <2>6. CASE TickAndRender(t)
    BY <2>6 DEF TickAndRender
  <2>7. CASE FinishFrame(t)
    BY <2>7 DEF FinishFrame, Finished
  <2> QED
    BY <1>5, <2>1, <2>2, <2>3, <2>4, <2>5, <2>6, <2>7 DEF Frame
<1>6. ASSUME NEW t \in Tasks, TakeDown(t) PROVE Drawing'
  BY <1>6 DEF TakeDown, EnterDestroy, EnterCallback, Has, DestroyNext, FinishCallback,
     Deactivated, FreeJs, DeinitPpa, FreeCore, Release
<1>7. ASSUME NEW d \in Displays, CreateDisplay(d) \/ DeleteDisplay(d) PROVE Drawing'
  BY <1>7 DEF CreateDisplay, DeleteDisplay
<1> QED
  BY <1>1, <1>2, <1>3, <1>4, <1>5, <1>6, <1>7 DEF Next

LEMMA DisplaysHeldInit == Init => DisplaysHeld
  BY DEF HeldInv, Stages, Unallocated, Drawing, DisplaysHeld, TypeOK, ForeignCode,
       control, platform, script, screen, Goto, At, Init

LEMMA DisplaysHeldClaim ==
  ASSUME HeldInv, NEW t \in Tasks, Claim(t)
  PROVE  DisplaysHeld'
  BY DEF HeldInv, Stages, Unallocated, Drawing, DisplaysHeld, TypeOK, ForeignCode,
       control, platform, script, screen, Goto, At, Claim

LEMMA DisplaysHeldCreate ==
  ASSUME HeldInv, NEW t \in Tasks, Create(t)
  PROVE  DisplaysHeld'
<1> USE DEF HeldInv, Stages, Unallocated, Drawing, DisplaysHeld, TypeOK, ForeignCode,
        control, platform, script, screen, Goto, At
<1>1. CASE Alloc(t)
  BY <1>1 DEF Alloc
<1>2. CASE AllocFails(t)
  BY <1>2 DEF AllocFails
<1>3. CASE CreateFails(t)
  BY <1>3 DEF CreateFails
<1>4. CASE CreateCore(t)
  BY <1>4 DEF CreateCore
<1>5. CASE InitPpa(t)
  BY <1>5 DEF InitPpa
<1>6. CASE CreateJs(t)
  BY <1>6 DEF CreateJs
<1>7. CASE CreateJsFails(t)
  BY <1>7 DEF CreateJsFails
<1>8. CASE EnterInstall(t)
  BY <1>8 DEF EnterInstall, EnterCallback, Has
<1>9. CASE InstallNext(t)
  BY <1>9 DEF InstallNext, FinishCallback, Deactivated, Counted
<1>10. CASE InstallFails(t)
  BY <1>10 DEF InstallFails, FinishCallback, Deactivated
<1>11. CASE Evaluate(t)
  BY <1>11 DEF Evaluate
<1>12. CASE EvaluateFails(t)
  BY <1>12 DEF EvaluateFails
<1> QED
  BY <1>1, <1>2, <1>3, <1>4, <1>5, <1>6, <1>7, <1>8, <1>9, <1>10, <1>11, <1>12 DEF Create

LEMMA UnhookKeepsDisplays ==
  ASSUME TypeOK, DisplaysHeld, NEW t \in Tasks, drawing[t] = None, Unhook(t)
  PROVE  DisplaysHeld'
<1> USE DEF TypeOK, DisplaysHeld, Unhook
<1>1. \A u \in Tasks : drawing'[u] # None => held'[u] = drawing'[u]
  OBVIOUS
<1>2. ASSUME NEW d \in Displays, NEW u \in Tasks, held'[u] = d
      PROVE  u # t /\ held[u] = d /\ attached[d] /\ d # held[t] /\ attached'[d]
  <2>1. u # t /\ held[u] = d
    BY <1>2
  <2>2. attached[d] /\ DisplayOwner[d] = u
    BY <2>1
  <2>3. d # held[t]
    BY <2>1, <2>2
  <2> QED
    BY <2>1, <2>2, <2>3
<1>3. ASSUME NEW d \in Displays, attached'[d]
      PROVE  /\ attached[d] /\ alive'[d]
             /\ \E u \in Tasks : held'[u] = d
  <2>1. attached[d] /\ d # held[t]
    BY <1>3
  <2>2. PICK u \in Tasks : held[u] = d
    BY <2>1
  <2> QED
    BY <2>1, <2>2
<1>4. ASSUME NEW d \in Displays, NEW u \in Tasks, held'[u] = d
      PROVE  DisplayOwner[d] = u
  BY <1>2, <1>4
<1> QED
  BY <1>1, <1>2, <1>3, <1>4

LEMMA DisplaysHeldCalls ==
  ASSUME HeldInv, NEW t \in Tasks, Calls(t)
  PROVE  DisplaysHeld'
<1> USE DEF HeldInv, Stages, Unallocated, Drawing, DisplaysHeld, TypeOK, ForeignCode,
        control, platform, script, screen, Goto, At
<1>1. CASE Detach(t)
  <2>1. drawing[t] = None
    BY <1>1 DEF MayCall, Detach
  <2> QED
    BY <1>1, <2>1, UnhookKeepsDisplays DEF Detach
<1>2. CASE Destroy(t)
  <2>1. drawing[t] = None
    BY <1>2 DEF MayCall, Destroy
  <2> QED
    BY <1>2, <2>1, UnhookKeepsDisplays DEF Destroy
<1>3. CASE RunFrame(t)
  BY <1>3 DEF MayCall, RunFrame
<1>4. ASSUME NEW d \in Displays, Attach(t, d) PROVE DisplaysHeld'
  BY <1>4 DEF MayCall, Attach, Attachable
<1> QED
  BY <1>1, <1>2, <1>3, <1>4 DEF Calls

LEMMA DisplaysHeldFrame ==
  ASSUME HeldInv, NEW t \in Tasks, Frame(t)
  PROVE  DisplaysHeld'
<1> USE DEF HeldInv, Stages, Unallocated, Drawing, DisplaysHeld, TypeOK, ForeignCode,
        control, platform, script, screen, Goto, At
<1>1. CASE EnterBeforeFrame(t)
  BY <1>1 DEF EnterBeforeFrame, EnterCallback, Has
<1>2. CASE BeforeNext(t)
  BY <1>2 DEF BeforeNext, FinishCallback, Deactivated
<1>3. CASE BeforeFails(t)
  BY <1>3 DEF BeforeFails, FinishCallback, Deactivated, Finished
<1>4. CASE CallFrame(t)
  BY <1>4 DEF CallFrame
<1>5. CASE FrameFails(t)
  BY <1>5 DEF FrameFails, Finished
<1>6. CASE TickAndRender(t)
  BY <1>6 DEF TickAndRender
<1>7. CASE FinishFrame(t)
  BY <1>7 DEF FinishFrame, Finished
<1> QED
  BY <1>1, <1>2, <1>3, <1>4, <1>5, <1>6, <1>7 DEF Frame

LEMMA DisplaysHeldTakeDown ==
  ASSUME HeldInv, NEW t \in Tasks, TakeDown(t)
  PROVE  DisplaysHeld'
<1> USE DEF HeldInv, Stages, Unallocated, Drawing, DisplaysHeld, TypeOK, ForeignCode,
        control, platform, script, screen, Goto, At
<1>1. CASE EnterDestroy(t)
  BY <1>1 DEF EnterDestroy, EnterCallback, Has
<1>2. CASE DestroyNext(t)
  BY <1>2 DEF DestroyNext, FinishCallback, Deactivated
<1>3. CASE FreeJs(t)
  BY <1>3 DEF FreeJs
<1>4. CASE DeinitPpa(t)
  BY <1>4 DEF DeinitPpa
<1>5. CASE FreeCore(t)
  BY <1>5 DEF FreeCore
<1>6. CASE Release(t)
  BY <1>6 DEF Release
<1> QED
  BY <1>1, <1>2, <1>3, <1>4, <1>5, <1>6 DEF TakeDown

LEMMA DisplaysHeldDisplays ==
  ASSUME HeldInv, NEW d \in Displays, CreateDisplay(d) \/ DeleteDisplay(d)
  PROVE  DisplaysHeld'
  BY DEF HeldInv, Stages, Unallocated, Drawing, DisplaysHeld, TypeOK, ForeignCode,
       control, platform, script, screen, Goto, At, CreateDisplay, DeleteDisplay

LEMMA DisplaysHeldStep ==
  ASSUME HeldInv, [Next]_vars
  PROVE  DisplaysHeld'
<1>1. CASE UNCHANGED vars
  BY <1>1 DEF HeldInv, Stages, Unallocated, Drawing, DisplaysHeld, TypeOK, ForeignCode,
       control, platform, script, screen, Goto, At, vars
<1>2. CASE Next
  BY <1>2, DisplaysHeldClaim, DisplaysHeldCreate, DisplaysHeldCalls, DisplaysHeldFrame,
       DisplaysHeldTakeDown, DisplaysHeldDisplays
     DEF Next
<1> QED
  BY <1>1, <1>2

------------------------------------------------------------------------------
(* The extensions that are alive at each point are the first Depth(t).     *)

WithJs == Points \ (NoJs \cup {"free_js"})
Depth(t) ==
  CASE pc[t] \in {"install", "installing", "destroying"} -> next[t] - 1
    [] pc[t] = "take_down" -> next[t]
    [] pc[t] \in {"idle", "before", "in_before", "frame", "render"} -> installed[t]
    [] OTHER -> 0
Nesting ==
  \A t \in Tasks :
    /\ Depth(t) \in 0 .. ExtensionCount
    /\ \A i \in Extensions : extension[t][i] = "installed" <=> i <= Depth(t)
    /\ pc[t] \in {"install", "installing"} => installed[t] = next[t] - 1
    /\ pc[t] \in InCallback => next[t] \in Extensions
    /\ pc[t] \in WithJs => ctx[t]
NestInv == TypeOK /\ Stages /\ Nesting

LEMMA NestingInit == Init => Nesting
  BY DEF NestInv, Stages, Unallocated, NoJs, WithJs, Depth, Nesting, InCallback, TypeOK,
       Points, Extensions, ForeignCode, control, platform, script, screen, Goto, At, Init

LEMMA NestingClaim ==
  ASSUME NestInv, NEW t \in Tasks, Claim(t)
  PROVE  Nesting'
  BY DEF NestInv, Stages, Unallocated, NoJs, WithJs, Depth, Nesting, InCallback, TypeOK,
       Points, Extensions, ForeignCode, control, platform, script, screen, Goto, At, Claim

LEMMA NestingCreate ==
  ASSUME NestInv, NEW t \in Tasks, Create(t)
  PROVE  Nesting'
<1> USE DEF NestInv, Stages, Unallocated, NoJs, WithJs, Depth, Nesting, InCallback,
        TypeOK, Points, Extensions, ForeignCode, control, platform, script, screen, Goto,
        At
<1>1. CASE Alloc(t)
  BY <1>1 DEF Alloc
<1>2. CASE AllocFails(t)
  BY <1>2 DEF AllocFails
<1>3. CASE CreateFails(t)
  BY <1>3 DEF CreateFails
<1>4. CASE CreateCore(t)
  BY <1>4 DEF CreateCore
<1>5. CASE InitPpa(t)
  BY <1>5 DEF InitPpa
<1>6. CASE CreateJs(t)
  BY <1>6 DEF CreateJs
<1>7. CASE CreateJsFails(t)
  BY <1>7 DEF CreateJsFails
<1>8. CASE EnterInstall(t)
  BY <1>8 DEF EnterInstall, EnterCallback, Has
<1>9. CASE InstallNext(t)
  BY <1>9 DEF InstallNext, FinishCallback, Deactivated, Counted
<1>10. CASE InstallFails(t)
  BY <1>10 DEF InstallFails, FinishCallback, Deactivated
<1>11. CASE Evaluate(t)
  BY <1>11 DEF Evaluate
<1>12. CASE EvaluateFails(t)
  BY <1>12 DEF EvaluateFails
<1> QED
  BY <1>1, <1>2, <1>3, <1>4, <1>5, <1>6, <1>7, <1>8, <1>9, <1>10, <1>11, <1>12 DEF Create

LEMMA NestingCalls ==
  ASSUME NestInv, NEW t \in Tasks, Calls(t)
  PROVE  Nesting'
<1> USE DEF NestInv, Stages, Unallocated, NoJs, WithJs, Depth, Nesting, InCallback,
        TypeOK, Points, Extensions, ForeignCode, control, platform, script, screen, Goto,
        At
<1>1. CASE Detach(t)
  BY <1>1 DEF MayCall, Unhook, Detach
<1>2. CASE Destroy(t)
  BY <1>2 DEF MayCall, Unhook, Destroy
<1>3. CASE RunFrame(t)
  BY <1>3 DEF MayCall, RunFrame
<1>4. ASSUME NEW d \in Displays, Attach(t, d) PROVE Nesting'
  BY <1>4 DEF MayCall, Attach, Attachable
<1> QED
  BY <1>1, <1>2, <1>3, <1>4 DEF Calls

LEMMA NestingFrame ==
  ASSUME NestInv, NEW t \in Tasks, Frame(t)
  PROVE  Nesting'
<1> USE DEF NestInv, Stages, Unallocated, NoJs, WithJs, Depth, Nesting, InCallback,
        TypeOK, Points, Extensions, ForeignCode, control, platform, script, screen, Goto,
        At
<1>1. CASE EnterBeforeFrame(t)
  BY <1>1 DEF EnterBeforeFrame, EnterCallback, Has
<1>2. CASE BeforeNext(t)
  BY <1>2 DEF BeforeNext, FinishCallback, Deactivated
<1>3. CASE BeforeFails(t)
  BY <1>3 DEF BeforeFails, FinishCallback, Deactivated, Finished
<1>4. CASE CallFrame(t)
  BY <1>4 DEF CallFrame
<1>5. CASE FrameFails(t)
  BY <1>5 DEF FrameFails, Finished
<1>6. CASE TickAndRender(t)
  BY <1>6 DEF TickAndRender
<1>7. CASE FinishFrame(t)
  BY <1>7 DEF FinishFrame, Finished
<1> QED
  BY <1>1, <1>2, <1>3, <1>4, <1>5, <1>6, <1>7 DEF Frame

LEMMA NestingTakeDown ==
  ASSUME NestInv, NEW t \in Tasks, TakeDown(t)
  PROVE  Nesting'
<1> USE DEF NestInv, Stages, Unallocated, NoJs, WithJs, Depth, Nesting, InCallback,
        TypeOK, Points, Extensions, ForeignCode, control, platform, script, screen, Goto,
        At
<1>1. CASE EnterDestroy(t)
  BY <1>1 DEF EnterDestroy, EnterCallback, Has
<1>2. CASE DestroyNext(t)
  BY <1>2 DEF DestroyNext, FinishCallback, Deactivated
<1>3. CASE FreeJs(t)
  BY <1>3 DEF FreeJs
<1>4. CASE DeinitPpa(t)
  BY <1>4 DEF DeinitPpa
<1>5. CASE FreeCore(t)
  BY <1>5 DEF FreeCore
<1>6. CASE Release(t)
  BY <1>6 DEF Release
<1> QED
  BY <1>1, <1>2, <1>3, <1>4, <1>5, <1>6 DEF TakeDown

LEMMA NestingDisplays ==
  ASSUME NestInv, NEW d \in Displays, CreateDisplay(d) \/ DeleteDisplay(d)
  PROVE  Nesting'
  BY DEF NestInv, Stages, Unallocated, NoJs, WithJs, Depth, Nesting, InCallback, TypeOK,
       Points, Extensions, ForeignCode, control, platform, script, screen, Goto, At,
       CreateDisplay, DeleteDisplay

LEMMA NestingStep ==
  ASSUME NestInv, [Next]_vars
  PROVE  Nesting'
<1>1. CASE UNCHANGED vars
  BY <1>1 DEF NestInv, Stages, Unallocated, NoJs, WithJs, Depth, Nesting, InCallback,
       TypeOK, Points, Extensions, ForeignCode, control, platform, script, screen, Goto,
       At, vars
<1>2. CASE Next
  BY <1>2, NestingClaim, NestingCreate, NestingCalls, NestingFrame, NestingTakeDown,
       NestingDisplays
     DEF Next
<1> QED
  BY <1>1, <1>2

------------------------------------------------------------------------------
(* Calls advance.                                                          *)

LEMMA LoopIsCounted ==
  ASSUME NEW point \in Points, NEW index \in 0 .. ExtensionCount + 1
  PROVE  LoopLeft(point, index) \in Nat
<1>1. ExtensionCount + 1 - index \in Nat /\ index \in Nat
  OBVIOUS
<1> DEFINE left == ExtensionCount + 1 - index
<1>2. 2 * left + 1 \in Nat /\ 2 * left \in Nat /\ 2 * index + 1 \in Nat /\ 2 * index \in Nat
  BY <1>1
<1> QED
  BY <1>2 DEF LoopLeft

(* A lower stage is nearer; within the loops, as they count.               *)
LEMMA LowerStage ==
  ASSUME NEW from \in Points, NEW to \in Points, NEW start \in 0 .. ExtensionCount + 1,
         NEW index \in 0 .. ExtensionCount + 1, StagesLeft(to) < StagesLeft(from)
  PROVE  Nearer(from, start, to, index)
<1>1. StagesLeft(from) \in Nat /\ StagesLeft(to) \in Nat
  BY DEF StagesLeft, Points
<1>2. LoopLeft(from, start) \in Nat /\ LoopLeft(to, index) \in Nat
  BY LoopIsCounted
<1> QED
  BY <1>1, <1>2 DEF Nearer

LEMMA LoopSteps ==
  ASSUME NEW k \in 1 .. ExtensionCount
  PROVE  /\ Nearer("install", k, "installing", k) /\ Nearer("installing", k, "install", k + 1)
         /\ Nearer("install", k, "install", k + 1)
         /\ Nearer("before", k, "in_before", k) /\ Nearer("in_before", k, "before", k + 1)
         /\ Nearer("before", k, "before", k + 1)
         /\ Nearer("take_down", k, "destroying", k) /\ Nearer("destroying", k, "take_down", k - 1)
         /\ Nearer("take_down", k, "take_down", k - 1)
<1>1. ASSUME NEW from \in Points, NEW to \in Points, NEW start \in 0 .. ExtensionCount + 1,
             NEW index \in 0 .. ExtensionCount + 1, StagesLeft(to) = StagesLeft(from),
             StagesLeft(to) \in Nat, LoopLeft(to, index) < LoopLeft(from, start)
      PROVE  Nearer(from, start, to, index)
  BY <1>1, LoopIsCounted DEF Nearer
<1>2. /\ StagesLeft("install") = 6 /\ StagesLeft("installing") = 6
      /\ StagesLeft("before") = 6 /\ StagesLeft("in_before") = 6
      /\ StagesLeft("take_down") = 5 /\ StagesLeft("destroying") = 5
  BY DEF StagesLeft
<1>3. \A n \in 0 .. ExtensionCount + 1 :
        /\ LoopLeft("install", n) = 2 * (ExtensionCount + 1 - n) + 1
        /\ LoopLeft("installing", n) = 2 * (ExtensionCount + 1 - n)
        /\ LoopLeft("before", n) = 2 * (ExtensionCount + 1 - n) + 1
        /\ LoopLeft("in_before", n) = 2 * (ExtensionCount + 1 - n)
        /\ LoopLeft("take_down", n) = 2 * n + 1 /\ LoopLeft("destroying", n) = 2 * n
  BY DEF LoopLeft
<1>4. /\ k \in 0 .. ExtensionCount + 1 /\ k + 1 \in 0 .. ExtensionCount + 1
      /\ k - 1 \in 0 .. ExtensionCount + 1
      /\ {"install", "installing", "before", "in_before", "take_down", "destroying"} \subseteq Points
  BY DEF Points
<1>5. /\ LoopLeft("installing", k) < LoopLeft("install", k)
      /\ LoopLeft("install", k + 1) < LoopLeft("installing", k)
      /\ LoopLeft("install", k + 1) < LoopLeft("install", k)
  BY <1>3, <1>4
<1>6. /\ LoopLeft("in_before", k) < LoopLeft("before", k)
      /\ LoopLeft("before", k + 1) < LoopLeft("in_before", k)
      /\ LoopLeft("before", k + 1) < LoopLeft("before", k)
  BY <1>3, <1>4
<1>7. /\ LoopLeft("destroying", k) < LoopLeft("take_down", k)
      /\ LoopLeft("take_down", k - 1) < LoopLeft("destroying", k)
      /\ LoopLeft("take_down", k - 1) < LoopLeft("take_down", k)
  BY <1>3, <1>4
<1>8. /\ Nearer("install", k, "installing", k) /\ Nearer("installing", k, "install", k + 1)
      /\ Nearer("install", k, "install", k + 1)
  BY <1>1, <1>2, <1>4, <1>5
<1>9. /\ Nearer("before", k, "in_before", k) /\ Nearer("in_before", k, "before", k + 1)
      /\ Nearer("before", k, "before", k + 1)
  BY <1>1, <1>2, <1>4, <1>6
<1>10. /\ Nearer("take_down", k, "destroying", k) /\ Nearer("destroying", k, "take_down", k - 1)
       /\ Nearer("take_down", k, "take_down", k - 1)
  BY <1>1, <1>2, <1>4, <1>7
<1> QED
  BY <1>8, <1>9, <1>10

(* A step moves its own task only.                                         *)
LEMMA OneMoves ==
  ASSUME NEW t \in Tasks, \A u \in Tasks : u # t => UNCHANGED <<pc[u], next[u]>>,
         Nearer(pc[t], next[t], pc'[t], next'[t])
  PROVE  \A u \in Tasks : Advances(u)
  BY DEF Advances

LEMMA AdvanceClaim ==
  ASSUME StagesInv, NEW t \in Tasks, Claim(t)
  PROVE  \A u \in Tasks : Advances(u)
  BY DEF Claim, Goto, Advances, StagesInv, TypeOK

LEMMA AdvanceCreate ==
  ASSUME StagesInv, NEW t \in Tasks, Create(t)
  PROVE  \A u \in Tasks : Advances(u)
<1>1. /\ pc \in [Tasks -> Points] /\ next \in [Tasks -> 0 .. ExtensionCount + 1]
      /\ installed \in [Tasks -> 0 .. ExtensionCount]
  BY DEF StagesInv, TypeOK
<1>2. CASE Alloc(t)
  <2>1. pc[t] = "alloc" /\ pc'[t] = "core" /\ next' \in [Tasks -> 0 .. ExtensionCount + 1]
        /\ \A u \in Tasks : u # t => UNCHANGED <<pc[u], next[u]>>
    BY <1>1, <1>2 DEF Alloc, Goto, At
  <2>2. pc[t] \in Points /\ pc'[t] \in Points /\ StagesLeft(pc'[t]) < StagesLeft(pc[t])
    BY <2>1 DEF StagesLeft, Points
  <2> QED
    BY <1>1, <2>1, <2>2, LowerStage, OneMoves
<1>3. CASE AllocFails(t)
  <2>1. pc[t] = "alloc" /\ pc'[t] = "release" /\ next' \in [Tasks -> 0 .. ExtensionCount + 1]
        /\ \A u \in Tasks : u # t => UNCHANGED <<pc[u], next[u]>>
    BY <1>1, <1>3 DEF AllocFails, Goto, At
  <2>2. pc[t] \in Points /\ pc'[t] \in Points /\ StagesLeft(pc'[t]) < StagesLeft(pc[t])
    BY <2>1 DEF StagesLeft, Points
  <2> QED
    BY <1>1, <2>1, <2>2, LowerStage, OneMoves
<1>4. CASE CreateFails(t)
  <2>1. pc[t] = "core" /\ pc'[t] = "ppa_off" /\ next' \in [Tasks -> 0 .. ExtensionCount + 1]
        /\ \A u \in Tasks : u # t => UNCHANGED <<pc[u], next[u]>>
    BY <1>1, <1>4 DEF CreateFails, Goto, At
  <2>2. pc[t] \in Points /\ pc'[t] \in Points /\ StagesLeft(pc'[t]) < StagesLeft(pc[t])
    BY <2>1 DEF StagesLeft, Points
  <2> QED
    BY <1>1, <2>1, <2>2, LowerStage, OneMoves
<1>5. CASE CreateCore(t)
  <2>1. pc[t] = "core" /\ pc'[t] = "ppa_on" /\ next' \in [Tasks -> 0 .. ExtensionCount + 1]
        /\ \A u \in Tasks : u # t => UNCHANGED <<pc[u], next[u]>>
    BY <1>1, <1>5 DEF CreateCore, Goto, At
  <2>2. pc[t] \in Points /\ pc'[t] \in Points /\ StagesLeft(pc'[t]) < StagesLeft(pc[t])
    BY <2>1 DEF StagesLeft, Points
  <2> QED
    BY <1>1, <2>1, <2>2, LowerStage, OneMoves
<1>6. CASE InitPpa(t)
  <2>1. pc[t] = "ppa_on" /\ pc'[t] = "js" /\ next' \in [Tasks -> 0 .. ExtensionCount + 1]
        /\ \A u \in Tasks : u # t => UNCHANGED <<pc[u], next[u]>>
    BY <1>1, <1>6 DEF InitPpa, Goto, At
  <2>2. pc[t] \in Points /\ pc'[t] \in Points /\ StagesLeft(pc'[t]) < StagesLeft(pc[t])
    BY <2>1 DEF StagesLeft, Points
  <2> QED
    BY <1>1, <2>1, <2>2, LowerStage, OneMoves
<1>7. CASE CreateJs(t)
  <2>1. pc[t] = "js" /\ pc'[t] = "install" /\ next' \in [Tasks -> 0 .. ExtensionCount + 1]
        /\ \A u \in Tasks : u # t => UNCHANGED <<pc[u], next[u]>>
    BY <1>1, <1>7 DEF CreateJs, Goto, At
  <2>2. pc[t] \in Points /\ pc'[t] \in Points /\ StagesLeft(pc'[t]) < StagesLeft(pc[t])
    BY <2>1 DEF StagesLeft, Points
  <2> QED
    BY <1>1, <2>1, <2>2, LowerStage, OneMoves
<1>8. CASE CreateJsFails(t)
  <2>1. pc[t] = "js" /\ pc'[t] = "free_js" /\ next' \in [Tasks -> 0 .. ExtensionCount + 1]
        /\ \A u \in Tasks : u # t => UNCHANGED <<pc[u], next[u]>>
    BY <1>1, <1>8 DEF CreateJsFails, Goto, At
  <2>2. pc[t] \in Points /\ pc'[t] \in Points /\ StagesLeft(pc'[t]) < StagesLeft(pc[t])
    BY <2>1 DEF StagesLeft, Points
  <2> QED
    BY <1>1, <2>1, <2>2, LowerStage, OneMoves
<1>9. CASE EnterInstall(t)
  <2>1. /\ pc[t] = "install" /\ pc'[t] = "installing"
        /\ next[t] \in 1 .. ExtensionCount /\ next'[t] = next[t]
        /\ \A u \in Tasks : u # t => UNCHANGED <<pc[u], next[u]>>
    BY <1>1, <1>9 DEF EnterInstall, EnterCallback, Has, Goto, At, Extensions
  <2> QED
    BY <2>1, LoopSteps, OneMoves
<1>10. CASE InstallNext(t)
  <2>1. /\ pc[t] \in {"install", "installing"} /\ pc'[t] = "install"
        /\ next[t] \in 1 .. ExtensionCount /\ next'[t] = next[t] + 1
        /\ \A u \in Tasks : u # t => UNCHANGED <<pc[u], next[u]>>
    BY <1>1, <1>10 DEF InstallNext, Goto, At, Extensions
  <2> QED
    BY <2>1, LoopSteps, OneMoves
<1>11. CASE InstallFails(t)
  <2>1. pc[t] = "installing" /\ pc'[t] = "take_down" /\ next' \in [Tasks -> 0 .. ExtensionCount + 1]
        /\ \A u \in Tasks : u # t => UNCHANGED <<pc[u], next[u]>>
    BY <1>1, <1>11 DEF InstallFails, Goto, At
  <2>2. pc[t] \in Points /\ pc'[t] \in Points /\ StagesLeft(pc'[t]) < StagesLeft(pc[t])
    BY <2>1 DEF StagesLeft, Points
  <2> QED
    BY <1>1, <2>1, <2>2, LowerStage, OneMoves
<1>12. CASE Evaluate(t)
  <2>1. pc[t] = "install" /\ pc'[t] = "idle" /\ next' \in [Tasks -> 0 .. ExtensionCount + 1]
        /\ \A u \in Tasks : u # t => UNCHANGED <<pc[u], next[u]>>
    BY <1>1, <1>12 DEF Evaluate, Goto, At
  <2>2. pc[t] \in Points /\ pc'[t] \in Points /\ StagesLeft(pc'[t]) < StagesLeft(pc[t])
    BY <2>1 DEF StagesLeft, Points
  <2> QED
    BY <1>1, <2>1, <2>2, LowerStage, OneMoves
<1>13. CASE EvaluateFails(t)
  <2>1. pc[t] = "install" /\ pc'[t] = "take_down" /\ next' \in [Tasks -> 0 .. ExtensionCount + 1]
        /\ \A u \in Tasks : u # t => UNCHANGED <<pc[u], next[u]>>
    BY <1>1, <1>13 DEF EvaluateFails, Goto, At
  <2>2. pc[t] \in Points /\ pc'[t] \in Points /\ StagesLeft(pc'[t]) < StagesLeft(pc[t])
    BY <2>1 DEF StagesLeft, Points
  <2> QED
    BY <1>1, <2>1, <2>2, LowerStage, OneMoves
<1> QED
  BY <1>2, <1>3, <1>4, <1>5, <1>6, <1>7, <1>8, <1>9, <1>10, <1>11, <1>12, <1>13 DEF Create

(* Foreign code makes no call from inside a call: busy stands in its way.  *)
LEMMA AdvanceCalls ==
  ASSUME StagesInv, NEW t \in Tasks, Calls(t)
  PROVE  \A u \in Tasks : Advances(u)
<1>1. pc[t] = "idle"
  BY DEF Calls, Detach, Destroy, RunFrame, Attach, MayCall, ForeignCode, StagesInv, Stages,
     Unallocated
<1>2. \A u \in Tasks : u # t => UNCHANGED <<pc[u], next[u]>>
  BY DEF Calls, Detach, Destroy, RunFrame, Attach, control, StagesInv, TypeOK
<1> QED
  BY <1>1, <1>2 DEF Advances

LEMMA AdvanceFrame ==
  ASSUME StagesInv, NEW t \in Tasks, Frame(t)
  PROVE  \A u \in Tasks : Advances(u)
<1>1. /\ pc \in [Tasks -> Points] /\ next \in [Tasks -> 0 .. ExtensionCount + 1]
      /\ installed \in [Tasks -> 0 .. ExtensionCount]
  BY DEF StagesInv, TypeOK
<1>2. CASE EnterBeforeFrame(t)
  <2>1. /\ pc[t] = "before" /\ pc'[t] = "in_before"
        /\ next[t] \in 1 .. ExtensionCount /\ next'[t] = next[t]
        /\ \A u \in Tasks : u # t => UNCHANGED <<pc[u], next[u]>>
    BY <1>1, <1>2 DEF EnterBeforeFrame, EnterCallback, Has, Goto, At, Extensions
  <2> QED
    BY <2>1, LoopSteps, OneMoves
<1>3. CASE BeforeNext(t)
  <2>1. /\ pc[t] \in {"before", "in_before"} /\ pc'[t] = "before"
        /\ next[t] \in 1 .. ExtensionCount /\ next'[t] = next[t] + 1
        /\ \A u \in Tasks : u # t => UNCHANGED <<pc[u], next[u]>>
    BY <1>1, <1>3 DEF BeforeNext, Goto, At, Extensions
  <2> QED
    BY <2>1, LoopSteps, OneMoves
<1>4. CASE BeforeFails(t)
  <2>1. pc[t] = "in_before" /\ pc'[t] = "idle" /\ next' \in [Tasks -> 0 .. ExtensionCount + 1]
        /\ \A u \in Tasks : u # t => UNCHANGED <<pc[u], next[u]>>
    BY <1>1, <1>4 DEF BeforeFails, Goto, At
  <2>2. pc[t] \in Points /\ pc'[t] \in Points /\ StagesLeft(pc'[t]) < StagesLeft(pc[t])
    BY <2>1 DEF StagesLeft, Points
  <2> QED
    BY <1>1, <2>1, <2>2, LowerStage, OneMoves
<1>5. CASE CallFrame(t)
  <2>1. pc[t] = "before" /\ pc'[t] = "frame" /\ next' \in [Tasks -> 0 .. ExtensionCount + 1]
        /\ \A u \in Tasks : u # t => UNCHANGED <<pc[u], next[u]>>
    BY <1>1, <1>5 DEF CallFrame, Goto, At
  <2>2. pc[t] \in Points /\ pc'[t] \in Points /\ StagesLeft(pc'[t]) < StagesLeft(pc[t])
    BY <2>1 DEF StagesLeft, Points
  <2> QED
    BY <1>1, <2>1, <2>2, LowerStage, OneMoves
<1>6. CASE FrameFails(t)
  <2>1. pc[t] = "frame" /\ pc'[t] = "idle" /\ next' \in [Tasks -> 0 .. ExtensionCount + 1]
        /\ \A u \in Tasks : u # t => UNCHANGED <<pc[u], next[u]>>
    BY <1>1, <1>6 DEF FrameFails, Goto, At
  <2>2. pc[t] \in Points /\ pc'[t] \in Points /\ StagesLeft(pc'[t]) < StagesLeft(pc[t])
    BY <2>1 DEF StagesLeft, Points
  <2> QED
    BY <1>1, <2>1, <2>2, LowerStage, OneMoves
<1>7. CASE TickAndRender(t)
  <2>1. pc[t] = "frame" /\ pc'[t] = "render" /\ next' \in [Tasks -> 0 .. ExtensionCount + 1]
        /\ \A u \in Tasks : u # t => UNCHANGED <<pc[u], next[u]>>
    BY <1>1, <1>7 DEF TickAndRender, Goto, At
  <2>2. pc[t] \in Points /\ pc'[t] \in Points /\ StagesLeft(pc'[t]) < StagesLeft(pc[t])
    BY <2>1 DEF StagesLeft, Points
  <2> QED
    BY <1>1, <2>1, <2>2, LowerStage, OneMoves
<1>8. CASE FinishFrame(t)
  <2>1. pc[t] = "render" /\ pc'[t] = "idle" /\ next' \in [Tasks -> 0 .. ExtensionCount + 1]
        /\ \A u \in Tasks : u # t => UNCHANGED <<pc[u], next[u]>>
    BY <1>1, <1>8 DEF FinishFrame, Goto, At
  <2>2. pc[t] \in Points /\ pc'[t] \in Points /\ StagesLeft(pc'[t]) < StagesLeft(pc[t])
    BY <2>1 DEF StagesLeft, Points
  <2> QED
    BY <1>1, <2>1, <2>2, LowerStage, OneMoves
<1> QED
  BY <1>2, <1>3, <1>4, <1>5, <1>6, <1>7, <1>8 DEF Frame

LEMMA AdvanceTakeDown ==
  ASSUME StagesInv, NEW t \in Tasks, TakeDown(t)
  PROVE  \A u \in Tasks : Advances(u)
<1>1. /\ pc \in [Tasks -> Points] /\ next \in [Tasks -> 0 .. ExtensionCount + 1]
      /\ installed \in [Tasks -> 0 .. ExtensionCount]
  BY DEF StagesInv, TypeOK
<1>2. CASE EnterDestroy(t)
  <2>1. /\ pc[t] = "take_down" /\ pc'[t] = "destroying"
        /\ next[t] \in 1 .. ExtensionCount /\ next'[t] = next[t]
        /\ \A u \in Tasks : u # t => UNCHANGED <<pc[u], next[u]>>
    BY <1>1, <1>2 DEF EnterDestroy, EnterCallback, Has, Goto, At, Extensions
  <2> QED
    BY <2>1, LoopSteps, OneMoves
<1>3. CASE DestroyNext(t)
  <2>1. /\ pc[t] \in {"take_down", "destroying"} /\ pc'[t] = "take_down"
        /\ next[t] \in 1 .. ExtensionCount /\ next'[t] = next[t] - 1
        /\ \A u \in Tasks : u # t => UNCHANGED <<pc[u], next[u]>>
    BY <1>1, <1>3 DEF DestroyNext, Goto, At, Extensions
  <2> QED
    BY <2>1, LoopSteps, OneMoves
<1>4. CASE FreeJs(t)
  <2>1. /\ pc[t] \in {"take_down", "free_js"} /\ pc'[t] = "ppa_off"
        /\ next' \in [Tasks -> 0 .. ExtensionCount + 1]
        /\ \A u \in Tasks : u # t => UNCHANGED <<pc[u], next[u]>>
    BY <1>1, <1>4 DEF FreeJs, Goto, At
  <2>2. pc[t] \in Points /\ pc'[t] \in Points /\ StagesLeft(pc'[t]) < StagesLeft(pc[t])
    BY <2>1 DEF StagesLeft, Points
  <2> QED
    BY <1>1, <2>1, <2>2, LowerStage, OneMoves
<1>5. CASE DeinitPpa(t)
  <2>1. pc[t] = "ppa_off" /\ pc'[t] = "free" /\ next' \in [Tasks -> 0 .. ExtensionCount + 1]
        /\ \A u \in Tasks : u # t => UNCHANGED <<pc[u], next[u]>>
    BY <1>1, <1>5 DEF DeinitPpa, Goto, At
  <2>2. pc[t] \in Points /\ pc'[t] \in Points /\ StagesLeft(pc'[t]) < StagesLeft(pc[t])
    BY <2>1 DEF StagesLeft, Points
  <2> QED
    BY <1>1, <2>1, <2>2, LowerStage, OneMoves
<1>6. CASE FreeCore(t)
  <2>1. pc[t] = "free" /\ pc'[t] = "release" /\ next' \in [Tasks -> 0 .. ExtensionCount + 1]
        /\ \A u \in Tasks : u # t => UNCHANGED <<pc[u], next[u]>>
    BY <1>1, <1>6 DEF FreeCore, Goto, At
  <2>2. pc[t] \in Points /\ pc'[t] \in Points /\ StagesLeft(pc'[t]) < StagesLeft(pc[t])
    BY <2>1 DEF StagesLeft, Points
  <2> QED
    BY <1>1, <2>1, <2>2, LowerStage, OneMoves
<1>7. CASE Release(t)
  <2>1. pc[t] = "release" /\ pc'[t] = "absent" /\ next' \in [Tasks -> 0 .. ExtensionCount + 1]
        /\ \A u \in Tasks : u # t => UNCHANGED <<pc[u], next[u]>>
    BY <1>1, <1>7 DEF Release, Goto, At
  <2>2. pc[t] \in Points /\ pc'[t] \in Points /\ StagesLeft(pc'[t]) < StagesLeft(pc[t])
    BY <2>1 DEF StagesLeft, Points
  <2> QED
    BY <1>1, <2>1, <2>2, LowerStage, OneMoves
<1> QED
  BY <1>2, <1>3, <1>4, <1>5, <1>6, <1>7 DEF TakeDown

LEMMA AdvanceDisplays ==
  ASSUME StagesInv, NEW d \in Displays, CreateDisplay(d) \/ DeleteDisplay(d)
  PROVE  \A u \in Tasks : Advances(u)
  BY DEF CreateDisplay, DeleteDisplay, control, Advances

------------------------------------------------------------------------------
(* Theorems.                                                               *)

LifecycleInv ==
  /\ TypeOK /\ Exclusive /\ Stages /\ PpaOwned /\ ContextOnlyInCallback
  /\ Drawing /\ DisplaysHeld /\ Nesting

LEMMA LifecycleInductive == Spec => []LifecycleInv
<1>1. Init => LifecycleInv
  BY TypeOKInit, ExclusiveInit, StagesInit, PpaOwnedInit, ContextOnlyInCallbackInit,
     DrawingInit, DisplaysHeldInit, NestingInit DEF LifecycleInv
<1>2. LifecycleInv /\ [Next]_vars => LifecycleInv'
  BY TypeOKStep, ExclusiveStep, StagesStep, PpaOwnedStep, ContextOnlyInCallbackStep,
     DrawingStep, DisplaysHeldStep, NestingStep
     DEF LifecycleInv, ExclusiveInv, StagesInv, OwnedInv, ContextInv, HeldInv, NestInv
<1> QED
  BY <1>1, <1>2, PTL DEF Spec

(* The state keeps its types, for any number of tasks and extensions.      *)
THEOREM TypeCorrect == Spec => []TypeOK
<1>1. LifecycleInv => TypeOK
  BY DEF LifecycleInv
<1> QED
  BY LifecycleInductive, <1>1, PTL

(* pocketjs_create admits one runtime of the program at a time, and core,  *)
(* script and PPA clients are gone before its claim is released.           *)
THEOREM RuntimeExclusive == Spec => []OneRuntime
<1>1. LifecycleInv => OneRuntime
  BY DEF LifecycleInv, OneRuntime, Exclusive, Stages, PpaOwned, Unallocated, NoJs, Absent
<1> QED
  BY LifecycleInductive, <1>1, PTL

(* Extensions are installed and destroyed as a stack, on every failure     *)
(* path of js_runtime_create too, and pocketjs_extension_get_js_context    *)
(* answers one extension at most, the one whose callback runs.             *)
THEOREM ExtensionsStack == Spec => []ExtensionsNest
<1>1. LifecycleInv => ExtensionsNest
  <2> SUFFICES ASSUME LifecycleInv, NEW t \in Tasks
               PROVE  /\ \E k \in 0 .. ExtensionCount : Living(t) = 1 .. k
                      /\ pc[t] \in {"absent", "release", "free", "ppa_off"} => Living(t) = {}
                      /\ Living(t) # {} => ctx[t]
    BY DEF ExtensionsNest, FirstInstalled, LifecycleInv
  <2> USE DEF LifecycleInv, Nesting, TypeOK
  <2>1. Living(t) = 1 .. Depth(t)
    BY DEF Living, Extensions
  <2>2. Depth(t) # 0 => pc[t] \in WithJs
    BY DEF Depth, WithJs, NoJs, Unallocated, Points
  <2>3. pc[t] \in {"absent", "release", "free", "ppa_off"} => Depth(t) = 0
    BY DEF Depth
  <2> QED
    BY <2>1, <2>2, <2>3
<1> QED
  BY LifecycleInductive, <1>1, PTL

(* No display is deleted, detached or taken over while a runtime holds it  *)
(* or draws to it.                                                         *)
THEOREM DisplayOwned == Spec => []DisplaysHeld
<1>1. LifecycleInv => DisplaysHeld
  BY DEF LifecycleInv
<1> QED
  BY LifecycleInductive, <1>1, PTL

(* CallsAdvance: every step of create, run_frame and destroy brings the    *)
(* call nearer its end, whatever the callbacks and the other tasks do;     *)
(* with the fairness that the owner runs on, calls end.                    *)
THEOREM CallsOnlyAdvance == Spec => CallsAdvance
<1>1. LifecycleInv /\ [Next]_vars => [\A t \in Tasks : Advances(t)]_vars
  <2> SUFFICES ASSUME LifecycleInv, Next PROVE \A t \in Tasks : Advances(t)
    OBVIOUS
  <2>1. StagesInv
    BY DEF LifecycleInv, StagesInv
  <2> QED
    BY <2>1, AdvanceClaim, AdvanceCreate, AdvanceCalls, AdvanceFrame, AdvanceTakeDown,
       AdvanceDisplays DEF Next
<1> QED
  BY LifecycleInductive, <1>1, PTL DEF Spec, CallsAdvance
=============================================================================
