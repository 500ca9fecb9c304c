--------------------------- MODULE DisplayFrameProofs ---------------------------
(* Proofs about DisplayFrame, for any strips, scenes and displays.         *)
EXTENDS DisplayFrame, WellFoundedInduction, TLAPS

------------------------------------------------------------------------------
(* The invariant.                                                          *)

(* Where strips are rendered and submitted; where the Core has a           *)
(* transaction on the back target.                                         *)
Strip == {"before", "render", "after", "submit", "final"}
Drawing == Strip \cup {"commit"}

(* The locals of a frame.                                                  *)
Locals ==
  /\ ~attached => pc = "idle"
  /\ pc = "idle" => todo = {} /\ buffer = 0
  /\ buffer < setup.buffer_count
  /\ pc \in {"front", "probe"} => ~present
  /\ pc \notin {"idle", "closing"} => result = "OK"
  /\ pc \in {"before", "render", "after"} => todo # {}
  /\ pc \in {"final", "commit"} => todo = {}
  /\ Mode # "FULL" => pc # "full" /\ (pc = "submit" => todo # {})
  /\ Mode = "FULL" => /\ todo = {}
                      /\ pc \in {"idle", "full", "submit", "final", "closing"}
                      /\ pc # "idle" /\ result = "OK" => present

(* The Core's transaction.                                                 *)
OpenOn(target) == open # NoFrame /\ open.target = target /\ open.picture = picture
Opened ==
  /\ pc \notin Drawing \cup {"probe"} => open = NoFrame
  /\ pc = "probe" => OpenOn(frame.front) /\ (open.damaged <=> history[frame.front] # picture)
  /\ pc \in Drawing => IF Mode = "FULL" THEN open = NoFrame ELSE OpenOn(frame.back)

(* A success that the driver knows of has been closed once.                *)
Closed == pc = "idle" /\ HasBegin /\ result = "OK" => closing \in {{"end"}, {"abort"}}

LocalsInv == TypeOK /\ Locals /\ Opened /\ Closed

(* The target of every frame that shows nothing new before the next swap.  *)
Back == IF setup.driver = "flip" THEN 1 - shown ELSE 0

(* A map left over waits for a frame with the same target: where it goes   *)
(* no history is trusted, so that frame draws, and waits for it first.     *)
LeftOver ==
  /\ map.target = Back /\ history[map.target] = Unknown
  /\ Mode = "DIRECT" => next_buffer = 0
  /\ pc \in Drawing /\ Mode # "FULL" => todo = Strips
  /\ pc # "final"

(* A map of this frame's own.                                              *)
Ours ==
  /\ pc \in Strip \cup {"closing"}
  /\ pc \in Strip => map.target = frame.back
  /\ pc \in Strip /\ Mode = "PARTIAL" /\ setup.buffer_count = 2 => map.buffer # buffer
  /\ Mode = "FULL" => pc = "final"
  /\ pc = "closing" => Mode = "PARTIAL" /\ map.target = Back /\ history[map.target] = Unknown

Handed ==
  /\ (flush_inflight <=> map # NoMap)
  /\ pc \in {"before", "after", "final"} => map # NoMap
  /\ pc \in {"render", "after"} /\ map # NoMap => ~MustWaitFirst
  /\ pc = "submit" /\ Mode # "FULL" => map = NoMap
  /\ pc = "commit" => map = NoMap
  /\ pc = "closing" /\ result = "OK" /\ present => map = NoMap
  /\ pc \notin {"idle", "commit", "closing"} => frame.back = DriverFrame.back
  /\ map # NoMap => IF map.abandoned THEN LeftOver ELSE Ours

(* No callback closes a frame before it has returned from all others.      *)
Unclosed == pc # "idle" => closing = {}

ContractInv == LocalsInv /\ Handed /\ Unclosed

(* Displays with a history of its own for each framebuffer they have, that *)
(* do not come back from FULL, which keeps no history.                     *)
OneHistoryEach ==
  /\ \A s \in Setups : ~(s.mode = "DIRECT" /\ s.buffer_count = 2 /\ s.driver = "push")
  /\ \A change \in ModeChanges : change[1] = "FULL" => change[2] = "FULL"

(* Which target is which.  A map left over is no trouble to a success that *)
(* drew nothing: it goes where that frame would have drawn.                *)
Placed ==
  /\ ~Flips => shown = 0 /\ history[1] = Unknown /\ frame = NoTargets
  /\ setup.driver # "flip" => frame.front = 0
  /\ setup.driver = "flip" /\ pc # "idle" /\ result = "OK" =>
       frame.front = shown /\ frame.back = 1 - shown
  /\ pc \in {"idle", "closing"} /\ result = "OK" /\ map # NoMap => setup.driver = "flip"

(* What buffers and framebuffers hold.                                     *)
HistoriesDrawn ==
  Mode # "FULL" =>
    \A t \in Targets :
      history[t] # Unknown /\ ~(t = frame.back /\ pc \in Drawing) =>
        surface[Physical(t)] = history[t]
StripRendered == pc \in {"after", "submit"} => \A k \in Area : buffers[buffer][k] = picture[k]
MapUntouched ==
  map # NoMap /\ ~map.abandoned /\ map.status = "reading" /\ pc \in Strip =>
    \A k \in map.strips : buffers[map.buffer][k] = picture[k]
StripsDrawn ==
  pc \in Strip /\ (Mode = "FULL" => pc = "final") =>
    \A k \in Strips \ todo :
      \/ surface[Physical(frame.back)][k] = picture[k]
      \/ map # NoMap /\ ~map.abandoned /\ k \in map.strips /\ map.status # "OK"
ShowsAt(target) == surface[Physical(target)] = picture
SceneShown ==
  /\ pc = "commit" => ShowsAt(frame.back)
  /\ pc = "closing" /\ result = "OK" => ShowsAt(IF present THEN frame.back ELSE frame.front)
  /\ pc = "idle" /\ result = "OK" /\ (setup.driver = "default" => closing = {"end"}) =>
       ShowsAt(shown)
Drawn == HistoriesDrawn /\ StripRendered /\ MapUntouched /\ StripsDrawn /\ SceneShown

HistoryInv == ContractInv /\ Placed /\ Drawn

(* Where a flush has failed, the one framebuffer has no history until a    *)
(* frame that draws succeeds.                                              *)
Recovering ==
  ~Flips /\ flush_failed /\ Mode # "FULL" =>
    IF pc = "closing" /\ result = "OK" THEN present ELSE history[0] = Unknown
------------------------------------------------------------------------------
(* Types and locals.                                                       *)

LEMMA SetupTyped ==
  ASSUME setup \in Setups
  PROVE  /\ Mode \in Modes /\ setup.mode = Mode
         /\ setup.buffer_count \in {1, 2} /\ setup.driver \in DriverKinds
BY DisplayAssumption DEF Mode

(* The strip drawn next is one of those left.                              *)
LEMMA CurrentStripIsLeft ==
  ASSUME todo \subseteq Strips, todo # {}
  PROVE  CurrentStrip \in todo
<1>1. todo \subseteq Nat
    BY DisplayAssumption
<1> DEFINE less == {pair \in Nat \X Nat : pair[1] < pair[2]}
<1>2. less = OpToRel(<, Nat)
    BY Zenon DEF OpToRel
<1>3. IsWellFoundedOn(less, Nat)
    BY <1>2, NatLessThanWellFounded, Zenon
<1>4. PICK k \in todo : \A j \in todo : <<j, k>> \notin less
    BY <1>1, <1>3, WFMin
<1>5. \A j \in todo : k <= j
    <2> SUFFICES ASSUME NEW j \in todo, ~(k <= j) PROVE FALSE
        OBVIOUS
    <2>1. j \in Nat /\ k \in Nat /\ j < k
        BY <1>1
    <2>2. <<j, k>> \in less
        BY <2>1
    <2> QED
        BY <2>2, <1>4
<1> QED
    BY <1>5 DEF CurrentStrip

LEMMA AreaIsStrips ==
  ASSUME todo \subseteq Strips, Mode = "FULL" \/ todo # {}
  PROVE  Area \subseteq Strips
BY CurrentStripIsLeft DEF Area

(* A scene is a picture.                                                   *)
LEMMA SceneIsImage ==
  ASSUME NEW scene \in Scenes
  PROVE  scene \in Images /\ \A k \in Strips : scene[k] \in Colors
<1>1. scene = [k \in Strips |-> scene[k]] /\ \A k \in Strips : scene[k] \in Colors
    BY DisplayAssumption DEF Colors
<1>2. [k \in Strips |-> scene[k]] \in [Strips -> Colors \cup {Blank}]
    BY <1>1
<1> QED
    BY <1>1, <1>2 DEF Images

LEMMA TypeInit == Init => TypeOK
<1> SUFFICES ASSUME Init PROVE TypeOK
    OBVIOUS
<1> USE DEF Init, Core!Init
<1>1. next_buffer \in 0 .. setup.buffer_count - 1
    BY SetupTyped
<1>2. /\ buffers \in [BufferIds -> Images] /\ surface \in [Targets -> Images]
      /\ history \in [Targets -> Scenes \cup {Unknown}]
    BY DEF Images
<1> QED
    BY <1>1, <1>2 DEF TypeOK, Targets, BufferIds, NoTargets

(* Configuration keeps the types.                                          *)
LEMMA TypeConfigure == LocalsInv /\ Configure => TypeOK'
<1> SUFFICES ASSUME LocalsInv, Configure PROVE TypeOK'
    OBVIOUS
<1> USE DEF LocalsInv, core, outside, configuration
<1>1. CASE Attach BY <1>1 DEF Attach, TypeOK
<1>2. CASE Detach BY <1>2 DEF Detach, TypeOK
<1>3. CASE Recreate BY <1>3, SetupTyped DEF Recreate, TypeOK, Images
<1>4. CASE \E new \in Setups : SetBuffers(new)
    BY <1>4, DisplayAssumption DEF SetBuffers, TypeOK, Images
<1> QED
    BY <1>1, <1>2, <1>3, <1>4 DEF Configure

(* So do the start of a frame and its plans.                               *)
LEMMA TypeBegin == LocalsInv /\ Begin => TypeOK'
<1> SUFFICES ASSUME LocalsInv, Begin PROVE TypeOK'
    OBVIOUS
<1> USE DEF LocalsInv, core, outside, configuration, StartFrame, Core!Change
<1>1. CASE BeginFrame
    <2>1. frame' \in [front : Targets, back : Targets]
        <3>1. next_buffer \in Targets /\ shown \in Targets
            BY SetupTyped DEF TypeOK, Targets
        <3>2. DefaultFrame \in [front : Targets, back : Targets]
            BY <3>1 DEF DefaultFrame, Targets
        <3>3. [front |-> shown, back |-> 1 - shown] \in [front : Targets, back : Targets]
            BY <3>1 DEF Targets
        <3> QED
            BY <1>1, <3>2, <3>3 DEF BeginFrame, DriverFrame, NoTargets, Targets
    <2>2. buffer' \in BufferIds
        BY <1>1, SetupTyped DEF BeginFrame, TypeOK, BufferIds
    <2> QED
        BY <1>1, <2>1, <2>2 DEF BeginFrame, TypeOK
<1>2. CASE BeginFrameFails
    BY <1>2 DEF BeginFrameFails, NoLocals, NoTargets, Targets, BufferIds, TypeOK
<1> QED
    BY <1>1, <1>2 DEF Begin

(* What the Core's actions do to its types.                                *)
LEMMA CoreTyped ==
  ASSUME picture \in Scenes, open \in Core!Transactions \cup {NoFrame},
         history \in [Targets -> Scenes \cup {Unknown}], NEW t \in Targets,
         \/ Core!Begin(t) \/ Core!Commit \/ Core!Fail \/ Core!Cancel \/ Core!Forget(t)
         \/ UNCHANGED core
  PROVE  /\ picture' = picture
         /\ open' \in Core!Transactions \cup {NoFrame}
         /\ history' \in [Targets -> Scenes \cup {Unknown}]
<1>1. CASE Core!Begin(t)
    BY <1>1 DEF Core!Begin, Core!Transactions
<1>2. CASE Core!Commit
    BY <1>2 DEF Core!Commit
<1>3. CASE Core!Fail
    BY <1>3 DEF Core!Fail
<1>4. CASE Core!Cancel
    BY <1>4 DEF Core!Cancel
<1>5. CASE Core!Forget(t)
    BY <1>5 DEF Core!Forget
<1>6. CASE UNCHANGED core
    BY <1>6 DEF core
<1> QED
    BY <1>1, <1>2, <1>3, <1>4, <1>5, <1>6

LEMMA TypeDamage == LocalsInv /\ Damage => TypeOK'
<1> SUFFICES ASSUME LocalsInv, Damage PROVE TypeOK'
    OBVIOUS
<1> USE DEF LocalsInv, outside, configuration, Frozen, Rest, Goto, Fail
<1>1. frame.front \in Targets /\ frame.back \in Targets
    BY DEF TypeOK
<1>2. /\ picture' = picture
      /\ open' \in Core!Transactions \cup {NoFrame}
      /\ history' \in [Targets -> Scenes \cup {Unknown}]
    BY <1>1, CoreTyped DEF TypeOK, Damage, PrepareFront, PrepareFails, CommitFront, CancelFront,
       PrepareBack, PlanRefused, CommitBack
<1>3. /\ UNCHANGED <<setup, attached, next_buffer, buffers, flush_inflight, map, surface, shown,
                     frame, closing, flush_failed>>
      /\ pc' \in {"closing", "probe", "back", "commit", "before", "render"}
      /\ todo' = todo \/ todo' \subseteq Strips
      /\ present' \in {present, TRUE}
      /\ result' \in {result, "FAIL"}
    BY DEF Damage, PrepareFront, PrepareFails, CommitFront, CancelFront,
       PrepareBack, PlanRefused, CommitBack, NextStrip
<1>4. buffer' \in BufferIds
    BY <1>1, SetupTyped DEF Damage, PrepareFront, PrepareFails, CommitFront, CancelFront,
       PrepareBack, PlanRefused, CommitBack, TypeOK, BufferIds, Targets
<1>5. /\ todo' \subseteq Strips /\ present' \in BOOLEAN /\ result' \in {"NONE", "OK", "FAIL"}
      /\ pc' \in {"idle", "front", "probe", "back", "before", "render", "full", "after", "submit",
                 "final", "commit", "closing"}
    BY <1>3 DEF TypeOK
<1>6. /\ setup' \in Setups /\ attached' \in BOOLEAN /\ flush_inflight' \in BOOLEAN
      /\ next_buffer' \in 0 .. setup'.buffer_count - 1
      /\ buffers' \in [BufferIds -> Images] /\ map' \in FlightMaps \cup {NoMap}
      /\ surface' \in [Targets -> Images] /\ shown' \in Targets
      /\ frame' \in [front : Targets, back : Targets]
      /\ closing' \subseteq {"end", "abort"} /\ flush_failed' \in BOOLEAN
    BY <1>3 DEF TypeOK
<1>7. picture' \in Scenes
    BY <1>2 DEF TypeOK
<1> HIDE DEF outside, configuration, Frozen, Rest, Goto, Fail
<1> QED
    BY <1>2, <1>4, <1>5, <1>6, <1>7 DEF TypeOK

(* The transaction's steps.                                                *)
LEMMA RenderedTyped ==
  ASSUME TypeOK
  PROVE  Rendered \in Images
<1>1. \A k \in Strips : picture[k] \in Colors \cup {Blank}
    BY SceneIsImage DEF TypeOK
<1>2. \A k \in Strips : buffers[buffer][k] \in Colors \cup {Blank}
    BY DEF TypeOK, Images
<1> QED
    BY <1>1, <1>2 DEF Rendered, Images

LEMMA TypeTransaction == LocalsInv /\ Transaction => TypeOK'
<1> SUFFICES ASSUME LocalsInv, Transaction PROVE TypeOK'
    OBVIOUS
<1> USE DEF LocalsInv, outside, configuration, Frozen, Rest, Goto, Fail, AbandonFrame
<1>1. frame.front \in Targets /\ frame.back \in Targets
    BY DEF TypeOK
<1>2. /\ picture' = picture
      /\ open' \in Core!Transactions \cup {NoFrame}
      /\ history' \in [Targets -> Scenes \cup {Unknown}]
    BY <1>1, CoreTyped DEF TypeOK, Transaction, Render, RenderFails, WaitForFlush, LastWait,
       Submit, SubmitFails, core
<1>3. CASE Render
    BY <1>2, <1>3, RenderedTyped DEF Render, TypeOK, BufferIds
<1>4. CASE RenderFails
    BY <1>2, <1>4 DEF RenderFails, TypeOK
<1>5. CASE WaitForFlush
    <2>1. pc' \in {"closing", "render", "submit"} /\ result' \in {result, "FAIL"}
        BY <1>5 DEF WaitForFlush, Waited
    <2>2. flush_failed' \in BOOLEAN
        BY <1>5, Zenon DEF WaitForFlush, FlushEnds, TypeOK
    <2>3. /\ flush_inflight' = FALSE /\ map' = NoMap
          /\ UNCHANGED <<setup, attached, next_buffer, buffers, surface, shown, frame, todo,
                         buffer, present, closing>>
        BY <1>5 DEF WaitForFlush, FlushEnds
    <2> QED
        BY <1>2, <2>1, <2>2, <2>3 DEF TypeOK
<1>6. CASE LastWait
    <2>1. next_buffer' \in 0 .. setup.buffer_count - 1
        BY <1>6, SetupTyped DEF LastWait, NextBuffer, TypeOK, Locals, BufferIds
    <2> QED
        BY <1>2, <1>6, <2>1 DEF LastWait, FlushEnds, TypeOK
<1>7. CASE Submit
    <2>1. Area \subseteq Strips
        BY <1>7, AreaIsStrips DEF Submit, Locals, TypeOK
    <2>2. map' \in FlightMaps
        BY <1>1, <1>7, <2>1 DEF Submit, FlightMaps, MapStatuses, TypeOK
    <2>3. buffer' \in BufferIds
        BY <1>7, SetupTyped DEF Submit, TypeOK, BufferIds
    <2> QED
        BY <1>2, <1>7, <2>2, <2>3 DEF Submit, TypeOK, Remaining, NextStrip
<1>8. CASE SubmitFails
    BY <1>2, <1>8 DEF SubmitFails, TypeOK
<1> QED
    BY <1>3, <1>4, <1>5, <1>6, <1>7, <1>8 DEF Transaction

(* The close of a frame, and the driver.                                   *)
LEMMA ReturnedLocals ==
  ASSUME Returned
  PROVE  /\ pc = "closing" /\ pc' = "idle" /\ frame' = NoTargets /\ todo' = {} /\ buffer' = 0
         /\ present' = FALSE
         /\ UNCHANGED <<setup, attached, next_buffer, buffers, flush_inflight>>
         /\ map = NoMap => map' = NoMap
BY DEF Returned, Goto, NoLocals, configuration

LEMMA ReturnedMap ==
  ASSUME Returned, map \in FlightMaps
  PROVE  /\ map' \in FlightMaps
         /\ map' = [buffer |-> map.buffer, strips |-> map.strips, target |-> map.target,
                    status |-> map.status, abandoned |-> TRUE]
<1>1. map' = [map EXCEPT !.abandoned = TRUE]
    BY AbsentAssumption DEF Returned
<1>2. map' = [buffer |-> map.buffer, strips |-> map.strips, target |-> map.target,
              status |-> map.status, abandoned |-> TRUE]
    BY <1>1 DEF FlightMaps
<1>3. /\ map.buffer \in BufferIds /\ map.strips \in SUBSET Strips /\ map.target \in Targets
      /\ map.status \in MapStatuses
    BY DEF FlightMaps
<1> QED
    BY <1>2, <1>3 DEF FlightMaps

LEMMA TypeClose == LocalsInv /\ Close => TypeOK'
<1> SUFFICES ASSUME LocalsInv, Close PROVE TypeOK'
    OBVIOUS
<1> USE DEF LocalsInv, core
<1>1. frame.back \in Targets
    BY DEF TypeOK
<1>2. Returned
    BY DEF Close, Return, EndFrame, EndFrameFails, AbortFrame
<1>3. map' \in FlightMaps \cup {NoMap}
    <2>1. CASE map \in FlightMaps
        BY <1>2, <2>1, ReturnedMap
    <2>2. CASE map = NoMap
        BY <1>2, <2>2, ReturnedLocals
    <2> QED
        BY <2>1, <2>2 DEF TypeOK
<1>4. /\ frame' \in [front : Targets, back : Targets] /\ buffer' \in BufferIds
      /\ todo' = {} /\ present' = FALSE /\ pc' = "idle"
      /\ UNCHANGED <<setup, attached, next_buffer, buffers, flush_inflight>>
    BY <1>2, ReturnedLocals DEF NoTargets, Targets, BufferIds
<1>5. /\ shown' \in Targets /\ surface' \in [Targets -> Images]
      /\ result' \in {result, "FAIL"}
      /\ closing' \in {closing, {"end"}, {"abort"}, {"end", "abort"}}
    BY <1>1 DEF Close, Return, EndFrame, EndFrameFails, AbortFrame, TypeOK, Images
<1>6. flush_failed' \in BOOLEAN
    BY Zenon DEF Close, Return, EndFrame, EndFrameFails, AbortFrame, Recovered, TypeOK
<1>7. /\ picture' = picture
      /\ open' \in Core!Transactions \cup {NoFrame}
      /\ history' \in [Targets -> Scenes \cup {Unknown}]
    BY <1>1, CoreTyped DEF Close, Return, EndFrame, EndFrameFails, AbortFrame, TypeOK,
       ForgetCommitted
<1> QED
    BY <1>3, <1>4, <1>5, <1>6, <1>7 DEF TypeOK

LEMMA TypeReports == LocalsInv /\ Reports => TypeOK'
<1> SUFFICES ASSUME LocalsInv, NEW status \in MapStatuses \ {"reading"}, DriverReports(status)
             PROVE  TypeOK'
    BY DEF Reports
<1> USE DEF LocalsInv, core, configuration, DriverReports
<1>1. map \in FlightMaps
    BY DEF TypeOK
<1>2. Physical(map.target) \in Targets
    BY <1>1 DEF Physical, Flips, FlightMaps, Targets
<1>3. map' \in FlightMaps
    BY <1>1 DEF FlightMaps
<1>4. surface' \in [Targets -> Images]
    <2>1. \A k \in Strips : /\ surface[Physical(map.target)][k] \in Colors \cup {Blank}
                            /\ buffers[map.buffer][k] \in Colors \cup {Blank}
        BY <1>1, <1>2 DEF TypeOK, Images, FlightMaps
    <2> QED
        BY <1>2, <2>1 DEF TypeOK, Images
<1> QED
    BY <1>3, <1>4 DEF TypeOK

(* What is left to do, and which transaction is open, at each point.       *)
LEMMA LocalsConfigure == LocalsInv /\ Configure => (Locals /\ Opened /\ Closed)'
<1> SUFFICES ASSUME LocalsInv, Configure PROVE (Locals /\ Opened /\ Closed)'
    OBVIOUS
<1> USE DEF LocalsInv, core, outside, configuration, Locals, Opened, OpenOn, Closed, HasBegin, Mode
<1>1. CASE Attach BY <1>1 DEF Attach
<1>2. CASE Detach BY <1>2 DEF Detach
<1>3. CASE Recreate BY <1>3 DEF Recreate
<1>4. CASE \E new \in Setups : SetBuffers(new)
    <2>1. pc = "idle" /\ setup' \in Setups /\ setup'.driver = setup.driver
        BY <1>4 DEF SetBuffers
    <2>2. setup'.buffer_count \in {1, 2}
        BY <2>1, DisplayAssumption
    <2> QED
        BY <1>4, <2>1, <2>2 DEF SetBuffers, Drawing, Strip
<1> QED
    BY <1>1, <1>2, <1>3, <1>4 DEF Configure

LEMMA LocalsBegin == LocalsInv /\ Begin => (Locals /\ Opened /\ Closed)'
<1> SUFFICES ASSUME LocalsInv, Begin PROVE (Locals /\ Opened /\ Closed)'
    OBVIOUS
<1> USE DEF LocalsInv, core, outside, configuration, StartFrame, Core!Change, Mode
<1>1. /\ setup' = setup /\ attached /\ attached' = attached /\ pc = "idle" /\ open = NoFrame
      /\ open' = NoFrame
    BY DEF Begin, BeginFrame, BeginFrameFails, Opened, Drawing, Strip
<1>2. CASE BeginFrame
    <2>1. buffer' < setup.buffer_count
        BY <1>2, SetupTyped DEF BeginFrame, TypeOK
    <2>2. /\ pc' = IF Mode = "FULL" THEN "full" ELSE "front"
          /\ present' = (Mode = "FULL") /\ result' = "OK" /\ todo' = {}
        BY <1>2 DEF BeginFrame, Locals
    <2> QED
        BY <1>1, <2>1, <2>2 DEF Locals, Opened, Closed, Drawing, Strip
<1>3. CASE BeginFrameFails
    <2>1. 0 < setup.buffer_count
        BY SetupTyped DEF TypeOK
    <2> QED
        BY <1>1, <1>3, <2>1 DEF BeginFrameFails, NoLocals, Locals, Opened, Closed, Drawing, Strip
<1> QED
    BY <1>2, <1>3 DEF Begin

LEMMA LocalsDamage == LocalsInv /\ Damage => (Locals /\ Opened /\ Closed)'
<1> SUFFICES ASSUME LocalsInv, Damage PROVE (Locals /\ Opened /\ Closed)'
    OBVIOUS
<1> USE DEF LocalsInv, outside, configuration, Frozen, Rest, Goto, Fail, Mode, Locals, Opened,
            OpenOn, Closed, Drawing, Strip
<1>1. CASE PrepareFront
    BY <1>1, AbsentAssumption DEF PrepareFront, Core!Begin, Core!Transactions, TypeOK
<1>2. CASE PrepareFails
    BY <1>2 DEF PrepareFails, core
<1>3. CASE CommitFront
    BY <1>3 DEF CommitFront, Core!Commit, Core!Fail
<1>4. CASE CancelFront
    BY <1>4 DEF CancelFront, Core!Cancel
<1>5. CASE PrepareBack
    <2>1. \/ pc' = "commit" /\ todo' = {}
          \/ pc' \in {"before", "render"} /\ todo' # {}
        BY <1>5 DEF PrepareBack, NextStrip
    <2>2. buffer' < setup.buffer_count
        BY <1>5, SetupTyped DEF PrepareBack, TypeOK, Targets
    <2>3. open' # NoFrame
        <3>1. frame.back \in Targets /\ picture \in Scenes
            BY DEF TypeOK
        <3>2. open' \in Core!Transactions
            BY <1>5, <3>1 DEF PrepareBack, Core!Begin, Core!Transactions
        <3> QED
            BY <3>2, AbsentAssumption
    <2> QED
        BY <1>5, <2>1, <2>2, <2>3 DEF PrepareBack, Core!Begin
<1>6. CASE PlanRefused
    BY <1>6 DEF PlanRefused, Core!Forget
<1>7. CASE CommitBack
    BY <1>7 DEF CommitBack, Core!Commit, Core!Fail
<1> QED
    BY <1>1, <1>2, <1>3, <1>4, <1>5, <1>6, <1>7 DEF Damage

LEMMA LocalsTransaction == LocalsInv /\ Transaction => (Locals /\ Opened /\ Closed)'
<1> SUFFICES ASSUME LocalsInv, Transaction PROVE (Locals /\ Opened /\ Closed)'
    OBVIOUS
<1> USE DEF LocalsInv, outside, configuration, Frozen, Rest, Goto, Fail, AbandonFrame, Mode, Locals,
            Opened, OpenOn, Closed, Drawing, Strip
<1>1. CASE Render
    BY <1>1 DEF Render, core
<1>2. CASE RenderFails
    BY <1>2 DEF RenderFails, core, Core!Forget
<1>3. CASE WaitForFlush
    BY <1>3 DEF WaitForFlush, core, Core!Forget, FlushEnds, Waited
<1>4. CASE LastWait
    BY <1>4 DEF LastWait, core, Core!Forget, FlushEnds
<1>5. CASE Submit
    <2>1. buffer' < setup.buffer_count
        BY <1>5, SetupTyped DEF Submit, TypeOK, BufferIds
    <2> QED
        BY <1>5, <2>1 DEF Submit, core, NextStrip, Remaining
<1>6. CASE SubmitFails
    BY <1>6 DEF SubmitFails, core, Core!Forget
<1> QED
    BY <1>1, <1>2, <1>3, <1>4, <1>5, <1>6 DEF Transaction

LEMMA LocalsClose == LocalsInv /\ Close => (Locals /\ Opened /\ Closed)'
<1> SUFFICES ASSUME LocalsInv, Close PROVE (Locals /\ Opened /\ Closed)'
    OBVIOUS
<1> USE DEF LocalsInv, core
<1>1. Returned
    BY DEF Close, Return, EndFrame, EndFrameFails, AbortFrame
<1>2. 0 < setup.buffer_count
    BY SetupTyped DEF TypeOK
<1>3. open = NoFrame /\ open' = NoFrame
    BY <1>1, ReturnedLocals DEF Opened, Drawing, Strip, Close, Return, EndFrame, EndFrameFails,
       AbortFrame, ForgetCommitted, Core!Forget
<1>4. HasBegin /\ result' = "OK" => closing' \in {{"end"}, {"abort"}}
    BY DEF Close, Return, EndFrame, EndFrameFails, AbortFrame
<1> QED
    BY <1>1, <1>2, <1>3, <1>4, ReturnedLocals
       DEF Locals, Opened, Closed, Drawing, Strip, Mode, HasBegin

LEMMA LocalsReports == LocalsInv /\ Reports => (Locals /\ Opened /\ Closed)'
<1> SUFFICES ASSUME LocalsInv, NEW status \in MapStatuses \ {"reading"}, DriverReports(status)
             PROVE  (Locals /\ Opened /\ Closed)'
    BY DEF Reports
<1>1. UNCHANGED <<core, configuration, pc, frame, todo, buffer, present, result, closing>>
    BY DEF DriverReports
<1> QED
    BY <1>1 DEF LocalsInv, core, configuration, Locals, Opened, OpenOn, Closed, HasBegin, Mode

LEMMA LocalsStep == LocalsInv /\ [Next]_vars => LocalsInv'
<1> SUFFICES ASSUME LocalsInv, [Next]_vars PROVE LocalsInv'
    OBVIOUS
<1>1. CASE Configure BY <1>1, TypeConfigure, LocalsConfigure DEF LocalsInv
<1>2. CASE Begin BY <1>2, TypeBegin, LocalsBegin DEF LocalsInv
<1>3. CASE Damage BY <1>3, TypeDamage, LocalsDamage DEF LocalsInv
<1>4. CASE Transaction BY <1>4, TypeTransaction, LocalsTransaction DEF LocalsInv
<1>5. CASE Close BY <1>5, TypeClose, LocalsClose DEF LocalsInv
<1>6. CASE Reports BY <1>6, TypeReports, LocalsReports DEF LocalsInv
<1>7. CASE UNCHANGED vars
    <2> USE <1>7 DEF vars, core, configuration, outside, LocalsInv
    <2>1. TypeOK' BY DEF TypeOK
    <2>2. Locals' BY DEF Locals, Mode
    <2>3. (Opened /\ Closed)' BY DEF Opened, OpenOn, Closed, HasBegin, Mode
    <2> QED
        BY <2>1, <2>2, <2>3
<1> QED
    BY <1>1, <1>2, <1>3, <1>4, <1>5, <1>6, <1>7 DEF Next

LEMMA LocalsInit == Init => LocalsInv
<1> SUFFICES ASSUME Init PROVE LocalsInv
    OBVIOUS
<1>1. TypeOK
    BY TypeInit
<1>2. 0 < setup.buffer_count
    BY <1>1, SetupTyped DEF TypeOK
<1> QED
    BY <1>1, <1>2 DEF Init, Core!Init, LocalsInv, Locals, Opened, Closed, Drawing, Strip

LEMMA LocalsInvariant == Spec => []LocalsInv
BY LocalsInit, LocalsStep, PTL DEF Spec

(* TypeOK: types of the display's state, for any strips, scenes, displays. *)
THEOREM TypeCorrect == Spec => []TypeOK
<1>1. LocalsInv => TypeOK
    BY DEF LocalsInv
<1> QED
    BY <1>1, LocalsInvariant, PTL

(* NothingLeftOpen: every path through render_internal closes the Core's   *)
(* transaction, and a success closes the driver's frame exactly once.      *)
THEOREM EverythingClosed == Spec => []NothingLeftOpen
<1>1. LocalsInv => NothingLeftOpen
    BY DEF LocalsInv, Opened, Closed, NothingLeftOpen, Drawing, Strip
<1> QED
    BY <1>1, LocalsInvariant, PTL

------------------------------------------------------------------------------
(* What the driver holds.                                                  *)

(* What a report changes of the map.                                       *)
LEMMA ReportedMap ==
  ASSUME TypeOK, NEW status \in MapStatuses, DriverReports(status)
  PROVE  /\ map \in FlightMaps /\ map # NoMap /\ map' # NoMap
         /\ map' = [buffer |-> map.buffer, strips |-> map.strips, target |-> map.target,
                    status |-> status, abandoned |-> map.abandoned]
<1>1. map \in FlightMaps /\ map # NoMap /\ map' = [map EXCEPT !.status = status]
    BY DEF DriverReports, TypeOK
<1>2. map' = [buffer |-> map.buffer, strips |-> map.strips, target |-> map.target,
              status |-> status, abandoned |-> map.abandoned]
    BY <1>1 DEF FlightMaps
<1>3. /\ map.buffer \in BufferIds /\ map.strips \in SUBSET Strips /\ map.target \in Targets
      /\ map.abandoned \in BOOLEAN
    BY <1>1 DEF FlightMaps
<1>4. map' \in FlightMaps
    BY <1>2, <1>3 DEF FlightMaps
<1> QED
    BY <1>1, <1>2, <1>4, AbsentAssumption

(* Where every frame begins while no DIRECT frame has ended.               *)
LEMMA BeginsAtBack ==
  ASSUME Mode = "DIRECT" => next_buffer = 0
  PROVE  DriverFrame.back = Back
BY DEF DriverFrame, DefaultFrame, Back, NoTargets

LEMMA HandedInit == Init => Handed
BY DEF Init, Handed

LEMMA HandedConfigure == ContractInv /\ Configure => Handed'
<1> SUFFICES ASSUME ContractInv, Configure PROVE Handed'
    OBVIOUS
<1>1. /\ UNCHANGED <<flush_inflight, map, history, pc, todo, result, present, frame, buffer, shown>>
      /\ setup'.driver = setup.driver /\ pc = "idle"
    BY DEF Configure, Attach, Detach, Recreate, SetBuffers, core, outside, configuration,
       ContractInv, LocalsInv, Locals
<1>2. (Mode' = Mode /\ next_buffer' = next_buffer) \/ next_buffer' = 0
    BY DEF Configure, Attach, Detach, Recreate, SetBuffers, configuration, Mode
<1>3. map # NoMap => map.abandoned
    BY <1>1, Zenon DEF ContractInv, Handed, Ours, Strip
<1> QED
    BY <1>1, <1>2, <1>3 DEF ContractInv, Handed, LeftOver, Back, Drawing, Strip

LEMMA HandedBegin == ContractInv /\ Begin => Handed'
<1> SUFFICES ASSUME ContractInv, Begin PROVE Handed'
    OBVIOUS
<1>1. /\ UNCHANGED <<flush_inflight, map, history, setup, next_buffer, shown>> /\ pc = "idle"
      /\ \/ pc' \in {"front", "full"} /\ frame' = DriverFrame
         \/ pc' \in {"idle", "closing"} /\ result' = "FAIL"
    BY DEF Begin, BeginFrame, BeginFrameFails, StartFrame, Core!Change, outside, configuration
<1>2. map # NoMap => map.abandoned
    BY <1>1, Zenon DEF ContractInv, Handed, Ours, Strip
<1>3. DriverFrame' = DriverFrame /\ Back' = Back /\ Mode' = Mode
    BY <1>1 DEF DriverFrame, DefaultFrame, Back, Mode, HasBegin
<1> QED
    BY <1>1, <1>2, <1>3 DEF ContractInv, Handed, LeftOver, Drawing, Strip

(* Between the frame's begin and its first map, what the driver holds is   *)
(* left over, and goes where this frame draws.                             *)
LEMMA LeftOverAtBack ==
  ASSUME ContractInv, pc \in {"front", "probe", "back", "commit"}, map # NoMap
  PROVE  /\ map.abandoned /\ LeftOver /\ pc # "commit" /\ map.target = frame.back
         /\ map.target \in Targets
<1>1. map.abandoned
    BY Zenon DEF ContractInv, Handed, Ours, Strip
<1>2. LeftOver /\ pc # "commit" /\ frame.back = DriverFrame.back
    BY <1>1 DEF ContractInv, Handed
<1>3. map.target = frame.back
    BY <1>2, BeginsAtBack DEF LeftOver
<1> QED
    BY <1>1, <1>2, <1>3 DEF ContractInv, LocalsInv, TypeOK

LEMMA HandedDamage == ContractInv /\ Damage => Handed'
<1> SUFFICES ASSUME ContractInv, Damage PROVE Handed'
    OBVIOUS
<1>1. /\ UNCHANGED <<flush_inflight, map, setup, frame, next_buffer, shown>>
      /\ pc \in {"front", "probe", "back", "commit"} /\ (flush_inflight <=> map # NoMap)
      /\ Mode # "FULL" /\ (frame.back = DriverFrame.back \/ pc = "commit")
      /\ pc' \in {"probe", "back", "closing", "commit", "render", "before"}
      /\ pc = "commit" => pc' = "closing"
    BY DEF Damage, PrepareFront, PrepareFails, CommitFront, CancelFront, PrepareBack,
       PlanRefused, CommitBack, Rest, Frozen, outside, configuration, Goto, Fail, NextStrip,
       ContractInv, Handed, LocalsInv, Locals
<1>2. DriverFrame' = DriverFrame /\ Back' = Back /\ Mode' = Mode /\ MustWaitFirst' = MustWaitFirst
    BY <1>1 DEF DriverFrame, DefaultFrame, Back, Mode, HasBegin, MustWaitFirst
<1>3. pc' \in {"render", "before"} => pc' = NextStrip(flush_inflight)
    BY DEF Damage, PrepareFront, PrepareFails, CommitFront, CancelFront, PrepareBack,
       PlanRefused, CommitBack, Goto, Fail, NextStrip
<1>4. CASE map = NoMap
    BY <1>1, <1>2, <1>3, <1>4 DEF Handed, NextStrip
<1>5. CASE map # NoMap
    <2> USE <1>5
    <2>1. /\ map.abandoned /\ LeftOver /\ pc # "commit" /\ map.target = frame.back
          /\ map.target \in Targets /\ history \in [Targets -> Scenes \cup {Unknown}]
          /\ picture \in Scenes
        BY <1>1, LeftOverAtBack DEF ContractInv, LocalsInv, TypeOK
    <2>2. history'[map.target] = Unknown
        <3>1. CASE CommitFront
            <4>1. OpenOn(frame.front) /\ history[frame.front] = picture
                BY <3>1 DEF CommitFront, ContractInv, LocalsInv, Opened
            <4>2. frame.front # map.target
                BY <2>1, <4>1, DisplayAssumption DEF LeftOver
            <4> QED
                BY <2>1, <3>1, <4>1, <4>2 DEF CommitFront, Core!Commit, Core!Fail, OpenOn, LeftOver
        <3> QED
            BY <2>1, <3>1 DEF Damage, PrepareFront, PrepareFails, CancelFront, PrepareBack,
               PlanRefused, CommitBack, Goto, Fail, core, Core!Begin, Core!Cancel, Core!Forget,
               LeftOver
    <2>3. pc' \in Drawing => todo' = Strips /\ pc' # "commit"
        <3>1. CASE PrepareBack
            <4>1. Differing(frame.back) = Strips /\ Strips # {}
                BY <2>1, DisplayAssumption DEF Differing, LeftOver
            <4> QED
                BY <3>1, <4>1 DEF PrepareBack, NextStrip
        <3> QED
            BY <2>1, <3>1 DEF Damage, PrepareFront, PrepareFails, CommitFront, CancelFront,
               PlanRefused, CommitBack, Goto, Fail, Drawing, Strip
    <2>4. pc' = "closing" /\ result' = "OK" => ~present'
        BY <2>1 DEF Damage, PrepareFront, PrepareFails, CommitFront, CancelFront, PrepareBack,
           PlanRefused, CommitBack, Goto, Fail, NextStrip, ContractInv, LocalsInv, Locals
    <2>5. LeftOver'
        BY <1>1, <1>2, <2>1, <2>2, <2>3 DEF LeftOver
    <2>6. pc' \in {"commit", "render", "before"} => pc' \in Drawing
        BY DEF Drawing, Strip
    <2> QED
        BY <1>1, <1>2, <1>3, <2>1, <2>3, <2>4, <2>5, <2>6 DEF Handed, NextStrip
<1> QED
    BY <1>4, <1>5

(* The transaction's steps are taken with one target, and result OK.       *)
LEMMA Transacting ==
  ASSUME ContractInv, Transaction
  PROVE  /\ UNCHANGED <<setup, frame, present, shown, closing>> /\ result = "OK"
         /\ frame.back \in Targets /\ frame.back = DriverFrame.back
         /\ (map = NoMap \/ map \in FlightMaps)
         /\ history \in [Targets -> Scenes \cup {Unknown}]
         /\ pc \in {"render", "full", "before", "after", "submit", "final"}
         /\ (Mode # "FULL" => pc # "full")
         /\ Mode \in Modes /\ setup.buffer_count \in {1, 2}
BY SetupTyped DEF Transaction, Render, RenderFails, WaitForFlush, LastWait, Submit, SubmitFails,
   AbandonFrame, FlushEnds, Goto, Fail, Frozen, Rest, configuration, outside, ContractInv, LocalsInv,
   TypeOK, Locals, Handed

LEMMA HandedTransaction == ContractInv /\ Transaction => Handed'
<1> SUFFICES ASSUME ContractInv, Transaction PROVE Handed'
    OBVIOUS
<1>1. /\ UNCHANGED <<setup, frame, present, shown>> /\ result = "OK"
      /\ frame.back \in Targets /\ frame.back = DriverFrame.back
      /\ (map = NoMap \/ map \in FlightMaps)
      /\ history \in [Targets -> Scenes \cup {Unknown}]
      /\ pc \in {"render", "full", "before", "after", "submit", "final"}
      /\ (Mode # "FULL" => pc # "full")
      /\ Mode \in Modes /\ setup.buffer_count \in {1, 2}
      /\ Handed
    BY Transacting DEF ContractInv
<1>2. Back' = Back /\ Mode' = Mode /\ MustWaitFirst' = MustWaitFirst
    BY <1>1 DEF Back, Mode, MustWaitFirst
<1>3. next_buffer' = next_buffer => DriverFrame' = DriverFrame
    BY <1>1 DEF DriverFrame, DefaultFrame, Mode, HasBegin
<1>4. CASE Render
    <2>1. /\ UNCHANGED <<map, flush_inflight, todo, history, next_buffer, result, buffer>>
          /\ \/ pc = "render" /\ pc' = IF flush_inflight THEN "after" ELSE "submit"
             \/ pc = "full" /\ pc' = "submit"
        BY <1>4 DEF Render, Goto, outside, core
    <2> QED
        BY <1>1, <1>2, <1>3, <2>1 DEF Handed, LeftOver, Ours, Strip, Drawing
<1>5. CASE RenderFails \/ SubmitFails
    <2>1. /\ UNCHANGED <<map, flush_inflight, todo, next_buffer>>
          /\ pc' = "closing" /\ result' = "FAIL" /\ pc \in {"render", "full", "submit"}
          /\ Mode # "FULL" => history' = [history EXCEPT ![frame.back] = Unknown]
          /\ Mode = "FULL" => UNCHANGED history
        BY <1>5 DEF RenderFails, SubmitFails, AbandonFrame, Fail, Goto, Rest, outside, core,
           Core!Forget
    <2>2. ASSUME map # NoMap, map.abandoned PROVE LeftOver'
        <3>1. LeftOver
            BY <1>1, <2>2 DEF Handed
        <3>2. history'[map.target] = Unknown
            BY <1>1, <2>1, <2>2, <3>1 DEF LeftOver, FlightMaps
        <3> QED
            BY <1>2, <2>1, <3>1, <3>2 DEF LeftOver, Drawing, Strip
    <2>3. ASSUME map # NoMap, ~map.abandoned PROVE Ours'
        <3>1. Ours
            BY <2>3, <1>1 DEF Handed
        <3>2. pc = "render" /\ Mode = "PARTIAL" /\ map.target = frame.back
            BY <1>1, <2>1, <2>3, <3>1 DEF Handed, Ours, Strip, MustWaitFirst, Modes
        <3>3. frame.back = Back
            BY <1>1, <3>2, BeginsAtBack
        <3> QED
            BY <1>1, <1>2, <2>1, <3>2, <3>3 DEF Ours, Strip
    <2> QED
        BY <1>1, <2>1, <2>2, <2>3 DEF Handed
<1>6. CASE WaitForFlush \/ LastWait
    <2>1. map' = NoMap /\ flush_inflight' = FALSE
        BY <1>6 DEF WaitForFlush, LastWait, FlushEnds
    <2>2. /\ pc' \in {"closing", "render", "submit", "commit"}
          /\ pc' \in {"render", "submit"} => next_buffer' = next_buffer
        <3>1. CASE WaitForFlush
            BY <3>1 DEF WaitForFlush, AbandonFrame, Fail, Goto, Waited
        <3>2. CASE LastWait
            BY <3>2 DEF LastWait, AbandonFrame, Fail, Goto
        <3> QED
            BY <1>6, <3>1, <3>2
    <2> QED
        BY <1>1, <1>3, <2>1, <2>2 DEF Handed
<1>7. CASE Submit
    <2>1. /\ map' = [buffer |-> buffer, strips |-> Area, target |-> frame.back,
                     status |-> "reading", abandoned |-> FALSE]
          /\ flush_inflight' = TRUE /\ pc = "submit" /\ map = NoMap
          /\ next_buffer' = next_buffer
          /\ buffer' = IF Mode = "PARTIAL" THEN (buffer + 1) % setup.buffer_count ELSE buffer
          /\ pc' = IF todo' = {} THEN "final" ELSE NextStrip(TRUE)
          /\ todo' = todo \ Area
        BY <1>1, <1>7 DEF Submit, Remaining, Handed
    <2>2. Area \subseteq Strips
        BY <1>7, AreaIsStrips DEF Submit, ContractInv, LocalsInv, Locals, TypeOK
    <2>3. map' # NoMap
        <3>1. buffer \in BufferIds
            BY DEF ContractInv, LocalsInv, TypeOK
        <3>2. map' \in FlightMaps
            BY <1>1, <2>1, <2>2, <3>1 DEF FlightMaps, MapStatuses
        <3> QED
            BY <3>2, AbsentAssumption
    <2>4. pc' \in {"final", "before", "render"} /\ (pc' = "render" => ~MustWaitFirst)
        BY <2>1 DEF NextStrip
    <2>5. Mode = "FULL" => pc' = "final"
        BY <2>1 DEF ContractInv, LocalsInv, Locals
    <2>6. ~map'.abandoned /\ map'.target = frame.back
        BY <2>1
    <2>7. Mode = "PARTIAL" /\ setup.buffer_count = 2 => map'.buffer # buffer'
        BY <2>1 DEF BufferIds, ContractInv, LocalsInv, TypeOK
    <2>8. Ours'
        BY <1>1, <1>2, <2>4, <2>5, <2>6, <2>7 DEF Ours, Strip
    <2> QED
        BY <1>1, <1>2, <1>3, <2>1, <2>3, <2>4, <2>6, <2>8 DEF Handed
<1> QED
    BY <1>4, <1>5, <1>6, <1>7 DEF Transaction

LEMMA HandedClose == ContractInv /\ Close => Handed'
<1> SUFFICES ASSUME ContractInv, Close PROVE Handed'
    OBVIOUS
<1>1. Returned
    BY DEF Close, Return, EndFrame, EndFrameFails, AbortFrame
<1>2. /\ pc' = "idle" /\ pc = "closing" /\ UNCHANGED <<setup, flush_inflight, next_buffer>>
      /\ Handed /\ frame.back \in Targets /\ history \in [Targets -> Scenes \cup {Unknown}]
    BY <1>1, ReturnedLocals DEF ContractInv, LocalsInv, TypeOK
<1>3. \/ map = NoMap /\ map' = NoMap
      \/ /\ map \in FlightMaps /\ map # NoMap /\ map' # NoMap
         /\ map'.abandoned /\ map'.target = map.target
    BY <1>1, ReturnedLocals, ReturnedMap, AbsentAssumption DEF ContractInv, LocalsInv, TypeOK
<1>4. map # NoMap => UNCHANGED <<shown, history>>
    <2>1. map # NoMap => ~NeedsEnd
        BY <1>2 DEF NeedsEnd, Handed
    <2> QED
        BY <2>1 DEF Close, Return, EndFrame, EndFrameFails, AbortFrame, core
<1>5. ASSUME map # NoMap PROVE LeftOver'
    <2>1. map.target = Back /\ history[map.target] = Unknown /\ (Mode = "DIRECT" => next_buffer = 0)
        BY <1>2, <1>5 DEF Handed, LeftOver, Ours
    <2>2. Back' = Back /\ Mode' = Mode
        BY <1>2, <1>4, <1>5 DEF Back, Mode
    <2>3. map'.target = Back /\ history'[map'.target] = Unknown
        BY <1>3, <1>4, <1>5, <2>1
    <2> QED
        BY <1>2, <2>1, <2>2, <2>3 DEF LeftOver, Drawing, Strip
<1> QED
    BY <1>2, <1>3, <1>5 DEF Handed

LEMMA HandedReports == ContractInv /\ Reports => Handed'
<1> SUFFICES ASSUME ContractInv, NEW status \in MapStatuses \ {"reading"}, DriverReports(status)
             PROVE  Handed'
    BY DEF Reports
<1>1. /\ map # NoMap /\ map' # NoMap /\ map'.target = map.target
      /\ map'.abandoned = map.abandoned
      /\ map'.buffer = map.buffer
    BY ReportedMap DEF ContractInv, LocalsInv
<1>2. UNCHANGED <<history, flush_inflight, frame, pc, result, setup, todo, present, shown,
                  next_buffer, buffer>>
    BY DEF DriverReports, core, configuration
<1>3. /\ DriverFrame' = DriverFrame /\ Back' = Back /\ Mode' = Mode
      /\ MustWaitFirst' = MustWaitFirst
    BY <1>2 DEF DriverFrame, DefaultFrame, Back, Mode, HasBegin, MustWaitFirst
<1> QED
    BY <1>1, <1>2, <1>3 DEF ContractInv, Handed, LeftOver, Ours

LEMMA UnclosedStep == ContractInv /\ Next => Unclosed'
<1> SUFFICES ASSUME ContractInv, Next PROVE Unclosed'
    OBVIOUS
<1>1. CASE Configure
    BY <1>1 DEF Configure, Attach, Detach, Recreate, SetBuffers, ContractInv, Unclosed
<1>2. CASE Begin
    BY <1>2 DEF Begin, BeginFrame, BeginFrameFails, StartFrame, Unclosed
<1>3. CASE Damage
    BY <1>3 DEF Damage, PrepareFront, PrepareFails, CommitFront, CancelFront, PrepareBack,
       PlanRefused, CommitBack, Rest, Goto, Fail, ContractInv, Unclosed
<1>4. CASE Transaction
    BY <1>4, Transacting DEF ContractInv, Unclosed
<1>5. CASE Close
    <2>1. Returned
        BY <1>5 DEF Close, Return, EndFrame, EndFrameFails, AbortFrame
    <2> QED
        BY <2>1, ReturnedLocals DEF Unclosed
<1>6. CASE Reports
    BY <1>6 DEF Reports, DriverReports, ContractInv, Unclosed
<1> QED
    BY <1>1, <1>2, <1>3, <1>4, <1>5, <1>6 DEF Next

LEMMA ContractStep == ContractInv /\ [Next]_vars => ContractInv'
<1> SUFFICES ASSUME ContractInv, [Next]_vars PROVE ContractInv'
    OBVIOUS
<1>1. LocalsInv'
    BY LocalsStep DEF ContractInv
<1>2. CASE Next
    BY <1>1, <1>2, HandedConfigure, HandedBegin, HandedDamage, HandedTransaction, HandedClose,
       HandedReports, UnclosedStep DEF Next, ContractInv
<1>3. CASE UNCHANGED vars
    <2> USE <1>3 DEF vars, core, configuration, outside
    <2>1. /\ DriverFrame' = DriverFrame /\ Back' = Back /\ Mode' = Mode
          /\ MustWaitFirst' = MustWaitFirst
        BY DEF DriverFrame, DefaultFrame, Back, Mode, HasBegin, MustWaitFirst
    <2>2. Handed'
        BY <2>1 DEF ContractInv, Handed, LeftOver, Ours
    <2>3. Unclosed'
        BY DEF ContractInv, Unclosed
    <2> QED
        BY <1>1, <2>2, <2>3 DEF ContractInv
<1> QED
    BY <1>2, <1>3

LEMMA ContractInvariant == Spec => []ContractInv
<1>1. Init => ContractInv
    BY LocalsInit, HandedInit DEF ContractInv, Init, Unclosed
<1> QED
    BY <1>1, ContractStep, PTL DEF Spec

(* OverlapIsSafe: rendering the next strip while the driver still reads    *)
(* the last one touches the other buffer, on every display and whatever    *)
(* frames came before.                                                     *)
THEOREM OverlapIsSafeAlways == Spec => OverlapIsSafe
<1>1. ContractInv /\ [Next]_vars => [map # NoMap /\ ~map.abandoned => Untouched]_vars
    <2> SUFFICES ASSUME ContractInv, Next, map # NoMap, ~map.abandoned, pc # "idle",
                        NEW k \in map.strips
                 PROVE  buffers'[map.buffer][k] = buffers[map.buffer][k]
        BY DEF Untouched
    <2>1. CASE Render
        <3>1. map \in FlightMaps /\ Mode \in Modes /\ setup.buffer_count \in {1, 2}
            BY SetupTyped DEF ContractInv, LocalsInv, TypeOK
        <3>2. pc = "render" /\ Mode # "FULL"
            BY <2>1 DEF Render, Goto, ContractInv, LocalsInv, Locals, Handed, Ours, Strip
        <3>3. map.buffer # buffer
            BY <3>1, <3>2 DEF ContractInv, Handed, Ours, MustWaitFirst, Modes, Strip
        <3> QED
            BY <2>1, <3>1, <3>3 DEF Render, ContractInv, LocalsInv, TypeOK, FlightMaps
    <2>2. CASE ~Render
        <3>1. attached
            BY DEF ContractInv, LocalsInv, Locals
        <3>2. UNCHANGED buffers
            BY <2>2, <3>1 DEF Next, Configure, Attach, Detach, Recreate, SetBuffers, Begin,
               BeginFrame, BeginFrameFails, StartFrame, Damage, PrepareFront, PrepareFails,
               CommitFront, CancelFront, PrepareBack, PlanRefused, CommitBack, Rest, Transaction,
               RenderFails, WaitForFlush, LastWait, Submit, SubmitFails, Close, Return, EndFrame,
               EndFrameFails, AbortFrame, Returned, Reports, DriverReports
        <3> QED
            BY <3>2
    <2> QED
        BY <2>1, <2>2
<1> QED
    BY <1>1, ContractInvariant, PTL DEF OverlapIsSafe, Spec

------------------------------------------------------------------------------
(* Which target is which.                                                  *)

(* Without flipping there is one target.                                   *)
LEMMA OneTarget ==
  ASSUME OneHistoryEach, TypeOK, BeginFrame, ~Flips
  PROVE  frame' = NoTargets
<1>1. CASE HasBegin
    BY <1>1, SetupTyped DEF BeginFrame, DriverFrame, HasBegin, DriverKinds, Flips, TypeOK
<1>2. CASE ~HasBegin
    <2>1. setup.driver = "push" /\ setup.buffer_count \in {1, 2}
        BY <1>2, SetupTyped DEF HasBegin, TypeOK
    <2>2. Mode = "DIRECT" => setup.buffer_count = 1
        BY <2>1 DEF OneHistoryEach, TypeOK, Mode
    <2>3. Mode = "DIRECT" => next_buffer = 0
        BY <2>2 DEF TypeOK
    <2> QED
        BY <1>2, <2>1, <2>2, <2>3 DEF BeginFrame, DriverFrame, DefaultFrame, HasBegin, NoTargets
<1> QED
    BY <1>1, <1>2

LEMMA PlacedConfigure == HistoryInv /\ Configure => Placed'
<1> SUFFICES ASSUME HistoryInv, Configure PROVE Placed'
    OBVIOUS
<1>1. /\ UNCHANGED <<shown, history, frame, pc, result, map>>
      /\ setup'.driver = setup.driver
    BY DEF Configure, Attach, Detach, Recreate, SetBuffers, core, outside, configuration
<1> QED
    BY <1>1 DEF HistoryInv, Placed, Flips

LEMMA PlacedBegin == OneHistoryEach /\ HistoryInv /\ Begin => Placed'
<1> SUFFICES ASSUME OneHistoryEach, HistoryInv, Begin PROVE Placed'
    OBVIOUS
<1>1. UNCHANGED <<shown, history, map, setup>>
    BY DEF Begin, BeginFrame, BeginFrameFails, StartFrame, Core!Change, outside, configuration
<1>2. CASE BeginFrame
    <2>1. frame' = DriverFrame /\ pc' \in {"front", "full"}
        BY <1>2 DEF BeginFrame
    <2>2. CASE setup.driver = "flip"
        BY <1>1, <2>1, <2>2 DEF DriverFrame, HistoryInv, Placed, Flips
    <2>3. CASE setup.driver = "default"
        BY <1>1, <2>1, <2>3 DEF DriverFrame, DefaultFrame, HasBegin, HistoryInv, Placed, Flips
    <2>4. CASE ~Flips
        <3>1. frame' = NoTargets
            BY <1>2, <2>4, OneTarget DEF HistoryInv, ContractInv, LocalsInv
        <3> QED
            BY <1>1, <2>1, <2>4, <3>1 DEF HistoryInv, Placed, Flips, NoTargets
    <2> QED
        BY <2>2, <2>3, <2>4 DEF Flips
<1>3. CASE BeginFrameFails
    BY <1>1, <1>3 DEF BeginFrameFails, NoLocals, NoTargets, HistoryInv, Placed, Flips
<1> QED
    BY <1>2, <1>3 DEF Begin

LEMMA PlacedDamage == HistoryInv /\ Damage => Placed'
<1> SUFFICES ASSUME HistoryInv, Damage PROVE Placed'
    OBVIOUS
<1>1. /\ UNCHANGED <<shown, frame, map, setup>> /\ (result' = "OK" => result = "OK")
      /\ pc \in {"front", "probe", "back", "commit"} /\ pc' # "idle"
      /\ history \in [Targets -> Scenes \cup {Unknown}]
    BY DEF Damage, PrepareFront, PrepareFails, CommitFront, CancelFront, PrepareBack,
       PlanRefused, CommitBack, outside, configuration, Rest, Frozen, Fail, Goto, NextStrip,
       HistoryInv, ContractInv, LocalsInv, TypeOK
<1>2. ~Flips => history'[1] = Unknown
    <2> SUFFICES ASSUME ~Flips PROVE history'[1] = Unknown
        OBVIOUS
    <2>1. /\ history[1] = Unknown /\ frame.front = 0 /\ frame.back = 0
        BY DEF HistoryInv, Placed, NoTargets
    <2>2. CASE UNCHANGED history
        BY <2>1, <2>2
    <2>3. CASE CommitFront \/ CommitBack
        <3>1. open.target = 0
            BY <2>1, <2>3 DEF CommitFront, CommitBack, Goto, Fail, HistoryInv, ContractInv,
               LocalsInv, Opened, Drawing, Strip, OpenOn, Locals
        <3> QED
            BY <1>1, <2>1, <2>3, <3>1 DEF CommitFront, CommitBack, Core!Commit, Core!Fail, Targets
    <2>4. CASE PlanRefused
        BY <1>1, <2>1, <2>4 DEF PlanRefused, Core!Forget, Targets
    <2> QED
        BY <2>2, <2>3, <2>4 DEF Damage, PrepareFront, PrepareFails, CancelFront, PrepareBack,
           Core!Begin, Core!Cancel, core
<1>3. ASSUME pc' = "closing", result' = "OK", map # NoMap PROVE setup.driver = "flip"
    <2>1. LeftOver /\ pc # "commit"
        BY <1>1, <1>3, LeftOverAtBack DEF HistoryInv
    <2>2. CommitFront
        BY <1>3, <2>1 DEF Damage, PrepareFront, PrepareFails, CancelFront, PrepareBack,
           PlanRefused, CommitBack, Fail, Goto, NextStrip
    <2>3. history[frame.front] = picture /\ picture \in Scenes
        BY <2>2 DEF CommitFront, HistoryInv, ContractInv, LocalsInv, Opened, TypeOK
    <2>4. frame.front # map.target
        BY <2>1, <2>3, DisplayAssumption DEF LeftOver
    <2> QED
        BY <2>1, <2>4 DEF LeftOver, Back, HistoryInv, Placed
<1> QED
    BY <1>1, <1>2, <1>3 DEF HistoryInv, Placed, Flips

LEMMA PlacedTransaction == HistoryInv /\ Transaction => Placed'
<1> SUFFICES ASSUME HistoryInv, Transaction PROVE Placed'
    OBVIOUS
<1>1. /\ UNCHANGED <<shown, frame, setup>> /\ result = "OK" /\ frame.back \in Targets
      /\ history \in [Targets -> Scenes \cup {Unknown}]
      /\ pc \in {"render", "full", "before", "after", "submit", "final"}
    BY Transacting DEF HistoryInv
<1>2. ~Flips => history'[1] = Unknown
    <2> SUFFICES ASSUME ~Flips PROVE history'[1] = Unknown
        OBVIOUS
    <2>1. history[1] = Unknown /\ frame.back = 0
        BY DEF HistoryInv, Placed, NoTargets
    <2> QED
        BY <1>1, <2>1 DEF Transaction, Render, RenderFails, WaitForFlush, LastWait, Submit,
           SubmitFails, AbandonFrame, Core!Forget, core, Targets
<1>3. pc' \in {"idle", "closing"} /\ result' = "OK" => map' = NoMap
    BY DEF Transaction, Render, RenderFails, WaitForFlush, LastWait, Submit, SubmitFails,
       AbandonFrame, FlushEnds, Fail, Goto, Waited, NextStrip
<1> QED
    BY <1>1, <1>2, <1>3 DEF HistoryInv, Placed, Flips

LEMMA PlacedClose == HistoryInv /\ Close => Placed'
<1> SUFFICES ASSUME HistoryInv, Close PROVE Placed'
    OBVIOUS
<1>1. Returned
    BY DEF Close, Return, EndFrame, EndFrameFails, AbortFrame
<1>2. /\ pc' = "idle" /\ pc = "closing" /\ frame' = NoTargets /\ setup' = setup
      /\ map = NoMap => map' = NoMap
    BY <1>1, ReturnedLocals
<1>3. result' = "OK" => result = "OK"
    BY DEF Close, Return, EndFrame, EndFrameFails, AbortFrame
<1>4. ~Flips => history'[1] = Unknown /\ shown' = 0
    <2> SUFFICES ASSUME ~Flips PROVE history'[1] = Unknown /\ shown' = 0
        OBVIOUS
    <2>1. /\ history[1] = Unknown /\ frame.back = 0 /\ shown = 0
          /\ history \in [Targets -> Scenes \cup {Unknown}]
        BY DEF HistoryInv, ContractInv, LocalsInv, TypeOK, Placed, NoTargets
    <2> QED
        BY <2>1 DEF Close, Return, EndFrame, EndFrameFails, AbortFrame, ForgetCommitted,
           Core!Forget, core, Targets
<1> QED
    BY <1>2, <1>3, <1>4 DEF HistoryInv, Placed, Flips, NoTargets

LEMMA PlacedReports == HistoryInv /\ Reports => Placed'
<1> SUFFICES ASSUME HistoryInv, NEW status \in MapStatuses \ {"reading"}, DriverReports(status)
             PROVE  Placed'
    BY DEF Reports
<1>1. UNCHANGED <<shown, history, frame, pc, result, setup>> /\ map # NoMap
    BY DEF DriverReports, core, configuration
<1> QED
    BY <1>1 DEF HistoryInv, Placed, Flips

------------------------------------------------------------------------------
(* What is drawn.                                                          *)

(* Strip by strip is all of it.                                            *)
LEMMA StripByStrip ==
  ASSUME TypeOK, NEW t \in Targets, NEW scene \in Scenes,
         \A k \in Strips : surface[Physical(t)][k] = scene[k]
  PROVE  surface[Physical(t)] = scene
<1>1. Physical(t) \in Targets
    BY DEF Physical, Flips, Targets
<1>2. /\ surface[Physical(t)] = [k \in Strips |-> surface[Physical(t)][k]]
      /\ scene = [k \in Strips |-> scene[k]]
    BY <1>1, DisplayAssumption DEF TypeOK, Images
<1> QED
    BY <1>2

LEMMA DrawnConfigure == OneHistoryEach /\ HistoryInv /\ Configure => Drawn'
<1> SUFFICES ASSUME OneHistoryEach, HistoryInv, Configure PROVE Drawn'
    OBVIOUS
<1>1. /\ UNCHANGED <<picture, history, surface, shown, map, pc, result, frame, closing>>
      /\ setup'.driver = setup.driver /\ pc = "idle" /\ Drawn
    BY DEF Configure, Attach, Detach, Recreate, SetBuffers, core, outside, configuration,
       HistoryInv, ContractInv, LocalsInv, Locals
<1>2. Mode' # "FULL" => Mode # "FULL"
    BY DEF Configure, Attach, Detach, Recreate, SetBuffers, configuration, Mode, OneHistoryEach
<1>3. \A t : Physical(t)' = Physical(t)
    BY <1>1 DEF Physical, Flips
<1> QED
    BY <1>1, <1>2, <1>3 DEF Drawn, HistoriesDrawn, StripRendered, MapUntouched, StripsDrawn,
       SceneShown, ShowsAt, Drawing, Strip

LEMMA DrawnBegin == HistoryInv /\ Begin => Drawn'
<1> SUFFICES ASSUME HistoryInv, Begin PROVE Drawn'
    OBVIOUS
<1>1. /\ UNCHANGED <<history, surface, setup>> /\ pc = "idle" /\ Drawn
      /\ \/ pc' \in {"front", "full"}
         \/ pc' \in {"idle", "closing"} /\ result' = "FAIL"
    BY DEF Begin, BeginFrame, BeginFrameFails, StartFrame, Core!Change, outside, configuration,
       HistoryInv
<1>2. \A t : Physical(t)' = Physical(t)
    BY <1>1 DEF Physical, Flips
<1> QED
    BY <1>1, <1>2 DEF Drawn, HistoriesDrawn, StripRendered, MapUntouched, StripsDrawn, SceneShown,
       Drawing, Strip, Mode

LEMMA DrawnDamage == HistoryInv /\ Damage => Drawn'
<1> SUFFICES ASSUME HistoryInv, Damage PROVE Drawn'
    OBVIOUS
<1>1. /\ UNCHANGED <<picture, surface, buffers, map, setup, frame>>
      /\ pc \in {"front", "probe", "back", "commit"} /\ Drawn
      /\ Mode' = Mode /\ frame.front \in Targets /\ frame.back \in Targets
      /\ history \in [Targets -> Scenes \cup {Unknown}] /\ picture \in Scenes
      /\ Mode # "FULL" /\ TypeOK
    BY DEF Damage, PrepareFront, PrepareFails, CommitFront, CancelFront, PrepareBack,
       PlanRefused, CommitBack, Rest, Frozen, outside, configuration, Goto, Fail, HistoryInv, ContractInv,
       LocalsInv, Locals, TypeOK, Core!Begin, Core!Cancel, Core!Commit, Core!Fail, Core!Forget,
       core, Mode
<1>2. \A t : Physical(t)' = Physical(t)
    BY <1>1 DEF Physical, Flips
<1>3. ~(map # NoMap /\ ~map.abandoned)
    BY <1>1, LeftOverAtBack DEF HistoryInv
<1>4. Unknown \notin Scenes
    BY DisplayAssumption
<1> USE <1>1
<1>5. CASE PrepareFront \/ CancelFront
    BY <1>2, <1>5 DEF PrepareFront, CancelFront, Goto, Core!Begin, Core!Cancel, Drawn,
       HistoriesDrawn, StripRendered, MapUntouched, StripsDrawn, SceneShown, Drawing, Strip
<1>6. CASE PrepareFails
    BY <1>2, <1>6 DEF PrepareFails, Goto, Fail, core, Drawn,
       HistoriesDrawn, StripRendered, MapUntouched, StripsDrawn, SceneShown, Drawing, Strip
<1>7. CASE CommitFront
    <2>1. /\ pc = "probe" /\ pc' = "closing" /\ OpenOn(frame.front)
          /\ history[frame.front] = picture /\ ~present /\ ~present'
        BY <1>7 DEF CommitFront, Goto, Fail, HistoryInv, ContractInv, LocalsInv, Opened, Locals
    <2>2. \/ history' = history
          \/ result' = "FAIL" /\ history' = [history EXCEPT ![frame.front] = Unknown]
        BY <1>7, <2>1 DEF CommitFront, Fail, Core!Commit, Core!Fail, OpenOn
    <2>3. HistoriesDrawn'
        BY <1>2, <2>1, <2>2 DEF Drawn, HistoriesDrawn, Drawing, Strip
    <2>4. surface[Physical(frame.front)] = picture
        BY <1>4, <2>1 DEF Drawn, HistoriesDrawn, Drawing, Strip
    <2> QED
        BY <1>2, <2>1, <2>3, <2>4 DEF Drawn, StripRendered, MapUntouched, StripsDrawn, SceneShown,
           ShowsAt, Strip
<1>8. CASE PrepareBack
    <2> USE <1>8
    <2>1. /\ pc = "back" /\ history' = history /\ todo' \subseteq Strips
          /\ Differing(frame.back) \subseteq todo' /\ (todo' = {} <=> Differing(frame.back) = {})
          /\ \/ pc' = "commit" /\ todo' = {}
             \/ pc' \in {"before", "render"}
        BY DEF PrepareBack, Core!Begin, NextStrip
    <2>2. \A k \in Strips \ Differing(frame.back) : surface[Physical(frame.back)][k] = picture[k]
        <3> SUFFICES ASSUME NEW k \in Strips, k \notin Differing(frame.back)
                     PROVE  surface[Physical(frame.back)][k] = picture[k]
            OBVIOUS
        <3>1. history[frame.back] # Unknown /\ history[frame.back][k] = picture[k]
            BY DEF Differing
        <3> QED
            BY <2>1, <3>1 DEF Drawn, HistoriesDrawn, Drawing, Strip
    <2>3. HistoriesDrawn'
        BY <1>2, <2>1 DEF Drawn, HistoriesDrawn, Drawing, Strip
    <2>4. StripsDrawn'
        <3>1. \A k \in Strips \ todo' : surface[Physical(frame.back)][k] = picture[k]
            BY <2>1, <2>2
        <3> QED
            BY <1>2, <3>1 DEF StripsDrawn
    <2>5. SceneShown'
        <3>1. todo' = {} => surface[Physical(frame.back)] = picture
            BY <2>1, <2>2, StripByStrip
        <3> QED
            BY <1>2, <2>1, <3>1 DEF SceneShown, ShowsAt
    <2> QED
        BY <1>3, <2>1, <2>3, <2>4, <2>5 DEF Drawn, StripRendered, MapUntouched
<1>9. CASE PlanRefused
    BY <1>2, <1>9 DEF PlanRefused, Goto, Fail, Core!Forget, Drawn, HistoriesDrawn, StripRendered,
       MapUntouched, StripsDrawn, SceneShown, Drawing, Strip
<1>10. CASE CommitBack
    <2>1. /\ pc = "commit" /\ pc' = "closing" /\ OpenOn(frame.back) /\ ShowsAt(frame.back)
        BY <1>10 DEF CommitBack, Goto, Fail, HistoryInv, ContractInv, LocalsInv, Opened, Drawing, Drawn,
           SceneShown
    <2>2. \/ present' /\ history' = [history EXCEPT ![frame.back] = picture]
          \/ result' = "FAIL" /\ history' = [history EXCEPT ![frame.back] = Unknown]
        BY <1>10, <2>1 DEF CommitBack, Fail, Core!Commit, Core!Fail, OpenOn
    <2>3. HistoriesDrawn'
        BY <1>2, <2>1, <2>2 DEF Drawn, HistoriesDrawn, Drawing, Strip, ShowsAt
    <2> QED
        BY <1>2, <2>1, <2>2, <2>3 DEF Drawn, StripRendered, MapUntouched, StripsDrawn, SceneShown,
           ShowsAt, Strip
<1> QED
    BY <1>5, <1>6, <1>7, <1>8, <1>9, <1>10 DEF Damage

LEMMA DrawnTransaction == HistoryInv /\ Transaction => Drawn'
<1> SUFFICES ASSUME HistoryInv, Transaction PROVE Drawn'
    OBVIOUS
<1>1. /\ UNCHANGED <<picture, surface, shown, frame, setup, present>> /\ Drawn /\ Handed
      /\ pc \in {"render", "full", "before", "after", "submit", "final"} /\ result = "OK"
      /\ frame.back \in Targets /\ picture \in Scenes /\ TypeOK
      /\ setup.buffer_count \in {1, 2} /\ Mode \in Modes
      /\ Mode # "FULL" => pc # "full"
      /\ Mode = "FULL" => pc \in {"full", "submit", "final"} /\ todo = {} /\ present
      /\ history \in [Targets -> Scenes \cup {Unknown}]
    BY SetupTyped DEF Transaction, Render, RenderFails, WaitForFlush, LastWait, Submit,
       SubmitFails, AbandonFrame, Goto, Fail, Frozen, Rest, configuration, outside, FlushEnds,
       Core!Forget, core, HistoryInv, ContractInv, LocalsInv, TypeOK, Locals
<1>2. (\A t : Physical(t)' = Physical(t)) /\ Mode' = Mode
    BY <1>1 DEF Physical, Flips, Mode
<1> USE <1>1
<1>3. HistoriesDrawn'
    <2>1. CASE history' = [history EXCEPT ![frame.back] = Unknown]
        BY <1>2, <2>1 DEF Drawn, HistoriesDrawn
    <2>2. CASE UNCHANGED history /\ (Mode # "FULL" => pc' \in Drawing)
        BY <1>2, <2>2 DEF Drawn, HistoriesDrawn, Drawing, Strip
    <2>3. \/ history' = [history EXCEPT ![frame.back] = Unknown]
          \/ UNCHANGED history /\ (Mode # "FULL" => pc' \in Drawing)
        BY DEF Transaction, Render, RenderFails, WaitForFlush, LastWait, Submit, SubmitFails,
           AbandonFrame, Goto, Core!Forget, core, Waited, NextStrip, Drawing, Strip
    <2> QED
        BY <2>1, <2>2, <2>3
<1>4. CASE Render
    <2> USE <1>4
    <2>1. /\ UNCHANGED <<map, todo, buffer>>
          /\ pc \in {"render", "full"} /\ pc' \in {"after", "submit"}
          /\ buffers' = [buffers EXCEPT ![buffer] = Rendered]
          /\ pc = "full" <=> Mode = "FULL"
        BY DEF Render, Goto, outside
    <2>2. StripRendered'
        <3>1. Area \subseteq Strips /\ Area' = Area
            BY <1>2, <2>1, AreaIsStrips DEF HistoryInv, ContractInv, LocalsInv, Locals, TypeOK, Area, CurrentStrip
        <3>2. \A k \in Area : Rendered[k] = picture[k]
            BY <3>1 DEF Rendered
        <3>3. buffers'[buffer] = Rendered
            BY <2>1 DEF TypeOK
        <3> QED
            BY <2>1, <3>1, <3>2, <3>3 DEF StripRendered
    <2>3. map # NoMap /\ ~map.abandoned /\ pc = "render" => map.buffer # buffer
        BY <2>1 DEF Handed, Ours, MustWaitFirst, Modes, Strip
    <2>4. MapUntouched'
        <3>1. map # NoMap => map \in FlightMaps
            BY DEF TypeOK
        <3>2. map # NoMap /\ ~map.abandoned => pc = "render"
            BY <2>1 DEF Handed, Ours, Strip
        <3>3. map # NoMap /\ ~map.abandoned => buffers'[map.buffer] = buffers[map.buffer]
            BY <2>1, <2>3, <3>1, <3>2 DEF TypeOK, FlightMaps
        <3> QED
            BY <2>1, <3>2, <3>3 DEF Drawn, MapUntouched, Strip
    <2>5. StripsDrawn'
        BY <1>2, <2>1 DEF Drawn, StripsDrawn, Strip
    <2> QED
        BY <1>3, <2>1, <2>2, <2>4, <2>5 DEF Drawn, SceneShown
<1>5. CASE pc' = "closing" /\ result' = "FAIL"
    BY <1>3, <1>5 DEF Drawn, StripRendered, MapUntouched, StripsDrawn, SceneShown, Strip
<1>6. CASE WaitForFlush /\ map.status = "OK"
    <2> USE <1>6
    <2>1. /\ UNCHANGED <<todo, buffer, buffers>> /\ map' = NoMap /\ Mode # "FULL"
          /\ \/ pc = "before" /\ pc' = "render"
             \/ pc = "after" /\ pc' = "submit"
        BY DEF WaitForFlush, FlushEnds, Waited
    <2>2. StripRendered'
        <3>1. Area' = Area
            BY <1>2, <2>1 DEF Area, CurrentStrip
        <3> QED
            BY <2>1, <3>1 DEF Drawn, StripRendered
    <2>3. StripsDrawn'
        BY <1>2, <2>1 DEF Drawn, StripsDrawn, Strip
    <2> QED
        BY <1>3, <2>1, <2>2, <2>3 DEF Drawn, MapUntouched, SceneShown
<1>7. CASE LastWait /\ map.status = "OK"
    <2> USE <1>7
    <2>1. /\ pc = "final" /\ todo = {} /\ pc' \in {"commit", "closing"}
          /\ pc' = "closing" => Mode = "FULL"
        BY DEF LastWait, HistoryInv, ContractInv, LocalsInv, Locals
    <2>2. ShowsAt(frame.back)
        BY <2>1, StripByStrip DEF Drawn, StripsDrawn, ShowsAt, Strip
    <2> QED
        BY <1>2, <1>3, <2>1, <2>2 DEF Drawn, StripRendered, MapUntouched, StripsDrawn, SceneShown,
           ShowsAt, Strip
<1>8. CASE Submit
    <2> USE <1>8
    <2>1. /\ map' = [buffer |-> buffer, strips |-> Area, target |-> frame.back,
                     status |-> "reading", abandoned |-> FALSE]
          /\ todo' = todo \ Area /\ UNCHANGED buffers /\ pc = "submit"
          /\ pc' \in {"final", "before", "render"}
        BY DEF Submit, Remaining, NextStrip
    <2>2. MapUntouched'
        BY <2>1 DEF Drawn, StripRendered, MapUntouched
    <2>3. map' # NoMap
        <3>1. Area \subseteq Strips
            BY AreaIsStrips DEF Submit, HistoryInv, ContractInv, LocalsInv, Locals, TypeOK
        <3>2. map' \in FlightMaps
            BY <2>1, <3>1 DEF FlightMaps, MapStatuses, TypeOK
        <3> QED
            BY <3>2, AbsentAssumption
    <2>4. StripsDrawn'
        <3> SUFFICES ASSUME NEW k \in Strips, k \notin todo'
                     PROVE  \/ surface[Physical(frame.back)][k] = picture[k]
                            \/ k \in Area
            BY <1>2, <2>1, <2>3 DEF StripsDrawn
        <3>1. CASE Mode = "FULL"
            BY <3>1 DEF Area
        <3>2. CASE Mode # "FULL"
            BY <2>1, <3>2 DEF Drawn, StripsDrawn, Handed, Strip
        <3> QED
            BY <3>1, <3>2
    <2> QED
        BY <1>3, <2>1, <2>2, <2>4 DEF Drawn, StripRendered, SceneShown
<1> QED
    BY <1>4, <1>5, <1>6, <1>7, <1>8 DEF Transaction, RenderFails, SubmitFails, WaitForFlush,
       LastWait, AbandonFrame, Fail, Goto

LEMMA DrawnClose == HistoryInv /\ Close => Drawn'
<1> SUFFICES ASSUME HistoryInv, Close PROVE Drawn'
    OBVIOUS
<1>1. Returned
    BY DEF Close, Return, EndFrame, EndFrameFails, AbortFrame
<1>2. /\ pc = "closing" /\ pc' = "idle" /\ setup' = setup /\ picture' = picture
      /\ Drawn /\ Placed /\ frame.back \in Targets /\ TypeOK
    BY <1>1, ReturnedLocals DEF Close, Return, EndFrame, EndFrameFails, AbortFrame,
       ForgetCommitted, Core!Forget, core, HistoryInv, ContractInv, LocalsInv, TypeOK
<1>3. (\A t : Physical(t)' = Physical(t)) /\ Mode' = Mode
    BY <1>2 DEF Physical, Flips, Mode
<1> USE <1>2
<1>4. HistoriesDrawn'
    <2>1. CASE EndFrameFails
        <3>1. /\ history' = [history EXCEPT ![frame.back] = Unknown]
              /\ surface' = [surface EXCEPT ![frame.back] = [k \in Strips |-> Blank]]
            BY <2>1 DEF EndFrameFails, ForgetCommitted, Core!Forget
        <3>2. ASSUME NEW t \in Targets, history'[t] # Unknown, Mode # "FULL"
              PROVE  surface'[Physical(t)] = history'[t]
            <4>1. t # frame.back /\ history'[t] = history[t]
                BY <3>1, <3>2 DEF TypeOK
            <4>2. Flips
                BY <3>1, <3>2, <4>1 DEF Placed, NoTargets, TypeOK, Targets
            <4>3. Physical(t) = t
                BY <4>2 DEF Physical, Flips
            <4> QED
                BY <3>1, <3>2, <4>1, <4>3 DEF Drawn, HistoriesDrawn, TypeOK, Drawing, Strip
        <3> QED
            BY <1>3, <3>2 DEF HistoriesDrawn
    <2>2. CASE ~EndFrameFails
        <3>1. UNCHANGED <<history, surface>>
            BY <2>2 DEF Close, Return, EndFrame, AbortFrame, core
        <3> QED
            BY <1>3, <3>1 DEF Drawn, HistoriesDrawn, Drawing, Strip
    <2> QED
        BY <2>1, <2>2
<1>5. ASSUME result' = "OK", setup.driver = "default" => closing' = {"end"}
      PROVE  ShowsAt(shown)'
    <2>1. UNCHANGED <<surface, result>>
        BY <1>5 DEF Close, Return, EndFrame, EndFrameFails, AbortFrame
    <2>2. shown' = IF present THEN frame.back ELSE frame.front
        <3>1. CASE EndFrame
            BY <3>1 DEF EndFrame, NeedsEnd
        <3>2. CASE Return \/ AbortFrame
            <4>1. shown' = shown /\ (present => ~HasBegin)
                BY <1>5, <2>1, <3>2 DEF Return, AbortFrame, NeedsEnd
            <4>2. CASE setup.driver = "flip"
                BY <1>5, <2>1, <4>1, <4>2 DEF Placed, HasBegin
            <4>3. CASE setup.driver = "default"
                BY <1>5, <3>2, <4>3 DEF Return, AbortFrame, HasBegin
            <4>4. CASE ~Flips
                BY <4>1, <4>4 DEF Placed, NoTargets
            <4> QED
                BY <4>2, <4>3, <4>4 DEF Flips
        <3> QED
            BY <1>5, <3>1, <3>2 DEF Close, EndFrameFails
    <2>3. surface'[Physical(shown')] = picture
        BY <1>5, <2>1, <2>2 DEF Drawn, SceneShown, ShowsAt
    <2> QED
        BY <1>3, <2>3 DEF ShowsAt
<1> QED
    BY <1>4, <1>5 DEF Drawn, StripRendered, MapUntouched, StripsDrawn, SceneShown, Strip

LEMMA DrawnReports == HistoryInv /\ Reports => Drawn'
<1> SUFFICES ASSUME HistoryInv, NEW status \in MapStatuses \ {"reading"}, DriverReports(status)
             PROVE  Drawn'
    BY DEF Reports
<1>1. /\ UNCHANGED <<picture, history, shown, setup, frame, pc, buffers, todo, buffer, present,
                     result, closing>>
      /\ TypeOK /\ Placed /\ Handed /\ Drawn /\ map.status = "reading"
    BY DEF DriverReports, core, configuration, HistoryInv, ContractInv, LocalsInv
<1>2. /\ map \in FlightMaps /\ map # NoMap /\ map' # NoMap /\ map'.status = status
      /\ map'.strips = map.strips /\ map'.abandoned = map.abandoned
    BY <1>1, ReportedMap
<1>3. (\A t : Physical(t)' = Physical(t)) /\ Mode' = Mode /\ Area' = Area
    BY <1>1 DEF Physical, Flips, Mode, Area, CurrentStrip
<1>4. /\ \A t \in Targets : Physical(t) \in Targets
      /\ map.target \in Targets /\ frame.back \in Targets /\ frame.front \in Targets
      /\ shown \in Targets /\ map.buffer \in BufferIds
    BY <1>1, <1>2 DEF Physical, Flips, Targets, FlightMaps, TypeOK
<1>5. /\ \A t \in Targets : t # Physical(map.target) => surface'[t] = surface[t]
      /\ \A k \in Strips :
           surface'[Physical(map.target)][k] =
             IF k \notin map.strips THEN surface[Physical(map.target)][k]
             ELSE IF status = "OK" THEN buffers[map.buffer][k] ELSE Blank
    BY <1>1, <1>4 DEF DriverReports, TypeOK
<1> USE <1>1, <1>2, <1>4
(* What is not the map's target on a flipping display stays as it is.      *)
<1>6. ASSUME NEW t \in Targets, Flips, t # map.target
      PROVE  surface'[Physical(t)] = surface[Physical(t)]
    BY <1>5, <1>6 DEF Physical, Flips
<1>7. HistoriesDrawn'
    <2> SUFFICES ASSUME NEW t \in Targets, Mode # "FULL", history[t] # Unknown,
                        ~(t = frame.back /\ pc \in Drawing)
                 PROVE  surface'[Physical(t)] = history[t]
        BY <1>3 DEF HistoriesDrawn
    <2>1. t # map.target
        BY Zenon DEF Handed, LeftOver, Ours, Drawing
    <2>2. ASSUME ~Flips PROVE FALSE
        <3>1. Back = 0 /\ frame.back = 0
            BY <2>2 DEF Back, Flips, Placed, NoTargets
        <3>2. map.target = Back \/ map.target = frame.back
            BY Zenon DEF Handed, LeftOver, Ours
        <3>3. map.target = 0
            BY <3>1, <3>2
        <3> QED
            BY <2>1, <2>2, <3>3 DEF Placed, Targets
    <2> QED
        BY <1>6, <2>1, <2>2 DEF Drawn, HistoriesDrawn
<1>8. StripsDrawn'
    <2> SUFFICES ASSUME pc \in Strip, Mode = "FULL" => pc = "final",
                        NEW k \in Strips, k \notin todo
                 PROVE  \/ surface'[Physical(frame.back)][k] = picture[k]
                        \/ ~map.abandoned /\ k \in map.strips /\ status # "OK"
        BY <1>3 DEF StripsDrawn
    <2>1. ~map.abandoned /\ map.target = frame.back
        BY Zenon DEF Handed, LeftOver, Ours, Drawing
    <2>2. CASE k \in map.strips
        BY <1>5, <2>1, <2>2 DEF Drawn, MapUntouched
    <2>3. CASE k \notin map.strips
        BY <1>5, <2>1, <2>3 DEF Drawn, StripsDrawn
    <2> QED
        BY <2>2, <2>3
<1>9. SceneShown'
    <2>1. pc # "commit"
        BY DEF Handed
    <2>2. pc = "closing" /\ result = "OK" => ~present
        BY DEF Handed
    <2>3. ASSUME pc \in {"closing", "idle"}, result = "OK"
          PROVE  Flips /\ shown # map.target /\ (pc = "closing" => frame.front = shown)
        <3>1. setup.driver = "flip"
            BY <2>3 DEF Placed
        <3>2. map.target = Back
            BY <2>3, Zenon DEF Handed, LeftOver, Ours, Strip
        <3> QED
            BY <2>3, <3>1, <3>2 DEF Back, Flips, Placed, Targets
    <2>4. pc = "closing" /\ result = "OK" => ShowsAt(frame.front)'
        BY <1>3, <1>6, <2>2, <2>3 DEF Drawn, SceneShown, ShowsAt
    <2>5. ASSUME pc = "idle", result = "OK", setup.driver = "default" => closing = {"end"}
          PROVE  ShowsAt(shown)'
        BY <1>3, <1>6, <2>3, <2>5 DEF Drawn, SceneShown, ShowsAt
    <2> QED
        BY <2>1, <2>2, <2>4, <2>5 DEF SceneShown
<1> QED
    BY <1>3, <1>7, <1>8, <1>9 DEF Drawn, StripRendered, MapUntouched

------------------------------------------------------------------------------
(* Histories are true, and a success shows its scene.                      *)

LEMMA HistoryInit == Init => HistoryInv
<1> SUFFICES ASSUME Init PROVE HistoryInv
    OBVIOUS
<1>1. ContractInv
    BY LocalsInit, HandedInit DEF ContractInv, Init, Unclosed
<1>2. \A t \in Targets : history[t] = Unknown
    BY DEF Init, Core!Init
<1>3. Placed
    BY <1>2 DEF Init, Placed, NoTargets, Targets
<1>4. Drawn
    BY <1>2 DEF Init, Drawn, HistoriesDrawn, StripRendered, MapUntouched, StripsDrawn, SceneShown,
       Strip
<1> QED
    BY <1>1, <1>3, <1>4 DEF HistoryInv

LEMMA HistoryStep == OneHistoryEach /\ HistoryInv /\ [Next]_vars => HistoryInv'
<1> SUFFICES ASSUME OneHistoryEach, HistoryInv, [Next]_vars PROVE HistoryInv'
    OBVIOUS
<1>1. ContractInv'
    BY ContractStep DEF HistoryInv
<1>2. (Placed /\ Drawn)'
    <2>1. CASE Configure
        BY <2>1, PlacedConfigure, DrawnConfigure
    <2>2. CASE Begin
        BY <2>2, PlacedBegin, DrawnBegin
    <2>3. CASE Damage
        BY <2>3, PlacedDamage, DrawnDamage
    <2>4. CASE Transaction
        BY <2>4, PlacedTransaction, DrawnTransaction
    <2>5. CASE Close
        BY <2>5, PlacedClose, DrawnClose
    <2>6. CASE Reports
        BY <2>6, PlacedReports, DrawnReports
    <2>7. CASE UNCHANGED vars
        <3> USE <2>7 DEF vars, core, configuration, outside, HistoryInv, Mode, Flips
        <3>1. (\A t : Physical(t)' = Physical(t)) /\ Area' = Area
            BY DEF Physical, Flips, Area, CurrentStrip
        <3>2. Placed' BY DEF Placed
        <3>3. (HistoriesDrawn /\ StripRendered /\ MapUntouched)'
            BY <3>1 DEF Drawn, HistoriesDrawn, StripRendered, MapUntouched
        <3>4. (StripsDrawn /\ SceneShown)'
            BY <3>1 DEF Drawn, StripsDrawn, SceneShown, ShowsAt
        <3> QED
            BY <3>2, <3>3, <3>4 DEF Drawn
    <2> QED
        BY <2>1, <2>2, <2>3, <2>4, <2>5, <2>6, <2>7 DEF Next
<1> QED
    BY <1>1, <1>2 DEF HistoryInv

LEMMA HistoryInvariant ==
  ASSUME OneHistoryEach
  PROVE  Spec => []HistoryInv
<1>1. HistoryInv /\ [Next]_vars => HistoryInv'
    BY HistoryStep
<1> QED
    BY <1>1, HistoryInit, PTL DEF Spec

(* HistoryIsDrawn: what failed frames, abandoned maps and a failed         *)
(* end_frame leave behind never makes a history of the Core a lie, so the  *)
(* damage plan of a later frame misses nothing.                            *)
THEOREM HistoriesTrue ==
  ASSUME OneHistoryEach
  PROVE  Spec => []HistoryIsDrawn
<1>1. HistoryInv => HistoryIsDrawn
    BY DEF HistoryInv, Drawn, HistoriesDrawn, HistoryIsDrawn, Drawing, Strip
<1> QED
    BY <1>1, HistoryInvariant, PTL

(* ShownAfterSuccess: when render_internal returns success the glass shows *)
(* the scene of that frame, although the frame may have drawn nothing.     *)
THEOREM SuccessIsShown ==
  ASSUME OneHistoryEach
  PROVE  Spec => []ShownAfterSuccess
<1>1. HistoryInv => ShownAfterSuccess
    <2> SUFFICES ASSUME HistoryInv, pc = "idle", result = "OK",
                        setup.driver = "default" => closing = {"end"}
                 PROVE  surface[IF HasBegin THEN shown ELSE 0] = picture
        BY DEF ShownAfterSuccess
    <2>1. surface[Physical(shown)] = picture
        BY DEF HistoryInv, Drawn, SceneShown, ShowsAt
    <2>2. shown = IF Flips THEN shown ELSE 0
        BY DEF HistoryInv, Placed
    <2> QED
        BY <2>1, <2>2 DEF Physical, HasBegin, Flips
<1> QED
    BY <1>1, HistoryInvariant, PTL

------------------------------------------------------------------------------
(* A failed flush is made good.                                            *)

(* With one framebuffer a frame that prepares, draws and forgets has to do *)
(* with target 0 alone.                                                    *)
LEMMA OnlyTarget ==
  ASSUME HistoryInv, ~Flips
  PROVE  /\ frame.front = 0 /\ frame.back = 0
         /\ history \in [Targets -> Scenes \cup {Unknown}] /\ 0 \in Targets
         /\ picture \in Scenes /\ Unknown \notin Scenes
BY DisplayAssumption DEF HistoryInv, ContractInv, LocalsInv, TypeOK, Placed, NoTargets, Targets

LEMMA RecoveringStep == OneHistoryEach /\ HistoryInv /\ Recovering /\ Next => Recovering'
<1> SUFFICES ASSUME OneHistoryEach, HistoryInv, Recovering, Next,
                    ~Flips', flush_failed', Mode' # "FULL"
             PROVE  IF pc' = "closing" /\ result' = "OK" THEN present' ELSE history'[0] = Unknown
    BY DEF Recovering
<1>1. CASE Configure
    <2>1. /\ UNCHANGED <<pc, result, present, history, flush_failed>> /\ Flips' = Flips
          /\ Mode # "FULL"
        BY <1>1 DEF Configure, Attach, Detach, Recreate, SetBuffers, core, configuration, Mode,
           Flips, OneHistoryEach
    <2> QED
        BY <2>1 DEF Recovering
<1>2. CASE Begin
    <2>1. /\ UNCHANGED <<history, flush_failed, setup>> /\ pc = "idle"
          /\ pc' # "closing" \/ result' = "FAIL"
        BY <1>2 DEF Begin, BeginFrame, BeginFrameFails, StartFrame, Core!Change, configuration
    <2> QED
        BY <2>1 DEF Recovering, Flips, Mode
<1>3. CASE Damage
    <2>1. /\ UNCHANGED <<flush_failed, setup>> /\ pc \in {"front", "probe", "back", "commit"}
          /\ history[0] = Unknown /\ frame.front = 0 /\ frame.back = 0
          /\ history \in [Targets -> Scenes \cup {Unknown}] /\ 0 \in Targets
          /\ picture \in Scenes /\ Unknown \notin Scenes
        <3>1. UNCHANGED <<flush_failed, setup>> /\ pc \in {"front", "probe", "back", "commit"}
            BY <1>3 DEF Damage, PrepareFront, PrepareFails, CommitFront, CancelFront,
               PrepareBack, PlanRefused, CommitBack, Rest, Frozen, configuration, Goto, Fail
        <3>2. ~Flips /\ flush_failed /\ Mode # "FULL"
            BY <3>1 DEF Flips, Mode
        <3> QED
            BY <3>1, <3>2, OnlyTarget DEF Recovering
    <2>2. ~CommitFront
        BY <2>1 DEF CommitFront, HistoryInv, ContractInv, LocalsInv, Opened
    <2>3. CASE CommitBack
        BY <2>1, <2>3 DEF CommitBack, Goto, Fail, Core!Fail, HistoryInv, ContractInv, LocalsInv,
           Opened, OpenOn, Locals, Drawing, Strip
    <2> QED
        BY <1>3, <2>1, <2>2, <2>3 DEF Damage, PrepareFront, PrepareFails, CancelFront,
           PrepareBack, PlanRefused, Core!Begin, Core!Cancel, Core!Forget, core, Goto, Fail,
           NextStrip
<1>4. CASE Transaction
    <2>1. /\ ~Flips /\ Mode # "FULL" /\ frame.back = 0 /\ result = "OK"
          /\ pc # "closing" /\ history \in [Targets -> Scenes \cup {Unknown}] /\ 0 \in Targets
        <3>1. UNCHANGED setup /\ result = "OK" /\ pc # "closing"
            BY <1>4, Transacting DEF HistoryInv
        <3>2. ~Flips /\ Mode # "FULL"
            BY <3>1 DEF Flips, Mode
        <3> QED
            BY <3>1, <3>2, OnlyTarget
    <2>2. CASE history' = [history EXCEPT ![0] = Unknown] /\ result' = "FAIL"
        BY <2>1, <2>2
    <2>3. CASE UNCHANGED <<history, flush_failed>> /\ pc' # "closing"
        BY <2>1, <2>3 DEF Recovering
    <2>4. CASE Render \/ Submit
        <3>1. UNCHANGED <<history, flush_failed>> /\ pc' # "closing"
            BY <2>4 DEF Render, Submit, Goto, NextStrip, core
        <3> QED
            BY <2>3, <3>1
    <2>5. CASE RenderFails \/ SubmitFails
        BY <2>1, <2>2, <2>5 DEF RenderFails, SubmitFails, AbandonFrame, Fail, Core!Forget
    <2>6. CASE WaitForFlush \/ LastWait
        <3>1. CASE map.status = "OK"
            <4>1. UNCHANGED <<history, flush_failed>> /\ pc' # "closing"
                <5>1. CASE WaitForFlush
                    <6>1. pc \in {"before", "after"} /\ pc' = Waited[pc] /\ UNCHANGED core
                        BY <3>1, <5>1 DEF WaitForFlush
                    <6>2. UNCHANGED flush_failed
                        BY <3>1, <5>1 DEF WaitForFlush, FlushEnds
                    <6>3. pc' # "closing"
                        BY <6>1 DEF Waited
                    <6> QED
                        BY <6>1, <6>2, <6>3 DEF core
                <5>2. CASE LastWait
                    BY <2>1, <3>1, <5>2 DEF LastWait, FlushEnds, core
                <5> QED
                    BY <2>6, <5>1, <5>2
            <4> QED
                BY <2>3, <4>1
        <3>2. CASE map.status # "OK"
            BY <2>1, <2>2, <2>6, <3>2 DEF WaitForFlush, LastWait, AbandonFrame, Fail, Core!Forget
        <3> QED
            BY <3>1, <3>2
    <2> QED
        BY <1>4, <2>4, <2>5, <2>6 DEF Transaction
<1>5. CASE Close
    <2>1. Returned
        BY <1>5 DEF Close, Return, EndFrame, EndFrameFails, AbortFrame
    <2>2. pc = "closing" /\ pc' = "idle" /\ UNCHANGED setup
        BY <2>1, ReturnedLocals
    <2>3. ~Flips /\ Mode # "FULL"
        BY <2>2 DEF Flips, Mode
    <2>4. CASE EndFrameFails
        BY <2>2, <2>3, <2>4, OnlyTarget DEF EndFrameFails, ForgetCommitted, Core!Forget
    <2>5. CASE Return \/ EndFrame \/ AbortFrame
        <3>1. UNCHANGED history /\ flush_failed /\ result # "OK"
            BY <2>5 DEF Return, EndFrame, AbortFrame, Recovered, core
        <3> QED
            BY <2>2, <2>3, <3>1 DEF Recovering
    <2> QED
        BY <1>5, <2>4, <2>5 DEF Close
<1>6. CASE Reports
    <2>1. UNCHANGED <<pc, result, present, history, flush_failed, setup>>
        BY <1>6 DEF Reports, DriverReports, core, configuration
    <2> QED
        BY <2>1 DEF Recovering, Flips, Mode
<1> QED
    BY <1>1, <1>2, <1>3, <1>4, <1>5, <1>6 DEF Next

(* FailureIsRedrawn: with one framebuffer, the first frame that succeeds   *)
(* after a failed flush has planned every strip and is presented.          *)
THEOREM FailuresAreRedrawn ==
  ASSUME OneHistoryEach
  PROVE  Spec => FailureIsRedrawn
<1> DEFINE Redrawn ==
      ~Flips /\ flush_failed =>
        /\ pc = "closing" /\ pc' = "idle" /\ result' = "OK" => present
        /\ PrepareBack => todo' = Strips
<1>1. Init => Recovering
    BY DEF Init, Recovering
<1>2. HistoryInv /\ Recovering /\ [Next]_vars => Recovering'
    <2>1. Recovering /\ UNCHANGED vars => Recovering'
        BY DEF vars, core, configuration, Recovering, Flips, Mode
    <2> QED
        BY <2>1, RecoveringStep
<1>3. HistoryInv /\ Recovering /\ [Next]_vars => [Redrawn]_vars
    <2> SUFFICES ASSUME HistoryInv, Recovering, Next, ~Flips, flush_failed
                 PROVE  Redrawn
        OBVIOUS
    <2>1. ASSUME pc = "closing", pc' = "idle", result' = "OK" PROVE present
        <3>1. result = "OK"
            BY <2>1 DEF Next, Configure, Attach, Detach, Recreate, SetBuffers, Begin, BeginFrame,
               BeginFrameFails, StartFrame, Damage, PrepareFront, PrepareFails, CommitFront,
               CancelFront, PrepareBack, PlanRefused, CommitBack, Goto, Fail, Transaction, Render,
               RenderFails, WaitForFlush, LastWait, Submit, SubmitFails, AbandonFrame, Close,
               Return, EndFrame, EndFrameFails, AbortFrame, Reports, DriverReports
        <3> QED
            BY <2>1, <3>1 DEF Recovering, HistoryInv, ContractInv, LocalsInv, Locals
    <2>2. ASSUME PrepareBack PROVE todo' = Strips
        <3>1. Mode # "FULL" /\ pc = "back"
            BY <2>2 DEF PrepareBack, HistoryInv, ContractInv, LocalsInv, Locals
        <3>2. Differing(frame.back) = Strips
            BY <3>1, OnlyTarget DEF Recovering, Differing
        <3> QED
            BY <2>2, <3>2 DEF PrepareBack
    <2> QED
        BY <2>1, <2>2
<1>4. [][Redrawn]_vars => FailureIsRedrawn
    BY DEF FailureIsRedrawn
<1> QED
    BY <1>1, <1>2, <1>3, <1>4, HistoryInvariant, PTL DEF Spec

------------------------------------------------------------------------------
(* What the driver is promised.                                            *)

LEMMA ContractInit == Init => Contract!Init
<1> SUFFICES ASSUME Init PROVE Contract!Init
    OBVIOUS
<1>1. Progress = "idle" /\ Held = NoMap /\ frame.back = 0 /\ shown = 0 /\ closing = {}
    BY DEF Init, Progress, Held, NoTargets
<1>2. HasBegin \in BOOLEAN
    BY DEF HasBegin
<1> QED
    BY <1>1, <1>2 DEF Contract!Init, Targets

(* What the driver is told of depends on nothing else.                     *)
LEMMA SameForDriver ==
  ASSUME UNCHANGED <<setup, frame, closing, shown, map>>, Progress' = Progress
  PROVE  UNCHANGED Contract!vars
BY DEF Contract!vars, HasBegin, Held

LEMMA ContractConfigure == ContractInv /\ Configure => UNCHANGED Contract!vars
<1> SUFFICES ASSUME ContractInv, Configure PROVE UNCHANGED Contract!vars
    OBVIOUS
<1>1. /\ UNCHANGED <<map, pc, result, present, frame, closing, shown>>
      /\ setup'.driver = setup.driver
    BY DEF Configure, Attach, Detach, Recreate, SetBuffers, core, outside, configuration,
       ContractInv, LocalsInv, Locals
<1> QED
    BY <1>1 DEF Contract!vars, HasBegin, Held, Progress

LEMMA ContractBegin == ContractInv /\ Begin => Contract!Next
<1> SUFFICES ASSUME ContractInv, Begin PROVE Contract!Next
    OBVIOUS
<1>1. /\ UNCHANGED <<map, setup, shown>> /\ closing' = {} /\ pc = "idle"
    BY DEF Begin, BeginFrame, BeginFrameFails, StartFrame, outside, configuration
<1>2. Progress = "idle" /\ Held' = Held /\ HasBegin' = HasBegin
    BY <1>1 DEF Progress, Held, HasBegin
<1>3. frame'.back \in Targets
    BY TypeBegin DEF ContractInv, TypeOK
<1>4. \/ Progress' \in {"comparing", "drawing", "failed"}
      \/ Progress' = "idle" /\ HasBegin
    BY DEF Begin, BeginFrame, BeginFrameFails, Progress
<1>5. Contract!Begin \/ Contract!BeginFails
    BY <1>1, <1>2, <1>3, <1>4 DEF Contract!Begin, Contract!BeginFails, Contract!Move
<1> QED
    BY <1>5 DEF Contract!Next

LEMMA ContractDamage == ContractInv /\ Damage => [Contract!Next]_(Contract!vars)
<1> SUFFICES ASSUME ContractInv, Damage PROVE [Contract!Next]_(Contract!vars)
    OBVIOUS
<1>1. UNCHANGED <<setup, frame, closing, shown, map>>
    BY DEF Damage, PrepareFront, PrepareFails, CommitFront, CancelFront, PrepareBack, PlanRefused,
       CommitBack, Rest, Frozen, outside, configuration
<1>2. Held' = Held /\ HasBegin' = HasBegin
    BY <1>1 DEF Held, HasBegin
<1>3. CASE PrepareFront \/ PrepareBack
    <2>1. Progress' = Progress
        BY <1>3 DEF PrepareFront, PrepareBack, Goto, NextStrip, Progress
    <2> QED
        BY <1>1, <2>1, SameForDriver
<1>4. CASE result' = "FAIL"
    <2>1. Progress \in {"comparing", "drawing"} /\ Progress' = "failed"
        BY <1>4 DEF Damage, PrepareFront, PrepareFails, CommitFront, CancelFront, PrepareBack,
           PlanRefused, CommitBack, Goto, Fail, Progress, ContractInv, LocalsInv, Locals
    <2>2. Contract!Fail
        BY <1>1, <1>2, <2>1 DEF Contract!Fail, Contract!Move, Contract!Frame
    <2> QED
        BY <2>2 DEF Contract!Next
<1>5. CASE CommitFront /\ result' # "FAIL"
    <2>1. Progress = "comparing" /\ Progress' = "unchanged"
        BY <1>5 DEF CommitFront, Goto, Fail, Progress, ContractInv, LocalsInv, Locals
    <2>2. Contract!Unchanged
        BY <1>1, <1>2, <2>1 DEF Contract!Unchanged, Contract!Move, Contract!Frame
    <2> QED
        BY <2>2 DEF Contract!Next
<1>6. CASE CancelFront
    <2>1. Progress = "comparing" /\ Progress' = "drawing"
        BY <1>6 DEF CancelFront, Goto, Progress
    <2>2. Contract!Changed
        BY <1>1, <1>2, <2>1 DEF Contract!Changed, Contract!Move, Contract!Frame
    <2> QED
        BY <2>2 DEF Contract!Next
<1>7. CASE CommitBack /\ result' # "FAIL"
    <2>1. Progress = "drawing" /\ Progress' = "drawn" /\ map = NoMap
        BY <1>7 DEF CommitBack, Goto, Fail, Progress, ContractInv, LocalsInv, Locals, Handed
    <2>2. Contract!Drawn
        BY <1>1, <1>2, <2>1 DEF Contract!Drawn, Contract!Move, Contract!Frame, Held
    <2> QED
        BY <2>2 DEF Contract!Next
<1> QED
    BY <1>3, <1>4, <1>5, <1>6, <1>7 DEF Damage, PrepareFails, PlanRefused, Fail

(* A map that was waited for is known by its report, and was for this      *)
(* frame's target, a map left over included.                               *)
LEMMA AwaitedMap ==
  ASSUME ContractInv, pc \in {"before", "after", "final"}, FlushEnds
  PROVE  /\ Held = [target |-> frame.back, status |-> map.status] /\ Held # NoMap
         /\ map.status \in {"OK", "FAIL", "TIMEOUT"} /\ Held' = NoMap
<1>1. map \in FlightMaps /\ map # NoMap /\ map.status # "reading" /\ map' = NoMap
    BY DEF ContractInv, LocalsInv, TypeOK, Handed, FlushEnds
<1>2. map.target = frame.back
    <2>1. CASE map.abandoned
        <3>1. LeftOver /\ frame.back = DriverFrame.back
            BY <1>1, <2>1 DEF ContractInv, Handed
        <3> QED
            BY <3>1, BeginsAtBack DEF LeftOver
    <2>2. CASE ~map.abandoned
        <3>1. Ours
            BY <1>1, <2>2 DEF ContractInv, Handed
        <3> QED
            BY <3>1 DEF Ours, Strip
    <2> QED
        BY <2>1, <2>2
<1>3. map.target \in Targets /\ map.status \in MapStatuses
    BY <1>1 DEF FlightMaps
<1>4. [target |-> map.target, status |-> map.status] # NoMap
    BY <1>3, AbsentAssumption
<1> QED
    BY <1>1, <1>2, <1>3, <1>4 DEF Held, MapStatuses

LEMMA ContractTransaction == ContractInv /\ Transaction => [Contract!Next]_(Contract!vars)
<1> SUFFICES ASSUME ContractInv, Transaction PROVE [Contract!Next]_(Contract!vars)
    OBVIOUS
<1>1. /\ UNCHANGED <<setup, frame, present, shown, closing>> /\ result = "OK"
      /\ pc \in {"render", "full", "before", "after", "submit", "final"}
    BY Transacting
<1>2. Progress = "drawing" /\ HasBegin' = HasBegin
    BY <1>1 DEF Progress, HasBegin
<1> USE <1>1, <1>2
<1>3. CASE Render
    <2>1. Progress' = "drawing" /\ map' = map
        BY <1>3 DEF Render, Goto, Progress, outside
    <2> QED
        BY <2>1, SameForDriver
<1>4. CASE RenderFails \/ SubmitFails
    <2>1. Progress' = "failed" /\ map' = map
        BY <1>4 DEF RenderFails, SubmitFails, AbandonFrame, Fail, Goto, Progress, outside, Rest
    <2>2. Contract!Fail
        BY <2>1 DEF Contract!Fail, Contract!Move, Contract!Frame, Held
    <2> QED
        BY <2>2 DEF Contract!Next
<1>5. CASE Submit
    <2>1. /\ map = NoMap /\ map'.target = frame.back /\ map'.status = "reading"
          /\ Progress' = "drawing"
        BY <1>5 DEF Submit, NextStrip, Progress, ContractInv, Handed
    <2>2. map' # NoMap
        BY <1>5, HandedTransaction DEF Handed, Submit
    <2>3. Contract!Submit
        BY <2>1, <2>2 DEF Contract!Submit, Contract!Move, Contract!Frame, Held
    <2> QED
        BY <2>3 DEF Contract!Next
<1>6. CASE WaitForFlush \/ LastWait
    <2>1. pc \in {"before", "after", "final"} /\ FlushEnds
        BY <1>6 DEF WaitForFlush, LastWait
    <2>2. /\ Held = [target |-> frame.back, status |-> map.status] /\ Held # NoMap
          /\ map.status \in {"OK", "FAIL", "TIMEOUT"} /\ Held' = NoMap
        BY <2>1, AwaitedMap
    <2>3. CASE map.status # "OK"
        <3>1. Progress' = "failed"
            BY <1>6, <2>3 DEF WaitForFlush, LastWait, AbandonFrame, Fail, Goto, Progress
        <3>2. Contract!AwaitFails
            BY <2>2, <2>3, <3>1 DEF Contract!AwaitFails, Contract!Move, Contract!Frame,
               Contract!Reports
        <3> QED
            BY <3>2 DEF Contract!Next
    <2>4. CASE map.status = "OK"
        <3>1. Contract!Good
            BY <2>2, <2>4 DEF Contract!Good
        <3>2. Progress' \in {"drawing", "drawn"}
            BY <1>6, <2>4 DEF WaitForFlush, LastWait, Waited, Progress, ContractInv, LocalsInv,
               Locals
        <3>3. Contract!Await \/ Contract!Drawn
            BY <2>2, <3>1, <3>2 DEF Contract!Await, Contract!Drawn, Contract!Move, Contract!Frame
        <3> QED
            BY <3>3 DEF Contract!Next
    <2> QED
        BY <2>3, <2>4
<1> QED
    BY <1>3, <1>4, <1>5, <1>6 DEF Transaction

LEMMA ContractClose == ContractInv /\ Close => Contract!Next \/ ClosesTwice
<1> SUFFICES ASSUME ContractInv, Close PROVE Contract!Next \/ ClosesTwice
    OBVIOUS
<1>1. Returned
    BY DEF Close, Return, EndFrame, EndFrameFails, AbortFrame
<1>2. /\ pc' = "idle" /\ pc = "closing" /\ setup' = setup /\ frame' = NoTargets
    BY <1>1, ReturnedLocals
<1>3. Held' = Held
    <2>1. CASE map = NoMap
        BY <1>1, <2>1, ReturnedLocals DEF Held
    <2>2. CASE map # NoMap
        <3>1. map \in FlightMaps
            BY <2>2 DEF ContractInv, LocalsInv, TypeOK
        <3>2. map' # NoMap /\ map'.target = map.target /\ map'.status = map.status
            BY <1>1, <3>1, ReturnedMap, AbsentAssumption
        <3> QED
            BY <2>2, <3>2 DEF Held
    <2> QED
        BY <2>1, <2>2
<1>4. Progress' = "idle" /\ HasBegin' = HasBegin /\ frame'.back \in Targets
    BY <1>2 DEF Progress, HasBegin, NoTargets, Targets
<1> USE <1>3, <1>4 DEF Contract!Close, Contract!Move
<1>5. CASE EndFrame
    <2>1. HasBegin /\ Progress = "drawn" /\ closing' = {"end"} /\ shown' = frame.back
        BY <1>2, <1>5 DEF EndFrame, NeedsEnd, Progress
    <2>2. Contract!End
        BY <2>1 DEF Contract!End
    <2> QED
        BY <2>2 DEF Contract!Next
<1>6. CASE EndFrameFails
    <2>1. HasBegin /\ Progress = "drawn" /\ closing' = {"end", "abort"} /\ shown' = shown
        BY <1>2, <1>6 DEF EndFrameFails, NeedsEnd, Progress
    <2>2. Contract!Close({"drawn"}, {"end", "abort"})
        BY <2>1
    <2> QED
        BY <1>6, <2>1, <2>2 DEF ClosesTwice
<1>7. CASE AbortFrame
    <2>1. HasBegin /\ Progress \in {"failed", "unchanged"} /\ closing' = {"abort"} /\ shown' = shown
        BY <1>2, <1>7 DEF AbortFrame, NeedsEnd, Progress
    <2>2. Contract!Abort
        BY <2>1 DEF Contract!Abort
    <2> QED
        BY <2>2 DEF Contract!Next
<1>8. CASE Return
    <2>1. /\ ~HasBegin /\ Progress \in {"drawn", "failed", "unchanged"}
          /\ closing' = {} /\ shown' = shown
        BY <1>2, <1>8 DEF Return, Progress, ContractInv, Unclosed
    <2>2. Contract!Return
        BY <2>1 DEF Contract!Return
    <2> QED
        BY <2>2 DEF Contract!Next
<1> QED
    BY <1>5, <1>6, <1>7, <1>8 DEF Close

LEMMA ContractReports == ContractInv /\ Reports => Contract!Next
<1> SUFFICES ASSUME ContractInv, NEW status \in MapStatuses \ {"reading"}, DriverReports(status)
             PROVE  Contract!Next
    BY DEF Reports
<1>1. /\ map \in FlightMaps /\ map # NoMap /\ map' # NoMap /\ map'.target = map.target
      /\ map'.status = status /\ map.status = "reading"
    BY ReportedMap DEF ContractInv, LocalsInv, DriverReports
<1>2. UNCHANGED <<frame, pc, result, setup, present, shown, closing>>
    BY DEF DriverReports, configuration
<1>3. Progress' = Progress /\ HasBegin' = HasBegin
    BY <1>2 DEF Progress, HasBegin
<1>4. /\ Held = [target |-> map.target, status |-> "reading"] /\ Held # NoMap
      /\ Held' = [target |-> map.target, status |-> status]
    <2>1. [target |-> map.target, status |-> map.status] # NoMap
        BY <1>1, AbsentAssumption DEF FlightMaps
    <2> QED
        BY <1>1, <2>1 DEF Held
<1>5. Held' = [Held EXCEPT !.status = status]
    BY <1>4
<1>6. Contract!Report(status)
    BY <1>2, <1>3, <1>4, <1>5 DEF Contract!Report, Contract!Frame
<1>7. status \in Contract!Reports
    BY DEF MapStatuses, Contract!Reports
<1> QED
    BY <1>6, <1>7 DEF Contract!Next

(* KeepsContract: whatever the display's mode, buffers and targets, and    *)
(* whatever frame failed before, its driver is handed one map at a time,   *)
(* all for the target it was told, end_frame only when all of them are     *)
(* back and good, and one closing call for each begin, but for the frames  *)
(* whose end_frame fails, which get abort_frame too.                       *)
THEOREM ContractKept == Spec => KeepsContract
<1>1. ContractInv /\ [Next]_vars => [Contract!Next \/ ClosesTwice]_(Contract!vars)
    <2> SUFFICES ASSUME ContractInv, [Next]_vars
                 PROVE  [Contract!Next \/ ClosesTwice]_(Contract!vars)
        OBVIOUS
    <2>1. CASE UNCHANGED vars
        BY <2>1 DEF vars, core, configuration, outside, Contract!vars, HasBegin, Held, Progress
    <2> QED
        BY <2>1, ContractConfigure, ContractBegin, ContractDamage, ContractTransaction,
           ContractClose, ContractReports DEF Next
<1> QED
    BY <1>1, ContractInit, ContractInvariant, PTL DEF Spec, KeepsContract
=============================================================================
