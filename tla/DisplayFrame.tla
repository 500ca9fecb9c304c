----------------------------- MODULE DisplayFrame -----------------------------
(***************************************************************************)
(* One display frame (src/pocketjs_display.c): render_internal with its    *)
(* three render modes, and the set_buffers, attach, detach, delete calls   *)
(* around it.  The owner renders strips into the caller's buffers and      *)
(* submits them as maps; the driver reads a map at a time of its own and   *)
(* puts it where its target shows.  The Core is FrameTransactions, which   *)
(* FrameCore implements; the handshake that ends a map is in               *)
(* FlushHandshake, and the driver here reports every map it reports at all *)
(* before the timeout.                                                     *)
(*                                                                         *)
(* A strip is what one chunk of a damage region covers; a region boundary  *)
(* is a strip boundary too.  An operator whose name begins Faulty<Name> is *)
(* <Name> with a slip a programmer could make; Next never uses it.         *)
(***************************************************************************)
EXTENDS Naturals, FiniteSets

CONSTANTS
  Strips,        \* the logical framebuffer, cut into strips: 1 .. their number
  Scenes,        \* what the UI can look like: functions from Strips to colors
  Setups,        \* the displays considered: [mode, buffer_count, driver]
  ModeChanges,   \* what set_buffers may change the mode of a used display from and to
  NoFrame,       \* no Core transaction
  Unknown,       \* an invalidated history
  Blank,         \* pixels nobody may rely on
  NoMap          \* the driver holds no map

Modes == {"PARTIAL", "DIRECT", "FULL"}

(* push: no begin_frame; every map goes straight to the one panel.         *)
(* single: begin_frame, one physical framebuffer, target 0.                *)
(* flip: begin_frame, two; it draws the one that is not shown, end_frame   *)
(* swaps them.                                                             *)
(* default: begin_frame, two; the targets stay as they come, and end_frame *)
(* shows the back one.                                                     *)
DriverKinds == {"push", "single", "flip", "default"}

ASSUME DisplayAssumption ==
  /\ Strips \subseteq Nat /\ IsFiniteSet(Strips) /\ Strips # {}
  /\ Setups \subseteq [mode : Modes, buffer_count : {1, 2}, driver : DriverKinds]
  /\ ModeChanges \subseteq Modes \X Modes
  /\ \A scene \in Scenes :
       scene = [k \in Strips |-> scene[k]] /\ \A k \in Strips : scene[k] # Blank
  /\ Unknown \notin Scenes

Targets == {0, 1}           \* POCKETJS_NATIVE_TARGET_COUNT
BufferIds == {0, 1}
Colors == {scene[k] : scene \in Scenes, k \in Strips}
Images == [Strips -> Colors \cup {Blank}]

(* reading: the driver may still look at the pixels; reported: it has      *)
(* answered with a status.  abandoned: the frame returned without waiting. *)
MapStatuses == {"reading", "OK", "FAIL", "TIMEOUT"}
FlightMaps == [buffer : BufferIds, strips : SUBSET Strips, target : Targets,
               status : MapStatuses, abandoned : BOOLEAN]

VARIABLES
  picture, open, history,     \* the Core
  setup,                      \* what set_buffers and set_callbacks configured
  attached,
  next_buffer,
  buffers,                    \* the caller's storage
  flush_inflight,
  map,                        \* the map the driver holds
  surface,                    \* physical framebuffer -> what it holds
  shown,                      \* the physical framebuffer on the glass
  pc,                         \* where the owner is in render_internal
  frame,                      \* the frame's front and back target
  todo,                       \* strips of the damage not yet submitted
  buffer,                     \* buffer_index
  present,
  result,                     \* what the frame (will have) returned
  closing,                    \* which of end_frame, abort_frame this frame called
  flush_failed                \* a map failed and no frame has succeeded since

core == <<picture, open, history>>
outside == <<map, surface, shown>>
configuration == <<setup, attached>>
vars == <<core, configuration, next_buffer, buffers, flush_inflight, outside, pc, frame, todo,
          buffer, present, result, closing, flush_failed>>

Core == INSTANCE FrameTransactions WITH
  Pictures <- Scenes,
  NoTransaction <- NoFrame

(* The absent transaction and the absent map are none.                     *)
ASSUME AbsentAssumption ==
  /\ NoFrame \notin Core!Transactions
  /\ NoMap \notin FlightMaps \cup [target : Targets, status : MapStatuses]

NoTargets == [front |-> 0, back |-> 0]

Init ==
  /\ Core!Init
  /\ setup \in Setups
  /\ attached = FALSE
  /\ next_buffer = 0
  /\ buffers = [b \in BufferIds |-> [k \in Strips |-> Blank]]
  /\ flush_inflight = FALSE
  /\ map = NoMap
  /\ surface = [t \in Targets |-> [k \in Strips |-> Blank]]
  /\ shown = 0
  /\ pc = "idle"
  /\ frame = NoTargets
  /\ todo = {}
  /\ buffer = 0
  /\ present = FALSE
  /\ result = "NONE"
  /\ closing = {}
  /\ flush_failed = FALSE

Mode == setup.mode
HasBegin == setup.driver # "push"
Goto(from, to) == pc = from /\ pc' = to
Frozen == UNCHANGED <<configuration, frame>>

------------------------------------------------------------------------------
(* Configuration.                                                          *)

(* set_buffers; the old storage goes back to the caller.                   *)
SetBuffers(new) ==
  /\ ~attached
  /\ new.driver = setup.driver
  /\ new.mode = setup.mode \/ <<setup.mode, new.mode>> \in ModeChanges
  /\ setup' = new
  /\ next_buffer' = 0
  /\ buffers' = [b \in BufferIds |-> [k \in Strips |-> Blank]]
  /\ UNCHANGED <<core, attached, flush_inflight, outside, pc, frame, todo, buffer, present,
                 result, closing, flush_failed>>

Attach ==
  /\ ~attached
  /\ attached' = TRUE
  /\ UNCHANGED <<core, setup, next_buffer, buffers, flush_inflight, outside, pc, frame, todo,
                 buffer, present, result, closing, flush_failed>>

Detach ==
  /\ attached /\ pc = "idle"
  /\ attached' = FALSE
  /\ UNCHANGED <<core, setup, next_buffer, buffers, flush_inflight, outside, pc, frame, todo,
                 buffer, present, result, closing, flush_failed>>

(* delete, then create and configure another display on the same panel.    *)
Recreate ==
  /\ ~attached /\ ~flush_inflight
  /\ next_buffer' = 0
  /\ buffers' = [b \in BufferIds |-> [k \in Strips |-> Blank]]
  /\ UNCHANGED <<core, configuration, flush_inflight, outside, pc, frame, todo, buffer, present,
                 result, closing, flush_failed>>

------------------------------------------------------------------------------
(* render_internal: the frame's targets and begin_frame.                   *)

DefaultFrame ==
  LET back == IF Mode = "DIRECT" THEN next_buffer ELSE 0 IN
  [front |-> IF ~HasBegin /\ Mode = "DIRECT" /\ setup.buffer_count = 2 THEN 1 - back ELSE 0,
   back |-> back]
DriverFrame == IF setup.driver = "flip" THEN [front |-> shown, back |-> 1 - shown]
               ELSE IF setup.driver = "single" THEN NoTargets ELSE DefaultFrame

(* The locals of render_internal and its callees, outside a frame.         *)
NoLocals == frame' = NoTargets /\ todo' = {} /\ buffer' = 0 /\ present' = FALSE

(* The scene of this frame is what JavaScript and the tick made of it.     *)
StartFrame ==
  /\ attached /\ pc = "idle"
  /\ Core!Change
  /\ closing' = {}
  /\ UNCHANGED <<configuration, next_buffer, buffers, flush_inflight, outside, flush_failed>>

BeginFrame ==
  /\ StartFrame
  /\ frame' = DriverFrame
  /\ present' = (Mode = "FULL")
  /\ buffer' = next_buffer
  /\ pc' = IF Mode = "FULL" THEN "full" ELSE "front"
  /\ result' = "OK"
  /\ UNCHANGED todo

(* begin_frame fails; or its target ids or alignments are rejected, which  *)
(* still is a frame begun.                                                 *)
BeginFrameFails ==
  /\ HasBegin
  /\ StartFrame
  /\ NoLocals
  /\ \E at \in {"idle", "closing"} : pc' = at
  /\ result' = "FAIL"

------------------------------------------------------------------------------
(* render_damage_frame.                                                    *)

(* The owner goes on to the callbacks that close the frame.                *)
Fail(from) == Goto(from, "closing") /\ result' = "FAIL"

Rest == <<next_buffer, buffers, flush_inflight, outside, buffer, closing, flush_failed>>

PrepareFront ==
  /\ Goto("front", "probe")
  /\ Core!Begin(frame.front)
  /\ Frozen /\ UNCHANGED <<Rest, todo, present, result>>

PrepareFails ==
  /\ Fail("front") \/ Fail("back")
  /\ Frozen /\ UNCHANGED <<core, Rest, todo, present>>

(* Nothing changed against the front target: the frame is not presented.   *)
CommitFront ==
  /\ pc = "probe" /\ ~open.damaged
  /\ \/ Core!Commit /\ Goto("probe", "closing") /\ UNCHANGED result
     \/ Core!Fail /\ Fail("probe")
  /\ Frozen /\ UNCHANGED <<Rest, todo, present>>

CancelFront ==
  /\ Goto("probe", "back")
  /\ open.damaged
  /\ Core!Cancel
  /\ Frozen /\ UNCHANGED <<Rest, todo, present, result>>

Differing(t) == {k \in Strips : history[t] = Unknown \/ history[t][k] # picture[k]}
MustWaitFirst == setup.buffer_count = 1 \/ Mode = "DIRECT"
NextStrip(inflight) == IF MustWaitFirst /\ inflight THEN "before" ELSE "render"

(* The plan for the back target, expanded and aligned: at least what       *)
(* differs.  In DIRECT mode the back target selects the buffer.            *)
PrepareBack ==
  /\ pc = "back"
  /\ Core!Begin(frame.back)
  /\ \E plan \in SUBSET Strips :
       /\ Differing(frame.back) \subseteq plan
       /\ (plan = {}) <=> (Differing(frame.back) = {})
       /\ todo' = plan
       /\ pc' = IF plan = {} THEN "commit" ELSE NextStrip(flush_inflight)
  /\ buffer' = IF Mode # "DIRECT" THEN next_buffer
               ELSE IF setup.buffer_count = 1 THEN 0 ELSE frame.back
  /\ Frozen /\ UNCHANGED <<next_buffer, buffers, flush_inflight, outside, closing, flush_failed,
                           present, result>>

(* The damage does not fit its array or the buffer holds no aligned strip. *)
PlanRefused ==
  /\ Fail("back")
  /\ open = NoFrame /\ Differing(frame.back) # {}
  /\ Core!Forget(frame.back)
  /\ Frozen /\ UNCHANGED <<Rest, todo, present>>

(* commit_rgb565_frame of the back target; when it fails the history is    *)
(* dropped, then once more by the abort.                                   *)
CommitBack ==
  /\ pc = "commit"
  /\ \/ /\ Core!Commit /\ Goto("commit", "closing")
        /\ present' = TRUE
        /\ UNCHANGED result
     \/ Core!Fail /\ Fail("commit") /\ UNCHANGED present
  /\ Frozen /\ UNCHANGED <<Rest, todo>>

------------------------------------------------------------------------------
(* render_transaction: a strip is rendered, the map before it waited for,  *)
(* and its own map submitted.                                              *)

(* A failure in here aborts the transaction; a FULL frame has none.        *)
FaultyAbandonFrame(from) == Fail(from) /\ UNCHANGED core
FaultyAbandonFrameCancels(from) ==
  /\ Fail(from)
  /\ IF Mode = "FULL" THEN UNCHANGED core ELSE Core!Cancel
AbandonFrame(from) ==
  /\ Fail(from)
  /\ IF Mode = "FULL" THEN UNCHANGED core ELSE Core!Forget(frame.back)

CurrentStrip == CHOOSE k \in todo : \A j \in todo : k <= j
Area == IF Mode = "FULL" THEN Strips ELSE {CurrentStrip}

(* PARTIAL strips start at the base of their buffer, the others lie where  *)
(* they belong in a whole framebuffer.                                     *)
Rendered ==
  [k \in Strips |-> IF k \in Area THEN picture[k]
                    ELSE IF Mode = "PARTIAL" THEN Blank ELSE buffers[buffer][k]]

Render ==
  /\ \/ pc = "render" /\ pc' = IF flush_inflight THEN "after" ELSE "submit"
     \/ Goto("full", "submit")
  /\ buffers' = [buffers EXCEPT ![buffer] = Rendered]
  /\ Frozen /\ UNCHANGED <<core, next_buffer, flush_inflight, outside, todo, buffer, present,
                           result, closing, flush_failed>>

RenderFails ==
  /\ AbandonFrame("render") \/ AbandonFrame("full")
  /\ Frozen /\ UNCHANGED <<Rest, todo, present>>

(* wait_for_flush returns the driver's verdict.                            *)
Waited == [before |-> "render", after |-> "submit"]
FlushEnds ==
  /\ map.status # "reading"
  /\ flush_inflight' = FALSE
  /\ map' = NoMap
  /\ flush_failed' = IF map.status = "OK" THEN flush_failed ELSE TRUE
  /\ UNCHANGED <<surface, shown>>

FaultyWaitForFlush ==
  /\ pc \in {"before", "after"}
  /\ pc' = Waited[pc]
  /\ flush_inflight' = FALSE
  /\ Frozen /\ UNCHANGED <<core, outside, next_buffer, buffers, todo, buffer, present, result,
                           closing, flush_failed>>
WaitForFlush ==
  /\ pc \in {"before", "after"}
  /\ FlushEnds
  /\ IF map.status = "OK" THEN pc' = Waited[pc] /\ UNCHANGED <<core, result>>
     ELSE AbandonFrame(pc)
  /\ Frozen /\ UNCHANGED <<next_buffer, buffers, todo, buffer, present, closing>>

(* After the last wait; in PARTIAL mode buffer_index has moved on already. *)
FaultyNextBuffer == buffer + 1
NextBuffer == IF Mode = "PARTIAL" THEN buffer ELSE (buffer + 1) % setup.buffer_count

FaultyLastWait ==
  /\ pc = "final"
  /\ FlushEnds
  /\ pc' = (IF Mode = "FULL" THEN "closing" ELSE "commit")
  /\ next_buffer' = NextBuffer
  /\ UNCHANGED <<core, result>>
  /\ Frozen /\ UNCHANGED <<buffers, todo, buffer, present, closing>>
LastWait ==
  /\ pc = "final"
  /\ FlushEnds
  /\ IF map.status = "OK"
     THEN /\ pc' = IF Mode = "FULL" THEN "closing" ELSE "commit"
          /\ next_buffer' = NextBuffer
          /\ UNCHANGED <<core, result>>
     ELSE AbandonFrame("final") /\ UNCHANGED next_buffer
  /\ Frozen /\ UNCHANGED <<buffers, todo, buffer, present, closing>>

(* submit_flush: refused while another map is out, or by the driver.       *)
FaultyRemaining == todo
Remaining == todo \ Area
Submit ==
  /\ pc = "submit" /\ ~flush_inflight
  /\ flush_inflight' = TRUE
  /\ map' = [buffer |-> buffer, strips |-> Area, target |-> frame.back, status |-> "reading",
             abandoned |-> FALSE]
  /\ todo' = Remaining
  /\ buffer' = IF Mode = "PARTIAL" THEN (buffer + 1) % setup.buffer_count ELSE buffer
  /\ pc' = IF todo' = {} THEN "final" ELSE NextStrip(TRUE)
  /\ Frozen /\ UNCHANGED <<core, next_buffer, buffers, surface, shown, present, result, closing,
                           flush_failed>>

SubmitFails ==
  /\ AbandonFrame("submit")
  /\ Frozen /\ UNCHANGED <<next_buffer, buffers, flush_inflight, outside, todo, buffer, present,
                           closing, flush_failed>>

------------------------------------------------------------------------------
(* render_internal: end_frame, abort_frame, return.                        *)

(* A map left in flight by a frame that returns is an abandoned one.       *)
Returned ==
  /\ Goto("closing", "idle")
  /\ map' = IF map = NoMap THEN NoMap ELSE [map EXCEPT !.abandoned = TRUE]
  /\ NoLocals
  /\ UNCHANGED <<configuration, next_buffer, buffers, flush_inflight>>

Recovered == flush_failed' = IF result = "OK" THEN FALSE ELSE flush_failed

Return ==
  /\ ~HasBegin
  /\ Returned /\ Recovered
  /\ UNCHANGED <<core, surface, shown, result, closing>>

NeedsEnd == HasBegin /\ result = "OK" /\ present
EndFrame ==
  /\ NeedsEnd
  /\ Returned /\ Recovered
  /\ shown' = frame.back
  /\ closing' = {"end"}
  /\ UNCHANGED <<core, surface, result>>

(* end_frame fails, and what its framebuffer holds by then is anyone's     *)
(* guess: the history just committed is dropped and abort_frame called as  *)
(* well.                                                                   *)
FaultyForgetCommitted == UNCHANGED core
ForgetCommitted == Core!Forget(frame.back)
EndFrameFails ==
  /\ NeedsEnd
  /\ Returned
  /\ ForgetCommitted
  /\ surface' = [surface EXCEPT ![frame.back] = [k \in Strips |-> Blank]]
  /\ result' = "FAIL"
  /\ closing' = {"end", "abort"}
  /\ UNCHANGED <<shown, flush_failed>>

AbortFrame ==
  /\ HasBegin /\ ~NeedsEnd
  /\ Returned /\ Recovered
  /\ closing' = {"abort"}
  /\ UNCHANGED <<core, surface, shown, result>>

------------------------------------------------------------------------------
(* The driver (board code): it reads the map and puts it on the target's   *)
(* framebuffer, or fails, or never reports.                                *)

Flips == setup.driver \in {"flip", "default"}
Physical(target) == IF Flips THEN target ELSE 0

DriverReports(status) ==
  /\ map # NoMap /\ map.status = "reading"
  /\ map' = [map EXCEPT !.status = status]
  /\ surface' = [surface EXCEPT ![Physical(map.target)] = [k \in Strips |->
                   IF k \notin map.strips THEN @[k]
                   ELSE IF status = "OK" THEN buffers[map.buffer][k] ELSE Blank]]
  /\ UNCHANGED <<core, configuration, next_buffer, buffers, flush_inflight, shown, pc, frame,
                 todo, buffer, present, result, closing, flush_failed>>

Configure == Attach \/ Detach \/ Recreate \/ \E new \in Setups : SetBuffers(new)
Begin == BeginFrame \/ BeginFrameFails
Damage == PrepareFront \/ PrepareFails \/ CommitFront \/ CancelFront \/ PrepareBack
          \/ PlanRefused \/ CommitBack
Transaction == Render \/ RenderFails \/ WaitForFlush \/ LastWait \/ Submit \/ SubmitFails
Close == Return \/ EndFrame \/ EndFrameFails \/ AbortFrame
Reports == \E status \in MapStatuses \ {"reading"} : DriverReports(status)

Next == Configure \/ Begin \/ Damage \/ Transaction \/ Close \/ Reports

Spec == Init /\ [][Next]_vars

(* The owner task runs on, and a map is reported or its timeout expires.   *)
OwnerRuns == Damage \/ Transaction \/ Close
FairSpec == Spec /\ WF_vars(OwnerRuns) /\ WF_vars(Reports)

------------------------------------------------------------------------------
(* Properties.                                                             *)

(* Types of the state.                                                     *)
TypeOK ==
  /\ picture \in Scenes
  /\ open \in Core!Transactions \cup {NoFrame}
  /\ history \in [Targets -> Scenes \cup {Unknown}]
  /\ setup \in Setups
  /\ attached \in BOOLEAN
  /\ next_buffer \in 0 .. setup.buffer_count - 1
  /\ buffers \in [BufferIds -> Images]
  /\ flush_inflight \in BOOLEAN
  /\ map \in FlightMaps \cup {NoMap}
  /\ surface \in [Targets -> Images]
  /\ shown \in Targets
  /\ pc \in {"idle", "front", "probe", "back", "before", "render", "full", "after", "submit",
             "final", "commit", "closing"}
  /\ frame \in [front : Targets, back : Targets]
  /\ todo \subseteq Strips
  /\ buffer \in BufferIds
  /\ present \in BOOLEAN
  /\ result \in {"NONE", "OK", "FAIL"}
  /\ closing \subseteq {"end", "abort"}
  /\ flush_failed \in BOOLEAN

(* Between frames, a target's valid history is what its framebuffer really *)
(* holds, strip by strip, whatever failed on the way: so a damage plan     *)
(* that is empty has nothing left to draw.  FULL frames keep no history.   *)
HistoryIsDrawn ==
  pc = "idle" /\ Mode # "FULL" =>
    \A t \in Targets : history[t] # Unknown => surface[Physical(t)] = history[t]

(* A frame that returned success left its own scene on the glass, whether  *)
(* it redrew, found nothing to redraw, or followed failed frames.  With    *)
(* the default targets this is so for presented frames only: an unchanged  *)
(* one has been compared with target 0, whichever is shown.                *)
ShownAfterSuccess ==
  pc = "idle" /\ result = "OK" /\ (setup.driver = "default" => closing = {"end"}) =>
    surface[IF HasBegin THEN shown ELSE 0] = picture

(* The display changes no pixel of a submitted map before the driver has   *)
(* reported it, although rendering overlaps the flush.                     *)
Untouched == pc # "idle" /\ map # NoMap /\ map.status = "reading" =>
               \A k \in map.strips : buffers'[map.buffer][k] = buffers[map.buffer][k]
SubmittedPixelsImmutable == [][Untouched]_vars

(* The same for frames that follow no abandoned map.                       *)
OverlapIsSafe == [][map # NoMap /\ ~map.abandoned => Untouched]_vars

(* A frame leaves nothing open on any of its paths: no Core transaction,   *)
(* which would turn down every later prepare, and with a driver that was   *)
(* told of its begin, a success has exactly one of end and abort.          *)
NothingLeftOpen ==
  pc = "idle" =>
    /\ open = NoFrame
    /\ HasBegin /\ result = "OK" => closing \in {{"end"}, {"abort"}}

(* The next successful frame after a failed flush redraws: it is not taken *)
(* for an unchanged one.                                                   *)
RedrawAfterFailure ==
  [][pc = "closing" /\ pc' = "idle" /\ flush_failed /\ ~flush_failed' => present]_vars

(* What is true of it, with one framebuffer: after a failed flush no frame *)
(* succeeds but one that draws all of the scene again, and presents it.    *)
FailureIsRedrawn ==
  [][~Flips /\ flush_failed =>
       /\ pc = "closing" /\ pc' = "idle" /\ result' = "OK" => present
       /\ PrepareBack => todo' = Strips]_vars

(* How far a frame has come for its driver.                                *)
Progress ==
  IF pc = "idle" THEN "idle"
  ELSE IF pc \in {"front", "probe"} THEN "comparing"
  ELSE IF pc # "closing" THEN "drawing"
  ELSE IF result # "OK" THEN "failed"
  ELSE IF present THEN "drawn" ELSE "unchanged"

Held == IF map = NoMap THEN NoMap ELSE [target |-> map.target, status |-> map.status]

Contract == INSTANCE DriverContract WITH
  framed <- HasBegin,
  phase <- Progress,
  target <- frame.back,
  flight <- Held

(* A failed end_frame is followed by abort_frame: two closing calls for    *)
(* one begin, and nothing else that the contract does not have.            *)
ClosesTwice ==
  /\ EndFrameFails /\ HasBegin
  /\ Contract!Close({"drawn"}, {"end", "abort"}) /\ UNCHANGED shown

(* What the driver's callbacks are promised: one map at a time, all of one *)
(* target, none after one that failed; end_frame only for a frame of which *)
(* every map is back and good, a map left over from an earlier frame       *)
(* included; and for every begin exactly one of end_frame and abort_frame, *)
(* unless end_frame fails: there the program departs from the contract.    *)
KeepsContract == Contract!Init /\ [][Contract!Next \/ ClosesTwice]_(Contract!vars)

(* A frame ends, whatever the driver does with the maps.                   *)
FrameEnds == (pc # "idle") ~> (pc = "idle")
=============================================================================
