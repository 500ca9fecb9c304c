--------------------------- MODULE FrameCoreProofs ---------------------------
(***************************************************************************)
(* FrameCore for every set of scenes, every hash, every epoch width and    *)
(* any number of targets: the state keeps its types, a reused draw list is *)
(* fresh, a transaction shows one scene, and the whole is an               *)
(* implementation of FrameTransactions.                                    *)
(***************************************************************************)
EXTENDS FrameCore, SequenceTheorems, TLAPS

USE FrameAssumption

TableEntries == [address : Addresses, state : Pictures \cup {Invalid}]

------------------------------------------------------------------------------
(* Lemmas about the operators.                                             *)

(* A picture or a fingerprint of any draw list is well formed.             *)
LEMMA ShowsType ==
  ASSUME TypeOK, NEW words \in DrawLists
  PROVE  Shows(words) \in Pictures
  BY DEF Shows, TypeOK, Pictures

LEMMA CaptureType ==
  ASSUME TypeOK, NEW words \in DrawLists
  PROVE  Capture(words) \in Fingerprints
  BY DEF Capture, TypeOK, Fingerprints

(* The epoch wraps instead of leaving its width.                           *)
LEMMA WrappedType ==
  ASSUME NEW epoch \in 0 .. EpochMod - 1
  PROVE  Wrapped(epoch) \in 0 .. EpochMod - 1
  BY DEF Wrapped

(* A cached list that still matches was captured at the current epoch.     *)
LEMMA MatchedEpoch ==
  ASSUME NEW fingerprint, MatchesCached(fingerprint)
  PROVE  fingerprint.mutation_epoch = mutation_epoch
  BY DEF MatchesCached, Capture

(* Invalidating the reuse keeps a pending frame a pending frame.           *)
LEMMA InvalidateType ==
  ASSUME TypeOK, InvalidateFrameReuse
  PROVE  /\ pending_frame' \in PendingFrames \cup {NoFrame}
         /\ reusable_frame' \in Fingerprints \cup {NoFrame}
  BY DEF TypeOK, InvalidateFrameReuse, PendingFrames

(* What the entries of the table are.                                      *)
LEMMA TableElements ==
  ASSUME RenderTargetTable
  PROVE  /\ DOMAIN render_targets = 1 .. Len(render_targets)
         /\ Len(render_targets) \in Nat
         /\ render_targets \in [DOMAIN render_targets -> TableEntries]
         /\ \A i \in DOMAIN render_targets :
               /\ render_targets[i] \in TableEntries
               /\ render_targets[i].address \in Addresses
               /\ render_targets[i].state \in Pictures \cup {Invalid}
<1>1. render_targets \in Seq(TableEntries)
  BY DEF RenderTargetTable, TableEntries
<1>2. /\ DOMAIN render_targets = 1 .. Len(render_targets)
      /\ Len(render_targets) \in Nat
      /\ render_targets \in [DOMAIN render_targets -> TableEntries]
  BY <1>1, LenProperties
<1>3. QED
  BY <1>2 DEF TableEntries

(* Rewriting the states of tracked framebuffers keeps the table a table.   *)
LEMMA TableMap ==
  ASSUME RenderTargetTable,
         render_targets' \in [DOMAIN render_targets -> TableEntries],
         \A i \in DOMAIN render_targets :
            render_targets'[i].address = render_targets[i].address
  PROVE  RenderTargetTable'
<1>1. DOMAIN render_targets = 1 .. Len(render_targets) /\ Len(render_targets) \in Nat
  BY TableElements
<1>2. render_targets' \in Seq(TableEntries)
  BY <1>1, SeqDef
<1>3. DOMAIN render_targets' = DOMAIN render_targets /\ Len(render_targets') = Len(render_targets)
  BY <1>1, <1>2, LenProperties
<1>4. QED
  BY <1>2, <1>3 DEF RenderTargetTable, TableEntries

(* Looking a framebuffer up, adding it or evicting the oldest keeps it too. *)
LEMMA TableWithState ==
  ASSUME RenderTargetTable, NEW a \in Addresses, NEW state \in Pictures \cup {Invalid},
         render_targets' = WithState(a, state)
  PROVE  RenderTargetTable'
<1>1. CASE Tracked(a) # {}
  <2>1. render_targets' = [i \in DOMAIN render_targets |->
          IF i \in Tracked(a) THEN [address |-> a, state |-> state] ELSE render_targets[i]]
    BY <1>1 DEF WithState
  <2>2. \A i \in DOMAIN render_targets : render_targets[i] \in TableEntries
    BY TableElements
  <2>3. render_targets' \in [DOMAIN render_targets -> TableEntries]
    BY <2>1, <2>2 DEF TableEntries
  <2>4. \A i \in DOMAIN render_targets : render_targets'[i].address = render_targets[i].address
    BY <2>1 DEF Tracked
  <2>5. QED
    BY <2>3, <2>4, TableMap
<1>2. CASE Tracked(a) = {}
  <2> DEFINE kept == IF Len(render_targets) = MaxRenderTargets THEN Tail(render_targets)
                     ELSE render_targets
  <2>1. \A i \in DOMAIN render_targets : render_targets[i].address # a
    BY <1>2 DEF Tracked
  <2>2. /\ kept \in Seq(TableEntries)
        /\ Len(kept) < MaxRenderTargets
        /\ \A i \in DOMAIN kept : kept[i].address # a
        /\ \A i, j \in DOMAIN kept : kept[i].address = kept[j].address => i = j
    <3>1. CASE Len(render_targets) = MaxRenderTargets
      BY <2>1, <3>1 DEF RenderTargetTable, TableEntries
    <3>2. CASE Len(render_targets) # MaxRenderTargets
      BY <2>1, <3>2 DEF RenderTargetTable, TableEntries
    <3>3. QED
      BY <3>1, <3>2
  <2>3. render_targets' = Append(kept, [address |-> a, state |-> state])
    BY <1>2 DEF WithState
  <2> HIDE DEF kept
  <2>4. QED
    BY <2>2, <2>3 DEF RenderTargetTable, TableEntries
<1>3. QED
  BY <1>1, <1>2

------------------------------------------------------------------------------
(* Types.                                                                  *)

(* The state keeps its types: the epoch never leaves its width, however    *)
(* many mutations wrap it, and the table of rendered framebuffers never    *)
(* outgrows MAX_RENDER_TARGETS nor tracks a framebuffer twice.             *)
THEOREM TypeCorrect == Spec => []TypeOK
<1>1. Init => TypeOK
  <2> SUFFICES ASSUME Init PROVE TypeOK
    OBVIOUS
  <2>1. RenderTargetTable
    BY EmptySeq DEF Init, RenderTargetTable
  <2>2. mutation_epoch \in 0 .. EpochMod - 1 /\ resources \in 0 .. MaxLoads
    BY DEF Init
  <2>3. framebuffer \in [Addresses -> Pictures \cup {Invalid}]
        /\ frame_targets \in [FrameTargets -> Pictures \cup {Invalid}]
    BY DEF Init
  <2>4. QED
    BY <2>1, <2>2, <2>3 DEF Init, TypeOK, DrawLists
<1>2. TypeOK /\ [Next]_vars => TypeOK'
  <2> SUFFICES ASSUME TypeOK, [Next]_vars PROVE TypeOK'
    OBVIOUS
  <2> USE DEF TypeOK
  <2>a. ui.words \in DrawLists /\ draw_list \in DrawLists
    BY DEF DrawLists
  <2>1. CASE MutateUi
    <3>1. mutation_epoch' \in 0 .. EpochMod - 1
      BY <2>1, WrappedType DEF MutateUi, MarkUiMutated
    <3>2. pending_frame' \in PendingFrames \cup {NoFrame}
      <4>1. CASE pending_frame # NoFrame
        <5>1. pending_frame \in PendingFrames /\ pending_frame.mutations + 1 \in 0 .. EpochMod - 1
          BY <2>1, <4>1 DEF MutateUi, MarkUiMutated, PendingFrames
        <5>2. pending_frame' = [pending_frame EXCEPT !.cancel_reusable = FALSE,
                                  !.mutations = pending_frame.mutations + 1]
          BY <2>1, <4>1, <5>1 DEF MutateUi, MarkUiMutated, PendingFrames
        <5>3. QED
          BY <5>1, <5>2 DEF PendingFrames
      <4>2. QED
        BY <2>1, <4>1 DEF MutateUi, MarkUiMutated
    <3>3. QED
      BY <2>1, <3>1, <3>2 DEF MutateUi, MarkUiMutated, direct, RenderTargetTable
  <2>2. CASE LoadResources
    <3>1. render_targets' = [i \in DOMAIN render_targets |->
                               [render_targets[i] EXCEPT !.state = Invalid]]
      BY <2>2 DEF LoadResources, InvalidateRenderResources, ForgottenTargets
    <3>2. RenderTargetTable'
      BY <3>1, TableElements, TableMap DEF TableEntries
    <3>3. QED
      BY <2>2, <3>2, WrappedType DEF LoadResources, InvalidateRenderResources
  <2>3. CASE Query
    BY <2>3, InvalidateType DEF Query, direct, RenderTargetTable
  <2>4. CASE HashDrawList
    BY <2>a, <2>4, InvalidateType DEF HashDrawList, direct, RenderTargetTable
  <2>5. ASSUME NEW a \in Addresses, NEW incremental \in BOOLEAN, NEW made \in BOOLEAN,
               NEW drawn \in BOOLEAN, RenderRgb565(a, incremental, made, drawn)
        PROVE  TypeOK'
    <3>1. Shows(ui.words) \in Pictures /\ Patched(a, Shows(ui.words)) \in Pictures \cup {Invalid}
      BY <2>a, ShowsType DEF Patched
    <3>2. TargetState(a) \in Pictures \cup {Invalid}
      BY TableElements DEF TargetState, Tracked
    <3>3. RenderTargetTable'
      <4>1. CASE incremental /\ RendererFrom(made)
        BY <2>5, <3>1, <3>2, <4>1, TableWithState DEF RenderRgb565
      <4>2. CASE render_targets' = AfterFullRender(a)
        <5>1. render_targets' \in [DOMAIN render_targets -> TableEntries]
          BY <4>2, TableElements DEF AfterFullRender, TableEntries
        <5>2. \A i \in DOMAIN render_targets : render_targets'[i].address = render_targets[i].address
          BY <4>2, TableElements DEF AfterFullRender, TableEntries
        <5>3. QED
          BY <5>1, <5>2, TableMap
      <4>3. CASE render_targets' = render_targets
        BY <4>3 DEF RenderTargetTable
      <4>4. QED
        BY <2>5, <4>1, <4>2, <4>3 DEF RenderRgb565
    <3>4. framebuffer' \in [Addresses -> Pictures \cup {Invalid}]
      BY <2>5, <3>1 DEF RenderRgb565
    <3>5. QED
      BY <2>a, <2>5, <3>3, <3>4, InvalidateType DEF RenderRgb565, RendererFrom
  <2>6. ASSUME NEW t \in TargetIds, NEW made \in BOOLEAN, NEW planned \in BOOLEAN,
               Prepare(t, made, planned)
        PROVE  TypeOK'
    <3>1. PreparedWords \in DrawLists
      BY <2>a DEF PreparedWords
    <3>2. Capture(PreparedWords) \in Fingerprints /\ Shows(ui.words) \in Pictures
      BY <2>a, <3>1, CaptureType, ShowsType
    <3>3. pending_frame' \in PendingFrames \cup {NoFrame}
      BY <2>6, <3>2 DEF Prepare, PendingFrames
    <3>4. QED
      BY <2>6, <3>1, <3>3 DEF Prepare, RendererFrom, direct, RenderTargetTable
  <2>7. ASSUME NEW t \in TargetIds, PrepareRejected(t)
        PROVE  TypeOK'
    BY <2>7, InvalidateType DEF PrepareRejected, direct, RenderTargetTable
  <2>8. ASSUME NEW drawn \in BOOLEAN, RenderStrip(drawn)
        PROVE  TypeOK'
    BY <2>8 DEF RenderStrip, direct, RenderTargetTable, PendingFrames
  <2>9. ASSUME NEW t \in TargetIds, NEW recorded \in BOOLEAN, Commit(t, recorded)
        PROVE  TypeOK'
    <3>1. Shows(draw_list) \in Pictures
      BY ShowsType
    <3>2. QED
      BY <2>9, <3>1 DEF Commit, direct, RenderTargetTable, PendingFrames
  <2>10. ASSUME NEW t \in TargetIds, Cancel(t)
         PROVE  TypeOK'
    BY <2>10, InvalidateType DEF Cancel, direct, RenderTargetTable, PendingFrames
  <2>11. ASSUME NEW t \in TargetIds, Abort(t)
         PROVE  TypeOK'
    BY <2>11 DEF Abort, direct, RenderTargetTable, PendingFrames
  <2>12. CASE UNCHANGED vars
    BY <2>12 DEF vars, RenderTargetTable
  <2>13. QED
    BY <2>1, <2>2, <2>3, <2>4, <2>5, <2>6, <2>7, <2>8, <2>9, <2>10, <2>11, <2>12 DEF Next
<1>3. QED
  BY <1>1, <1>2, PTL DEF Spec

------------------------------------------------------------------------------
(* Fresh draw lists and exact transactions.                                *)

(* A frame whose fingerprint still matches has seen no mutation: the epoch *)
(* cannot have come back round, so nothing rests on the hash.              *)
LEMMA MatchedIsUnmutated ==
  ASSUME TypeOK, PendingIsSound, pending_frame # NoFrame,
         MatchesCached(pending_frame.fingerprint)
  PROVE  /\ pending_frame.mutations = 0
         /\ pending_frame.picture = Shows(ui.words)
         /\ draw_list = ui.words
<1>1. pending_frame.mutations \in 0 .. EpochMod - 1
      /\ pending_frame.fingerprint.mutation_epoch \in 0 .. EpochMod - 1
  BY DEF TypeOK, PendingFrames, Fingerprints
<1>2. pending_frame.fingerprint.mutation_epoch = mutation_epoch
  BY MatchedEpoch
<1>3. pending_frame.mutations = 0
  BY <1>1, <1>2 DEF PendingIsSound
<1>4. QED
  BY <1>3 DEF PendingIsSound

(* With a fresh token or without one, prepare plans for the current scene. *)
LEMMA PreparedIsCurrent ==
  ASSUME TokenIsFresh
  PROVE  PreparedWords = ui.words
  BY DEF PreparedWords, TokenIsFresh

(* What the calls that only invalidate the reuse leave as it was.          *)
LEMMA InvalidatedIsSound ==
  ASSUME TypeOK, PendingIsSound, OneSceneOnStrips, InvalidateFrameReuse,
         UNCHANGED <<ui, resources, mutation_epoch>>,
         draw_list' \in {draw_list, ui.words},
         renderer => renderer'
  PROVE  CachedListIsFresh' /\ OneSceneOnStrips'
<1>1. reusable_frame' = NoFrame
  BY DEF InvalidateFrameReuse
<1>2. CASE pending_frame = NoFrame
  BY <1>1, <1>2 DEF InvalidateFrameReuse, CachedListIsFresh, TokenIsFresh, PendingIsSound,
                    OneSceneOnStrips
<1>3. CASE pending_frame # NoFrame
  <2>1. /\ pending_frame \in PendingFrames
        /\ pending_frame' = [pending_frame EXCEPT !.cancel_reusable = FALSE]
    BY <1>3 DEF InvalidateFrameReuse, TypeOK
  <2>2. /\ pending_frame'.fingerprint = pending_frame.fingerprint
        /\ pending_frame'.picture = pending_frame.picture
        /\ pending_frame'.mutations = pending_frame.mutations
        /\ pending_frame'.strips = pending_frame.strips
    BY <2>1 DEF PendingFrames
  <2>3. Shows(ui.words)' = Shows(ui.words)
    BY DEF Shows
  <2>4. QED
    BY <1>1, <1>3, <2>2, <2>3 DEF CachedListIsFresh, TokenIsFresh, PendingIsSound, OneSceneOnStrips
<1>4. QED
  BY <1>2, <1>3

Fresh == TypeOK /\ CachedListIsFresh /\ OneSceneOnStrips

LEMMA FreshStep ==
  ASSUME Fresh, [Next]_vars
  PROVE  CachedListIsFresh' /\ OneSceneOnStrips'
<1> USE DEF Fresh, CachedListIsFresh
<1>a. CASE pending_frame' = NoFrame /\ reusable_frame' = NoFrame
  BY <1>a DEF TokenIsFresh, PendingIsSound, OneSceneOnStrips
<1>1. CASE MutateUi
  <2>1. reusable_frame' = NoFrame
    BY <1>1 DEF MutateUi, MarkUiMutated
  <2>2. CASE pending_frame = NoFrame
    BY <1>a, <1>1, <2>1, <2>2 DEF MutateUi, MarkUiMutated
  <2>3. CASE pending_frame # NoFrame
    <3> DEFINE epoch == pending_frame.fingerprint.mutation_epoch
               count == pending_frame.mutations
    <3>1. /\ pending_frame \in PendingFrames
          /\ pending_frame' = [pending_frame EXCEPT !.cancel_reusable = FALSE,
                                                    !.mutations = @ + 1]
      BY <1>1, <2>3 DEF MutateUi, MarkUiMutated, TypeOK
    <3>2. /\ pending_frame'.fingerprint.mutation_epoch = epoch
          /\ pending_frame'.picture = pending_frame.picture
          /\ pending_frame'.mutations = count + 1
          /\ pending_frame'.strips = pending_frame.strips
          /\ epoch \in 0 .. EpochMod - 1
          /\ count \in 0 .. EpochMod - 1
      BY <3>1 DEF PendingFrames, Fingerprints
    <3>3. count < EpochMod - 1
      BY <1>1, <2>3 DEF MutateUi, MarkUiMutated
    <3>4. mutation_epoch' = IF epoch + (count + 1) < EpochMod THEN epoch + (count + 1)
                            ELSE epoch + (count + 1) - EpochMod
      <4>1. mutation_epoch' = IF mutation_epoch = EpochMod - 1 THEN 0 ELSE mutation_epoch + 1
        BY <1>1 DEF MutateUi, MarkUiMutated, Wrapped
      <4>2. mutation_epoch = IF epoch + count < EpochMod THEN epoch + count
                             ELSE epoch + count - EpochMod
        <5>1. PendingIsSound
          OBVIOUS
        <5>2. QED
          BY <2>3, <3>2, <5>1 DEF PendingIsSound
      <4> HIDE DEF epoch, count
      <4>3. QED
        BY <3>2, <3>3, <4>1, <4>2
    <3>5. resources' = resources /\ renderer' = renderer
      BY <1>1 DEF MutateUi
    <3>6. PendingIsSound'
      BY <2>3, <3>2, <3>4, <3>5 DEF PendingIsSound
    <3>7. QED
      BY <2>1, <2>3, <3>2, <3>6 DEF TokenIsFresh, OneSceneOnStrips
  <2>4. QED
    BY <2>2, <2>3
<1>2. CASE LoadResources
  BY <1>a, <1>2 DEF LoadResources, InvalidateRenderResources
<1>3. CASE Query
  BY <1>3, InvalidatedIsSound DEF Query
<1>4. CASE HashDrawList
  BY <1>4, InvalidatedIsSound DEF HashDrawList
<1>5. ASSUME NEW a \in Addresses, NEW incremental \in BOOLEAN, NEW made \in BOOLEAN,
             NEW drawn \in BOOLEAN, RenderRgb565(a, incremental, made, drawn)
      PROVE  CachedListIsFresh' /\ OneSceneOnStrips'
  BY <1>5, InvalidatedIsSound DEF RenderRgb565, RendererFrom
<1>6. ASSUME NEW t \in TargetIds, NEW made \in BOOLEAN, NEW planned \in BOOLEAN,
             Prepare(t, made, planned)
      PROVE  CachedListIsFresh' /\ OneSceneOnStrips'
  <2>1. CASE renderer' /\ planned
    <3>1. PreparedWords = ui.words
      BY PreparedIsCurrent
    <3>2. /\ pending_frame'.fingerprint.mutation_epoch = mutation_epoch
          /\ pending_frame'.picture = Shows(ui.words)
          /\ pending_frame'.strips = {}
          /\ pending_frame'.mutations = 0
          /\ Shows(ui.words)' = Shows(ui.words)
      BY <1>6, <2>1 DEF Prepare, Capture, Shows
    <3>3. PendingIsSound'
      BY <1>6, <2>1, <3>1, <3>2 DEF Prepare, PendingIsSound, TypeOK, Shows
    <3>4. QED
      BY <1>6, <3>2, <3>3 DEF Prepare, TokenIsFresh, OneSceneOnStrips
  <2>2. CASE ~(renderer' /\ planned)
    BY <1>a, <1>6, <2>2 DEF Prepare
  <2>3. QED
    BY <2>1, <2>2
<1>7. ASSUME NEW t \in TargetIds, PrepareRejected(t)
      PROVE  CachedListIsFresh' /\ OneSceneOnStrips'
  BY <1>7, InvalidatedIsSound DEF PrepareRejected
<1>8. ASSUME NEW drawn \in BOOLEAN, RenderStrip(drawn)
      PROVE  CachedListIsFresh' /\ OneSceneOnStrips'
  <2>1. CASE pending_frame = NoFrame
    BY <1>a, <1>8, <2>1 DEF RenderStrip
  <2>2. CASE pending_frame # NoFrame
    <3>1. /\ pending_frame \in PendingFrames
          /\ pending_frame' = [pending_frame EXCEPT !.cancel_reusable = FALSE,
               !.strips = IF drawn /\ StripAllowed THEN @ \cup {draw_list} ELSE @]
      BY <1>8, <2>2 DEF RenderStrip, TypeOK
    <3>2. /\ pending_frame'.fingerprint = pending_frame.fingerprint
          /\ pending_frame'.picture = pending_frame.picture
          /\ pending_frame'.mutations = pending_frame.mutations
          /\ pending_frame'.strips = IF drawn /\ StripAllowed
                                     THEN pending_frame.strips \cup {draw_list}
                                     ELSE pending_frame.strips
      BY <3>1 DEF PendingFrames
    <3>3. StripAllowed => draw_list = pending_frame.picture.words
      BY <2>2, MatchedIsUnmutated DEF StripAllowed, Shows
    <3>4. PendingIsSound'
      BY <1>8, <2>2, <3>2 DEF RenderStrip, PendingIsSound, Shows
    <3>5. QED
      BY <1>8, <2>2, <3>2, <3>3, <3>4 DEF RenderStrip, TokenIsFresh, OneSceneOnStrips
  <2>3. QED
    BY <2>1, <2>2
<1>9. ASSUME NEW t \in TargetIds, NEW recorded \in BOOLEAN, Commit(t, recorded)
      PROVE  CachedListIsFresh' /\ OneSceneOnStrips'
  BY <1>a, <1>9 DEF Commit
<1>10. ASSUME NEW t \in TargetIds, Cancel(t)
       PROVE  CachedListIsFresh' /\ OneSceneOnStrips'
  <2>1. CASE pending_frame # NoFrame /\ pending_frame.target_id = t
    <3>1. CASE pending_frame.cancel_reusable /\ MatchesCached(pending_frame.fingerprint)
      <4>1. draw_list = ui.words /\ pending_frame.fingerprint = Capture(ui.words)
        BY <2>1, <3>1, MatchedIsUnmutated DEF MatchesCached
      <4>2. reusable_frame' = Capture(ui.words) /\ pending_frame' = NoFrame
        BY <1>10, <2>1, <3>1, <4>1 DEF Cancel
      <4>3. Capture(ui.words)' = Capture(ui.words)
        BY <1>10 DEF Cancel, Capture
      <4>4. QED
        BY <1>10, <4>1, <4>2, <4>3 DEF Cancel, TokenIsFresh, PendingIsSound, OneSceneOnStrips
    <3>2. CASE ~(pending_frame.cancel_reusable /\ MatchesCached(pending_frame.fingerprint))
      BY <1>a, <1>10, <2>1, <3>2 DEF Cancel
    <3>3. QED
      BY <3>1, <3>2
  <2>2. CASE ~(pending_frame # NoFrame /\ pending_frame.target_id = t)
    BY <1>10, <2>2, InvalidatedIsSound DEF Cancel
  <2>3. QED
    BY <2>1, <2>2
<1>11. ASSUME NEW t \in TargetIds, Abort(t)
       PROVE  CachedListIsFresh' /\ OneSceneOnStrips'
  <2>1. CASE pending_frame' = NoFrame
    BY <1>a, <1>11, <2>1 DEF Abort
  <2>2. CASE pending_frame' # NoFrame
    <3>1. InvalidateFrameReuse
      BY <1>11, <2>2 DEF Abort, InvalidateFrameReuse
    <3>2. QED
      BY <1>11, <3>1, InvalidatedIsSound DEF Abort
  <2>3. QED
    BY <2>1, <2>2
<1>12. CASE UNCHANGED vars
  BY <1>12 DEF vars, TokenIsFresh, PendingIsSound, OneSceneOnStrips, Shows, Capture
<1>13. QED
  BY <1>1, <1>2, <1>3, <1>4, <1>5, <1>6, <1>7, <1>8, <1>9, <1>10, <1>11, <1>12 DEF Next

(* Whenever the reuse token exists the cached draw list is the current     *)
(* one, and an open frame that saw no mutation is still the frame it was.  *)
THEOREM CachedListFresh == Spec => []CachedListIsFresh
<1>1. Init => CachedListIsFresh /\ OneSceneOnStrips
  BY DEF Init, CachedListIsFresh, TokenIsFresh, PendingIsSound, OneSceneOnStrips
<1>2. TypeOK /\ CachedListIsFresh /\ OneSceneOnStrips /\ [Next]_vars
        => CachedListIsFresh' /\ OneSceneOnStrips'
  BY FreshStep DEF Fresh
<1>3. QED
  BY <1>1, <1>2, TypeCorrect, PTL DEF Spec

(* The strips of one transaction never mix two scenes.                     *)
THEOREM OneScene == Spec => []OneSceneOnStrips
<1>1. Init => CachedListIsFresh /\ OneSceneOnStrips
  BY DEF Init, CachedListIsFresh, TokenIsFresh, PendingIsSound, OneSceneOnStrips
<1>2. TypeOK /\ CachedListIsFresh /\ OneSceneOnStrips /\ [Next]_vars
        => CachedListIsFresh' /\ OneSceneOnStrips'
  BY FreshStep DEF Fresh
<1>3. QED
  BY <1>1, <1>2, TypeCorrect, PTL DEF Spec

(* A token is gone after the next call, whichever call that is: it exists  *)
(* only while nothing is pending, so no cancel can renew it.               *)
THEOREM TokenOneShot == Spec => TokenIsOneShot
<1>1. CachedListIsFresh /\ [Next]_vars
        => [reusable_frame # NoFrame => reusable_frame' = NoFrame]_vars
  <2> SUFFICES ASSUME CachedListIsFresh, Next, reusable_frame # NoFrame
               PROVE  reusable_frame' = NoFrame
    OBVIOUS
  <2>1. pending_frame = NoFrame
    BY DEF CachedListIsFresh, TokenIsFresh
  <2>2. QED
    BY <2>1 DEF Next, MutateUi, MarkUiMutated, LoadResources, InvalidateRenderResources, Query,
                HashDrawList, InvalidateFrameReuse, RenderRgb565, Prepare, PrepareRejected,
                RenderStrip, Commit, Cancel, Abort
<1>2. QED
  BY <1>1, CachedListFresh, PTL DEF Spec, TokenIsOneShot

------------------------------------------------------------------------------
(* The implementation of FrameTransactions.                                *)

(* Barring reuse is invisible to the abstract transaction.                 *)
LEMMA InvalidateKeepsOpen ==
  ASSUME TypeOK, InvalidateFrameReuse
  PROVE  OpenTransaction' = OpenTransaction
<1>1. CASE pending_frame = NoFrame
  BY <1>1 DEF InvalidateFrameReuse, OpenTransaction
<1>2. CASE pending_frame # NoFrame
  <2>1. /\ pending_frame \in PendingFrames
        /\ pending_frame' = [pending_frame EXCEPT !.cancel_reusable = FALSE]
    BY <1>2 DEF InvalidateFrameReuse, TypeOK
  <2>2. pending_frame' \in PendingFrames
    BY <2>1 DEF PendingFrames
  <2>3. pending_frame' # NoFrame
    BY <2>2
  <2>4. QED
    BY <1>2, <2>1, <2>3 DEF OpenTransaction, PendingFrames
<1>3. QED
  BY <1>1, <1>2

(* Nothing of the abstract state moves.                                    *)
LEMMA AbstractStutter ==
  ASSUME OpenTransaction' = OpenTransaction, UNCHANGED <<ui, resources, frame_targets>>
  PROVE  UNCHANGED Transactions!vars
  BY DEF Transactions!vars, OpenTransaction, Shows

LEMMA TransactionStep ==
  ASSUME Fresh, TypeOK', [Next]_vars
  PROVE  [Transactions!Next]_Transactions!vars
<1> USE DEF Fresh
<1>a. Shows(ui.words) \in Pictures /\ Shows(ui.words)' \in Pictures
  BY DEF Shows, TypeOK, Pictures, DrawLists
<1>b. pending_frame # NoFrame =>
        /\ pending_frame \in PendingFrames
        /\ OpenTransaction \in OpenTransactions
        /\ OpenTransaction # NoFrame
        /\ OpenTransaction.target = pending_frame.target_id
        /\ OpenTransaction.picture = pending_frame.picture
  BY DEF TypeOK, OpenTransaction, PendingFrames, OpenTransactions
<1>1. CASE MutateUi
  <2>1. OpenTransaction' = OpenTransaction
    <3>1. CASE pending_frame = NoFrame
      BY <1>1, <3>1 DEF MutateUi, MarkUiMutated, OpenTransaction
    <3>2. CASE pending_frame # NoFrame
      <4>1. pending_frame' = [pending_frame EXCEPT !.cancel_reusable = FALSE, !.mutations = @ + 1]
        BY <1>1, <3>2 DEF MutateUi, MarkUiMutated
      <4>2. pending_frame' # NoFrame
        <5>1. pending_frame.mutations + 1 \in 0 .. EpochMod - 1
          BY <1>1, <1>b, <3>2 DEF MutateUi, MarkUiMutated, PendingFrames
        <5>2. pending_frame' \in PendingFrames
          BY <1>b, <3>2, <4>1, <5>1 DEF PendingFrames
        <5>3. QED
          BY <5>2
      <4>3. QED
        BY <1>b, <3>2, <4>1, <4>2 DEF OpenTransaction, PendingFrames
    <3>3. QED
      BY <3>1, <3>2
  <2>2. QED
    BY <1>1, <1>a, <2>1 DEF MutateUi, OpenTransaction, Transactions!Next, Transactions!Change
<1>2. CASE LoadResources
  BY <1>2, <1>a DEF LoadResources, InvalidateRenderResources, OpenTransaction,
                    Transactions!Next, Transactions!ReplaceResources
<1>3. CASE Query
  BY <1>3, InvalidateKeepsOpen, AbstractStutter DEF Query
<1>4. CASE HashDrawList
  BY <1>4, InvalidateKeepsOpen, AbstractStutter DEF HashDrawList
<1>5. ASSUME NEW a \in Addresses, NEW incremental \in BOOLEAN, NEW made \in BOOLEAN,
             NEW drawn \in BOOLEAN, RenderRgb565(a, incremental, made, drawn)
      PROVE  [Transactions!Next]_Transactions!vars
  BY <1>5, InvalidateKeepsOpen, AbstractStutter DEF RenderRgb565
<1>6. ASSUME NEW t \in TargetIds, NEW made \in BOOLEAN, NEW planned \in BOOLEAN,
             Prepare(t, made, planned)
      PROVE  [Transactions!Next]_Transactions!vars
  <2>1. PreparedWords = ui.words
    BY PreparedIsCurrent DEF CachedListIsFresh
  <2>2. CASE renderer' /\ planned
    <3>1. /\ pending_frame = NoFrame
          /\ pending_frame'.target_id = t
          /\ pending_frame'.picture = Shows(ui.words)
          /\ pending_frame'.damaged = (frame_targets[t] # Shows(ui.words))
          /\ UNCHANGED <<ui, resources, frame_targets>>
      BY <1>6, <2>1, <2>2 DEF Prepare
    <3>2. pending_frame' # NoFrame
      <4>1. Capture(PreparedWords) \in Fingerprints
        BY <2>1, CaptureType DEF TypeOK, DrawLists
      <4>2. pending_frame' \in PendingFrames
        BY <1>6, <1>a, <2>2, <4>1 DEF Prepare, PendingFrames
      <4>3. QED
        BY <4>2
    <3>3. Transactions!Begin(t)
      BY <3>1, <3>2 DEF Transactions!Begin, OpenTransaction, Shows
    <3>4. QED
      BY <1>6, <3>3 DEF Prepare, Transactions!Next
  <2>3. CASE ~(renderer' /\ planned)
    BY <1>6, <2>3, AbstractStutter DEF Prepare, OpenTransaction
  <2>4. QED
    BY <2>2, <2>3
<1>7. ASSUME NEW t \in TargetIds, PrepareRejected(t)
      PROVE  [Transactions!Next]_Transactions!vars
  BY <1>7, InvalidateKeepsOpen, AbstractStutter DEF PrepareRejected
<1>8. ASSUME NEW drawn \in BOOLEAN, RenderStrip(drawn)
      PROVE  [Transactions!Next]_Transactions!vars
  <2>1. OpenTransaction' = OpenTransaction
    <3>1. CASE pending_frame = NoFrame
      BY <1>8, <3>1 DEF RenderStrip, OpenTransaction
    <3>2. CASE pending_frame # NoFrame
      <4>1. pending_frame' = [pending_frame EXCEPT !.cancel_reusable = FALSE,
               !.strips = IF drawn /\ StripAllowed THEN @ \cup {draw_list} ELSE @]
        BY <1>8, <3>2 DEF RenderStrip
      <4>2. pending_frame' \in PendingFrames
        BY <1>b, <3>2, <4>1 DEF PendingFrames, TypeOK
      <4>3. QED
        BY <1>b, <3>2, <4>1, <4>2 DEF OpenTransaction, PendingFrames
    <3>3. QED
      BY <3>1, <3>2
  <2>2. QED
    BY <1>8, <2>1, AbstractStutter DEF RenderStrip
<1>9. ASSUME NEW t \in TargetIds, NEW recorded \in BOOLEAN, Commit(t, recorded)
      PROVE  [Transactions!Next]_Transactions!vars
  <2>1. CASE pending_frame = NoFrame
    BY <1>9, <2>1, AbstractStutter DEF Commit, OpenTransaction
  <2>2. CASE pending_frame # NoFrame /\ CommitAllowed(t) /\ recorded
    <3>1. pending_frame.picture = Shows(ui.words) /\ draw_list = ui.words
      BY <2>2, MatchedIsUnmutated DEF CommitAllowed, CachedListIsFresh
    <3>2. frame_targets' = [frame_targets EXCEPT ![pending_frame.target_id] = Shows(ui.words)]
      BY <1>9, <2>2, <3>1 DEF Commit
    <3>3. pending_frame' = NoFrame /\ UNCHANGED <<ui, resources>>
      BY <1>9 DEF Commit
    <3>4. Transactions!Commit
      BY <1>b, <2>2, <3>1, <3>2, <3>3 DEF Transactions!Commit, OpenTransaction, Shows
    <3>5. QED
      BY <3>4 DEF Transactions!Next
  <2>3. CASE pending_frame # NoFrame /\ ~(CommitAllowed(t) /\ recorded)
    <3>1. frame_targets' = [frame_targets EXCEPT ![pending_frame.target_id] = Invalid]
      BY <1>9, <2>3 DEF Commit
    <3>2. pending_frame' = NoFrame /\ UNCHANGED <<ui, resources>>
      BY <1>9 DEF Commit
    <3>3. Transactions!Fail
      BY <1>b, <2>3, <3>1, <3>2 DEF Transactions!Fail, OpenTransaction, Shows
    <3>4. QED
      BY <3>3 DEF Transactions!Next
  <2>4. QED
    BY <2>1, <2>2, <2>3
<1>10. ASSUME NEW t \in TargetIds, Cancel(t)
       PROVE  [Transactions!Next]_Transactions!vars
  <2>1. CASE pending_frame # NoFrame /\ pending_frame.target_id = t
    <3>1. Transactions!Cancel
      BY <1>b, <1>10, <2>1 DEF Cancel, Transactions!Cancel, OpenTransaction, Shows
    <3>2. QED
      BY <3>1 DEF Transactions!Next
  <2>2. CASE ~(pending_frame # NoFrame /\ pending_frame.target_id = t)
    BY <1>10, <2>2, InvalidateKeepsOpen, AbstractStutter DEF Cancel
  <2>3. QED
    BY <2>1, <2>2
<1>11. ASSUME NEW t \in TargetIds, Abort(t)
       PROVE  [Transactions!Next]_Transactions!vars
  <2>1. pending_frame # NoFrame /\ pending_frame.target_id # t => InvalidateFrameReuse
    BY <1>11 DEF Abort, InvalidateFrameReuse
  <2>2. CASE t \in FrameTargets
    <3>1. OpenTransaction' = IF OpenTransaction # NoFrame /\ OpenTransaction.target = t
                             THEN NoFrame ELSE OpenTransaction
      <4>1. CASE pending_frame = NoFrame \/ pending_frame.target_id = t
        BY <1>b, <1>11, <4>1 DEF Abort, OpenTransaction
      <4>2. CASE pending_frame # NoFrame /\ pending_frame.target_id # t
        BY <1>b, <2>1, <4>2, InvalidateKeepsOpen
      <4>3. QED
        BY <4>1, <4>2
    <3>2. Transactions!Forget(t)
      BY <1>11, <2>2, <3>1 DEF Abort, Transactions!Forget, OpenTransaction, Shows
    <3>3. QED
      BY <2>2, <3>2 DEF Transactions!Next
  <2>3. CASE t \notin FrameTargets
    <3>1. OpenTransaction' = OpenTransaction
      <4>1. CASE pending_frame = NoFrame
        BY <1>11, <4>1 DEF Abort, OpenTransaction
      <4>2. CASE pending_frame # NoFrame
        BY <1>b, <2>1, <2>3, <4>2, InvalidateKeepsOpen DEF PendingFrames
      <4>3. QED
        BY <4>1, <4>2
    <3>2. QED
      BY <1>11, <2>3, <3>1, AbstractStutter DEF Abort
  <2>4. QED
    BY <2>2, <2>3
<1>12. CASE UNCHANGED vars
  BY <1>12, AbstractStutter DEF vars, OpenTransaction
<1>13. QED
  BY <1>1, <1>2, <1>3, <1>4, <1>5, <1>6, <1>7, <1>8, <1>9, <1>10, <1>11, <1>12 DEF Next

(* Digest, epoch and one-shot token implement an exact comparison of       *)
(* pictures: every history the Core commits is the very picture its        *)
(* transaction was prepared with, for every hash and every epoch width.    *)
THEOREM Refinement == Spec => ImplementsTransactions
<1>1. Init => Transactions!Init
  BY DEF Init, Transactions!Init, OpenTransaction, Shows, Pictures, DrawLists
<1>2. Fresh /\ TypeOK' /\ [Next]_vars => [Transactions!Next]_Transactions!vars
  BY TransactionStep
<1>3. Spec => []Fresh
  BY TypeCorrect, CachedListFresh, OneScene, PTL DEF Fresh
<1>4. QED
  BY <1>1, <1>2, <1>3, TypeCorrect, PTL DEF Spec, ImplementsTransactions, Transactions!Spec

------------------------------------------------------------------------------
(* Histories.                                                              *)

(* A history of the table against the pixels of the framebuffers.          *)
EntryIsTrue(entry, pixels) ==
  entry.state # Invalid =>
    entry.state.resources = resources /\ entry.state = pixels[entry.address]

(* What render_target_state finds for a framebuffer is what it shows.      *)
LEMMA FoundStateIsTrue ==
  ASSUME RenderTargetTable, HistoriesAreTrue, NEW a \in Addresses
  PROVE  /\ TargetState(a) \in Pictures \cup {Invalid}
         /\ EntryIsTrue([address |-> a, state |-> TargetState(a)], framebuffer)
<1>1. CASE Tracked(a) = {}
  BY <1>1 DEF TargetState, EntryIsTrue
<1>2. CASE Tracked(a) # {}
  <2>1. PICK i \in Tracked(a) : TargetState(a) = render_targets[i].state
    BY <1>2 DEF TargetState
  <2>2. i \in DOMAIN render_targets /\ render_targets[i].address = a
    BY <2>1 DEF Tracked
  <2>3. QED
    BY <2>1, <2>2, TableElements DEF HistoriesAreTrue, EntryIsTrue
<1>3. QED
  BY <1>1, <1>2

(* The table then has one new entry, about a; the others are old ones,     *)
(* about something else.                                                   *)
LEMMA EntriesWithState ==
  ASSUME RenderTargetTable, NEW a \in Addresses, NEW state \in Pictures \cup {Invalid},
         render_targets' = WithState(a, state), NEW i \in DOMAIN render_targets'
  PROVE  \/ render_targets'[i] = [address |-> a, state |-> state]
         \/ \E j \in DOMAIN render_targets :
              render_targets[j].address # a /\ render_targets'[i] = render_targets[j]
<1>1. CASE Tracked(a) # {}
  BY <1>1 DEF WithState, Tracked
<1>2. CASE Tracked(a) = {}
  <2> DEFINE kept == IF Len(render_targets) = MaxRenderTargets THEN Tail(render_targets)
                     ELSE render_targets
             entry == [address |-> a, state |-> state]
  <2>1. \A j \in DOMAIN render_targets : render_targets[j].address # a
    BY <1>2 DEF Tracked
  <2>2. render_targets \in Seq(TableEntries) /\ entry \in TableEntries
    BY DEF RenderTargetTable, TableEntries
  <2>3. /\ kept \in Seq(TableEntries)
        /\ \A k \in DOMAIN kept : \E j \in DOMAIN render_targets : kept[k] = render_targets[j]
    <3>1. CASE Len(render_targets) = MaxRenderTargets
      BY <2>2, <3>1
    <3>2. CASE Len(render_targets) # MaxRenderTargets
      BY <2>2, <3>2
    <3>3. QED
      BY <3>1, <3>2
  <2>4. render_targets' = Append(kept, entry)
    BY <1>2 DEF WithState
  <2> HIDE DEF kept, entry
  <2>5. \/ i \in DOMAIN kept /\ render_targets'[i] = kept[i]
        \/ render_targets'[i] = entry
    BY <2>2, <2>3, <2>4
  <2>6. QED
    BY <2>1, <2>3, <2>5 DEF entry
<1>3. QED
  BY <1>1, <1>2

(* Direct rendering keeps the histories of all framebuffers true: the one  *)
(* drawn to, and those an eviction moves or leaves alone.                  *)
LEMMA DirectRendering ==
  ASSUME TypeOK, HistoriesAreTrue, NEW a \in Addresses,
         NEW incremental \in BOOLEAN, NEW made \in BOOLEAN, NEW drawn \in BOOLEAN,
         RenderRgb565(a, incremental, made, drawn)
  PROVE  HistoriesAreTrue'
<1> DEFINE picture == Shows(ui.words)
           ready == RendererFrom(made)
<1>1. picture \in Pictures /\ picture.resources = resources
  <2>1. ui.words \in DrawLists
    BY DEF TypeOK, DrawLists
  <2>2. QED
    BY <2>1, ShowsType DEF Shows
<1>2. UNCHANGED <<resources, frame_targets>> /\ RenderTargetTable
  BY DEF RenderRgb565, TypeOK
<1>3. TargetState(a) \in Pictures \cup {Invalid}
      /\ EntryIsTrue([address |-> a, state |-> TargetState(a)], framebuffer)
  BY <1>2, FoundStateIsTrue
<1>4. \A i \in DOMAIN render_targets : EntryIsTrue(render_targets[i], framebuffer)
  BY DEF HistoriesAreTrue, EntryIsTrue
<1>5. SUFFICES ASSUME NEW i \in DOMAIN render_targets'
               PROVE  EntryIsTrue(render_targets'[i], framebuffer')
  BY <1>2 DEF HistoriesAreTrue, EntryIsTrue
<1>6. \A b \in Addresses : b # a => framebuffer'[b] = framebuffer[b]
  BY DEF RenderRgb565, TypeOK
<1>7. \A j \in DOMAIN render_targets :
        render_targets[j].address # a => EntryIsTrue(render_targets[j], framebuffer')
  BY <1>2, <1>4, <1>6, TableElements DEF EntryIsTrue
<1>8. CASE incremental /\ ready
  <2>1. render_targets' = WithState(a, IF drawn THEN picture ELSE TargetState(a))
    BY <1>8 DEF RenderRgb565
  <2>2. EntryIsTrue([address |-> a, state |-> IF drawn THEN picture ELSE TargetState(a)],
                  framebuffer')
    <3>1. CASE drawn
      <4>1. Patched(a, picture) = picture
        BY <1>3 DEF Patched, EntryIsTrue
      <4>2. framebuffer'[a] = picture
        BY <1>8, <3>1, <4>1 DEF RenderRgb565, TypeOK
      <4>3. QED
        BY <1>1, <1>2, <3>1, <4>2 DEF EntryIsTrue
    <3>2. CASE ~drawn
      BY <1>3, <3>2 DEF RenderRgb565
    <3>3. QED
      BY <3>1, <3>2
  <2>3. QED
    BY <1>1, <1>2, <1>3, <1>7, <2>1, <2>2, EntriesWithState
<1>9. CASE ~incremental /\ ready /\ drawn
  <2>1. render_targets' = AfterFullRender(a)
    BY <1>9 DEF RenderRgb565
  <2>2. CASE i \in Tracked(a)
    BY <2>1, <2>2, TableElements, <1>2 DEF AfterFullRender, EntryIsTrue, TableEntries
  <2>3. CASE i \notin Tracked(a)
    BY <1>7, <2>1, <2>3 DEF AfterFullRender, Tracked
  <2>4. QED
    BY <2>2, <2>3
<1>10. CASE ~ready \/ (~incremental /\ ~drawn)
  <2>1. UNCHANGED <<render_targets, framebuffer>>
    BY <1>10 DEF RenderRgb565
  <2>2. QED
    BY <1>2, <1>4, <2>1 DEF EntryIsTrue
<1>11. QED
  BY <1>8, <1>9, <1>10

(* HistoriesAreTrue: replaced resources forget every history, a commit     *)
(* records the present picture, and a framebuffer rendered to directly     *)
(* shows what its history says, across full renders and evictions.         *)
THEOREM HistoriesTrue == Spec => []HistoriesAreTrue
<1>1. Init => HistoriesAreTrue
  BY DEF Init, HistoriesAreTrue
<1>2. TypeOK /\ HistoriesAreTrue /\ [Next]_vars => HistoriesAreTrue'
  <2> SUFFICES ASSUME TypeOK, HistoriesAreTrue, [Next]_vars PROVE HistoriesAreTrue'
    OBVIOUS
  <2>1. CASE LoadResources
    <3>1. /\ \A t \in FrameTargets : frame_targets'[t] = Invalid
          /\ render_targets' = ForgottenTargets
      BY <2>1 DEF LoadResources, InvalidateRenderResources
    <3>2. \A i \in DOMAIN render_targets : render_targets[i] \in TableEntries
      BY TableElements DEF TypeOK
    <3>3. \A i \in DOMAIN render_targets' : render_targets'[i].state = Invalid
      BY <3>1, <3>2 DEF ForgottenTargets, TableEntries
    <3>4. QED
      BY <3>1, <3>3 DEF HistoriesAreTrue
  <2>2. CASE \E a \in Addresses, incremental, made, drawn \in BOOLEAN :
               RenderRgb565(a, incremental, made, drawn)
    BY <2>2, DirectRendering
  <2>3. CASE \E t \in TargetIds, recorded \in BOOLEAN : Commit(t, recorded)
    <3>1. UNCHANGED <<resources, render_targets, framebuffer>>
      BY <2>3 DEF Commit, direct
    <3>2. \A t \in FrameTargets :
            frame_targets'[t] \in {frame_targets[t], Invalid, Shows(draw_list)}
      BY <2>3 DEF Commit, TypeOK
    <3>3. Shows(draw_list).resources = resources
      BY DEF Shows
    <3>4. QED
      BY <3>1, <3>2, <3>3 DEF HistoriesAreTrue
  <2>4. CASE \E t \in TargetIds : Abort(t)
    <3>1. UNCHANGED <<resources, render_targets, framebuffer>>
      BY <2>4 DEF Abort, direct
    <3>2. \A t \in FrameTargets : frame_targets'[t] \in {frame_targets[t], Invalid}
      BY <2>4 DEF Abort, TypeOK
    <3>3. QED
      BY <3>1, <3>2 DEF HistoriesAreTrue
  <2>5. CASE UNCHANGED <<resources, frame_targets, render_targets, framebuffer>>
    BY <2>5 DEF HistoriesAreTrue
  <2>6. QED
    BY <2>1, <2>2, <2>3, <2>4, <2>5 DEF Next, MutateUi, Query, HashDrawList, Prepare,
       PrepareRejected, RenderStrip, Cancel, direct, vars
<1>3. QED
  BY <1>1, <1>2, TypeCorrect, PTL DEF Spec
=============================================================================
