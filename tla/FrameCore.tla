------------------------------ MODULE FrameCore ------------------------------
(***************************************************************************)
(* The Rust Core's frame transactions (rust/src/lib.rs): prepare, render   *)
(* strips, then commit, cancel or abort, over the damage history of each   *)
(* stable target; the one-shot token that lets a cancelled front probe     *)
(* hand its draw list to the next prepare; and the two-entry cache of      *)
(* histories of directly rendered framebuffers.                            *)
(*                                                                         *)
(* The Ui and the Renderer live in a vendored crate: a scene stands for    *)
(* everything the Ui holds (the words its draw() yields, its raster        *)
(* revision), and a picture for what drawing them with the resources of    *)
(* the moment puts on a target.  Every exported C function is one call of  *)
(* the single owner task, so every action is one whole call.               *)
(*                                                                         *)
(* An operator named Faulty<Name> is <Name> with a slip a programmer could *)
(* make; Next never uses it.  Putting one in the place of its namesake     *)
(* shows which property notices the slip.                                  *)
(***************************************************************************)
EXTENDS Integers, Sequences

CONSTANTS
  Words,              \* draw lists a scene can yield
  EmptyWords,         \* the cached draw list before the first draw()
  Rasters,            \* raster revisions
  DrawHash(_),        \* fnv1a_words and the word count: it may collide
  EpochMod,           \* 2^64 in the code: mutation_epoch wraps
  MaxFrameTargets,    \* MAX_FRAME_TARGETS
  MaxRenderTargets,   \* MAX_RENDER_TARGETS
  Addresses,          \* framebuffers the host renders to directly
  MaxLoads,           \* bound on resource replacements
  NoFrame,            \* Option::None of pending_frame and reusable_frame
  Invalid             \* an invalidated RenderTargetState; unknown pixels

FrameTargets == 0 .. MaxFrameTargets - 1
TargetIds == 0 .. MaxFrameTargets      \* the last one is out of range
DrawLists == Words \cup {EmptyWords}
Pictures == [words : DrawLists, raster : Rasters, resources : 0 .. MaxLoads]
Fingerprints == [draw_hash : {DrawHash(w) : w \in DrawLists},
                 raster_revision : Rasters,
                 mutation_epoch : 0 .. EpochMod - 1]

(* target_id, fingerprint and cancel_reusable are the code's; the rest is  *)
(* history: what the UI really showed when the frame was prepared, whether *)
(* the plan carried damage, the words each strip was drawn from, and how   *)
(* many mutations the transaction has seen.                                *)
PendingFrames == [target_id : FrameTargets,
                  fingerprint : Fingerprints,
                  cancel_reusable : BOOLEAN,
                  picture : Pictures,
                  damaged : BOOLEAN,
                  strips : SUBSET DrawLists,
                  mutations : 0 .. EpochMod - 1]

(* What a caller sees of an open frame.                                    *)
OpenTransactions == [target : FrameTargets, picture : Pictures, damaged : BOOLEAN]

ASSUME FrameAssumption ==
  /\ EpochMod \in Nat /\ EpochMod > 1
  /\ MaxFrameTargets \in Nat \ {0}
  /\ MaxRenderTargets \in Nat \ {0}
  /\ MaxLoads \in Nat
  /\ NoFrame \notin PendingFrames
  /\ NoFrame \notin Fingerprints
  /\ NoFrame \notin OpenTransactions
  /\ Invalid \notin Pictures

VARIABLES
  ui,               \* [words, raster]: what draw() and raster_revision() return now
  draw_list,        \* current_draw_list(): the words of the last draw()
  resources,        \* generation of the styles, fonts and textures loaded
  renderer,         \* has the lazily made Renderer been created
  render_targets,   \* sequence of [address, state], oldest first
  framebuffer,      \* pixels of each directly rendered framebuffer
  frame_targets,    \* target id -> committed picture, or Invalid
  pending_frame,
  reusable_frame,
  mutation_epoch

vars == <<ui, draw_list, resources, renderer, render_targets, framebuffer,
          frame_targets, pending_frame, reusable_frame, mutation_epoch>>
direct == <<render_targets, framebuffer>>

Init ==
  /\ ui \in [words : Words, raster : Rasters]
  /\ draw_list = EmptyWords
  /\ resources = 0
  /\ renderer = FALSE
  /\ render_targets = <<>>
  /\ framebuffer = [a \in Addresses |-> Invalid]
  /\ frame_targets = [t \in FrameTargets |-> Invalid]
  /\ pending_frame = NoFrame
  /\ reusable_frame = NoFrame
  /\ mutation_epoch = 1

------------------------------------------------------------------------------
(* Fingerprints and pictures.                                              *)

Shows(words) == [words |-> words, raster |-> ui.raster, resources |-> resources]

Capture(words) == [draw_hash |-> DrawHash(words), raster_revision |-> ui.raster,
                   mutation_epoch |-> mutation_epoch]

FaultyMatchesCached(fingerprint) ==
  fingerprint = [Capture(draw_list) EXCEPT !.mutation_epoch = fingerprint.mutation_epoch]
MatchesCached(fingerprint) == fingerprint = Capture(draw_list)

FaultyWrapped(epoch) == epoch + 1
Wrapped(epoch) == IF epoch = EpochMod - 1 THEN 0 ELSE epoch + 1

(* invalidate_frame_reuse: every exported call but the transaction's own   *)
(* takes the token away and bars the open frame from making a new one.     *)
FaultyInvalidateFrameReuse == UNCHANGED <<pending_frame, reusable_frame>>
InvalidateFrameReuse ==
  /\ reusable_frame' = NoFrame
  /\ pending_frame' = IF pending_frame = NoFrame THEN NoFrame
                      ELSE [pending_frame EXCEPT !.cancel_reusable = FALSE]

(* mark_ui_mutated, with the transaction's mutation count.  The guard is   *)
(* the bound: one transaction outlives fewer than EpochMod mutations.      *)
FaultyMarkUiMutated ==
  /\ pending_frame # NoFrame => pending_frame.mutations < EpochMod - 1
  /\ UNCHANGED <<mutation_epoch, reusable_frame, pending_frame>>
MarkUiMutated ==
  /\ pending_frame # NoFrame => pending_frame.mutations < EpochMod - 1
  /\ mutation_epoch' = Wrapped(mutation_epoch)
  /\ reusable_frame' = NoFrame
  /\ pending_frame' = IF pending_frame = NoFrame THEN NoFrame
                      ELSE [pending_frame EXCEPT !.cancel_reusable = FALSE,
                                                 !.mutations = @ + 1]

------------------------------------------------------------------------------
(* Calls that touch the UI but no transaction.                             *)

(* create_node .. tick, and a mutator that rejects its arguments: it has   *)
(* marked the UI by then, so the scene may also stay as it was.            *)
MutateUi ==
  /\ MarkUiMutated
  /\ ui' \in [words : Words, raster : Rasters]
  /\ UNCHANGED <<draw_list, resources, renderer, frame_targets, direct>>

(* load_styles, load_font_atlas, upload_texture that succeed: every        *)
(* history is dropped, and so is the open transaction.                     *)
ForgottenTargets == [i \in DOMAIN render_targets |->
                        [render_targets[i] EXCEPT !.state = Invalid]]
FaultyInvalidateRenderResources ==
  /\ frame_targets' = [t \in FrameTargets |-> Invalid]
  /\ pending_frame' = NoFrame
  /\ reusable_frame' = NoFrame
  /\ UNCHANGED render_targets
InvalidateRenderResources ==
  /\ render_targets' = ForgottenTargets
  /\ frame_targets' = [t \in FrameTargets |-> Invalid]
  /\ pending_frame' = NoFrame
  /\ reusable_frame' = NoFrame

LoadResources ==
  /\ resources < MaxLoads
  /\ mutation_epoch' = Wrapped(mutation_epoch)
  /\ ui' \in [words : Words, raster : Rasters]
  /\ resources' = resources + 1
  /\ InvalidateRenderResources
  /\ UNCHANGED <<draw_list, renderer, framebuffer>>

(* hit_test, measure_text, framebuffer_bytes.                              *)
Query ==
  /\ InvalidateFrameReuse
  /\ UNCHANGED <<ui, draw_list, resources, renderer, frame_targets, mutation_epoch, direct>>

(* draw_hash, draw_word_count: rebuild_draw_list runs draw().              *)
HashDrawList ==
  /\ InvalidateFrameReuse
  /\ draw_list' = ui.words
  /\ UNCHANGED <<ui, resources, renderer, frame_targets, mutation_epoch, direct>>

------------------------------------------------------------------------------
(* Direct rendering (render_rgb565 and its incremental variant).           *)

(* renderer(): the first call creates it and may fail; made is the outcome. *)
RendererFrom(made) == renderer \/ made

(* render_target_state: the history kept for an address, a new one when it *)
(* is not tracked, the oldest entry dropped when the table is full.        *)
Tracked(a) == {i \in DOMAIN render_targets : render_targets[i].address = a}
TargetState(a) == IF Tracked(a) = {} THEN Invalid
                  ELSE render_targets[CHOOSE i \in Tracked(a) : TRUE].state
WithState(a, state) ==
  IF Tracked(a) # {}
  THEN [i \in DOMAIN render_targets |->
          IF i \in Tracked(a) THEN [address |-> a, state |-> state] ELSE render_targets[i]]
  ELSE Append(IF Len(render_targets) = MaxRenderTargets THEN Tail(render_targets)
              ELSE render_targets, [address |-> a, state |-> state])

(* invalidate_render_target: an untracked address stays untracked.         *)
FaultyAfterFullRender(a) == render_targets
AfterFullRender(a) ==
  [i \in DOMAIN render_targets |->
     IF i \in Tracked(a) THEN [render_targets[i] EXCEPT !.state = Invalid]
     ELSE render_targets[i]]

(* Rendering the difference between a history and the new picture yields   *)
(* that picture only over pixels that really are what the history says.    *)
Patched(a, picture) ==
  IF TargetState(a) \in {Invalid, framebuffer[a]} THEN picture ELSE Invalid

(* Arguments rejected before the draw list is rebuilt are Query.           *)
RenderRgb565(a, incremental, made, drawn) ==
  LET picture == Shows(ui.words)
      ready == RendererFrom(made)
  IN
  /\ InvalidateFrameReuse
  /\ draw_list' = ui.words
  /\ renderer' = ready
  /\ framebuffer' = IF ready /\ drawn
                    THEN [framebuffer EXCEPT ![a] = IF incremental THEN Patched(a, picture)
                                                    ELSE picture]
                    ELSE framebuffer
  /\ render_targets' = IF incremental /\ ready
                       THEN WithState(a, IF drawn THEN picture ELSE TargetState(a))
                       ELSE IF ready /\ drawn THEN AfterFullRender(a)
                       ELSE render_targets
  /\ UNCHANGED <<ui, resources, frame_targets, mutation_epoch>>

------------------------------------------------------------------------------
(* Frame transactions.                                                     *)

(* prepare: the token is taken even when the attempt is turned down, and a *)
(* frame found pending is barred from arming another.                      *)
PrepareRejected(t) ==
  /\ t \notin FrameTargets \/ pending_frame # NoFrame
  /\ InvalidateFrameReuse
  /\ UNCHANGED <<ui, draw_list, resources, renderer, frame_targets, mutation_epoch, direct>>

FaultyPreparedWords == draw_list
PreparedWords ==
  IF reusable_frame # NoFrame /\ MatchesCached(reusable_frame) THEN draw_list ELSE ui.words

(* made and planned: what Renderer::new and prepare_damage answer.         *)
Prepare(t, made, planned) ==
  /\ t \in FrameTargets
  /\ pending_frame = NoFrame
  /\ reusable_frame' = NoFrame
  /\ draw_list' = PreparedWords
  /\ renderer' = RendererFrom(made)
  /\ pending_frame' =
       IF renderer' /\ planned
       THEN [target_id |-> t, fingerprint |-> Capture(PreparedWords), cancel_reusable |-> TRUE,
             picture |-> Shows(ui.words),
             damaged |-> frame_targets[t] # Shows(PreparedWords),
             strips |-> {}, mutations |-> 0]
       ELSE NoFrame
  /\ UNCHANGED <<ui, resources, frame_targets, mutation_epoch, direct>>

(* A strip is drawn only while the cached list is still the prepared one.  *)
FaultyStripAllowed == pending_frame # NoFrame
StripAllowed == pending_frame # NoFrame /\ MatchesCached(pending_frame.fingerprint)
RenderStrip(drawn) ==
  /\ reusable_frame' = NoFrame
  /\ pending_frame' =
       IF pending_frame = NoFrame THEN NoFrame
       ELSE [pending_frame EXCEPT
               !.cancel_reusable = FALSE,
               !.strips = IF drawn /\ StripAllowed THEN @ \cup {draw_list} ELSE @]
  /\ UNCHANGED <<ui, draw_list, resources, renderer, frame_targets, mutation_epoch, direct>>

(* commit: whatever is pending is closed.  Its target's history becomes    *)
(* the picture, if target and list are still those prepared and            *)
(* commit_damage agrees (recorded), and is invalidated otherwise.          *)
CommitAllowed(t) ==
  pending_frame.target_id = t /\ MatchesCached(pending_frame.fingerprint)

Commit(t, recorded) ==
  /\ reusable_frame' = NoFrame
  /\ pending_frame' = NoFrame
  /\ frame_targets' =
       IF pending_frame = NoFrame THEN frame_targets
       ELSE [frame_targets EXCEPT ![pending_frame.target_id] =
               IF CommitAllowed(t) /\ recorded THEN Shows(draw_list) ELSE Invalid]
  /\ UNCHANGED <<ui, draw_list, resources, renderer, mutation_epoch, direct>>

(* cancel: a wrong target leaves the frame open but bars reuse.            *)
Cancel(t) ==
  /\ IF pending_frame # NoFrame /\ pending_frame.target_id = t
     THEN /\ pending_frame' = NoFrame
          /\ reusable_frame' = IF pending_frame.cancel_reusable
                                  /\ MatchesCached(pending_frame.fingerprint)
                               THEN pending_frame.fingerprint ELSE NoFrame
     ELSE InvalidateFrameReuse
  /\ UNCHANGED <<ui, draw_list, resources, renderer, frame_targets, mutation_epoch, direct>>

(* abort: the target is forgotten; another target's frame stays open.      *)
Abort(t) ==
  /\ reusable_frame' = NoFrame
  /\ frame_targets' = IF t \in FrameTargets THEN [frame_targets EXCEPT ![t] = Invalid]
                      ELSE frame_targets
  /\ pending_frame' = IF pending_frame = NoFrame THEN NoFrame
                      ELSE IF pending_frame.target_id = t THEN NoFrame
                      ELSE [pending_frame EXCEPT !.cancel_reusable = FALSE]
  /\ UNCHANGED <<ui, draw_list, resources, renderer, mutation_epoch, direct>>

Next ==
  \/ MutateUi
  \/ LoadResources
  \/ Query
  \/ HashDrawList
  \/ \E a \in Addresses, incremental, made, drawn \in BOOLEAN :
        RenderRgb565(a, incremental, made, drawn)
  \/ \E t \in TargetIds, made, planned \in BOOLEAN : Prepare(t, made, planned)
  \/ \E t \in TargetIds : PrepareRejected(t)
  \/ \E drawn \in BOOLEAN : RenderStrip(drawn)
  \/ \E t \in TargetIds, recorded \in BOOLEAN : Commit(t, recorded)
  \/ \E t \in TargetIds : Cancel(t)
  \/ \E t \in TargetIds : Abort(t)

Spec == Init /\ [][Next]_vars

------------------------------------------------------------------------------
(* Properties.                                                             *)

(* Types of the state: the epoch stays within its width, the table of      *)
(* rendered framebuffers within its size and without a framebuffer twice.  *)
RenderTargetTable ==
  /\ render_targets \in Seq([address : Addresses, state : Pictures \cup {Invalid}])
  /\ Len(render_targets) <= MaxRenderTargets
  /\ \A i, j \in DOMAIN render_targets :
        render_targets[i].address = render_targets[j].address => i = j

TypeOK ==
  /\ ui \in [words : Words, raster : Rasters]
  /\ draw_list \in DrawLists
  /\ resources \in 0 .. MaxLoads
  /\ renderer \in BOOLEAN
  /\ RenderTargetTable
  /\ framebuffer \in [Addresses -> Pictures \cup {Invalid}]
  /\ frame_targets \in [FrameTargets -> Pictures \cup {Invalid}]
  /\ pending_frame \in PendingFrames \cup {NoFrame}
  /\ reusable_frame \in Fingerprints \cup {NoFrame}
  /\ mutation_epoch \in 0 .. EpochMod - 1

(* While the reuse token exists nothing is pending, and the cached draw    *)
(* list it vouches for is what draw() would build this instant: skipping   *)
(* the rebuild in prepare can never show an older scene.                   *)
TokenIsFresh ==
  reusable_frame # NoFrame =>
    pending_frame = NoFrame /\ draw_list = ui.words /\ reusable_frame = Capture(ui.words)

(* An open frame's epoch is the one it was prepared at plus the mutations  *)
(* since, so equal epochs mean none: the UI and the cached draw list are   *)
(* then still the prepared ones, hash collisions or not.                   *)
PendingIsSound ==
  pending_frame # NoFrame =>
    LET since == pending_frame.fingerprint.mutation_epoch + pending_frame.mutations IN
    /\ renderer
    /\ pending_frame.picture.resources = resources
    /\ mutation_epoch = IF since < EpochMod THEN since ELSE since - EpochMod
    /\ pending_frame.mutations = 0 =>
         pending_frame.picture = Shows(ui.words) /\ draw_list = ui.words

CachedListIsFresh == TokenIsFresh /\ PendingIsSound

(* The token survives no call: only a prepare that follows the cancel with *)
(* no call in between can use it.                                          *)
TokenIsOneShot == [][reusable_frame # NoFrame => reusable_frame' = NoFrame]_vars

(* All strips drawn in one transaction come from the draw list the damage  *)
(* plan was made for, whatever the host changes between them and even when *)
(* two draw lists hash alike.                                              *)
OneSceneOnStrips ==
  pending_frame # NoFrame => pending_frame.strips \subseteq {pending_frame.picture.words}

(* A history never outlives the styles, fonts and textures its pixels were *)
(* drawn with, since a damage plan cannot see a texture swapped under an   *)
(* unchanged draw list; and the history of a directly rendered framebuffer *)
(* is what that framebuffer shows, across full renders and evictions.      *)
HistoriesAreTrue ==
  /\ \A t \in FrameTargets :
        frame_targets[t] # Invalid => frame_targets[t].resources = resources
  /\ \A i \in DOMAIN render_targets :
        LET entry == render_targets[i] IN
        entry.state # Invalid =>
          entry.state.resources = resources /\ entry.state = framebuffer[entry.address]

OpenTransaction ==
  IF pending_frame = NoFrame THEN NoFrame
  ELSE [target |-> pending_frame.target_id, picture |-> pending_frame.picture,
        damaged |-> pending_frame.damaged]

(* Digest, epoch and token together behave as an exact comparison of       *)
(* pictures: every transaction of the Core is one of FrameTransactions.    *)
Transactions == INSTANCE FrameTransactions WITH
  Targets <- FrameTargets,
  NoTransaction <- NoFrame,
  Unknown <- Invalid,
  picture <- Shows(ui.words),
  history <- frame_targets,
  open <- OpenTransaction

ImplementsTransactions == Transactions!Spec
=============================================================================
