# PocketJS for ESP-IDF: specifications and proofs

PocketJS runs a JavaScript user interface on an ESP32-P4: a Rust core keeps the
UI and draws it, QuickJS runs the application, and a display layer cuts the
picture into maps that board code sends to a panel.  This directory holds TLA+
models of that program, the TLC configurations that check them, and proofs that
TLAPS checks.  Paths below are relative to the repository; `lib.rs` is
`rust/src/lib.rs`, `display.c` is `src/pocketjs_display.c` and so on.

## 1. The system

| Component | State | Operations | Talks to |
| --- | --- | --- | --- |
| Rust core (`lib.rs`) | the UI, the cached draw list, `mutation_epoch`, `reusable_frame`, `pending_frame`, one history per frame target and per tracked framebuffer address | the UI mutators, resource loaders and queries; `render_rgb565` and its incremental form; `prepare`, `strip`, `commit`, `cancel`, `abort` | called by the host operations and the display; calls the PPA bridges |
| Logical display (`display.c`) | mode, caller's buffers, `next_buffer`, callbacks, `attached`, `busy`, and the handshake: `awaiting_ready`, `completion_status`, the semaphore, `flush_inflight` | `create`, `set_buffers`, `set_callbacks`, `delete`, `attach`, `detach`, `render_internal`, `flush_ready`, `flush_ready_from_isr` | calls the Core and the board's callbacks; is called back by the board, also from an interrupt |
| Runtime (`pocketjs.c`) | `s_runtime_claimed`, `busy`, the core, `ppa_initialized`, the display | `create`, `attach_display`, `detach_display`, `run_frame`, `destroy` | everything |
| JavaScript (`pocketjs_runtime.c`) | QuickJS runtime and context, extensions and how many are installed, `active` per extension, the count of unhandled rejections | create, run one frame, destroy; host operations | extensions, Core |
| PPA bridges (`pocketjs_ppa.c`) | three global client handles | `init`, `deinit`, FILL, BLEND, SRM | the PPA driver |
| Packages (`pocketjs_package.c`) | none kept: a view of the package bytes, the JavaScript values held while it is read | open, validate the plan, install the assets | called by create; calls QuickJS and the Core's loaders |
| Allocator, build tools, CMake, examples, tests | none | | |

One frame: `pocketjs_run_frame` calls the `before_frame` extensions, the
application's `frame` function and the pending jobs, ticks the Core, and has the
display render.  The display asks `begin_frame` which targets to use, prepares
the front target (nothing differs: done), cancels, prepares the back target,
turns the damage into aligned regions and chunks, renders each chunk into a
buffer, submits it as a map, waits for the driver, and at last commits the
target's history and calls `end_frame`; on a failure it aborts.

What is hard about it:

* **Interleaving.**  A completion runs on another core or in an interrupt, in
  three steps, against an owner that may be draining, resetting, waiting or
  timing out.  Tasks race in `create`.
* **Overlap.**  With two PARTIAL buffers the owner renders one strip while the
  driver reads the one before.
* **Failure.**  Every step of a frame and of `create` can fail, and what was
  recorded until then has to be taken back: histories, transactions, extensions.
* **Stale caches.**  A damage plan is only as good as the history it is measured
  against; the Core may skip rebuilding its draw list.
* **Untrusted numbers.**  A package is offsets and lengths, and a drawing
  operation is sizes and rectangles, in words of 32 bits that wrap.
* **Reentrancy.**  Extension callbacks, JavaScript and driver callbacks are
  foreign code that may call the API from inside.

`PROJECT.json` lists the hazards line by line under "hazards".

## 2. Modules

| Module | Models | Checked by run | Proofs |
| --- | --- | --- | --- |
| `FrameTransactions` | what the Core promises its caller: at most one transaction, damage measured between the target's history and the picture, history only ever the picture of its transaction | as a PROPERTY of `frame_core` | refinement, in `FrameCoreProofs` |
| `FrameCore` | the Core's own state in `lib.rs` and every exported call | `frame_core` | `FrameCoreProofs` |
| `MapExchange` | what the two calls promise the code that renders: one map out, its fate settled once, the wait answers with it | as a PROPERTY of `flush` | refinement, in `FlushHandshakeProofs` |
| `FlushHandshake` | `submit_flush`, `wait_for_flush`, `flush_ready`, `flush_ready_from_isr`, a step per shared access | `flush`, `flush_late` | `FlushHandshakeProofs` |
| `DriverContract` | what a display promises a board driver: maps one at a time for the target of the frame begun, and exactly one of `end_frame`, when all are good, and `abort_frame`, otherwise | as a PROPERTY of `display_frame` | refinement, in `DisplayFrameProofs` |
| `DisplayFrame` | `render_internal` in its three modes, configuration, the driver's framebuffers | `display_frame`, `abandoned_map`, `direct_redraw` | `DisplayFrameProofs` |
| `DamagePlan` | `build_aligned_damage`, merging, sorting, the chunk loops | `damage_plan` | `DamagePlanProofs` |
| `RuntimeLifecycle` | `create` to `destroy`, extensions, frames, display ownership, the PPA clients | `lifecycle` | `RuntimeLifecycleProofs` |
| `JsFrame` | what scripts do to `js_runtime_create` and `js_runtime_run_frame`: rejections, jobs, pending exceptions | `js_frame`, `unnoticed_faults` | `JsFrameProofs` |
| `PackageTables` | `package_open`: header, variants, sections, with wrapping arithmetic | `package` | `PackageLoadProofs` |
| `PackageLoad` | `validate_plan`, `install_assets` and `install_ui`, on top of `PackageTables` | `package` | `PackageLoadProofs` |
| `PpaBridge` | the PPA clients and the FILL, BLEND and SRM bridges | `ppa` | `PpaBridgeProofs` |

They compose by abstraction.  `DisplayFrame` instantiates `FrameTransactions` as
its Core, and `FrameCore` is shown to implement `FrameTransactions`;
`DisplayFrame` takes from `DamagePlan` that the chunks cover the damage once
each, so that a *strip* can stand for a chunk; and it takes from
`FlushHandshake` what that is shown to implement, `MapExchange`: a wait returns
the map's own verdict as long as the driver reports in time.  `DriverContract`
is the other side, all that a driver sees of `DisplayFrame`.  `RuntimeLifecycle`
sees a frame of the display as one step during which foreign code may run, and
`JsFrame` opens the step it calls `frame`.  `PackageLoad` opens the part of
`create` before the extensions, which `RuntimeLifecycle` takes as a step that
succeeds or fails; `PpaBridge` is what the renderer calls below `Render` in
`DisplayFrame`, where a bridge that declines makes no difference.

Every module that has mutants defines operators next to `<Name>` whose names
begin with `Faulty<Name>`: the same operator with a slip a programmer could make
(a dropped reset, an unclamped edge, a wait that ignores its status).  `Next`
never uses them; they show that each property can fail.

### FrameCore

A scene is the list of words `draw()` yields plus the raster revision; a picture
adds the generation of loaded resources.  `DrawHash` is a constant function, and
the runs make two lists collide, so no property rests on the digest.
`pending_frame` carries three history fields besides the code's own: the picture
it was prepared for, whether there was damage, and the lists its strips were
drawn from; `mutations` counts the mutations since `prepare` and carries the one
bound on them (2^64 in the code, out of reach).  `made`, `planned`, `drawn` and
`recorded` are the answers of the external renderer.  A renderer that fails is assumed not to have touched the
pixels.

* `CachedListIsFresh`: with a token, the cached list is what `draw()` would build
  now; an open frame's epoch says exactly whether the scene changed since.
* `OneSceneOnStrips`: no strip of a transaction shows another scene.
* `HistoriesAreTrue`: no history outlives its resources, and the history of a
  framebuffer address is what that framebuffer shows, across evictions.
* `TokenIsOneShot`: the step after the cancel uses the token or loses it.
* `ImplementsTransactions`: the refinement of `FrameTransactions`.

### FlushHandshake

`pc` is where the owner is in `submit_flush` or `wait_for_flush`; `ready[c]` is
how far a call of `flush_ready` (`"owner"`, inside the flush callback) or of
`flush_ready_from_isr` (`"isr"`) has come: exchange, store, give.  `map[n]` is
the driver's side of the n-th map.  A *punctual* driver reports every map before
its timeout or never; a *late* one may report after it.  Atomics are taken as
sequentially consistent: the code releases and acquires around the semaphore,
which FreeRTOS orders itself.

* `HandshakeInv`: for every phase, who may hold what.
* `ImplementsExchange`: the refinement of `MapExchange` by a punctual driver: a
  wait returns its own map's fate, and nothing is left over for the next.
* `OwnVerdict` (run `flush_late`): what a wait reads is its own map's verdict,
  with late drivers too; violated.
* `OwnerReturns`: the owner always gets out.

Fairness: the owner task runs on and a flush callback returns; the timer of a
timed take expires; the hardware finishes a map or drops it; an interrupt that is
raised runs to its end.  Whether a map is finished or dropped is the driver's
choice, so liveness rests on the code's timeout and not on the driver.

### DisplayFrame

Two strips and two colors: a scene maps strips to colors.  `surface[t]` is what
physical framebuffer `t` holds, `shown` the one on the glass, `map` the map the
driver holds; when it reports, it copies the pixels the buffer holds *then*, so
a buffer overwritten too early shows.  The plan for the back target is any set
that contains what differs, since alignment only adds to it.  Four kinds of
driver: `push` (no `begin_frame`), `single` (one framebuffer), `flip` (two, and
`end_frame` swaps them) and `default` (two, with the targets left as they come).
After a failed map or a failed `end_frame` the pixels concerned are `Blank`:
nobody may rely on them.  `closing`, `flush_failed` and `abandoned` are history
variables.  `ModeChanges` are the pairs of modes between which `set_buffers` may
move a display that has been used; it is allowed with a map still out, as in the
code, which does not look at `flush_inflight`.

* `HistoryIsDrawn`: between frames a valid history is what its framebuffer holds.
* `ShownAfterSuccess`: a frame that returned success shows its own scene.
* `NothingLeftOpen`: no path leaves the Core's transaction open, and a success
  whose begin the driver was told of has exactly one of `end_frame` and
  `abort_frame`.
* `OverlapIsSafe`: the display writes no pixel of a map still being read, unless a
  frame abandoned that map.
* `KeepsContract`: the refinement of `DriverContract`, which is the contract as
  `API.md` and the header state it.  One step departs from it and is exempted by
  name, `ClosesTwice`: a failed `end_frame` is followed by `abort_frame` (section 4).
* `FailureIsRedrawn`: with one framebuffer, the first success after a failed flush
  planned every strip and is presented: what is left of the documented claim.
* `FrameEnds`: a frame ends.  Fairness: the owner runs on, and each map is
  reported or its timeout expires.
* `SubmittedPixelsImmutable`, `RedrawAfterFailure`: what the documentation says;
  each is violated, see section 4.

Two situations in which `ShownAfterSuccess` fails are left out of the pass run,
and both are listed as hazards: two DIRECT buffers without `begin_frame` (two
histories for one panel, run `direct_redraw`), and changing a display from FULL
back to PARTIAL or DIRECT: FULL frames draw, the histories stay as they were.  A
third is an exemption in the property: with a `default` driver a scene that goes A,
B, A has its third frame found unchanged against target 0 while target 1 is shown
(`display.c:739`), so only its presented frames count.
The changes between PARTIAL and DIRECT and to FULL are in the run.  A change to
FULL with a map left over makes every later frame fail at its submission; these
frames end and close properly, which is what is checked.  `display->busy` is not a
variable here: a frame is entered and left as a whole.
The sequence diagram of `docs/architecture.md` differs from the code in two
harmless ways: the code calls `begin_frame` before it prepares, and commits before
`end_frame`; a failing `end_frame` takes the commit back.

### DamagePlan

Rectangles, areas, halo, alignment and merging are the code's arithmetic; a
region that is done leaves the sequence.  `MaxRegions` is 3 for the code's 8, and
the plans are of single pixels on a 7 by 5 display plus one rectangle that does
not fit.  A halo makes them 3 by 3, so three of them overlap, touch and chain in
every way, and alignments 2 and 4 divide neither 7 nor 5.  `Sort`
takes any order `aligned_damage_sort` may leave: by `y1`, then by `x1`.

* `RegionsSeparate`, `MapsCoverDamage`: no two regions touch, also after a merge
  that restarts the search; the maps cover the damage and its halo once each.
* `MapsFit`: on the driver's grid, within the buffer, and only the last is marked.
* `RefusedForCause`: a plan is refused only for a buffer that
  holds no aligned strip or a rectangle off the display; alignment leaves
  something of every rectangle, and the array of regions never runs full.
* `WorkRunsOut`: the search that starts over and the chunk loop end.  `Left` is what
  is still to do: plan, regions, rows, compared in this order; every step lowers it.

### RuntimeLifecycle

One function per field of the runtime, from tasks to values; `pc[t]` is the step
of `create`, `run_frame` or `destroy` the task is at, `next[t]` the extension its
loop is at.  `extension[t][i]` is what the application has seen of an extension.
Foreign code runs at the points `installing`, `in_before`, `frame`, `render` and
`destroying`: there the API calls of the same task are enabled as far as the code
lets them, and `busy` is what turns them down.  Three displays, one of another
task.

* `OneRuntime`: one task between claim and release, nothing of a runtime left at
  the release, PPA clients registered exactly while a runtime has them.
* `ExtensionsNest`: those installed and not destroyed are the first few; none is
  left when the runtime is gone; none lives without a context; only the one
  whose callback runs can get at it.
* `CallsAdvance`: whatever foreign code calls from inside, a call under way only
  comes nearer its end.
* `DisplaysHeld`: what is drawn to or held is alive and attached; `CallsEnd`: every
  call ends.

Fairness: each task runs on inside a call.  No fairness makes it start one.

### JsFrame

`pc` is where a create or a frame is: before or in an extension's callback, in
the application's script, in a job.  There scripts reject and handle promises,
queue jobs, and call host operations whose arguments fail to convert.  `promise`
says what QuickJS knows and the runtime does not: which promises are rejected and
unhandled, and whether since this call or an earlier one.  `exception` holds the
origin of the pending exception: in which extension's callback it was left, or
outside them, and whether in this call or before.  Whose native function left it
is not told apart: the application's own script calls functions that extensions
installed.  `late` is whether this call handled a promise of an earlier
one.  Every extension is taken to have both callbacks; one without a
callback is passed over.  Destruction is in `RuntimeLifecycle`.

* `NoFalseAlarm`: the counter is at most the unhandled promises of this call.
* `SuccessLeavesNothing`: a call that succeeds left no such promise, unless it was
  `late`, and ran the jobs earlier ones left behind too.
* `BlameStaysClose`: what a callback is blamed for was left in it or, for the first
  one, outside the callbacks in the call just before.  More cannot be said: a host
  operation whose argument does not convert (`js_arg_i32`) leaves its exception
  pending, the frame succeeds, and the first extension of the next one is blamed.
* `FaultsFailFrame`: what the README says of pending exceptions and rejections, so
  weak that a frame has to ignore one of each to violate it; violated.

### PackageTables and PackageLoad

The unit is four bytes, so that a 32-bit field is one unit and the words of a run
stay small; sums and products wrap at `WordMax`, the value of both `SIZE_MAX` and
`UINT32_MAX` on the target.  A field is met once, so the step that reads it
chooses its value; a comparison, a hash, a QuickJS call or a loader of the Core
succeeds or fails.  `touched` is the memory the last step used, `[at, length,
limit]`, `held` how many references C code has to each JavaScript value across a
step that may fail, `loaded` and `published` what became of the PAK's entries and of
the properties.  Steps without a branch between them are one action.  The
manifest, which nothing reads, is left out of the view, and a script of one byte
is not told from an empty one: both are refused.

* `ReadsInside`: all memory used lies inside the package or the PAK.
* `OneVariant`: what is opened is whole and of the one variant whose hash agreed.
* `ReleasedOnce`: no JavaScript value is leaked or released twice on any path.
* `AssetsComplete`: an application that starts has all its assets.

### PpaBridge

`asked` is the operation the renderer asked for, `driven` what the driver was
handed for it, `handled` what the bridge returned.  The checks wrap as the code's
do; the properties are stated in true arithmetic.  The driver is external: it may
fail at any time.  That a failure is logged only once is left out.

* `DrawnAsAsked`: what the hardware is given lies inside the destination, the mask
  and the texture, and draws the very rectangle asked for, also scaled and turned,
  a fill in the color and a blend with the alpha asked for.  The RGB of a blend is
  passed through and left out, and so are the mirror flags of an SRM.
* `DrivenWhenPossible`: the hardware gets all it can do exactly, and nothing else;
  an operation counts as drawn without it only if there is nothing to draw.

## 3. Bounds

| Run | Bounds | Why they are enough |
| --- | --- | --- |
| `frame_core` | 2 draw lists and the empty one, one hash for two of them, 2 targets, 2 addresses in a table of 1, epoch modulo 3, 1 load | a list can be replaced and come back; a target can be the wrong one; an address can be evicted; the epoch wraps within a transaction |
| `flush`, `flush_late` | 3 and 2 submissions | a completion of the first can reach the second wait; the third sees what a recovery left |
| `display_frame` and its two violations | 2 strips, 2 colors, 2 scenes, 9 set-ups | two strips make an overlap; the scenes differ in one strip, and a lost history makes it both; the proofs cover the rest |
| `damage_plan` | see above | three regions: the last moves into the gap of the first while one is passed over |
| `lifecycle` | 2 tasks, 3 displays, 3 extensions | one extension with all callbacks, others lacking some; a loser of the race; a display of another task |
| `js_frame`; `unnoticed_faults` | 3 promises, 2 extensions, 3 queued jobs; 2 of each | a promise of an earlier call, one of this call and one to spare; a second extension that could be blamed for the first |
| `package` | words up to 63, packages of 5 and 36 units, counts up to 3 and 62, offsets 0, 16, 61, lengths 0, 2, 12, 60 | a package too short; tables of two variants and three sections that fit; every sum and product a check is about wraps for some choice |
| `ppa` | words up to 63, scales in quarters below 3; 7 surfaces, 6 textures, 13 rectangles, 8 colors, 9 alphas | areas and far edges that wrap to what they should be; scales exact, inexact, too large, and with a product that wraps |

The only deadlocks the runs look for are real ones; every run checks for them.

## 4. Disagreements between the program and its documents

| Run | Property | What happens |
| --- | --- | --- |
| `flush_late` | `OwnVerdict` | a late completion is taken for the next map's (`display.c:633`) |
| `abandoned_map` | `SubmittedPixelsImmutable` | a strip failure leaves a map in flight and the next frame draws over it (`display.c:358`) |
| `direct_redraw` | `RedrawAfterFailure` | after a failed flush a frame succeeds without redrawing (`display.c:429`) |
| `unnoticed_faults` | `FaultsFailFrame` | a handler for an earlier call's promise hides a rejection of this frame (`pocketjs_runtime.c:685`) |
| `unnoticed_faults` | `FaultsFailFrame` | an exception that a host operation leaves pending does not fail the frame (`pocketjs_runtime.c:138`); the next frame fails for it |
| `display_frame` | `KeepsContract` | a failed `end_frame` is followed by `abort_frame`, where one of the two is promised (`display.c:786`); the property passes because it exempts this step, `ClosesTwice` |

`PROJECT.json` quotes the lines that say otherwise.

## 5. Proofs

All theorems hold for every value of the constants that meets the modules'
assumptions, and rest on nothing else.  Those in brackets are properties TLC
checks.

* **FrameCoreProofs**: `TypeCorrect` (`TypeOK`), `CachedListFresh`
  (`CachedListIsFresh`), `OneScene` (`OneSceneOnStrips`), `TokenOneShot`
  (`TokenIsOneShot`), `HistoriesTrue` (`HistoriesAreTrue`), `Refinement`
  (`ImplementsTransactions`).  The inductive invariant is `TypeOK /\
  CachedListIsFresh /\ OneSceneOnStrips`.  The middle part carries the argument:
  an open frame's epoch plus its mutations is the present epoch, so an epoch
  that matches means no mutation, and then list and scene are those prepared;
  matching digests alone prove nothing.  The refinement has one lemma per call:
  it maps to one abstract step or a stutter.  `HistoriesAreTrue` is inductive
  with the types; a lookup that adds, moves or evicts entries keeps every other
  framebuffer's (`EntriesWithState`).
* **FlushHandshakeProofs**: `HandshakePhases` (`HandshakeInv`),
  `ExchangeRefinement` (`ImplementsExchange`), `OwnVerdictReturned` and
  `QuietBetween`, for any number of submissions.  `HandshakeInv` is inductive as it
  stands: where the owner is fixes which maps are settled, how far the map is fixes
  how far its report can be, and that fixes flag, status and semaphore.  So each
  step is one of `MapExchange` or leaves owner, fate and answer alone.
* **RuntimeLifecycleProofs**: `TypeCorrect` (`TypeOK`), `RuntimeExclusive`
  (`OneRuntime`), `ExtensionsStack` (`ExtensionsNest`), `DisplayOwned`
  (`DisplaysHeld`), `CallsOnlyAdvance` (`CallsAdvance`), for any tasks, displays and
  extensions.  The inductive invariant `LifecycleInv` adds to the
  properties which fields a runtime has at each point (`Stages`), who has the PPA
  clients (`PpaOwned`), what is drawn (`Drawing`), and the relation of the loop
  index to the extensions alive (`Nesting`), without which "a prefix is
  installed" is not preserved by the loops.  `CallsOnlyAdvance` needs a rank that
  falls: the stages left of a call (`StagesLeft`), then the iterations left of its
  loop (`LoopLeft`).
* **JsFrameProofs**: `TypeCorrect` (`TypeOK`), `AlarmsAreTrue` (`NoFalseAlarm`),
  `SuccessIsComplete` (`SuccessLeavesNothing`), `BlameIsClose` (`BlameStaysClose`).
  The strengthening is `Exact`: while a call runs and is not `late`, the counter
  *is* the number of its rejected promises; and `Pending`: for every point of a
  call, where and when what is pending there can have been left.
* **PackageLoadProofs**: `TypeCorrect` (`TypeOK`), `AllReadsInside`
  (`ReadsInside`), `OpenedIsOneVariant` (`OneVariant`), `EachReleasedOnce`
  (`ReleasedOnce`), `StartedIsComplete` (`AssetsComplete`), for any word width of at
  least 32 units, and any sizes and field values.  The arithmetic is in lemmas of
  their own: a range check that passes is the range check of true arithmetic, so is
  that of a table, and then the address of an entry does not wrap
  (`EntryIsInside`).  `Inside` keeps what the checks have established of the tables
  and parts that later steps read; `Balanced` says where each value is held;
  `OneSource` and `Collected` relate view and assets to the loops.
* **DisplayFrameProofs**: for any strips, scenes and displays `TypeCorrect`
  (`TypeOK`), `EverythingClosed` (`NothingLeftOpen`), `OverlapIsSafeAlways`
  (`OverlapIsSafe`) and `ContractKept` (`KeepsContract`); under the hypothesis
  `OneHistoryEach` also `HistoriesTrue` (`HistoryIsDrawn`), `SuccessIsShown`
  (`ShownAfterSuccess`) and `FailuresAreRedrawn` (`FailureIsRedrawn`).  The
  hypothesis excludes a DIRECT display with two buffers and no `begin_frame`,
  and the way back from FULL; section 2 says why both are needed.  The invariant
  is in three layers.  `LocalsInv` ties the locals and the Core's transaction to
  the point the owner is at.  `ContractInv` adds what the driver holds
  (`Handed`): a map left over goes where the next frame draws, to a target with
  no history (`LeftOver`), so that frame draws and waits for it first; a map of
  the frame's own goes to its target and from the other buffer (`Ours`).
  `HistoryInv` adds which target is shown (`Placed`) and, strip by strip, that
  what is no longer to do is on the framebuffer or in a map that has not
  succeeded yet (`Drawn`).  `Recovering` is the one addition for
  `FailureIsRedrawn`: after a failed flush there is no history until a frame
  that draws succeeds.
* **DamagePlanProofs**: `TypeCorrect` (`TypeOK`), `RegionsKeepClear`
  (`RegionsSeparate`), `MapsStayOnGrid` (`MapsFit`), `RefusalsHaveCause`
  (`RefusedForCause`), `DamageIsCovered` (`MapsCoverDamage`), `LoopsEnd`
  (`WorkRunsOut`), for any display, plan, buffer and alignment the code accepts, a
  power of two of 32 bits.  Alignment is reduced to three lemmas (`DownIsLast`,
  `UpIsNext`, `MultiplesAdd`), which hold for any alignment above 0.  `PlanInv` adds that every region is aligned and not empty
  (`Regular`, with what the search has compared so far), that no more regions
  exist than rectangles were taken (`Counted`, which is why the array never runs
  full), and that the next chunk starts on the grid inside its region
  (`Cutting`, without which a chunk could shrink to nothing).  `CoverInv` adds,
  pixel by pixel: what was asked for is still to draw or in a map
  (`NothingLost`), and in one map only (`DrawnOnce`).
* **PpaBridgeProofs**: `HardwareDrawsAsAsked` (`DrawnAsAsked`),
  `HardwareDoesWhatItCan` (`DrivenWhenPossible`), for any word width and any sizes.
  Each check is shown to say in wrapping arithmetic what it should in true
  arithmetic (`SurfaceCheck`, `SourceCheck`, `RectCheck`), and `exact_scale` to find
  the exact scale if there is one (`ScaleIsExact`); every operation then follows on
  its own, so the invariant needs no more than that nothing is with the driver
  while nothing is asked for.

Every invariant, every action property and every refinement the passing runs check
is proved; those that hold on some displays only are proved for these
(`OneHistoryEach`).  Checked by TLC only: liveness (`OwnerReturns`, `FrameEnds`,
`CallsEnd`), for which the prover has no fairness rules here.  Of `CallsEnd` the
part that needs no fairness is proved, `CallsAdvance`; `WorkRunsOut` needs none.

## 6. Not modelled

QuickJS, FreeRTOS, the PPA driver and the UI crate are not in the repository and
appear only as the answers they may give.  The QuickJS allocator callbacks, the
Rust allocator hooks, the build tools, CMake files, examples and tests hold no
state that steps interleave on.  Statistics, logging and timing values are left
out.

The embedding tool (`tools/pocket_embed.py`) reads the same format on the host, in
integers that do not wrap and with no state between calls.  Its rules differ from
the runtime's in one place: it embeds a script that is only the terminating zero,
which the device refuses.

## 7. Plan

1. Done: every component with a state of its own is modelled, and every invariant,
   action property and refinement of the passing runs proved.
2. `DisplayFrame` with the way back from FULL, and `Recreate` on another panel, as
   runs that show the stale histories.
3. Drivers that report a map late in `DisplayFrame`, composed with
   `FlushHandshake`.
