--------------------------- MODULE RuntimeLifecycle ---------------------------
(***************************************************************************)
(* The life of a runtime (src/pocketjs.c with js_runtime_create, run_frame *)
(* and destroy of src/pocketjs_runtime.c): create claims the one runtime   *)
(* of the program and builds it step by step, a failure or destroy takes   *)
(* it down in the opposite order, and in between the owner attaches and    *)
(* detaches a display and runs frames.  Tasks race for the claim and for   *)
(* the PPA clients, which are globals (src/pocketjs_ppa.c).  Extension     *)
(* callbacks, JavaScript and display callbacks are foreign code: they may  *)
(* call the API from inside.                                               *)
(*                                                                         *)
(* A variable that maps tasks holds a field of the runtime a task owns;    *)
(* pc[t] is the step that the owner is at.  An operator Faulty<Name> is    *)
(* <Name> with a slip a programmer could make; Next never uses it.         *)
(***************************************************************************)
EXTENDS Naturals, FiniteSets

CONSTANTS
  Tasks,
  Displays,
  DisplayOwner,     \* the task that created each display
  ExtensionCount,
  Hooks,            \* extension -> the callbacks it has
  None              \* NULL

ASSUME LifecycleAssumption ==
  /\ ExtensionCount \in Nat
  /\ Hooks \in [1 .. ExtensionCount -> SUBSET {"install", "before_frame", "destroy"}]
  /\ DisplayOwner \in [Displays -> Tasks]
  /\ None \notin Displays

Extensions == 1 .. ExtensionCount

VARIABLES
  claimed,          \* s_runtime_claimed
  ppa,              \* are the three global PPA clients registered
  busy,             \* runtime->busy
  core,             \* is there a core
  ppa_initialized,  \* runtime->ppa_initialized
  ctx,              \* is there a JSContext
  installed,        \* installed_extension_count
  active,           \* the extensions whose context may be used
  held,             \* runtime->display
  pc,               \* the place in create, run_frame or destroy
  next,             \* index of the extension a loop is at
  extension,        \* task -> extension -> what the application has seen of it
  alive,            \* display -> is it created
  attached,         \* display -> display->attached
  drawing           \* the display whose render_internal runs

control == <<busy, pc, next>>
platform == <<claimed, core, ppa, ppa_initialized>>
script == <<ctx, installed, active, extension>>
screen == <<held, alive, attached, drawing>>
vars == <<control, platform, script, screen>>

Absent(t) ==
  /\ ~busy[t] /\ ~core[t] /\ ~ppa_initialized[t] /\ ~ctx[t]
  /\ installed[t] = 0 /\ active[t] = {} /\ held[t] = None

Init ==
  /\ claimed = FALSE
  /\ ppa = FALSE
  /\ busy = [t \in Tasks |-> FALSE]
  /\ core = [t \in Tasks |-> FALSE]
  /\ ppa_initialized = [t \in Tasks |-> FALSE]
  /\ ctx = [t \in Tasks |-> FALSE]
  /\ installed = [t \in Tasks |-> 0]
  /\ active = [t \in Tasks |-> {}]
  /\ held = [t \in Tasks |-> None]
  /\ pc = [t \in Tasks |-> "absent"]
  /\ next = [t \in Tasks |-> 0]
  /\ extension = [t \in Tasks |-> [i \in Extensions |-> "none"]]
  /\ alive = [d \in Displays |-> FALSE]
  /\ attached = [d \in Displays |-> FALSE]
  /\ drawing = [t \in Tasks |-> None]

At(t, point) == pc[t] = point
Goto(t, from, to) == pc[t] = from /\ pc' = [pc EXCEPT ![t] = to]
Has(i, hook) == i \in Extensions /\ hook \in Hooks[i]

------------------------------------------------------------------------------
(* pocketjs_create.                                                        *)

(* The compare-and-exchange; a task that loses the race changes nothing.   *)
Claim(t) ==
  /\ Goto(t, "absent", "alloc")
  /\ ~claimed
  /\ claimed' = TRUE
  /\ UNCHANGED <<busy, next, core, ppa, ppa_initialized, script, screen>>

Alloc(t) ==
  /\ Goto(t, "alloc", "core")
  /\ busy' = [busy EXCEPT ![t] = TRUE]
  /\ extension' = [extension EXCEPT ![t] = [i \in Extensions |-> "none"]]
  /\ UNCHANGED <<next, platform, ctx, installed, active, screen>>

AllocFails(t) ==
  /\ Goto(t, "alloc", "release")
  /\ UNCHANGED <<busy, next, platform, script, screen>>

(* The package is rejected or the core cannot be allocated.                *)
CreateFails(t) ==
  /\ Goto(t, "core", "ppa_off")
  /\ UNCHANGED <<busy, next, platform, script, screen>>

CreateCore(t) ==
  /\ Goto(t, "core", "ppa_on")
  /\ core' = [core EXCEPT ![t] = TRUE]
  /\ UNCHANGED <<busy, next, claimed, ppa, ppa_initialized, script, screen>>

(* Clients found registered are used as they are; without PPA the software *)
(* path stays.                                                             *)
InitPpa(t) ==
  /\ Goto(t, "ppa_on", "js")
  /\ ppa' \in (IF ppa THEN {TRUE} ELSE BOOLEAN)
  /\ ppa_initialized' = [ppa_initialized EXCEPT ![t] = ppa']
  /\ UNCHANGED <<busy, next, claimed, core, script, screen>>

(* Runtime and context, the build plan and the host operations.            *)
CreateJs(t) ==
  /\ Goto(t, "js", "install")
  /\ ctx' = [ctx EXCEPT ![t] = TRUE]
  /\ next' = [next EXCEPT ![t] = 1]
  /\ UNCHANGED <<busy, platform, installed, active, extension, screen>>

CreateJsFails(t) ==
  /\ Goto(t, "js", "free_js")
  /\ \E made \in BOOLEAN : ctx' = [ctx EXCEPT ![t] = made]
  /\ UNCHANGED <<busy, next, platform, installed, active, extension, screen>>

(* A callback is entered with its context active.                          *)
EnterCallback(t, hook, from, to) ==
  /\ Has(next[t], hook)
  /\ Goto(t, from, to)
  /\ active' = [active EXCEPT ![t] = @ \cup {next[t]}]
  /\ UNCHANGED <<busy, next, platform, ctx, installed, screen>>

(* finish_extension_callback.                                              *)
Deactivated(contexts, i, failed) == contexts \ {i}
FinishCallback(t, failed) ==
  active' = [active EXCEPT ![t] = Deactivated(@, next[t], failed)]

EnterInstall(t) == EnterCallback(t, "install", "install", "installing") /\ UNCHANGED extension

(* The extension counts as installed, also when it has no install.         *)
FaultyCounted(t) == next[t] + 1
Counted(t) == next[t]
InstallNext(t) ==
  /\ next[t] \in Extensions
  /\ At(t, "installing") \/ (At(t, "install") /\ ~Has(next[t], "install"))
  /\ pc' = [pc EXCEPT ![t] = "install"]
  /\ FinishCallback(t, FALSE)
  /\ installed' = [installed EXCEPT ![t] = Counted(t)]
  /\ extension' = [extension EXCEPT ![t][next[t]] = "installed"]
  /\ next' = [next EXCEPT ![t] = @ + 1]
  /\ UNCHANGED <<busy, platform, ctx, screen>>

InstallFails(t) ==
  /\ Goto(t, "installing", "take_down")
  /\ FinishCallback(t, TRUE)
  /\ next' = [next EXCEPT ![t] = installed[t]]
  /\ UNCHANGED <<busy, platform, ctx, installed, extension, screen>>

(* The application is evaluated, its frame function looked up, its jobs    *)
(* run.                                                                    *)
Evaluate(t) ==
  /\ next[t] > ExtensionCount
  /\ Goto(t, "install", "idle")
  /\ busy' = [busy EXCEPT ![t] = FALSE]
  /\ UNCHANGED <<next, platform, script, screen>>

FaultyEvaluateFails(t) ==
  /\ next[t] > ExtensionCount
  /\ Goto(t, "install", "free_js")
  /\ UNCHANGED <<busy, next, platform, script, screen>>
EvaluateFails(t) ==
  /\ next[t] > ExtensionCount
  /\ Goto(t, "install", "take_down")
  /\ next' = [next EXCEPT ![t] = installed[t]]
  /\ UNCHANGED <<busy, platform, script, screen>>

------------------------------------------------------------------------------
(* The owner's calls, from idle or from foreign code.                      *)

ForeignCode == {"idle", "installing", "in_before", "frame", "render", "destroying"}
FaultyMayCall(t) == pc[t] \in ForeignCode
MayCall(t) == pc[t] \in ForeignCode /\ ~busy[t]

(* attach_display and attach_internal, for a display of the app's size.    *)
Attachable(t, d) == alive[d] /\ ~attached[d] /\ DisplayOwner[d] = t
Attach(t, d) ==
  /\ MayCall(t)
  /\ held[t] = None
  /\ Attachable(t, d)
  /\ held' = [held EXCEPT ![t] = d]
  /\ attached' = [attached EXCEPT ![d] = TRUE]
  /\ UNCHANGED <<control, platform, script, alive, drawing>>

(* detach_internal.                                                        *)
Unhook(t) ==
  /\ attached' = [d \in Displays |-> attached[d] /\ d # held[t]]
  /\ held' = [held EXCEPT ![t] = None]
  /\ UNCHANGED <<alive, drawing>>

Detach(t) ==
  /\ MayCall(t)
  /\ held[t] # None
  /\ Unhook(t)
  /\ UNCHANGED <<control, platform, script>>

(* pocketjs_destroy: busy from here on.                                    *)
Destroy(t) ==
  /\ MayCall(t)
  /\ pc' = [pc EXCEPT ![t] = "take_down"]
  /\ busy' = [busy EXCEPT ![t] = TRUE]
  /\ Unhook(t)
  /\ next' = [next EXCEPT ![t] = installed[t]]
  /\ UNCHANGED <<platform, script>>

(* display_create and display_delete, by the display's own task.           *)
CreateDisplay(d) ==
  /\ ~alive[d]
  /\ alive' = [alive EXCEPT ![d] = TRUE]
  /\ UNCHANGED <<control, platform, script, held, attached, drawing>>

DeleteDisplay(d) ==
  /\ alive[d] /\ ~attached[d]
  /\ alive' = [alive EXCEPT ![d] = FALSE]
  /\ UNCHANGED <<control, platform, script, held, attached, drawing>>

------------------------------------------------------------------------------
(* run_frame.                                                              *)

RunFrame(t) ==
  /\ MayCall(t)
  /\ pc' = [pc EXCEPT ![t] = "before"]
  /\ busy' = [busy EXCEPT ![t] = TRUE]
  /\ next' = [next EXCEPT ![t] = 1]
  /\ UNCHANGED <<platform, script, screen>>

EnterBeforeFrame(t) ==
  EnterCallback(t, "before_frame", "before", "in_before") /\ UNCHANGED extension

BeforeNext(t) ==
  /\ next[t] \in Extensions
  /\ At(t, "in_before") \/ (At(t, "before") /\ ~Has(next[t], "before_frame"))
  /\ pc' = [pc EXCEPT ![t] = "before"]
  /\ FinishCallback(t, FALSE)
  /\ next' = [next EXCEPT ![t] = @ + 1]
  /\ UNCHANGED <<busy, platform, ctx, installed, extension, screen>>

(* The runtime is idle again, whatever became of the frame.                *)
FaultyFinished(failed) == failed
Finished(failed) == FALSE

BeforeFails(t) ==
  /\ Goto(t, "in_before", "idle")
  /\ FinishCallback(t, TRUE)
  /\ busy' = [busy EXCEPT ![t] = Finished(TRUE)]
  /\ UNCHANGED <<next, platform, ctx, installed, extension, screen>>

(* frame() and the pending jobs run.                                       *)
CallFrame(t) ==
  /\ next[t] > ExtensionCount
  /\ Goto(t, "before", "frame")
  /\ UNCHANGED <<busy, next, platform, script, screen>>

FrameFails(t) ==
  /\ Goto(t, "frame", "idle")
  /\ busy' = [busy EXCEPT ![t] = Finished(TRUE)]
  /\ UNCHANGED <<next, platform, script, screen>>

(* The core ticks and the attached display, if any, renders.               *)
TickAndRender(t) ==
  /\ Goto(t, "frame", "render")
  /\ drawing' = [drawing EXCEPT ![t] = held[t]]
  /\ UNCHANGED <<busy, next, platform, script, held, alive, attached>>

FinishFrame(t) ==
  /\ Goto(t, "render", "idle")
  /\ \E failed \in BOOLEAN : busy' = [busy EXCEPT ![t] = Finished(failed)]
  /\ drawing' = [drawing EXCEPT ![t] = None]
  /\ UNCHANGED <<next, platform, script, held, alive, attached>>

------------------------------------------------------------------------------
(* pocketjs_destroy and the failure path of create.                        *)

(* js_runtime_destroy: the installed extensions, last one first.           *)
EnterDestroy(t) ==
  /\ EnterCallback(t, "destroy", "take_down", "destroying")
  /\ extension' = [extension EXCEPT ![t][next[t]] = "destroyed"]

DestroyNext(t) ==
  /\ next[t] \in Extensions
  /\ At(t, "destroying") \/ (At(t, "take_down") /\ ~Has(next[t], "destroy"))
  /\ extension' = [extension EXCEPT ![t][next[t]] = "destroyed"]
  /\ pc' = [pc EXCEPT ![t] = "take_down"]
  /\ \E failed \in BOOLEAN : FinishCallback(t, failed)
  /\ next' = [next EXCEPT ![t] = @ - 1]
  /\ UNCHANGED <<busy, platform, ctx, installed, screen>>

FaultyFreeJs(t) ==
  /\ (At(t, "take_down") /\ next[t] = 0) \/ At(t, "free_js")
  /\ pc' = [pc EXCEPT ![t] = "ppa_off"]
  /\ ctx' = [ctx EXCEPT ![t] = FALSE]
  /\ installed' = [installed EXCEPT ![t] = 0]
  /\ active' = [active EXCEPT ![t] = {}]
  /\ claimed' = FALSE
  /\ UNCHANGED <<busy, next, core, ppa, ppa_initialized, extension, screen>>
FreeJs(t) ==
  /\ (At(t, "take_down") /\ next[t] = 0) \/ At(t, "free_js")
  /\ pc' = [pc EXCEPT ![t] = "ppa_off"]
  /\ ctx' = [ctx EXCEPT ![t] = FALSE]
  /\ installed' = [installed EXCEPT ![t] = 0]
  /\ active' = [active EXCEPT ![t] = {}]
  /\ UNCHANGED <<busy, next, platform, extension, screen>>

DeinitPpa(t) ==
  /\ Goto(t, "ppa_off", "free")
  /\ ppa' = (ppa /\ ~ppa_initialized[t])
  /\ ppa_initialized' = [ppa_initialized EXCEPT ![t] = FALSE]
  /\ UNCHANGED <<busy, next, claimed, core, script, screen>>

(* The core and the runtime itself are freed before the claim is released. *)
FreeCore(t) ==
  /\ Goto(t, "free", "release")
  /\ core' = [core EXCEPT ![t] = FALSE]
  /\ busy' = [busy EXCEPT ![t] = FALSE]
  /\ UNCHANGED <<next, claimed, ppa, ppa_initialized, script, screen>>

Release(t) ==
  /\ Goto(t, "release", "absent")
  /\ claimed' = FALSE
  /\ UNCHANGED <<busy, next, core, ppa, ppa_initialized, script, screen>>

------------------------------------------------------------------------------
Create(t) == Alloc(t) \/ AllocFails(t) \/ CreateFails(t) \/ CreateCore(t) \/ InitPpa(t)
             \/ CreateJs(t) \/ CreateJsFails(t) \/ EnterInstall(t) \/ InstallNext(t)
             \/ InstallFails(t) \/ Evaluate(t) \/ EvaluateFails(t)
Calls(t) == Detach(t) \/ Destroy(t) \/ RunFrame(t) \/ \E d \in Displays : Attach(t, d)
Frame(t) == EnterBeforeFrame(t) \/ BeforeNext(t) \/ BeforeFails(t) \/ CallFrame(t)
            \/ FrameFails(t) \/ TickAndRender(t) \/ FinishFrame(t)
TakeDown(t) == EnterDestroy(t) \/ DestroyNext(t) \/ FreeJs(t) \/ DeinitPpa(t) \/ FreeCore(t)
               \/ Release(t)

Next ==
  \/ \E t \in Tasks : Claim(t) \/ Create(t) \/ Calls(t) \/ Frame(t) \/ TakeDown(t)
  \/ \E d \in Displays : CreateDisplay(d) \/ DeleteDisplay(d)

Spec == Init /\ [][Next]_vars

(* Foreign code returns and the owner's calls run on.                      *)
FairSpec == Spec /\ \A t \in Tasks : WF_vars(Create(t) \/ Frame(t) \/ TakeDown(t))

------------------------------------------------------------------------------
(* Properties.                                                             *)

Points == {"absent", "alloc", "core", "ppa_on", "js", "install", "installing", "idle", "before",
           "in_before", "frame", "render", "take_down", "destroying", "free_js", "ppa_off",
           "free", "release"}

(* Types of the state.                                                     *)
TypeOK ==
  /\ claimed \in BOOLEAN
  /\ ppa \in BOOLEAN
  /\ busy \in [Tasks -> BOOLEAN]
  /\ core \in [Tasks -> BOOLEAN]
  /\ ppa_initialized \in [Tasks -> BOOLEAN]
  /\ ctx \in [Tasks -> BOOLEAN]
  /\ installed \in [Tasks -> 0 .. ExtensionCount]
  /\ active \in [Tasks -> SUBSET Extensions]
  /\ held \in [Tasks -> Displays \cup {None}]
  /\ pc \in [Tasks -> Points]
  /\ next \in [Tasks -> 0 .. ExtensionCount + 1]
  /\ extension \in [Tasks -> [Extensions -> {"none", "installed", "destroyed"}]]
  /\ alive \in [Displays -> BOOLEAN]
  /\ attached \in [Displays -> BOOLEAN]
  /\ drawing \in [Tasks -> Displays \cup {None}]

(* Only one task at a time is between the claim and its release, and what  *)
(* the runtimes own or use does not outlive it: without the claim there is *)
(* no core, no JavaScript and no PPA client, so the next runtime can never *)
(* lose its PPA clients to the end of the one before.                      *)
OneRuntime ==
  /\ \A t, u \in Tasks : pc[t] # "absent" /\ pc[u] # "absent" => t = u
  /\ \A t \in Tasks : pc[t] # "absent" => claimed
  /\ \A t \in Tasks : pc[t] \in {"absent", "release"} => Absent(t)
  /\ ppa <=> \E t \in Tasks : ppa_initialized[t]

Living(t) == {i \in Extensions : extension[t][i] = "installed"}
FirstInstalled ==
  \A t \in Tasks :
    /\ \E k \in 0 .. ExtensionCount : Living(t) = 1 .. k
    /\ pc[t] \in {"absent", "release", "free", "ppa_off"} => Living(t) = {}
    /\ Living(t) # {} => ctx[t]

InCallback == {"installing", "in_before", "destroying"}
ContextOnlyInCallback ==
  \A t \in Tasks :
    active[t] = IF pc[t] \in InCallback THEN {next[t]} ELSE {}

(* An application sees its extensions nest: those installed and not yet    *)
(* destroyed are always the first few, none is left when the runtime is    *)
(* gone, whichever install or evaluation failed, none is alive without a   *)
(* context, and only the one whose callback runs can get at it.            *)
ExtensionsNest == FirstInstalled /\ ContextOnlyInCallback

(* A display that is being drawn to, or that a runtime holds, is alive and *)
(* attached, and attached to that runtime only; one held by nobody is      *)
(* free to be deleted.                                                     *)
DisplaysHeld ==
  /\ \A t \in Tasks : drawing[t] # None => held[t] = drawing[t]
  /\ \A d \in Displays :
       LET holders == {t \in Tasks : held[t] = d} IN
       /\ attached[d] <=> holders # {}
       /\ attached[d] => alive[d]
       /\ \A t \in holders : DisplayOwner[d] = t

(* What is left of the call a task is in: stages, and within a loop over   *)
(* the extensions its steps.                                               *)
StagesLeft(point) ==
  CASE point \in {"absent", "idle"} -> 0
    [] point = "alloc" -> 10
    [] point = "core" -> 9
    [] point = "ppa_on" -> 8
    [] point = "js" -> 7
    [] point \in {"install", "installing", "before", "in_before"} -> 6
    [] point \in {"frame", "take_down", "destroying"} -> 5
    [] point \in {"render", "free_js"} -> 4
    [] point = "ppa_off" -> 3
    [] point = "free" -> 2
    [] point = "release" -> 1
LoopLeft(point, index) ==
  CASE point \in {"install", "before"} -> 2 * (ExtensionCount + 1 - index) + 1
    [] point \in {"installing", "in_before"} -> 2 * (ExtensionCount + 1 - index)
    [] point = "take_down" -> 2 * index + 1
    [] point = "destroying" -> 2 * index
    [] OTHER -> 0
Nearer(from, start, to, index) ==
  /\ {StagesLeft(from), StagesLeft(to), LoopLeft(from, start), LoopLeft(to, index)} \subseteq Nat
  /\ \/ StagesLeft(to) < StagesLeft(from)
     \/ StagesLeft(to) = StagesLeft(from) /\ LoopLeft(to, index) < LoopLeft(from, start)

Advances(t) ==
  \/ pc[t] \in {"absent", "idle"} \/ UNCHANGED <<pc[t], next[t]>>
  \/ Nearer(pc[t], next[t], pc'[t], next'[t])

(* Whatever foreign code calls from inside, a create, a frame or a destroy *)
(* only ever comes nearer its end: no call from a callback starts it over, *)
(* takes it down under its own feet, or makes a loop pass an extension     *)
(* twice.                                                                  *)
CallsAdvance == [][\A t \in Tasks : Advances(t)]_vars

(* Every create, frame and destroy comes to an end, and leaves the runtime *)
(* able to take the next call or gone with its claim released.             *)
CallsEnd ==
  \A t \in Tasks :
    pc[t] \notin {"absent", "idle"} ~>
      (pc[t] = "idle" /\ ~busy[t]) \/ (pc[t] = "absent" /\ Absent(t))
=============================================================================
