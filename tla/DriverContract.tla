---------------------------- MODULE DriverContract ----------------------------
(***************************************************************************)
(* What a display promises the callbacks of a board driver, as             *)
(* include/pocketjs_display.h and API.md have it.  A frame is begun for    *)
(* one target; its maps come one at a time, all for this target, the next  *)
(* only when the one before was reported good; and every begin is followed *)
(* by exactly one of end_frame, when nothing has failed and no map is out, *)
(* and abort_frame, when something has failed or nothing changed.  There   *)
(* is no UI, no history, no buffer and no mode here.  DisplayFrame         *)
(* implements this with all of them, but for the frames whose end_frame    *)
(* fails: see KeepsContract there.                                         *)
(***************************************************************************)
CONSTANTS
  Targets,
  NoMap

VARIABLES
  framed,       \* has the driver begin_frame, end_frame and abort_frame
  phase,        \* how far the frame has come
  target,       \* the target the frame was begun for; outside a frame, nothing
  flight,       \* the map the driver holds: [target, status], or NoMap
  closing,      \* what the frame has been closed with
  shown         \* the target of the last end_frame that succeeded

vars == <<framed, phase, target, flight, closing, shown>>

Reports == {"OK", "FAIL", "TIMEOUT"}
Move(from, to) == phase \in from /\ phase' = to
Frame == <<framed, target, closing, shown>>

Init ==
  /\ framed \in BOOLEAN
  /\ phase = "idle"
  /\ target \in Targets
  /\ flight = NoMap
  /\ closing = {}
  /\ shown \in Targets

(* begin_frame: the display compares first, or draws unconditionally.  A   *)
(* frame it cannot use has failed from the start.                          *)
Begin ==
  /\ \E to \in {"comparing", "drawing", "failed"} : Move({"idle"}, to)
  /\ target' \in Targets
  /\ closing' = {}
  /\ UNCHANGED <<framed, flight, shown>>

(* begin_frame itself fails, and nothing is begun.                         *)
BeginFails ==
  /\ framed
  /\ Move({"idle"}, "idle")
  /\ target' \in Targets
  /\ closing' = {}
  /\ UNCHANGED <<framed, flight, shown>>

Unchanged == Move({"comparing"}, "unchanged") /\ UNCHANGED <<Frame, flight>>
Changed == Move({"comparing"}, "drawing") /\ UNCHANGED <<Frame, flight>>

Submit ==
  /\ Move({"drawing"}, "drawing")
  /\ flight = NoMap
  /\ flight' = [target |-> target, status |-> "reading"]
  /\ UNCHANGED Frame

(* The driver finishes the map, fails on it, or lets its time run out.     *)
Report(status) ==
  /\ flight # NoMap /\ flight.status = "reading"
  /\ flight' = [flight EXCEPT !.status = status]
  /\ UNCHANGED <<Frame, phase>>

Good == flight # NoMap /\ flight.status = "OK" /\ flight.target = target
Await ==
  /\ Move({"drawing"}, "drawing")
  /\ Good /\ flight' = NoMap
  /\ UNCHANGED Frame

AwaitFails ==
  /\ flight # NoMap /\ flight.status \in Reports \ {"OK"}
  /\ Move({"drawing"}, "failed")
  /\ flight' = NoMap
  /\ UNCHANGED Frame

(* Everything is drawn, and no map is left with the driver.                *)
Drawn ==
  /\ Move({"drawing"}, "drawn")
  /\ flight = NoMap \/ Good
  /\ flight' = NoMap
  /\ UNCHANGED Frame

(* Rendering or a submission fails; a map may be left with the driver.     *)
Fail == Move({"comparing", "drawing"}, "failed") /\ UNCHANGED <<Frame, flight>>

Close(from, calls) ==
  /\ Move(from, "idle")
  /\ target' \in Targets
  /\ closing' = calls
  /\ UNCHANGED <<framed, flight>>

End == framed /\ Close({"drawn"}, {"end"}) /\ shown' = target
(* The end_frame that fails was the frame's one closing call all the same; *)
(* what is shown stays.                                                    *)
EndFails == framed /\ Close({"drawn"}, {"end"}) /\ UNCHANGED shown
Abort == framed /\ Close({"failed", "unchanged"}, {"abort"}) /\ UNCHANGED shown
Return == ~framed /\ Close({"drawn", "failed", "unchanged"}, {}) /\ UNCHANGED shown

Next ==
  \/ Begin \/ BeginFails \/ Unchanged \/ Changed
  \/ Submit \/ Await \/ AwaitFails \/ Drawn \/ Fail
  \/ \E status \in Reports : Report(status)
  \/ End \/ EndFails \/ Abort \/ Return

Spec == Init /\ [][Next]_vars
=============================================================================
