------------------------- MODULE FrameTransactions -------------------------
(***************************************************************************)
(* What the Core promises the display code about frame transactions: at    *)
(* most one transaction is open, the damage it was opened with is measured *)
(* between the target's last committed picture and the picture of the      *)
(* moment, and a target's history only ever becomes the very picture its   *)
(* transaction was opened with.  There is no draw list, digest, epoch or   *)
(* reuse token here; FrameCore implements this with all four.              *)
(***************************************************************************)
CONSTANTS
  Pictures,     \* everything a target can show
  Targets,      \* the stable target ids
  NoTransaction,
  Unknown       \* a history that says nothing: the next redraw is full

VARIABLES
  picture,      \* what the UI looks like now
  open,         \* the open transaction, or NoTransaction
  history       \* target -> last committed picture, or Unknown

vars == <<picture, open, history>>

Transactions == [target : Targets, picture : Pictures, damaged : BOOLEAN]

Init ==
  /\ picture \in Pictures
  /\ open = NoTransaction
  /\ history = [t \in Targets |-> Unknown]

(* The UI changes; an open transaction stays open and can now only fail,   *)
(* unless the change left the picture as it was.                           *)
Change ==
  /\ picture' \in Pictures
  /\ UNCHANGED <<open, history>>

(* Styles, fonts or textures are replaced: no earlier pixel can be trusted. *)
ReplaceResources ==
  /\ picture' \in Pictures
  /\ open' = NoTransaction
  /\ history' = [t \in Targets |-> Unknown]

Begin(t) ==
  /\ open = NoTransaction
  /\ open' = [target |-> t, picture |-> picture, damaged |-> history[t] # picture]
  /\ UNCHANGED <<picture, history>>

Commit ==
  /\ open # NoTransaction
  /\ open.picture = picture
  /\ history' = [history EXCEPT ![open.target] = picture]
  /\ open' = NoTransaction
  /\ UNCHANGED picture

(* A commit that cannot vouch for the pixels forgets the target instead.   *)
Fail ==
  /\ open # NoTransaction
  /\ history' = [history EXCEPT ![open.target] = Unknown]
  /\ open' = NoTransaction
  /\ UNCHANGED picture

Cancel ==
  /\ open # NoTransaction
  /\ open' = NoTransaction
  /\ UNCHANGED <<picture, history>>

(* Abort forgets target t and closes the transaction only if it is t's.    *)
Forget(t) ==
  /\ history' = [history EXCEPT ![t] = Unknown]
  /\ open' = IF open # NoTransaction /\ open.target = t THEN NoTransaction ELSE open
  /\ UNCHANGED picture

Next ==
  \/ Change
  \/ ReplaceResources
  \/ \E t \in Targets : Begin(t) \/ Forget(t)
  \/ Commit
  \/ Fail
  \/ Cancel

Spec == Init /\ [][Next]_vars
=============================================================================
