------------------------------ MODULE MapExchange ------------------------------
(***************************************************************************)
(* What submit_flush and wait_for_flush promise the code that renders      *)
(* (src/pocketjs_display.c): one map is out at a time, its fate is settled *)
(* once, and the wait that gives the map up answers with that very fate.   *)
(* There is no flag, no status word, no semaphore and no interrupt here;   *)
(* FlushHandshake implements this with all four.                           *)
(***************************************************************************)
VARIABLES
  owner,        \* "idle", or inside the call "submit" or "wait"
  flight,       \* "none", or how far the map that is out has come
  answer        \* what the last call answered

vars == <<owner, flight, answer>>

(* A driver finishes a map, fails on it, or never reports it.              *)
Fates == {"OK", "FAIL", "TIMEOUT"}

Init ==
  /\ owner = "idle"
  /\ flight = "none"
  /\ answer = "OK"

Call(from, to) == owner = from /\ owner' = to

(* The map goes to the flush callback, which takes it or returns an error. *)
Submit ==
  /\ Call("idle", "submit")
  /\ flight = "none" /\ flight' = "reading"
  /\ UNCHANGED answer

Accept ==
  /\ Call("submit", "idle")
  /\ answer' = "OK"
  /\ UNCHANGED flight

Refuse ==
  /\ Call("submit", "idle")
  /\ flight' = "none"
  /\ answer' = "FAIL"

(* A second map is not taken while one is out.                             *)
TurnDown ==
  /\ Call("idle", "idle")
  /\ flight # "none"
  /\ answer' = "INVALID_STATE"
  /\ UNCHANGED flight

Settle(fate) ==
  /\ flight = "reading" /\ flight' = fate
  /\ UNCHANGED <<owner, answer>>

Wait ==
  /\ Call("idle", "wait")
  /\ flight # "none"
  /\ UNCHANGED <<flight, answer>>

Collect ==
  /\ Call("wait", "idle")
  /\ flight \in Fates /\ flight' = "none"
  /\ answer' = flight

NothingOut ==
  /\ Call("idle", "idle")
  /\ flight = "none"
  /\ answer' = "OK"
  /\ UNCHANGED flight

Next ==
  \/ Submit \/ Accept \/ Refuse \/ TurnDown
  \/ \E fate \in Fates : Settle(fate)
  \/ Wait \/ Collect \/ NothingOut

Spec == Init /\ [][Next]_vars
=============================================================================
