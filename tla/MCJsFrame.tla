------------------------------ MODULE MCJsFrame ------------------------------
(* JsFrame with interchangeable promises.                                  *)
EXTENDS JsFrame, TLC

Interchangeable == Permutations(Promises)
=============================================================================
