---------------------------- MODULE MCFrameCore ----------------------------
(* FrameCore with every draw list hashing alike, a three-value epoch that  *)
(* wraps at once, and one tracked framebuffer fewer than the host uses.    *)
EXTENDS FrameCore, TLC

CONSTANTS w1, w2, fb1, fb2

MCWords == {w1, w2}
MCAddresses == {fb1, fb2}
MCDrawHash(words) == 0
Interchangeable == Permutations(MCWords) \cup Permutations(MCAddresses)
=============================================================================
