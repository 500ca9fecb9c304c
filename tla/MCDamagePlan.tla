----------------------------- MODULE MCDamagePlan -----------------------------
(* DamagePlan with plans of up to three single pixels, on displays whose   *)
(* height no alignment need divide; a halo makes squares of three of them, *)
(* which overlap, touch or keep clear.                                     *)
EXTENDS DamagePlan

Setup(x_alignment, y_alignment, rows) ==
  [x_alignment |-> x_alignment, y_alignment |-> y_alignment, rows |-> rows]

MCRects == [x : 0 .. Width - 1, y : 0 .. Height - 1, width : {1}, height : {1}]
           \cup {[x |-> Width - 1, y |-> 0, width |-> 2, height |-> 1]}
MCSetups == {Setup(1, 1, 1), Setup(2, 2, 3), Setup(1, 4, 5), Setup(4, 1, 2), Setup(1, 2, 1)}
=============================================================================
