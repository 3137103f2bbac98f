------------------------------ MODULE Descent ------------------------------
(***************************************************************************)
(* Loops within loops that end: the pair of what is left of the outer one  *)
(* and of the inner one is lowered by every turn.                          *)
(***************************************************************************)
EXTENDS Naturals

Lower(x, y) == x[1] < y[1] \/ (x[1] = y[1] /\ x[2] < y[2])
Lowers(x, y) == x \in Nat \X Nat /\ Lower(x, y)
=============================================================================
