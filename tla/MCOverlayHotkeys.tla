-------------------------- MODULE MCOverlayHotkeys --------------------------
(* Keys for TLC: one for each of three targets, and one that is free. *)
EXTENDS OverlayHotkeys, TLC

CONSTANTS k1, k2, k3, k4

FourKeys == {k1, k2, k3, k4}
Interchangeable == Permutations(FourKeys)
=============================================================================
