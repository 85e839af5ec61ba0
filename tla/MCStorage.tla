----------------------------- MODULE MCStorage -----------------------------
(* Storage for TLC: devices differ only in their traits and places. *)
EXTENDS Storage, TLC

Symmetry == Permutations(Devices)
=============================================================================
