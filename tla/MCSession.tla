------------------------------ MODULE MCSession ------------------------------
(* Session instantiated for TLC: processes are interchangeable.             *)
EXTENDS Session, TLC

ProcSymmetry == Permutations(Procs)
=============================================================================
