------------------------------- MODULE MCLock -------------------------------
(* WorkStateLock for TLC: interchangeable processes. *)
EXTENDS WorkStateLock, TLC

Symmetry == Permutations(Proc)
============================================================================
