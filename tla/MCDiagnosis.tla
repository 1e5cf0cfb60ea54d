----------------------------- MODULE MCDiagnosis -----------------------------
(* WorkStateJournal and WorkStateDiagnosis for TLC. *)
EXTENDS WorkStateDiagnosis, TLC

(* Sound only where no temporal property is checked. *)
Symmetry == Permutations(Assignments)
============================================================================
