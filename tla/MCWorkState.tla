----------------------------- MODULE MCWorkState -----------------------------
(* WorkState for TLC: with Near every path may be added to a scope. *)
EXTENDS WorkStateReport, TLC

Near == [p \in Paths |-> Paths]
Far == [p \in Paths |-> {p}]

(* Near and Far treat all paths alike. *)
Symmetry ==
    Permutations(Paths) \cup Permutations(Assignments \ Operations)
      \cup Permutations(Contents \ {Absent})
============================================================================
