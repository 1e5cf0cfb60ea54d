------------------------------ MODULE MCInstall ------------------------------
(* Two selections, of which one wants a provider, and a user who has neither *)
(* written the managed key nor a plugin before, or both.                     *)
EXTENDS Install, TLC
CONSTANTS s1, s2, p1, holy, catalog, u
Choices == (s1 :> {p1}) @@ (s2 :> {})
Users == {[key |-> Absent, plugins |-> {}], [key |-> u, plugins |-> {p1}]}
Bounds == [commands |-> 3, troubles |-> 2, releases |-> 1]
=============================================================================
