------------------------------ MODULE MCClient ------------------------------
(* AppServerClient for TLC. *)
EXTENDS AppServerClient
=============================================================================
