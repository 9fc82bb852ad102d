-------------------------- MODULE MCStandaloneExit --------------------------
(* A small instance of StandaloneExit for TLC. *)
EXTENDS StandaloneExit
=============================================================================
