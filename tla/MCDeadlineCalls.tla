---------------------------- MODULE MCDeadlineCalls ----------------------------
(* A small instance of DeadlineCalls for TLC. *)
EXTENDS DeadlineCalls

CONSTANTS c1, c2, c3

ThreeCalls == {c1, c2, c3}
=============================================================================
