----------------------- MODULE MCThreadedDispatchQueue -----------------------
(* Small instances of ThreadedDispatchQueue for TLC. *)
EXTENDS ThreadedDispatchQueue

CONSTANTS c1, c2, handler

OneCaller  == {c1}
TwoCallers == {c1, c2}
=============================================================================
