----------------------------- MODULE MCTaskQueue -----------------------------
(* Small instances of TaskQueue for TLC. *)
EXTENDS TaskQueue

CONSTANTS c1, c2, w1, w2

OneCaller  == {c1}
TwoCallers == {c1, c2}
OneWorker  == {w1}
TwoWorkers == {w1, w2}
Serial     == {1}
UpToTwo    == {1, 2}
=============================================================================
