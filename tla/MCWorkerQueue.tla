--------------------------- MODULE MCWorkerQueue ---------------------------
(* Small instances of WorkerQueue for TLC. *)
EXTENDS WorkerQueue

AllOutageSets == SUBSET {"redis"}

\* Redis always answers.
NoOutageSets == {{}}
=============================================================================
