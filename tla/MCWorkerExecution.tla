------------------------- MODULE MCWorkerExecution -------------------------
(* Instances of WorkerExecution for TLC. *)
EXTENDS WorkerExecution, TLC

\* The task and its copy are interchangeable.
Copies == Permutations(Tasks)
=============================================================================
