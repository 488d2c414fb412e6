------------------------------ MODULE MCWorker ------------------------------
(* Small instances of the worker processes for TLC. *)
EXTENDS WorkerProperties, TLC

\* Owner ids are only compared for equality.
Symmetry == Permutations(Worker)
=============================================================================
