------------------------------- MODULE MCApi -------------------------------
(* Small instances of the API and the worker processes for TLC. *)
EXTENDS ApiProperties, TLC

\* Owner ids are only compared for equality.
Symmetry == Permutations(Worker)
=============================================================================
