-------------------------- MODULE MCResilienceGate --------------------------
(* Small instances of ResilienceGate. *)
EXTENDS ResilienceGate, TLC

Symmetry == Permutations(Callers)
=============================================================================
