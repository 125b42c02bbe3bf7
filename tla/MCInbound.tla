----------------------------- MODULE MCInbound ------------------------------
(* Small instances of Inbound. *)
EXTENDS Inbound, TLC

Symmetry == Permutations(Msgs) \cup Permutations(Handlers)
=============================================================================
