------------------------------ MODULE MCOutbox ------------------------------
EXTENDS Outbox, TLC

\* Messages are interchangeable (safety runs only).
Symmetry == Permutations(Ids)
=============================================================================
