----------------------------- MODULE MCPushJobs -----------------------------
(* Small instances of PushJobs: a broadcast, a targeted record that names  *)
(* a target twice, and a record the import refuses.                        *)
EXTENDS PushJobs, TLC

CONSTANTS i1, i2, i3, t1, t2

Asked == (i1 :> {}) @@ (i2 :> {<<t1, 1>>, <<t1, 2>>, <<t2, 1>>}) @@ (i3 :> {<<t1, 1>>})

\* Runs are interchangeable.
Symmetry == Permutations(Runners)
=============================================================================
