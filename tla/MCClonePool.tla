---------------------------- MODULE MCClonePool ----------------------------
(* ClonePool for TLC: two or three clones, two workers, actions by group.  *)
EXTENDS ClonePool, TLC

CONSTANTS c1, c2, c3, w1, w2

Symmetry == Permutations(Names) \cup Permutations(Workers)

\* Creates and deletes by workers at the same time.
Churn == {"_concurrent_create_delete", "_cleanup_clones"}

\* Everything that changes the pool or its clones, and the checks.
Pooling == Churn \cup {"_single_clone", "_large_scale_parallel", "_repeated_clones",
                       "_nested_clone", "_vdbench_on_clone", "_vdbench_on_clones_parallel",
                       "_delete_random_clones", "_mount_verify_clones",
                       "_integrity_verify_clones"}
=============================================================================
