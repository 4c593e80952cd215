---------------------------- MODULE MCReconciler ----------------------------
(* Small instances of Reconciler for TLC. *)
EXTENDS Reconciler, TLC

CONSTANTS t1, t2, t3, t4, t5

\* Target groups are only ever compared for equality.
Symmetry == Permutations(TargetGroups)
=============================================================================
