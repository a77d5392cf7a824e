---------------------------- MODULE MCReconciler ----------------------------
(* Model-checking instances of Reconciler. *)
EXTENDS Reconciler, TLC

\* Run ids and request goroutines are interchangeable in every instance.
Symmetry == Permutations(Runs) \cup Permutations(Hooks)
=============================================================================
