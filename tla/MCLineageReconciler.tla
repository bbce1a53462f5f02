------------------------ MODULE MCLineageReconciler ------------------------
(* Instances of LineageReconciler for TLC. *)
EXTENDS LineageReconciler

CONSTANT c1

=============================================================================
