---------------------------- MODULE MCReconciler ----------------------------
(***************************************************************************)
(* Two manifests that share b1; m2 has a layer b2 of its own.              *)
(***************************************************************************)
EXTENDS Reconciler

CONSTANTS m1, m2, b1, b2

Layers == [m \in Manifests |-> IF m = m1 THEN {b1} ELSE {b1, b2}]
=============================================================================
