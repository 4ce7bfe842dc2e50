----------------------------- MODULE MCUserSync -----------------------------
(***************************************************************************)
(* Model checking of UserSync: model values for the clusters.              *)
(***************************************************************************)
EXTENDS UserSync

CONSTANTS c1, c2
=============================================================================
