--------------------------- MODULE MCAuthzOutbox ---------------------------
(***************************************************************************)
(* AuthzOutbox for TLC: the constants are given in the .cfg files.         *)
(***************************************************************************)
EXTENDS AuthzOutbox, TLC

EntitySymmetry == Permutations(Entities)
=============================================================================
