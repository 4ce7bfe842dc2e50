--------------------------- MODULE MCIdempotency ---------------------------
(***************************************************************************)
(* Idempotency for TLC.                                                    *)
(***************************************************************************)
EXTENDS Idempotency, TLC

ClientSymmetry == Permutations(Clients)
=============================================================================
