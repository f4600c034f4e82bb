---------------------------- MODULE MCProofVerify ----------------------------
(* ProofVerify over the small documents of MCRows. *)
EXTENDS ProofVerify, MCRows
=============================================================================
