----------------------------- MODULE MCCertifiers -----------------------------
(* Certifiers over the small documents of MCRows. *)
EXTENDS Certifiers, MCRows

MCSelfProbes == {<<1, 2>>}
=============================================================================
