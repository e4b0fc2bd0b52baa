---------------------------- MODULE MCAttestation ----------------------------
(***************************************************************************)
(* Two threads and two nonces: enough for one thread to stall over a nonce  *)
(* that the other inserts, releases and, with the other nonce, purges.      *)
(***************************************************************************)
EXTENDS Attestation, TLC

CONSTANTS n1, n2, t1, t2

Symmetry == Permutations({n1, n2}) \cup Permutations({t1, t2})
=============================================================================
