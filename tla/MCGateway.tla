----------------------------- MODULE MCGateway -----------------------------
(* Requests, keys and console requests are interchangeable; the run checks  *)
(* invariants only.                                                         *)
EXTENDS Gateway, TLC

Symmetry == Permutations(Requests) \cup Permutations(Credentials) \cup Permutations(Admins)
=============================================================================
