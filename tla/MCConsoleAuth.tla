--------------------------- MODULE MCConsoleAuth ---------------------------
(* Threads, browsers and passwords are interchangeable; the run checks      *)
(* invariants only.                                                         *)
EXTENDS ConsoleAuth, TLC

Symmetry == Permutations(Threads) \cup Permutations(Browsers) \cup Permutations(Passwords)
=============================================================================
