---------------------------- MODULE MCOperations ----------------------------
(* Values for the constants of Operations.                                  *)
EXTENDS Operations

CONSTANTS r1, t1

First == [routes |-> r1, trust |-> t1, secret |-> None]
=============================================================================
