---------------------------- MODULE MCHostServe ----------------------------
(* HostServe on small instances.  With one caller, handles are what grows:  *)
(* the symmetric sets are the identities of pools and transactions.         *)
EXTENDS HostServe, TLC

MCSymmetry == Permutations(Pool) \union Permutations(Tx)
=============================================================================
