------------------------------ MODULE MCDBHost ------------------------------
(* DBHost on small instances: model values for callers, pools, transactions *)
(* and rows, and the symmetry of the safety runs.                           *)
EXTENDS DBHost, TLC

MCSymmetry == Permutations(Pool) \union Permutations(Tx) \union Permutations(Caller)
=============================================================================
