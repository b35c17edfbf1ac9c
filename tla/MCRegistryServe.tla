-------------------------- MODULE MCRegistryServe --------------------------
(* RegistryServe on small instances: the sizes of the contents, and the    *)
(* readers as a symmetric set.                                             *)
EXTENDS RegistryServe, TLC

CONSTANTS x, y

MCSizeOf == Empty :> 0 @@ x :> 1 @@ y :> 2
MCSmallSizeOf == Empty :> 0 @@ x :> 1
MCSymmetry == Permutations(Reader)
=============================================================================
