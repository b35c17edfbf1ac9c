--------------------------- MODULE MCReleaseTools ---------------------------
(* ReleaseTools on one package with an old and a generated release, and on  *)
(* a release of another package, which has no rule.                         *)
EXTENDS ReleaseTools

CONSTANTS old, new, plain

MCOrder == <<old, new, plain>>
MCMade == <<new>>
=============================================================================
