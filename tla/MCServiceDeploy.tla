--------------------------- MODULE MCServiceDeploy ---------------------------
(***************************************************************************)
(* ServiceDeploy for TLC. Plays and images are only compared for equality. *)
(***************************************************************************)
EXTENDS ServiceDeploy, TLC

Symmetry == Permutations(Plays) \cup Permutations(Images)
=============================================================================
