------------------------- MODULE MCMigrationRunner -------------------------
(* Instances of MigrationRunner for TLC.                                     *)
EXTENDS MigrationClaims, TLC

OneEntity == [m \in Mig |-> "User"]

AnyRun == Permutations(Run)
=============================================================================
