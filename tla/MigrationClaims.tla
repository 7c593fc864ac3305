-------------------------- MODULE MigrationClaims --------------------------
(***************************************************************************)
(* What the repository's own docs and comments say of the commands and the  *)
(* code does not do.  Every property here is refuted by a run of its own.   *)
(***************************************************************************)
EXTENDS MigrationSafety

\* "Every v2 record on disk is a transformed copy of a v1 record ... Fully
\* lossless" (README 2.1, case 1): the case is chosen before the lock is taken,
\* and the application may have written v2 records since.
Case1Lossless == \A r \in Writers : job[r] = "case-1" => cur[r] \notin live

\* "Permanently delete the v1 records for an applied migration" (README 4.7):
\* finalizeFlow never looks at the migration's row, and without the migrations
\* array only ids that are still pending can be named at all.
FinalizesAppliedOnly ==
    \A r \in Writers : job[r] = "finalize" => status[cur[r]] \in {"applied", "finalized"}

=============================================================================
