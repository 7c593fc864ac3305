--------------------------- MODULE MigrationState ---------------------------
(***************************************************************************)
(* The single `_migration_state` row and the conditional writes that        *)
(* change it (src/src/state-mutations, src/src/lock, and the release-to-    *)
(* apply patch of src/src/runner).  Every verb is a pair of operators: its  *)
(* ConditionExpression (Can...) and the row it leaves behind.  Nothing here *)
(* has state of its own; MigrationRunner fires the verbs as transactions.   *)
(*                                                                          *)
(* A timestamp is kept only as far as the code looks at it: `fresh` is      *)
(* "heartbeatAt is not older than the stale cutoff".  A removed attribute   *)
(* is the empty set, NoRun or NoMig, as DynamoDB drops an empty set.        *)
(***************************************************************************)

CONSTANTS Run,      \* run ids, one randomUUID() per command invocation
          Mig,      \* migration ids
          NoRun, NoMig

ASSUME NoRunAssumption == NoRun \notin Run
ASSUME NoMigAssumption == NoMig \notin Mig

LockState == {"free", "apply", "rollback", "finalize", "release", "failed", "dying"}

\* The states in which a runner works and must heartbeat.
Working == {"apply", "rollback", "finalize", "dying"}

\* Mutant: rollback is forgotten.
GatingNotRollback == {"apply", "release", "failed", "dying"}

\* The states in which the guard rejects application traffic.
Gating == {"apply", "rollback", "release", "failed", "dying"}

Row == [state    : LockState,
        run      : Run \cup {NoRun},
        mig      : Mig \cup {NoMig},
        fresh    : BOOLEAN,
        inFlight : SUBSET Mig,
        failed   : SUBSET Mig,
        release  : SUBSET Mig]

FreeRow == [state |-> "free", run |-> NoRun, mig |-> NoMig, fresh |-> FALSE,
            inFlight |-> {}, failed |-> {}, release |-> {}]

\* Mutants: the heartbeat is not looked at; finalize forgotten by LCK-03.
TakeableAny(row)        == row.state \in Working
TakeableNotFinalize(row) == row.state \in Working \ {"finalize"} /\ ~row.fresh

Takeable(row) == row.state \in Working /\ ~row.fresh

\* acquire: rollback is also admitted from `release` and `failed`.
CanAcquire(row, mode) ==
    \/ row.state = "free"
    \/ Takeable(row)
    \/ mode = "rollback" /\ row.state \in {"release", "failed"}

\* Mutant: a takeover keeps the dead run's migration id.
AcquiredKeepsMig(row, mode, r, m) ==
    [row EXCEPT !.state = mode, !.run = r, !.fresh = TRUE, !.inFlight = @ \cup {m},
                !.mig = IF @ = NoMig THEN m ELSE @]

AcquiredRow(row, mode, r, m) ==
    [row EXCEPT !.state = mode, !.run = r, !.mig = m, !.fresh = TRUE,
                !.inFlight = @ \cup {m}]

CanHeartbeat(row, r) == row.run = r /\ row.state \in Working

HeartbeatRow(row) == [row EXCEPT !.fresh = TRUE]

\* Mutant: the run id is not compared.
CanTransitionAny(row, r) == row.state \in {"apply", "rollback"}

\* transitionToReleaseMode, item 0.
CanTransition(row, r) == row.run = r /\ row.state \in {"apply", "rollback"}

ReleasedRow(row, m) ==
    [row EXCEPT !.state = "release", !.fresh = TRUE,
                !.inFlight = @ \ {m}, !.release = @ \cup {m}]

\* appendInFlight pins the next migration of a batch; no test of the state.
CanAppend(row, r) == row.run = r

\* Mutant: inFlightIds is not extended.
AppendedMigOnly(row, m) == [row EXCEPT !.mig = m]

AppendedRow(row, m) == [row EXCEPT !.mig = m, !.inFlight = @ \cup {m}]

\* transitionReleaseToApply.
CanReenter(row, r, m) == row.run = r /\ row.state = "release" /\ row.mig = m

ReenteredRow(row) == [row EXCEPT !.state = "apply", !.fresh = TRUE]

\* markFailed tests the run id only, whatever the state is.
CanMarkFailed(row, r) == row.run = r

FailedRow(row, m) ==
    [row EXCEPT !.state = "failed", !.fresh = TRUE,
                !.failed = @ \cup {m}, !.inFlight = @ \ {m}]

Unheld(row) == [row EXCEPT !.state = "free", !.run = NoRun, !.mig = NoMig, !.fresh = FALSE]

\* clear, the write of the `release` command.
CanClear(row, r) == row.state = "release" /\ row.run = r /\ row.inFlight = {}

ClearedRow(row) == [Unheld(row) EXCEPT !.release = {}]

CanClearFinalize(row, r) == row.run = r /\ row.state = "finalize"

FinalizeClearedRow(row) == [Unheld(row) EXCEPT !.release = {}, !.inFlight = {}]

\* Mutant: unlock goes by the condition of clear.
CanForceClearIdle(row, r) == row.run = r /\ row.inFlight = {}

\* unlock of a `release` or `failed` row: the id sets are left as they are.
CanForceClear(row, r) == row.run = r

ForceClearedRow(row) == Unheld(row)

=============================================================================
