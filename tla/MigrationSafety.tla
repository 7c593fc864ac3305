-------------------------- MODULE MigrationSafety --------------------------
(***************************************************************************)
(* What MigrationRunner must, or claims to, guarantee.                      *)
(***************************************************************************)
EXTENDS MigrationRunner

(***************************************************************************)
(* Whatever goes wrong.                                                     *)
(***************************************************************************)

\* The lock row implements a lease: a displaced run never owns the lock again,
\* only the owner's writes settle its run, and a run that has neither settled
\* nor gone silent keeps the lock (the conditions of src/state-mutations).
Lease == INSTANCE LockLease
           WITH owner <- lock.run, expired <- Takeable(lock), outcome <- runRow

LeaseRefined == Lease!LeaseSpec

\* The two rows every verb writes in one transaction never disagree: a lock in
\* `release` belongs to a completed run, one in `failed` to a failed run, and
\* a working one to a run that has not failed.
LockAndRunAgree ==
    /\ lock.state = "release" => runRow[lock.run] = "completed"
    /\ lock.state = "failed"  => runRow[lock.run] = "failed"
    /\ lock.state \in Working => runRow[lock.run] \in {"running", "completed"}

\* While any runner works, the migration it works on is in inFlightIds, so that
\* `release` (attribute_not_exists(inFlightIds)) cannot free the lock of a
\* batch that has gone on to its next migration.
WorkingIsInFlight == lock.state \in Working => lock.mig \in lock.inFlight

(***************************************************************************)
(* When transactions are cancelled only by their conditions.                *)
(***************************************************************************)

\* The row names the migration and the mode its owner really works on, which
\* is what `unlock` and `status` read from it.
OwnerAgrees ==
    lock.state \in Working =>
        lock.mig = cur[lock.run] /\ lock.state = Mode(lock.run)

\* A run that returns success does not leave its row `running`: the row has the
\* run's outcome, or what an `unlock` made of it (transition.ts: a cancelled
\* transaction surfaces to the operator as a throw).
SuccessIsRecorded ==
    \A r \in Run :
        pc[r] = "ok" /\ job[r] # "finalize" => runRow[r] # "running"

(***************************************************************************)
(* When heartbeats get through and nobody unlocks a live run.               *)
(***************************************************************************)

Writers == {r \in Run : pc[r] = "scan"}

\* Two runners never write records at the same time (README 1: the migration
\* and maintenance states block other runners).
SingleWriter == \A r, s \in Writers : r = s

\* Application traffic is gated as long as apply or rollback writes records.
WritersGated ==
    \A r \in Writers : Mode(r) # "finalize" => lock.state \in Gating

\* Once the lock is in release mode and no later migration of the batch is in
\* flight, the migration it names is applied or reverted: the operator who
\* deploys and calls `release` is not opening a half-migrated table.
ReleaseMeansSettled ==
    lock.state = "release" /\ lock.mig \notin lock.inFlight =>
        status[lock.mig] \in {"applied", "reverted"}

(***************************************************************************)
(* Liveness.                                                                *)
(***************************************************************************)

\* Every awaited call settles and Node runs its continuation; rejected onAbort
\* calls settle too.
RunnersFair == \A r \in Run :
    WF_vars(Step(r) /\ Observe) /\ WF_vars(HeartbeatAbort(r) /\ Observe)

FairSpec == Spec /\ RunnersFair

\* Time passes for a silent lock.
TimePasses == WF_vars(GoStale /\ Observe)

\* The operator follows README 1, "Manual recovery".
OperatorRecovers == WF_vars(Unlock /\ Observe)

\* Every command returns: a batch does not go round in circles.
CommandReturns == \A r \in Run : pc[r] # "idle" ~> pc[r] \in Ended

\* LCK-03: the lock of a crashed runner becomes available again by itself, in
\* whichever mode the runner was, unless `unlock` ends its run first.
CrashedLockExpires ==
    TimePasses =>
        (lock.state \in Working /\ pc[lock.run] = "dead"
            ~> CanAcquire(lock, "apply") \/ lock.state \notin Working)

\* Nothing a command can leave behind keeps `unlock` from freeing the lock.
EventuallyFree == OperatorRecovers => <>[](lock.state = "free")

=============================================================================
