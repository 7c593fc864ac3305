-------------------------- MODULE MigrationRunner --------------------------
(***************************************************************************)
(* The commands of electrodb-migrations as concurrent processes over one    *)
(* DynamoDB table: apply (single and batch), finalize, rollback, release    *)
(* and unlock, with the heartbeat scheduler that runs beside each runner.   *)
(* One run is one invocation of a command: it reads its plan, acquires the  *)
(* lock, works, hands the lock over and returns.  A step of this module is  *)
(* one database call, or one continuation between two awaits; records are   *)
(* scanned and written while pc = "scan".                                   *)
(***************************************************************************)
EXTENDS MigrationState, Integers

CONSTANTS EntityOf,   \* EntityOf[m]: the entity m migrates
          Faults,     \* what may go wrong in this instance
          Operator,   \* TRUE iff an operator may run `unlock`
          Preloaded   \* TRUE iff the client was given the `migrations` array

(***************************************************************************)
(* Migrations are numbers in the order of the pending list, (entityName,    *)
(* fromVersion); within an entity this is also the order of toVersion.      *)
(***************************************************************************)
ASSUME MigAssumption == Mig \subseteq Nat

FaultKind ==
    {"crash",       \* the runner's process dies
     "error",       \* a call of the runner rejects without an effect
     "lostReply",   \* a write takes effect and the runner sees an error
     "conflict",    \* a transaction is cancelled, its condition notwithstanding
     "pause",       \* the process is frozen beyond staleThresholdMs
     "hbLoss",      \* a heartbeat write rejects
     "slow",        \* a call outlasts heartbeatMs while the lock is not working
     "unlockLive",  \* the operator unlocks a run that is still alive
     "finalizeAny"} \* the operator finalizes an id that is not applied

ASSUME FaultsAssumption == Faults \subseteq FaultKind

VARIABLES lock,     \* the `_migration_state` row
          status,   \* status[m]: `_migrations` row of m, "none" when absent
          runRow,   \* runRow[r]: status of the `_migration_runs` row of r
          pc,       \* pc[r]: where run r stands
          job,      \* job[r]: what r does now
          cur,      \* cur[r]: the migration r works on
          todo,     \* todo[r]: the rest of r's batch
          hb,       \* hb[r]: r's heartbeat scheduler
          aborting, \* aborting[r]: markFailed calls onAbort has issued, not awaited
          op,       \* the operator's `unlock` command
          live      \* history: migrations whose v2 data the application has seen

locals == <<pc, job, cur, todo>>
beats  == <<hb, aborting>>
tables == <<lock, status, runRow>>
vars   == <<lock, status, runRow, pc, job, cur, todo, hb, aborting, op, live>>

MigStatus == {"none", "pending", "applied", "finalized", "failed", "reverted"}
RunStatus == {"none", "running", "completed", "failed"}
Job == {"none",
        "first", "later",                       \* apply: first migration, i >= 1
        "finalize",
        "undecided", "case-1", "case-2", "case-3"} \* rollback, by lifecycle case

Ended  == {"ok", "err", "dead"}
PC == {"idle", "readLock", "acquire", "verify", "wait", "scan", "clear", "released",
       "append", "reenter", "begin", "abort", "patch", "stop"} \cup Ended

Mode(r) == CASE job[r] \in {"first", "later"} -> "apply"
             [] job[r] = "finalize"           -> "finalize"
             [] OTHER                         -> "rollback"

Beats == [on : BOOLEAN, fails : {0, 1}]

Unlocking == [pc : {"idle", "confirm", "dispatch", "patch"}, run : Run \cup {NoRun},
              shown : Mig \cup {NoMig}, saw : LockState, mig : Mig \cup {NoMig}]

TypeOK ==
    /\ lock \in Row
    /\ status \in [Mig -> MigStatus]
    /\ runRow \in [Run -> RunStatus]
    /\ pc \in [Run -> PC]
    /\ job \in [Run -> Job]
    /\ cur \in [Run -> Mig \cup {NoMig}]
    /\ todo \in [Run -> SUBSET Mig]
    /\ hb \in [Run -> Beats]
    /\ aborting \in [Run -> SUBSET Mig]
    /\ op \in Unlocking
    /\ live \in SUBSET Mig

Quiet == [on |-> FALSE, fails |-> 0]
NoOp  == [pc |-> "idle", run |-> NoRun, shown |-> NoMig, saw |-> "free", mig |-> NoMig]

Init ==
    /\ lock = FreeRow
    /\ status = [m \in Mig |-> "none"]
    /\ runRow = [r \in Run |-> "none"]
    /\ pc = [r \in Run |-> "idle"]
    /\ job = [r \in Run |-> "none"]
    /\ cur = [r \in Run |-> NoMig]
    /\ todo = [r \in Run |-> {}]
    /\ hb = [r \in Run |-> Quiet]
    /\ aborting = [r \in Run |-> {}]
    /\ op = NoOp
    /\ live = {}

-----------------------------------------------------------------------------
(* Plans, read before the lock is held.                                     *)

First(S) == CHOOSE m \in S : \A n \in S : m <= n

\* loadPendingMigrations: on disk and without a row, or with a pending one.
Pending == {m \in Mig : status[m] \in {"none", "pending"}}

SameEntity(m) == {n \in Mig : EntityOf[n] = EntityOf[m]}

\* isNextPending: m is the first pending migration of its entity.
IsNextPending(m) == m \in Pending /\ \A n \in Pending \cap SameEntity(m) : m <= n

\* findHeadViolation: a later migration of the entity is applied or finalized.
HeadViolation(m) ==
    \E n \in SameEntity(m) : n > m /\ status[n] \in {"applied", "finalized"}

At(r, p) == pc[r] = p
Goto(r, p) == pc' = [pc EXCEPT ![r] = p]
May(f) == f \in Faults

\* A write that took effect: its caller goes on, or sees an error instead.
Replied(r, p, e) ==
    \/ Goto(r, p)
    \/ May("lostReply") /\ Goto(r, e)

StartApply(r) ==
    /\ At(r, "idle")
    /\ \E plan \in {Pending} \cup {{m} : m \in {n \in Mig : IsNextPending(n)}} :
          /\ plan # {}
          /\ cur' = [cur EXCEPT ![r] = First(plan)]
          /\ todo' = [todo EXCEPT ![r] = plan \ {First(plan)}]
    /\ job' = [job EXCEPT ![r] = "first"]
    /\ Goto(r, "acquire")
    /\ UNCHANGED <<tables, beats, op>>

\* resolveMigrationById: without the array, rollback and finalize look the id up
\* in the pending list.
Resolvable(m) == Preloaded \/ m \in Pending

\* finalize <id> looks at no status; finalize --all lists the applied rows.
StartFinalize(r) ==
    /\ At(r, "idle")
    /\ \E m \in Mig :
          /\ Resolvable(m)
          /\ status[m] = "applied" \/ May("finalizeAny")
          /\ cur' = [cur EXCEPT ![r] = m]
    /\ job' = [job EXCEPT ![r] = "finalize"]
    /\ Goto(r, "acquire")
    /\ UNCHANGED <<todo, tables, beats, op>>

\* checkPreconditions, steps 1 to 5; the case of an applied row needs the lock.
StartRollback(r) ==
    /\ At(r, "idle")
    /\ \E m \in Mig :
          /\ Resolvable(m)
          /\ status[m] \in {"applied", "finalized", "failed"}
          /\ ~HeadViolation(m)
          /\ cur' = [cur EXCEPT ![r] = m]
          /\ job' = [job EXCEPT ![r] = CASE status[m] = "failed" -> "case-1"
                                         [] status[m] = "finalized" -> "case-3"
                                         [] OTHER -> "undecided"]
          /\ Goto(r, IF status[m] = "applied" THEN "readLock" ELSE "acquire")
    /\ UNCHANGED <<todo, tables, beats, op>>

\* checkPreconditions, steps 6 and 7: isReleaseModeForMig.
ReadLock(r) ==
    /\ At(r, "readLock")
    /\ job' = [job EXCEPT ![r] =
                 IF lock.state = "release" /\ cur[r] \in lock.release
                 THEN "case-1" ELSE "case-2"]
    /\ Goto(r, "acquire")
    /\ UNCHANGED <<cur, todo, tables, beats, op>>

-----------------------------------------------------------------------------
(* Taking the lock: acquire, the read-back, acquireWaitMs.                   *)

Acquire(r) ==
    /\ At(r, "acquire")
    /\ CanAcquire(lock, Mode(r))
    /\ lock' = AcquiredRow(lock, Mode(r), r, cur[r])
    /\ runRow' = [runRow EXCEPT ![r] = "running"]
    /\ Replied(r, "verify", "err")
    /\ UNCHANGED <<status, job, cur, todo, beats, op>>

AcquireRefused(r) ==
    /\ At(r, "acquire")
    /\ ~CanAcquire(lock, Mode(r)) \/ May("error")
    /\ Goto(r, "err")
    /\ UNCHANGED <<tables, job, cur, todo, beats, op>>

\* A cancellation that is not a failed condition looks like a success.
AcquireCancelled(r) ==
    /\ At(r, "acquire") /\ May("conflict")
    /\ Goto(r, "verify")
    /\ UNCHANGED <<tables, job, cur, todo, beats, op>>

Verify(r) ==
    /\ At(r, "verify")
    /\ lock.run = r
    /\ Goto(r, "wait")
    /\ hb' = [hb EXCEPT ![r] = [on |-> TRUE, fails |-> 0]]
    /\ UNCHANGED <<tables, job, cur, todo, aborting, op>>

VerifyRefused(r) ==
    /\ At(r, "verify")
    /\ lock.run # r \/ May("error")
    /\ Goto(r, "err")
    /\ UNCHANGED <<tables, job, cur, todo, beats, op>>

-----------------------------------------------------------------------------
(* Working.                                                                  *)

\* applyFlowScanWrite puts the row as pending, whatever it holds; the first
\* migration of a batch has slept acquireWaitMs before.
BeginApply(r) ==
    /\ pc[r] \in {"wait", "begin"} /\ Mode(r) = "apply"
    /\ status' = [status EXCEPT ![cur[r]] = "pending"]
    /\ Replied(r, "scan", "abort")
    /\ UNCHANGED <<lock, runRow, job, cur, todo, beats, op>>

BeginOther(r) ==
    /\ At(r, "wait") /\ Mode(r) # "apply"
    /\ Goto(r, "scan")
    /\ UNCHANGED <<tables, job, cur, todo, beats, op>>

Outcome(r) == IF Mode(r) = "apply" THEN "applied" ELSE "reverted"

CanCommit(r) == CanTransition(lock, r) /\ status[cur[r]] # "none"

\* transitionToReleaseMode: the lock, the migration and the run in one write.
Commit(r) ==
    /\ At(r, "scan") /\ Mode(r) # "finalize"
    /\ CanCommit(r)
    /\ lock' = ReleasedRow(lock, cur[r])
    /\ status' = [status EXCEPT ![cur[r]] = Outcome(r)]
    /\ runRow' = [runRow EXCEPT ![r] = "completed"]
    /\ Replied(r, "released", "abort")
    /\ UNCHANGED <<job, cur, todo, beats, op>>

\* Mutant: the failed condition is not reported.
CommitIgnored(r) ==
    /\ At(r, "scan") /\ Mode(r) # "finalize"
    /\ ~CanCommit(r)
    /\ Goto(r, "released")
    /\ UNCHANGED <<tables, job, cur, todo, beats, op>>

CommitRefused(r) ==
    /\ At(r, "scan") /\ Mode(r) # "finalize"
    /\ ~CanCommit(r)
    /\ Goto(r, "abort")
    /\ UNCHANGED <<tables, job, cur, todo, beats, op>>

CommitCancelled(r) ==
    /\ At(r, "scan") /\ Mode(r) # "finalize" /\ May("conflict")
    /\ Goto(r, "released")
    /\ UNCHANGED <<tables, job, cur, todo, beats, op>>

\* finalizeFlow patches the row whether or not it still holds the lock.
MarkFinalized(r) ==
    /\ At(r, "scan") /\ Mode(r) = "finalize"
    /\ IF status[cur[r]] = "none"
       THEN Goto(r, "abort") /\ UNCHANGED status
       ELSE /\ status' = [status EXCEPT ![cur[r]] = "finalized"]
            /\ Replied(r, "clear", "abort")
    /\ UNCHANGED <<lock, runRow, job, cur, todo, beats, op>>

ClearFinalize(r) ==
    /\ At(r, "clear")
    /\ IF CanClearFinalize(lock, r)
       THEN lock' = FinalizeClearedRow(lock) /\ Replied(r, "released", "abort")
       ELSE Goto(r, "abort") /\ UNCHANGED lock
    /\ UNCHANGED <<status, runRow, job, cur, todo, beats, op>>

-----------------------------------------------------------------------------
(* Batches: sched.stop(), then the next migration under the same run id.     *)

Next1(r) == First(todo[r])

Finish(r) ==
    /\ At(r, "released")
    /\ IF todo[r] = {}
       THEN /\ Goto(r, "ok")
            /\ hb' = [hb EXCEPT ![r] = Quiet]
            /\ UNCHANGED <<job, cur, todo>>
       ELSE /\ Goto(r, "append")
            /\ hb' = [hb EXCEPT ![r] = [on |-> TRUE, fails |-> 0]]
            /\ job' = [job EXCEPT ![r] = "later"]
            /\ cur' = [cur EXCEPT ![r] = Next1(r)]
            /\ todo' = [todo EXCEPT ![r] = @ \ {Next1(r)}]
    /\ UNCHANGED <<tables, aborting, op>>

AppendInFlight(r) ==
    /\ At(r, "append")
    /\ IF CanAppend(lock, r)
       THEN lock' = AppendedRow(lock, cur[r]) /\ Replied(r, "reenter", "abort")
       ELSE Goto(r, "abort") /\ UNCHANGED lock
    /\ UNCHANGED <<status, runRow, job, cur, todo, beats, op>>

Reenter(r) ==
    /\ At(r, "reenter")
    /\ IF CanReenter(lock, r, cur[r])
       THEN lock' = ReenteredRow(lock) /\ Replied(r, "begin", "abort")
       ELSE Goto(r, "abort") /\ UNCHANGED lock
    /\ UNCHANGED <<status, runRow, job, cur, todo, beats, op>>

-----------------------------------------------------------------------------
(* Failing: a call in the try block rejects, then the catch block.           *)

Fail(r) ==
    /\ pc[r] \in {"wait", "begin", "scan", "clear", "append", "reenter"}
    /\ May("error")
    /\ Goto(r, "abort")
    /\ UNCHANGED <<tables, job, cur, todo, beats, op>>

\* Mutant: the run's row is left out of the transaction.
MarkFailedLockOnly(r, m) == lock' = FailedRow(lock, m) /\ UNCHANGED runRow

MarkFailedBy(r, m) ==
    /\ lock' = FailedRow(lock, m)
    /\ runRow' = [runRow EXCEPT ![r] = "failed"]

\* Mutant: markFailed is tried until it works.
AfterAbortRetries(r) == IF CanMarkFailed(lock, r) THEN "stop" ELSE "abort"

\* Only applyFlow goes on to patch the migration; the batch loop does not.
AfterAbort(r) == IF job[r] = "first" THEN "patch" ELSE "stop"

Abort(r) ==
    /\ At(r, "abort")
    /\ \/ CanMarkFailed(lock, r) /\ MarkFailedBy(r, cur[r])
       \/ /\ ~CanMarkFailed(lock, r) \/ May("error") \/ May("conflict")
          /\ UNCHANGED <<lock, runRow>>
    /\ Goto(r, AfterAbort(r))
    /\ UNCHANGED <<status, job, cur, todo, beats, op>>

\* The patch is not conditioned on the lock.
PatchFailed(r) ==
    /\ At(r, "patch")
    /\ \/ /\ status[cur[r]] # "none"
          /\ status' = [status EXCEPT ![cur[r]] = "failed"]
       \/ /\ status[cur[r]] = "none" \/ May("error")
          /\ UNCHANGED status
    /\ Goto(r, "stop")
    /\ UNCHANGED <<lock, runRow, job, cur, todo, beats, op>>

StopFailed(r) ==
    /\ At(r, "stop")
    /\ Goto(r, "err")
    /\ hb' = [hb EXCEPT ![r] = Quiet]
    /\ UNCHANGED <<tables, job, cur, todo, aborting, op>>

Crash(r) ==
    /\ pc[r] \notin Ended \cup {"idle"} /\ May("crash")
    /\ Goto(r, "dead")
    /\ hb' = [hb EXCEPT ![r] = Quiet]
    /\ aborting' = [aborting EXCEPT ![r] = {}]
    /\ UNCHANGED <<tables, job, cur, todo, op>>

-----------------------------------------------------------------------------
(* The heartbeat scheduler of run r: maxConsecutiveFailures is 2.            *)

\* Mutant: off by one.
MaxFailuresOff == 3

MaxFailures == 2

Heartbeat(r) ==
    /\ hb[r].on
    /\ CanHeartbeat(lock, r)
    /\ lock' = HeartbeatRow(lock)
    /\ hb' = [hb EXCEPT ![r].fails = 0]
    /\ UNCHANGED <<status, runRow, locals, aborting, op>>

HeartbeatFails(r) ==
    /\ hb[r].on
    /\ \/ lock.run # r
       \/ ~CanHeartbeat(lock, r) /\ May("slow")
       \/ May("hbLoss")
    /\ IF hb[r].fails + 1 >= MaxFailures
       THEN /\ hb' = [hb EXCEPT ![r] = Quiet]
            /\ aborting' = [aborting EXCEPT ![r] = @ \cup {cur[r]}]
       ELSE /\ hb' = [hb EXCEPT ![r].fails = @ + 1]
            /\ UNCHANGED aborting
    /\ UNCHANGED <<tables, locals, op>>

\* onAbort: the runner is not told, and goes on.
HeartbeatAbort(r) ==
    \E m \in aborting[r] :
       /\ aborting' = [aborting EXCEPT ![r] = @ \ {m}]
       /\ \/ CanMarkFailed(lock, r) /\ MarkFailedBy(r, m)
          \/ /\ ~CanMarkFailed(lock, r) \/ May("hbLoss")
             /\ UNCHANGED <<lock, runRow>>
       /\ UNCHANGED <<status, locals, hb, op>>

\* heartbeatAt falls behind the cutoff: nobody beats, or the process slept.
GoStale ==
    /\ lock.state \in Working /\ lock.fresh
    /\ \/ May("pause")
       \/ \A r \in Run : lock.run = r => ~hb[r].on /\ ~At(r, "verify")
    /\ lock' = [lock EXCEPT !.fresh = FALSE]
    /\ UNCHANGED <<status, runRow, locals, beats, op>>

-----------------------------------------------------------------------------
(* `release`, and `unlock --run-id` with its confirmation in between.        *)

\* The run id read just before is compared again by the write itself.
Release ==
    /\ lock.state = "release" /\ CanClear(lock, lock.run)
    /\ lock' = ClearedRow(lock)
    /\ UNCHANGED <<status, runRow, locals, beats, op>>

Alive(r) == pc[r] \notin Ended \cup {"idle"} \/ aborting[r] # {}

UnlockShow ==
    /\ Operator /\ op.pc = "idle" /\ lock.state # "free"
    /\ May("unlockLive") \/ ~\E r \in Run : lock.run = r /\ Alive(r)
    /\ op' = [NoOp EXCEPT !.pc = "confirm", !.run = lock.run, !.shown = lock.mig]
    /\ UNCHANGED <<tables, locals, beats>>

UnlockRead ==
    /\ op.pc = "confirm"
    /\ op' = IF lock.state = "free" THEN NoOp
             ELSE [op EXCEPT !.pc = "dispatch", !.saw = lock.state, !.mig = lock.mig]
    /\ UNCHANGED <<tables, locals, beats>>

\* The row it read picks the branch; the write's condition is on the run id, and
\* markFailed takes a transaction cancelled otherwise for a success.
UnlockWrite ==
    /\ op.pc = "dispatch"
    /\ \/ /\ op.saw \in Working /\ CanMarkFailed(lock, op.run)
          /\ MarkFailedBy(op.run, op.mig)
          /\ op' = [op EXCEPT !.pc = "patch"]
       \/ /\ op.saw \notin Working /\ CanForceClear(lock, op.run)
          /\ lock' = ForceClearedRow(lock)
          /\ op' = NoOp
          /\ UNCHANGED runRow
       \/ /\ lock.run # op.run
          /\ op' = NoOp
          /\ UNCHANGED <<lock, runRow>>
       \/ /\ op.saw \in Working /\ May("conflict")
          /\ op' = [op EXCEPT !.pc = "patch"]
          /\ UNCHANGED <<lock, runRow>>
    /\ UNCHANGED <<status, locals, beats>>

\* Only the CLI patches the migration it showed; client.forceUnlock returns.
UnlockPatch ==
    /\ op.pc = "patch"
    /\ \/ /\ status[op.shown] # "none"
          /\ status' = [status EXCEPT ![op.shown] = "failed"]
       \/ UNCHANGED status
    /\ op' = NoOp
    /\ UNCHANGED <<lock, runRow, locals, beats>>

-----------------------------------------------------------------------------
Command(r) ==
    \/ StartApply(r) \/ StartFinalize(r) \/ StartRollback(r)

Step(r) ==
    \/ ReadLock(r)
    \/ Acquire(r) \/ AcquireRefused(r) \/ AcquireCancelled(r)
    \/ Verify(r) \/ VerifyRefused(r)
    \/ BeginApply(r) \/ BeginOther(r)
    \/ Commit(r) \/ CommitRefused(r) \/ CommitCancelled(r)
    \/ MarkFinalized(r) \/ ClearFinalize(r)
    \/ Finish(r) \/ AppendInFlight(r) \/ Reenter(r)
    \/ Fail(r) \/ Abort(r) \/ PatchFailed(r) \/ StopFailed(r)

Scheduler(r) == Heartbeat(r) \/ HeartbeatFails(r) \/ HeartbeatAbort(r)

Unlock == UnlockShow \/ UnlockRead \/ UnlockWrite \/ UnlockPatch

\* Application traffic passes the guard in the states that do not gate it.
Exposed ==
    IF lock.state \in Gating THEN {}
    ELSE {m \in Mig : status[m] \in {"applied", "finalized"}}

Observe == live' = (live \cup Exposed') \ {m \in Mig : status'[m] = "reverted"}

Act ==
    \/ \E r \in Run : Command(r) \/ Step(r) \/ Scheduler(r) \/ Crash(r)
    \/ GoStale \/ Release \/ Unlock

Next == Act /\ Observe

Spec == Init /\ [][Next]_vars

=============================================================================
