-------------------------- MODULE OwnershipProofs --------------------------
(***************************************************************************)
(* What MigrationSafety says of the owner of the lock and of the runners    *)
(* that write, proved for every number of runs and migrations.  Each part   *)
(* names the faults it has to exclude; the README shows what they break.    *)
(***************************************************************************)
EXTENDS MigrationSafetyProofs

(***************************************************************************)
(* A step of one run leaves the others where they were, and a run that has  *)
(* ended goes nowhere.                                                      *)
(***************************************************************************)
Acts(r) == Command(r) \/ Step(r) \/ Scheduler(r) \/ Crash(r)

LEMMA OthersStand ==
    ASSUME TypeInv, NEW r \in Run, Acts(r), NEW x \in Run, x # r
    PROVE  /\ pc'[x] = pc[x] /\ job'[x] = job[x] /\ cur'[x] = cur[x]
           /\ hb'[x] = hb[x] /\ aborting'[x] = aborting[x]
<1> USE DEF TypeInv, TypeOK, Goto, Replied, locals, beats
<1>1. CASE Command(r) \/ ReadLock(r)
    BY <1>1 DEF Command, StartApply, StartFinalize, StartRollback, ReadLock
<1>2. CASE \/ Acquire(r) \/ AcquireRefused(r) \/ AcquireCancelled(r)
           \/ Verify(r) \/ VerifyRefused(r) \/ BeginApply(r) \/ BeginOther(r)
    BY <1>2 DEF Acquire, AcquireRefused, AcquireCancelled, Verify, VerifyRefused,
        BeginApply, BeginOther
<1>3. CASE \/ Commit(r) \/ CommitRefused(r) \/ CommitCancelled(r)
           \/ MarkFinalized(r) \/ ClearFinalize(r)
    BY <1>3 DEF Commit, CommitRefused, CommitCancelled, MarkFinalized, ClearFinalize
<1>4. CASE Finish(r)
    BY <1>4 DEF Finish
<1>5. CASE AppendInFlight(r) \/ Reenter(r) \/ Fail(r)
    BY <1>5 DEF AppendInFlight, Reenter, Fail
<1>6. CASE Abort(r) \/ PatchFailed(r) \/ StopFailed(r) \/ Crash(r)
    BY <1>6 DEF Abort, PatchFailed, StopFailed, Crash
<1>7. CASE Scheduler(r)
    BY <1>7 DEF Scheduler, Heartbeat, HeartbeatFails, HeartbeatAbort
<1> QED
    BY <1>1, <1>2, <1>3, <1>4, <1>5, <1>6, <1>7 DEF Acts, Step

LEMMA EndedStands ==
    ASSUME TypeInv, NEW r \in Run, Acts(r), pc[r] \in Ended
    PROVE  pc'[r] = pc[r]
<1> USE DEF Ended, At
<1>1. CASE Command(r) \/ Step(r) \/ Crash(r)
    BY <1>1 DEF Command, StartApply, StartFinalize, StartRollback, Step, ReadLock,
        Acquire, AcquireRefused, AcquireCancelled, Verify, VerifyRefused,
        BeginApply, BeginOther, Commit, CommitRefused, CommitCancelled, MarkFinalized,
        ClearFinalize, Finish, AppendInFlight, Reenter, Fail, Abort, PatchFailed,
        StopFailed, Crash
<1>2. CASE Scheduler(r)
    BY <1>2 DEF Scheduler, Heartbeat, HeartbeatFails, HeartbeatAbort, locals
<1> QED
    BY <1>1, <1>2 DEF Acts

\* The steps of the clock and of the operator move no run.
LEMMA SharedStand ==
    ASSUME GoStale \/ Release \/ Unlock
    PROVE  UNCHANGED <<locals, beats>>
<1> QED
    BY DEF GoStale, Release, Unlock, UnlockShow, UnlockRead, UnlockWrite, UnlockPatch,
        locals, beats

(***************************************************************************)
(* What a run does where it stands, whatever goes wrong: only finalize      *)
(* comes to `clear`, only the later migrations of a batch to `reenter`, and *)
(* only a rollback whose case is open to `readLock`.                        *)
(***************************************************************************)
JobAgrees(r) ==
    /\ pc[r] = "clear" => job[r] = "finalize"
    /\ pc[r] \in {"append", "reenter", "begin"} => job[r] = "later"
    /\ pc[r] = "readLock" => job[r] = "undecided"

JobInv == \A r \in Run : JobAgrees(r)

LEMMA InitJobInv == Init => JobInv
<1> QED
    BY DEF Init, JobInv, JobAgrees

LEMMA JobStep ==
    ASSUME TypeInv, JobInv, Act PROVE JobInv'
<1>1. ASSUME NEW r \in Run, Acts(r) PROVE JobInv'
  <2>1. \A x \in Run \ {r} : JobAgrees(x)'
      BY <1>1, OthersStand DEF JobInv, JobAgrees
  <2>2. JobAgrees(r)'
    <3> USE DEF JobAgrees, TypeInv, TypeOK, Goto, Replied, At
    <3>1. CASE Command(r) \/ ReadLock(r)
        BY <3>1 DEF Command, StartApply, StartFinalize, StartRollback, ReadLock
    <3>2. CASE \/ Acquire(r) \/ AcquireRefused(r) \/ AcquireCancelled(r)
               \/ Verify(r) \/ VerifyRefused(r) \/ BeginApply(r) \/ BeginOther(r)
        BY <3>2 DEF Acquire, AcquireRefused, AcquireCancelled, Verify, VerifyRefused,
            BeginApply, BeginOther
    <3>3. CASE Commit(r) \/ CommitRefused(r) \/ CommitCancelled(r) \/ ClearFinalize(r)
        BY <3>3 DEF Commit, CommitRefused, CommitCancelled, ClearFinalize
    <3>4. CASE MarkFinalized(r)
      <4>1. job[r] = "finalize"
          BY <3>4 DEF MarkFinalized, Mode, Job
      <4> QED
          BY <3>4, <4>1 DEF MarkFinalized
    <3>5. CASE Finish(r)
        BY <3>5 DEF Finish
    <3>6. CASE AppendInFlight(r) \/ Reenter(r) \/ Fail(r)
        BY <3>6 DEF JobInv, AppendInFlight, Reenter, Fail
    <3>7. CASE Abort(r) \/ PatchFailed(r) \/ StopFailed(r) \/ Crash(r)
        BY <3>7 DEF Abort, AfterAbort, PatchFailed, StopFailed, Crash
    <3>8. CASE Scheduler(r)
        BY <3>8 DEF JobInv, Scheduler, Heartbeat, HeartbeatFails, HeartbeatAbort, locals
    <3> QED
        BY <1>1, <3>1, <3>2, <3>3, <3>4, <3>5, <3>6, <3>7, <3>8 DEF Acts, Step
  <2> QED
      BY <2>1, <2>2 DEF JobInv
<1>2. CASE GoStale \/ Release \/ Unlock
    BY <1>2, SharedStand DEF JobInv, JobAgrees, locals
<1> QED
    BY <1>1, <1>2 DEF Act, Acts

LEMMA JobInvariant == Spec => []JobInv
<1>1. TypeInv /\ JobInv /\ [Next]_vars => JobInv'
  <2>1. UNCHANGED vars /\ JobInv => JobInv'
      BY DEF vars, JobInv, JobAgrees
  <2> QED
      BY <2>1, JobStep DEF Next
<1> QED
    BY InitJobInv, TypeInvariant, <1>1, PTL DEF Spec

(***************************************************************************)
(* The owner, when transactions are cancelled only by their conditions.     *)
(* Between two migrations of a batch the runner's own idea of what it works *)
(* on runs ahead of the row, which must not say that it works.              *)
(***************************************************************************)
Between(r) ==
    pc[r] \in {"released", "append"} /\ lock.run = r => lock.state \notin Working

OwnerInv == OwnerAgrees /\ \A r \in Run : Between(r)

LEMMA InitOwnerInv == Init => OwnerInv
<1> QED
    BY NoRunAssumption DEF Init, OwnerInv, OwnerAgrees, Between, FreeRow, Working

\* The row names the same run, migration and state, and that run stays where
\* it was or moves within its migration.
LEMMA OwnerUntouched ==
    ASSUME OwnerInv,
           lock'.run = lock.run, lock'.state = lock.state, lock'.mig = lock.mig,
           \A x \in Run : lock.run = x =>
              /\ cur'[x] = cur[x] /\ job'[x] = job[x]
              /\ pc'[x] \in {"released", "append"} => pc[x] \in {"released", "append"},
           lock.state # "free" => lock.run \in Run
    PROVE  OwnerInv'
<1>1. CASE lock.state \in Working
  <2>1. lock.run \in Run
      BY <1>1 DEF Working
  <2>2. Mode(lock.run)' = Mode(lock.run)
      BY <2>1 DEF Mode
  <2> QED
      BY <1>1, <2>1, <2>2 DEF OwnerInv, OwnerAgrees, Between
<1>2. CASE lock.state \notin Working
    BY <1>2 DEF OwnerInv, OwnerAgrees, Between
<1> QED
    BY <1>1, <1>2

\* The row says that nobody works.
LEMMA OwnerSettled ==
    ASSUME lock'.state \notin Working PROVE OwnerInv'
<1> QED
    BY DEF OwnerInv, OwnerAgrees, Between

LEMMA FailedSettles ==
    ASSUME TypeInv, NEW r, NEW m, MarkFailedBy(r, m), "failed" \notin Working
    PROVE  OwnerInv'
<1>1. lock'.state = "failed"
    BY DEF MarkFailedBy, FailedRow, TypeInv, TypeOK, Row
<1> QED
    BY <1>1, OwnerSettled

LEMMA OwnerStep ==
    ASSUME "conflict" \notin Faults, TypeInv, RowInv, JobInv, OwnerInv, Act
    PROVE  OwnerInv'
<1>h. lock.state # "free" => lock.run \in Run
    BY DEF TypeInv, Held, HeldRow
<1>w. /\ "free" \notin Working /\ "release" \notin Working /\ "failed" \notin Working
    BY DEF Working
<1>1. ASSUME NEW r \in Run, Acts(r) PROVE OwnerInv'
  <2>1. CASE StartApply(r) \/ StartFinalize(r) \/ StartRollback(r) \/ ReadLock(r)
    <3>1. lock.run # r /\ UNCHANGED lock
        BY <2>1 DEF StartApply, StartFinalize, StartRollback, ReadLock, At, tables, RowInv, Fresh
    <3>2. \A x \in Run \ {r} : cur'[x] = cur[x] /\ job'[x] = job[x] /\ pc'[x] = pc[x]
        BY <1>1, OthersStand
    <3> QED
        BY <3>1, <3>2, <1>h, OwnerUntouched
  <2>2. CASE \/ AcquireRefused(r) \/ AcquireCancelled(r) \/ Verify(r) \/ VerifyRefused(r)
             \/ BeginApply(r) \/ BeginOther(r) \/ CommitRefused(r) \/ Fail(r)
             \/ PatchFailed(r) \/ StopFailed(r) \/ HeartbeatFails(r) \/ Crash(r)
    <3>1. UNCHANGED <<lock, cur, job>>
        BY <2>2 DEF AcquireRefused, AcquireCancelled, Verify, VerifyRefused, BeginApply,
            BeginOther, CommitRefused, Fail, PatchFailed, StopFailed, HeartbeatFails, Crash,
            tables, locals
    <3>2. \A x \in Run : pc'[x] \in {"released", "append"} => pc[x] \in {"released", "append"}
        BY <2>2 DEF AcquireRefused, AcquireCancelled, Verify, VerifyRefused, BeginApply,
            BeginOther, CommitRefused, Fail, PatchFailed, StopFailed, HeartbeatFails, Crash,
            locals, At, Goto, Replied, TypeInv, TypeOK, Ended
    <3> QED
        BY <3>1, <3>2, <1>h, OwnerUntouched
  <2>3. CASE Acquire(r)
    <3>1. /\ lock'.run = r /\ lock'.state = Mode(r) /\ lock'.mig = cur[r]
          /\ UNCHANGED <<job, cur>>
        BY <2>3 DEF Acquire, AcquiredRow, TypeInv, TypeOK, Row
    <3>2. pc'[r] \in {"verify", "err"}
        BY <2>3 DEF Acquire, Replied, Goto, TypeInv, TypeOK
    <3>3. Mode(r)' = Mode(r)
        BY <3>1 DEF Mode
    <3> QED
        BY <3>1, <3>2, <3>3 DEF OwnerInv, OwnerAgrees, Between
  <2>4. CASE Commit(r)
    <3>1. lock'.state = "release"
        BY <2>4 DEF Commit, ReleasedRow, TypeInv, TypeOK, Row
    <3> QED
        BY <3>1, <1>w, OwnerSettled
  <2>5. CASE CommitCancelled(r)
      BY <2>5 DEF CommitCancelled, May
  <2>6. CASE MarkFinalized(r)
    <3>1. UNCHANGED <<lock, cur, job>>
        BY <2>6 DEF MarkFinalized
    <3>2. \A x \in Run : pc'[x] \in {"released", "append"} => pc[x] \in {"released", "append"}
        BY <2>6 DEF MarkFinalized, Goto, Replied, TypeInv, TypeOK
    <3> QED
        BY <3>1, <3>2, <1>h, OwnerUntouched
  <2>7. CASE ClearFinalize(r)
    <3>1. CASE CanClearFinalize(lock, r)
      <4>1. lock'.state = "free"
          BY <2>7, <3>1 DEF ClearFinalize, FinalizeClearedRow, Unheld, TypeInv, TypeOK, Row
      <4> QED
          BY <4>1, <1>w, OwnerSettled
    <3>2. CASE ~CanClearFinalize(lock, r)
      <4>1. UNCHANGED <<lock, cur, job>>
          BY <2>7, <3>2 DEF ClearFinalize
      <4>2. \A x \in Run : pc'[x] \in {"released", "append"} => pc[x] \in {"released", "append"}
          BY <2>7, <3>2 DEF ClearFinalize, Goto, TypeInv, TypeOK
      <4> QED
          BY <4>1, <4>2, <1>h, OwnerUntouched
    <3> QED
        BY <3>1, <3>2
  <2>8. CASE Finish(r)
    <3>1. UNCHANGED lock /\ (lock.run = r => lock.state \notin Working)
        BY <2>8 DEF Finish, tables, At, OwnerInv, Between
    <3>2. \A x \in Run \ {r} : cur'[x] = cur[x] /\ job'[x] = job[x] /\ pc'[x] = pc[x]
        BY <1>1, OthersStand
    <3>3. CASE lock.run = r
        BY <3>1, <3>3, OwnerSettled
    <3>4. CASE lock.run # r
        BY <3>1, <3>2, <3>4, <1>h, OwnerUntouched
    <3> QED
        BY <3>3, <3>4
  <2>9. CASE AppendInFlight(r)
    <3>1. CASE CanAppend(lock, r)
      <4>1. lock.run = r /\ lock.state \notin Working
          BY <2>9, <3>1 DEF AppendInFlight, CanAppend, At, OwnerInv, Between
      <4>2. lock'.state = lock.state
          BY <2>9, <3>1 DEF AppendInFlight, AppendedRow, TypeInv, TypeOK, Row
      <4> QED
          BY <4>1, <4>2, OwnerSettled
    <3>2. CASE ~CanAppend(lock, r)
      <4>1. UNCHANGED <<lock, cur, job>>
          BY <2>9, <3>2 DEF AppendInFlight
      <4>2. \A x \in Run : pc'[x] \in {"released", "append"} => pc[x] \in {"released", "append"}
          BY <2>9, <3>2 DEF AppendInFlight, Goto, TypeInv, TypeOK
      <4> QED
          BY <4>1, <4>2, <1>h, OwnerUntouched
    <3> QED
        BY <3>1, <3>2
  <2>10. CASE Reenter(r)
    <3>1. CASE CanReenter(lock, r, cur[r])
      <4>1. /\ lock'.run = r /\ lock'.state = "apply" /\ lock'.mig = cur[r]
            /\ UNCHANGED <<job, cur>>
          BY <2>10, <3>1 DEF Reenter, CanReenter, ReenteredRow, TypeInv, TypeOK, Row
      <4>2. pc'[r] \in {"begin", "abort"}
          BY <2>10, <3>1 DEF Reenter, Replied, Goto, TypeInv, TypeOK
      <4>3. Mode(r)' = "apply"
          BY <2>10, <4>1 DEF Reenter, At, Mode, JobInv, JobAgrees
      <4> QED
          BY <4>1, <4>2, <4>3 DEF OwnerInv, OwnerAgrees, Between
    <3>2. CASE ~CanReenter(lock, r, cur[r])
      <4>1. UNCHANGED <<lock, cur, job>>
          BY <2>10, <3>2 DEF Reenter
      <4>2. \A x \in Run : pc'[x] \in {"released", "append"} => pc[x] \in {"released", "append"}
          BY <2>10, <3>2 DEF Reenter, Goto, TypeInv, TypeOK
      <4> QED
          BY <4>1, <4>2, <1>h, OwnerUntouched
    <3> QED
        BY <3>1, <3>2
  <2>11. CASE Abort(r)
    <3>1. CASE CanMarkFailed(lock, r) /\ MarkFailedBy(r, cur[r])
        BY <3>1, <1>w, FailedSettles
    <3>2. CASE UNCHANGED lock
      <4>1. UNCHANGED <<cur, job>>
          BY <2>11 DEF Abort
      <4>2. \A x \in Run : pc'[x] \in {"released", "append"} => pc[x] \in {"released", "append"}
          BY <2>11 DEF Abort, Goto, AfterAbort, TypeInv, TypeOK
      <4> QED
          BY <3>2, <4>1, <4>2, <1>h, OwnerUntouched
    <3> QED
        BY <2>11, <3>1, <3>2 DEF Abort
  <2>12. CASE Heartbeat(r)
    <3>1. /\ lock'.run = lock.run /\ lock'.state = lock.state /\ lock'.mig = lock.mig
          /\ UNCHANGED locals
        BY <2>12 DEF Heartbeat, HeartbeatRow, TypeInv, TypeOK, Row
    <3> QED
        BY <3>1, <1>h, OwnerUntouched DEF locals
  <2>13. CASE HeartbeatAbort(r)
    <3>1. UNCHANGED locals
        BY <2>13 DEF HeartbeatAbort
    <3>2. \/ UNCHANGED lock
          \/ \E m \in Mig : CanMarkFailed(lock, r) /\ MarkFailedBy(r, m)
        BY <2>13 DEF HeartbeatAbort, TypeInv, TypeOK
    <3>3. CASE UNCHANGED lock
        BY <3>1, <3>3, <1>h, OwnerUntouched DEF locals
    <3> QED
        BY <3>2, <3>3, <1>w, FailedSettles
  <2> QED
      BY <1>1, <2>1, <2>2, <2>3, <2>4, <2>5, <2>6, <2>7, <2>8, <2>9, <2>10, <2>11, <2>12, <2>13
      DEF Acts, Command, Step, Scheduler
<1>2. CASE GoStale
  <2>1. /\ lock'.run = lock.run /\ lock'.state = lock.state /\ lock'.mig = lock.mig
        /\ UNCHANGED locals
      BY <1>2 DEF GoStale, TypeInv, TypeOK, Row
  <2> QED
      BY <2>1, <1>h, OwnerUntouched DEF locals
<1>3. CASE Release
  <2>1. lock'.state = "free"
      BY <1>3 DEF Release, ClearedRow, Unheld, TypeInv, TypeOK, Row
  <2> QED
      BY <2>1, <1>w, OwnerSettled
<1>4. CASE UnlockShow \/ UnlockRead \/ UnlockPatch
    BY <1>4, <1>h, OwnerUntouched DEF UnlockShow, UnlockRead, UnlockPatch, tables, locals
<1>5. CASE UnlockWrite
  <2>1. UNCHANGED locals /\ op.run \in Run /\ op.mig \in Mig
      BY <1>5 DEF UnlockWrite, TypeInv, OpNames
  <2>2. CASE CanMarkFailed(lock, op.run) /\ MarkFailedBy(op.run, op.mig)
      BY <2>1, <2>2, <1>w, FailedSettles
  <2>3. CASE lock' = ForceClearedRow(lock)
    <3>1. lock'.state = "free"
        BY <2>3 DEF ForceClearedRow, Unheld, TypeInv, TypeOK, Row
    <3> QED
        BY <3>1, <1>w, OwnerSettled
  <2>4. CASE UNCHANGED lock
      BY <2>1, <2>4, <1>h, OwnerUntouched DEF locals
  <2> QED
      BY <1>5, <2>2, <2>3, <2>4 DEF UnlockWrite
<1> QED
    BY <1>1, <1>2, <1>3, <1>4, <1>5 DEF Act, Acts, Unlock

LEMMA OwnerInvariant ==
    ASSUME "conflict" \notin Faults PROVE Spec => []OwnerInv
<1>1. TypeInv /\ RowInv /\ JobInv /\ OwnerInv /\ [Next]_vars => OwnerInv'
  <2>1. UNCHANGED vars /\ OwnerInv => OwnerInv'
      BY DEF vars, OwnerInv, OwnerAgrees, Between, Mode
  <2> QED
      BY <2>1, OwnerStep DEF Next
<1> QED
    BY InitOwnerInv, TypeInvariant, RowInvariant, JobInvariant, <1>1, PTL DEF Spec

\* What `unlock` and `status` read from the lock row, the migration and the
\* mode, is what its owner works on, as long as the transactions of acquire
\* and transitionToReleaseMode are cancelled by their conditions only.
THEOREM OwnerNamesItsWork ==
    ASSUME "conflict" \notin Faults PROVE Spec => []OwnerAgrees
<1>1. OwnerInv => OwnerAgrees
    BY DEF OwnerInv
<1> QED
    BY OwnerInvariant, <1>1, PTL

(***************************************************************************)
(* Success.  A run that comes to `released` has settled its own row, and    *)
(* afterwards only markFailed can write it again.                           *)
(***************************************************************************)
Recorded(r) ==
    pc[r] \in {"released", "ok"} /\ job[r] # "finalize"
        => runRow[r] \in {"completed", "failed"}

SuccessInv == \A r \in Run : Recorded(r)

LEMMA InitSuccessInv == Init => SuccessInv
<1> QED
    BY DEF Init, SuccessInv, Recorded

LEMMA SuccessStep ==
    ASSUME "conflict" \notin Faults, TypeInv, JobInv, SuccessInv, Act
    PROVE  SuccessInv'
<1> USE DEF SuccessInv, Recorded
<1>1. ASSUME NEW r \in Run, Acts(r) PROVE SuccessInv'
  <2>1. \A x \in Run \ {r} : runRow'[x] = runRow[x]
      BY <1>1 DEF Acts, Command, StartApply, StartFinalize, StartRollback, Step, ReadLock,
          Acquire, AcquireRefused, AcquireCancelled, Verify, VerifyRefused,
          BeginApply, BeginOther, Commit, CommitRefused, CommitCancelled, MarkFinalized,
          ClearFinalize, Finish, AppendInFlight, Reenter, Fail, Abort, PatchFailed,
          StopFailed, Crash, Scheduler, Heartbeat, HeartbeatFails, HeartbeatAbort,
          MarkFailedBy, tables, TypeInv, TypeOK
  <2>2. \A x \in Run \ {r} : Recorded(x)'
      BY <1>1, <2>1, OthersStand
  <2>3. Recorded(r)'
    <3> USE DEF TypeInv, TypeOK, Goto, Replied, At
    <3>1. CASE Command(r) \/ ReadLock(r)
        BY <3>1 DEF Command, StartApply, StartFinalize, StartRollback, ReadLock
    <3>2. CASE \/ Acquire(r) \/ AcquireRefused(r) \/ AcquireCancelled(r)
               \/ Verify(r) \/ VerifyRefused(r) \/ BeginApply(r) \/ BeginOther(r)
        BY <3>2 DEF Acquire, AcquireRefused, AcquireCancelled, Verify, VerifyRefused,
            BeginApply, BeginOther
    <3>3. CASE Commit(r) \/ CommitRefused(r) \/ CommitCancelled(r)
        BY <3>3 DEF Commit, CommitRefused, CommitCancelled, May
    <3>4. CASE MarkFinalized(r)
        BY <3>4 DEF MarkFinalized
    <3>5. CASE ClearFinalize(r)
        BY <3>5 DEF ClearFinalize, JobInv, JobAgrees
    <3>6. CASE Finish(r)
        BY <3>6 DEF Finish, tables
    <3>7. CASE AppendInFlight(r) \/ Reenter(r) \/ Fail(r)
        BY <3>7 DEF AppendInFlight, Reenter, Fail
    <3>8. CASE Abort(r) \/ PatchFailed(r) \/ StopFailed(r) \/ Crash(r)
        BY <3>8 DEF Abort, AfterAbort, PatchFailed, StopFailed, Crash
    <3>9. CASE Scheduler(r)
      <4>1. UNCHANGED locals /\ (runRow'[r] = runRow[r] \/ runRow'[r] = "failed")
          BY <3>9 DEF Scheduler, Heartbeat, HeartbeatFails, HeartbeatAbort, MarkFailedBy,
              tables
      <4> QED
          BY <4>1 DEF locals
    <3> QED
        BY <1>1, <3>1, <3>2, <3>3, <3>4, <3>5, <3>6, <3>7, <3>8, <3>9 DEF Acts, Step
  <2> QED
      BY <2>2, <2>3
<1>2. CASE GoStale \/ Release \/ Unlock
  <2>1. UNCHANGED locals
      BY <1>2, SharedStand
  <2>2. \A x \in Run : runRow'[x] = runRow[x] \/ runRow'[x] = "failed"
      BY <1>2 DEF GoStale, Release, Unlock, UnlockShow, UnlockRead, UnlockWrite, UnlockPatch,
          MarkFailedBy, tables, TypeInv, TypeOK, OpNames
  <2> QED
      BY <2>1, <2>2 DEF locals
<1> QED
    BY <1>1, <1>2 DEF Act, Acts

\* An apply or a rollback that returns success does not leave its
\* `_migration_runs` row at `running`: transitionToReleaseMode cannot be cancelled silently
\* unless DynamoDB cancels a transaction whose conditions hold.
THEOREM SuccessLeavesARecord ==
    ASSUME "conflict" \notin Faults PROVE Spec => []SuccessIsRecorded
<1>1. TypeInv /\ JobInv /\ SuccessInv /\ [Next]_vars => SuccessInv'
  <2>1. UNCHANGED vars /\ SuccessInv => SuccessInv'
      BY DEF vars, SuccessInv, Recorded
  <2> QED
      BY <2>1, SuccessStep DEF Next
<1>2. SuccessInv => SuccessIsRecorded
    BY DEF SuccessInv, Recorded, SuccessIsRecorded
<1> QED
    BY InitSuccessInv, TypeInvariant, JobInvariant, <1>1, <1>2, PTL DEF Spec

(***************************************************************************)
(* Writers.  While heartbeats get through and nobody unlocks a live run, a  *)
(* run that works holds a fresh lock in its own mode: only its scheduler    *)
(* keeps the lock from going stale, only a run that lost the lock aborts,   *)
(* and the operator acts on the dead alone.                                 *)
(***************************************************************************)
HeartbeatsGetThrough == Faults \cap {"pause", "hbLoss", "slow"} = {}

Holds(r) == lock.run = r /\ lock.state = Mode(r) /\ lock.fresh

AtWork == {"wait", "begin", "scan", "clear"}

HoldsAtWork(r) == pc[r] \in AtWork \/ (pc[r] = "verify" /\ lock.run = r) => Holds(r)

OwnerBeats(r) ==
    lock.run = r =>
        /\ aborting[r] = {}
        /\ pc[r] \in AtWork \cup {"append", "reenter"} => hb[r].on

NotYetBeating(r) ==
    pc[r] \in {"idle", "readLock", "acquire", "verify"} => aborting[r] = {} /\ ~hb[r].on

Owns(r) == HoldsAtWork(r) /\ OwnerBeats(r) /\ NotYetBeating(r)

UnlocksTheDead == op.pc # "idle" => pc[op.run] \in Ended

WriterInv == (\A r \in Run : Owns(r)) /\ UnlocksTheDead

LEMMA InitWriterInv == Init => WriterInv
<1> QED
    BY NoRunAssumption
    DEF Init, WriterInv, Owns, HoldsAtWork, OwnerBeats, NotYetBeating, UnlocksTheDead,
        AtWork, FreeRow, Quiet, NoOp

\* A run that stands keeps what it owns when the row only gets fresher, and
\* has nothing to lose when it does not hold the lock.
LEMMA OwnsStands ==
    ASSUME NEW x \in Run, Owns(x),
           pc'[x] = pc[x], job'[x] = job[x], hb'[x] = hb[x], aborting'[x] = aborting[x],
           \/ /\ lock'.run = lock.run /\ lock'.state = lock.state
              /\ lock.fresh => lock'.fresh
           \/ lock'.run # x /\ ~Holds(x)
    PROVE  Owns(x)'
<1>1. Mode(x)' = Mode(x)
    BY DEF Mode
<1>2. CASE /\ lock'.run = lock.run /\ lock'.state = lock.state
           /\ lock.fresh => lock'.fresh
    BY <1>1, <1>2 DEF Owns, HoldsAtWork, OwnerBeats, NotYetBeating, Holds
<1>3. CASE lock'.run # x /\ ~Holds(x)
    BY <1>3 DEF Owns, HoldsAtWork, OwnerBeats, NotYetBeating
<1> QED
    BY <1>2, <1>3

\* The other runs, when run r has the row for itself before and after.
LEMMA OthersOwn ==
    ASSUME TypeInv, WriterInv, NEW r \in Run, Acts(r),
           \/ /\ lock'.run = lock.run /\ lock'.state = lock.state
              /\ lock.fresh => lock'.fresh
           \/ /\ lock'.run \in {r, NoRun}
              /\ \A x \in Run \ {r} : ~Holds(x)
    PROVE  \A x \in Run \ {r} : Owns(x)'
<1> TAKE x \in Run \ {r}
<1>1. /\ pc'[x] = pc[x] /\ job'[x] = job[x]
      /\ hb'[x] = hb[x] /\ aborting'[x] = aborting[x]
    BY OthersStand
<1> QED
    BY <1>1, OwnsStands, NoRunAssumption DEF WriterInv

\* A lock that may be acquired is held by no run at work.
LEMMA AcquirableIsUnheld ==
    ASSUME NEW r, CanAcquire(lock, Mode(r)), NEW x \in Run PROVE ~Holds(x)
<1> QED
    BY DEF CanAcquire, Takeable, Holds, Mode

LEMMA WriterStep ==
    ASSUME HeartbeatsGetThrough, "unlockLive" \notin Faults,
           TypeInv, RowInv, JobInv, WriterInv, Act
    PROVE  WriterInv'
<1>m. ~May("pause") /\ ~May("hbLoss") /\ ~May("slow") /\ ~May("unlockLive")
    BY DEF HeartbeatsGetThrough, May
<1>1. ASSUME NEW r \in Run, Acts(r) PROVE WriterInv'
  <2>op. UnlocksTheDead'
    <3>1. UNCHANGED op
        BY <1>1 DEF Acts, Command, StartApply, StartFinalize, StartRollback, Step, ReadLock,
            Acquire, AcquireRefused, AcquireCancelled, Verify, VerifyRefused,
            BeginApply, BeginOther, Commit, CommitRefused, CommitCancelled, MarkFinalized,
            ClearFinalize, Finish, AppendInFlight, Reenter, Fail, Abort, PatchFailed,
            StopFailed, Crash, Scheduler, Heartbeat, HeartbeatFails, HeartbeatAbort
    <3> QED
        BY <1>1, <3>1, OthersStand, EndedStands
        DEF WriterInv, UnlocksTheDead, TypeInv, OpNames
  <2>o. Owns(r)
      BY DEF WriterInv
  <2> SUFFICES Owns(r)' /\ \A x \in Run \ {r} : Owns(x)'
      BY <2>op DEF WriterInv
  <2> USE DEF TypeInv, TypeOK, At, Goto, Replied, AtWork
  <2>1. CASE Command(r) \/ ReadLock(r) \/ AcquireRefused(r) \/ AcquireCancelled(r)
    <3>1. /\ UNCHANGED <<lock, hb, aborting>> /\ lock.run # r
          /\ aborting[r] = {} /\ ~hb[r].on
          /\ pc'[r] \in {"readLock", "acquire", "verify", "err"}
        BY <2>o, <2>1 DEF Command, StartApply, StartFinalize, StartRollback, ReadLock,
            AcquireRefused, AcquireCancelled, tables, beats, RowInv, Fresh, Owns, NotYetBeating
    <3>2. Owns(r)'
        BY <3>1 DEF Owns, HoldsAtWork, OwnerBeats, NotYetBeating
    <3> QED
        BY <1>1, <3>1, <3>2, OthersOwn
  <2>2. CASE Acquire(r)
    <3>1. /\ lock'.run = r /\ lock'.state = Mode(r) /\ lock'.fresh
          /\ UNCHANGED <<job, hb, aborting>> /\ pc'[r] \in {"verify", "err"}
        BY <2>2 DEF Acquire, AcquiredRow, Row, beats
    <3>2. Mode(r)' = Mode(r)
        BY <3>1 DEF Mode
    <3>3. aborting[r] = {} /\ ~hb[r].on
        BY <2>o, <2>2 DEF Acquire, Owns, NotYetBeating
    <3>4. Owns(r)'
        BY <3>1, <3>2, <3>3 DEF Owns, HoldsAtWork, OwnerBeats, NotYetBeating, Holds
    <3>5. \A x \in Run : ~Holds(x)
        BY <2>2, AcquirableIsUnheld DEF Acquire
    <3> QED
        BY <1>1, <3>1, <3>4, <3>5, OthersOwn
  <2>3. CASE Verify(r)
    <3>1. /\ UNCHANGED <<lock, job, aborting>> /\ pc'[r] = "wait" /\ hb'[r].on
          /\ lock.run = r
        BY <2>3 DEF Verify, tables
    <3>2. Mode(r)' = Mode(r)
        BY <3>1 DEF Mode
    <3>3. Owns(r)'
        BY <2>o, <2>3, <3>1, <3>2
        DEF Verify, Owns, HoldsAtWork, OwnerBeats, NotYetBeating, Holds
    <3> QED
        BY <1>1, <3>1, <3>3, OthersOwn
  <2>4. CASE \/ VerifyRefused(r) \/ BeginApply(r) \/ BeginOther(r) \/ MarkFinalized(r)
             \/ CommitRefused(r) \/ CommitCancelled(r) \/ Fail(r) \/ PatchFailed(r)
    <3>1. /\ UNCHANGED <<lock, job, hb, aborting>>
          /\ pc'[r] \in AtWork => pc[r] \in AtWork
          /\ pc'[r] \notin {"idle", "readLock", "acquire", "verify", "append", "reenter"}
        BY <2>4 DEF VerifyRefused, BeginApply, BeginOther, MarkFinalized, CommitRefused,
            CommitCancelled, Fail, PatchFailed, tables, beats
    <3>2. Mode(r)' = Mode(r)
        BY <3>1 DEF Mode
    <3>3. Owns(r)'
        BY <2>o, <3>1, <3>2 DEF Owns, HoldsAtWork, OwnerBeats, NotYetBeating, Holds
    <3> QED
        BY <1>1, <3>1, <3>3, OthersOwn
  <2>5. CASE Commit(r)
    <3>1. /\ lock.run = r /\ lock'.run = r /\ UNCHANGED aborting
          /\ pc'[r] \in {"released", "abort"}
        BY <2>5 DEF Commit, CanCommit, CanTransition, ReleasedRow, Row, beats
    <3>2. Owns(r)'
        BY <2>o, <3>1 DEF Owns, HoldsAtWork, OwnerBeats, NotYetBeating
    <3> QED
        BY <1>1, <3>1, <3>2, OthersOwn DEF Holds
  <2>6. CASE ClearFinalize(r)
    <3>1. UNCHANGED aborting /\ pc'[r] \in {"released", "abort"}
        BY <2>6 DEF ClearFinalize, beats
    <3>2. CASE CanClearFinalize(lock, r)
      <4>1. lock.run = r /\ lock'.run = NoRun
          BY <2>6, <3>2
          DEF ClearFinalize, CanClearFinalize, FinalizeClearedRow, Unheld, Row
      <4>2. Owns(r)'
          BY <3>1, <4>1, NoRunAssumption DEF Owns, HoldsAtWork, OwnerBeats, NotYetBeating
      <4> QED
          BY <1>1, <4>1, <4>2, OthersOwn DEF Holds
    <3>3. CASE ~CanClearFinalize(lock, r)
      <4>1. UNCHANGED lock
          BY <2>6, <3>3 DEF ClearFinalize
      <4>2. Owns(r)'
          BY <2>o, <3>1, <4>1 DEF Owns, HoldsAtWork, OwnerBeats, NotYetBeating
      <4> QED
          BY <1>1, <4>1, <4>2, OthersOwn
    <3> QED
        BY <3>2, <3>3
  <2>7. CASE Finish(r)
    <3>1. /\ UNCHANGED <<lock, aborting>> /\ pc'[r] \in {"ok", "append"}
          /\ pc'[r] = "append" => hb'[r].on
        BY <2>7 DEF Finish, tables
    <3>2. Owns(r)'
        BY <2>o, <3>1 DEF Owns, HoldsAtWork, OwnerBeats, NotYetBeating, Ended
    <3> QED
        BY <1>1, <3>1, <3>2, OthersOwn
  <2>8. CASE AppendInFlight(r)
    <3>1. /\ lock'.run = lock.run /\ lock'.state = lock.state /\ lock'.fresh = lock.fresh
          /\ UNCHANGED <<hb, aborting>> /\ pc'[r] \in {"reenter", "abort"}
          /\ pc[r] = "append"
        BY <2>8 DEF AppendInFlight, AppendedRow, Row, beats
    <3>2. Owns(r)'
        BY <2>o, <3>1 DEF Owns, HoldsAtWork, OwnerBeats, NotYetBeating
    <3> QED
        BY <1>1, <3>1, <3>2, OthersOwn
  <2>9. CASE Reenter(r)
    <3>1. /\ UNCHANGED <<job, hb, aborting>> /\ pc[r] = "reenter"
          /\ pc'[r] \in {"begin", "abort"}
        BY <2>9 DEF Reenter, beats
    <3>2. CASE CanReenter(lock, r, cur[r])
      <4>1. /\ lock.run = r /\ lock'.run = r /\ lock'.state = "apply" /\ lock'.fresh
          BY <2>9, <3>2 DEF Reenter, CanReenter, ReenteredRow, Row
      <4>2. Mode(r)' = "apply"
          BY <3>1 DEF Mode, JobInv, JobAgrees
      <4>3. Owns(r)'
          BY <2>o, <3>1, <4>1, <4>2 DEF Owns, HoldsAtWork, OwnerBeats, NotYetBeating, Holds
      <4> QED
          BY <1>1, <4>1, <4>3, OthersOwn DEF Holds
    <3>3. CASE ~CanReenter(lock, r, cur[r])
      <4>1. UNCHANGED lock /\ pc'[r] = "abort"
          BY <2>9, <3>3 DEF Reenter
      <4>2. Owns(r)'
          BY <2>o, <3>1, <4>1 DEF Owns, HoldsAtWork, OwnerBeats, NotYetBeating
      <4> QED
          BY <1>1, <4>1, <4>2, OthersOwn
    <3> QED
        BY <3>2, <3>3
  <2>10. CASE Abort(r)
    <3>1. UNCHANGED aborting /\ pc'[r] \in {"patch", "stop"}
        BY <2>10 DEF Abort, AfterAbort, beats
    <3>2. CASE CanMarkFailed(lock, r) /\ MarkFailedBy(r, cur[r])
      <4>1. lock.run = r /\ lock'.run = r
          BY <3>2 DEF CanMarkFailed, MarkFailedBy, FailedRow, Row
      <4>2. Owns(r)'
          BY <2>o, <3>1, <4>1 DEF Owns, HoldsAtWork, OwnerBeats, NotYetBeating
      <4> QED
          BY <1>1, <4>1, <4>2, OthersOwn DEF Holds
    <3>3. CASE UNCHANGED lock
      <4>1. Owns(r)'
          BY <2>o, <3>1, <3>3 DEF Owns, HoldsAtWork, OwnerBeats, NotYetBeating
      <4> QED
          BY <1>1, <3>3, <4>1, OthersOwn
    <3> QED
        BY <2>10, <3>2, <3>3 DEF Abort
  <2>11. CASE StopFailed(r) \/ Crash(r)
    <3>1. /\ UNCHANGED lock /\ pc'[r] \in {"err", "dead"}
          /\ aborting'[r] \in {aborting[r], {}}
        BY <2>11 DEF StopFailed, Crash, tables
    <3>2. Owns(r)'
        BY <2>o, <3>1 DEF Owns, HoldsAtWork, OwnerBeats, NotYetBeating
    <3> QED
        BY <1>1, <3>1, <3>2, OthersOwn
  <2>12. CASE Heartbeat(r)
    <3>1. /\ lock'.run = lock.run /\ lock'.state = lock.state /\ lock'.fresh
          /\ hb[r].on /\ hb'[r].on /\ UNCHANGED <<pc, job, aborting>>
        BY <2>12 DEF Heartbeat, HeartbeatRow, Row, locals, Beats
    <3>2. Mode(r)' = Mode(r)
        BY <3>1 DEF Mode
    <3>3. Owns(r)'
        BY <2>o, <3>1, <3>2 DEF Owns, HoldsAtWork, OwnerBeats, NotYetBeating, Holds
    <3> QED
        BY <1>1, <3>1, <3>3, OthersOwn
  <2>13. CASE HeartbeatFails(r)
    <3>1. hb[r].on /\ lock.run # r /\ UNCHANGED <<lock, pc>>
        BY <2>13, <1>m DEF HeartbeatFails, tables, locals
    <3>2. Owns(r)'
        BY <2>o, <3>1 DEF Owns, HoldsAtWork, OwnerBeats, NotYetBeating, Holds
    <3> QED
        BY <1>1, <3>1, <3>2, OthersOwn
  <2>14. CASE HeartbeatAbort(r)
    <3>1. aborting[r] # {} /\ lock.run # r
        BY <2>o, <2>14 DEF HeartbeatAbort, Owns, OwnerBeats
    <3>2. UNCHANGED <<lock, pc>>
        BY <2>14, <3>1 DEF HeartbeatAbort, CanMarkFailed, locals
    <3>3. Owns(r)'
        BY <2>o, <3>1, <3>2 DEF Owns, HoldsAtWork, OwnerBeats, NotYetBeating, Holds
    <3> QED
        BY <1>1, <3>2, <3>3, OthersOwn
  <2> QED
      BY <1>1, <2>1, <2>2, <2>3, <2>4, <2>5, <2>6, <2>7, <2>8, <2>9, <2>10, <2>11, <2>12,
         <2>13, <2>14
      DEF Acts, Step, Scheduler
<1>2. ASSUME GoStale \/ Release \/ Unlock,
             \/ /\ lock'.run = lock.run /\ lock'.state = lock.state
                /\ lock.fresh => lock'.fresh
             \/ \A x \in Run : lock'.run # x /\ ~Holds(x)
      PROVE  \A x \in Run : Owns(x)'
  <2> TAKE x \in Run
  <2> QED
      BY <1>2, SharedStand, OwnsStands DEF WriterInv, locals, beats
<1>3. CASE GoStale
  <2>1. UNCHANGED <<locals, beats, op>> /\ lock' = [lock EXCEPT !.fresh = FALSE]
      BY <1>3 DEF GoStale
  <2>2. \A x \in Run : lock.run = x => ~hb[x].on /\ pc[x] # "verify"
      BY <1>3, <1>m DEF GoStale, At
  <2>3. \A x \in Run : Owns(x)'
    <3> TAKE x \in Run
    <3>1. Owns(x) /\ (lock.run = x => pc[x] \notin AtWork)
        BY <2>2 DEF WriterInv, Owns, OwnerBeats
    <3>2. lock'.run = lock.run
        BY <2>1 DEF TypeInv, TypeOK, Row
    <3> QED
        BY <2>1, <2>2, <3>1, <3>2
        DEF Owns, HoldsAtWork, OwnerBeats, NotYetBeating, Holds, locals, beats
  <2>4. UnlocksTheDead'
      BY <2>1 DEF WriterInv, UnlocksTheDead, locals
  <2> QED
      BY <2>3, <2>4 DEF WriterInv
<1>4. CASE Release
  <2>1. /\ UNCHANGED <<locals, op>> /\ lock.state = "release" /\ lock'.run = NoRun
      BY <1>4 DEF Release, ClearedRow, Unheld, TypeInv, TypeOK, Row
  <2>2. \A x \in Run : lock'.run # x /\ ~Holds(x)
      BY <2>1, NoRunAssumption DEF Holds, Mode
  <2>3. \A x \in Run : Owns(x)'
      BY <1>2, <1>4, <2>2
  <2>4. UnlocksTheDead'
      BY <2>1 DEF WriterInv, UnlocksTheDead, locals
  <2> QED
      BY <2>3, <2>4 DEF WriterInv
<1>5. CASE UnlockShow
  <2>1. UNCHANGED <<tables, locals>> /\ op'.run = lock.run /\ lock.run \in Run
      BY <1>5 DEF UnlockShow, NoOp, TypeInv, Held, HeldRow
  <2>2. pc[lock.run] \in Ended
      BY <1>5, <1>m, <2>1 DEF UnlockShow, Alive, RowInv, Fresh
  <2>3. \A x \in Run : Owns(x)'
      BY <1>2, <1>5, <2>1 DEF tables, Unlock
  <2> QED
      BY <2>1, <2>2, <2>3 DEF WriterInv, UnlocksTheDead, locals
<1>6. CASE UnlockRead \/ UnlockPatch
  <2>1. UNCHANGED <<lock, locals>> /\ (op'.pc # "idle" => op.pc # "idle" /\ op'.run = op.run)
    <3>1. CASE UnlockRead
        BY <3>1 DEF UnlockRead, tables, NoOp, TypeInv, TypeOK, Unlocking
    <3>2. CASE UnlockPatch
        BY <3>2 DEF UnlockPatch, NoOp
    <3> QED
        BY <1>6, <3>1, <3>2
  <2>2. \A x \in Run : Owns(x)'
      BY <1>2, <1>6, <2>1 DEF Unlock
  <2> QED
      BY <2>1, <2>2 DEF WriterInv, UnlocksTheDead, locals
<1>7. CASE UnlockWrite
  <2>1. /\ UNCHANGED locals /\ op.run \in Run /\ pc[op.run] \in Ended
        /\ op'.pc # "idle" => op'.run = op.run
      BY <1>7 DEF UnlockWrite, NoOp, TypeInv, TypeOK, Unlocking, OpNames, WriterInv,
          UnlocksTheDead
  <2>2. UnlocksTheDead'
      BY <2>1 DEF UnlocksTheDead, locals
  <2>3. CASE UNCHANGED lock
    <3>1. \A x \in Run : Owns(x)'
        BY <1>2, <1>7, <2>3 DEF Unlock
    <3> QED
        BY <2>2, <3>1 DEF WriterInv
  <2>4. CASE lock.run = op.run /\ lock'.run \in {op.run, NoRun}
    <3>1. UNCHANGED beats
        BY <1>7 DEF UnlockWrite
    <3>2. \A x \in Run : Owns(x)'
      <4> TAKE x \in Run
      <4>1. CASE x # op.run
          BY <2>1, <2>4, <3>1, <4>1, OwnsStands, NoRunAssumption
          DEF WriterInv, Holds, locals, beats
      <4>2. CASE x = op.run
          BY <2>1, <2>4, <3>1, <4>2
          DEF WriterInv, Owns, HoldsAtWork, OwnerBeats, NotYetBeating, AtWork, Ended,
              locals, beats
      <4> QED
          BY <4>1, <4>2
    <3> QED
        BY <2>2, <3>2 DEF WriterInv
  <2>5. UNCHANGED lock \/ (lock.run = op.run /\ lock'.run \in {op.run, NoRun})
      BY <1>7 DEF UnlockWrite, CanMarkFailed, MarkFailedBy, FailedRow, CanForceClear,
          ForceClearedRow, Unheld, TypeInv, TypeOK, Row
  <2> QED
      BY <2>3, <2>4, <2>5
<1> QED
    BY <1>1, <1>3, <1>4, <1>5, <1>6, <1>7 DEF Act, Acts, Unlock

LEMMA WriterInvariant ==
    ASSUME HeartbeatsGetThrough, "unlockLive" \notin Faults PROVE Spec => []WriterInv
<1>1. TypeInv /\ RowInv /\ JobInv /\ WriterInv /\ [Next]_vars => WriterInv'
  <2>1. UNCHANGED vars /\ WriterInv => WriterInv'
      BY DEF vars, WriterInv, Owns, HoldsAtWork, OwnerBeats, NotYetBeating, UnlocksTheDead,
          Holds, Mode
  <2> QED
      BY <2>1, WriterStep DEF Next
<1> QED
    BY InitWriterInv, TypeInvariant, RowInvariant, JobInvariant, <1>1, PTL DEF Spec

\* Two runners never write records at the same time, however many commands
\* are started, crash, fail or lose replies.
THEOREM OneWriter ==
    ASSUME HeartbeatsGetThrough, "unlockLive" \notin Faults PROVE Spec => []SingleWriter
<1>1. WriterInv => SingleWriter
    BY DEF WriterInv, Owns, HoldsAtWork, Holds, AtWork, SingleWriter, Writers
<1> QED
    BY WriterInvariant, <1>1, PTL

\* While apply or rollback writes records, the lock is in a state that gates
\* application traffic.
THEOREM WritersAreGated ==
    ASSUME HeartbeatsGetThrough, "unlockLive" \notin Faults PROVE Spec => []WritersGated
<1>1. WriterInv => WritersGated
    BY DEF WriterInv, Owns, HoldsAtWork, Holds, AtWork, WritersGated, Writers, Mode, Gating
<1> QED
    BY WriterInvariant, <1>1, PTL

(***************************************************************************)
(* What `release` opens.  With crashes only, and no operator who patches    *)
(* rows, a run that holds the lock is never refused and never fails: a row  *)
(* of `_migrations` is written by the owner of the lock alone, so none      *)
(* changes while the lock is in release mode.                               *)
(***************************************************************************)
OnlyCrashes == Faults \subseteq {"crash", "finalizeAny"} /\ ~Operator

Orderly(r) ==
    /\ pc[r] # "patch" /\ (pc[r] = "abort" => job[r] # "first")
    /\ pc[r] # "idle" /\ Mode(r) = "rollback" => status[cur[r]] # "none"
    /\ pc[r] = "scan" /\ Mode(r) = "apply" => status[cur[r]] # "none"

SettledInv == op.pc = "idle" /\ (\A r \in Run : Orderly(r)) /\ ReleaseMeansSettled

LEMMA InitSettledInv == Init => SettledInv
<1> QED
    BY DEF Init, NoOp, SettledInv, Orderly, ReleaseMeansSettled, FreeRow

\* The row of a migration, once put, is never deleted.
LEMMA RowsRemain ==
    ASSUME TypeInv, Act, NEW m \in Mig, status[m] # "none"
    PROVE  status'[m] # "none"
<1>1. ASSUME NEW r \in Run, Acts(r) PROVE status'[m] # "none"
    BY <1>1 DEF Acts, Command, StartApply, StartFinalize, StartRollback, Step, ReadLock,
        Acquire, AcquireRefused, AcquireCancelled, Verify, VerifyRefused,
        BeginApply, BeginOther, Commit, CommitRefused, CommitCancelled, MarkFinalized,
        ClearFinalize, Finish, AppendInFlight, Reenter, Fail, Abort, PatchFailed,
        StopFailed, Crash, Scheduler, Heartbeat, HeartbeatFails, HeartbeatAbort,
        Outcome, tables, TypeInv, TypeOK
<1>2. ASSUME GoStale \/ Release \/ Unlock PROVE status'[m] # "none"
    BY <1>2 DEF GoStale, Release, Unlock, UnlockShow, UnlockRead, UnlockWrite, UnlockPatch,
        tables, TypeInv, TypeOK
<1> QED
    BY <1>1, <1>2 DEF Act, Acts

\* A step that leaves the lock in release mode as it was and writes no row of
\* `_migrations`, or leaves it in another mode, opens nothing.
LEMMA SettledStands ==
    ASSUME ReleaseMeansSettled,
           \/ /\ lock'.state = lock.state /\ lock'.mig = lock.mig
              /\ lock'.inFlight = lock.inFlight /\ UNCHANGED status
           \/ lock'.state # "release"
    PROVE  ReleaseMeansSettled'
<1> QED
    BY DEF ReleaseMeansSettled

LEMMA SettledStep ==
    ASSUME OnlyCrashes, TypeInv, RowInv, JobInv, OwnerInv, WriterInv, SettledInv, Act
    PROVE  SettledInv'
<1>m. /\ ~May("error") /\ ~May("lostReply") /\ ~May("conflict") /\ ~Operator
    BY DEF OnlyCrashes, May
<1>1. ASSUME NEW r \in Run, Acts(r) PROVE SettledInv'
  <2>op. op'.pc = "idle"
      BY <1>1 DEF SettledInv, Acts, Command, StartApply, StartFinalize, StartRollback, Step,
          ReadLock, Acquire, AcquireRefused, AcquireCancelled, Verify, VerifyRefused,
          BeginApply, BeginOther, Commit, CommitRefused, CommitCancelled, MarkFinalized,
          ClearFinalize, Finish, AppendInFlight, Reenter, Fail, Abort, PatchFailed,
          StopFailed, Crash, Scheduler, Heartbeat, HeartbeatFails, HeartbeatAbort
  <2>x. \A x \in Run \ {r} : Orderly(x)'
    <3> TAKE x \in Run \ {r}
    <3>1. pc'[x] = pc[x] /\ job'[x] = job[x] /\ cur'[x] = cur[x]
        BY <1>1, OthersStand
    <3>2. Mode(x)' = Mode(x)
        BY <3>1 DEF Mode
    <3>3. Orderly(x) /\ (pc[x] # "idle" => cur[x] \in Mig)
        BY DEF SettledInv, TypeInv, Started
    <3> QED
        BY <3>1, <3>2, <3>3, RowsRemain DEF Orderly
  <2>o. Orderly(r) /\ (pc[r] # "idle" => cur[r] \in Mig)
      BY DEF SettledInv, TypeInv, Started
  <2>s. ReleaseMeansSettled
      BY DEF SettledInv
  <2>w. pc[r] \in AtWork => lock.run = r /\ lock.state = Mode(r)
      BY DEF WriterInv, Owns, HoldsAtWork, Holds
  <2> SUFFICES Orderly(r)' /\ ReleaseMeansSettled'
      BY <2>op, <2>x DEF SettledInv
  <2>k. ASSUME UNCHANGED <<job, cur>>, pc[r] # "idle", pc'[r] \notin {"patch", "abort"},
               pc'[r] = "scan" /\ Mode(r) = "apply" => status'[cur[r]] # "none"
        PROVE  Orderly(r)'
    <3>1. Mode(r)' = Mode(r)
        BY <2>k DEF Mode
    <3> QED
        BY <2>k, <2>o, <3>1, RowsRemain DEF Orderly
  <2> USE DEF TypeInv, TypeOK, At, Goto, Replied
  <2>1. CASE StartApply(r)
    <3>1. UNCHANGED <<lock, status>> /\ pc'[r] = "acquire" /\ job'[r] = "first"
        BY <2>1 DEF StartApply, tables
    <3>2. Orderly(r)'
        BY <3>1 DEF Orderly, Mode
    <3> QED
        BY <2>s, <3>1, <3>2, SettledStands
  <2>2. CASE StartFinalize(r)
    <3>1. UNCHANGED <<lock, status>> /\ pc'[r] = "acquire" /\ job'[r] = "finalize"
        BY <2>2 DEF StartFinalize, tables
    <3>2. Orderly(r)'
        BY <3>1 DEF Orderly, Mode
    <3> QED
        BY <2>s, <3>1, <3>2, SettledStands
  <2>3. CASE StartRollback(r)
    <3>1. /\ UNCHANGED <<lock, status>> /\ pc'[r] \in {"acquire", "readLock"}
          /\ status[cur'[r]] # "none"
        BY <2>3 DEF StartRollback, tables
    <3>2. Orderly(r)'
        BY <3>1 DEF Orderly
    <3> QED
        BY <2>s, <3>1, <3>2, SettledStands
  <2>4. CASE ReadLock(r)
    <3>1. /\ UNCHANGED <<lock, status, cur>> /\ pc'[r] = "acquire" /\ pc[r] = "readLock"
        BY <2>4 DEF ReadLock, tables
    <3>2. job'[r] \in {"case-1", "case-2"}
        BY <2>4 DEF ReadLock
    <3>3. status[cur[r]] # "none"
        BY <2>o, <3>1 DEF Orderly, JobInv, JobAgrees, Mode
    <3>4. Orderly(r)'
        BY <3>1, <3>3 DEF Orderly
    <3> QED
        BY <2>s, <3>1, <3>4, SettledStands
  <2>5. CASE Acquire(r)
    <3>1. /\ lock'.state \in Working /\ UNCHANGED <<job, cur>>
          /\ pc[r] = "acquire" /\ pc'[r] = "verify"
        BY <2>5, <1>m DEF Acquire, AcquiredRow, Row, Mode, Working
    <3> QED
        BY <2>s, <2>k, <3>1, SettledStands DEF Working
  <2>6. CASE AcquireRefused(r) \/ Verify(r) \/ VerifyRefused(r) \/ BeginOther(r)
    <3>1. /\ UNCHANGED <<lock, status, job, cur>> /\ pc[r] # "idle"
          /\ pc'[r] \in {"err", "wait", "scan"}
          /\ pc'[r] = "scan" => Mode(r) # "apply"
        BY <2>6 DEF AcquireRefused, Verify, VerifyRefused, BeginOther, tables
    <3> QED
        BY <2>s, <2>k, <3>1, SettledStands
  <2>7. CASE AcquireCancelled(r) \/ CommitCancelled(r) \/ Fail(r) \/ PatchFailed(r)
      BY <2>7, <1>m, <2>o
      DEF AcquireCancelled, CommitCancelled, Fail, PatchFailed, Orderly
  <2>8. CASE BeginApply(r)
    <3>1. /\ UNCHANGED <<lock, job, cur>> /\ pc[r] \in {"wait", "begin"}
          /\ pc'[r] = "scan" /\ status'[cur[r]] = "pending" /\ Mode(r) = "apply"
        BY <2>8, <1>m, <2>o DEF BeginApply
    <3>2. lock'.state # "release"
        BY <2>w, <3>1 DEF AtWork
    <3> QED
        BY <2>s, <2>k, <3>1, <3>2, SettledStands
  <2>9. CASE Commit(r)
    <3>1. /\ pc[r] = "scan" /\ pc'[r] = "released" /\ UNCHANGED <<job, cur>>
          /\ status' = [status EXCEPT ![cur[r]] = Outcome(r)]
          /\ lock'.mig = lock.mig /\ lock.run = r /\ lock.state \in {"apply", "rollback"}
        BY <2>9, <1>m DEF Commit, CanCommit, CanTransition, ReleasedRow, Row
    <3>2. lock'.mig = cur[r]
        BY <3>1 DEF OwnerInv, OwnerAgrees, Working
    <3>3. ReleaseMeansSettled'
        BY <2>o, <3>1, <3>2 DEF ReleaseMeansSettled, Outcome
    <3> QED
        BY <2>k, <3>1, <3>3
  <2>10. CASE CommitRefused(r)
    <3>1. pc[r] = "scan" /\ Mode(r) \in {"apply", "rollback"} /\ ~CanCommit(r)
        BY <2>10 DEF CommitRefused, Mode
    <3>2. status[cur[r]] # "none"
        BY <2>o, <3>1 DEF Orderly
    <3> QED
        BY <2>w, <3>1, <3>2 DEF CanCommit, CanTransition, AtWork
  <2>11. CASE MarkFinalized(r)
    <3>1. /\ UNCHANGED <<lock, job, cur>> /\ pc[r] = "scan" /\ Mode(r) = "finalize"
          /\ pc'[r] \in {"abort", "clear"}
        BY <2>11, <1>m DEF MarkFinalized
    <3>2. lock'.state # "release"
        BY <2>w, <3>1 DEF AtWork
    <3>3. Orderly(r)'
        BY <3>1 DEF Orderly, Mode
    <3> QED
        BY <2>s, <3>2, <3>3, SettledStands
  <2>12. CASE ClearFinalize(r)
    <3>1. pc[r] = "clear" /\ job[r] = "finalize"
        BY <2>12 DEF ClearFinalize, JobInv, JobAgrees
    <3>2. CanClearFinalize(lock, r)
        BY <2>w, <3>1 DEF AtWork, CanClearFinalize, Mode
    <3>3. lock'.state = "free" /\ pc'[r] = "released" /\ UNCHANGED <<job, cur>>
        BY <2>12, <1>m, <3>2 DEF ClearFinalize, FinalizeClearedRow, Unheld, Row
    <3> QED
        BY <2>s, <2>k, <3>1, <3>3, SettledStands
  <2>13. CASE Finish(r)
    <3>1. UNCHANGED <<lock, status>> /\ pc[r] = "released"
        BY <2>13 DEF Finish, tables
    <3>2. Orderly(r)'
      <4>1. CASE todo[r] = {}
          BY <2>13, <2>k, <3>1, <4>1 DEF Finish
      <4>2. CASE todo[r] # {}
        <5>1. pc'[r] = "append" /\ job'[r] = "later"
            BY <2>13, <4>2 DEF Finish
        <5> QED
            BY <5>1 DEF Orderly, Mode
      <4> QED
          BY <4>1, <4>2
    <3> QED
        BY <2>s, <3>1, <3>2, SettledStands
  <2>14. CASE AppendInFlight(r) \/ Reenter(r)
    <3>1. /\ UNCHANGED <<status, job, cur>> /\ pc[r] \in {"append", "reenter"}
          /\ pc'[r] \in {"reenter", "begin", "abort"}
        BY <2>14 DEF AppendInFlight, Reenter
    <3>2. job[r] = "later"
        BY <3>1 DEF JobInv, JobAgrees
    <3>3. Orderly(r)'
        BY <3>1, <3>2 DEF Orderly, Mode
    <3>4. \/ UNCHANGED lock
          \/ lock'.mig \in lock'.inFlight
          \/ lock'.state = "apply"
      <4>1. CASE AppendInFlight(r)
        <5>1. UNCHANGED lock \/ lock' = AppendedRow(lock, cur[r])
            BY <4>1 DEF AppendInFlight
        <5>2. AppendedRow(lock, cur[r]).mig \in AppendedRow(lock, cur[r]).inFlight
            BY DEF AppendedRow, Row
        <5> QED
            BY <5>1, <5>2
      <4>2. CASE Reenter(r)
          BY <4>2 DEF Reenter, ReenteredRow, Row
      <4> QED
          BY <2>14, <4>1, <4>2
    <3> QED
        BY <2>s, <3>1, <3>3, <3>4 DEF ReleaseMeansSettled
  <2>15. CASE Abort(r)
    <3>1. UNCHANGED <<status, job, cur>> /\ pc[r] = "abort" /\ pc'[r] = "stop"
        BY <2>15, <2>o DEF Abort, AfterAbort, Orderly
    <3>2. UNCHANGED lock \/ lock'.state = "failed"
        BY <2>15 DEF Abort, MarkFailedBy, FailedRow, Row
    <3> QED
        BY <2>s, <2>k, <3>1, <3>2, SettledStands
  <2>16. CASE StopFailed(r) \/ Crash(r)
    <3>1. /\ UNCHANGED <<lock, status, job, cur>> /\ pc[r] # "idle"
          /\ pc'[r] \in {"err", "dead"}
        BY <2>16 DEF StopFailed, Crash, tables
    <3> QED
        BY <2>s, <2>k, <3>1, SettledStands
  <2>17. CASE Scheduler(r)
    <3>1. UNCHANGED <<status, locals>>
        BY <2>17 DEF Scheduler, Heartbeat, HeartbeatFails, HeartbeatAbort, tables
    <3>2. Orderly(r)'
        BY <2>o, <3>1 DEF Orderly, Mode, locals
    <3>3. \/ lock'.state = lock.state /\ lock'.mig = lock.mig /\ lock'.inFlight = lock.inFlight
          \/ lock'.state = "failed"
      <4>1. CASE Heartbeat(r)
          BY <4>1 DEF Heartbeat, HeartbeatRow, Row
      <4>2. CASE HeartbeatFails(r)
          BY <4>2 DEF HeartbeatFails, tables
      <4>3. CASE HeartbeatAbort(r)
          BY <4>3 DEF HeartbeatAbort, MarkFailedBy, FailedRow, Row
      <4> QED
          BY <2>17, <4>1, <4>2, <4>3 DEF Scheduler
    <3> QED
        BY <2>s, <3>1, <3>2, <3>3, SettledStands
  <2> QED
      BY <1>1, <2>1, <2>2, <2>3, <2>4, <2>5, <2>6, <2>7, <2>8, <2>9, <2>10, <2>11, <2>12,
         <2>13, <2>14, <2>15, <2>16, <2>17
      DEF Acts, Command, Step
<1>2. CASE GoStale \/ Release
  <2>1. UNCHANGED <<status, locals, op>>
      BY <1>2 DEF GoStale, Release
  <2>2. \A r \in Run : Orderly(r)'
      BY <2>1 DEF SettledInv, Orderly, Mode, locals
  <2>3. \/ lock'.state = lock.state /\ lock'.mig = lock.mig /\ lock'.inFlight = lock.inFlight
        \/ lock'.state = "free"
      BY <1>2 DEF GoStale, Release, ClearedRow, Unheld, TypeInv, TypeOK, Row
  <2> QED
      BY <2>1, <2>2, <2>3, SettledStands DEF SettledInv
<1>3. ~Unlock
    BY <1>m DEF Unlock, UnlockShow, UnlockRead, UnlockWrite, UnlockPatch, SettledInv
<1> QED
    BY <1>1, <1>2, <1>3 DEF Act, Acts

\* The operator who deploys and calls `release` is not opening a half-migrated
\* table: once no later migration of a batch is in flight, the migration the
\* released lock names is applied or reverted, after any crash and takeover.
THEOREM ReleaseIsSettled ==
    ASSUME OnlyCrashes PROVE Spec => []ReleaseMeansSettled
<1>0. /\ "conflict" \notin Faults /\ "unlockLive" \notin Faults /\ HeartbeatsGetThrough
    BY DEF OnlyCrashes, HeartbeatsGetThrough
<1>1. /\ TypeInv /\ RowInv /\ JobInv /\ OwnerInv /\ WriterInv /\ SettledInv
      /\ [Next]_vars
      => SettledInv'
  <2>1. UNCHANGED vars /\ SettledInv => SettledInv'
      BY DEF vars, SettledInv, Orderly, Mode, ReleaseMeansSettled
  <2> QED
      BY <2>1, SettledStep DEF Next
<1>2. SettledInv => ReleaseMeansSettled
    BY DEF SettledInv
<1>3. Spec => []OwnerInv
    BY <1>0, OwnerInvariant
<1>4. Spec => []WriterInv
    BY <1>0, WriterInvariant
<1> QED
    BY InitSettledInv, TypeInvariant, RowInvariant, JobInvariant, <1>1, <1>2, <1>3, <1>4, PTL
    DEF Spec

=============================================================================
