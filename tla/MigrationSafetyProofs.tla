----------------------- MODULE MigrationSafetyProofs -----------------------
(***************************************************************************)
(* What MigrationSafety says of every run of every instance, proved: the    *)
(* type invariant, the agreement of the rows, the in-flight pin and the     *)
(* refinement of the lease, under any set of faults.                        *)
(***************************************************************************)
EXTENDS MigrationSafety, TLAPS, WellFoundedInduction

\* `First`, with which plans and batches pick their next migration, is a
\* least element.
LEMMA FirstIsLeast ==
    ASSUME NEW S, S \subseteq Nat, S # {}
    PROVE  First(S) \in S /\ \A n \in S : First(S) <= n
<1>1. PICK m \in S : \A n \in S : ~(<<n, m>> \in OpToRel(<, Nat))
    BY NatLessThanWellFounded, WFMin, Zenon
<1>2. \A n \in S : ~(n < m)
    BY <1>1 DEF OpToRel
<1>3. \A n \in S : m <= n
    BY <1>2
<1> QED
    BY <1>3, Zenon DEF First

(***************************************************************************)
(* The type invariant, made inductive: a held lock names a run and a        *)
(* migration, a run that has started has a migration, only started runs     *)
(* beat, and an unlock in progress names the run it was shown.              *)
(***************************************************************************)
HeldRow(row) ==
    /\ row.state = "free" => row.run = NoRun
    /\ row.state # "free" => row.run \in Run /\ row.mig \in Mig

Held == HeldRow(lock)

Started == \A r \in Run : pc[r] # "idle" => cur[r] \in Mig

Beating == \A r \in Run : hb[r].on => pc[r] # "idle"

OpNames ==
    /\ op.pc # "idle" => op.run \in Run
    /\ op.pc = "dispatch" => op.mig \in Mig

TypeInv == TypeOK /\ Held /\ Started /\ Beating /\ OpNames

LEMMA PlanNames ==
    ASSUME NEW S \in SUBSET Mig, S # {}
    PROVE  First(S) \in Mig
<1> QED
    BY FirstIsLeast, MigAssumption

LEMMA InitTypeInv == Init => TypeInv
<1> QED
    BY NoRunAssumption
    DEF Init, TypeInv, TypeOK, Held, HeldRow, Started, Beating, OpNames, Row, LockState,
        FreeRow, NoOp, Quiet, Beats, Unlocking, MigStatus, RunStatus, Job, PC, Ended

\* The verbs that keep or take the lock leave a well-typed row behind, held by
\* a run and naming a migration.
LEMMA VerbsKeepRow ==
    ASSUME NEW row \in Row, HeldRow(row), NEW r \in Run, NEW m \in Mig
    PROVE  /\ \A mode \in {"apply", "rollback", "finalize"} :
                /\ AcquiredRow(row, mode, r, m) \in Row
                /\ HeldRow(AcquiredRow(row, mode, r, m))
           /\ row.run = r => ReleasedRow(row, m) \in Row /\ HeldRow(ReleasedRow(row, m))
           /\ row.run = r => AppendedRow(row, m) \in Row /\ HeldRow(AppendedRow(row, m))
           /\ row.run = r => ReenteredRow(row) \in Row /\ HeldRow(ReenteredRow(row))
           /\ row.run = r => FailedRow(row, m) \in Row /\ HeldRow(FailedRow(row, m))
<1> USE NoRunAssumption DEF Row, LockState, HeldRow
<1>1. ASSUME NEW mode \in {"apply", "rollback", "finalize"}
      PROVE  AcquiredRow(row, mode, r, m) \in Row /\ HeldRow(AcquiredRow(row, mode, r, m))
    BY DEF AcquiredRow
<1>2. row.run = r => ReleasedRow(row, m) \in Row /\ HeldRow(ReleasedRow(row, m))
    BY DEF ReleasedRow
<1>3. row.run = r => AppendedRow(row, m) \in Row /\ HeldRow(AppendedRow(row, m))
    BY DEF AppendedRow
<1>4. row.run = r => ReenteredRow(row) \in Row /\ HeldRow(ReenteredRow(row))
    BY DEF ReenteredRow
<1>5. row.run = r => FailedRow(row, m) \in Row /\ HeldRow(FailedRow(row, m))
    BY DEF FailedRow
<1> QED
    BY <1>1, <1>2, <1>3, <1>4, <1>5, Zenon

\* So do those that free it, and the passing of time.
LEMMA FreeingKeepsRow ==
    ASSUME NEW row \in Row, HeldRow(row)
    PROVE  /\ ClearedRow(row) \in Row /\ HeldRow(ClearedRow(row))
           /\ FinalizeClearedRow(row) \in Row /\ HeldRow(FinalizeClearedRow(row))
           /\ ForceClearedRow(row) \in Row /\ HeldRow(ForceClearedRow(row))
           /\ HeartbeatRow(row) \in Row /\ HeldRow(HeartbeatRow(row))
           /\ [row EXCEPT !.fresh = FALSE] \in Row /\ HeldRow([row EXCEPT !.fresh = FALSE])
<1> QED
    BY DEF Row, LockState, HeldRow, Unheld, ClearedRow, FinalizeClearedRow,
           ForceClearedRow, HeartbeatRow

LEMMA TypeStep == TypeInv /\ Next => TypeInv'
<1> SUFFICES ASSUME TypeInv, Act, Observe PROVE TypeInv'
    BY DEF Next
<1> USE DEF TypeInv
<1>live. live' \in SUBSET Mig
    BY DEF Observe, Exposed, TypeOK
<1>1. ASSUME NEW r \in Run,
             Command(r) \/ Step(r) \/ Scheduler(r) \/ Crash(r)
      PROVE  TypeInv'
  <2>1. CASE StartApply(r)
      BY <2>1, <1>live, PlanNames
      DEF StartApply, TypeOK, Started, Beating, OpNames, Held,
          At, Goto, tables, beats, locals, PC, Ended, Job, Pending
  <2>2. CASE StartFinalize(r)
      BY <2>2, <1>live
      DEF StartFinalize, TypeOK, Started, Beating, OpNames, Held,
          At, Goto, tables, beats, locals, PC, Ended, Job
  <2>3. CASE StartRollback(r)
      BY <2>3, <1>live
      DEF StartRollback, TypeOK, Started, Beating, OpNames, Held,
          At, Goto, tables, beats, locals, PC, Ended, Job
  <2>4. CASE ReadLock(r)
      BY <2>4, <1>live
      DEF ReadLock, TypeOK, Started, Beating, OpNames, Held,
          At, Goto, tables, beats, locals, PC, Ended, Job
  <2>5. CASE Acquire(r)
    <3>1. lock' \in Row /\ HeldRow(lock')
        BY <2>5, VerbsKeepRow
        DEF Acquire, TypeOK, Held, Started, Beating, At, CanAcquire, Mode
    <3> QED
        BY <2>5, <1>live, <3>1
        DEF Acquire, TypeOK, Started, Beating, OpNames, Held,
            At, Goto, tables, beats, locals, PC, Ended, Replied, RunStatus
  <2>6. CASE AcquireRefused(r)
      BY <2>6, <1>live
      DEF AcquireRefused, TypeOK, Started, Beating, OpNames, Held,
          At, Goto, tables, beats, locals, PC, Ended
  <2>7. CASE AcquireCancelled(r)
      BY <2>7, <1>live
      DEF AcquireCancelled, TypeOK, Started, Beating, OpNames, Held,
          At, Goto, tables, beats, locals, PC, Ended
  <2>8. CASE Verify(r)
      BY <2>8, <1>live
      DEF Verify, TypeOK, Started, Beating, OpNames, Held,
          At, Goto, tables, beats, locals, PC, Ended, Beats
  <2>9. CASE VerifyRefused(r)
      BY <2>9, <1>live
      DEF VerifyRefused, TypeOK, Started, Beating, OpNames, Held,
          At, Goto, tables, beats, locals, PC, Ended
  <2>10. CASE BeginApply(r)
      BY <2>10, <1>live
      DEF BeginApply, TypeOK, Started, Beating, OpNames, Held,
          At, Goto, tables, beats, locals, PC, Ended, Replied, MigStatus
  <2>11. CASE BeginOther(r)
      BY <2>11, <1>live
      DEF BeginOther, TypeOK, Started, Beating, OpNames, Held,
          At, Goto, tables, beats, locals, PC, Ended
  <2>12. CASE Commit(r)
    <3>1. lock' \in Row /\ HeldRow(lock')
        BY <2>12, VerbsKeepRow
        DEF Commit, TypeOK, Held, Started, Beating, At, CanCommit, CanTransition
    <3> QED
        BY <2>12, <1>live, <3>1
        DEF Commit, TypeOK, Started, Beating, OpNames, Held,
            At, Goto, tables, beats, locals, PC, Ended, Replied, Outcome, MigStatus, RunStatus
  <2>13. CASE CommitRefused(r)
      BY <2>13, <1>live
      DEF CommitRefused, TypeOK, Started, Beating, OpNames, Held,
          At, Goto, tables, beats, locals, PC, Ended
  <2>14. CASE CommitCancelled(r)
      BY <2>14, <1>live
      DEF CommitCancelled, TypeOK, Started, Beating, OpNames, Held,
          At, Goto, tables, beats, locals, PC, Ended
  <2>15. CASE MarkFinalized(r)
      BY <2>15, <1>live
      DEF MarkFinalized, TypeOK, Started, Beating, OpNames, Held,
          At, Goto, tables, beats, locals, PC, Ended, Replied, MigStatus
  <2>16. CASE ClearFinalize(r)
    <3>1. lock' \in Row /\ HeldRow(lock')
        BY <2>16, FreeingKeepsRow
        DEF ClearFinalize, TypeOK, Held, Started, Beating, At, CanClearFinalize
    <3> QED
        BY <2>16, <1>live, <3>1
        DEF ClearFinalize, TypeOK, Started, Beating, OpNames, Held,
            At, Goto, tables, beats, locals, PC, Ended, Replied
  <2>17. CASE Finish(r)
    <3>1. CASE todo[r] = {}
      <4>1. hb' = [hb EXCEPT ![r] = Quiet] /\ pc' = [pc EXCEPT ![r] = "ok"]
          BY <2>17, <3>1 DEF Finish, Goto
      <4>2. Quiet \in Beats /\ ~Quiet.on
          BY DEF Quiet, Beats
      <4>3. hb' \in [Run -> Beats] /\ pc' \in [Run -> PC]
          BY <4>1, <4>2 DEF TypeOK, PC, Ended
      <4>4. Beating'
          BY <4>1, <4>2 DEF TypeOK, Beating
      <4>5. Started'
          BY <2>17, <3>1 DEF Finish, TypeOK, Started, At, Goto
      <4> QED
          BY <2>17, <3>1, <4>3, <4>4, <4>5, <1>live
          DEF Finish, TypeOK, Held, OpNames, tables
    <3>2. CASE todo[r] # {}
      <4>1. todo[r] \in SUBSET Mig /\ Next1(r) \in Mig
          BY <3>2, PlanNames DEF TypeOK, Next1
      <4>2. /\ pc' \in [Run -> PC] /\ job' \in [Run -> Job]
            /\ cur' \in [Run -> Mig \cup {NoMig}] /\ todo' \in [Run -> SUBSET Mig]
          BY <2>17, <3>2, <4>1 DEF Finish, TypeOK, Goto, PC, Job
      <4>b. [on |-> TRUE, fails |-> 0] \in Beats
          BY DEF Beats
      <4>p. /\ hb' = [hb EXCEPT ![r] = [on |-> TRUE, fails |-> 0]]
            /\ pc' = [pc EXCEPT ![r] = "append"]
          BY <2>17, <3>2 DEF Finish, Goto
      <4>3. hb' \in [Run -> Beats] /\ Beating'
          BY <4>b, <4>p DEF TypeOK, Beating
      <4>4. Started'
          BY <2>17, <3>2, <4>1 DEF Finish, TypeOK, Started, At, Goto
      <4> QED
          BY <2>17, <4>2, <4>3, <4>4, <1>live DEF Finish, TypeOK, Held, OpNames, tables
    <3> QED
        BY <3>1, <3>2
  <2>18. CASE AppendInFlight(r)
    <3>1. lock' \in Row /\ HeldRow(lock')
        BY <2>18, VerbsKeepRow
        DEF AppendInFlight, TypeOK, Held, Started, Beating, At, CanAppend
    <3> QED
        BY <2>18, <1>live, <3>1
        DEF AppendInFlight, TypeOK, Started, Beating, OpNames, Held,
            At, Goto, tables, beats, locals, PC, Ended, Replied
  <2>19. CASE Reenter(r)
    <3>1. lock' \in Row /\ HeldRow(lock')
        BY <2>19, VerbsKeepRow
        DEF Reenter, TypeOK, Held, Started, Beating, At, CanReenter
    <3> QED
        BY <2>19, <1>live, <3>1
        DEF Reenter, TypeOK, Started, Beating, OpNames, Held,
            At, Goto, tables, beats, locals, PC, Ended, Replied
  <2>20. CASE Fail(r)
      BY <2>20, <1>live
      DEF Fail, TypeOK, Started, Beating, OpNames, Held,
          At, Goto, tables, beats, locals, PC, Ended
  <2>21. CASE Abort(r)
    <3>1. lock' \in Row /\ HeldRow(lock')
        BY <2>21, VerbsKeepRow
        DEF Abort, TypeOK, Held, Started, Beating, At, CanMarkFailed, MarkFailedBy
    <3> QED
        BY <2>21, <1>live, <3>1
        DEF Abort, TypeOK, Started, Beating, OpNames, Held,
            At, Goto, tables, beats, locals, PC, Ended, MarkFailedBy, AfterAbort, RunStatus
  <2>22. CASE PatchFailed(r)
      BY <2>22, <1>live
      DEF PatchFailed, TypeOK, Started, Beating, OpNames, Held,
          At, Goto, tables, beats, locals, PC, Ended, MigStatus
  <2>23. CASE StopFailed(r)
      BY <2>23, <1>live
      DEF StopFailed, TypeOK, Started, Beating, OpNames, Held,
          At, Goto, tables, beats, locals, PC, Ended, Quiet, Beats
  <2>24. CASE Heartbeat(r)
    <3>1. lock' \in Row /\ HeldRow(lock')
        BY <2>24, FreeingKeepsRow
        DEF Heartbeat, TypeOK, Held, Started, Beating, At
    <3> QED
        BY <2>24, <1>live, <3>1
        DEF Heartbeat, TypeOK, Started, Beating, OpNames, Held,
            At, Goto, tables, beats, locals, PC, Ended, Beats
  <2>25. CASE HeartbeatFails(r)
    <3>1. hb[r].on /\ cur[r] \in Mig
        BY <2>25 DEF HeartbeatFails, Beating, Started
    <3>b. \/ hb' = [hb EXCEPT ![r] = Quiet]
          \/ hb[r].fails = 0 /\ hb' = [hb EXCEPT ![r].fails = 1]
        BY <2>25 DEF HeartbeatFails, TypeOK, Beats, MaxFailures
    <3>c. Quiet \in Beats /\ ~Quiet.on
        BY DEF Quiet, Beats
    <3>2. hb' \in [Run -> Beats] /\ Beating'
      <4>1. CASE hb' = [hb EXCEPT ![r] = Quiet]
          BY <2>25, <3>c, <4>1 DEF HeartbeatFails, TypeOK, Beating, locals
      <4>2. CASE hb[r].fails = 0 /\ hb' = [hb EXCEPT ![r].fails = 1]
          BY <2>25, <4>2 DEF HeartbeatFails, TypeOK, Beating, Beats, locals
      <4> QED
          BY <3>b, <4>1, <4>2
    <3>3. aborting' \in [Run -> SUBSET Mig]
        BY <2>25, <3>1 DEF HeartbeatFails, TypeOK
    <3> QED
        BY <2>25, <3>2, <3>3, <1>live
        DEF HeartbeatFails, TypeOK, Started, OpNames, Held, tables, locals
  <2>26. CASE HeartbeatAbort(r)
    <3>1. lock' \in Row /\ HeldRow(lock')
        BY <2>26, VerbsKeepRow
        DEF HeartbeatAbort, TypeOK, Held, Started, Beating, At, CanMarkFailed, MarkFailedBy
    <3> QED
        BY <2>26, <1>live, <3>1
        DEF HeartbeatAbort, TypeOK, Started, Beating, OpNames, Held,
            At, Goto, tables, beats, locals, PC, Ended, MarkFailedBy, RunStatus
  <2>27. CASE Crash(r)
      BY <2>27, <1>live
      DEF Crash, TypeOK, Started, Beating, OpNames, Held,
          At, Goto, tables, beats, locals, PC, Ended, Quiet, Beats
  <2> QED
      BY <1>1, <2>1, <2>2, <2>3, <2>4, <2>5, <2>6, <2>7, <2>8, <2>9, <2>10, <2>11, <2>12, <2>13, <2>14, <2>15, <2>16, <2>17, <2>18, <2>19, <2>20, <2>21, <2>22, <2>23, <2>24, <2>25, <2>26, <2>27
      DEF Command, Step, Scheduler
<1>2. CASE GoStale
  <2>1. lock' \in Row /\ HeldRow(lock')
      BY <1>2, FreeingKeepsRow DEF GoStale, TypeOK, Held
  <2> QED
      BY <1>2, <2>1, <1>live
      DEF GoStale, TypeOK, Started, Beating, OpNames, Held, tables, beats, locals
<1>3. CASE Release
  <2>1. lock' \in Row /\ HeldRow(lock')
      BY <1>3, FreeingKeepsRow DEF Release, TypeOK, Held
  <2> QED
      BY <1>3, <2>1, <1>live
      DEF Release, TypeOK, Started, Beating, OpNames, Held, tables, beats, locals
<1>4. CASE UnlockShow
    BY <1>4, <1>live
    DEF UnlockShow, TypeOK, Started, Beating, OpNames, Held, HeldRow, tables, beats, locals, NoOp, Unlocking, LockState
<1>5. CASE UnlockRead
    BY <1>5, <1>live
    DEF UnlockRead, TypeOK, Started, Beating, OpNames, Held, HeldRow, tables, beats, locals, NoOp, Unlocking, Row
<1>6. CASE UnlockWrite
  <2>1. lock' \in Row /\ HeldRow(lock')
    <3>1. op.run \in Run /\ op.mig \in Mig
        BY <1>6 DEF UnlockWrite, OpNames
    <3>2. /\ CanMarkFailed(lock, op.run)
             => FailedRow(lock, op.mig) \in Row /\ HeldRow(FailedRow(lock, op.mig))
          /\ ForceClearedRow(lock) \in Row /\ HeldRow(ForceClearedRow(lock))
        BY <3>1, VerbsKeepRow, FreeingKeepsRow DEF TypeOK, Held, CanMarkFailed
    <3> QED
        BY <1>6, <3>2 DEF UnlockWrite, MarkFailedBy, TypeOK, Held
  <2> QED
      BY <1>6, <2>1, <1>live
      DEF UnlockWrite, TypeOK, Started, Beating, OpNames, Held, tables, beats, locals, MarkFailedBy, NoOp, Unlocking, LockState, RunStatus
<1>7. CASE UnlockPatch
    BY <1>7, <1>live
    DEF UnlockPatch, TypeOK, Started, Beating, OpNames, Held, HeldRow, tables, beats, locals, NoOp, Unlocking, LockState, MigStatus
<1> QED
    BY <1>1, <1>2, <1>3, <1>4, <1>5, <1>6, <1>7 DEF Act, Unlock

\* Every variable keeps its type, and what TypeInv says of the actors holds in
\* every reachable state, under any faults.
THEOREM TypeInvariant == Spec => []TypeInv
<1>1. TypeInv /\ [Next]_vars => TypeInv'
  <2> SUFFICES ASSUME TypeInv, UNCHANGED vars PROVE TypeInv'
      BY TypeStep
  <2> QED
      BY DEF vars, TypeInv, TypeOK, Held, Started, Beating, OpNames
<1> QED
    BY InitTypeInv, <1>1, PTL DEF Spec

\* MigrationSafety's TypeOK, for every instance.
THEOREM TypeCorrect == Spec => []TypeOK
<1>1. TypeInv => TypeOK
    BY DEF TypeInv
<1> QED
    BY TypeInvariant, <1>1, PTL

(***************************************************************************)
(* The rows.  A run that has not acquired is not on record; the migration a *)
(* batch is about to re-enter is pinned in inFlightIds.                     *)
(***************************************************************************)
Fresh == \A r \in Run :
    pc[r] \in {"idle", "readLock", "acquire"} => runRow[r] = "none" /\ lock.run # r

Pinned == \A r \in Run :
    pc[r] = "reenter" /\ lock.run = r /\ lock.state = "release" /\ lock.mig = cur[r]
        => cur[r] \in lock.inFlight

RowInv == Fresh /\ Pinned /\ LockAndRunAgree /\ WorkingIsInFlight

LEMMA InitRowInv == Init => RowInv
<1> QED
    BY NoRunAssumption
    DEF Init, RowInv, Fresh, Pinned, LockAndRunAgree, WorkingIsInFlight, FreeRow, Working

\* A step that touches neither row, and takes no run back before its acquire
\* nor on to its re-entry.
LEMMA RowsUntouched ==
    ASSUME TypeInv, RowInv, UNCHANGED <<lock, runRow>>,
           \A x \in Run :
              /\ pc'[x] \in {"idle", "readLock", "acquire"}
                   => pc[x] \in {"idle", "readLock", "acquire"}
              /\ pc'[x] = "reenter" => pc[x] = "reenter" /\ cur'[x] = cur[x]
    PROVE  RowInv'
<1> QED
    BY DEF RowInv, Fresh, Pinned, LockAndRunAgree, WorkingIsInFlight

\* Settling the owner's run, as markFailed does, whoever calls it.
LEMMA RowsFailed ==
    ASSUME TypeInv, RowInv, NEW r \in Run, NEW m \in Mig,
           CanMarkFailed(lock, r), MarkFailedBy(r, m),
           \A x \in Run : pc'[x] \in {"idle", "readLock", "acquire"}
                            => pc[x] \in {"idle", "readLock", "acquire"}
    PROVE  RowInv'
<1>1. /\ lock'.state = "failed" /\ lock'.run = r
      /\ runRow' = [runRow EXCEPT ![r] = "failed"]
    BY DEF MarkFailedBy, FailedRow, CanMarkFailed, TypeInv, TypeOK, Row
<1>2. Fresh'
    BY <1>1 DEF RowInv, Fresh, CanMarkFailed, TypeInv, TypeOK
<1>3. Pinned' /\ WorkingIsInFlight'
    BY <1>1 DEF Pinned, WorkingIsInFlight, Working
<1>4. LockAndRunAgree'
    BY <1>1 DEF LockAndRunAgree, Working, TypeInv, TypeOK
<1> QED
    BY <1>2, <1>3, <1>4 DEF RowInv

\* Freeing the lock.
LEMMA RowsFreed ==
    ASSUME TypeInv, RowInv, lock'.state = "free", lock'.run = NoRun, UNCHANGED runRow,
           \A x \in Run : pc'[x] \in {"idle", "readLock", "acquire"}
                            => pc[x] \in {"idle", "readLock", "acquire"}
    PROVE  RowInv'
<1> QED
    BY NoRunAssumption
    DEF RowInv, Fresh, Pinned, LockAndRunAgree, WorkingIsInFlight, Working

LEMMA RowStep == TypeInv /\ RowInv /\ Next => RowInv'
<1> SUFFICES ASSUME TypeInv, RowInv, Act PROVE RowInv'
    BY DEF Next
<1>1. ASSUME NEW r \in Run,
             Command(r) \/ Step(r) \/ Scheduler(r) \/ Crash(r)
      PROVE  RowInv'
  <2>1. CASE StartApply(r)
      BY <2>1, RowsUntouched DEF StartApply, At, Goto, tables, Ended, TypeInv, TypeOK
  <2>2. CASE StartFinalize(r)
      BY <2>2, RowsUntouched DEF StartFinalize, At, Goto, tables, Ended, TypeInv, TypeOK
  <2>3. CASE StartRollback(r)
      BY <2>3, RowsUntouched DEF StartRollback, At, Goto, tables, Ended, TypeInv, TypeOK
  <2>4. CASE ReadLock(r)
      BY <2>4, RowsUntouched DEF ReadLock, At, Goto, tables, Ended, TypeInv, TypeOK
  <2>5. CASE AcquireRefused(r)
      BY <2>5, RowsUntouched DEF AcquireRefused, At, Goto, tables, Ended, TypeInv, TypeOK
  <2>6. CASE AcquireCancelled(r)
      BY <2>6, RowsUntouched DEF AcquireCancelled, At, Goto, tables, Ended, TypeInv, TypeOK
  <2>7. CASE Verify(r)
      BY <2>7, RowsUntouched DEF Verify, At, Goto, tables, Ended, TypeInv, TypeOK
  <2>8. CASE VerifyRefused(r)
      BY <2>8, RowsUntouched DEF VerifyRefused, At, Goto, tables, Ended, TypeInv, TypeOK
  <2>9. CASE BeginApply(r)
      BY <2>9, RowsUntouched DEF BeginApply, At, Goto, tables, Replied, Ended, TypeInv, TypeOK
  <2>10. CASE BeginOther(r)
      BY <2>10, RowsUntouched DEF BeginOther, At, Goto, tables, Ended, TypeInv, TypeOK
  <2>11. CASE CommitRefused(r)
      BY <2>11, RowsUntouched DEF CommitRefused, At, Goto, tables, Ended, TypeInv, TypeOK
  <2>12. CASE CommitCancelled(r)
      BY <2>12, RowsUntouched DEF CommitCancelled, At, Goto, tables, Ended, TypeInv, TypeOK
  <2>13. CASE MarkFinalized(r)
      BY <2>13, RowsUntouched DEF MarkFinalized, At, Goto, tables, Replied, Ended, TypeInv, TypeOK
  <2>14. CASE Finish(r)
      BY <2>14, RowsUntouched DEF Finish, At, Goto, tables, Ended, TypeInv, TypeOK
  <2>15. CASE Fail(r)
      BY <2>15, RowsUntouched DEF Fail, At, Goto, tables, Ended, TypeInv, TypeOK
  <2>16. CASE PatchFailed(r)
      BY <2>16, RowsUntouched DEF PatchFailed, At, Goto, tables, Ended, TypeInv, TypeOK
  <2>17. CASE StopFailed(r)
      BY <2>17, RowsUntouched DEF StopFailed, At, Goto, tables, Ended, TypeInv, TypeOK
  <2>18. CASE HeartbeatFails(r)
      BY <2>18, RowsUntouched DEF HeartbeatFails, tables, locals
  <2>19. CASE Crash(r)
      BY <2>19, RowsUntouched DEF Crash, At, Goto, tables, Ended, TypeInv, TypeOK
  <2>20. CASE Acquire(r)
    <3>1. /\ lock'.run = r /\ lock'.state = Mode(r) /\ lock'.mig = cur[r]
          /\ cur[r] \in lock'.inFlight
          /\ runRow' = [runRow EXCEPT ![r] = "running"]
        BY <2>20 DEF Acquire, AcquiredRow, TypeInv, TypeOK, Row
    <3>2. Mode(r) \in {"apply", "rollback", "finalize"}
        BY DEF Mode
    <3>3. pc[r] = "acquire" /\ (pc' = [pc EXCEPT ![r] = "verify"] \/ pc' = [pc EXCEPT ![r] = "err"])
        BY <2>20 DEF Acquire, At, Replied, Goto
    <3>4. Fresh' /\ Pinned'
        BY <3>1, <3>2, <3>3 DEF RowInv, Fresh, Pinned, TypeInv, TypeOK
    <3>5. LockAndRunAgree' /\ WorkingIsInFlight'
        BY <3>1, <3>2 DEF LockAndRunAgree, WorkingIsInFlight, Working, TypeInv, TypeOK
    <3> QED
        BY <3>4, <3>5 DEF RowInv
  <2>21. CASE Commit(r)
    <3>1. /\ lock.run = r /\ lock'.run = r /\ lock'.state = "release"
          /\ runRow' = [runRow EXCEPT ![r] = "completed"]
        BY <2>21 DEF Commit, CanCommit, CanTransition, ReleasedRow, TypeInv, TypeOK, Row
    <3>2. pc[r] = "scan" /\ (pc' = [pc EXCEPT ![r] = "released"] \/ pc' = [pc EXCEPT ![r] = "abort"])
        BY <2>21 DEF Commit, At, Replied, Goto
    <3>3. Fresh' /\ Pinned'
        BY <3>1, <3>2 DEF RowInv, Fresh, Pinned, TypeInv, TypeOK
    <3>4. LockAndRunAgree' /\ WorkingIsInFlight'
        BY <3>1 DEF LockAndRunAgree, WorkingIsInFlight, Working, TypeInv, TypeOK
    <3> QED
        BY <3>3, <3>4 DEF RowInv
  <2>22. CASE ClearFinalize(r)
    <3>1. CASE CanClearFinalize(lock, r)
      <4>1. lock'.state = "free" /\ lock'.run = NoRun
          BY <2>22, <3>1
          DEF ClearFinalize, FinalizeClearedRow, Unheld, TypeInv, TypeOK, Row
      <4> QED
          BY <2>22, <3>1, <4>1, RowsFreed
          DEF ClearFinalize, Replied, At, Goto, TypeInv, TypeOK
    <3>2. CASE ~CanClearFinalize(lock, r)
        BY <2>22, <3>2, RowsUntouched DEF ClearFinalize, At, Goto, TypeInv, TypeOK
    <3> QED
        BY <3>1, <3>2
  <2>23. CASE AppendInFlight(r)
    <3>1. CASE CanAppend(lock, r)
      <4>a. lock' = AppendedRow(lock, cur[r]) /\ UNCHANGED <<runRow, cur>>
          BY <2>23, <3>1 DEF AppendInFlight
      <4>1. /\ lock.run = r /\ lock'.run = r /\ lock'.state = lock.state
            /\ lock'.mig = cur[r] /\ cur[r] \in lock'.inFlight
            /\ UNCHANGED <<runRow, cur>>
          BY <3>1, <4>a DEF AppendedRow, CanAppend, TypeInv, TypeOK, Row
      <4>2. pc[r] = "append" /\ (pc' = [pc EXCEPT ![r] = "reenter"] \/ pc' = [pc EXCEPT ![r] = "abort"])
          BY <2>23, <3>1 DEF AppendInFlight, At, Replied, Goto
      <4>3. Fresh'
          BY <4>1, <4>2 DEF RowInv, Fresh, TypeInv, TypeOK
      <4>4. Pinned'
          BY <4>1, <4>2 DEF RowInv, Pinned, TypeInv, TypeOK
      <4>5. LockAndRunAgree' /\ WorkingIsInFlight'
          BY <4>1 DEF RowInv, LockAndRunAgree, WorkingIsInFlight
      <4> QED
          BY <4>3, <4>4, <4>5 DEF RowInv
    <3>2. CASE ~CanAppend(lock, r)
        BY <2>23, <3>2, RowsUntouched DEF AppendInFlight, At, Goto, TypeInv, TypeOK
    <3> QED
        BY <3>1, <3>2
  <2>24. CASE Reenter(r)
    <3>1. CASE CanReenter(lock, r, cur[r])
      <4>1. /\ lock.run = r /\ lock.state = "release" /\ lock.mig = cur[r]
            /\ lock'.run = r /\ lock'.state = "apply"
            /\ lock'.mig = lock.mig /\ lock'.inFlight = lock.inFlight
            /\ UNCHANGED <<runRow, cur>>
          BY <2>24, <3>1 DEF Reenter, ReenteredRow, CanReenter, TypeInv, TypeOK, Row
      <4>2. pc[r] = "reenter" /\ (pc' = [pc EXCEPT ![r] = "begin"] \/ pc' = [pc EXCEPT ![r] = "abort"])
          BY <2>24, <3>1 DEF Reenter, At, Replied, Goto
      <4>3. Fresh' /\ Pinned'
          BY <4>1, <4>2 DEF RowInv, Fresh, Pinned, TypeInv, TypeOK
      <4>4. LockAndRunAgree' /\ WorkingIsInFlight'
          BY <4>1, <4>2 DEF RowInv, Pinned, LockAndRunAgree, WorkingIsInFlight, Working
      <4> QED
          BY <4>3, <4>4 DEF RowInv
    <3>2. CASE ~CanReenter(lock, r, cur[r])
        BY <2>24, <3>2, RowsUntouched DEF Reenter, At, Goto, TypeInv, TypeOK
    <3> QED
        BY <3>1, <3>2
  <2>25. CASE Abort(r)
    <3>1. /\ pc[r] = "abort" /\ cur[r] \in Mig
          /\ pc' = [pc EXCEPT ![r] = AfterAbort(r)] /\ AfterAbort(r) \in {"patch", "stop"}
          /\ UNCHANGED cur
        BY <2>25 DEF Abort, At, Goto, AfterAbort, TypeInv, Started
    <3>2. CASE CanMarkFailed(lock, r) /\ MarkFailedBy(r, cur[r])
        BY <3>1, <3>2, RowsFailed DEF TypeInv, TypeOK
    <3>3. CASE UNCHANGED <<lock, runRow>>
        BY <3>1, <3>3, RowsUntouched DEF TypeInv, TypeOK
    <3> QED
        BY <2>25, <3>2, <3>3 DEF Abort
  <2>26. CASE Heartbeat(r)
    <3>1. /\ lock'.run = lock.run /\ lock'.state = lock.state /\ lock'.mig = lock.mig
          /\ lock'.inFlight = lock.inFlight
          /\ UNCHANGED <<runRow, pc, cur>>
        BY <2>26 DEF Heartbeat, HeartbeatRow, locals, TypeInv, TypeOK, Row
    <3> QED
        BY <3>1 DEF RowInv, Fresh, Pinned, LockAndRunAgree, WorkingIsInFlight
  <2>27. CASE HeartbeatAbort(r)
    <3>1. UNCHANGED <<pc, cur>>
        BY <2>27 DEF HeartbeatAbort, locals
    <3>2. \/ UNCHANGED <<lock, runRow>>
          \/ \E m \in Mig : CanMarkFailed(lock, r) /\ MarkFailedBy(r, m)
        BY <2>27 DEF HeartbeatAbort, TypeInv, TypeOK
    <3> QED
        BY <3>1, <3>2, RowsUntouched, RowsFailed
  <2> QED
      BY <1>1, <2>1, <2>2, <2>3, <2>4, <2>5, <2>6, <2>7, <2>8, <2>9, <2>10, <2>11, <2>12, <2>13, <2>14, <2>15, <2>16, <2>17, <2>18, <2>19, <2>20, <2>21, <2>22, <2>23, <2>24, <2>25, <2>26, <2>27
      DEF Command, Step, Scheduler
<1>2. CASE GoStale
  <2>1. /\ lock'.run = lock.run /\ lock'.state = lock.state /\ lock'.mig = lock.mig
        /\ lock'.inFlight = lock.inFlight
        /\ UNCHANGED <<runRow, pc, cur>>
      BY <1>2 DEF GoStale, locals, TypeInv, TypeOK, Row
  <2> QED
      BY <2>1 DEF RowInv, Fresh, Pinned, LockAndRunAgree, WorkingIsInFlight
<1>3. CASE Release
  <2>1. lock'.state = "free" /\ lock'.run = NoRun /\ UNCHANGED <<runRow, pc>>
      BY <1>3 DEF Release, ClearedRow, Unheld, locals, TypeInv, TypeOK, Row
  <2> QED
      BY <2>1, RowsFreed
<1>4. CASE UnlockShow \/ UnlockRead
    BY <1>4, RowsUntouched DEF UnlockShow, UnlockRead, tables, locals
<1>5. CASE UnlockWrite
  <2>1. UNCHANGED <<pc, cur>> /\ op.run \in Run /\ op.mig \in Mig
      BY <1>5 DEF UnlockWrite, locals, TypeInv, OpNames
  <2>2. CASE CanMarkFailed(lock, op.run) /\ MarkFailedBy(op.run, op.mig)
      BY <2>1, <2>2, RowsFailed
  <2>3. CASE lock' = ForceClearedRow(lock) /\ UNCHANGED runRow
    <3>1. lock'.state = "free" /\ lock'.run = NoRun
        BY <2>3 DEF ForceClearedRow, Unheld, TypeInv, TypeOK, Row
    <3> QED
        BY <2>1, <2>3, <3>1, RowsFreed
  <2>4. CASE UNCHANGED <<lock, runRow>>
      BY <2>1, <2>4, RowsUntouched
  <2> QED
      BY <1>5, <2>2, <2>3, <2>4 DEF UnlockWrite
<1>6. CASE UnlockPatch
    BY <1>6, RowsUntouched DEF UnlockPatch, locals
<1> QED
    BY <1>1, <1>2, <1>3, <1>4, <1>5, <1>6 DEF Act, Unlock

\* Both hold for ever: the rows written together agree, and a working run's
\* migration is in flight, after any takeover, unlock, crash or lost reply.
THEOREM RowInvariant == Spec => []RowInv
<1>1. TypeInv /\ RowInv /\ [Next]_vars => RowInv'
  <2> SUFFICES ASSUME TypeInv, RowInv, UNCHANGED vars PROVE RowInv'
      BY RowStep
  <2> QED
      BY RowsUntouched DEF vars
<1> QED
    BY InitRowInv, TypeInvariant, <1>1, PTL DEF Spec

\* The lock row and the run row, written in one transaction by every verb,
\* never contradict each other.
THEOREM RowsAgree == Spec => []LockAndRunAgree
<1>1. RowInv => LockAndRunAgree
    BY DEF RowInv
<1> QED
    BY RowInvariant, <1>1, PTL

\* attribute_not_exists(inFlightIds), the guard of `release`, is never true
\* while a runner works.
THEOREM InFlightPinned == Spec => []WorkingIsInFlight
<1>1. RowInv => WorkingIsInFlight
    BY DEF RowInv
<1> QED
    BY RowInvariant, <1>1, PTL

(***************************************************************************)
(* The lease.  A takeover finds the owner expired or settled because the    *)
(* rows agree; the new owner was never on record because it is Fresh.       *)
(***************************************************************************)
LEMMA InitLease == Init => Lease!LeaseInit
<1> QED
    BY DEF Init, FreeRow, Lease!LeaseInit, Takeable, Working

\* Nobody else's verb touches what the lease sees.
LEMMA LeaseStutters ==
    ASSUME lock'.run = lock.run, Takeable(lock)' = Takeable(lock), UNCHANGED runRow
    PROVE  UNCHANGED Lease!leaseVars
<1> QED
    BY DEF Lease!leaseVars

LEMMA LeaseSettles ==
    ASSUME TypeInv, NEW r \in Run, NEW m \in Mig,
           CanMarkFailed(lock, r), MarkFailedBy(r, m)
    PROVE  Lease!Settle(r)
<1>1. /\ lock.run = r /\ lock'.run = r /\ lock'.state = "failed"
      /\ runRow' = [runRow EXCEPT ![r] = "failed"]
    BY DEF MarkFailedBy, FailedRow, CanMarkFailed, TypeInv, TypeOK, Row
<1> QED
    BY <1>1 DEF Lease!Settle, Takeable, Working

LEMMA LeaseGives ==
    ASSUME TypeInv, lock.state # "free", lock'.state = "free", lock'.run = NoRun,
           UNCHANGED runRow
    PROVE  Lease!Give
<1> QED
    BY NoRunAssumption
    DEF Lease!Give, Takeable, Working, TypeInv, Held, HeldRow

LEMMA LeaseStep == TypeInv /\ RowInv /\ Next => [Lease!LeaseNext]_(Lease!leaseVars)
<1> SUFFICES ASSUME TypeInv, RowInv, Act
             PROVE  Lease!LeaseNext \/ UNCHANGED Lease!leaseVars
    BY DEF Next
<1>0. ASSUME UNCHANGED <<lock, runRow>> PROVE UNCHANGED Lease!leaseVars
    BY <1>0 DEF Lease!leaseVars, Takeable
<1>1. ASSUME NEW r \in Run,
             Command(r) \/ Step(r) \/ Scheduler(r) \/ Crash(r)
      PROVE  Lease!LeaseNext \/ UNCHANGED Lease!leaseVars
  <2>1. CASE \/ StartApply(r) \/ StartFinalize(r) \/ StartRollback(r) \/ ReadLock(r) \/ AcquireRefused(r)
             \/ AcquireCancelled(r) \/ Verify(r) \/ VerifyRefused(r) \/ BeginApply(r) \/ BeginOther(r)
             \/ CommitRefused(r) \/ CommitCancelled(r) \/ MarkFinalized(r) \/ Finish(r) \/ Fail(r)
             \/ PatchFailed(r) \/ StopFailed(r) \/ HeartbeatFails(r) \/ Crash(r)
      BY <2>1, <1>0 DEF tables, StartApply, StartFinalize, StartRollback, ReadLock, AcquireRefused,
          AcquireCancelled, Verify, VerifyRefused, BeginApply, BeginOther,
          CommitRefused, CommitCancelled, MarkFinalized, Finish, Fail,
          PatchFailed, StopFailed, HeartbeatFails, Crash
  <2>2. CASE Acquire(r)
    <3>1. /\ lock'.run = r /\ lock'.fresh = TRUE
          /\ runRow' = [runRow EXCEPT ![r] = "running"]
        BY <2>2 DEF Acquire, AcquiredRow, TypeInv, TypeOK, Row
    <3>2. runRow[r] = "none"
        BY <2>2 DEF Acquire, At, RowInv, Fresh
    <3>3. lock.run = NoRun \/ Takeable(lock) \/ Lease!Settled(lock.run)
        BY <2>2
        DEF Acquire, CanAcquire, Lease!Settled, RowInv, LockAndRunAgree, TypeInv, Held, HeldRow
    <3>4. Lease!Take(r)
        BY <3>1, <3>2, <3>3 DEF Lease!Take, Takeable
    <3> QED
        BY <3>4 DEF Lease!LeaseNext
  <2>3. CASE Commit(r)
    <3>1. /\ lock.run = r /\ lock'.run = r /\ lock'.state = "release"
          /\ runRow' = [runRow EXCEPT ![r] = "completed"]
        BY <2>3 DEF Commit, CanCommit, CanTransition, ReleasedRow, TypeInv, TypeOK, Row
    <3>2. Lease!Settle(r)
        BY <3>1 DEF Lease!Settle, Takeable, Working
    <3> QED
        BY <3>2 DEF Lease!LeaseNext
  <2>4. CASE ClearFinalize(r)
    <3>1. CASE CanClearFinalize(lock, r)
      <4>1. lock.state = "finalize" /\ lock' = FinalizeClearedRow(lock) /\ UNCHANGED runRow
          BY <2>4, <3>1 DEF ClearFinalize, CanClearFinalize
      <4>2. lock'.state = "free" /\ lock'.run = NoRun
          BY <4>1 DEF FinalizeClearedRow, Unheld, TypeInv, TypeOK, Row
      <4> QED
          BY <4>1, <4>2, LeaseGives DEF Lease!LeaseNext
    <3>2. CASE ~CanClearFinalize(lock, r)
        BY <2>4, <3>2, <1>0 DEF ClearFinalize
    <3> QED
        BY <3>1, <3>2
  <2>5. CASE AppendInFlight(r)
    <3>1. CASE CanAppend(lock, r)
      <4>1. lock' = AppendedRow(lock, cur[r]) /\ UNCHANGED runRow
          BY <2>5, <3>1 DEF AppendInFlight
      <4>2. lock'.run = lock.run /\ lock'.state = lock.state /\ lock'.fresh = lock.fresh
          BY <4>1 DEF AppendedRow, TypeInv, TypeOK, Row
      <4> QED
          BY <4>1, <4>2, LeaseStutters DEF Takeable
    <3>2. CASE ~CanAppend(lock, r)
        BY <2>5, <3>2, <1>0 DEF AppendInFlight
    <3> QED
        BY <3>1, <3>2
  <2>6. CASE Reenter(r)
    <3>1. CASE CanReenter(lock, r, cur[r])
      <4>1. lock.state = "release" /\ lock' = ReenteredRow(lock) /\ UNCHANGED runRow
          BY <2>6, <3>1 DEF Reenter, CanReenter
      <4>2. lock'.run = lock.run /\ lock'.fresh = TRUE
          BY <4>1 DEF ReenteredRow, TypeInv, TypeOK, Row
      <4> QED
          BY <4>1, <4>2, LeaseStutters DEF Takeable, Working
    <3>2. CASE ~CanReenter(lock, r, cur[r])
        BY <2>6, <3>2, <1>0 DEF Reenter
    <3> QED
        BY <3>1, <3>2
  <2>7. CASE Abort(r)
    <3>1. cur[r] \in Mig
        BY <2>7 DEF Abort, At, TypeInv, Started
    <3> QED
        BY <2>7, <3>1, <1>0, LeaseSettles DEF Abort, Lease!LeaseNext
  <2>8. CASE Heartbeat(r)
    <3>1. /\ lock.run # NoRun /\ lock'.run = lock.run /\ lock'.fresh = TRUE /\ UNCHANGED runRow
        BY <2>8, NoRunAssumption
        DEF Heartbeat, CanHeartbeat, HeartbeatRow, TypeInv, TypeOK, Row
    <3>2. Lease!Beat
        BY <3>1 DEF Lease!Beat, Takeable
    <3> QED
        BY <3>2 DEF Lease!LeaseNext
  <2>9. CASE HeartbeatAbort(r)
    <3>1. \/ UNCHANGED <<lock, runRow>>
          \/ \E m \in Mig : CanMarkFailed(lock, r) /\ MarkFailedBy(r, m)
        BY <2>9 DEF HeartbeatAbort, TypeInv, TypeOK
    <3> QED
        BY <3>1, <1>0, LeaseSettles DEF Lease!LeaseNext
  <2> QED
      BY <1>1, <2>1, <2>2, <2>3, <2>4, <2>5, <2>6, <2>7, <2>8, <2>9
      DEF Command, Step, Scheduler
<1>2. CASE GoStale
  <2>1. /\ lock.run # NoRun /\ lock'.run = lock.run
        /\ lock'.state = lock.state /\ lock'.fresh = FALSE /\ lock.state \in Working
        /\ UNCHANGED runRow
      BY <1>2, NoRunAssumption
      DEF GoStale, Working, TypeInv, TypeOK, Row, Held, HeldRow
  <2>2. Lease!Beat
      BY <2>1 DEF Lease!Beat, Takeable
  <2> QED
      BY <2>2 DEF Lease!LeaseNext
<1>3. CASE Release
  <2>1. /\ lock.state = "release" /\ lock'.state = "free" /\ lock'.run = NoRun
        /\ UNCHANGED runRow
      BY <1>3 DEF Release, ClearedRow, Unheld, TypeInv, TypeOK, Row
  <2> QED
      BY <2>1, LeaseGives DEF Lease!LeaseNext
<1>4. CASE UnlockShow \/ UnlockRead \/ UnlockPatch
    BY <1>4, <1>0 DEF UnlockShow, UnlockRead, UnlockPatch, tables
<1>5. CASE UnlockWrite
  <2>1. op.run \in Run /\ op.mig \in Mig
      BY <1>5 DEF UnlockWrite, TypeInv, OpNames
  <2>2. CASE CanMarkFailed(lock, op.run) /\ MarkFailedBy(op.run, op.mig)
      BY <2>1, <2>2, LeaseSettles DEF Lease!LeaseNext
  <2>3. CASE CanForceClear(lock, op.run) /\ lock' = ForceClearedRow(lock) /\ UNCHANGED runRow
    <3>1. lock.state # "free" /\ lock'.state = "free" /\ lock'.run = NoRun
        BY <2>1, <2>3, NoRunAssumption
        DEF CanForceClear, ForceClearedRow, Unheld, TypeInv, TypeOK, Row, Held, HeldRow
    <3> QED
        BY <2>3, <3>1, LeaseGives DEF Lease!LeaseNext
  <2>4. CASE UNCHANGED <<lock, runRow>>
      BY <2>4, <1>0
  <2> QED
      BY <1>5, <2>2, <2>3, <2>4 DEF UnlockWrite
<1> QED
    BY <1>1, <1>2, <1>3, <1>4, <1>5 DEF Act, Unlock

\* The conditional writes implement the lease: under any faults, any number of
\* commands and any operator, a run that has neither settled nor gone silent
\* keeps the lock, and one that lost it never has it again.
THEOREM LockImplementsLease == Spec => LeaseRefined
<1>1. TypeInv /\ RowInv /\ [Next]_vars => [Lease!LeaseNext]_(Lease!leaseVars)
  <2> SUFFICES ASSUME UNCHANGED vars PROVE UNCHANGED Lease!leaseVars
      BY LeaseStep
  <2> QED
      BY DEF vars, Lease!leaseVars, Takeable
<1> QED
    BY InitLease, TypeInvariant, RowInvariant, <1>1, PTL
    DEF Spec, LeaseRefined, Lease!LeaseSpec

=============================================================================
