# Verification of electrodb-migrations

TLA+ models of electrodb-migrations, the TLC runs that check them and the proofs
that TLAPS checks about them. Paths are relative to the repository; `src/src/` is
its implementation, `src/README.md` its documentation.

The library migrates the records of ElectroDB entities inside one DynamoDB table.
A table-wide lock (one row, `_migration_state`) keeps runners from each other and,
through a guard in every application process, keeps application traffic away from
a half-migrated table. Nothing but conditional writes on that row coordinates the
processes, and nothing fences a record write: what is safe depends on the order
of calls, on who still believes it owns the lock, and on time.

## 1. Inventory

| Component | State | Operations | Interacts with | What is hard |
|---|---|---|---|---|
| Lock row (`state-mutations/`) | `lockState`, `lockRunId`, `lockMigrationId`, `heartbeatAt`, `inFlightIds`, `failedIds`, `releaseIds` | acquire, heartbeat, appendInFlight, transitionToReleaseMode, transitionReleaseToApply, markFailed, clear, clearFinalizeMode, unlock | the `_migrations` and `_migration_runs` rows, in the same transaction | each verb has another condition, several test the run id alone |
| Lock protocol (`lock/`, `safety/heartbeat-scheduler.ts`) | the scheduler's timer and failure count, `onAbort` calls not awaited | acquire + read-back, tick, abort, expiry | lock row, runners | a runner that lost its lock goes on; lost replies; stop() overtaken by a tick |
| Apply runner (`runner/apply-*.ts`) | plan, current migration, count audit | plan, single, batch, catch block | lock row, migration row, records | the plan is read before the lock; `release` between two migrations of a batch |
| Finalize runner | scan position | delete v1, patch row, clear | same | patch and clear are two writes; no look at the migration's status |
| Record copying (`scan-pipeline`, `batch-flush`, `batch-write-retry`, `count-audit`) | page, batch, unprocessed items, attempt | flush, retry, audit | records | unprocessed items, exhausted retries |
| Rollback gate and executors (`rollback/`) | lifecycle case, type table, audit | preconditions, case 1, `projected`, `snapshot`, `fill-only`, `custom` | lock row, migration row, records | the case is decided on a stale row; rerun after a failure; domain keys |
| Guard (`guard/`) | per process: cached state and time, pending read | get, decide, reject | lock row, application | age of the cached value; calls that passed and have not arrived |
| Configuration | - | timing rule | guard, lock | zero, equality, network delays |
| Client, `unlock`, `release` | the displayed row | dispatch, lookups, confirmation, forced clear, patch | all of the above | read, ask, then write |
| Cross-entity reads (`ctx/`) | none of its own | `buildCtx` before the first record, the proxy at the first undeclared read | snapshots, sources, rollback gate | what it compares is rewritten by `create` and `baseline`, and is not what is on the table |
| Scaffold (`scaffold/`, `create`, `baseline`) | migration folder, entity source, snapshot with its frozen hashes, journal | load, plan, render, bump, record; re-baseline | drift, pending order, `ctx` | four writes without a transaction; a crash between two of them or within one; edits meanwhile |
| Snapshots and drift (`snapshot/`, `drift/`, `safety/fingerprint-projection.ts`) | one file per entity | project, fingerprint, classify | `create`, `baseline`, `ctx` | two hand-kept lists of fields; what a rename may hide |
| Definitions, errors, user entities | modules on disk | load | all of the above | a folder without `migration.ts` |
| Reports, remaining CLI | - | - | - | none |

What has to be true of them: nobody writes beside the owner of the lock; a
displaced runner does no harm to its successor's bookkeeping; the rows of one
transaction never contradict each other; `release` never opens a half-migrated
table; a dead runner's lock becomes free; every command returns; no application
request runs while records are rewritten, and rejections end; the records are
the ones that the application wrote, or that the chosen rollback promises; no change
of an entity's shape gets past the migrations on record, and what a migration meets
on the table has the shape it was written for. The
list of hazards, each at its line, is in `PROJECT.json`.

## 2. Modules

| Module | What it is |
|---|---|
| `MigrationState` | the row and its verbs as operators: a condition and the row it leaves |
| `MigrationRunner` | the commands as concurrent runs over the rows: plans, acquire and read-back, work, hand-over, batches, catch blocks, heartbeats, crashes, `release`, `unlock` |
| `LockLease` | the abstract lease |
| `MigrationSafety` | the properties of `MigrationRunner`, its fairness, the refinement mapping to `LockLease` |
| `MigrationClaims` | statements of the docs and comments that the code does not keep |
| `MigrationSafetyProofs` | proofs about `MigrationRunner`: types, the rows, the lease |
| `OwnershipProofs` | proofs about `MigrationRunner`: the owner of the lock, the writers, success, `release` |
| `GuardCache` | the guard against the runner's wait, with a clock |
| `GuardCacheProofs` | proofs about `GuardCache` |
| `RecordStore` | the v1 and v2 records under apply, finalize and every rollback, and the deployed application |
| `RecordStoreProofs` | proofs about `RecordStore` |
| `DriftClassifier` | models, projections, fingerprints and the classifier, with a reference definition |
| `DriftProofs` | proofs that the classifier meets the reference |
| `Workspace` | the files: sources, folders, snapshots under `create`, `baseline`, edits, crashes |
| `WorkspaceProofs` | proofs about `Workspace` |
| `ReadsGate` | the migrations of a `Workspace` applied and rolled back: pending order, `ctx`, the versions and reads of the rollback gate |
| `GateClaims` | statements about reads that the code does not keep |
| `ReadsGateProofs` | proofs about `ReadsGate`, among them that it implements `Workspace` |
| `MCMigrationRunner`, `MCGuardCache`, `MCRecordStore`, `MCWorkspace`, `MCGateClaims` | instances for TLC |

`MigrationSafety` extends `MigrationRunner`, which extends `MigrationState`;
`GuardCache` and `RecordStore` take the lock states from an instance of
`MigrationState`. These three models split the system along the lock. The
first asks who may write, and when; the second asks whether the application is
out by then; the third takes both answers for granted and follows the records of
one migration. `ReadsGate` extends `Workspace`, which extends `DriftClassifier`: they
follow many migrations of many entities, from the edit that calls for one to the
table, with a whole apply or rollback as one step.

### MigrationState and MigrationRunner

One step is one database call or one continuation between two awaits. `pc[r]`
is the await at which run `r` stands:

| `pc` | code |
|---|---|
| `idle` | the command has not been invoked |
| `readLock` | `checkPreconditions`, the read for the lifecycle case |
| `acquire`, `verify` | `acquireLock`: the transaction, the read-back |
| `wait` | the sleep of `acquireWaitMs`; the scheduler runs |
| `scan` | the records are being scanned and written |
| `clear` | finalize between its status patch and `clearFinalizeMode` |
| `released`, `append`, `reenter`, `begin` | `applyBatch` between two migrations: `sched.stop()`, `appendInFlight`, `transitionReleaseToApply`, the put of the next row |
| `abort`, `patch`, `stop` | the catch block: `markFailed`, the status patch, `finally` |
| `ok`, `err`, `dead` | returned, thrown, crashed |

`heartbeatAt` is kept as `fresh`, that is, as the answer to the only question
the code asks of it. A removed attribute is the empty set or `NoRun`/`NoMig`.
`CONSTANT Faults` says what may go wrong in an instance, so that every property
is checked under the weakest assumption it needs: `error` (a call rejects without
effect), `lostReply` (it takes effect and rejects), `conflict` (a transaction is
cancelled for another reason than its condition: `isResultConditionalCheckFailed`
then says "no" and the verb takes it for a success), `crash`, `pause` (a frozen
process), `hbLoss`, `slow`, `unlockLive`, `finalizeAny`.

`live` is a history variable: the migrations whose v2 records the application has
been able to write.

### GuardCache

Processes share one clock, in ticks. A read of the row takes effect at `ReadRow`
and arrives at most `ReplyTime` later; a request that has passed reaches the table
at most `SendTime` later. `turned` remembers when the row last began or ceased to
gate. The timing rule of `config/invariants.ts` is `ConfigAssumption`.

### RecordStore

A record is its primary key and a content. `up` and `down` carry the content over
or answer null (`Upless`, `Downless`); a resolver chooses any record of its entry.
`app` is what the application last wrote, `was` the table at the time the rollback
took the lock. Pages and batches are arbitrary subsets, a flush
is repeated until nothing is unprocessed or its attempts are used up. `Interrupts`
names the jobs that may fail or die half way, `Unlockable` the dead locks on which
the operator may use `unlock`.

### DriftClassifier

An entity's model has a service and named attributes and indexes, each of these with a
value for every option (`Unset` when absent). The options fall into three sets, written down apart
from the lists in the code: `StoredAttribute` and `StoredIndex` bear on what is stored (README 10.1 and
the header of `fingerprint-projection.ts`), `Access` is `hidden` and `readOnly`, `Behaviour` is what
README 10.2 names. `Project` and `Fingerprint` are `safety/fingerprint-projection.ts` and
`drift/fingerprint.ts`: what is dropped and what is normalised is kept, and a hash tells projections
apart. `entity` is projected too and left out, as it is the same for all models of an
entity. `ComputeDrift` and `IsKeyRename` are `drift/classify.ts`; `Value` is a field that
reads as `undefined`.

Two things can be wrong with the lists, and there is a property for each. They may disagree: then
`create` and the fingerprint that `baseline` and `buildCtx` go by come to different answers
(`DriftIsExact`). Or both may lack an option that matters, or have one that must not count
(`ShapeIsSeen`, against the reference `SameRecords` and `OnlyBehaviour`, which know neither
projection nor lists). Both are of one service: the projection has it, the classifier does not compare
it, and src/README.md:67 rules its change out. `hidden` and `readOnly` are reported without
being stored; neither property promises anything of them (section 6). `OneReplaced`
is the reference for renames: one element of one key is replaced.

### Workspace

`cmd.pc` is the place of the command between two writes:

| `cmd.pc` | code |
|---|---|
| `plan` | `scaffoldCreate` has loaded the entity; snapshot, drift and `force` come next |
| `folder` | the drift is there (or forced); the folder is not |
| `bump` | the folder is complete; `bumpEntityVersion` is next |
| `refused` | the bump threw; the message asks for the folder to be removed |
| `snapshot` | the source is bumped; the snapshot is not written |
| `baseline` | the loop over the entities that `baseline` loaded at its start |

`Crash`, `CrashInFolder` and `CrashInSnapshot` end the command at any of them: a folder without
`migration.ts`, its last file, does not load; a snapshot is truncated in place. `Edit`
is the developer, who works on while a command runs; `Restore` takes a damaged
snapshot back from version control. `frozen` holds the folders whose frozen sources
have a hash in the snapshot, which is how the framework itself knows what is on record.
`absorbed` is a history variable: the entities whose snapshot has taken up a change
that no migration carries, as `baseline` over an edited entity does.

### ReadsGate

`status[i]` is the row of folder `i` in `_migrations`; `disk[e]` the version
and the shape of an entity's records; `lock` has the states and the `releaseIds` that the gate
looks at. `NextPending` is the sort of `load-pending.ts`, `CtxBuilds` the checks of `buildCtx`,
`Copied` the scan, which yields records of v1's version only; `MayRollBack`
is steps 3, 5, 7 and 10 of the rollback gate. `Reads` are the declared reads, `Undeclared`
the ones that `up` makes all the same and that the proxy checks at the first call.
`Prefix` is what the writers of snapshots put before a fingerprint.

## 3. Runs

The bounds are the sizes of the constants and `MaxTime`; no state constraint is used.

| Run | Instance | Shows |
|---|---|---|
| `lease` | 2 runs, 1 migration, every fault | types; the lock row implements `LockLease`; lock and run rows agree |
| `recovery` | 2 runs, 2 migrations of one entity, crash, rejection, lost reply, frozen process, operator | in-flight pin; the row names what its owner does; no success leaves its row `running`; commands return; a dead runner's lock expires; `unlock` always frees the lock |
| `three_runs` | 3 runs, 2 migrations, crashes | one writer; writers gated; `release` means settled |
| `guard` | 1 process, 3 requests (one a read), TTL 1, wait 3, delays 1, clock to 4 | no traffic while writing; the cache catches up; callers are answered |
| `records` | 3 keys, 2 contents, one key without `up`, one without `down`, 1 retry | the application reads what it wrote; each strategy's promise; audits balance |
| `workspace` | 2 entities, one of which declares that it reads the other, which reads it undeclared, 2 folders, 1 edit, every crash; 35 models to compare | migrations on record follow and join; no change of shape is overlooked or lost; create and the fingerprints agree; renames are exact; what a migration meets and reads has the shape it was written for |
| `claim_*` | the smallest instance | six statements of the docs that the code contradicts (section 6) |

Why these sizes. The lock has one owner, so a hazard needs an owner, a rival
and, where a takeover is itself taken over, a third run. Two
migrations give a batch one boundary, and every later one repeats it; of
different entities, they make plans that skip head checks. A run is one
invocation and its id is never used again, so a retry is another run. In
`records`, the three keys are needed to have one without `up` and one without `down`
beside an ordinary one; the commands treat keys independently but for
the domain key, which `claim_sort_key` shares. One retry tells the first
attempt, the last one and exhaustion apart. In `guard`, the requests matter only
through the shared read, which needs two callers; processes do not interact
except through the row, so one is enough, and the proof covers any number. The
clock runs one tick beyond the wait (3), which lets a value read just before
the acquisition reach its greatest age.

In `workspace`, `User` reads `Team` and `Team` is edited once, so that a migration of `User`
meets `Team` before, during and after its own; `User`'s migrations are forced. `User` declares its reads of
`Team`; `Team` reads `User` without saying so, so that both paths of the check are taken.
Two folders make one join per entity and one pair of migrations of the two. A larger
instance, `Team` through three shapes, passes as well (2.3 million states). The classifier
is compared with its reference between every pair of models that a snapshot may
stand at and of the table `Models`, which changes each option and the service once and has a
case for each kind of drift; the theorems cover every pair. `Prefix` is empty there and in
`claim_reads`, as it is in the snapshots that the repository's own tests write
(`tests/integration/ctx/_helpers.ts:147`): with the prefix the framework writes, no migration
with reads is ever applied, which is `claim_ctx`, and the properties would hold of nothing.
The proofs of section 4 do not depend on `Prefix`.

What the passing runs leave out on purpose. `records` interrupts every job but case 1,
and lets the operator unlock dead applies and failed locks only: an interrupted case 1
and an unlocked finalize lose records, which `claim_retry` and section 6 record.
`recovery` has no `conflict`, with which `OwnerAgrees` and `SuccessIsRecorded` fail;
`three_runs` has no frozen process, with which there are two writers, and no rejected
calls and no operator, with which `ReleaseMeansSettled` fails (section 6). Liveness runs have the
faults that matter to them and fit into a few seconds.

Symmetry is used over runs and over contents, in runs without liveness: no run id or
content is told apart by a definition or a property.

Deadlock checking is off everywhere: each run id is used once and commands end,
so every instance stops. What must not get stuck is stated instead
(`CommandReturns`, `EventuallyFree`, `CallersAnswered`).

### Fairness

* `RunnersFair`: every run's next step and each `onAbort` call is taken. An awaited
  call resolves or rejects (the SDK has time-outs) and Node runs the continuation.
  Commands are not fair: nobody has to start one. A crashed run has no step.
* `TimePasses` (time goes by for a lock nobody beats) is what `CrashedLockExpires` supposes, and
  `OperatorRecovers` (an operator who repeats `unlock` on dead runs; README, "Manual
  recovery") what `EventuallyFree` supposes. They are antecedents of these properties and not part of
  the specification, so that the third, `CommandReturns`, does without them. Since each run
  id is used once, commands run out and the operator has the last word.
* `FairSpec` of `GuardCache`: the table executes a read, and its reply or an error
  arrives.

## 4. Proofs

For every number of runs and migrations, every entity assignment and every set of
faults (`MigrationSafetyProofs`):

* `TypeInvariant`, `TypeCorrect`: `TypeOK`, strengthened by what typing needs (a held
  row names a run and a migration; a started run has a migration; only started runs
  beat; an unlock in progress names the run it was shown).
* `RowInvariant`, from which `RowsAgree` (`LockAndRunAgree`) and `InFlightPinned`
  (`WorkingIsInFlight`) follow. Neither is inductive alone. Agreement needs that a
  run that has not acquired yet has no row and is not named by the lock, since `acquire`
  would otherwise put a `running` row under a settled lock. The pin needs
  that the row in `release` between two migrations of a batch names the one that
  is pinned when `transitionReleaseToApply` compares `lockMigrationId` only.
* `LockImplementsLease` (`LeaseRefined`): every step of every command is a step of
  `LockLease` or a stutter, by cases over the verbs. A displaced run never owns
  the lock again because a run id acquires once, from `pc = "acquire"`, and
  the read-back and all later verbs only compare it.

For every number of runs and migrations too, but with hypotheses on `Faults`
(`OwnershipProofs`). They all rest on `JobInv`, which holds under every fault: only
finalize comes to `clear`, only the later migrations of a batch to `reenter`.

* `OwnerNamesItsWork` (`OwnerAgrees`) and `SuccessLeavesARecord` (`SuccessIsRecorded`), without
  `conflict`. The first needs that a run between two migrations of a batch, whose own idea of
  its work runs ahead of the row, never finds its id there under a working state.
* `OneWriter` (`SingleWriter`) and `WritersAreGated` (`WritersGated`), without `unlockLive` and under
  `HeartbeatsGetThrough` (no `pause`, `hbLoss` or `slow`), whatever crashes, rejects
  or loses its reply. `WriterInv` says why a run at work cannot have lost the lock: it
  holds a fresh row in its own mode, its scheduler is on and has no `onAbort` call under way, and a
  row goes stale or is unlocked only once its run has ended. The hypotheses are about time: each
  of the three faults lets a live runner's row pass the stale cutoff.
* `ReleaseIsSettled` (`ReleaseMeansSettled`), under `OnlyCrashes`: no faults but `crash` and
  `finalizeAny`, and no operator. The invariant is that the owner alone writes a row of
  `_migrations`, and is never refused. A rejected call breaks it (section 6), and so does the last
  step of the `unlock` command, which patches a row after it has freed the lock.

For every number of processes and requests and all durations (`GuardCacheProofs`):

* `GuardTypes` (`TypeOK`).
* `GuardInvariant`: what a cached value, a pending read and a passed request say of
  the row now. A value that disagrees with the row is one that was read before
  `turned`, so its reply came at most `ReplyTime` after, and it is fresh for
  less than `CacheTtl` more.
* `GuardHolds` (`NoTrafficWhileWriting`), under `Headroom`: the wait is at least the TTL, the
  reply and the send delay together. The assumption is stronger than the timing rule that
  the code checks, and needed: with TTL 2, wait 3 and delays 1 TLC refutes it.
* `CacheCatchesUp` (`GuardCatchesUp`).

For every set of keys and contents, every page, batch and number of retries
(`RecordStoreProofs`):

* `RecordTypes` (`TypeOK`), together with the finiteness of the batch, which the counts need.
* `AuditAlwaysBalances` (`AuditBalances`), for all constants. While a flush is under way, what
  is scanned exceeds what is counted by the size of the batch (`CountInv`). The weight is in the
  lemmas about the strategies: each makes a plan whose requests and skips add up to the
  entries of the type table (`StrategiesPlan`), although several keys may
  have one original; for `custom` this is what DynamoDB's rejection of duplicate items ensures.
* `RollbackIsKept` (`RollbackPromise`), under `NoSortKey`: no two records share a domain key.
  `PromiseInv` calls a key owed while a write for it is still to be sent: every key is owed
  or kept, every request of the batch keeps its key, and a try turns debts into kept keys and makes no
  new ones. Case 1 has a second debt, the v2 record to delete. `claim_sort_key` is the counterexample
  without the hypothesis.
* `NothingIsLost` (`AppReadsItsWrites`), under `NoSortKey` and `Recoverable`: case 1 is not
  interrupted, and the operator unlocks failed locks and dead applies only (the instance that `records`
  runs). `LifeInv` says, status by status, which of the two tables is the application's:
  v1 until `release` has been called after an apply, v2 from then on. It needs that a
  row is `pending` exactly while the lock is in `apply`, or an `unlock` could fail a
  migration that is live; and `PromiseInv`, since what `projected` leaves is compared
  with what the application last wrote to v2.

For every pair of models (`DriftProofs`):

* `DriftExact`: there is no drift and the service is the same exactly when the fingerprints are.
  It rests on `ListsAgree`: the projection and the classifier list the same fields.
* `DriftOfShape`: no drift, within one service, means that the records are stored alike; a
  difference of behaviour alone is no drift. Both come from `NoDrift`, which says in terms of the raw models when
  nothing is reported.
* `RenamesReported`: the key renames are the indexes of which one element of one key is
  replaced and nothing else has changed. It needs models to be well formed: lists for composites.

For every set of entities, models and edits and any number of folders
(`WorkspaceProofs`): `RecordInv` is inductive, and with it `WorkspaceTypeOK`, `RecordedInSequenceHolds`,
`DriftNeverLostHolds`, `RecordedJoinHolds`, `RecordIsKeptHolds`, `DriftIsExactHolds`,
`ShapeIsSeenHolds` and `RenameIsReplacementHolds`. The properties are not inductive alone: that a new
record continues the old ones depends on what the command under way has read.
`CommandAgrees` says it: the loaded version is the source's until the bump and one less
after it; the snapshot that was read is the one on disk until the command writes, since
one command runs at a time; and from the folder on, the last folder is the command's own and on
nobody's record.

For every choice of reads and every prefix besides (`ReadsGateProofs`):

* `GateRefinesWorkspace`: the commands on the table leave the files alone, so `GateSpec` implements
  `Spec` of `Workspace` and all of the above holds of what `workspace` runs.
* `GateInvHolds`, and from it `GateTypeOKHolds`, `AppliesInChainHolds` and `ReadsMatchDiskHolds`. `Line(e)` is
  what is on record and, during a create, its folder; `Done(e)` the settled
  migrations of it. For an entity that is `Clean` (nothing absorbed, no folder left behind)
  the versions on record are consecutive, the settled ones are not
  followed by a gap, and the records have the version and the shape of the last
  migration done. A create that is still under way, and may be refused or die, counts
  as clean only as long as the migration it has written is not one that could have
  been applied over a shape it does not start from.

Assumptions are the named `ASSUME`s of the modules, which TLC evaluates in every run.

Model-checked only: liveness (`CommandReturns`, `EventuallyFree`, `CrashedLockExpires`,
`CallersAnswered`), since fairness is out of reach of the provers. Every invariant and
every action property of a passing run is stated by a theorem.

## 5. Not modelled

* Fencing of a frozen process (`pause`): record writes carry no token, so
  `SingleWriter` is stated for heartbeats that get through. `lease` and `recovery` have `pause`.
* What `up`, `down` and resolvers compute; item sizes; requests of 25; projections.
* `reset()` and diagnostics of the guard; clocks that differ between processes.
* The journal, which `create` writes last and nothing in the models reads; a source that is truncated
  at the bump (`scaffold/bump-entity-version.ts` writes in place, and a source that does not parse
  stops every command until it is restored).
* Two commands on the files at once: `create` writes back the snapshot it has read, so
  two of them on one entity can drop each other's record.
* Migration ids that collide within a second.
* Options of ElectroDB outside the allowlist (`label`, `scope`, `cast`); the export's key against
  `model.entity`. Of these, the labels of key composites and an index's scope would bear on keys and
  are not projected; a test counts `label` as behaviour (`fingerprint-projection.test.ts:122`).
* A changed `model.service`, which src/README.md:67 forbids: the fingerprint has it and the classifier does
  not compare it, so `create` would report nothing and `buildCtx` refuse. `DriftIsExact` and
  `ShapeIsSeen` are stated apart from it.
* The branch of `finalize-flow.ts` that skips a record whose delete failed its condition: the deletes
  carry none.
* The text of what is rendered (`scaffold/templates.ts`, `drift/diff.ts`), reports, the remaining CLI, loading
  of modules, output; the attributes nothing branches on.

## 6. Divergences

Each of these was found by TLC, or by reading while modelling. Six have a run:

* `claim_case_1`: the lifecycle case is read before the lock; a `release` in between
  makes "fully lossless" case 1 delete records the application wrote.
* `claim_finalize`: finalize by id does not look at the status, and without a
  `migrations` array accepts pending ids only.
* `claim_retry`: a half-done case 1, run again, is a case 2 and `projected` deletes v1
  records whose copies are gone.
* `claim_sort_key`: the records of a partition share a domain key.
* `claim_ctx`: `create` and `baseline` put `sha256:` before the fingerprint in the snapshot and `buildCtx`
  compares it with one that has none, so every read is refused as stale. The tests write
  their snapshots without the prefix and do not see it.
* `claim_reads`: "refused if any migration on a `reads` target has been applied since" (README
  6.6.2): the gate compares versions of two entities, which count independently.

The others are not kept as runs. Of the lock and the records:

* `failed` is documented as "no active runner" (README 1): `onAbort` marks the lock and leaves the
  runner writing.

* `inFlightIds` holds at most one id (`internal-entities/migration-state.ts:11`): a
  takeover or a rollback at a batch boundary adds a second, and nobody removes
  the first. `release` is then refused until `unlock`.
* `failedIds` demands a rollback before the next apply (`migration-state.ts:15`,
  README 1): only `status` reads it.
* A migration is not applied twice (`runner/load-pending.ts:57`): two overlapping
  `apply` commands do, since the pending list is not read again under the lock.
* The lock is held across a batch (`runner/apply-batch.ts:58`): a rollback may take it
  from `release` at the boundary.
* A failed batch member is rolled back (`apply-batch.ts:62`): it stays `pending`, and
  `rollback` refuses pending migrations.
* An unlocked finalize stays `applied` (README 1): the CLI marks it `failed`, and
  case 1 then deletes v2 records whose v1 copies are gone. `RecordStore` finds the
  loss with `finalize` in `Interrupts` and `Unlockable`.
* A lock freed by `unlock` keeps `releaseIds`, which later decide a case (README 1 says it
  is equivalent to `release`).
* `rollback` by id without a `migrations` array looks its id up among the pending ones
  (`client/create-migrations-client.ts:532`), which the gate refuses.
* A success never leaves its row `running`: false under `conflict` (`state-mutations/cancellation.ts:130`).
* `ReleaseMeansSettled` fails with `error` in three runs of two migrations: a runner that
  was taken over patches its status over its successor's (`runner/apply-flow.ts:86`). It fails
  with crashes and `Operator` as well: `unlock` frees the lock first and marks the
  migration `failed` afterwards, when the next runner may have released it.
* The timing rule alone does not exclude overlap (section 4).

Of the files and the reads:

* "The next `create` will detect that disagreement and refuse" (`scaffold/create.ts:31`), of a crash
  after the bump: it does not. It finds the same drift against the same snapshot and scaffolds the
  change again, from the next version.
* The remedy for a malformed snapshot is to run `baseline` (`ctx/build-ctx.ts:60`), which reads the same
  file and throws.
* "Anything outside this list is behavior-only" (README 10.1): toggling `hidden` or `readOnly` is outside it
  and stores nothing otherwise, and `create` scaffolds a migration for it
  (`drift/classify.ts:104`). TLC refutes in six steps that `create`, unless forced, scaffolds only for records
  that are stored otherwise; `ShapeIsSeen` leaves these two options out.
* README 10.1 lists fewer options than bear on what is stored and count as drift (`field`, `template`,
  `padding`, `casing` and more): the reference has these as well.
* `EDBStaleEntityReadError` is "thrown before any DynamoDB call" (README 6.6.5): the lock is taken and the
  migration's row put before `buildCtx`.
* README 6.6.1 says that the framework validates that the shape on disk matches the imported
  source. What it validates is the snapshot, which `create` moves on before anything is applied: `ReadsMatchDisk` needs the other's
  migrations to be applied.
* After a rollback the next migration of the entity is offered over older records
  (`runner/load-pending.ts:138`). The scan yields none of them, and it succeeds over nothing:
  `AppliesInChain` says that it changes no record.

## 7. Plan

Done, in this order: `MigrationState`, `MigrationRunner`, `LockLease`, `MigrationSafety` and their
proofs; `GuardCache` and its proofs; `RecordStore`; `DriftClassifier` and `Workspace`; `ReadsGate`
over them; their proofs; the claims; `OwnershipProofs` and `RecordStoreProofs`. What remains:

1. `RecordStore`: `forceUnlock` of the client, which does not patch the migration, and the
   stale v2 records of an apply that is run again.
2. An abstract specification of the migration's lifecycle (none, applied, finalized or
   reverted), implemented by `MigrationRunner` under the faults that allow it.
3. `Workspace`: the journal, and two commands at once.
