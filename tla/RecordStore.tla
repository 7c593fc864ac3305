---------------------------- MODULE RecordStore ----------------------------
(***************************************************************************)
(* The records of one entity under one migration: the v1 and the v2 items   *)
(* on the table, the commands that copy, delete and rebuild them page by    *)
(* page and batch by batch (src/src/runner, src/src/rollback), and the      *)
(* application, which reads and writes the items of the version that is     *)
(* deployed.  Commands come one after another here and the guard keeps the  *)
(* application out (MigrationRunner and GuardCache ask when that is so).    *)
(*                                                                          *)
(* A record is its primary key and a content that up and down carry over.   *)
(***************************************************************************)
EXTENDS Integers, FiniteSets

CONSTANTS Key,          \* primary keys, in the order of the scan
          Content, Gone,
          DomainKey,    \* DomainKey[k]: the partition-key part of k
          Upless,       \* keys for which up() returns null or undefined
          Downless,     \* keys for which down() does
          HasDown,      \* the migration defines down()
          MaxAttempts,  \* retries of withBatchWriteRetry, after the first try
          Interrupts,   \* the jobs that may fail or die half way
          Unlockable    \* the states of the lock of a dead or failed runner that the
                        \* operator may unlock

ASSUME GoneAssumption == Gone \notin Content
ASSUME KeysAssumption ==
    /\ Key \subseteq Nat /\ IsFiniteSet(Key)
    /\ Upless \subseteq Key /\ Downless \subseteq Key /\ DOMAIN DomainKey = Key
ASSUME MaxAttemptsAssumption == MaxAttempts \in Nat

State == INSTANCE MigrationState
           WITH Run <- {}, Mig <- {}, NoRun <- "none", NoMig <- "none"

VARIABLES v1, v2,   \* the items: content, or Gone
          app,      \* history: what the application believes is on the table
          shape,    \* the version of the application that is deployed
          lock,     \* lockState
          status,   \* the `_migrations` row
          pc, job,  \* the runner, and what it does
          left,     \* keys its scan has not reached
          batch,    \* the writes of the current flush
          rest,     \* those still unprocessed
          attempt,  \* tries so far
          audit,    \* the count audit
          was       \* history: the table when the rollback took the lock

tables == <<v1, v2, app>>
run    == <<pc, job, left, batch, rest, attempt, audit>>
vars   == <<v1, v2, app, shape, lock, status, pc, job, left, batch, rest, attempt, audit, was>>

Strategy == {"projected", "snapshot", "fill-only", "custom"}
Job      == {"none", "apply", "finalize", "case-1"} \cup Strategy
Items    == [Key -> Content \cup {Gone}]
Request  == [table : {"v1", "v2"}, key : Key, content : Content \cup {Gone}]
Counts   == [scanned : Nat, written : Nat, deleted : Nat, skipped : Nat]

TypeOK ==
    /\ v1 \in Items /\ v2 \in Items /\ app \in Items
    /\ shape \in {"v1", "v2"}
    /\ lock \in State!LockState
    /\ status \in {"none", "pending", "applied", "finalized", "failed", "reverted"}
    /\ pc \in {"idle", "scan", "flush", "commit", "clear"}
    /\ job \in Job
    /\ left \subseteq Key
    /\ batch \subseteq Request /\ rest \subseteq batch
    /\ attempt \in 0 .. MaxAttempts + 1
    /\ audit \in Counts
    /\ was \in [v1 : Items, v2 : Items]

Empty  == [k \in Key |-> Gone]
Zero   == [scanned |-> 0, written |-> 0, deleted |-> 0, skipped |-> 0]
In(t)  == {k \in Key : t[k] # Gone}

Init ==
    /\ v1 \in Items /\ v2 = Empty /\ app = v1
    /\ shape = "v1" /\ lock = "free" /\ status = "none"
    /\ pc = "idle" /\ job = "none" /\ left = {} /\ batch = {} /\ rest = {}
    /\ attempt = 0 /\ audit = Zero
    /\ was = [v1 |-> Empty, v2 |-> Empty]

-----------------------------------------------------------------------------
(* The application, as far as the guard lets it.                             *)

Visible == IF shape = "v1" THEN v1 ELSE v2

\* A put or a delete of the deployed version.
AppWrite ==
    /\ lock \notin State!Gating
    /\ \E k \in Key, c \in Content \cup {Gone} :
          /\ app' = [app EXCEPT ![k] = c]
          /\ IF shape = "v1" THEN v1' = [v1 EXCEPT ![k] = c] /\ UNCHANGED v2
                             ELSE v2' = [v2 EXCEPT ![k] = c] /\ UNCHANGED v1
    /\ UNCHANGED <<shape, lock, status, run, was>>

-----------------------------------------------------------------------------
(* Starting a command; a dead runner's lock is taken over once it is stale.  *)

Admits(mode) ==
    /\ pc = "idle"
    /\ \/ lock \in {"free"} \cup State!Working
       \/ mode = "rollback" /\ lock \in {"release", "failed"}

Begin(mode, j, todo) ==
    /\ lock' = mode
    /\ pc' = "scan" /\ job' = j /\ left' = todo
    /\ batch' = {} /\ rest' = {} /\ attempt' = 0 /\ audit' = Zero

StartApply ==
    /\ Admits("apply") /\ status \in {"none", "pending"}
    /\ Begin("apply", "apply", In(v1))
    /\ status' = "pending"
    /\ UNCHANGED <<tables, shape, was>>

StartFinalize ==
    /\ Admits("finalize") /\ status = "applied"
    /\ Begin("finalize", "finalize", In(v1))
    /\ UNCHANGED <<tables, shape, status, was>>

\* determineLifecycleCase.
Case ==
    IF status = "finalized" THEN "case-3"
    ELSE IF status = "failed" \/ lock = "release" THEN "case-1" ELSE "case-2"

\* checkPreconditions, steps 8 and 9.
Permitted(s) ==
    /\ Case = "case-3" => s \in {"projected", "custom"}
    /\ s \in {"projected", "fill-only"} => HasDown

StartRollback ==
    /\ Admits("rollback") /\ status \in {"applied", "finalized", "failed"}
    /\ IF Case = "case-1" THEN Begin("rollback", "case-1", In(v2))
       ELSE \E s \in Strategy : Permitted(s) /\ Begin("rollback", s, {})
    /\ was' = [v1 |-> v1, v2 |-> v2]
    /\ UNCHANGED <<tables, shape, status>>

-----------------------------------------------------------------------------
(* Scanning: pages of v1 for apply and finalize, of v2 for case 1; the       *)
(* strategies classify the whole table before they write anything.           *)

Put(t, k, c) == [table |-> t, key |-> k, content |-> c]
Delete(t, K) == {Put(t, k, Gone) : k \in K}

Scanned(n, skipped) == [audit EXCEPT !.scanned = @ + n, !.skipped = @ + skipped]

Flush(writes) ==
    /\ batch' = writes /\ rest' = writes /\ attempt' = 0
    /\ pc' = "flush"

ApplyPage ==
    /\ pc = "scan" /\ job = "apply"
    /\ \E page \in SUBSET left \ {{}} :
          /\ left' = left \ page
          /\ audit' = Scanned(Cardinality(page), Cardinality(page \cap Upless))
          /\ Flush({Put("v2", k, v1[k]) : k \in page \ Upless})
    /\ UNCHANGED <<tables, shape, lock, status, job, was>>

Case1Page ==
    /\ pc = "scan" /\ job = "case-1"
    /\ \E page \in SUBSET left \ {{}} :
          /\ left' = left \ page
          /\ audit' = Scanned(Cardinality(page), 0)
          /\ Flush(Delete("v2", page))
    /\ UNCHANGED <<tables, shape, lock, status, job, was>>

\* finalizeFlow deletes one record at a time.  Its deletes carry no condition, so the
\* branch that skips a record whose condition failed is never taken.
FinalizeRecord ==
    /\ pc = "scan" /\ job = "finalize"
    /\ \E k \in left :
          /\ left' = left \ {k}
          /\ v1' = [v1 EXCEPT ![k] = Gone]
          /\ audit' = [audit EXCEPT !.scanned = @ + 1, !.deleted = @ + 1]
    /\ UNCHANGED <<v2, app, shape, lock, status, pc, job, batch, rest, attempt, was>>

Scan ==
    /\ pc = "scan" /\ left = {} /\ job \in {"apply", "case-1", "finalize"}
    /\ pc' = "commit"
    /\ UNCHANGED <<tables, shape, lock, status, job, left, batch, rest, attempt, audit, was>>

\* extractDomainKey leaves the sort key out: the v1 records of a partition fall
\* together, and the index keeps the last of them.
Same(t, k)  == {j \in In(t) : DomainKey[j] = DomainKey[k]}
Original(k) == CHOOSE j \in Same(v1, k) : \A i \in Same(v1, k) : i <= j

\* The type table: in both versions, fresh in v2, deleted from v2.
TypeA == {k \in In(v2) : Same(v1, k) # {}}
TypeB == In(v2) \ TypeA
TypeC == {k \in In(v1) : Same(v2, k) = {} /\ k = Original(k)}
Entries == In(v2) \cup TypeC

Downed(K) == {Put("v1", k, v2[k]) : k \in K \ Downless}

\* Mutant: a record the application deleted is written back.
ProjectedRestoresC == Downed(TypeA \cup TypeB) \cup {Put("v1", k, v1[k]) : k \in TypeC}

Projected == Downed(TypeA \cup TypeB) \cup Delete("v1", TypeC)

FillOnly == Downed(TypeB)

Snapshot == Delete("v2", TypeB)

Classify(writes, skipped) ==
    /\ Flush(writes)
    /\ audit' = Scanned(Cardinality(Entries), skipped)

\* Mutant: records that are kept are not counted.
SkippedBToo(s) == Cardinality(Entries \ TypeB)

Skipped(s) ==
    CASE s = "projected" -> Cardinality((TypeA \cup TypeB) \cap Downless)
      [] s = "fill-only" -> Cardinality(TypeA \cup TypeC \cup (TypeB \cap Downless))
      [] OTHER           -> Cardinality(TypeA \cup TypeC)

\* `snapshot` asks first when there is something to lose; declined, it skips
\* every record and the rollback goes on to its commit.
Execute ==
    /\ pc = "scan"
    /\ \/ job = "projected" /\ Classify(Projected, Skipped(job))
       \/ job = "fill-only" /\ Classify(FillOnly, Skipped(job))
       \/ job = "snapshot" /\ Classify(Snapshot, Skipped(job))
       \/ /\ job = "snapshot" /\ TypeB \cup TypeC # {}
          /\ Classify({}, Cardinality(Entries))
    /\ UNCHANGED <<tables, shape, lock, status, job, left, was>>

\* The resolver answers each entry with one of its records, or null: delete.
\* BatchWriteItem rejects a request that names an item twice.
ExecuteCustom ==
    /\ pc = "scan" /\ job = "custom"
    /\ \E keepV1 \in SUBSET (TypeA \cup TypeC), keepV2 \in SUBSET In(v2) :
          LET nulls   == Entries \ (keepV1 \cup keepV2)
              item(k) == IF k \in keepV2 THEN k ELSE Original(k)
              written == Entries \ (nulls \cap TypeB)
          IN  /\ keepV1 \cap keepV2 = {}
              /\ \A j, k \in written : item(j) = item(k) => j = k
              /\ Classify({Put("v1", Original(k), v1[Original(k)]) : k \in keepV1}
                            \cup {Put("v1", k, v2[k]) : k \in keepV2}
                            \cup Delete("v1", {Original(k) : k \in nulls \ TypeB}),
                          Cardinality(nulls \cap TypeB))
    /\ UNCHANGED <<tables, shape, lock, status, job, left, was>>

-----------------------------------------------------------------------------
(* Flushing: BatchWriteItem with its unprocessed items, up to MaxAttempts    *)
(* retries.                                                                  *)

Written(t, name, done) ==
    [k \in Key |-> IF \E q \in done : q.table = name /\ q.key = k
                   THEN (CHOOSE q \in done : q.table = name /\ q.key = k).content
                   ELSE t[k]]

\* Mutant: one try too many.
MayTryOnceMore == attempt <= MaxAttempts + 1

MayTry == attempt <= MaxAttempts

\* A snapshot rollback gives the fresh records up, knowingly.
Send ==
    /\ pc = "flush" /\ rest # {} /\ MayTry
    /\ \E done \in SUBSET rest :
          /\ attempt = MaxAttempts /\ job \notin Interrupts => done = rest
          /\ v1' = Written(v1, "v1", done)
          /\ v2' = Written(v2, "v2", done)
          /\ app' = IF job = "snapshot" THEN Written(app, "v2", done) ELSE app
          /\ rest' = rest \ done
    /\ attempt' = attempt + 1
    /\ UNCHANGED <<shape, lock, status, pc, job, left, batch, audit, was>>

\* Mutant: what is still unprocessed after the last retry is dropped.
DoneGivingUp == rest = {} \/ attempt > MaxAttempts

Done == rest = {}

Flushed ==
    /\ pc = "flush" /\ Done
    /\ LET deletes == {q \in batch : q.content = Gone}
       IN  audit' = [audit EXCEPT !.written = @ + Cardinality(batch \ deletes),
                                  !.deleted = @ + Cardinality(deletes)]
    /\ batch' = {} /\ rest' = {} /\ attempt' = 0
    /\ pc' = IF job \in {"apply", "case-1"} THEN "scan" ELSE "commit"
    /\ UNCHANGED <<tables, shape, lock, status, job, left, was>>

-----------------------------------------------------------------------------
(* Ending.                                                                   *)

Balanced == audit.scanned = audit.written + audit.deleted + audit.skipped

Stop ==
    /\ pc' = "idle"
    /\ left' = {} /\ batch' = {} /\ rest' = {} /\ attempt' = 0 /\ audit' = Zero

\* assertInvariant, then transitionToReleaseMode; finalize has two writes.
Commit ==
    /\ pc = "commit" /\ Balanced
    /\ IF job = "finalize"
       THEN /\ status' = "finalized" /\ pc' = "clear"
            /\ UNCHANGED <<lock, left, batch, rest, attempt, audit>>
       ELSE /\ status' = IF job = "apply" THEN "applied" ELSE "reverted"
            /\ lock' = "release"
            /\ Stop
    /\ UNCHANGED <<tables, shape, job, was>>

ClearFinalize ==
    /\ pc = "clear"
    /\ lock' = "free"
    /\ Stop
    /\ UNCHANGED <<tables, shape, status, job, was>>

\* A call rejects: markFailed, and applyFlow alone marks the migration.
Fail ==
    /\ pc # "idle" /\ job \in Interrupts
    /\ lock' = "failed"
    /\ status' = IF job = "apply" THEN "failed" ELSE status
    /\ Stop
    /\ UNCHANGED <<tables, shape, job, was>>

Die ==
    /\ pc # "idle" /\ job \in Interrupts
    /\ Stop
    /\ UNCHANGED <<tables, shape, lock, status, job, was>>

\* The `unlock` command on a dead runner's lock marks the migration, whatever
\* the runner did.
UnlockDead ==
    /\ pc = "idle" /\ lock \in State!Working \cap Unlockable
    /\ lock' = "failed" /\ status' = "failed"
    /\ UNCHANGED <<tables, shape, run, was>>

\* `release`, or `unlock` of a failed lock.  The operator has deployed the
\* version that belongs to the outcome: it takes over what it finds where the
\* command was told to drop or to resurrect records, and the records for which
\* up or down had nothing to say.
Believed ==
    CASE status = "applied"             -> [k \in Key |-> IF k \in Upless THEN v2[k] ELSE app[k]]
      [] status = "reverted" /\ job = "projected" ->
                                           [k \in Key |-> IF k \in Downless THEN v1[k] ELSE app[k]]
      [] status = "reverted" /\ job \notin {"case-1", "projected"} -> v1
      [] OTHER                          -> app

Release ==
    /\ pc = "idle" /\ lock = "release"
    /\ shape' = IF status = "applied" THEN "v2" ELSE "v1"
    /\ app' = Believed
    /\ lock' = "free"
    /\ was' = [v1 |-> Empty, v2 |-> Empty]
    /\ UNCHANGED <<v1, v2, status, run>>

UnlockFailed ==
    /\ pc = "idle" /\ lock = "failed" /\ lock \in Unlockable
    /\ lock' = "free"
    /\ UNCHANGED <<tables, shape, status, run, was>>

-----------------------------------------------------------------------------
Next ==
    \/ AppWrite
    \/ StartApply \/ StartFinalize \/ StartRollback
    \/ ApplyPage \/ Case1Page \/ FinalizeRecord \/ Scan \/ Execute \/ ExecuteCustom
    \/ Send \/ Flushed
    \/ Commit \/ ClearFinalize \/ Fail \/ Die
    \/ UnlockDead \/ Release \/ UnlockFailed

Spec == Init /\ [][Next]_vars

-----------------------------------------------------------------------------
\* Whenever the guard lets it, the application reads exactly what it last
\* wrote, through any sequence of commands, interrupted or not: nothing is
\* lost and nothing it deleted comes back, but for what a strategy announces.
AppReadsItsWrites == lock \notin State!Gating => Visible = app

\* After a rollback the v1 records are the ones README 2.1 to 2.3 promise for
\* its strategy, given the table it found, however its writes were paged,
\* batched and retried.
RollbackPromise ==
    lock = "release" /\ status = "reverted" =>
        \A k \in Key :
            LET fresh == was.v2[k] # Gone /\ k \notin Downless
            IN  CASE job = "projected" ->
                       v1[k] = IF fresh THEN was.v2[k]
                               ELSE IF was.v2[k] # Gone THEN was.v1[k] ELSE Gone
                  [] job = "fill-only" ->
                       v1[k] = IF was.v1[k] # Gone THEN was.v1[k]
                               ELSE IF fresh THEN was.v2[k] ELSE Gone
                  [] job = "case-1" -> v1[k] = was.v1[k] /\ v2[k] = Gone
                  [] job = "snapshot" -> v1[k] = was.v1[k]
                  [] OTHER -> v1[k] \in {was.v1[k], was.v2[k], Gone}

\* A run that has written all it had to is never failed by its own count audit
\* (RUN-04, RBK-12).
AuditBalances == pc = "commit" => Balanced

\* README 2.1, case 1: "Every v2 record on disk is a transformed copy of a v1
\* record; v1 is intact ... Fully lossless".  Until `release` is called nothing
\* but copies is there to be lost, however often the rollback has to be run.
PreReleaseLossless ==
    lock = "release" /\ status = "reverted" /\ shape = "v1" /\ job \in {"case-1", "projected"}
        => v1 = app

=============================================================================
