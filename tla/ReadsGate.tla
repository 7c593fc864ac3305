----------------------------- MODULE ReadsGate -----------------------------
(***************************************************************************)
(* The migrations of a Workspace, applied to the table: which of them       *)
(* `apply` takes next (runner/load-pending.ts), what of other entities they *)
(* may read (ctx/build-ctx.ts) and when they may be rolled back             *)
(* (rollback/preconditions.ts).  A command is one step here; what happens   *)
(* within one is the matter of MigrationRunner and RecordStore.             *)
(***************************************************************************)
EXTENDS Workspace

CONSTANTS Reads,    \* declared by the migrations of an entity
          Undeclared, \* what their up() reads besides
          Prefix    \* what the writers of snapshots put before a fingerprint

ASSUME ReadsAssumption ==
    Reads \in [Entity -> SUBSET Entity] /\ Undeclared \in [Entity -> SUBSET Entity]

VARIABLES status,     \* of a folder's row in `_migrations`
          disk,       \* version and shape of an entity's records on the table
          lock        \* `_migration_state`: state and releaseIds

gateVars == <<status, disk, lock>>

Settled == {"applied", "finalized"}

GateInit ==
    /\ Init
    /\ status = [i \in 1 .. MaxFolders |-> "none"]
    /\ disk = [e \in Entity |-> [version |-> 1, of |-> Deployed[e]]]
    /\ lock = [state |-> "free", release |-> {}]

-----------------------------------------------------------------------------
(* buildCtx.                                                                 *)

OnDisk(e) == [Fingerprint(Definition[snapshot[e].of]) EXCEPT !.prefix = Prefix]

\* Mutant: a readable snapshot will do.
MatchesReadable(e) == snapshot[e].state = "readable"

\* The stored fingerprint against that of the imported source.
Matches(e) == /\ snapshot[e].state = "readable"
              /\ OnDisk(e) = Fingerprint(Definition[source[e].model])

ReadBy(i) == Reads[folders[i].entity] \cup Undeclared[folders[i].entity]

SelfRead(i) == folders[i].entity \in ReadBy(i)

Stale(i) == {e \in ReadBy(i) : snapshot[e].state = "readable" /\ ~Matches(e)}

\* Eagerly for what is declared and at the first call for what is not.
CtxBuilds(i) == ~SelfRead(i) /\ \A e \in ReadBy(i) : Matches(e)

-----------------------------------------------------------------------------
(* apply.                                                                    *)

Pending == {i \in Folder : folders[i].state = "complete" /\ status[i] = "none"}

\* isNextPending: the lowest fromVersion of the entity; folders in name order.
NextPending(i) ==
    /\ i \in Pending
    /\ \A j \in Pending : folders[j].entity = folders[i].entity =>
          \/ folders[i].from < folders[j].from
          \/ folders[i].from = folders[j].from /\ i <= j

To(i) == folders[i].from + 1

\* Mutants: v2 is what the snapshot says; the records are stamped, not transformed.
CopiedSnapshot(i) == LET e == folders[i].entity IN
    IF disk[e].version = folders[i].from
    THEN [disk EXCEPT ![e] = [version |-> To(i), of |-> snapshot[e].of]] ELSE disk

CopiedVersionOnly(i) == LET e == folders[i].entity IN
    IF disk[e].version = folders[i].from THEN [disk EXCEPT ![e].version = To(i)] ELSE disk

\* The scan yields the records of v1's version only.
Copied(i) == LET e == folders[i].entity IN
    IF disk[e].version = folders[i].from
    THEN [disk EXCEPT ![e] = [version |-> To(i), of |-> folders[i].v2]] ELSE disk

Released(i) == [state |-> "release", release |-> lock.release \cup {i}]

Apply(i) ==
    /\ lock.state = "free" /\ NextPending(i) /\ CtxBuilds(i)
    /\ status' = [status EXCEPT ![i] = "applied"]
    /\ disk' = Copied(i)
    /\ lock' = Released(i)
    /\ UNCHANGED vars

ApplyRefused(i) ==
    /\ lock.state = "free" /\ NextPending(i) /\ ~CtxBuilds(i)
    /\ status' = [status EXCEPT ![i] = "failed"]
    /\ lock' = [lock EXCEPT !.state = "failed"]
    /\ UNCHANGED <<vars, disk>>

-----------------------------------------------------------------------------
(* rollback, which may take the lock in each of its three states.            *)

IsHead(i) ==
    \A j \in Folder \ {i} :
        (folders[j].entity = folders[i].entity /\ status[j] \in Settled) => To(j) <= To(i)

PreRelease(i) ==
    \/ status[i] = "failed"
    \/ status[i] = "applied" /\ lock.state = "release" /\ i \in lock.release

\* findBlockingReadsDependency.
Blocking(i) == {j \in Folder : /\ folders[j].entity \in Reads[folders[i].entity]
                               /\ status[j] \in Settled
                               /\ folders[j].from >= To(i)}

MayRollBack(i) ==
    /\ folders[i].state = "complete"
    /\ status[i] \in Settled \cup {"failed"}
    /\ IsHead(i)
    /\ PreRelease(i) \/ Blocking(i) = {}

Restored(i) == LET e == folders[i].entity IN
    IF disk[e].version = To(i)
    THEN [disk EXCEPT ![e] = [version |-> folders[i].from, of |-> folders[i].v1]] ELSE disk

\* Case 1 runs no code of the user, so it builds no ctx.
Rollback(i) ==
    /\ i \in Folder /\ MayRollBack(i)
    /\ PreRelease(i) \/ CtxBuilds(i)
    /\ status' = [status EXCEPT ![i] = "reverted"]
    /\ disk' = IF status[i] = "failed" THEN disk ELSE Restored(i)
    /\ lock' = Released(i)
    /\ UNCHANGED vars

RollbackRefused(i) ==
    /\ i \in Folder /\ MayRollBack(i)
    /\ ~PreRelease(i) /\ ~CtxBuilds(i)
    /\ lock' = [lock EXCEPT !.state = "failed"]
    /\ UNCHANGED <<vars, status, disk>>

-----------------------------------------------------------------------------
(* finalize, release, unlock.                                                *)

Finalize(i) ==
    /\ lock.state = "free"
    /\ i \in Folder /\ folders[i].state = "complete" /\ status[i] = "applied"
    /\ status' = [status EXCEPT ![i] = "finalized"]
    /\ lock' = [lock EXCEPT !.release = {}]
    /\ UNCHANGED <<vars, disk>>

Release ==
    /\ lock.state = "release"
    /\ lock' = [state |-> "free", release |-> {}]
    /\ UNCHANGED <<vars, status, disk>>

Unlock ==
    /\ lock.state = "failed"
    /\ lock' = [lock EXCEPT !.state = "free"]
    /\ UNCHANGED <<vars, status, disk>>

GateNext ==
    \/ Next /\ UNCHANGED gateVars
    \/ \E i \in Folder : Apply(i) \/ ApplyRefused(i)
    \/ \E i \in Folder : Rollback(i) \/ RollbackRefused(i)
    \/ \E i \in Folder : Finalize(i)
    \/ Release \/ Unlock

GateSpec == GateInit /\ [][GateNext]_<<vars, gateVars>>

-----------------------------------------------------------------------------
(* Properties.                                                               *)

GateTypeOK ==
    /\ status \in [1 .. MaxFolders -> {"none", "applied", "finalized", "failed", "reverted"}]
    /\ disk \in [Entity -> [version : Nat, of : Model]]
    /\ lock \in [state : {"free", "release", "failed"}, release : SUBSET (1 .. MaxFolders)]

\* Every migration of e that a command has left behind is on record, and
\* no change has been baselined away.
Whole(e) ==
    /\ e \notin absorbed
    /\ \A i \in Folder :
          (folders[i].entity = e /\ (folders[i].state = "complete" \/ status[i] # "none"))
              => i \in snapshot[e].frozen

Applying(i) == status[i] # "applied" /\ status'[i] = "applied"

Earlier(i) == {j \in snapshot[folders[i].entity].frozen : folders[j].from < folders[i].from}

\* A migration that is applied after all the earlier ones on its entity's record
\* meets records of its own fromVersion and of the shape its v1 was frozen from;
\* applied out of turn, over one that was rolled back, it finds none and leaves the
\* records as they are.  This as long as create was never interrupted and
\* baseline absorbed nothing: the promise of scaffold, fingerprint, pending order
\* and versions together.
AppliesInChain ==
    [][\A i \in Folder : (Applying(i) /\ Whole(folders[i].entity)) =>
          LET e == folders[i].entity
          IN  IF \A j \in Earlier(i) : status[j] \in Settled
              THEN /\ disk[e].version = folders[i].from
                   /\ Shape(disk[e].of) = Shape(folders[i].v1)
              ELSE disk'[e] = disk[e]]_<<vars, gateVars>>

\* What a migration reads of another entity has the shape of the source it
\* imports, once the other's own migrations are applied (README 6.6.3); the check
\* is of the snapshot, which `create` moves on before anything is applied.
ReadsMatchDisk ==
    [][\A i \in Folder : Applying(i) =>
          \A y \in ReadBy(i) :
             (Whole(y) /\ \A j \in snapshot[y].frozen : status[j] \in Settled)
                => Shape(disk[y].of) = Shape(source[y].model)]_<<vars, gateVars>>

=============================================================================
