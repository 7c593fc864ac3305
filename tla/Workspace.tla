----------------------------- MODULE Workspace -----------------------------
(***************************************************************************)
(* The files of a project: the developer's entity sources, the migration    *)
(* folders and one snapshot per entity; and the two commands that write     *)
(* them, `create` (scaffold/create.ts) and `baseline`                       *)
(* (cli/commands/baseline.ts), file by file, with a crash between any two   *)
(* writes or within one.  One command runs at a time; the developer edits   *)
(* meanwhile.  The journal is left out: create writes it last and nothing   *)
(* here reads it.                                                          *)
(*                                                                         *)
(* A projection, or a frozen source rendered from one, is kept as the model *)
(* it was taken of: whoever reads it sees Shape(of).  Folders are numbered  *)
(* in the order of their ids, which begin with a timestamp.                 *)
(***************************************************************************)
EXTENDS DriftClassifier, FiniteSets

CONSTANTS Entity,
          Definition,   \* models by name: [service, attributes, indexes]
          Model,        \* the ones that occur in the sources
          Deployed,     \* the model an entity is deployed with
          Edits,        \* the models its developer turns one into another
          NoModel,
          MaxFolders    \* bound

ASSUME DefinitionAssumption == \A m \in DOMAIN Definition : WellFormed(Definition[m])
ASSUME ModelAssumption    == Model \subseteq DOMAIN Definition
ASSUME NoModelAssumption  == NoModel \notin Model
ASSUME DeployedAssumption == Deployed \in [Entity -> Model]
ASSUME EditsAssumption    == Edits \in [Entity -> SUBSET (Model \X Model)]
ASSUME BoundAssumption    == MaxFolders \in Nat

VARIABLES source,     \* the entity files: a model and its version
          snapshot,   \* <Entity>.snapshot.json
          folders,    \* the migrations directory
          cmd,        \* the command under way
          absorbed    \* history: entities with a change no migration carries

vars == <<source, snapshot, folders, cmd, absorbed>>

Folder == 1 .. Len(folders)

FolderRow == [state  : {"partial", "complete", "removed"},
              entity : Entity,
              from   : Nat,      \* the migration goes from it to the next
              v1     : Model,
              v2     : Model]

\* A damaged file keeps what version control has of it.
SnapshotFile == [state  : {"absent", "readable", "malformed"},
                 of     : Model \cup {NoModel},
                 frozen : SUBSET Nat]

Source == [model : Model, version : Nat]

Idle == [pc |-> "idle"]

CreateStep == {"folder", "bump", "refused", "snapshot"}

Command ==
    {Idle}
    \cup [pc : {"plan"}, entity : Entity, loaded : Source]
    \cup [pc : CreateStep, entity : Entity, loaded : Source, prev : SnapshotFile]
    \cup [pc : {"baseline"}, loaded : [Entity -> Source], todo : SUBSET Entity]

Init ==
    /\ source = [e \in Entity |-> [model |-> Deployed[e], version |-> 1]]
    /\ snapshot = [e \in Entity |-> [state |-> "absent", of |-> NoModel, frozen |-> {}]]
    /\ folders = <<>>
    /\ cmd = Idle
    /\ absorbed = {}

Known == DOMAIN Definition

Shape(m) == Project(Definition[m])

\* classifyDrift, for every pair of models.
DriftOf == [m \in Known |-> [n \in Known |-> ComputeDrift(Shape(m), Shape(n))]]

\* The newest migration on record leads to this model.
Newest(frozen) == CHOOSE i \in frozen : \A j \in frozen : j <= i

Tip(e) == IF snapshot[e].frozen = {} THEN Deployed[e]
          ELSE folders[Newest(snapshot[e].frozen)].v2

NotedIf(e, m) == IF Shape(m) # Shape(Tip(e)) THEN absorbed \cup {e} ELSE absorbed

-----------------------------------------------------------------------------
(* The developer.                                                            *)

Edit(e, m) ==
    /\ <<source[e].model, m>> \in Edits[e]
    /\ source' = [source EXCEPT ![e].model = m]
    /\ UNCHANGED <<snapshot, folders, cmd, absorbed>>

\* A damaged snapshot is taken back from version control.
Restore(e) ==
    /\ cmd = Idle
    /\ snapshot[e].state = "malformed"
    /\ snapshot' = [snapshot EXCEPT ![e].state =
                       IF snapshot[e].of = NoModel THEN "absent" ELSE "readable"]
    /\ UNCHANGED <<source, folders, cmd, absorbed>>

-----------------------------------------------------------------------------
(* create.                                                                   *)

CreateLoad(e) ==
    /\ cmd = Idle
    /\ cmd' = [pc |-> "plan", entity |-> e, loaded |-> source[e]]
    /\ UNCHANGED <<source, snapshot, folders, absorbed>>

\* Without a snapshot everything is new.
Drifts(prev, m) ==
    IF prev.state = "absent" THEN GreenfieldDrift(Shape(m))
    ELSE DriftOf[prev.of][m]

\* A damaged snapshot throws; so does the lack of a drift, unless forced.
CreatePlan(force) ==
    /\ cmd.pc = "plan"
    /\ LET prev == snapshot[cmd.entity]
           goOn == /\ prev.state # "malformed"
                   /\ Drifts(prev, cmd.loaded.model) # {} \/ force
       IN  cmd' = IF goOn THEN [pc |-> "folder", entity |-> cmd.entity,
                                loaded |-> cmd.loaded, prev |-> prev]
                  ELSE Idle
    /\ UNCHANGED <<source, snapshot, folders, absorbed>>

\* Mutant: v1 is rendered from the current projection.
FromModelCurrent(c) == c.loaded.model

\* Mutant: the fallback of a first migration is forgotten.
FromModelUnguarded(c) == c.prev.of

\* v1 is rendered from the snapshot, or from the current model when there is none.
FromModel(c) == IF c.prev.state = "absent" THEN c.loaded.model ELSE c.prev.of

NewFolder(s) == [state |-> s, entity |-> cmd.entity, from |-> cmd.loaded.version,
                 v1 |-> FromModel(cmd), v2 |-> cmd.loaded.model]

\* Mutant: the bump is left for later.
CreateFolderOnly ==
    /\ cmd.pc = "folder"
    /\ Len(folders) < MaxFolders
    /\ folders' = Append(folders, NewFolder("complete"))
    /\ cmd' = [cmd EXCEPT !.pc = "snapshot"]
    /\ UNCHANGED <<source, snapshot, absorbed>>

CreateFolder ==
    /\ cmd.pc = "folder"
    /\ Len(folders) < MaxFolders
    /\ folders' = Append(folders, NewFolder("complete"))
    /\ cmd' = [cmd EXCEPT !.pc = "bump"]
    /\ UNCHANGED <<source, snapshot, absorbed>>

\* bumpEntityVersion replaces the literal and nothing else.
CreateBump ==
    /\ cmd.pc = "bump"
    /\ source[cmd.entity].version = cmd.loaded.version
    /\ source' = [source EXCEPT ![cmd.entity].version = @ + 1]
    /\ cmd' = [cmd EXCEPT !.pc = "snapshot"]
    /\ UNCHANGED <<snapshot, folders, absorbed>>

\* The version is another by now, or not an inline literal.
CreateRefused ==
    /\ cmd.pc = "bump"
    /\ cmd' = [cmd EXCEPT !.pc = "refused"]
    /\ UNCHANGED <<source, snapshot, folders, absorbed>>

\* `rm -rf <migration-folder>`, as the message says.
RemoveFolder ==
    /\ cmd.pc = "refused"
    /\ folders' = [folders EXCEPT ![Len(folders)].state = "removed"]
    /\ cmd' = Idle
    /\ UNCHANGED <<source, snapshot, absorbed>>

\* Mutant: what is on record is the source as it is by now.
RecordedNow(c) == source[c.entity].model

\* The model that was loaded at the start, which the folder's v2 is made of.
Recorded(c) == c.loaded.model

CreateSnapshot ==
    /\ cmd.pc = "snapshot"
    /\ snapshot' = [snapshot EXCEPT ![cmd.entity] =
                       [state |-> "readable", of |-> Recorded(cmd),
                        frozen |-> cmd.prev.frozen \cup {Len(folders)}]]
    /\ absorbed' = IF cmd.prev.state = "absent"
                   THEN NotedIf(cmd.entity, FromModel(cmd)) ELSE absorbed
    /\ cmd' = Idle
    /\ UNCHANGED <<source, folders>>

-----------------------------------------------------------------------------
(* baseline.                                                                 *)

BaselineLoad ==
    /\ cmd = Idle
    /\ cmd' = [pc |-> "baseline", loaded |-> source, todo |-> Entity]
    /\ UNCHANGED <<source, snapshot, folders, absorbed>>

Unchanged(old, m) ==
    old.state = "readable" /\ Fingerprint(Definition[old.of]) = Fingerprint(Definition[m])

\* Mutant: what was frozen is forgotten.
BaselinedAnew(old, m) == [state |-> "readable", of |-> m, frozen |-> {}]

\* The hashes of the frozen sources are kept.
Baselined(old, m) == [state |-> "readable", of |-> m, frozen |-> old.frozen]

\* One entity of the loop; a damaged snapshot ends the command.
BaselineEntity(e) ==
    /\ cmd.pc = "baseline" /\ e \in cmd.todo
    /\ LET m == cmd.loaded[e].model IN
         IF snapshot[e].state = "malformed"
         THEN cmd' = Idle /\ UNCHANGED <<snapshot, absorbed>>
         ELSE /\ cmd' = IF cmd.todo = {e} THEN Idle ELSE [cmd EXCEPT !.todo = @ \ {e}]
              /\ IF Unchanged(snapshot[e], m) THEN UNCHANGED <<snapshot, absorbed>>
                 ELSE /\ snapshot' = [snapshot EXCEPT ![e] = Baselined(snapshot[e], m)]
                      /\ absorbed' = NotedIf(e, m)
    /\ UNCHANGED <<source, folders>>

-----------------------------------------------------------------------------
(* The process dies.  A file being written is truncated first.               *)

BeingWritten ==
    IF cmd.pc = "snapshot" THEN {cmd.entity}
    ELSE IF cmd.pc = "baseline" THEN {e \in cmd.todo : ~Unchanged(snapshot[e], cmd.loaded[e].model)}
    ELSE {}

Crash ==
    /\ cmd # Idle
    /\ cmd' = Idle
    /\ UNCHANGED <<source, folders, absorbed, snapshot>>

\* migration.ts is the last file: without it the folder does not load.
CrashInFolder ==
    /\ cmd.pc = "folder"
    /\ Len(folders) < MaxFolders
    /\ folders' = Append(folders, NewFolder("partial"))
    /\ cmd' = Idle
    /\ UNCHANGED <<source, snapshot, absorbed>>

CrashInSnapshot(e) ==
    /\ cmd # Idle /\ e \in BeingWritten
    /\ snapshot' = [snapshot EXCEPT ![e].state = "malformed"]
    /\ cmd' = Idle
    /\ UNCHANGED <<source, folders, absorbed>>

Create ==
    \/ \E e \in Entity : CreateLoad(e)
    \/ \E force \in BOOLEAN : CreatePlan(force)
    \/ CreateFolder
    \/ CreateBump \/ CreateRefused \/ RemoveFolder
    \/ CreateSnapshot

Baseline ==
    \/ BaselineLoad
    \/ \E e \in Entity : BaselineEntity(e)

Dies == Crash \/ CrashInFolder \/ \E e \in Entity : CrashInSnapshot(e)

Develops ==
    \/ \E e \in Entity : \E m \in Model : Edit(e, m)
    \/ \E e \in Entity : Restore(e)

Next == Create \/ Baseline \/ Dies \/ Develops

Spec == Init /\ [][Next]_vars

-----------------------------------------------------------------------------
(* Properties.                                                               *)

TypeOK ==
    /\ source \in [Entity -> Source]
    /\ snapshot \in [Entity -> SnapshotFile]
    /\ \A e \in Entity : snapshot[e].state = "readable" => snapshot[e].of \in Model
    /\ folders \in Seq(FolderRow)
    /\ cmd \in Command
    /\ absorbed \in SUBSET Entity

\* The migrations on record exist, their version bumps have happened, and the
\* later one starts from the later version: create bumps the source between
\* the folder and the snapshot, and only from the version it has loaded.
RecordedInSequence ==
    \A e \in Entity : \A i \in snapshot[e].frozen :
        /\ i \in Folder
        /\ folders[i].state = "complete" /\ folders[i].entity = e
        /\ folders[i].from < source[e].version
        /\ \A j \in snapshot[e].frozen : i < j => folders[i].from < folders[j].from

\* What the snapshot says of an entity is where its migrations lead, unless
\* baseline was run over a change: a shape enters the snapshot with the migration
\* to it, so drift disappears from the next create's sight only when migrated.
DriftNeverLost ==
    \A e \in Entity :
        (snapshot[e].of # NoModel /\ e \notin absorbed)
            => Shape(snapshot[e].of) = Shape(Tip(e))

\* The migrations on record join: each starts from the shape the one before
\* ended with.
RecordedJoin ==
    \A e \in Entity \ absorbed : \A j \in snapshot[e].frozen :
        LET before == {i \in snapshot[e].frozen : i < j}
        IN  Shape(folders[j].v1) = Shape(IF before = {} THEN Deployed[e]
                                         ELSE folders[Newest(before)].v2)

\* A migration on record stays there: through re-baselining (SNP-03), edits,
\* damage and repair.
RecordIsKept == [][\A e \in Entity : snapshot[e].frozen \subseteq snapshot'[e].frozen]_vars

\* Models that create and the fingerprints judge alike, whatever they are compared
\* with.
Exact == {m \in Known : \A n \in Known :
             DriftOf[m][n] = {} /\ Definition[m].service = Definition[n].service
                <=> Fingerprint(Definition[m]) = Fingerprint(Definition[n])}

\* From where the snapshots stand, create finds a drift exactly when the fingerprint
\* that baseline, the snapshot and buildCtx go by has changed, the service apart:
\* it is projected and the classifier does not compare it, the README's quick start
\* (step 3) ruling its change out.  The two go by two lists of fields.
DriftIsExact == \A e \in Entity : snapshot[e].of # NoModel => snapshot[e].of \in Exact

\* Models of which no change of shape goes unseen, and none of behaviour is seen.
Seen == {m \in Known : \A n \in Known :
            LET x == Definition[m]  y == Definition[n]
            IN  /\ (DriftOf[m][n] = {} /\ x.service = y.service) => SameRecords(x, y)
                /\ OnlyBehaviour(x, y) => DriftOf[m][n] = {}}

\* From where the snapshots stand, whatever moves the records of a service to
\* another shape is reported (README 10.1), and a change of behaviour is not
\* (README 10.2), so that create neither skips a migration nor writes an idle one.
\* Of `hidden` and `readOnly`, which store nothing otherwise and are reported, the
\* property says nothing.
ShapeIsSeen == \A e \in Entity : snapshot[e].of # NoModel => snapshot[e].of \in Seen

RenamesOf(m, n) ==
    {k \in DOMAIN Shape(m).indexes \cap DOMAIN Shape(n).indexes :
        OneReplaced(Shape(m).indexes[k], Shape(n).indexes[k])}

RenamesExact == {m \in Known : \A n \in Known :
    {d \in DriftOf[m][n] : d.kind = "key-rename"} = NamedDrift("key-rename", RenamesOf(m, n))}

\* A change of an index is called a key rename exactly when one element of one key
\* has been replaced; anything more is an index change, so that nothing hides
\* behind a rename (findKeyRename).
RenameIsReplacement ==
    \A e \in Entity : snapshot[e].of # NoModel => snapshot[e].of \in RenamesExact

=============================================================================
