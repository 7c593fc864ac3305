-------------------------- MODULE WorkspaceProofs --------------------------
(***************************************************************************)
(* What create and baseline guarantee, for every set of entities, every     *)
(* well-formed choice of models and any number of folders.  The argument    *)
(* follows the command under way: the version it has loaded is the          *)
(* source's until the bump, and one less after it; the snapshot it has read *)
(* is the one on disk until it writes; and from the folder on, the last     *)
(* folder is its own and on nobody's record.                               *)
(***************************************************************************)
EXTENDS Workspace, DriftProofs, SequenceTheorems, WellFoundedInduction

Own(c) == [state |-> "complete", entity |-> c.entity, from |-> c.loaded.version,
           v1 |-> FromModel(c), v2 |-> c.loaded.model]

CommandAgrees ==
    /\ cmd.pc \in {"plan", "folder", "bump", "refused"} =>
          source[cmd.entity].version = cmd.loaded.version
    /\ cmd.pc = "snapshot" =>
          /\ source[cmd.entity].version = cmd.loaded.version + 1
          /\ \A i \in cmd.prev.frozen : folders[i].from < cmd.loaded.version
    /\ cmd.pc \in CreateStep =>
          cmd.prev = snapshot[cmd.entity] /\ cmd.prev.state # "malformed"
    /\ cmd.pc \in {"bump", "refused", "snapshot"} =>
          /\ Len(folders) # 0
          /\ folders[Len(folders)] = Own(cmd)
          /\ \A e \in Entity : Len(folders) \notin snapshot[e].frozen

Before(e, j) == {i \in snapshot[e].frozen : i < j}

RecordAgrees ==
    \A e \in Entity :
        /\ snapshot[e].state = "absent" => snapshot[e].of = NoModel
        /\ snapshot[e].of = NoModel => snapshot[e].frozen = {}

RecordInv ==
    /\ TypeOK
    /\ CommandAgrees
    /\ RecordAgrees
    /\ RecordedInSequence
    /\ DriftNeverLost
    /\ RecordedJoin

-----------------------------------------------------------------------------
(* Types.                                                                    *)

LEMMA CommandType ==
    ASSUME TypeOK
    PROVE  /\ cmd.pc \in {"idle", "plan", "baseline"} \cup CreateStep
           /\ cmd.pc = "idle" <=> cmd = Idle
           /\ cmd.pc = "plan" => cmd.entity \in Entity /\ cmd.loaded \in Source
           /\ cmd.pc \in CreateStep => /\ cmd.entity \in Entity /\ cmd.loaded \in Source
                                       /\ cmd.prev \in SnapshotFile
           /\ cmd.pc = "baseline" => /\ cmd.loaded \in [Entity -> Source]
                                     /\ cmd.todo \in SUBSET Entity
  BY DEF TypeOK, Command, Idle, CreateStep

\* A step of create after the plan, taken from one of its other steps.
LEMMA Stepped ==
    ASSUME TypeOK, cmd.pc \in CreateStep, NEW s \in CreateStep
    PROVE  [cmd EXCEPT !.pc = s] \in Command
  BY DEF TypeOK, Command, Idle, CreateStep

LEMMA SnapshotType ==
    ASSUME TypeOK, NEW e \in Entity
    PROVE  /\ snapshot[e] \in SnapshotFile
           /\ snapshot[e].state \in {"absent", "readable", "malformed"}
           /\ snapshot[e].of \in Model \cup {NoModel}
           /\ snapshot[e].frozen \in SUBSET Nat
           /\ snapshot[e].state = "readable" => snapshot[e].of \in Model
  BY DEF TypeOK, SnapshotFile

LEMMA FolderType ==
    ASSUME TypeOK, NEW i \in Folder
    PROVE  /\ folders[i] \in FolderRow
           /\ folders[i].entity \in Entity /\ folders[i].from \in Nat
           /\ folders[i].v1 \in Model /\ folders[i].v2 \in Model
<1>1. folders[i] \in FolderRow
  BY ElementOfSeq DEF TypeOK, Folder
<1> QED  BY <1>1 DEF FolderRow

\* v1 is rendered from a model.
LEMMA FromType ==
    ASSUME TypeOK, CommandAgrees, cmd.pc \in CreateStep
    PROVE  FromModel(cmd) \in Model
  BY CommandType, SnapshotType DEF CommandAgrees, FromModel, Source

LEMMA NewFolderType ==
    ASSUME TypeOK, CommandAgrees, cmd.pc \in CreateStep,
           NEW s \in {"partial", "complete", "removed"}
    PROVE  NewFolder(s) \in FolderRow
  BY FromType, CommandType DEF NewFolder, FolderRow, Source

LEMMA NotedType ==
    ASSUME TypeOK, NEW e \in Entity, NEW m PROVE NotedIf(e, m) \in SUBSET Entity
  BY DEF NotedIf, TypeOK

LEMMA TypeStep ==
    ASSUME TypeOK, CommandAgrees, [Next]_vars
    PROVE  TypeOK'
<1> USE DeployedAssumption
<1>1. ASSUME NEW e \in Entity, NEW m \in Model, Edit(e, m) PROVE TypeOK'
  BY <1>1 DEF TypeOK, Edit, Source
<1>2. ASSUME NEW e \in Entity, Restore(e) PROVE TypeOK'
  BY <1>2, SnapshotType DEF TypeOK, Restore, SnapshotFile
<1>3. ASSUME NEW e \in Entity, CreateLoad(e) PROVE TypeOK'
  BY <1>3 DEF TypeOK, CreateLoad, Command
<1>4. ASSUME NEW force \in BOOLEAN, CreatePlan(force) PROVE TypeOK'
  <2>1. cmd.entity \in Entity /\ cmd.loaded \in Source
    BY <1>4, CommandType DEF CreatePlan
  <2>2. snapshot[cmd.entity] \in SnapshotFile
    BY <2>1, SnapshotType
  <2>3. cmd' \in Command
    BY <1>4, <2>1, <2>2 DEF CreatePlan, Command, CreateStep
  <2> QED  BY <1>4, <2>3 DEF TypeOK, CreatePlan
<1>5. CASE CreateFolder
  <2>1. cmd.pc \in CreateStep
    BY <1>5 DEF CreateFolder, CreateStep
  <2>2. cmd' \in Command
    BY <1>5, <2>1, Stepped DEF CreateFolder, CreateStep
  <2>3. folders' \in Seq(FolderRow)
    BY <1>5, <2>1, NewFolderType, AppendProperties DEF CreateFolder, TypeOK
  <2> QED  BY <1>5, <2>2, <2>3 DEF TypeOK, CreateFolder
<1>6. CASE CreateBump
  <2>1. cmd.pc \in CreateStep
    BY <1>6 DEF CreateBump, CreateStep
  <2>2. cmd' \in Command
    BY <1>6, <2>1, Stepped DEF CreateBump, CreateStep
  <2>3. source[cmd.entity] \in Source
    BY <2>1, CommandType DEF TypeOK
  <2>4. [source[cmd.entity] EXCEPT !.version = @ + 1] \in Source
    BY <2>3 DEF Source
  <2>5. source' = [source EXCEPT ![cmd.entity] = [source[cmd.entity] EXCEPT !.version = @ + 1]]
    BY <1>6 DEF CreateBump
  <2>6. source' \in [Entity -> Source]
    BY <2>4, <2>5 DEF TypeOK
  <2> QED  BY <1>6, <2>2, <2>6 DEF TypeOK, CreateBump
<1>7. CASE CreateRefused
  <2>1. cmd' \in Command
    BY <1>7, Stepped DEF CreateRefused, CreateStep
  <2> QED  BY <1>7, <2>1 DEF TypeOK, CreateRefused
<1>8. CASE RemoveFolder
  <2>1. Len(folders) \in 1 .. Len(folders)
    BY <1>8 DEF RemoveFolder, CommandAgrees, TypeOK
  <2>2. [folders[Len(folders)] EXCEPT !.state = "removed"] \in FolderRow
    BY <2>1, FolderType DEF Folder, FolderRow
  <2>3. folders' = [folders EXCEPT ![Len(folders)] = [folders[Len(folders)] EXCEPT !.state = "removed"]]
    BY <1>8 DEF RemoveFolder
  <2>4. folders' \in Seq(FolderRow)
    BY <2>1, <2>2, <2>3, ExceptSeq DEF TypeOK
  <2> QED  BY <1>8, <2>4 DEF TypeOK, RemoveFolder, Command
<1>9. CASE CreateSnapshot
  <2>1. cmd.entity \in Entity /\ cmd.loaded.model \in Model /\ cmd.prev \in SnapshotFile
    BY <1>9, CommandType DEF CreateSnapshot, CreateStep, Source
  <2>2. Len(folders) \in Nat
    BY DEF TypeOK
  <2>3. [state |-> "readable", of |-> Recorded(cmd),
         frozen |-> cmd.prev.frozen \cup {Len(folders)}] \in SnapshotFile
    BY <2>1, <2>2 DEF Recorded, SnapshotFile
  <2>4. absorbed' \in SUBSET Entity
    BY <1>9, <2>1, NotedType DEF CreateSnapshot, TypeOK
  <2>5. snapshot' \in [Entity -> SnapshotFile]
        /\ \A e \in Entity : snapshot'[e].state = "readable" => snapshot'[e].of \in Model
    BY <1>9, <2>1, <2>3 DEF CreateSnapshot, TypeOK, Recorded
  <2> QED  BY <1>9, <2>4, <2>5 DEF TypeOK, CreateSnapshot, Command
<1>10. CASE BaselineLoad
  BY <1>10 DEF TypeOK, BaselineLoad, Command
<1>11. ASSUME NEW e \in Entity, BaselineEntity(e) PROVE TypeOK'
  <2>1. cmd.loaded \in [Entity -> Source] /\ cmd.todo \in SUBSET Entity /\ cmd.pc = "baseline"
    BY <1>11, CommandType DEF BaselineEntity
  <2>2. cmd' \in Command
    <3>1. [cmd EXCEPT !.todo = @ \ {e}] \in Command
      BY <2>1 DEF TypeOK, Command, Idle, CreateStep
    <3> QED  BY <1>11, <3>1 DEF BaselineEntity, Command
  <2>3. cmd.loaded[e].model \in Model
    BY <2>1 DEF Source
  <2>4. Baselined(snapshot[e], cmd.loaded[e].model) \in SnapshotFile
    BY <2>3, SnapshotType DEF Baselined, SnapshotFile
  <2>5. snapshot' \in [Entity -> SnapshotFile]
        /\ \A f \in Entity : snapshot'[f].state = "readable" => snapshot'[f].of \in Model
    BY <1>11, <2>3, <2>4 DEF BaselineEntity, TypeOK, Baselined
  <2>6. absorbed' \in SUBSET Entity
    BY <1>11, NotedType DEF BaselineEntity, TypeOK
  <2> QED  BY <1>11, <2>2, <2>5, <2>6 DEF TypeOK, BaselineEntity
<1>12. CASE Crash
  BY <1>12 DEF TypeOK, Crash, Command
<1>13. CASE CrashInFolder
  <2>1. folders' \in Seq(FolderRow)
    BY <1>13, NewFolderType, AppendProperties DEF CrashInFolder, CreateStep, TypeOK
  <2> QED  BY <1>13, <2>1 DEF TypeOK, CrashInFolder, Command
<1>14. ASSUME NEW e \in Entity, CrashInSnapshot(e) PROVE TypeOK'
  BY <1>14, SnapshotType DEF TypeOK, CrashInSnapshot, SnapshotFile, Command
<1>15. CASE UNCHANGED vars
  BY <1>15 DEF TypeOK, vars
<1> QED
  BY <1>1, <1>2, <1>3, <1>4, <1>5, <1>6, <1>7, <1>8, <1>9, <1>10, <1>11, <1>12, <1>13,
     <1>14, <1>15
  DEF Next, Create, Baseline, Dies, Develops

-----------------------------------------------------------------------------
(* What a step leaves of the record.                                         *)

LEMMA Least ==
    ASSUME NEW S \in SUBSET Nat, S # {}
    PROVE  \E x \in S : \A y \in S : x <= y
<1>1. \E x \in S : \A y \in S : ~(<<y, x>> \in OpToRel(<, Nat))
  BY WFMin, NatLessThanWellFounded
<1>2. \A x, y \in Nat : <<y, x>> \in OpToRel(<, Nat) <=> y < x
  BY DEF OpToRel
<1>3. PICK x \in S : \A y \in S : ~(<<y, x>> \in OpToRel(<, Nat))
  BY <1>1
<1>4. \A y \in S : ~(y < x)
  BY <1>2, <1>3
<1> QED  BY <1>4
\* By the distance from n.
LEMMA Greatest ==
    ASSUME NEW n \in Nat, NEW S \in SUBSET (1 .. n), S # {}
    PROVE  \E x \in S : \A y \in S : y <= x
<1> DEFINE T == {n - x : x \in S}
<1>1. T \in SUBSET Nat /\ T # {}
  <2>1. \A x \in S : n - x \in Nat
    OBVIOUS
  <2> QED  BY <2>1
<1>2. PICK t \in T : \A u \in T : t <= u
  BY <1>1, Least
<1>3. PICK x \in S : t = n - x
  BY <1>2
<1>4. \A y \in S : n - x <= n - y
  BY <1>2, <1>3
<1> QED  BY <1>4

LEMMA NewestIn ==
    ASSUME NEW n \in Nat, NEW S \in SUBSET (1 .. n), S # {}
    PROVE  Newest(S) \in S /\ \A j \in S : j <= Newest(S)
<1>1. \E x \in S : \A y \in S : y <= x
  BY Greatest
<1> QED  BY <1>1 DEF Newest

\* The greatest element is the newest.
LEMMA NewestIs ==
    ASSUME NEW S \in SUBSET Nat, NEW i \in S, \A j \in S : j <= i
    PROVE  Newest(S) = i
<1>1. Newest(S) \in S /\ \A j \in S : j <= Newest(S)
  BY DEF Newest
<1>2. Newest(S) \in Nat /\ i \in Nat /\ Newest(S) <= i /\ i <= Newest(S)
  BY <1>1
<1> QED  BY <1>2

\* The record of an entity is a set of folders.
LEMMA RecordType ==
    ASSUME TypeOK, RecordedInSequence, NEW e \in Entity
    PROVE  /\ Len(folders) \in Nat
           /\ snapshot[e].frozen \in SUBSET (1 .. Len(folders))
           /\ \A j \in snapshot[e].frozen : Before(e, j) \in SUBSET (1 .. Len(folders))
  BY DEF TypeOK, RecordedInSequence, Folder, Before

\* Nothing on record is overwritten: the one row a step changes is on nobody's.
LEMMA RowsKept ==
    ASSUME TypeOK, CommandAgrees, RecordedInSequence, [Next]_vars,
           NEW e \in Entity, NEW i \in snapshot[e].frozen
    PROVE  i \in Folder' /\ folders'[i] = folders[i]
<1>1. i \in 1 .. Len(folders) /\ folders \in Seq(FolderRow)
  BY DEF RecordedInSequence, Folder, TypeOK
<1>2. ASSUME NEW r \in FolderRow, folders' = Append(folders, r)
      PROVE  i \in Folder' /\ folders'[i] = folders[i]
  BY <1>1, <1>2, AppendProperties DEF Folder
<1>3. CASE CreateFolder
  BY <1>2, <1>3, NewFolderType DEF CreateFolder, CreateStep
<1>4. CASE CrashInFolder
  BY <1>2, <1>4, NewFolderType DEF CrashInFolder, CreateStep
<1>5. CASE RemoveFolder
  <2>1. i # Len(folders)
    BY <1>5 DEF RemoveFolder, CommandAgrees
  <2>2. folders' = [folders EXCEPT ![Len(folders)] = [folders[Len(folders)] EXCEPT !.state = "removed"]]
    BY <1>5 DEF RemoveFolder
  <2>3. DOMAIN folders' = DOMAIN folders /\ folders'[i] = folders[i]
    BY <1>1, <2>1, <2>2
  <2>4. Len(folders') = Len(folders)
    BY <1>1, <2>2, <2>3
  <2> QED  BY <1>1, <2>3, <2>4 DEF Folder
<1>6. CASE UNCHANGED folders
  BY <1>1, <1>6 DEF Folder
<1> QED
  BY <1>3, <1>4, <1>5, <1>6
  DEF Next, vars, Create, Baseline, Dies, Develops, Edit, Restore, CreateLoad, CreatePlan, CreateBump,
      CreateRefused, CreateSnapshot, BaselineLoad, BaselineEntity, Crash, CrashInSnapshot

LEMMA VersionsGrow ==
    ASSUME TypeOK, [Next]_vars, NEW e \in Entity
    PROVE  source'[e].version >= source[e].version
<1>1. source[e].version \in Nat /\ source[e] \in Source
  BY DEF TypeOK, Source
<1>2. ASSUME NEW f \in Entity, NEW m \in Model, Edit(f, m)
      PROVE  source'[e].version = source[e].version
  BY <1>1, <1>2 DEF Edit, TypeOK, Source
<1>3. CASE CreateBump
  <2>1. CASE e = cmd.entity
    <3>1. source'[e] = [source[e] EXCEPT !.version = @ + 1]
      BY <1>3, <2>1 DEF CreateBump, TypeOK
    <3>2. source'[e].version = source[e].version + 1
      BY <3>1, <1>1 DEF Source
    <3> QED  BY <3>2, <1>1
  <2>2. CASE e # cmd.entity
    BY <1>1, <1>3, <2>2 DEF CreateBump, TypeOK
  <2> QED  BY <2>1, <2>2
<1>4. CASE UNCHANGED source
  BY <1>1, <1>4
<1> QED
  BY <1>1, <1>2, <1>3, <1>4
  DEF Next, vars, Create, Baseline, Dies, Develops, Restore, CreateLoad, CreatePlan, CreateFolder,
      CreateRefused, RemoveFolder, CreateSnapshot, BaselineLoad, BaselineEntity, Crash,
      CrashInFolder, CrashInSnapshot

\* A snapshot changes in one of three ways: create takes the next migration on
\* record; baseline takes a model, noting a change no migration carries; or only
\* the file's state changes, for the same model.
LEMMA SnapshotStep ==
    ASSUME TypeOK, RecordAgrees, [Next]_vars, ~CreateSnapshot, NEW e \in Entity
    PROVE  /\ snapshot'[e].frozen = snapshot[e].frozen
           /\ absorbed \subseteq absorbed'
           /\ snapshot'[e].state = "absent" => snapshot'[e].of = NoModel
           /\ \/ snapshot'[e].of = snapshot[e].of
              \/ /\ snapshot'[e].of \in Model
                 /\ Shape(snapshot'[e].of) = Shape(Tip(e)) \/ e \in absorbed'
<1>1. snapshot[e] \in SnapshotFile /\ (snapshot[e].state = "absent" => snapshot[e].of = NoModel)
  BY SnapshotType DEF RecordAgrees
<1>2. CASE UNCHANGED <<snapshot, absorbed>>
  BY <1>1, <1>2
<1>3. ASSUME NEW f \in Entity, Restore(f)
      PROVE  /\ snapshot'[e].frozen = snapshot[e].frozen
             /\ absorbed' = absorbed
             /\ snapshot'[e].state = "absent" => snapshot'[e].of = NoModel
             /\ snapshot'[e].of = snapshot[e].of
  <2>1. CASE e = f
    BY <1>1, <1>3, <2>1 DEF Restore, TypeOK, SnapshotFile
  <2>2. CASE e # f
    BY <1>1, <1>3, <2>2 DEF Restore, TypeOK
  <2> QED  BY <2>1, <2>2
<1>4. ASSUME NEW f \in Entity, CrashInSnapshot(f)
      PROVE  /\ snapshot'[e].frozen = snapshot[e].frozen
             /\ absorbed' = absorbed
             /\ snapshot'[e].state = "absent" => snapshot'[e].of = NoModel
             /\ snapshot'[e].of = snapshot[e].of
  <2>1. CASE e = f
    BY <1>1, <1>4, <2>1 DEF CrashInSnapshot, TypeOK, SnapshotFile
  <2>2. CASE e # f
    BY <1>1, <1>4, <2>2 DEF CrashInSnapshot, TypeOK
  <2> QED  BY <2>1, <2>2
<1>5. ASSUME NEW f \in Entity, BaselineEntity(f), ~UNCHANGED <<snapshot, absorbed>>
      PROVE  /\ snapshot'[e].frozen = snapshot[e].frozen
             /\ absorbed \subseteq absorbed'
             /\ snapshot'[e].state = "absent" => snapshot'[e].of = NoModel
             /\ \/ snapshot'[e].of = snapshot[e].of
                \/ /\ snapshot'[e].of \in Model
                   /\ Shape(snapshot'[e].of) = Shape(Tip(e)) \/ e \in absorbed'
  <2> DEFINE m == cmd.loaded[f].model
  <2>1. m \in Model
    BY <1>5, CommandType DEF BaselineEntity, Source
  <2>2. snapshot' = [snapshot EXCEPT ![f] = Baselined(snapshot[f], m)] /\ absorbed' = NotedIf(f, m)
    BY <1>5 DEF BaselineEntity
  <2>3. absorbed \subseteq absorbed' /\ (Shape(m) = Shape(Tip(f)) \/ f \in absorbed')
    BY <2>2 DEF NotedIf
  <2>4. CASE e = f
    <3>1. snapshot'[e] = [state |-> "readable", of |-> m, frozen |-> snapshot[e].frozen]
      BY <2>2, <2>4 DEF Baselined, TypeOK
    <3> QED  BY <3>1, <2>1, <2>3, <2>4
  <2>5. CASE e # f
    BY <1>1, <2>2, <2>3, <2>5 DEF TypeOK
  <2> QED  BY <2>4, <2>5
<1> QED
  BY <1>2, <1>3, <1>4, <1>5
  DEF Next, vars, Create, Baseline, Dies, Develops, Edit, CreateLoad, CreatePlan, CreateFolder,
      CreateBump, CreateRefused, RemoveFolder, BaselineLoad, Crash, CrashInFolder

-----------------------------------------------------------------------------
(* The command under way.                                                    *)

\* The folder of a create is its own, and complete.
LEMMA FolderIsOwn ==
    ASSUME TypeOK, CommandAgrees, RecordedInSequence, CreateFolder
    PROVE  /\ cmd' = [cmd EXCEPT !.pc = "bump"]
           /\ Len(folders') # 0
           /\ folders'[Len(folders')] = Own(cmd')
           /\ \A e \in Entity : Len(folders') \notin snapshot'[e].frozen
<1>1. cmd.pc \in CreateStep /\ cmd' = [cmd EXCEPT !.pc = "bump"]
  BY DEF CreateFolder, CreateStep
<1>2. NewFolder("complete") \in FolderRow
  BY <1>1, NewFolderType
<1>3. /\ folders \in Seq(FolderRow)
      /\ Len(folders') = Len(folders) + 1
      /\ folders'[Len(folders) + 1] = NewFolder("complete")
  BY <1>2, AppendProperties DEF CreateFolder, TypeOK
<1>4. cmd \in [pc : CreateStep, entity : Entity, loaded : Source, prev : SnapshotFile]
  BY <1>1 DEF TypeOK, Command, Idle, CreateStep
<1>5. cmd'.entity = cmd.entity /\ cmd'.loaded = cmd.loaded /\ cmd'.prev = cmd.prev
  BY <1>1, <1>4
<1>6. NewFolder("complete") = Own(cmd')
  BY <1>5 DEF NewFolder, Own, FromModel
<1>7. Len(folders) \in Nat
  BY <1>3
<1>8. \A e \in Entity : Len(folders) + 1 \notin snapshot[e].frozen
  BY <1>7 DEF RecordedInSequence, Folder
<1> QED  BY <1>1, <1>3, <1>6, <1>7, <1>8 DEF CreateFolder

LEMMA CommandStep ==
    ASSUME TypeOK, CommandAgrees, RecordedInSequence, [Next]_vars
    PROVE  CommandAgrees'
<1>1. ASSUME NEW e \in Entity, NEW m \in Model, Edit(e, m) PROVE CommandAgrees'
  <2>1. \A f \in Entity : source'[f].version = source[f].version
    <3> TAKE f \in Entity
    <3>1. source[f] \in Source
      BY DEF TypeOK
    <3>2. CASE f = e
      BY <1>1, <3>1, <3>2 DEF Edit, TypeOK, Source
    <3>3. CASE f # e
      BY <1>1, <3>3 DEF Edit, TypeOK
    <3> QED  BY <3>2, <3>3
  <2>2. cmd.pc \in {"plan"} \cup CreateStep => cmd.entity \in Entity
    BY CommandType
  <2> QED  BY <1>1, <2>1, <2>2 DEF CommandAgrees, Edit, CreateStep, Own, FromModel
<1>2. ASSUME NEW e \in Entity, CreateLoad(e) PROVE CommandAgrees'
  BY <1>2 DEF CreateLoad, CommandAgrees, CreateStep
<1>3. ASSUME NEW force \in BOOLEAN, CreatePlan(force) PROVE CommandAgrees'
  BY <1>3 DEF CreatePlan, CommandAgrees, CreateStep, Idle
<1>4. CASE CreateFolder
  <2>1. cmd \in [pc : CreateStep, entity : Entity, loaded : Source, prev : SnapshotFile]
    BY <1>4 DEF CreateFolder, TypeOK, Command, Idle, CreateStep
  <2>2. cmd' = [cmd EXCEPT !.pc = "bump"]
    BY <1>4, FolderIsOwn
  <2>3. /\ cmd'.pc = "bump" /\ cmd'.entity = cmd.entity
        /\ cmd'.loaded = cmd.loaded /\ cmd'.prev = cmd.prev
    BY <2>1, <2>2
  <2>4. UNCHANGED <<source, snapshot>> /\ cmd.pc = "folder"
    BY <1>4 DEF CreateFolder
  <2> QED  BY <1>4, <2>3, <2>4, FolderIsOwn DEF CommandAgrees, CreateStep
<1>5. CASE CreateBump
  <2>1. cmd \in [pc : CreateStep, entity : Entity, loaded : Source, prev : SnapshotFile]
    BY <1>5 DEF CreateBump, TypeOK, Command, Idle, CreateStep
  <2>2. /\ cmd'.pc = "snapshot" /\ cmd'.entity = cmd.entity
        /\ cmd'.loaded = cmd.loaded /\ cmd'.prev = cmd.prev
    BY <1>5, <2>1 DEF CreateBump
  <2>3. UNCHANGED <<snapshot, folders>> /\ cmd.pc = "bump"
    BY <1>5 DEF CreateBump
  <2>4. source[cmd.entity] \in Source
    BY <2>1 DEF TypeOK
  <2>5. source'[cmd.entity].version = cmd.loaded.version + 1
    BY <1>5, <2>1, <2>4 DEF CreateBump, TypeOK, Source
  <2>6. \A i \in cmd.prev.frozen : folders[i].from < cmd.loaded.version
    BY <1>5, <2>1, <2>3 DEF CreateBump, CommandAgrees, RecordedInSequence, CreateStep
  <2> QED  BY <2>2, <2>3, <2>5, <2>6 DEF CommandAgrees, CreateStep, Own, FromModel
<1>6. CASE CreateRefused
  <2>1. cmd \in [pc : CreateStep, entity : Entity, loaded : Source, prev : SnapshotFile]
    BY <1>6 DEF CreateRefused, TypeOK, Command, Idle, CreateStep
  <2>2. /\ cmd'.pc = "refused" /\ cmd'.entity = cmd.entity
        /\ cmd'.loaded = cmd.loaded /\ cmd'.prev = cmd.prev
    BY <1>6, <2>1 DEF CreateRefused
  <2> QED  BY <1>6, <2>2 DEF CreateRefused, CommandAgrees, CreateStep, Own, FromModel
<1>7. ASSUME cmd' = Idle \/ cmd'.pc = "baseline" PROVE CommandAgrees'
  BY <1>7 DEF CommandAgrees, CreateStep, Idle
<1>8. ASSUME NEW e \in Entity, Restore(e) PROVE CommandAgrees'
  BY <1>7, <1>8 DEF Restore
<1>9. ASSUME NEW e \in Entity, BaselineEntity(e) PROVE CommandAgrees'
  <2>1. cmd' = Idle \/ cmd' = [cmd EXCEPT !.todo = @ \ {e}]
    BY <1>9 DEF BaselineEntity
  <2>2. cmd \in [pc : {"baseline"}, loaded : [Entity -> Source], todo : SUBSET Entity]
    BY <1>9 DEF BaselineEntity, TypeOK, Command, Idle, CreateStep
  <2>3. cmd' = Idle \/ cmd'.pc = "baseline"
    BY <2>1, <2>2
  <2> QED  BY <1>7, <2>3
<1>10. CASE UNCHANGED vars
  BY <1>10 DEF vars, CommandAgrees, Own, FromModel
<1> QED
  BY <1>1, <1>2, <1>3, <1>4, <1>5, <1>6, <1>7, <1>8, <1>9, <1>10
  DEF Next, Create, Baseline, Dies, Develops, RemoveFolder, CreateSnapshot, BaselineLoad, Crash,
      CrashInFolder, CrashInSnapshot

-----------------------------------------------------------------------------
(* The record.                                                               *)

\* A step that leaves an entity's migrations on record leaves where they lead.
LEMMA TipKept ==
    ASSUME RecordInv, [Next]_vars, NEW e \in Entity, snapshot'[e].frozen = snapshot[e].frozen
    PROVE  Tip(e)' = Tip(e)
<1>1. CASE snapshot[e].frozen = {}
  BY <1>1 DEF Tip
<1>2. CASE snapshot[e].frozen # {}
  <2>1. Newest(snapshot[e].frozen) \in snapshot[e].frozen
    BY <1>2, RecordType, NewestIn DEF RecordInv
  <2>2. folders'[Newest(snapshot[e].frozen)] = folders[Newest(snapshot[e].frozen)]
    BY <2>1, RowsKept DEF RecordInv
  <2> QED  BY <1>2, <2>2 DEF Tip
<1> QED  BY <1>1, <1>2

\* What the last step of create puts on record: its folder, newer than the rest.
LEMMA SnapshotWritten ==
    ASSUME RecordInv, CreateSnapshot
    PROVE  /\ cmd.entity \in Entity /\ cmd.prev = snapshot[cmd.entity]
           /\ UNCHANGED <<source, folders>>
           /\ snapshot'[cmd.entity].state = "readable"
           /\ snapshot'[cmd.entity].of = cmd.loaded.model /\ cmd.loaded.model \in Model
           /\ snapshot'[cmd.entity].frozen = snapshot[cmd.entity].frozen \cup {Len(folders)}
           /\ folders[Len(folders)] = Own(cmd)
           /\ Len(folders) \in Folder /\ Len(folders) \notin snapshot[cmd.entity].frozen
           /\ \A i \in snapshot[cmd.entity].frozen :
                 i \in Nat /\ i < Len(folders) /\ folders[i].from < cmd.loaded.version
           /\ cmd.loaded.version \in Nat
           /\ source[cmd.entity].version = cmd.loaded.version + 1
           /\ absorbed \subseteq absorbed'
           /\ \A e \in Entity \ {cmd.entity} : snapshot'[e] = snapshot[e]
<1>1. cmd.pc = "snapshot" /\ cmd.pc \in CreateStep
  BY DEF CreateSnapshot, CreateStep
<1>2. cmd.entity \in Entity /\ cmd.loaded \in Source /\ cmd.prev = snapshot[cmd.entity]
  BY <1>1, CommandType DEF RecordInv, CommandAgrees
<1>3. /\ snapshot' = [snapshot EXCEPT ![cmd.entity] =
                         [state |-> "readable", of |-> cmd.loaded.model,
                          frozen |-> cmd.prev.frozen \cup {Len(folders)}]]
      /\ UNCHANGED <<source, folders>>
  BY DEF CreateSnapshot, Recorded
<1>4. Len(folders) \in Nat /\ Len(folders) # 0 /\ folders[Len(folders)] = Own(cmd)
      /\ Len(folders) \notin snapshot[cmd.entity].frozen
  BY <1>1, <1>2 DEF RecordInv, CommandAgrees, TypeOK
<1>5. \A i \in snapshot[cmd.entity].frozen : i \in 1 .. Len(folders) /\ i # Len(folders)
  BY <1>2, <1>4 DEF RecordInv, RecordedInSequence, Folder
<1>6. absorbed \subseteq absorbed'
  BY DEF CreateSnapshot, NotedIf
<1>7. /\ \A i \in cmd.prev.frozen : folders[i].from < cmd.loaded.version
      /\ source[cmd.entity].version = cmd.loaded.version + 1
  BY <1>1 DEF RecordInv, CommandAgrees
<1>8. cmd.loaded.model \in Model /\ cmd.loaded.version \in Nat
  BY <1>2 DEF Source
<1>9. Len(folders) \in Folder
  BY <1>4 DEF Folder
<1>10. \A i \in snapshot[cmd.entity].frozen : i \in Nat /\ i < Len(folders)
  BY <1>4, <1>5
<1>11. /\ snapshot'[cmd.entity] = [state |-> "readable", of |-> cmd.loaded.model,
                                   frozen |-> cmd.prev.frozen \cup {Len(folders)}]
       /\ \A e \in Entity \ {cmd.entity} : snapshot'[e] = snapshot[e]
  BY <1>2, <1>3 DEF RecordInv, TypeOK
<1> QED  BY <1>2, <1>3, <1>4, <1>6, <1>7, <1>8, <1>9, <1>10, <1>11

\* Per entity: its record is left, or it is the one the command writes.
LEMMA RecordStep ==
    ASSUME RecordInv, [Next]_vars, NEW e \in Entity
    PROVE  \/ snapshot'[e].frozen = snapshot[e].frozen
           \/ CreateSnapshot /\ e = cmd.entity
  BY SnapshotStep, SnapshotWritten DEF RecordInv

LEMMA AgreesStep ==
    ASSUME RecordInv, [Next]_vars
    PROVE  RecordAgrees'
<1> SUFFICES ASSUME NEW e \in Entity
             PROVE  /\ snapshot'[e].state = "absent" => snapshot'[e].of = NoModel
                    /\ snapshot'[e].of = NoModel => snapshot'[e].frozen = {}
  BY DEF RecordAgrees
<1>1. /\ snapshot[e].of = NoModel => snapshot[e].frozen = {}
      /\ snapshot[e].state = "absent" => snapshot[e].of = NoModel
  BY DEF RecordInv, RecordAgrees
<1>2. CASE ~CreateSnapshot
  BY <1>1, <1>2, SnapshotStep, NoModelAssumption DEF RecordInv
<1>3. CASE CreateSnapshot
  BY <1>1, <1>3, SnapshotWritten, NoModelAssumption
<1> QED  BY <1>2, <1>3

LEMMA SequenceStep ==
    ASSUME RecordInv, [Next]_vars
    PROVE  RecordedInSequence'
<1> SUFFICES ASSUME NEW e \in Entity, NEW i \in snapshot'[e].frozen
             PROVE  /\ i \in Folder'
                    /\ folders'[i].state = "complete" /\ folders'[i].entity = e
                    /\ folders'[i].from < source'[e].version
                    /\ \A j \in snapshot'[e].frozen : i < j => folders'[i].from < folders'[j].from
  BY DEF RecordedInSequence
<1>1. TypeOK /\ CommandAgrees /\ RecordedInSequence
  BY DEF RecordInv
<1>2. CASE snapshot'[e].frozen = snapshot[e].frozen
  <2>1. \A j \in snapshot[e].frozen : j \in Folder' /\ folders'[j] = folders[j]
    BY <1>1, RowsKept
  <2>2. source'[e].version >= source[e].version
    BY <1>1, VersionsGrow
  <2>3. TypeOK'
    BY <1>1, TypeStep
  <2>4. source[e].version \in Nat /\ source'[e].version \in Nat /\ folders[i].from \in Nat
    BY <1>1, <1>2, <2>3, FolderType DEF TypeOK, Source, RecordedInSequence
  <2> QED  BY <1>1, <1>2, <2>1, <2>2, <2>4 DEF RecordedInSequence
<1>3. CASE CreateSnapshot /\ e = cmd.entity
  <2> DEFINE new == Len(folders)
  <2>1. /\ folders' = folders /\ source' = source
        /\ snapshot'[e].frozen = snapshot[e].frozen \cup {new}
        /\ new \in Folder /\ new \in Nat
        /\ \A j \in snapshot[e].frozen : j \in Nat /\ j < new /\ folders[j].from < cmd.loaded.version
        /\ source[e].version = cmd.loaded.version + 1 /\ cmd.loaded.version \in Nat
    BY <1>3, SnapshotWritten DEF Folder
  <2>2. folders[new].state = "complete" /\ folders[new].entity = e
        /\ folders[new].from = cmd.loaded.version
    BY <1>3, SnapshotWritten DEF Own
  <2>3. CASE i = new
    BY <2>1, <2>2, <2>3 DEF Folder
  <2>4. CASE i \in snapshot[e].frozen
    BY <1>1, <2>1, <2>2, <2>4 DEF RecordedInSequence, Folder
  <2> QED  BY <2>1, <2>3, <2>4
<1> QED  BY <1>2, <1>3, RecordStep

LEMMA DriftStep ==
    ASSUME RecordInv, [Next]_vars
    PROVE  DriftNeverLost'
<1> SUFFICES ASSUME NEW e \in Entity, snapshot'[e].of # NoModel, e \notin absorbed'
             PROVE  Shape(snapshot'[e].of) = Shape(Tip(e)')
  BY DEF DriftNeverLost
<1>1. CASE ~CreateSnapshot
  <2>1. Tip(e)' = Tip(e) /\ e \notin absorbed
    BY <1>1, TipKept, SnapshotStep DEF RecordInv
  <2> QED  BY <1>1, <2>1, SnapshotStep DEF RecordInv, DriftNeverLost
<1>2. CASE CreateSnapshot /\ e # cmd.entity
  <2>1. snapshot'[e] = snapshot[e] /\ e \notin absorbed
    BY <1>2, SnapshotWritten
  <2>2. Tip(e)' = Tip(e)
    BY <2>1, TipKept
  <2> QED  BY <2>1, <2>2 DEF RecordInv, DriftNeverLost
<1>3. CASE CreateSnapshot /\ e = cmd.entity
  <2> DEFINE new == Len(folders)  S == snapshot[e].frozen \cup {new}
  <2>1. /\ folders' = folders /\ snapshot'[e].frozen = S
        /\ new \in Nat /\ \A i \in snapshot[e].frozen : i \in Nat /\ i < new
        /\ folders[new] = Own(cmd) /\ snapshot'[e].of = cmd.loaded.model
    BY <1>3, SnapshotWritten DEF Folder
  <2>2. Newest(S) = new
    BY <2>1, NewestIs
  <2>3. Tip(e)' = folders[new].v2
    BY <2>1, <2>2 DEF Tip
  <2> QED  BY <2>1, <2>3 DEF Own
<1> QED  BY <1>1, <1>2, <1>3

\* The newest migration starts from the snapshot's shape, or from the deployed one.
LEMMA NewestJoins ==
    ASSUME RecordInv, CreateSnapshot, cmd.entity \notin absorbed'
    PROVE  Shape(FromModel(cmd)) = Shape(Tip(cmd.entity))
<1>1. cmd.entity \in Entity /\ cmd.prev = snapshot[cmd.entity] /\ absorbed \subseteq absorbed'
  BY SnapshotWritten
<1>2. CASE cmd.prev.state = "absent"
  BY <1>2 DEF CreateSnapshot, NotedIf
<1>3. CASE cmd.prev.state # "absent"
  <2>1. cmd.prev.state # "malformed"
    BY DEF RecordInv, CommandAgrees, CreateSnapshot, CreateStep
  <2>2. snapshot[cmd.entity].of \in Model
    BY <1>1, <1>3, <2>1, SnapshotType DEF RecordInv
  <2>3. Shape(snapshot[cmd.entity].of) = Shape(Tip(cmd.entity))
    BY <1>1, <2>2, NoModelAssumption DEF RecordInv, DriftNeverLost
  <2> QED  BY <1>1, <1>3, <2>3 DEF FromModel
<1> QED  BY <1>2, <1>3

LEMMA JoinStep ==
    ASSUME RecordInv, [Next]_vars
    PROVE  RecordedJoin'
<1> SUFFICES ASSUME NEW e \in Entity, e \notin absorbed', NEW j \in snapshot'[e].frozen
             PROVE  LET before == {i \in snapshot'[e].frozen : i < j}
                    IN  Shape(folders'[j].v1) = Shape(IF before = {} THEN Deployed[e]
                                                      ELSE folders'[Newest(before)].v2)
  BY DEF RecordedJoin
<1> DEFINE Joined == LET before == {i \in snapshot'[e].frozen : i < j}
                     IN  Shape(folders'[j].v1) = Shape(IF before = {} THEN Deployed[e]
                                                       ELSE folders'[Newest(before)].v2)
<1>0. e \notin absorbed
  BY SnapshotStep, SnapshotWritten DEF RecordInv
\* An older migration: it and the one before it are left as they are.
<1>1. ASSUME j \in snapshot[e].frozen,
             {i \in snapshot'[e].frozen : i < j} = Before(e, j)
      PROVE  Joined
  <2>1. Shape(folders[j].v1) = Shape(IF Before(e, j) = {} THEN Deployed[e]
                                     ELSE folders[Newest(Before(e, j))].v2)
    BY <1>0, <1>1 DEF RecordInv, RecordedJoin, Before
  <2>2. folders'[j] = folders[j]
    BY <1>1, RowsKept DEF RecordInv
  <2>3. ASSUME Before(e, j) # {}
        PROVE  folders'[Newest(Before(e, j))] = folders[Newest(Before(e, j))]
    <3>1. Newest(Before(e, j)) \in Before(e, j)
      BY <1>1, <2>3, RecordType, NewestIn DEF RecordInv
    <3> QED  BY <3>1, RowsKept DEF RecordInv, Before
  <2> QED  BY <1>1, <2>1, <2>2, <2>3
<1>2. CASE snapshot'[e].frozen = snapshot[e].frozen
  BY <1>1, <1>2 DEF Before
<1>3. CASE CreateSnapshot /\ e = cmd.entity
  <2> DEFINE new == Len(folders)  old == snapshot[e].frozen
  <2>1. /\ folders' = folders /\ snapshot'[e].frozen = old \cup {new}
        /\ new \in Nat /\ \A i \in old : i \in Nat /\ i < new
        /\ folders[new] = Own(cmd)
    BY <1>3, SnapshotWritten DEF Folder
  <2>2. CASE j \in old
    <3>1. {i \in snapshot'[e].frozen : i < j} = Before(e, j)
      BY <2>1, <2>2 DEF Before
    <3> QED  BY <1>1, <2>2, <3>1
  <2>3. CASE j = new
    <3>1. {i \in snapshot'[e].frozen : i < j} = old
      BY <2>1, <2>3
    <3>2. folders'[j].v1 = FromModel(cmd)
      BY <2>1, <2>3 DEF Own
    <3>3. Shape(FromModel(cmd)) = Shape(Tip(e))
      BY <1>3, NewestJoins
    <3> QED  BY <2>1, <3>1, <3>2, <3>3 DEF Tip
  <2> QED  BY <2>1, <2>2, <2>3
<1> QED  BY <1>2, <1>3, RecordStep

LEMMA RecordInit == Init => RecordInv
<1> USE DeployedAssumption, NoModelAssumption
<1> SUFFICES ASSUME Init PROVE RecordInv
  OBVIOUS
<1>1. \A e \in Entity : snapshot[e] = [state |-> "absent", of |-> NoModel, frozen |-> {}]
  BY DEF Init
<1>2. cmd = Idle /\ cmd.pc = "idle"
  BY DEF Init, Idle
<1>3. TypeOK
  <2>1. source \in [Entity -> Source]
    BY DEF Init, Source
  <2>2. snapshot \in [Entity -> SnapshotFile]
    BY DEF Init, SnapshotFile
  <2>3. folders \in Seq(FolderRow) /\ absorbed \in SUBSET Entity
    BY DEF Init
  <2>4. cmd \in Command
    BY <1>2 DEF Command
  <2>5. \A e \in Entity : snapshot[e].state # "readable"
    BY <1>1
  <2> QED  BY <2>1, <2>2, <2>3, <2>4, <2>5 DEF TypeOK
<1>4. CommandAgrees
  BY <1>2 DEF CommandAgrees, CreateStep
<1>5. RecordAgrees /\ RecordedInSequence /\ DriftNeverLost /\ RecordedJoin
  BY <1>1 DEF RecordAgrees, RecordedInSequence, DriftNeverLost, RecordedJoin
<1> QED  BY <1>3, <1>4, <1>5 DEF RecordInv

LEMMA RecordInductive == RecordInv /\ [Next]_vars => RecordInv'
<1> SUFFICES ASSUME RecordInv, [Next]_vars PROVE RecordInv'
  OBVIOUS
<1>1. TypeOK' /\ CommandAgrees'
  BY TypeStep, CommandStep DEF RecordInv
<1> QED  BY <1>1, AgreesStep, SequenceStep, DriftStep, JoinStep DEF RecordInv

THEOREM RecordHolds == Spec => []RecordInv
  BY RecordInit, RecordInductive, PTL DEF Spec

-----------------------------------------------------------------------------
(* The theorems.                                                             *)

\* The files and the command under way keep their types.
THEOREM WorkspaceTypeOK == Spec => []TypeOK
<1>1. RecordInv => TypeOK
  BY DEF RecordInv
<1> QED  BY <1>1, RecordHolds, PTL

\* The migrations on record are complete, are their entity's and go up one
\* version after the other, whatever crashes and edits come between create's
\* writes: the folder is written before the bump and the record after it.
THEOREM RecordedInSequenceHolds == Spec => []RecordedInSequence
<1>1. RecordInv => RecordedInSequence
  BY DEF RecordInv
<1> QED  BY <1>1, RecordHolds, PTL

\* As long as baseline has not been run over a change, the snapshot that create
\* compares a source with has the shape its migrations lead to.
THEOREM DriftNeverLostHolds == Spec => []DriftNeverLost
<1>1. RecordInv => DriftNeverLost
  BY DEF RecordInv
<1> QED  BY <1>1, RecordHolds, PTL

\* The migrations on record join, the first of them to what was deployed.
THEOREM RecordedJoinHolds == Spec => []RecordedJoin
<1>1. RecordInv => RecordedJoin
  BY DEF RecordInv
<1> QED  BY <1>1, RecordHolds, PTL

\* Nothing is taken off the record: neither create nor baseline forgets a frozen
\* migration (SNP-03).
THEOREM RecordIsKeptHolds == Spec => RecordIsKept
<1>1. RecordInv /\ [Next]_vars
         => [\A e \in Entity : snapshot[e].frozen \subseteq snapshot'[e].frozen]_vars
  <2> SUFFICES ASSUME RecordInv, [Next]_vars, NEW e \in Entity
               PROVE  snapshot[e].frozen \subseteq snapshot'[e].frozen
    OBVIOUS
  <2> QED  BY RecordStep, SnapshotWritten
<1> QED  BY <1>1, RecordHolds, PTL DEF Spec, RecordIsKept

LEMMA KnownWellFormed == ASSUME NEW m \in Known PROVE WellFormed(Definition[m])
  BY DefinitionAssumption DEF Known

LEMMA DriftOfPair ==
    ASSUME NEW m \in Known, NEW n \in Known
    PROVE  DriftOf[m][n] = ComputeDrift(Project(Definition[m]), Project(Definition[n]))
  BY DEF DriftOf, Shape

LEMMA AllExact == Exact = Known
<1> SUFFICES ASSUME NEW m \in Known, NEW n \in Known
             PROVE  DriftOf[m][n] = {} /\ Definition[m].service = Definition[n].service
                       <=> Fingerprint(Definition[m]) = Fingerprint(Definition[n])
  BY DEF Exact
<1> QED  BY DriftOfPair, DriftExact

LEMMA AllSeen == Seen = Known
<1> SUFFICES ASSUME NEW m \in Known, NEW n \in Known
             PROVE  /\ (DriftOf[m][n] = {} /\ Definition[m].service = Definition[n].service)
                          => SameRecords(Definition[m], Definition[n])
                    /\ OnlyBehaviour(Definition[m], Definition[n]) => DriftOf[m][n] = {}
  BY DEF Seen
<1> QED  BY DriftOfPair, DriftOfShape

LEMMA AllRenamesExact == RenamesExact = Known
<1> SUFFICES ASSUME NEW m \in Known, NEW n \in Known
             PROVE  {d \in DriftOf[m][n] : d.kind = "key-rename"}
                       = NamedDrift("key-rename", RenamesOf(m, n))
  BY DEF RenamesExact
<1>1. DOMAIN Shape(m).indexes = DOMAIN Definition[m].indexes
      /\ DOMAIN Shape(n).indexes = DOMAIN Definition[n].indexes
  BY DEF Shape, Project
<1>2. RenamesOf(m, n) = {k \in DOMAIN Definition[m].indexes \cap DOMAIN Definition[n].indexes :
          OneReplaced(Project(Definition[m]).indexes[k], Project(Definition[n]).indexes[k])}
  BY <1>1 DEF RenamesOf, Shape
<1>3. {d \in ComputeDrift(Project(Definition[m]), Project(Definition[n])) : d.kind = "key-rename"}
        = NamedDrift("key-rename", RenamesOf(m, n))
  BY <1>2, KnownWellFormed, RenamesReported
<1> QED  BY <1>3, DriftOfPair

LEMMA SnapshotKnown ==
    ASSUME TypeOK, NEW e \in Entity, snapshot[e].of # NoModel
    PROVE  snapshot[e].of \in Known
  BY SnapshotType, ModelAssumption DEF Known

\* From whatever snapshot create starts, it finds a drift exactly when the
\* fingerprints that baseline and buildCtx compare differ, the service apart.
THEOREM DriftIsExactHolds == Spec => []DriftIsExact
<1>1. RecordInv => DriftIsExact
  BY AllExact, SnapshotKnown DEF RecordInv, DriftIsExact
<1> QED  BY <1>1, RecordHolds, PTL

\* It sees every change of what a service's records are stored as, and no change
\* of behaviour alone.
THEOREM ShapeIsSeenHolds == Spec => []ShapeIsSeen
<1>1. RecordInv => ShapeIsSeen
  BY AllSeen, SnapshotKnown DEF RecordInv, ShapeIsSeen
<1> QED  BY <1>1, RecordHolds, PTL

\* And calls it a key rename exactly when one element of one key was replaced.
THEOREM RenameIsReplacementHolds == Spec => []RenameIsReplacement
<1>1. RecordInv => RenameIsReplacement
  BY AllRenamesExact, SnapshotKnown DEF RecordInv, RenameIsReplacement
<1> QED  BY <1>1, RecordHolds, PTL

=============================================================================
