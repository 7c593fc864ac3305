-------------------------- MODULE ReadsGateProofs --------------------------
(***************************************************************************)
(* What a migration meets when it is applied and what it reads, for every   *)
(* set of entities, models and reads and any number of folders.             *)
(*                                                                         *)
(* The migrations of an entity stand in a line: those on record and, last,  *)
(* the one of a create under way.  Each starts where the one before it      *)
(* ends, they leave `pending` in that order, and the records of the entity  *)
(* stand where the last migration ends before which none is missing.  All   *)
(* this of an entity with a Clean history: no change baselined away and no  *)
(* folder left behind by a create that died or gave up.                     *)
(***************************************************************************)
EXTENDS ReadsGate, WorkspaceProofs

\* The folder of a create of e that has not reached the record.
InFlight(e) == IF cmd.pc \in {"bump", "refused", "snapshot"} /\ cmd.entity = e
               THEN {Len(folders)} ELSE {}

Line(e) == snapshot[e].frozen \cup InFlight(e)

\* Of a set of migrations, those before which, and which, none is missing.
SettledPrefix(S, st) == {i \in S : \A j \in S : j <= i => st[j] \in Settled}

Done(e) == SettledPrefix(Line(e), status)

\* Version and model after the migrations of S.
VersionAfter(S)  == IF S = {} THEN 1 ELSE To(Newest(S))
ModelAfter(e, S) == IF S = {} THEN Deployed[e] ELSE folders[Newest(S)].v2

Joins(e) == Shape(FromModel(cmd)) = Shape(Tip(e))

\* A create under way may still be taken back, unless it has been applied.
Clean(e) ==
    /\ e \notin absorbed
    /\ \A i \in Folder :
          (folders[i].entity = e /\ (folders[i].state = "complete" \/ status[i] # "none"))
              => i \in Line(e)
    /\ \A i \in InFlight(e) : status[i] # "none" => Joins(e)

VersionsFollow(e) ==
    /\ \A i \in snapshot[e].frozen : folders[i].from = VersionAfter(Before(e, i))
    /\ IF cmd.pc = "snapshot" /\ cmd.entity = e
       THEN cmd.loaded.version = VersionAfter(snapshot[e].frozen)
       ELSE source[e].version = VersionAfter(snapshot[e].frozen)

InOrder(e) ==
    \A i, k \in Line(e) : (i < k /\ status[i] = "none") => status[k] = "none"

DiskFollows(e) ==
    /\ disk[e].version = VersionAfter(Done(e))
    /\ Shape(disk[e].of) = Shape(ModelAfter(e, Done(e)))

Numbered ==
    /\ Len(folders) <= MaxFolders
    /\ \A i \in (1 .. MaxFolders) \ Folder : status[i] = "none"

GateInv ==
    /\ RecordInv
    /\ GateTypeOK
    /\ Numbered
    /\ \A e \in Entity : Clean(e) => VersionsFollow(e) /\ InOrder(e) /\ DiskFollows(e)

-----------------------------------------------------------------------------
(* Prefixes.                                                                 *)

LEMMA PrefixEnds ==
    ASSUME NEW S \in SUBSET Nat, NEW st, NEW i \in S, st[i] \notin Settled,
           \A j \in S : j < i => st[j] \in Settled
    PROVE  SettledPrefix(S, st) = {j \in S : j < i}
<1>1. ASSUME NEW j \in SettledPrefix(S, st) PROVE j < i
  <2>1. j \in Nat /\ i \in Nat /\ ~(i <= j)
    BY <1>1 DEF SettledPrefix
  <2> QED  BY <2>1
<1>2. ASSUME NEW j \in S, j < i PROVE j \in SettledPrefix(S, st)
  <2>1. ASSUME NEW k \in S, k <= j PROVE st[k] \in Settled
    <3>1. k \in Nat /\ j \in Nat /\ i \in Nat /\ k < i
      BY <1>2, <2>1
    <3> QED  BY <3>1
  <2> QED  BY <1>2, <2>1 DEF SettledPrefix
<1> QED  BY <1>1, <1>2 DEF SettledPrefix

LEMMA PrefixUpTo ==
    ASSUME NEW S \in SUBSET Nat, NEW st, NEW i \in S,
           \A j \in S : j <= i => st[j] \in Settled,
           \A k \in S : i < k => st[k] \notin Settled
    PROVE  SettledPrefix(S, st) = {j \in S : j < i} \cup {i}
<1>1. ASSUME NEW j \in SettledPrefix(S, st) PROVE j <= i
  <2>1. j \in Nat /\ i \in Nat /\ st[j] \in Settled /\ ~(i < j)
    BY <1>1 DEF SettledPrefix
  <2> QED  BY <2>1
<1>2. ASSUME NEW j \in S, j <= i PROVE j \in SettledPrefix(S, st)
  <2>1. ASSUME NEW k \in S, k <= j PROVE st[k] \in Settled
    <3>1. k \in Nat /\ j \in Nat /\ i \in Nat /\ k <= i
      BY <1>2, <2>1
    <3> QED  BY <3>1
  <2> QED  BY <1>2, <2>1 DEF SettledPrefix
<1>3. \A j \in S : j <= i <=> j < i \/ j = i
  OBVIOUS
<1> QED  BY <1>1, <1>2, <1>3 DEF SettledPrefix

\* A change elsewhere, behind a missing one, or from settled to settled makes no
\* difference.
LEMMA PrefixSame ==
    ASSUME NEW S \in SUBSET Nat, NEW st, NEW new, NEW i,
           \A j \in S : j # i => new[j] = st[j],
           \/ i \notin S
           \/ new[i] \in Settled <=> st[i] \in Settled
           \/ i \in Nat /\ \E j \in S : j < i /\ st[j] \notin Settled
    PROVE  SettledPrefix(S, new) = SettledPrefix(S, st)
<1>1. CASE i \notin S \/ (new[i] \in Settled <=> st[i] \in Settled)
  <2>1. \A j \in S : new[j] \in Settled <=> st[j] \in Settled
    BY <1>1
  <2> QED  BY <2>1 DEF SettledPrefix
<1>2. ASSUME i \in Nat, NEW j \in S, j < i, st[j] \notin Settled
      PROVE  SettledPrefix(S, new) = SettledPrefix(S, st)
  <2>1. j # i /\ new[j] \notin Settled
    BY <1>2
  <2>2. \A k \in SettledPrefix(S, st) \cup SettledPrefix(S, new) : k < j
    <3> SUFFICES ASSUME NEW k \in S, ~(k < j)
                 PROVE  k \notin SettledPrefix(S, st) /\ k \notin SettledPrefix(S, new)
      BY DEF SettledPrefix
    <3>1. j <= k
      OBVIOUS
    <3> QED  BY <1>2, <2>1, <3>1 DEF SettledPrefix
  <2>3. \A k \in S : k < j => \A l \in S : l <= k => new[l] = st[l]
    <3> SUFFICES ASSUME NEW k \in S, k < j, NEW l \in S, l <= k PROVE new[l] = st[l]
      OBVIOUS
    <3>1. l # i
      BY <1>2
    <3> QED  BY <3>1
  <2>4. \A k \in S : k < j => (k \in SettledPrefix(S, new) <=> k \in SettledPrefix(S, st))
    BY <2>3 DEF SettledPrefix
  <2>5. SettledPrefix(S, new) \subseteq S /\ SettledPrefix(S, st) \subseteq S
    BY DEF SettledPrefix
  <2> QED  BY <2>2, <2>4, <2>5
<1> QED  BY <1>1, <1>2

\* Nor does one more at the end that is not settled.
LEMMA PrefixMore ==
    ASSUME NEW S \in SUBSET Nat, NEW st, NEW n \in Nat, \A i \in S : i < n,
           st[n] \notin Settled
    PROVE  SettledPrefix(S \cup {n}, st) = SettledPrefix(S, st)
<1>1. n \notin SettledPrefix(S \cup {n}, st)
  BY DEF SettledPrefix
<1>2. \A i \in S : ~(n <= i)
  OBVIOUS
<1> QED  BY <1>1, <1>2 DEF SettledPrefix

-----------------------------------------------------------------------------
(* The line of an entity.                                                    *)

LEMMA LineType ==
    ASSUME GateInv, NEW e \in Entity
    PROVE  /\ Len(folders) \in Nat /\ Folder = 1 .. Len(folders)
           /\ Line(e) \in SUBSET (1 .. Len(folders))
           /\ Line(e) \in SUBSET Nat
           /\ \A i \in InFlight(e) :
                 /\ i = Len(folders) /\ i \notin snapshot[e].frozen
                 /\ folders[i] = Own(cmd) /\ cmd.entity = e
                 /\ cmd.pc \in {"bump", "refused", "snapshot"}
<1>1. Len(folders) \in Nat /\ snapshot[e].frozen \in SUBSET (1 .. Len(folders))
  BY RecordType DEF GateInv, RecordInv
<1>2. ASSUME NEW i \in InFlight(e)
      PROVE  /\ i = Len(folders) /\ i # 0 /\ i \notin snapshot[e].frozen
             /\ folders[i] = Own(cmd) /\ cmd.entity = e
             /\ cmd.pc \in {"bump", "refused", "snapshot"}
  BY <1>2 DEF InFlight, GateInv, RecordInv, CommandAgrees
<1>3. InFlight(e) \in SUBSET (1 .. Len(folders))
  BY <1>1, <1>2
<1> QED  BY <1>1, <1>2, <1>3 DEF Line, Folder

LEMMA LineRows ==
    ASSUME GateInv, NEW e \in Entity, NEW i \in Line(e)
    PROVE  /\ i \in Folder /\ folders[i] \in FolderRow
           /\ folders[i].entity = e /\ folders[i].state = "complete"
           /\ folders[i].from \in Nat /\ To(i) = folders[i].from + 1
<1>1. i \in Folder /\ folders[i] \in FolderRow /\ folders[i].from \in Nat
  BY LineType, FolderType DEF GateInv, RecordInv, Folder
<1>2. CASE i \in snapshot[e].frozen
  BY <1>1, <1>2 DEF GateInv, RecordInv, RecordedInSequence, To
<1>3. CASE i \in InFlight(e)
  BY <1>1, <1>3, LineType DEF Own, To
<1> QED  BY <1>2, <1>3 DEF Line

\* Later folders start from later versions.
LEMMA LineGrows ==
    ASSUME GateInv, NEW e \in Entity, NEW i \in Line(e), NEW k \in Line(e), i < k
    PROVE  folders[i].from < folders[k].from
<1>1. i \in snapshot[e].frozen
  BY LineType DEF Line
<1>2. CASE k \in snapshot[e].frozen
  BY <1>1, <1>2 DEF GateInv, RecordInv, RecordedInSequence
<1>3. CASE k \in InFlight(e)
  <2>1. /\ folders[k].from = cmd.loaded.version /\ cmd.entity = e
        /\ cmd.pc \in {"bump", "refused", "snapshot"}
    BY <1>3, LineType DEF Own
  <2>2. CASE cmd.pc = "snapshot"
    <3>1. cmd.prev = snapshot[e]
      BY <2>1, <2>2 DEF GateInv, RecordInv, CommandAgrees, CreateStep
    <3> QED  BY <1>1, <2>1, <2>2, <3>1 DEF GateInv, RecordInv, CommandAgrees
  <2>3. CASE cmd.pc # "snapshot"
    <3>1. source[e].version = cmd.loaded.version
      BY <2>1, <2>3 DEF GateInv, RecordInv, CommandAgrees
    <3>2. folders[i].from < source[e].version
      BY <1>1 DEF GateInv, RecordInv, RecordedInSequence
    <3> QED  BY <2>1, <3>1, <3>2
  <2> QED  BY <2>2, <2>3
<1> QED  BY <1>2, <1>3 DEF Line

\* Each starts at the version the one before it ends at.
LEMMA LineFollows ==
    ASSUME GateInv, NEW e \in Entity, Clean(e), NEW i \in Line(e)
    PROVE  /\ {j \in Line(e) : j < i} = Before(e, i)
           /\ folders[i].from = VersionAfter(Before(e, i))
<1>1. VersionsFollow(e)
  BY DEF GateInv
<1>2. {j \in Line(e) : j < i} = Before(e, i)
  BY LineType DEF Line, Before
<1>3. CASE i \in snapshot[e].frozen
  BY <1>1, <1>2, <1>3 DEF VersionsFollow
<1>4. CASE i \in InFlight(e)
  <2>1. /\ folders[i].from = cmd.loaded.version /\ cmd.entity = e
        /\ cmd.pc \in {"bump", "refused", "snapshot"}
        /\ i = Len(folders) /\ i \notin snapshot[e].frozen
    BY <1>4, LineType DEF Own
  <2>2. Before(e, i) = snapshot[e].frozen
    <3>1. \A j \in snapshot[e].frozen : j \in 1 .. i /\ j # i
      BY <2>1, LineType DEF Line
    <3>2. i \in Nat
      BY LineType
    <3> QED  BY <3>1, <3>2 DEF Before
  <2>3. cmd.loaded.version = VersionAfter(snapshot[e].frozen)
    BY <1>1, <2>1 DEF VersionsFollow, GateInv, RecordInv, CommandAgrees
  <2> QED  BY <1>2, <2>1, <2>2, <2>3
<1> QED  BY <1>3, <1>4 DEF Line

\* And from the shape, if it is on record or its v1 has the shape recorded last.
LEMMA LineJoins ==
    ASSUME GateInv, NEW e \in Entity, Clean(e), NEW i \in Line(e),
           i \in InFlight(e) => Joins(e)
    PROVE  Shape(folders[i].v1) = Shape(ModelAfter(e, Before(e, i)))
<1>1. CASE i \in snapshot[e].frozen
  BY <1>1 DEF Clean, GateInv, RecordInv, RecordedJoin, Before, ModelAfter
<1>2. CASE i \in InFlight(e)
  <2>1. folders[i].v1 = FromModel(cmd) /\ i = Len(folders) /\ i \notin snapshot[e].frozen
    BY <1>2, LineType DEF Own
  <2>2. Before(e, i) = snapshot[e].frozen
    <3>1. \A j \in snapshot[e].frozen : j \in 1 .. i /\ j # i
      BY <2>1, LineType DEF Line
    <3>2. i \in Nat
      BY LineType
    <3> QED  BY <3>1, <3>2 DEF Before
  <2> QED  BY <1>2, <2>1, <2>2 DEF Joins, Tip, ModelAfter
<1> QED  BY <1>1, <1>2 DEF Line

\* No version is as low as the deployed one's but that.
LEMMA VersionAfterType ==
    ASSUME GateInv, NEW e \in Entity, NEW S \in SUBSET Line(e)
    PROVE  VersionAfter(S) \in Nat /\ VersionAfter(S) >= 1
<1>1. CASE S = {}
  BY <1>1 DEF VersionAfter
<1>2. CASE S # {}
  <2>1. Newest(S) \in Line(e)
    BY <1>2, LineType, NewestIn
  <2> QED  BY <1>2, <2>1, LineRows DEF VersionAfter
<1> QED  BY <1>1, <1>2

\* Where one is missing, the records stand at its version at most.
LEMMA StandsBelow ==
    ASSUME GateInv, NEW e \in Entity, Clean(e), NEW j \in Line(e), status[j] \notin Settled
    PROVE  disk[e].version <= folders[j].from
<1>1. disk[e].version = VersionAfter(Done(e)) /\ Done(e) \in SUBSET Line(e)
  BY DEF GateInv, DiskFollows, Done, SettledPrefix
<1>2. CASE Done(e) = {}
  <2>1. folders[j].from = VersionAfter(Before(e, j)) /\ Before(e, j) \in SUBSET Line(e)
    BY LineFollows
  <2> QED  BY <1>1, <1>2, <2>1, VersionAfterType DEF VersionAfter
<1>3. CASE Done(e) # {}
  <2> DEFINE n == Newest(Done(e))
  <2>1. n \in Done(e) /\ n \in Line(e)
    BY <1>1, <1>3, LineType, NewestIn
  <2>2. ~(j <= n)
    BY <2>1 DEF Done, SettledPrefix
  <2>3. n < j
    BY <2>1, <2>2, LineType
  <2>4. folders[n].from < folders[j].from /\ To(n) = folders[n].from + 1
        /\ folders[n].from \in Nat /\ folders[j].from \in Nat
    BY <2>1, <2>3, LineGrows, LineRows
  <2>5. VersionAfter(Done(e)) = To(n)
    BY <1>3 DEF VersionAfter
  <2> QED  BY <1>1, <2>4, <2>5
<1> QED  BY <1>2, <1>3

-----------------------------------------------------------------------------
(* A step of the workspace.                                                  *)

LEMMA AbsorbedStep ==
    ASSUME RecordInv, [Next]_vars, NEW e \in Entity
    PROVE  absorbed \subseteq absorbed'
  BY SnapshotStep, SnapshotWritten DEF RecordInv

\* Folders, record and the create of e are left as they are.
LEMMA LineLeft ==
    ASSUME GateInv, [Next]_vars, UNCHANGED gateVars, NEW e \in Entity, Clean(e)',
           UNCHANGED folders, snapshot'[e].frozen = snapshot[e].frozen,
           InFlight(e)' = InFlight(e),
           InFlight(e) # {} => FromModel(cmd') = FromModel(cmd)
    PROVE  Clean(e) /\ Line(e)' = Line(e)
<1>1. Line(e)' = Line(e) /\ Folder' = Folder /\ status' = status
  BY DEF Line, Folder, gateVars
<1>2. Tip(e)' = Tip(e) /\ absorbed \subseteq absorbed'
  BY TipKept, AbsorbedStep DEF GateInv
<1>3. InFlight(e) # {} => (Joins(e)' <=> Joins(e))
  BY <1>2 DEF Joins
<1> QED  BY <1>1, <1>2, <1>3 DEF Clean

\* The command ends with its folder complete and not on record.
LEMMA LeftBehind ==
    ASSUME GateInv, NEW e \in Entity, InFlight(e) # {}, UNCHANGED folders,
           snapshot'[e].frozen = snapshot[e].frozen, cmd' = Idle
    PROVE  ~Clean(e)'
<1>1. InFlight(e) = {Len(folders)} /\ Len(folders) \in InFlight(e) /\ Len(folders) \in Line(e)
  BY DEF InFlight, Line
<1>2. /\ Len(folders) \in Folder /\ folders[Len(folders)].entity = e
      /\ folders[Len(folders)].state = "complete" /\ Len(folders) \notin snapshot[e].frozen
  BY <1>1, LineRows, LineType
<1>3. Len(folders) \notin Line(e)'
  BY <1>2 DEF Line, InFlight, Idle
<1> QED  BY <1>2, <1>3 DEF Clean, Folder

\* What a step of the workspace does to the line of an entity: create adds to it,
\* and may take back what has not been applied.
LineGains(e) ==
    /\ Line(e)' = Line(e) \cup {Len(folders')}
    /\ \A i \in Line(e) : i < Len(folders')
    /\ Len(folders') \in Nat /\ status[Len(folders')] = "none"

LineLoses(e) ==
    /\ Line(e) = Line(e)' \cup {Len(folders)}
    /\ \A i \in Line(e)' : i < Len(folders)
    /\ Len(folders) \in Nat /\ status[Len(folders)] = "none"

LEMMA LineStep ==
    ASSUME GateInv, [Next]_vars, UNCHANGED gateVars, NEW e \in Entity, Clean(e)'
    PROVE  /\ Clean(e)
           /\ Line(e)' = Line(e) \/ LineGains(e) \/ LineLoses(e)
           /\ \A i \in Line(e) \cap Line(e)' : folders'[i] = folders[i]
<1> DEFINE Goal == /\ Clean(e)
                   /\ Line(e)' = Line(e) \/ LineGains(e) \/ LineLoses(e)
                   /\ \A i \in Line(e) \cap Line(e)' : folders'[i] = folders[i]
<1>0. /\ TypeOK /\ CommandAgrees /\ RecordInv
      /\ absorbed \subseteq absorbed' /\ status' = status
      /\ Len(folders) \in Nat /\ Line(e) \in SUBSET (1 .. Len(folders))
  BY AbsorbedStep, LineType DEF GateInv, RecordInv, gateVars
<1>1. ASSUME UNCHANGED <<folders, cmd>>, ~CreateSnapshot PROVE Goal
  <2>1. snapshot'[e].frozen = snapshot[e].frozen
    BY <1>0, <1>1, SnapshotStep DEF RecordInv
  <2>2. InFlight(e)' = InFlight(e)
    BY <1>1 DEF InFlight
  <2> QED  BY <1>1, <2>1, <2>2, LineLeft DEF FromModel
<1>2. ASSUME UNCHANGED folders, ~CreateSnapshot,
             cmd.pc \notin {"bump", "refused", "snapshot"},
             cmd'.pc \notin {"bump", "refused", "snapshot"} PROVE Goal
  <2>1. snapshot'[e].frozen = snapshot[e].frozen
    BY <1>0, <1>2, SnapshotStep DEF RecordInv
  <2>2. InFlight(e)' = InFlight(e) /\ InFlight(e) = {}
    BY <1>2 DEF InFlight
  <2> QED  BY <1>2, <2>1, <2>2, LineLeft
<1>3. CASE CreateBump \/ CreateRefused
  <2>1. cmd \in [pc : CreateStep, entity : Entity, loaded : Source, prev : SnapshotFile]
    BY <1>0, <1>3 DEF CreateBump, CreateRefused, TypeOK, Command, Idle, CreateStep
  <2>2. /\ cmd'.pc \in {"refused", "snapshot"} /\ cmd'.entity = cmd.entity /\ cmd.pc = "bump"
        /\ cmd'.loaded = cmd.loaded /\ cmd'.prev = cmd.prev
        /\ UNCHANGED <<folders, snapshot>>
    BY <1>3, <2>1 DEF CreateBump, CreateRefused
  <2>3. InFlight(e)' = InFlight(e) /\ FromModel(cmd') = FromModel(cmd)
    BY <2>2 DEF InFlight, FromModel
  <2> QED  BY <2>2, <2>3, LineLeft
<1>4. ASSUME cmd' = Idle, UNCHANGED folders, ~CreateSnapshot PROVE Goal
  <2>1. snapshot'[e].frozen = snapshot[e].frozen
    BY <1>0, <1>4, SnapshotStep DEF RecordInv
  <2>2. InFlight(e) = {}
    BY <1>4, <2>1, LeftBehind
  <2>3. InFlight(e)' = {}
    BY <1>4 DEF InFlight, Idle
  <2> QED  BY <1>4, <2>1, <2>2, <2>3, LineLeft
<1>5. CASE CreateSnapshot
  <2>1. /\ UNCHANGED folders /\ cmd' = Idle /\ cmd.pc = "snapshot"
    BY <1>5, <1>0, SnapshotWritten DEF CreateSnapshot
  <2>2. InFlight(e)' = {}
    BY <2>1 DEF InFlight, Idle
  <2>3. CASE e # cmd.entity
    <3>1. snapshot'[e] = snapshot[e] /\ InFlight(e) = {}
      BY <1>5, <2>3, <1>0, SnapshotWritten DEF InFlight
    <3> QED  BY <2>1, <2>2, <3>1, LineLeft
  <2>4. CASE e = cmd.entity
    <3>1. /\ InFlight(e) = {Len(folders)}
          /\ snapshot'[e].frozen = snapshot[e].frozen \cup {Len(folders)}
      BY <1>5, <1>0, <2>1, <2>4, SnapshotWritten DEF InFlight
    <3>2. Line(e)' = Line(e)
      BY <2>2, <3>1 DEF Line
    <3>3. Joins(e)
      BY <1>5, <1>0, <2>4, NewestJoins DEF Joins, Clean
    <3>4. Clean(e)
      BY <1>0, <2>1, <3>2, <3>3 DEF Clean, Folder
    <3> QED  BY <2>1, <3>2, <3>4
  <2> QED  BY <2>3, <2>4
<1>6. ASSUME NEW r \in FolderRow, folders' = Append(folders, r), UNCHANGED <<snapshot, absorbed>>,
             cmd.pc = "folder", Len(folders) < MaxFolders,
             \/ InFlight(e)' = {}
             \/ InFlight(e)' = {Len(folders')} /\ CreateFolder
      PROVE  Goal
  <2>1. /\ folders \in Seq(FolderRow) /\ Len(folders') = Len(folders) + 1
        /\ \A i \in 1 .. Len(folders) : folders'[i] = folders[i]
    BY <1>0, <1>6, AppendProperties DEF TypeOK
  <2>2. InFlight(e) = {} /\ Line(e) = snapshot[e].frozen
    BY <1>6 DEF InFlight, Line
  <2>3. Line(e)' = Line(e) \/ Line(e)' = Line(e) \cup {Len(folders')}
    BY <1>6, <2>2 DEF Line
  <2>4. \A i \in Folder : i \in Folder' /\ folders'[i] = folders[i] /\ i # Len(folders')
    BY <1>0, <2>1 DEF Folder
  <2>5. Clean(e)
    BY <1>0, <1>6, <2>2, <2>3, <2>4 DEF Clean
  <2>6. Len(folders') \in (1 .. MaxFolders) \ Folder
    BY <1>0, <1>6, <2>1, BoundAssumption DEF Folder
  <2>7. status[Len(folders')] = "none"
    BY <2>6 DEF GateInv, Numbered
  <2>8. Line(e)' = Line(e) \/ LineGains(e)
    BY <1>0, <2>1, <2>3, <2>7 DEF LineGains
  <2>9. \A i \in Line(e) : folders'[i] = folders[i]
    BY <1>0, <2>1
  <2> QED  BY <2>5, <2>8, <2>9
<1>7. CASE CreateFolder
  <2>1. NewFolder("complete") \in FolderRow
    BY <1>0, <1>7, NewFolderType DEF CreateFolder, CreateStep
  <2>2. InFlight(e)' = {} \/ InFlight(e)' = {Len(folders')}
    BY DEF InFlight
  <2> QED  BY <1>6, <1>7, <2>1, <2>2 DEF CreateFolder
<1>8. CASE CrashInFolder
  <2>1. NewFolder("partial") \in FolderRow
    BY <1>0, <1>8, NewFolderType DEF CrashInFolder, CreateStep
  <2>2. InFlight(e)' = {}
    BY <1>8 DEF CrashInFolder, InFlight, Idle
  <2> QED  BY <1>6, <1>8, <2>1, <2>2 DEF CrashInFolder
<1>9. CASE RemoveFolder
  <2> DEFINE n == Len(folders)
  <2>1. /\ folders' = [folders EXCEPT ![n] = [folders[n] EXCEPT !.state = "removed"]]
        /\ cmd.pc = "refused" /\ cmd' = Idle /\ UNCHANGED <<snapshot, absorbed>>
    BY <1>9 DEF RemoveFolder
  <2>2. n \in Folder /\ folders[n] = Own(cmd) /\ n \notin snapshot[e].frozen
    BY <1>0, <2>1 DEF CommandAgrees, Folder
  <2>3. folders[n] \in FolderRow
    BY <1>0, <2>2, FolderType
  <2>4. /\ Folder' = Folder
        /\ \A i \in Folder : i # n => folders'[i] = folders[i]
        /\ folders'[n].entity = folders[n].entity
    <3>1. folders \in Seq(FolderRow) /\ DOMAIN folders = 1 .. n
      BY <1>0 DEF TypeOK
    <3>2. DOMAIN folders' = DOMAIN folders /\ Len(folders') = n
      BY <1>0, <2>1, <3>1
    <3>3. folders'[n] = [folders[n] EXCEPT !.state = "removed"]
      BY <2>1, <2>2, <3>1 DEF Folder
    <3>4. folders'[n].entity = folders[n].entity
      BY <2>3, <3>3 DEF FolderRow
    <3> QED  BY <2>1, <3>1, <3>2, <3>4 DEF Folder
  <2>5. Line(e)' = snapshot[e].frozen
    BY <2>1 DEF Line, InFlight, Idle
  <2>6. CASE cmd.entity = e
    <3>1. Line(e) = Line(e)' \cup {n} /\ InFlight(e) = {n}
      BY <2>1, <2>5, <2>6 DEF Line, InFlight
    <3>2. status[n] = "none"
      BY <1>0, <2>2, <2>4, <2>5, <2>6 DEF Clean, Own
    <3>3. \A i \in Line(e)' : i \in 1 .. n /\ i # n
      BY <1>0, <2>2, <2>5, <3>1
    <3>4. LineLoses(e)
      BY <1>0, <3>1, <3>2, <3>3 DEF LineLoses
    <3>5. Clean(e)
      BY <1>0, <2>1, <2>4, <3>1, <3>2 DEF Clean
    <3>6. \A i \in Line(e)' : folders'[i] = folders[i]
      BY <2>4, <3>3 DEF Folder
    <3> QED  BY <3>4, <3>5, <3>6
  <2>7. CASE cmd.entity # e
    <3>1. Line(e)' = Line(e) /\ InFlight(e) = {}
      BY <2>5, <2>7 DEF Line, InFlight
    <3>2. folders[n].entity # e
      BY <2>2, <2>7 DEF Own
    <3>3. Clean(e)
      BY <1>0, <2>1, <2>4, <3>1, <3>2 DEF Clean
    <3>4. \A i \in Line(e) : i \in Folder /\ i # n
      BY <2>2, <2>5, <3>1, LineRows
    <3> QED  BY <2>4, <3>1, <3>3, <3>4
  <2> QED  BY <2>6, <2>7
<1>10. CASE CreateSnapshot \/ (~CreateSnapshot /\ UNCHANGED vars)
  BY <1>1, <1>5, <1>10 DEF vars
<1>11. ASSUME NEW f \in Entity, BaselineEntity(f), ~CreateSnapshot PROVE Goal
  <2>1. cmd.pc = "baseline" /\ (cmd' = Idle \/ cmd' = [cmd EXCEPT !.todo = @ \ {f}])
    BY <1>11 DEF BaselineEntity
  <2>2. cmd \in [pc : {"baseline"}, loaded : [Entity -> Source], todo : SUBSET Entity]
    BY <1>0, <2>1 DEF TypeOK, Command, Idle, CreateStep
  <2>3. cmd'.pc \in {"idle", "baseline"} /\ UNCHANGED folders
    BY <1>11, <2>1, <2>2 DEF Idle, BaselineEntity
  <2> QED  BY <1>2, <1>11, <2>1, <2>3
<1>12. ASSUME NEW f \in Entity, CreateLoad(f), ~CreateSnapshot PROVE Goal
  BY <1>2, <1>12 DEF CreateLoad, Idle
<1>13. ASSUME NEW force \in BOOLEAN, CreatePlan(force), ~CreateSnapshot PROVE Goal
  <2>1. cmd'.pc \in {"idle", "folder"} /\ cmd.pc = "plan" /\ UNCHANGED folders
    BY <1>13 DEF CreatePlan, Idle
  <2> QED  BY <1>2, <1>13, <2>1
<1>14. ASSUME BaselineLoad, ~CreateSnapshot PROVE Goal
  BY <1>2, <1>14 DEF BaselineLoad, Idle
<1>15. ASSUME NEW f \in Entity, CrashInSnapshot(f) \/ Crash, ~CreateSnapshot PROVE Goal
  BY <1>4, <1>15 DEF CrashInSnapshot, Crash
<1>16. ASSUME NEW f \in Entity, NEW m, Restore(f) \/ Edit(f, m), ~CreateSnapshot PROVE Goal
  BY <1>1, <1>16 DEF Restore, Edit
<1> QED
  BY <1>3, <1>5, <1>7, <1>8, <1>9, <1>10, <1>11, <1>12, <1>13, <1>14, <1>15, <1>16
  DEF Next, Create, Baseline, Dies, Develops

\* Where a set of migrations leads, when its rows are left.
LEMMA AfterKept ==
    ASSUME GateInv, NEW e \in Entity, NEW S \in SUBSET Line(e),
           \A i \in S : folders'[i] = folders[i]
    PROVE  VersionAfter(S)' = VersionAfter(S) /\ ModelAfter(e, S)' = ModelAfter(e, S)
<1>1. CASE S = {}
  BY <1>1 DEF VersionAfter, ModelAfter
<1>2. CASE S # {}
  <2>1. Newest(S) \in S
    BY <1>2, LineType, NewestIn
  <2> QED  BY <1>2, <2>1 DEF VersionAfter, ModelAfter, To
<1> QED  BY <1>1, <1>2

\* Only the bump of its own create moves the version of an entity.
LEMMA VersionKept ==
    ASSUME TypeOK, [Next]_vars, NEW e \in Entity, ~(CreateBump /\ cmd.entity = e)
    PROVE  source'[e].version = source[e].version
<1>1. source[e] \in Source
  BY DEF TypeOK
<1>2. ASSUME NEW f \in Entity, NEW m \in Model, Edit(f, m)
      PROVE  source'[e].version = source[e].version
  BY <1>1, <1>2 DEF Edit, TypeOK, Source
<1>3. CASE CreateBump
  BY <1>3 DEF CreateBump, TypeOK
<1>4. CASE UNCHANGED source
  BY <1>4
<1> QED
  BY <1>2, <1>3, <1>4
  DEF Next, vars, Create, Baseline, Dies, Develops, Restore, CreateLoad, CreatePlan, CreateFolder,
      CreateRefused, RemoveFolder, CreateSnapshot, BaselineLoad, BaselineEntity, Crash,
      CrashInFolder, CrashInSnapshot

\* The last step of a create is entered by the bump and left by writing or dying.
LEMMA LastStep ==
    ASSUME TypeOK, [Next]_vars, ~CreateBump, ~CreateSnapshot
    PROVE  /\ cmd'.pc = "snapshot" => cmd' = cmd
           /\ cmd.pc = "snapshot" => (cmd' = cmd \/ (cmd' = Idle /\ UNCHANGED folders))
<1> DEFINE Goal == /\ cmd'.pc = "snapshot" => cmd' = cmd
                   /\ cmd.pc = "snapshot" => (cmd' = cmd \/ (cmd' = Idle /\ UNCHANGED folders))
<1>1. CASE UNCHANGED vars
  BY <1>1 DEF vars
<1>2. CASE CreateFolder \/ CreateRefused
  <2>1. cmd \in [pc : CreateStep, entity : Entity, loaded : Source, prev : SnapshotFile]
    BY <1>2 DEF CreateFolder, CreateRefused, TypeOK, Command, Idle, CreateStep
  <2>2. cmd.pc # "snapshot" /\ cmd'.pc \in {"bump", "refused"}
    BY <1>2, <2>1 DEF CreateFolder, CreateRefused
  <2> QED  BY <2>2
<1>3. ASSUME NEW f \in Entity, BaselineEntity(f) PROVE Goal
  <2>1. cmd' = Idle \/ cmd' = [cmd EXCEPT !.todo = @ \ {f}]
    BY <1>3 DEF BaselineEntity
  <2>2. cmd \in [pc : {"baseline"}, loaded : [Entity -> Source], todo : SUBSET Entity]
    BY <1>3 DEF BaselineEntity, TypeOK, Command, Idle, CreateStep
  <2>3. cmd'.pc = "idle" \/ cmd'.pc = "baseline"
    BY <2>1, <2>2 DEF Idle
  <2>4. cmd.pc = "baseline"
    BY <1>3 DEF BaselineEntity
  <2> QED  BY <2>3, <2>4
<1>4. ASSUME NEW f \in Entity, CreateLoad(f) PROVE Goal
  BY <1>4 DEF CreateLoad, Idle
<1>5. ASSUME NEW force \in BOOLEAN, CreatePlan(force) PROVE Goal
  BY <1>5 DEF CreatePlan, Idle
<1>6. CASE BaselineLoad \/ RemoveFolder \/ CrashInFolder \/ Crash
  BY <1>6 DEF BaselineLoad, RemoveFolder, CrashInFolder, Crash, Idle
<1>7. ASSUME NEW f \in Entity, CrashInSnapshot(f) PROVE Goal
  BY <1>7 DEF CrashInSnapshot, Idle
<1>8. ASSUME NEW f \in Entity, NEW m \in Model, Edit(f, m) PROVE Goal
  BY <1>8 DEF Edit
<1>9. ASSUME NEW f \in Entity, Restore(f) PROVE Goal
  BY <1>9 DEF Restore
<1> QED
  BY <1>1, <1>2, <1>3, <1>4, <1>5, <1>6, <1>7, <1>8, <1>9
  DEF Next, Create, Baseline, Dies, Develops

LEMMA VersionsStep ==
    ASSUME GateInv, [Next]_vars, UNCHANGED gateVars, NEW e \in Entity, Clean(e)'
    PROVE  VersionsFollow(e)'
<1> DEFINE R == snapshot[e].frozen
<1>0. /\ TypeOK /\ CommandAgrees /\ RecordInv /\ RecordedInSequence
      /\ Clean(e) /\ VersionsFollow(e) /\ R \in SUBSET Line(e)
  BY LineStep DEF GateInv, RecordInv, Line
<1>1. \A i \in R : folders'[i] = folders[i]
  BY <1>0, RowsKept
<1>3. \A S \in SUBSET R : VersionAfter(S)' = VersionAfter(S)
  BY <1>0, <1>1, AfterKept
<1>4. CASE snapshot'[e].frozen = R
  <2>1. \A i \in R : Before(e, i)' = Before(e, i) /\ Before(e, i) \in SUBSET R
    BY <1>4 DEF Before
  <2>2. ASSUME NEW i \in R PROVE folders'[i].from = VersionAfter(Before(e, i))'
    <3>1. folders[i].from = VersionAfter(Before(e, i))
      BY <1>0 DEF VersionsFollow
    <3>2. VersionAfter(Before(e, i))' = VersionAfter(Before(e, i))
      BY <1>3, <2>1 DEF VersionAfter, To
    <3> QED  BY <1>1, <3>1, <3>2
  <2>3. VersionAfter(snapshot[e].frozen)' = VersionAfter(R)
    BY <1>3, <1>4 DEF VersionAfter, To
  <2>4. IF cmd'.pc = "snapshot" /\ cmd'.entity = e
        THEN cmd'.loaded.version = VersionAfter(R)
        ELSE source'[e].version = VersionAfter(R)
    <3>1. CASE CreateBump /\ cmd.entity = e
      <4>1. cmd \in [pc : CreateStep, entity : Entity, loaded : Source, prev : SnapshotFile]
        BY <1>0, <3>1 DEF CreateBump, TypeOK, Command, Idle, CreateStep
      <4>2. /\ cmd'.pc = "snapshot" /\ cmd'.entity = e /\ cmd'.loaded = cmd.loaded
            /\ cmd.pc = "bump" /\ source[e].version = cmd.loaded.version
        BY <3>1, <4>1 DEF CreateBump
      <4> QED  BY <1>0, <4>2 DEF VersionsFollow
    <3>2. CASE CreateBump /\ cmd.entity # e
      <4>1. cmd \in [pc : CreateStep, entity : Entity, loaded : Source, prev : SnapshotFile]
        BY <1>0, <3>2 DEF CreateBump, TypeOK, Command, Idle, CreateStep
      <4>2. cmd'.entity # e
        BY <3>2, <4>1 DEF CreateBump
      <4> QED  BY <1>0, <3>2, <4>2, VersionKept DEF VersionsFollow
    <3>3. CASE ~CreateBump /\ CreateSnapshot
      <4>1. cmd.pc = "snapshot" /\ cmd' = Idle /\ e # cmd.entity
        BY <1>0, <1>4, <3>3, SnapshotWritten DEF CreateSnapshot
      <4> QED  BY <1>0, <3>3, <4>1, VersionKept DEF VersionsFollow, Idle
    <3>4. CASE ~CreateBump /\ ~CreateSnapshot
      <4>1. CASE cmd.pc = "snapshot" /\ cmd.entity = e
        <5>1. InFlight(e) # {}
          BY <4>1 DEF InFlight
        <5>2. cmd' = cmd
          BY <1>0, <1>4, <3>4, <4>1, <5>1, LastStep, LeftBehind
        <5> QED  BY <1>0, <4>1, <5>2 DEF VersionsFollow
      <4>2. CASE ~(cmd.pc = "snapshot" /\ cmd.entity = e)
        <5>1. ~(cmd'.pc = "snapshot" /\ cmd'.entity = e)
          BY <1>0, <3>4, <4>2, LastStep
        <5> QED  BY <1>0, <3>4, <4>2, <5>1, VersionKept DEF VersionsFollow
      <4> QED  BY <4>1, <4>2
    <3> QED  BY <3>1, <3>2, <3>3, <3>4
  <2> QED  BY <1>4, <2>2, <2>3, <2>4 DEF VersionsFollow
<1>5. CASE CreateSnapshot /\ e = cmd.entity
  <2> DEFINE n == Len(folders)
  <2>1. /\ folders' = folders /\ source' = source
        /\ snapshot'[e].frozen = R \cup {n}
        /\ n \in Nat /\ \A i \in R : i \in Nat /\ i < n
        /\ folders[n] = Own(cmd)
        /\ source[e].version = cmd.loaded.version + 1
        /\ cmd.pc = "snapshot" /\ cmd' = Idle
    BY <1>0, <1>5, SnapshotWritten DEF Folder, CreateSnapshot
  <2>2. folders[n].from = VersionAfter(R) /\ cmd.loaded.version = VersionAfter(R)
    BY <1>0, <1>5, <2>1 DEF VersionsFollow, Own
  <2>3. Before(e, n)' = R /\ \A i \in R : Before(e, i)' = Before(e, i)
    BY <2>1 DEF Before
  <2>4. \A i \in R : folders'[i].from = VersionAfter(Before(e, i))'
    BY <1>0, <2>1, <2>3 DEF VersionsFollow, VersionAfter, To
  <2>5. folders'[n].from = VersionAfter(Before(e, n))'
    BY <2>1, <2>2, <2>3 DEF VersionAfter, To
  <2>6. Newest(R \cup {n}) = n
    BY <2>1, NewestIs
  <2>7. source'[e].version = VersionAfter(snapshot[e].frozen)'
    BY <2>1, <2>2, <2>6 DEF VersionAfter, To
  <2> QED  BY <2>1, <2>4, <2>5, <2>7 DEF VersionsFollow, Idle
<1> QED  BY <1>0, <1>4, <1>5, RecordStep

LEMMA WorkspaceStep ==
    ASSUME GateInv, [Next]_vars, UNCHANGED gateVars, NEW e \in Entity, Clean(e)'
    PROVE  VersionsFollow(e)' /\ InOrder(e)' /\ DiskFollows(e)'
<1>1. /\ Clean(e) /\ InOrder(e) /\ DiskFollows(e)
      /\ Line(e)' = Line(e) \/ LineGains(e) \/ LineLoses(e)
      /\ \A i \in Line(e) \cap Line(e)' : folders'[i] = folders[i]
      /\ status' = status /\ disk' = disk
      /\ Line(e) \in SUBSET Nat
  BY LineStep, LineType DEF GateInv, gateVars
<1>2. InOrder(e)'
  BY <1>1 DEF InOrder, LineGains, LineLoses
<1>3. Done(e)' = Done(e)
  <2>1. CASE Line(e)' = Line(e)
    BY <1>1, <2>1 DEF Done
  <2>2. CASE LineGains(e)
    <3>1. SettledPrefix(Line(e) \cup {Len(folders')}, status) = SettledPrefix(Line(e), status)
      BY <1>1, <2>2, PrefixMore DEF LineGains, Settled
    <3> QED  BY <1>1, <2>2, <3>1 DEF Done, LineGains, SettledPrefix
  <2>3. CASE LineLoses(e)
    <3>1. Line(e)' \in SUBSET Nat
      BY <1>1, <2>3 DEF LineLoses
    <3>2. SettledPrefix(Line(e)' \cup {Len(folders)}, status) = SettledPrefix(Line(e)', status)
      BY <2>3, <3>1, PrefixMore DEF LineLoses, Settled
    <3> QED  BY <1>1, <2>3, <3>2 DEF Done, LineLoses, SettledPrefix
  <2> QED  BY <1>1, <2>1, <2>2, <2>3
<1>4. Done(e) \in SUBSET Line(e) /\ Done(e)' \in SUBSET Line(e)'
  BY DEF Done, SettledPrefix
<1>5. \A i \in Done(e) : folders'[i] = folders[i]
  BY <1>1, <1>3, <1>4
<1>6. /\ VersionAfter(Done(e))' = VersionAfter(Done(e))
      /\ ModelAfter(e, Done(e))' = ModelAfter(e, Done(e))
  <2> DEFINE S == Done(e)
  <2>1. S \in SUBSET Line(e) /\ \A i \in S : folders'[i] = folders[i]
    BY <1>4, <1>5
  <2>2. Done(e)' = S
    BY <1>3
  <2> HIDE DEF S
  <2>3. S # {} => Newest(S) \in S
    BY <2>1, LineType, NewestIn
  <2>4. VersionAfter(S) = (IF S = {} THEN 1 ELSE folders[Newest(S)].from + 1)
        /\ ModelAfter(e, S) = (IF S = {} THEN Deployed[e] ELSE folders[Newest(S)].v2)
    BY DEF VersionAfter, ModelAfter, To
  <2>5. VersionAfter(Done(e))' = (IF S = {} THEN 1 ELSE folders'[Newest(S)].from + 1)
        /\ ModelAfter(e, Done(e))' = (IF S = {} THEN Deployed[e] ELSE folders'[Newest(S)].v2)
    BY <2>2 DEF VersionAfter, ModelAfter, To
  <2> QED  BY <2>1, <2>3, <2>4, <2>5 DEF S
<1> QED  BY <1>1, <1>2, <1>6, VersionsStep DEF DiskFollows

-----------------------------------------------------------------------------
(* A step of the commands.                                                   *)

\* The row of migration i takes status s; the files are left as they are.
Marks(i, s) == /\ i \in Folder /\ folders[i].state = "complete"
               /\ s # "none" /\ s \in {"applied", "finalized", "failed", "reverted"}
               /\ status' = [status EXCEPT ![i] = s]
               /\ UNCHANGED vars

\* It had left `pending` before, or it is the next of its entity to leave.
Leaves(i) == status[i] # "none" \/ NextPending(i)

LEMMA MarkStep ==
    ASSUME GateInv, NEW i, NEW s, Marks(i, s), Leaves(i), NEW e \in Entity, Clean(e)'
    PROVE  /\ Clean(e) /\ VersionsFollow(e) /\ DiskFollows(e)
           /\ Line(e)' = Line(e) /\ VersionsFollow(e)' /\ InOrder(e)'
           /\ Done(e)' = SettledPrefix(Line(e), status')
           /\ \A j \in Line(e) : j # i => status'[j] = status[j]
           /\ i \in Nat /\ status'[i] = s
           /\ i \in Line(e) <=> folders[i].entity = e
           /\ (i \in Line(e) /\ i \in InFlight(e)) => Joins(e)
<1>1. /\ i \in 1 .. Len(folders) /\ Len(folders) \in Nat /\ Len(folders) <= MaxFolders
      /\ status \in [1 .. MaxFolders -> {"none", "applied", "finalized", "failed", "reverted"}]
      /\ Line(e) \in SUBSET (1 .. Len(folders)) /\ i \in Nat
  BY LineType DEF Marks, GateInv, Numbered, GateTypeOK
<1>2. i \in 1 .. MaxFolders
  BY <1>1, BoundAssumption
<1>3. status'[i] = s /\ \A j \in 1 .. MaxFolders : j # i => status'[j] = status[j]
  BY <1>1, <1>2 DEF Marks
<1>4. \A j \in 1 .. Len(folders) : j \in 1 .. MaxFolders
  BY <1>1, BoundAssumption
<1>5. /\ Line(e)' = Line(e) /\ InFlight(e)' = InFlight(e)
      /\ (Joins(e)' <=> Joins(e)) /\ Folder' = Folder
      /\ UNCHANGED <<folders, absorbed, source, snapshot, cmd>>
  BY DEF Marks, vars, Line, InFlight, Joins, Tip, FromModel, Folder
<1>6. \A j \in Folder : status[j] # "none" => status'[j] # "none"
  BY <1>1, <1>3, <1>4 DEF Folder, Marks
<1>7. Clean(e)
  <2>1. \A j \in InFlight(e) : j \in Folder
    BY <1>1 DEF Line, Folder
  <2> QED  BY <1>5, <1>6, <2>1 DEF Clean
<1>8. VersionsFollow(e) /\ InOrder(e) /\ DiskFollows(e)
  BY <1>7 DEF GateInv
<1>9. VersionsFollow(e)'
  BY <1>5, <1>8 DEF VersionsFollow, VersionAfter, To, Before
<1>10. \A j \in Line(e) : (i \in Line(e) /\ j < i) => status[j] # "none" \/ status[i] # "none"
  <2> SUFFICES ASSUME NEW j \in Line(e), i \in Line(e), j < i,
                      status[i] = "none", status[j] = "none"
               PROVE  FALSE
    OBVIOUS
  <2>1. j \in Pending /\ folders[j].entity = folders[i].entity
    BY LineRows DEF Pending
  <2>2. folders[i].from < folders[j].from \/ (folders[i].from = folders[j].from /\ i <= j)
    BY <2>1 DEF Leaves, NextPending
  <2>3. folders[j].from < folders[i].from /\ folders[i].from \in Nat /\ folders[j].from \in Nat
    BY LineGrows, LineRows
  <2> QED  BY <2>2, <2>3
<1>11. InOrder(e)'
  <2> SUFFICES ASSUME NEW j \in Line(e), NEW k \in Line(e), j < k, status'[j] = "none"
               PROVE  status'[k] = "none"
    BY <1>5 DEF InOrder
  <2>1. j # i /\ status[j] = "none"
    BY <1>1, <1>3, <1>4 DEF Marks
  <2>2. status[k] = "none"
    BY <1>8, <2>1 DEF InOrder
  <2>3. k # i
    BY <1>10, <2>1, <2>2
  <2> QED  BY <1>1, <1>3, <1>4, <2>2, <2>3
<1>12. i \in Line(e) <=> folders[i].entity = e
  BY <1>7, LineRows DEF Clean, Marks
<1>13. (i \in Line(e) /\ i \in InFlight(e)) => Joins(e)
  BY <1>3, <1>5 DEF Clean, Marks
<1> QED  BY <1>1, <1>3, <1>4, <1>5, <1>7, <1>8, <1>9, <1>11, <1>12, <1>13 DEF Done

\* The records of an entity are left where they are.
LEMMA DiskLeft ==
    ASSUME GateInv, NEW i, NEW s, Marks(i, s), Leaves(i), NEW e \in Entity, Clean(e)',
           disk'[e] = disk[e],
           \/ folders[i].entity # e
           \/ s \in Settled <=> status[i] \in Settled
           \/ \E j \in Line(e) : j < i /\ status[j] \notin Settled
    PROVE  DiskFollows(e)'
<1>1. SettledPrefix(Line(e), status') = SettledPrefix(Line(e), status)
  BY MarkStep, LineType, PrefixSame
<1>2. Done(e)' = Done(e) /\ DiskFollows(e) /\ UNCHANGED folders
  BY <1>1, MarkStep DEF Done, Marks, vars
<1> QED  BY <1>2 DEF DiskFollows, VersionAfter, ModelAfter, To

\* Everything up to i is settled and nothing after it: the records stand behind i.
LEMMA StandsAfter ==
    ASSUME GateInv, NEW e \in Entity, NEW i \in Line(e), NEW st,
           SettledPrefix(Line(e), st) = {j \in Line(e) : j < i} \cup {i}
    PROVE  /\ VersionAfter(SettledPrefix(Line(e), st)) = To(i)
           /\ ModelAfter(e, SettledPrefix(Line(e), st)) = folders[i].v2
<1> DEFINE S == {j \in Line(e) : j < i} \cup {i}
<1>1. S \in SUBSET Nat /\ i \in S /\ \A j \in S : j <= i
  BY LineType
<1>2. Newest(S) = i
  BY <1>1, NewestIs
<1> QED  BY <1>1, <1>2 DEF VersionAfter, ModelAfter

LEMMA ApplyStep ==
    ASSUME GateInv, NEW i \in Folder, Apply(i), NEW e \in Entity, Clean(e)'
    PROVE  DiskFollows(e)'
<1>1. /\ Marks(i, "applied") /\ Leaves(i) /\ disk' = Copied(i)
      /\ status[i] = "none" /\ status[i] \notin Settled
  BY DEF Apply, Marks, Leaves, NextPending, Pending, Settled
<1>2. CASE folders[i].entity # e
  <2>1. disk'[e] = disk[e]
    BY <1>1, <1>2 DEF Copied, GateInv, GateTypeOK
  <2> QED  BY <1>1, <1>2, <2>1, DiskLeft
<1>3. CASE folders[i].entity = e
  <2>1. /\ Clean(e) /\ DiskFollows(e) /\ i \in Line(e) /\ i \in Nat
        /\ i \in InFlight(e) => Joins(e)
        /\ Done(e)' = SettledPrefix(Line(e), status')
        /\ \A j \in Line(e) : j # i => status'[j] = status[j]
        /\ status'[i] = "applied"
    BY <1>1, <1>3, MarkStep
  <2>2. folders[i].from = VersionAfter(Before(e, i)) /\ {j \in Line(e) : j < i} = Before(e, i)
    BY <2>1, LineFollows
  <2>3. CASE \E j \in Line(e) : j < i /\ status[j] \notin Settled
    <3>1. PICK j \in Line(e) : j < i /\ status[j] \notin Settled
      BY <2>3
    <3>2. disk[e].version <= folders[j].from
      BY <2>1, <3>1, StandsBelow
    <3>3. folders[j].from < folders[i].from /\ folders[i].from \in Nat /\ folders[j].from \in Nat
      BY <2>1, <3>1, LineGrows, LineRows
    <3>4. disk[e].version \in Nat
      BY DEF GateInv, GateTypeOK
    <3>5. disk[e].version # folders[i].from
      BY <3>2, <3>3, <3>4
    <3>6. disk'[e] = disk[e]
      BY <1>1, <1>3, <3>5 DEF Copied
    <3> QED  BY <1>1, <2>3, <3>6, DiskLeft
  <2>4. CASE \A j \in Line(e) : j < i => status[j] \in Settled
    <3>1. Done(e) = Before(e, i)
      <4>1. Line(e) \in SUBSET Nat
        BY LineType
      <4>2. SettledPrefix(Line(e), status) = {j \in Line(e) : j < i}
        BY <1>1, <2>1, <2>4, <4>1, PrefixEnds
      <4> QED  BY <2>2, <4>2 DEF Done
    <3>2. disk[e].version = folders[i].from
      BY <2>1, <2>2, <3>1 DEF DiskFollows
    <3>3. disk'[e] = [version |-> To(i), of |-> folders[i].v2]
      BY <1>1, <1>3, <3>2 DEF Copied, GateInv, GateTypeOK
    <3>4. \A j \in Line(e) : j <= i => status'[j] \in Settled
      <4> SUFFICES ASSUME NEW j \in Line(e), j <= i PROVE status'[j] \in Settled
        OBVIOUS
      <4>1. j = i \/ (j # i /\ j < i)
        BY <2>1, LineType
      <4> QED  BY <2>1, <2>4, <4>1 DEF Settled
    <3>5. \A k \in Line(e) : i < k => status'[k] \notin Settled
      <4> SUFFICES ASSUME NEW k \in Line(e), i < k PROVE status'[k] \notin Settled
        OBVIOUS
      <4>1. status[k] = "none" /\ k # i
        BY <1>1, <2>1 DEF GateInv, InOrder
      <4> QED  BY <2>1, <4>1 DEF Settled
    <3>6. SettledPrefix(Line(e), status') = {j \in Line(e) : j < i} \cup {i}
      BY <2>1, <3>4, <3>5, LineType, PrefixUpTo
    <3>7. /\ VersionAfter(SettledPrefix(Line(e), status')) = To(i)
          /\ ModelAfter(e, SettledPrefix(Line(e), status')) = folders[i].v2
      BY <2>1, <3>6, StandsAfter
    <3>8. UNCHANGED folders
      BY <1>1 DEF Marks, vars
    <3> QED  BY <2>1, <3>3, <3>7, <3>8 DEF DiskFollows, VersionAfter, ModelAfter, To
  <2> QED  BY <2>3, <2>4
<1> QED  BY <1>2, <1>3

LEMMA RollbackStep ==
    ASSUME GateInv, NEW i \in Folder, Rollback(i), NEW e \in Entity, Clean(e)'
    PROVE  DiskFollows(e)'
<1>1. /\ Marks(i, "reverted") /\ Leaves(i)
      /\ status[i] \in Settled \cup {"failed"} /\ IsHead(i)
      /\ disk' = IF status[i] = "failed" THEN disk ELSE Restored(i)
      /\ "reverted" \notin Settled
  BY DEF Rollback, MayRollBack, Marks, Leaves, Settled
<1>2. CASE folders[i].entity # e
  <2>1. disk'[e] = disk[e]
    BY <1>1, <1>2 DEF Restored, GateInv, GateTypeOK
  <2> QED  BY <1>1, <1>2, <2>1, DiskLeft
<1>3. CASE status[i] = "failed"
  <2>1. disk'[e] = disk[e] /\ status[i] \notin Settled
    BY <1>1, <1>3 DEF Settled
  <2> QED  BY <1>1, <2>1, DiskLeft
<1>4. CASE folders[i].entity = e /\ status[i] \in Settled
  <2>1. /\ Clean(e) /\ DiskFollows(e) /\ i \in Line(e) /\ i \in Nat
        /\ i \in InFlight(e) => Joins(e)
        /\ Done(e)' = SettledPrefix(Line(e), status')
        /\ \A j \in Line(e) : j # i => status'[j] = status[j]
        /\ status'[i] = "reverted"
    BY <1>1, <1>4, MarkStep
  <2>2. folders[i].from = VersionAfter(Before(e, i)) /\ {j \in Line(e) : j < i} = Before(e, i)
    BY <2>1, LineFollows
  <2>3. disk' = Restored(i)
    BY <1>1, <1>4 DEF Settled
  <2>4. CASE \E j \in Line(e) : j < i /\ status[j] \notin Settled
    <3>1. PICK j \in Line(e) : j < i /\ status[j] \notin Settled
      BY <2>4
    <3>2. disk[e].version <= folders[j].from
      BY <2>1, <3>1, StandsBelow
    <3>3. folders[j].from < folders[i].from /\ folders[i].from \in Nat /\ folders[j].from \in Nat
          /\ To(i) = folders[i].from + 1
      BY <2>1, <3>1, LineGrows, LineRows
    <3>4. disk[e].version \in Nat
      BY DEF GateInv, GateTypeOK
    <3>5. disk[e].version # To(i)
      BY <3>2, <3>3, <3>4
    <3>6. disk'[e] = disk[e]
      BY <1>4, <2>3, <3>5 DEF Restored
    <3> QED  BY <1>1, <2>4, <3>6, DiskLeft
  <2>5. CASE \A j \in Line(e) : j < i => status[j] \in Settled
    <3>1. \A j \in Line(e) : j <= i => status[j] \in Settled
      <4> SUFFICES ASSUME NEW j \in Line(e), j <= i PROVE status[j] \in Settled
        OBVIOUS
      <4>1. j = i \/ j < i
        BY <2>1, LineType
      <4> QED  BY <1>4, <2>5, <4>1
    <3>2. \A k \in Line(e) : i < k => status[k] \notin Settled
      <4> SUFFICES ASSUME NEW k \in Line(e), i < k, status[k] \in Settled PROVE FALSE
        OBVIOUS
      <4>1. k \in Folder /\ k # i /\ folders[k].entity = e
        BY <2>1, LineRows, LineType
      <4>2. To(k) <= To(i)
        BY <1>1, <1>4, <4>1 DEF IsHead
      <4>3. /\ folders[i].from < folders[k].from
            /\ folders[i].from \in Nat /\ folders[k].from \in Nat
            /\ To(i) = folders[i].from + 1 /\ To(k) = folders[k].from + 1
        BY <2>1, LineGrows, LineRows
      <4> QED  BY <4>2, <4>3
    <3>3. Done(e) = {j \in Line(e) : j < i} \cup {i}
      BY <2>1, <3>1, <3>2, LineType, PrefixUpTo DEF Done
    <3>4. disk[e].version = To(i)
      BY <2>1, <3>3, StandsAfter DEF DiskFollows, Done
    <3>5. disk'[e] = [version |-> folders[i].from, of |-> folders[i].v1]
      BY <1>4, <2>3, <3>4 DEF Restored, GateInv, GateTypeOK
    <3>6. \A j \in Line(e) : j < i => status'[j] \in Settled
      <4> SUFFICES ASSUME NEW j \in Line(e), j < i PROVE status'[j] \in Settled
        OBVIOUS
      <4>1. j # i
        BY <2>1
      <4> QED  BY <2>1, <2>5, <4>1
    <3>7. SettledPrefix(Line(e), status') = Before(e, i)
      <4>1. Line(e) \in SUBSET Nat /\ status'[i] \notin Settled
        BY <1>1, <2>1, LineType
      <4>2. SettledPrefix(Line(e), status') = {j \in Line(e) : j < i}
        BY <2>1, <3>6, <4>1, PrefixEnds
      <4> QED  BY <2>2, <4>2
    <3>8. Shape(folders[i].v1) = Shape(ModelAfter(e, Before(e, i)))
      BY <2>1, LineJoins
    <3>9. UNCHANGED folders
      BY <1>1 DEF Marks, vars
    <3>10. Done(e)' = Before(e, i)
      BY <2>1, <3>7
    <3> QED
      BY <2>2, <3>5, <3>8, <3>9, <3>10 DEF DiskFollows, VersionAfter, ModelAfter, To
  <2> QED  BY <2>4, <2>5
<1> QED  BY <1>1, <1>2, <1>3, <1>4

\* A refused apply, a refused rollback, a finalize, a release, an unlock.
LEMMA OtherStep ==
    ASSUME GateInv, NEW e \in Entity, Clean(e)',
           \/ \E i \in Folder : ApplyRefused(i) \/ RollbackRefused(i) \/ Finalize(i)
           \/ Release \/ Unlock
    PROVE  VersionsFollow(e)' /\ InOrder(e)' /\ DiskFollows(e)'
<1>1. ASSUME NEW i \in Folder, ApplyRefused(i)
      PROVE  VersionsFollow(e)' /\ InOrder(e)' /\ DiskFollows(e)'
  <2>1. /\ Marks(i, "failed") /\ Leaves(i) /\ disk' = disk
        /\ "failed" \notin Settled /\ status[i] \notin Settled
    BY <1>1 DEF ApplyRefused, Marks, Leaves, NextPending, Pending, Settled
  <2> QED  BY <2>1, MarkStep, DiskLeft
<1>2. ASSUME NEW i \in Folder, Finalize(i)
      PROVE  VersionsFollow(e)' /\ InOrder(e)' /\ DiskFollows(e)'
  <2>1. /\ Marks(i, "finalized") /\ Leaves(i) /\ disk' = disk
        /\ "finalized" \in Settled /\ status[i] \in Settled
    BY <1>2 DEF Finalize, Marks, Leaves, Settled
  <2> QED  BY <2>1, MarkStep, DiskLeft
<1>3. ASSUME UNCHANGED <<vars, status, disk>>
      PROVE  VersionsFollow(e)' /\ InOrder(e)' /\ DiskFollows(e)'
  <2>1. Clean(e)
    BY <1>3 DEF Clean, Line, InFlight, Joins, FromModel, Tip, Folder, vars
  <2>2. VersionsFollow(e) /\ InOrder(e) /\ DiskFollows(e)
    BY <2>1 DEF GateInv
  <2>3. /\ Line(e)' = Line(e) /\ Done(e)' = Done(e)
        /\ UNCHANGED <<folders, snapshot, source, cmd, status, disk>>
    BY <1>3 DEF Line, InFlight, Done, vars
  <2> QED
    BY <2>2, <2>3 DEF VersionsFollow, InOrder, DiskFollows, VersionAfter, ModelAfter, To, Before
<1> QED  BY <1>1, <1>2, <1>3 DEF RollbackRefused, Release, Unlock

\* Every step of the commands leaves the files or is the workspace's.
LEMMA GateStepIsNext ==
    ASSUME [GateNext]_<<vars, gateVars>>
    PROVE  [Next]_vars
  BY DEF GateNext, Apply, ApplyRefused, Rollback, RollbackRefused, Finalize, Release, Unlock

LEMMA GateTypeStep ==
    ASSUME GateInv, [GateNext]_<<vars, gateVars>>
    PROVE  GateTypeOK'
<1>0. /\ GateTypeOK /\ Len(folders) \in Nat /\ Len(folders) <= MaxFolders
      /\ Folder = 1 .. Len(folders) /\ TypeOK
  BY DEF GateInv, Numbered, RecordInv, TypeOK, Folder
<1>1. ASSUME NEW i \in Folder
      PROVE  /\ i \in 1 .. MaxFolders
             /\ Copied(i) \in [Entity -> [version : Nat, of : Model]]
             /\ Restored(i) \in [Entity -> [version : Nat, of : Model]]
             /\ Released(i) \in [state : {"free", "release", "failed"},
                                release : SUBSET (1 .. MaxFolders)]
  <2>1. i \in 1 .. MaxFolders
    BY <1>0, BoundAssumption
  <2>2. /\ folders[i].entity \in Entity /\ folders[i].from \in Nat /\ To(i) \in Nat
        /\ folders[i].v1 \in Model /\ folders[i].v2 \in Model
    BY <1>0, FolderType DEF To
  <2>3. [version |-> To(i), of |-> folders[i].v2] \in [version : Nat, of : Model]
        /\ [version |-> folders[i].from, of |-> folders[i].v1] \in [version : Nat, of : Model]
    BY <2>2
  <2>4. Copied(i) \in [Entity -> [version : Nat, of : Model]]
    BY <1>0, <2>3 DEF Copied, GateTypeOK
  <2>5. Restored(i) \in [Entity -> [version : Nat, of : Model]]
    BY <1>0, <2>3 DEF Restored, GateTypeOK
  <2>6. lock.release \in SUBSET (1 .. MaxFolders)
    BY <1>0 DEF GateTypeOK
  <2> QED  BY <2>1, <2>4, <2>5, <2>6 DEF Released
<1>2. ASSUME NEW i \in Folder, Apply(i) PROVE GateTypeOK'
  BY <1>0, <1>1, <1>2 DEF Apply, GateTypeOK
<1>3. ASSUME NEW i \in Folder, Rollback(i) PROVE GateTypeOK'
  BY <1>0, <1>1, <1>3 DEF Rollback, GateTypeOK
<1>4. ASSUME NEW i \in Folder, ApplyRefused(i) \/ RollbackRefused(i) \/ Finalize(i)
      PROVE  GateTypeOK'
  BY <1>0, <1>1, <1>4 DEF ApplyRefused, RollbackRefused, Finalize, GateTypeOK
<1>5. CASE Release \/ Unlock
  BY <1>0, <1>5 DEF Release, Unlock, GateTypeOK
<1>6. CASE UNCHANGED gateVars
  BY <1>0, <1>6 DEF GateTypeOK, gateVars
<1> QED  BY <1>2, <1>3, <1>4, <1>5, <1>6 DEF GateNext

LEMMA NumberedStep ==
    ASSUME GateInv, [GateNext]_<<vars, gateVars>>
    PROVE  Numbered'
<1>0. /\ folders \in Seq(FolderRow) /\ Len(folders) \in Nat /\ Len(folders) <= MaxFolders
      /\ \A i \in (1 .. MaxFolders) \ Folder : status[i] = "none"
      /\ status \in [1 .. MaxFolders -> {"none", "applied", "finalized", "failed", "reverted"}]
      /\ TypeOK /\ CommandAgrees
  BY DEF GateInv, Numbered, RecordInv, TypeOK, GateTypeOK
<1>1. ASSUME UNCHANGED folders,
             \/ status' = status
             \/ \E i \in Folder : \E s : status' = [status EXCEPT ![i] = s]
      PROVE  Numbered'
  <2>1. Folder' = Folder
    BY <1>1 DEF Folder
  <2>2. \A i \in (1 .. MaxFolders) \ Folder : status'[i] = status[i]
    BY <1>0, <1>1
  <2> QED  BY <1>0, <1>1, <2>1, <2>2 DEF Numbered
<1>2. ASSUME status' = status, Len(folders') \in Nat,
             Len(folders) <= Len(folders'), Len(folders') <= MaxFolders
      PROVE  Numbered'
  <2>1. Folder \subseteq Folder'
    BY <1>0, <1>2 DEF Folder
  <2> QED  BY <1>0, <1>2, <2>1 DEF Numbered
<1>3. ASSUME NEW r \in FolderRow, folders' = Append(folders, r), Len(folders) < MaxFolders,
             status' = status
      PROVE  Numbered'
  <2>1. Len(folders') = Len(folders) + 1
    BY <1>0, <1>3, AppendProperties
  <2> QED  BY <1>0, <1>2, <1>3, <2>1, BoundAssumption
<1>4. CASE CreateFolder /\ UNCHANGED gateVars
  BY <1>0, <1>3, <1>4, NewFolderType DEF CreateFolder, CreateStep, gateVars
<1>5. CASE CrashInFolder /\ UNCHANGED gateVars
  BY <1>0, <1>3, <1>5, NewFolderType DEF CrashInFolder, CreateStep, gateVars
<1>6. CASE RemoveFolder /\ UNCHANGED gateVars
  <2>1. folders' = [folders EXCEPT ![Len(folders)] = [folders[Len(folders)] EXCEPT !.state = "removed"]]
    BY <1>6 DEF RemoveFolder
  <2>2. Len(folders') = Len(folders)
    BY <1>0, <2>1
  <2> QED  BY <1>0, <1>2, <1>6, <2>2 DEF gateVars
<1>7. CASE UNCHANGED <<folders, gateVars>>
  BY <1>1, <1>7 DEF gateVars
<1>8. ASSUME NEW i \in Folder,
             Apply(i) \/ ApplyRefused(i) \/ Rollback(i) \/ RollbackRefused(i) \/ Finalize(i)
      PROVE  Numbered'
  <2>1. UNCHANGED folders
    BY <1>8 DEF Apply, ApplyRefused, Rollback, RollbackRefused, Finalize, vars
  <2>2. status' = status \/ \E s : status' = [status EXCEPT ![i] = s]
    BY <1>8 DEF Apply, ApplyRefused, Rollback, RollbackRefused, Finalize
  <2> QED  BY <1>1, <2>1, <2>2
<1>9. CASE Release \/ Unlock
  BY <1>1, <1>9 DEF Release, Unlock, vars
<1>10. CASE Next /\ UNCHANGED gateVars
  BY <1>4, <1>5, <1>6, <1>7, <1>10
  DEF Next, Create, Baseline, Dies, Develops, Edit, Restore, CreateLoad, CreatePlan, CreateBump,
      CreateRefused, CreateSnapshot, BaselineLoad, BaselineEntity, Crash, CrashInSnapshot
<1>11. CASE UNCHANGED <<vars, gateVars>>
  BY <1>7, <1>11 DEF vars
<1> QED  BY <1>8, <1>9, <1>10, <1>11 DEF GateNext

LEMMA GateInitInv == GateInit => GateInv
<1> SUFFICES ASSUME GateInit PROVE GateInv
  OBVIOUS
<1> USE BoundAssumption, DeployedAssumption
<1>1. RecordInv
  BY RecordInit DEF GateInit
<1>2. GateTypeOK
  BY DEF GateInit, GateTypeOK
<1>3. folders = <<>> /\ Len(folders) = 0 /\ cmd.pc = "idle"
  BY DEF GateInit, Init, Idle
<1>4. Numbered
  BY <1>3 DEF GateInit, Numbered
<1>5. ASSUME NEW e \in Entity PROVE VersionsFollow(e) /\ InOrder(e) /\ DiskFollows(e)
  <2>1. snapshot[e].frozen = {} /\ source[e].version = 1
        /\ disk[e] = [version |-> 1, of |-> Deployed[e]]
    BY DEF GateInit, Init
  <2>2. Line(e) = {} /\ Done(e) = {}
    BY <1>3, <2>1 DEF Line, InFlight, Done, SettledPrefix
  <2> QED
    BY <1>3, <2>1, <2>2 DEF VersionsFollow, InOrder, DiskFollows, VersionAfter, ModelAfter
<1> QED  BY <1>1, <1>2, <1>4, <1>5 DEF GateInv

LEMMA GateInductive == GateInv /\ [GateNext]_<<vars, gateVars>> => GateInv'
<1> SUFFICES ASSUME GateInv, [GateNext]_<<vars, gateVars>> PROVE GateInv'
  OBVIOUS
<1>1. RecordInv'
  BY GateStepIsNext, RecordInductive DEF GateInv
<1>2. GateTypeOK' /\ Numbered'
  BY GateTypeStep, NumberedStep
<1>3. ASSUME NEW e \in Entity, Clean(e)'
      PROVE  VersionsFollow(e)' /\ InOrder(e)' /\ DiskFollows(e)'
  <2>1. CASE [Next]_vars /\ UNCHANGED gateVars
    BY <1>3, <2>1, WorkspaceStep
  <2>2. ASSUME NEW i \in Folder, Apply(i)
        PROVE  VersionsFollow(e)' /\ InOrder(e)' /\ DiskFollows(e)'
    <3>1. Marks(i, "applied") /\ Leaves(i)
      BY <2>2 DEF Apply, Marks, Leaves, NextPending, Pending
    <3> QED  BY <1>3, <2>2, <3>1, MarkStep, ApplyStep
  <2>3. ASSUME NEW i \in Folder, Rollback(i)
        PROVE  VersionsFollow(e)' /\ InOrder(e)' /\ DiskFollows(e)'
    <3>1. Marks(i, "reverted") /\ Leaves(i)
      BY <2>3 DEF Rollback, MayRollBack, Marks, Leaves, Settled
    <3> QED  BY <1>3, <2>3, <3>1, MarkStep, RollbackStep
  <2> QED  BY <1>3, <2>1, <2>2, <2>3, OtherStep DEF GateNext
<1> QED  BY <1>1, <1>2, <1>3 DEF GateInv

THEOREM GateInvHolds == GateSpec => []GateInv
  BY GateInitInv, GateInductive, PTL DEF GateSpec

-----------------------------------------------------------------------------
(* The theorems.                                                             *)

\* Applying, rolling back and settling leave the files alone: whatever holds of
\* the workspace by itself holds of it under the commands.
THEOREM GateRefinesWorkspace == GateSpec => Spec
<1>1. GateInit => Init
  BY DEF GateInit
<1> QED  BY <1>1, GateStepIsNext, PTL DEF GateSpec, Spec

\* Rows, records and lock keep their types.
THEOREM GateTypeOKHolds == GateSpec => []GateTypeOK
<1>1. GateInv => GateTypeOK
  BY DEF GateInv
<1> QED  BY <1>1, GateInvHolds, PTL

\* A Whole entity is Clean, and no create of it is under way.
LEMMA WholeIsClean ==
    ASSUME GateInv, NEW e \in Entity, Whole(e)
    PROVE  Clean(e) /\ InFlight(e) = {} /\ Line(e) = snapshot[e].frozen
<1>1. InFlight(e) = {}
  <2> SUFFICES ASSUME NEW i \in InFlight(e) PROVE FALSE
    OBVIOUS
  <2>1. i \in Line(e) /\ i \notin snapshot[e].frozen
    BY LineType DEF Line
  <2> QED  BY <2>1, LineRows DEF Whole
<1> QED  BY <1>1 DEF Whole, Clean, Line

\* Only apply marks a migration applied.
LEMMA AppliedByApply ==
    ASSUME GateInv, GateNext, NEW i \in Folder, Applying(i)
    PROVE  Apply(i)
<1>1. status \in [1 .. MaxFolders -> {"none", "applied", "finalized", "failed", "reverted"}]
      /\ status'[i] = "applied" /\ status[i] # "applied"
  BY DEF GateInv, GateTypeOK, Applying
<1>2. i \in 1 .. MaxFolders
  BY BoundAssumption DEF GateInv, Numbered, RecordInv, TypeOK, Folder
<1>3. status' # status
  BY <1>1
<1>4. ASSUME NEW j \in Folder,
             Apply(j) \/ ApplyRefused(j) \/ Rollback(j) \/ RollbackRefused(j) \/ Finalize(j)
      PROVE  Apply(i)
  <2>1. CASE Apply(j)
    <3>1. status' = [status EXCEPT ![j] = "applied"]
      BY <2>1 DEF Apply
    <3>2. i = j
      BY <1>1, <1>2, <3>1
    <3> QED  BY <2>1, <3>2
  <2>2. CASE ApplyRefused(j)
    <3>1. status' = [status EXCEPT ![j] = "failed"]
      BY <2>2 DEF ApplyRefused
    <3> QED  BY <1>1, <1>2, <3>1
  <2>3. CASE Rollback(j)
    <3>1. status' = [status EXCEPT ![j] = "reverted"]
      BY <2>3 DEF Rollback
    <3> QED  BY <1>1, <1>2, <3>1
  <2>4. CASE RollbackRefused(j)
    BY <1>3, <2>4 DEF RollbackRefused
  <2>5. CASE Finalize(j)
    <3>1. status' = [status EXCEPT ![j] = "finalized"]
      BY <2>5 DEF Finalize
    <3> QED  BY <1>1, <1>2, <3>1
  <2> QED  BY <1>4, <2>1, <2>2, <2>3, <2>4, <2>5
<1> QED  BY <1>3, <1>4 DEF GateNext, Release, Unlock, gateVars

\* A migration applied after all the earlier ones of its entity meets records of
\* its fromVersion, in the shape its v1 was frozen from; one applied out of turn
\* changes no record.
THEOREM AppliesInChainHolds == GateSpec => AppliesInChain
<1> DEFINE A == \A i \in Folder : (Applying(i) /\ Whole(folders[i].entity)) =>
          LET e == folders[i].entity
          IN  IF \A j \in Earlier(i) : status[j] \in Settled
              THEN /\ disk[e].version = folders[i].from
                   /\ Shape(disk[e].of) = Shape(folders[i].v1)
              ELSE disk'[e] = disk[e]
<1>1. GateInv /\ [GateNext]_<<vars, gateVars>> => [A]_<<vars, gateVars>>
  <2> SUFFICES ASSUME GateInv, GateNext, NEW i \in Folder, Applying(i), Whole(folders[i].entity)
               PROVE  IF \A j \in Earlier(i) : status[j] \in Settled
                      THEN /\ disk[folders[i].entity].version = folders[i].from
                           /\ Shape(disk[folders[i].entity].of) = Shape(folders[i].v1)
                      ELSE disk'[folders[i].entity] = disk[folders[i].entity]
    OBVIOUS
  <2> DEFINE e == folders[i].entity
  <2>1. e \in Entity
    BY FolderType DEF GateInv, RecordInv
  <2>2. Apply(i)
    BY AppliedByApply
  <2>3. Clean(e) /\ InFlight(e) = {} /\ Line(e) = snapshot[e].frozen
    BY <2>1, WholeIsClean
  <2>4. /\ i \in Pending /\ status[i] = "none" /\ status[i] \notin Settled
        /\ folders[i].state = "complete"
    BY <2>2 DEF Apply, NextPending, Pending, Settled
  <2>5. i \in Line(e) /\ (i \in InFlight(e) => Joins(e))
    BY <2>3, <2>4 DEF Whole
  <2>6. CASE \A j \in Earlier(i) : status[j] \in Settled
    <3>1. \A j \in Line(e) : j < i => status[j] \in Settled
      BY <2>1, <2>3, <2>5, <2>6, LineGrows, LineRows DEF Earlier
    <3>2. Line(e) \in SUBSET Nat /\ DiskFollows(e)
      BY <2>1, <2>3, LineType DEF GateInv
    <3>3. SettledPrefix(Line(e), status) = {j \in Line(e) : j < i}
      BY <2>4, <2>5, <3>1, <3>2, PrefixEnds
    <3>4. Done(e) = Before(e, i) /\ folders[i].from = VersionAfter(Before(e, i))
      BY <2>1, <2>3, <2>5, <3>3, LineFollows DEF Done
    <3>5. Shape(folders[i].v1) = Shape(ModelAfter(e, Before(e, i)))
      BY <2>1, <2>3, <2>5, LineJoins
    <3> QED  BY <2>6, <3>2, <3>4, <3>5 DEF DiskFollows
  <2>7. CASE ~\A j \in Earlier(i) : status[j] \in Settled
    <3>1. PICK j \in Earlier(i) : status[j] \notin Settled
      BY <2>7
    <3>2. j \in Line(e) /\ folders[j].from < folders[i].from
      BY <2>3, <3>1 DEF Earlier
    <3>3. disk[e].version <= folders[j].from
      BY <2>1, <2>3, <3>1, <3>2, StandsBelow
    <3>4. /\ folders[j].from \in Nat /\ folders[i].from \in Nat
          /\ disk[e].version \in Nat
      BY <2>1, <2>3, <2>5, <3>2, LineRows DEF GateInv, GateTypeOK
    <3>5. disk[e].version # folders[i].from
      BY <3>2, <3>3, <3>4
    <3>6. disk' = disk
      BY <2>2, <3>5 DEF Apply, Copied
    <3> QED  BY <2>7, <3>6
  <2> QED  BY <2>6, <2>7
<1> QED  BY <1>1, GateInvHolds, PTL DEF GateSpec, AppliesInChain

\* What a migration reads of an entity all of whose migrations are applied has
\* the shape of the source it imports.
THEOREM ReadsMatchDiskHolds == GateSpec => ReadsMatchDisk
<1> DEFINE A == \A i \in Folder : Applying(i) =>
          \A y \in ReadBy(i) :
             (Whole(y) /\ \A j \in snapshot[y].frozen : status[j] \in Settled)
                => Shape(disk[y].of) = Shape(source[y].model)
<1>1. GateInv /\ [GateNext]_<<vars, gateVars>> => [A]_<<vars, gateVars>>
  <2> SUFFICES ASSUME GateInv, GateNext, NEW i \in Folder, Applying(i),
                      NEW y \in ReadBy(i), Whole(y),
                      \A j \in snapshot[y].frozen : status[j] \in Settled
               PROVE  Shape(disk[y].of) = Shape(source[y].model)
    OBVIOUS
  <2>1. y \in Entity
    BY FolderType, ReadsAssumption DEF GateInv, RecordInv, ReadBy
  <2>2. Matches(y)
    BY AppliedByApply DEF Apply, CtxBuilds
  <2>3. snapshot[y].state = "readable" /\ Shape(snapshot[y].of) = Shape(source[y].model)
    <3>1. /\ OnDisk(y).of = Shape(snapshot[y].of)
          /\ Fingerprint(Definition[source[y].model]).of = Shape(source[y].model)
      BY DEF OnDisk, Fingerprint, Shape
    <3> QED  BY <2>2, <3>1 DEF Matches
  <2>4. snapshot[y].of # NoModel
    BY <2>1, <2>3, SnapshotType, NoModelAssumption DEF GateInv, RecordInv
  <2>5. Clean(y) /\ Line(y) = snapshot[y].frozen
    BY <2>1, WholeIsClean
  <2>6. Done(y) = snapshot[y].frozen
    BY <2>5 DEF Done, SettledPrefix
  <2>7. Shape(disk[y].of) = Shape(Tip(y))
    BY <2>1, <2>5, <2>6 DEF GateInv, DiskFollows, ModelAfter, Tip
  <2>8. Shape(snapshot[y].of) = Shape(Tip(y))
    BY <2>1, <2>4, <2>5 DEF GateInv, RecordInv, DriftNeverLost, Clean
  <2> QED  BY <2>3, <2>7, <2>8
<1> QED  BY <1>1, GateInvHolds, PTL DEF GateSpec, ReadsMatchDisk

=============================================================================
