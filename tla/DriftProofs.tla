---------------------------- MODULE DriftProofs ----------------------------
(***************************************************************************)
(* The drift classifier against its reference, for every pair of models.    *)
(***************************************************************************)
EXTENDS DriftClassifier, TLAPS

\* The two allowlists name the fields that are projected, each of them, and these are
\* the options that bear on shape or access.
LEMMA ListsAgree ==
    /\ AttributeChangeFields = ProjectedAttribute
    /\ IndexChangeFields = ProjectedIndex
    /\ ProjectedAttribute = StoredAttribute \cup Access
    /\ ProjectedIndex = StoredIndex
  BY DEF AttributeChangeFields, ProjectedAttribute, IndexChangeFields, ProjectedIndex,
         StoredAttribute, Access, StoredIndex

LEMMA FieldFacts ==
    /\ "type" \in ProjectedAttribute /\ "type" \in ProjectedIndex
    /\ "pk.composite" \in ProjectedIndex /\ "sk.composite" \in ProjectedIndex
  BY DEF ProjectedAttribute, ProjectedIndex

LEMMA AttributeEqual ==
    ASSUME NEW x, NEW y
    PROVE  /\ ProjectAttribute(x) = ProjectAttribute(y)
                 <=> \A f \in ProjectedAttribute : x[f] = y[f]
           /\ CompareAttribute(ProjectAttribute(x), ProjectAttribute(y)) = {}
                 <=> \A f \in ProjectedAttribute : x[f] = y[f]
<1> DEFINE p == ProjectAttribute(x)  q == ProjectAttribute(y)
<1>1. /\ p = [f \in ProjectedAttribute |-> x[f]]
      /\ q = [f \in ProjectedAttribute |-> y[f]]
  BY DEF ProjectAttribute
<1>2. /\ DOMAIN p = ProjectedAttribute /\ DOMAIN q = ProjectedAttribute
      /\ \A f \in ProjectedAttribute : p[f] = x[f] /\ q[f] = y[f]
  BY <1>1
<1>3. \A f \in ProjectedAttribute : Value(p, f) = x[f] /\ Value(q, f) = y[f]
  BY <1>2 DEF Value
<1>4. CompareAttribute(p, q) = {f \in ProjectedAttribute : Value(p, f) # Value(q, f)}
  BY ListsAgree DEF CompareAttribute
<1>5. CompareAttribute(p, q) = {} <=> \A f \in ProjectedAttribute : x[f] = y[f]
  <2> HIDE DEF p, q
  <2> QED  BY <1>3, <1>4
<1>6. p = q <=> \A f \in ProjectedAttribute : x[f] = y[f]
  <2> HIDE DEF p, q
  <2> QED  BY <1>1, <1>2
<1> QED  BY <1>5, <1>6

LEMMA IndexEqual ==
    ASSUME NEW x, NEW y
    PROVE  /\ ProjectIndex(x) = ProjectIndex(y)
                 <=> (\A f \in StoredIndex \ {"type"} : x[f] = y[f]) /\ SameKind(x, y)
           /\ CompareIndex(ProjectIndex(x), ProjectIndex(y)) = {}
                 <=> ProjectIndex(x) = ProjectIndex(y)
<1> DEFINE p == ProjectIndex(x)  q == ProjectIndex(y)
<1>1. /\ p = [f \in ProjectedIndex |-> p[f]] /\ q = [f \in ProjectedIndex |-> q[f]]
      /\ DOMAIN p = ProjectedIndex /\ DOMAIN q = ProjectedIndex
      /\ \A f \in ProjectedIndex \ {"type"} : p[f] = x[f] /\ q[f] = y[f]
  BY DEF ProjectIndex
<1>2. (p["type"] = q["type"]) <=> SameKind(x, y)
  <2>1. \A z : ProjectIndex(z)["type"] = IF z["type"] = "clustered" THEN "clustered" ELSE "isolated"
    BY FieldFacts DEF ProjectIndex
  <2> QED  BY <2>1 DEF SameKind
<1> HIDE DEF p, q
<1>3. p = q <=> \A f \in ProjectedIndex : p[f] = q[f]
  BY <1>1
<1>4. CompareIndex(p, q) = {f \in ProjectedIndex : Value(p, f) # Value(q, f)}
  BY ListsAgree DEF CompareIndex
<1>5. \A f \in ProjectedIndex : Value(p, f) = p[f] /\ Value(q, f) = q[f]
  BY <1>1 DEF Value
<1>6. CompareIndex(p, q) = {} <=> p = q
  BY <1>3, <1>4, <1>5
<1>7. p = q <=> (\A f \in ProjectedIndex \ {"type"} : x[f] = y[f]) /\ SameKind(x, y)
  BY <1>1, <1>2, <1>3, FieldFacts
<1> QED  BY <1>6, <1>7, ListsAgree DEF p, q

LEMMA NamedNone == ASSUME NEW kind, NEW S PROVE NamedDrift(kind, S) = {} <=> S = {}
  BY DEF NamedDrift

\* computeDrift over projectEntityModel: nothing is reported exactly when the models
\* have the same attributes and indexes, alike in every option but behaviour.
LEMMA NoDrift ==
    ASSUME NEW m, NEW n
    PROVE  ComputeDrift(Project(m), Project(n)) = {}
              <=> SameIn(m, n, StoredAttribute \cup Access)
<1> DEFINE pa == DOMAIN m.attributes  ca == DOMAIN n.attributes
           pi == DOMAIN m.indexes     ci == DOMAIN n.indexes
           moved == {k \in pa \cap ca : CompareAttribute(ProjectAttribute(m.attributes[k]),
                                                         ProjectAttribute(n.attributes[k])) # {}}
           changed == {k \in pi \cap ci : CompareIndex(ProjectIndex(m.indexes[k]),
                                                       ProjectIndex(n.indexes[k])) # {}}
           renamed == {k \in changed : IsKeyRename(ProjectIndex(m.indexes[k]),
                                                   ProjectIndex(n.indexes[k]))}
<1>1. /\ DOMAIN Project(m).attributes = pa /\ DOMAIN Project(n).attributes = ca
      /\ DOMAIN Project(m).indexes = pi /\ DOMAIN Project(n).indexes = ci
      /\ \A k \in pa : Project(m).attributes[k] = ProjectAttribute(m.attributes[k])
      /\ \A k \in ca : Project(n).attributes[k] = ProjectAttribute(n.attributes[k])
      /\ \A k \in pi : Project(m).indexes[k] = ProjectIndex(m.indexes[k])
      /\ \A k \in ci : Project(n).indexes[k] = ProjectIndex(n.indexes[k])
  BY DEF Project
<1>2. ComputeDrift(Project(m), Project(n))
         = NamedDrift("attribute-added", ca \ pa)
           \cup NamedDrift("attribute-removed", pa \ ca)
           \cup NamedDrift("attribute-changed", moved)
           \cup NamedDrift("index-added", ci \ pi)
           \cup NamedDrift("index-removed", pi \ ci)
           \cup NamedDrift("index-changed", changed \ renamed)
           \cup NamedDrift("key-rename", renamed)
  <2>1. moved = {k \in pa \cap ca : CompareAttribute(Project(m).attributes[k],
                                                     Project(n).attributes[k]) # {}}
    BY <1>1
  <2>2. changed = {k \in pi \cap ci : CompareIndex(Project(m).indexes[k],
                                                   Project(n).indexes[k]) # {}}
    BY <1>1
  <2>3. renamed = {k \in changed : IsKeyRename(Project(m).indexes[k], Project(n).indexes[k])}
    BY <1>1
  <2> HIDE DEF moved, changed, renamed
  <2> QED  BY <1>1, <2>1, <2>2, <2>3 DEF ComputeDrift
<1>3. ComputeDrift(Project(m), Project(n)) = {}
         <=> pa = ca /\ pi = ci /\ moved = {} /\ changed = {}
  <2> HIDE DEF moved, changed, pa, ca, pi, ci
  <2>1. changed \ renamed = {} /\ renamed = {} <=> changed = {}
    OBVIOUS
  <2> HIDE DEF renamed
  <2>2. ComputeDrift(Project(m), Project(n)) = {}
           <=> /\ NamedDrift("attribute-added", ca \ pa) = {}
               /\ NamedDrift("attribute-removed", pa \ ca) = {}
               /\ NamedDrift("attribute-changed", moved) = {}
               /\ NamedDrift("index-added", ci \ pi) = {}
               /\ NamedDrift("index-removed", pi \ ci) = {}
               /\ NamedDrift("index-changed", changed \ renamed) = {}
               /\ NamedDrift("key-rename", renamed) = {}
    BY <1>2
  <2>3. ca \ pa = {} /\ pa \ ca = {} <=> pa = ca
    OBVIOUS
  <2>4. ci \ pi = {} /\ pi \ ci = {} <=> pi = ci
    OBVIOUS
  <2> QED  BY <2>1, <2>2, <2>3, <2>4, NamedNone
<1>4. pa = ca => (moved = {} <=> \A k \in pa : \A f \in StoredAttribute \cup Access :
                                     m.attributes[k][f] = n.attributes[k][f])
  <2>1. \A k \in pa : CompareAttribute(ProjectAttribute(m.attributes[k]),
                                      ProjectAttribute(n.attributes[k])) = {}
                        <=> \A f \in StoredAttribute \cup Access :
                               m.attributes[k][f] = n.attributes[k][f]
    BY AttributeEqual, ListsAgree
  <2> HIDE DEF pa, ca
  <2> QED  BY <2>1
<1>5. pi = ci => (changed = {} <=>
         \A k \in pi : /\ \A f \in StoredIndex \ {"type"} : m.indexes[k][f] = n.indexes[k][f]
                       /\ SameKind(m.indexes[k], n.indexes[k]))
  BY IndexEqual
<1> QED
  <2> HIDE DEF moved, changed
  <2> QED  BY <1>3, <1>4, <1>5 DEF SameIn

LEMMA SameProjection ==
    ASSUME NEW m, NEW n
    PROVE  Project(m) = Project(n)
              <=> m.service = n.service /\ SameIn(m, n, StoredAttribute \cup Access)
<1> DEFINE A(x) == [k \in DOMAIN x.attributes |-> ProjectAttribute(x.attributes[k])]
           I(x) == [k \in DOMAIN x.indexes |-> ProjectIndex(x.indexes[k])]
<1>1. Project(m) = Project(n)
         <=> m.service = n.service /\ A(m) = A(n) /\ I(m) = I(n)
  <2>1. \A x : Project(x) = [service |-> x.service, attributes |-> A(x), indexes |-> I(x)]
    BY DEF Project
  <2> HIDE DEF A, I
  <2> QED  BY <2>1
<1>2. A(m) = A(n)
         <=> /\ DOMAIN m.attributes = DOMAIN n.attributes
             /\ \A k \in DOMAIN m.attributes :
                   ProjectAttribute(m.attributes[k]) = ProjectAttribute(n.attributes[k])
  <2>1. \A x : DOMAIN A(x) = DOMAIN x.attributes
              /\ \A k \in DOMAIN x.attributes : A(x)[k] = ProjectAttribute(x.attributes[k])
    OBVIOUS
  <2>2. ASSUME A(m) = A(n)
        PROVE  /\ DOMAIN m.attributes = DOMAIN n.attributes
               /\ \A k \in DOMAIN m.attributes :
                     ProjectAttribute(m.attributes[k]) = ProjectAttribute(n.attributes[k])
    <3> HIDE DEF A
    <3> QED  BY <2>1, <2>2
  <2> QED  BY <2>2
<1>3. I(m) = I(n)
         <=> /\ DOMAIN m.indexes = DOMAIN n.indexes
             /\ \A k \in DOMAIN m.indexes :
                   ProjectIndex(m.indexes[k]) = ProjectIndex(n.indexes[k])
  <2>1. \A x : DOMAIN I(x) = DOMAIN x.indexes
              /\ \A k \in DOMAIN x.indexes : I(x)[k] = ProjectIndex(x.indexes[k])
    OBVIOUS
  <2>2. ASSUME I(m) = I(n)
        PROVE  /\ DOMAIN m.indexes = DOMAIN n.indexes
               /\ \A k \in DOMAIN m.indexes :
                     ProjectIndex(m.indexes[k]) = ProjectIndex(n.indexes[k])
    <3> HIDE DEF I
    <3> QED  BY <2>1, <2>2
  <2> QED  BY <2>2
<1> HIDE DEF A, I
<1> QED  BY <1>1, <1>2, <1>3, AttributeEqual, IndexEqual, ListsAgree DEF SameIn

\* The classifier finds no drift between two models of one service exactly when
\* their fingerprints agree: its list of fields and that of the projection do
\* (computeDrift, fingerprintEntityModel).
THEOREM DriftExact ==
    ASSUME NEW m, NEW n
    PROVE  ComputeDrift(Project(m), Project(n)) = {} /\ m.service = n.service
              <=> Fingerprint(m) = Fingerprint(n)
<1>1. Fingerprint(m) = Fingerprint(n) <=> Project(m) = Project(n)
  BY DEF Fingerprint
<1> QED  BY <1>1, NoDrift, SameProjection

\* No change of what is stored goes unreported (README 10.1), the service apart,
\* and no change of behaviour alone is reported (README 10.2).
THEOREM DriftOfShape ==
    ASSUME NEW m, NEW n
    PROVE  /\ (ComputeDrift(Project(m), Project(n)) = {} /\ m.service = n.service)
                 => SameRecords(m, n)
           /\ OnlyBehaviour(m, n) => ComputeDrift(Project(m), Project(n)) = {}
  BY NoDrift DEF SameIn, SameRecords, OnlyBehaviour

-----------------------------------------------------------------------------
(* Renames.                                                                  *)

IndexShape(x) == /\ x = [f \in ProjectedIndex |-> x[f]]
            /\ \A k \in {"pk.composite", "sk.composite"} : x[k] # Unset => x[k] \in Seq(STRING)

LEMMA ProjectedKeyed ==
    ASSUME NEW m, WellFormed(m), NEW k \in DOMAIN m.indexes
    PROVE  IndexShape(Project(m).indexes[k])
<1>1. Project(m).indexes[k] = ProjectIndex(m.indexes[k])
  BY DEF Project
<1>2. \A f \in {"pk.composite", "sk.composite"} : ProjectIndex(m.indexes[k])[f] = m.indexes[k][f]
  BY FieldFacts DEF ProjectIndex
<1>3. ProjectIndex(m.indexes[k]) = [f \in ProjectedIndex |-> ProjectIndex(m.indexes[k])[f]]
  BY DEF ProjectIndex
<1> QED  BY <1>1, <1>2, <1>3 DEF IndexShape, WellFormed

LEMMA Compared ==
    ASSUME NEW x, NEW y, IndexShape(x), IndexShape(y), NEW k \in ProjectedIndex
    PROVE  CompareIndex(x, y) = {k}
              <=> x[k] # y[k] /\ \A f \in ProjectedIndex \ {k} : x[f] = y[f]
<1>1. \A f \in ProjectedIndex : Value(x, f) = x[f] /\ Value(y, f) = y[f]
  BY DEF IndexShape, Value
<1> QED  BY <1>1, ListsAgree DEF CompareIndex

\* findKeyRename answers exactly for one element of one key replaced, whatever
\* its length and place.
LEMMA RenameExact ==
    ASSUME NEW x, NEW y, IndexShape(x), IndexShape(y)
    PROVE  IsKeyRename(x, y) <=> OneReplaced(x, y)
<1>1. ASSUME IsKeyRename(x, y) PROVE OneReplaced(x, y)
  <2>1. PICK k \in {"pk.composite", "sk.composite"} :
           /\ CompareIndex(x, y) = {k}
           /\ x[k] # Unset /\ y[k] # Unset
           /\ Len(x[k]) = Len(y[k])
           /\ \E i \in 1 .. Len(x[k]) :
                 \A j \in 1 .. Len(x[k]) : x[k][j] # y[k][j] <=> j = i
    BY <1>1 DEF IsKeyRename
  <2>2. PICK i \in 1 .. Len(x[k]) :
           \A j \in 1 .. Len(x[k]) : x[k][j] # y[k][j] <=> j = i
    BY <2>1
  <2>3. x[k] \in Seq(STRING) /\ y[k] \in Seq(STRING) /\ k \in ProjectedIndex
    BY <2>1, FieldFacts DEF IndexShape
  <2>4. i \in DOMAIN x[k] /\ i \in DOMAIN y[k] /\ y[k][i] # x[k][i]
    BY <2>1, <2>2, <2>3
  <2>5. y[k] = [x[k] EXCEPT ![i] = y[k][i]]
    <3>1. DOMAIN x[k] = 1 .. Len(x[k]) /\ DOMAIN y[k] = 1 .. Len(x[k])
      BY <2>1, <2>3
    <3>2. y[k] = [j \in 1 .. Len(x[k]) |-> y[k][j]]
      BY <2>3, <3>1
    <3>3. [x[k] EXCEPT ![i] = y[k][i]] = [j \in 1 .. Len(x[k]) |-> IF j = i THEN y[k][i] ELSE x[k][j]]
      BY <3>1
    <3>4. \A j \in 1 .. Len(x[k]) : y[k][j] = IF j = i THEN y[k][i] ELSE x[k][j]
      BY <2>2
    <3>5. [j \in 1 .. Len(x[k]) |-> y[k][j]]
            = [j \in 1 .. Len(x[k]) |-> IF j = i THEN y[k][i] ELSE x[k][j]]
      BY <3>4
    <3> QED  BY <3>2, <3>3, <3>5
  <2>6. y = [x EXCEPT ![k] = y[k]]
    <3>1. \A f \in ProjectedIndex \ {k} : x[f] = y[f]
      BY <2>1, <2>3, Compared
    <3>2. DOMAIN x = ProjectedIndex
      BY DEF IndexShape
    <3>3. [x EXCEPT ![k] = y[k]] = [f \in ProjectedIndex |-> y[f]]
      BY <3>1, <3>2
    <3> QED  BY <3>3 DEF IndexShape
  <2>7. y = [x EXCEPT ![k][i] = y[k][i]]
    BY <2>5, <2>6
  <2> QED  BY <2>1, <2>4, <2>7 DEF OneReplaced
<1>2. ASSUME OneReplaced(x, y) PROVE IsKeyRename(x, y)
  <2>1. PICK k \in {"pk.composite", "sk.composite"} :
           /\ x[k] # Unset /\ y[k] # Unset
           /\ \E i \in DOMAIN x[k] :
                 \E other \in {y[k][j] : j \in DOMAIN y[k]} \ {x[k][i]} :
                     y = [x EXCEPT ![k][i] = other]
    BY <1>2 DEF OneReplaced
  <2>2. PICK i \in DOMAIN x[k] :
           \E other \in {y[k][j] : j \in DOMAIN y[k]} \ {x[k][i]} :
               y = [x EXCEPT ![k][i] = other]
    BY <2>1
  <2>3. PICK other : other # x[k][i] /\ y = [x EXCEPT ![k][i] = other]
    BY <2>2
  <2>4. x[k] \in Seq(STRING) /\ y[k] \in Seq(STRING) /\ k \in ProjectedIndex
        /\ DOMAIN x = ProjectedIndex
    BY <2>1, FieldFacts DEF IndexShape
  <2>5. y[k] = [x[k] EXCEPT ![i] = other] /\ \A f \in ProjectedIndex \ {k} : y[f] = x[f]
    BY <2>3, <2>4
  <2>6. Len(x[k]) = Len(y[k]) /\ i \in 1 .. Len(x[k])
    <3>1. DOMAIN y[k] = DOMAIN x[k]
      BY <2>5
    <3> QED  BY <2>4, <3>1
  <2>7. \A j \in 1 .. Len(x[k]) : x[k][j] # y[k][j] <=> j = i
    BY <2>3, <2>4, <2>5, <2>6
  <2>8. CompareIndex(x, y) = {k}
    BY <2>4, <2>5, <2>6, <2>7, Compared
  <2> QED  BY <2>1, <2>6, <2>7, <2>8 DEF IsKeyRename
<1> QED  BY <1>1, <1>2

\* What is reported as a rename is one, and every one is: nothing else that has
\* changed of an index hides behind a rename.
THEOREM RenamesReported ==
    ASSUME NEW m, NEW n, WellFormed(m), WellFormed(n)
    PROVE  {d \in ComputeDrift(Project(m), Project(n)) : d.kind = "key-rename"}
             = NamedDrift("key-rename",
                 {k \in DOMAIN m.indexes \cap DOMAIN n.indexes :
                     OneReplaced(Project(m).indexes[k], Project(n).indexes[k])})
<1> DEFINE p == Project(m)  c == Project(n)
           both == DOMAIN p.indexes \cap DOMAIN c.indexes
           changed == {k \in both : CompareIndex(p.indexes[k], c.indexes[k]) # {}}
           renamed == {k \in changed : IsKeyRename(p.indexes[k], c.indexes[k])}
<1>1. both = DOMAIN m.indexes \cap DOMAIN n.indexes
  BY DEF Project
<1>2. renamed = {k \in both : OneReplaced(p.indexes[k], c.indexes[k])}
  <2>1. \A k \in both : IsKeyRename(p.indexes[k], c.indexes[k])
                          <=> OneReplaced(p.indexes[k], c.indexes[k])
    BY <1>1, ProjectedKeyed, RenameExact
  <2>2. \A k \in both : IsKeyRename(p.indexes[k], c.indexes[k])
                          => CompareIndex(p.indexes[k], c.indexes[k]) # {}
    BY DEF IsKeyRename
  <2> HIDE DEF both, p, c
  <2> QED  BY <2>1, <2>2
<1>3. {d \in ComputeDrift(p, c) : d.kind = "key-rename"} = NamedDrift("key-rename", renamed)
  <2>1. \A S : \A d \in NamedDrift("key-rename", S) : d.kind = "key-rename"
    BY DEF NamedDrift, Drift
  <2>2. \A kind, S : kind # "key-rename" => \A d \in NamedDrift(kind, S) : d.kind # "key-rename"
    BY DEF NamedDrift, Drift
  <2>3. PICK A : ComputeDrift(p, c) = A \cup NamedDrift("key-rename", renamed)
                 /\ \A d \in A : d.kind # "key-rename"
    <3> DEFINE A == NamedDrift("attribute-added", DOMAIN c.attributes \ DOMAIN p.attributes)
                   \cup NamedDrift("attribute-removed", DOMAIN p.attributes \ DOMAIN c.attributes)
                   \cup NamedDrift("attribute-changed",
                          {k \in DOMAIN p.attributes \cap DOMAIN c.attributes :
                              CompareAttribute(p.attributes[k], c.attributes[k]) # {}})
                   \cup NamedDrift("index-added", DOMAIN c.indexes \ DOMAIN p.indexes)
                   \cup NamedDrift("index-removed", DOMAIN p.indexes \ DOMAIN c.indexes)
                   \cup NamedDrift("index-changed", changed \ renamed)
    <3>1. ComputeDrift(p, c) = A \cup NamedDrift("key-rename", renamed)
      BY DEF ComputeDrift
    <3>2. \A d \in A : d.kind # "key-rename"
      <4> HIDE DEF p, c, changed, renamed
      <4> QED  BY <2>2
    <3> QED  BY <3>1, <3>2
  <2> HIDE DEF renamed, p, c
  <2> QED  BY <2>1, <2>3
<1> QED  BY <1>1, <1>2, <1>3

=============================================================================
