-------------------------- MODULE DriftClassifier --------------------------
(***************************************************************************)
(* Entity models, what the framework keeps of them and how it compares two  *)
(* of them: the projection and its fingerprint (src/src/safety), and the    *)
(* drift between two projections (src/src/drift).                           *)
(*                                                                         *)
(* A model has named attributes and indexes, and each of these a value for  *)
(* every field, Unset when it has none.  An index without a sort key has    *)
(* every sk field unset.  A drift is a set: its order is that of a report.  *)
(***************************************************************************)
EXTENDS Naturals, Sequences

CONSTANT Unset

(***************************************************************************)
(* What the options of a model bear on, said without the lists below.       *)
(***************************************************************************)

\* What is stored, and under which keys: README 10.1, and question Q1 in the
\* header of fingerprint-projection.ts.
StoredAttribute ==
    {"type", "required", "field", "enumArray", "properties", "items", "template", "padding"}

StoredIndex ==
    {"type", "collection",
     "pk.field", "pk.composite", "pk.casing", "pk.template", "pk.prefix", "pk.postfix",
     "sk.field", "sk.composite", "sk.casing", "sk.template", "sk.prefix", "sk.postfix"}

\* Access through the entity only: outside the list of README 10.1, in the
\* fingerprint by DRF-02, and reported.
Access == {"hidden", "readOnly"}

\* README 10.2: what must not count.
Behaviour == {"validate", "get", "condition"}

\* What an entity's model looks like: every attribute and index has every option,
\* and a key with composites has a list of them.
WellFormed(m) ==
    /\ \A k \in DOMAIN m.attributes :
          DOMAIN m.attributes[k] = StoredAttribute \cup Access \cup Behaviour
    /\ \A k \in DOMAIN m.indexes :
          /\ DOMAIN m.indexes[k] = StoredIndex \cup Behaviour
          /\ \A f \in {"pk.composite", "sk.composite"} :
                m.indexes[k][f] # Unset => m.indexes[k][f] \in Seq(STRING)

-----------------------------------------------------------------------------
(* Projections.                                                              *)

\* Mutant: an option is forgotten.
ProjectedAttributeLess ==
    {"type", "required", "hidden", "readOnly", "field",
     "enumArray", "properties", "items", "template"}

ProjectedAttribute ==
    {"type", "required", "hidden", "readOnly", "field",
     "enumArray", "properties", "items", "template", "padding"}

ProjectedIndex ==
    {"type", "collection",
     "pk.field", "pk.composite", "pk.casing", "pk.template", "pk.prefix", "pk.postfix",
     "sk.field", "sk.composite", "sk.casing", "sk.template", "sk.prefix", "sk.postfix"}

ProjectAttribute(a) == [f \in ProjectedAttribute |-> a[f]]

\* An index is isolated unless it says clustered.
ProjectIndex(i) ==
    [f \in ProjectedIndex |->
        IF f = "type" /\ i[f] # "clustered" THEN "isolated" ELSE i[f]]

\* model.version is left out, and so is model.entity, which an entity keeps.
Project(m) ==
    [service    |-> m.service,
     attributes |-> [n \in DOMAIN m.attributes |-> ProjectAttribute(m.attributes[n])],
     indexes    |-> [n \in DOMAIN m.indexes |-> ProjectIndex(m.indexes[n])]]

\* SHA-256 over the canonical JSON tells projections apart.
Fingerprint(m) == [prefix |-> "", of |-> Project(m)]

-----------------------------------------------------------------------------
(* Drift.                                                                    *)

\* Mutant: a field is forgotten.
AttributeChangeFieldsLess == ProjectedAttribute \ {"padding"}

AttributeChangeFields ==
    {"enumArray", "field", "hidden", "items", "padding",
     "properties", "readOnly", "required", "template", "type"}

IndexChangeFields ==
    {"collection", "pk.casing", "pk.composite", "pk.field", "pk.postfix", "pk.prefix",
     "pk.template", "sk.casing", "sk.composite", "sk.field", "sk.postfix", "sk.prefix",
     "sk.template", "type"}

\* A field that a projection does not have reads as undefined.
Value(p, f) == IF f \in DOMAIN p THEN p[f] ELSE Unset

CompareAttribute(p, c) == {f \in AttributeChangeFields : Value(p, f) # Value(c, f)}
CompareIndex(p, c)     == {f \in IndexChangeFields : Value(p, f) # Value(c, f)}

\* Mutant: whatever else has changed.
IsKeyRenameOf(p, c) ==
    \E k \in CompareIndex(p, c) \cap {"pk.composite", "sk.composite"} :
        /\ p[k] # Unset /\ c[k] # Unset
        /\ Len(p[k]) = Len(c[k])

\* findKeyRename: one composite is all that has changed, and at one position.
IsKeyRename(p, c) ==
    \E k \in {"pk.composite", "sk.composite"} :
        /\ CompareIndex(p, c) = {k}
        /\ p[k] # Unset /\ c[k] # Unset
        /\ Len(p[k]) = Len(c[k])
        /\ \E i \in 1 .. Len(p[k]) :
              \A j \in 1 .. Len(p[k]) : p[k][j] # c[k][j] <=> j = i

Drift(kind, n) == [kind |-> kind, name |-> n]

NamedDrift(kind, S) == {Drift(kind, n) : n \in S}

ComputeDrift(p, c) ==
    LET pa == DOMAIN p.attributes  ca == DOMAIN c.attributes
        pi == DOMAIN p.indexes     ci == DOMAIN c.indexes
        changed == {n \in pi \cap ci : CompareIndex(p.indexes[n], c.indexes[n]) # {}}
        renamed == {n \in changed : IsKeyRename(p.indexes[n], c.indexes[n])}
    IN  NamedDrift("attribute-added", ca \ pa)
        \cup NamedDrift("attribute-removed", pa \ ca)
        \cup NamedDrift("attribute-changed",
               {n \in pa \cap ca : CompareAttribute(p.attributes[n], c.attributes[n]) # {}})
        \cup NamedDrift("index-added", ci \ pi)
        \cup NamedDrift("index-removed", pi \ ci)
        \cup NamedDrift("index-changed", changed \ renamed)
        \cup NamedDrift("key-rename", renamed)

\* No snapshot yet: everything is new.
GreenfieldDrift(c) ==
    NamedDrift("attribute-added", DOMAIN c.attributes)
        \cup NamedDrift("index-added", DOMAIN c.indexes)

-----------------------------------------------------------------------------
(* The reference: what the answers should be, said without projections.      *)

\* An index is isolated unless it is clustered.
SameKind(x, y) == (x["type"] = "clustered") <=> (y["type"] = "clustered")

\* The same attributes, alike in these options, and the same indexes, alike in what
\* bears on the keys.
SameIn(m, n, options) ==
    /\ DOMAIN m.attributes = DOMAIN n.attributes
    /\ \A k \in DOMAIN m.attributes : \A f \in options : m.attributes[k][f] = n.attributes[k][f]
    /\ DOMAIN m.indexes = DOMAIN n.indexes
    /\ \A k \in DOMAIN m.indexes :
          /\ \A f \in StoredIndex \ {"type"} : m.indexes[k][f] = n.indexes[k][f]
          /\ SameKind(m.indexes[k], n.indexes[k])

\* Records of the one are stored as those of the other.  The service is part of
\* every key.
SameRecords(m, n) == m.service = n.service /\ SameIn(m, n, StoredAttribute)

\* What distinguishes the one from the other, if anything, is behaviour.
OnlyBehaviour(m, n) == m.service = n.service /\ SameIn(m, n, StoredAttribute \cup Access)

\* One element of one key is replaced and nothing else.
OneReplaced(x, y) ==
    \E k \in {"pk.composite", "sk.composite"} :
        /\ x[k] # Unset /\ y[k] # Unset
        /\ \E i \in DOMAIN x[k] :
              \E other \in {y[k][j] : j \in DOMAIN y[k]} \ {x[k][i]} :
                  y = [x EXCEPT ![k][i] = other]

=============================================================================
