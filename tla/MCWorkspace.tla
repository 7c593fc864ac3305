---------------------------- MODULE MCWorkspace ----------------------------
(* Instances of Workspace and ReadsGate for TLC.                             *)
EXTENDS ReadsGate, TLC

Plain == [f \in StoredAttribute \cup Access \cup Behaviour |->
             CASE f = "type" -> "string"
               [] f \in {"required", "hidden", "readOnly"} -> FALSE
               [] OTHER -> Unset]

Table == [f \in StoredIndex \cup Behaviour |->
             CASE f = "pk.composite" -> <<"id", "name">>
               [] f = "sk.composite" -> <<>>
               [] f = "pk.field" -> "pk"
               [] f = "sk.field" -> "sk"
               [] OTHER -> Unset]

Base == [service    |-> "app",
         attributes |-> [n \in {"id", "name"} |-> Plain],
         indexes    |-> [n \in {"primary"} |-> Table]]

With(m, n)        == [m EXCEPT !.attributes = (n :> Plain) @@ @]
Changed(f)        == IF f \in {"required", "hidden", "readOnly"} THEN TRUE ELSE "changed"
Having(m, n, f)   == [m EXCEPT !.attributes[n][f] = Changed(f)]
Keyed(m, f, v)    == [m EXCEPT !.indexes["primary"][f] = v]
Indexed(m, n)     == [m EXCEPT !.indexes = (n :> Table) @@ @]

\* One change of every option, and the changes the classifier tells apart.
Models ==
    [f \in StoredAttribute \cup Access \cup {"validate", "get"} |-> Having(Base, "name", f)]
    @@ [f \in StoredIndex \ {"type", "pk.composite", "sk.composite"} |->
          Keyed(Base, f, "changed")]
    @@ [base      |-> Base,
        moved     |-> [Base EXCEPT !.service = "other"],
        status    |-> With(Base, "status"),
        condition |-> Keyed(Base, "condition", "sparse"),
        clustered |-> Keyed(Base, "type", "clustered"),
        isolated  |-> Keyed(Base, "type", "isolated"),
        byStatus  |-> Indexed(With(Base, "status"), "byStatus"),
        renamed   |-> Keyed(Base, "pk.composite", <<"id", "status">>),
        swapped   |-> Keyed(Base, "pk.composite", <<"name", "id">>),
        longer    |-> Keyed(Base, "sk.composite", <<"name">>),
        rekeyed   |-> Keyed(Keyed(Base, "pk.composite", <<"id", "status">>), "pk.casing", "lower"),
        twoKeys   |-> Keyed(Keyed(Base, "pk.composite", <<"id", "status">>),
                            "sk.composite", <<"name">>)]

AllBase == [e \in Entity |-> "base"]

\* The team's shape changes; the user's migrations are forced.
TeamChanges == [e \in Entity |-> IF e = "Team" THEN {<<"base", "status">>} ELSE {}]

\* Declared by the users' migrations, and not by the team's.
UserReadsTeam == [e \in Entity |-> IF e = "User" THEN {"Team"} ELSE {}]
ReadsNothing  == [e \in Entity |-> {}]
TeamPeeks     == [e \in Entity |-> IF e = "Team" THEN {"User"} ELSE {}]

=============================================================================
