--------------------------- MODULE MCRecordStore ---------------------------
(* Instances of RecordStore for TLC.                                         *)
EXTENDS RecordStore, TLC

OwnPartition == [k \in Key |-> k]
OnePartition == [k \in Key |-> 0]

AnyContent == Permutations(Content)
=============================================================================
