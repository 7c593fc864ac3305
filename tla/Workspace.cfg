CONSTANTS
  Unset = Unset
  NoModel = NoModel
  Entity = {"Team", "User"}
  Definition <- Models
  Model = {"base", "status"}
  Deployed <- AllBase
  Edits <- TeamChanges
  Reads <- UserReadsTeam
  Undeclared <- TeamPeeks
  Prefix = ""
  MaxFolders = 2
SPECIFICATION GateSpec
INVARIANTS TypeOK GateTypeOK RecordedInSequence DriftNeverLost RecordedJoin DriftIsExact ShapeIsSeen RenameIsReplacement
PROPERTIES RecordIsKept  ReadsMatchDisk
CHECK_DEADLOCK FALSE
