CONSTANTS
  Unset = Unset
  NoModel = NoModel
  Entity = {"Team", "User"}
  Definition <- Models
  Model = {"base", "status"}
  Deployed <- AllBase
  Edits <- TeamChanges
  Reads <- UserReadsTeam
  Undeclared <- ReadsNothing
  Prefix = "sha256:"
  MaxFolders = 2
SPECIFICATION ClaimSpec
CHECK_DEADLOCK FALSE
INVARIANT StaleMeansStale
