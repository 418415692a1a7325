CONSTANTS
  None = None
  Path <- MCPath
  Sha = {"x", "y", "z"}
  Unit = {"zelda", "tetris"}
  UnitOf <- MCUnitOf
  RetiredMax = 2
  MaxTime = 1
  Files <- MCFiles
SPECIFICATION OnceSpec
INVARIANTS CandidatesRecorded NoVersionLost VanishedStaysClaimed ProvenanceFollowsVersion
PROPERTY SecondPassIsQuiet
CHECK_DEADLOCK FALSE
