CONSTANTS
  None = None
  Path <- MCPathOne
  UnitOf <- MCUnitOf
  Unit = {"zelda"}
  Sha = {"x", "y"}
  RetiredMax = 2
  Proc = {p1, p2}
  Card = {"sd"}
  StartDisks <- StartOne
  StartKinds = {"good", "unreadable"}
  Scenarios <- ScenariosAloneOrEnds
  Recurring = TRUE
  Home = "sd"
SPECIFICATION AloneSpec
PROPERTIES EntriesSealedAlone DeletionStandsAlone RecordKeptAlone RunsEnd UnlinkHappens
CHECK_DEADLOCK FALSE
