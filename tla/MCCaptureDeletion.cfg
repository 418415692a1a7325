CONSTANTS
  None = None
  Path <- MCPath
  UnitOf <- MCUnitOf
  Unit = {"zelda"}
  Sha = {"x", "y"}
  RetiredMax = 2
  Proc = {p1, p2}
  Card = {"sd"}
  StartDisks <- StartOne
  StartKinds = {"good"}
  Scenarios <- ScenariosDeletion
  Recurring = FALSE
  Home = "sd"
SPECIFICATION Spec
SYMMETRY ProcSymmetry
INVARIANTS DeletionStands
CHECK_DEADLOCK FALSE
