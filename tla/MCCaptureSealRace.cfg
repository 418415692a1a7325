CONSTANTS
  None = None
  Path <- MCPath
  UnitOf <- MCUnitOf
  Unit = {"zelda"}
  Sha = {"x", "y"}
  RetiredMax = 2
  Proc = {p1, p2}
  Card = {"sd"}
  StartDisks <- StartOne
  StartKinds = {"good"}
  Scenarios <- ScenariosSealRace
  Recurring = FALSE
  Home = "sd"
SPECIFICATION Spec
SYMMETRY ProcSymmetry
INVARIANTS EntriesSealed
CHECK_DEADLOCK FALSE
