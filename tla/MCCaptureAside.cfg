CONSTANTS
  None = None
  Path <- MCPath
  UnitOf <- MCUnitOf
  Unit = {"zelda"}
  Sha = {"x", "y"}
  RetiredMax = 2
  Proc = {p1, p2}
  Card = {"sd"}
  StartDisks <- StartOne
  StartKinds = {"unreadable"}
  Scenarios <- ScenariosBoots
  Recurring = FALSE
  Home = "sd"
SPECIFICATION Spec
SYMMETRY ProcSymmetry
INVARIANTS RecordKept
CHECK_DEADLOCK FALSE
