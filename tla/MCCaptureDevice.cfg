CONSTANTS
  None = None
  Path <- MCPath
  UnitOf <- MCUnitOf
  Unit = {"zelda"}
  Sha = {"x", "y"}
  RetiredMax = 2
  Proc = {p1, p2}
  Card = {sd, usb}
  StartDisks <- StartEither
  StartKinds = {"good", "newer", "absent"}
  Scenarios <- ScenariosDevice
  Recurring = FALSE
  Home = sd
SPECIFICATION DeviceSpec
SYMMETRY ProcSymmetry
INVARIANTS TypeOK CommitOnLoaded CreditsInTime NotOverNewGame OneCardPerCommit
PROPERTIES StampLinesKept RetiredRowsKept ImplementsRecord YoungSealsKept ReadableNeverDropped
CHECK_DEADLOCK FALSE
