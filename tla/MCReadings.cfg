SPECIFICATION MCSpec
CONSTANTS
  a1 = a1  a2 = a2
  l1 = l1  l2 = l2  left = left  both = both  root = root  alice = alice
  Nodes = {l1, l2, left, both, root}
  Slots = {}
  Owners = {alice}
  OwnerOf <- MCOwnerOf
  LeafIds = {a1, a2}
  SlotIds = {d0, d1}
  Attempts = {a1, a2, d0, d1}
  Variants <- MCVariants
  Ceiling = 9
  Version = 2
  MaxPerNode = 1
  MaxCalls = 9
  MaxInput = 9
  MaxOutput = 9
  MaxSpend = 9
  MaxEvents = 40
  StartAt = 0
  Deadline = 1
  BaseDelay = 0
  MaxDelay = 0
  None = None
  LeafOrder <- MCLeafOrder
  Parents <- MCParents
  Ids = {1, 2}
  Asks <- MCAsks
  Cuts <- MCCuts
  Rank <- MCRank
  MaxDeliveryBytes = 3
  MaxDeliveryParts = 2
  MaxRequests = 3
  MaxCandidates = 3
  Procs = {p, q}
  MaxCrashes = 1
SYMMETRY Alike
INVARIANTS HistoryVerifies StoreLoads Conserved
PROPERTY ImplementsReadings
CHECK_DEADLOCK FALSE
