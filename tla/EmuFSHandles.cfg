\* Clients of replaced files, of two direct handles and of /dev/fs on a table of
\* two slots, while any disk call may fail and the card may leave and another come.
CONSTANTS
  NumSlots = 2
  NumDirect = 2
  NumMgr = 2
  RealLimit = 1
  Paths = {a, b}
  TmpPaths = {}
  OtherNand = {}
  Modes = {"r"}
  Files = {f, g}
  Texts = {}
  Faults = {"io", "card"}
  NoPath = NoPath
  NoFile = NoFile
  NotFound = NotFound
  Empty = Empty
  Torn = Torn
SPECIFICATION Spec
SYMMETRY Symmetry
INVARIANTS
  TypeOK
  SlotOwnership
  OneSlotPerPath
  AssertionsHold
  HeldSlotsAreServed
  CacheCoherent
  LoopMatchesScan
PROPERTIES
  OpenRewinds
