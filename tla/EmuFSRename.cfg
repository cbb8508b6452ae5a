\* Renames from the NAND onto the card, with disk errors and clients that write.
CONSTANTS
  NumSlots = 1
  NumDirect = 1
  NumMgr = 1
  RealLimit = 1
  Paths = {a, b}
  TmpPaths = {t}
  OtherNand = {n}
  Modes = {"r", "rw"}
  Files = {f, g}
  Texts = {x}
  Faults = {"io"}
  NoPath = NoPath
  NoFile = NoFile
  NotFound = NotFound
  Empty = Empty
  Torn = Torn
SPECIFICATION Spec
SYMMETRY Symmetry
PROPERTIES
  SourceOutlivesCopy
CHECK_DEADLOCK FALSE
