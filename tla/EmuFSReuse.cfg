\* A reused descriptor and the file its path leads to.
CONSTANTS
  NumSlots = 2
  NumDirect = 1
  NumMgr = 2
  RealLimit = 1
  Paths = {a, b}
  TmpPaths = {}
  OtherNand = {}
  Modes = {"r"}
  Files = {f, g}
  Texts = {}
  Faults = {}
  NoPath = NoPath
  NoFile = NoFile
  NotFound = NotFound
  Empty = Empty
  Torn = Torn
SPECIFICATION Spec
SYMMETRY Symmetry
PROPERTIES
  OpenYieldsNamedFile
