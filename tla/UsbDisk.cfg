\* A drive whose transfers fail at any point.
CONSTANTS
  Units <- MCUnits
  MaxAttentions = 1
  Tries = 2
  ChunkSectors = 1
  InitialDisk <- MCDisk
  Texts <- MCTexts
  Reads <- MCReads
  Writes <- MCWrites
  MaxTag = 18
  Faults = {"lost", "status", "stall", "ctrl", "forget"}
  MaxFaults = 3
  a = a
  b = b
  x = x
  y = y
SPECIFICATION Spec
INVARIANTS
  TypeOK
  InStep
  InitFindsTheDisk
PROPERTIES
  ImplementsStore
CHECK_DEADLOCK FALSE
