\* Two cards of different kinds, taken out and put in at any time, and requests
\* that fail.
CONSTANTS
  Cards <- MCCards
  HighCapacity <- MCHighCapacity
  Accepted <- MCAccepted
  None = None
  SectorCount = 3
  SectorBytes = 2
  ChunkSectors = 2
  Tries = 2
  MaxBusy = 1
  InitialData <- MCData
  Texts <- MCTexts
  Reads <- MCReads
  Writes <- MCWrites
  MaxCalls = 2
  Faults = {"io", "eject", "forget"}
  MaxFaults = 3
  a = a
  b = b
  x = x
SPECIFICATION Spec
INVARIANTS
  TypeOK
  ServedByStarted
  OnlyFaultsFail
PROPERTIES
  ImplementsStore
