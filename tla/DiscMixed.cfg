\* A read from the disc on into the patches.
CONSTANTS
  PartSize = 14
  LastPartSize = 13
  BlockSize = 5
  HeaderSize = 1
  ReadAlign = 2
  DiskIDSize = 1
  HeadSize = 1
  PartitionAt <- MCPartitionAt
  NoBlock = NoBlock
  Faults = {"io", "card", "patch"}
  Titles <- MCTitles
  NoTitle = NoTitle
  Launcher = Channel
  Menu = MenuTitle
  IOSTitles = {SomeIOS}
  Requests <- MCRequests
  PatchBase = 16
  SystemArea = 6
  MaxPatches = 3
  Tables <- MCTables
  Reads <- MCReads
  Game = Game
  Channel = Channel
  MenuTitle = MenuTitle
  SomeIOS = SomeIOS
SPECIFICATION Spec
INVARIANTS
  MixedReadsReachThePatches
