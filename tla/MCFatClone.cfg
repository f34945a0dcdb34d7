SPECIFICATION Spec
CONSTANTS
  Names <- MCNames
  Slot0 <- SLOT0
  Slot1 <- SLOT1
  Blocks = {"a", "b"}
  RootSectors = 3
  PerSector = 1
  DataSectors = 3
  KernelLen = 2
  MaxLen = 2
  CloneCap = 1

PROPERTIES
  CloneCopies
