CONSTANTS
  empty = empty
  old = old
  new = new
  r1 = r1
  Values <- TwoValues
  Empty <- empty
  Readers <- OneReader
  Length = 2
  MaxSaves = 3
  MaxFaults = 2
SPECIFICATION Spec
INVARIANTS
  FilesAreWhole
PROPERTIES
  SaveIsAllOrNothing
  SaveIsFinished
  ImplementsAtomicFile
