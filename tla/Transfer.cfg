SPECIFICATION FairSpec
CONSTANTS
  FileLen = 4
  Offsets = {0, 1}
  MaxSize = 2
  MaxRetries = 1
  Uint32 = 8
  Sizes = {1, 2, 3}
INVARIANTS
  FetchedIsFile
  WrittenIsFile
