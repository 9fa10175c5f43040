\* The whole process, with fairness of its event loop.
SPECIFICATION FairSpec
CONSTANTS
  FileSizes = {0, 1, 4, 6}
  SliceSize = 2
  ChunkSize = 5
  NoFile = nofile
  Undefined = undefined
INVARIANTS
  TypeOK
  Framed
PROPERTIES
  CopySpec
  Asked
  Uploaded
