SPECIFICATION Spec
CONSTANTS
  Geometries <- MCGeometries
  DumpFormats <- MCDumpFormats
  FillFormats <- MCFillFormats
  ReadFormats <- MCReadFormats
  Counts = {0, 3}
  Frames = 2
  Disks = {15, 100}
  Foreign = {7, 30}
  Block = 2
  Page = 4
  Modulus = 300
INVARIANTS TypeOK ReadsPictures ChecksumsTell PixelsAsDocumented
CHECK_DEADLOCK FALSE
