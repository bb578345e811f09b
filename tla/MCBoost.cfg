CONSTANTS
  rd = rd
  wr = wr
  NULL = NULL
  Readable = rd
  Writable = wr
  MaxMessages = 4
SPECIFICATION BoostSpec
INVARIANTS
  WaitsRight
  OnlyStaticWatches
PROPERTY InputServed
CHECK_DEADLOCK FALSE
