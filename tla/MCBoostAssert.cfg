CONSTANTS
  rd = rd
  wr = wr
  NULL = NULL
  Readable = rd
  Writable = wr
  MaxMessages = 4
SPECIFICATION BoostSpec
INVARIANT DescriptorAsserted
CHECK_DEADLOCK FALSE
