CONSTANTS
  rd = rd
  wr = wr
  NULL = NULL
  Readable = rd
  Writable = wr
  Fd = 3
  MAX_WATCHES = 6
  MaxMessages = 2
  MaxRegistrations = 3
  Junk <- MCJunk
SPECIFICATION Spec
INVARIANTS
  TablesRight
  NoFreedWatch
  NoLostWakeup
PROPERTY SocketServed
CHECK_DEADLOCK FALSE
