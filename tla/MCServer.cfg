CONSTANTS
  s1 = s1
  s2 = s2
  s3 = s3
  a1 = a1
  a2 = a2
  a3 = a3
  a4 = a4
  i1 = i1
  i2 = i2
  m1 = m1
  m2 = m2
  n1 = n1
  n2 = n2
  r1 = r1
  r2 = r2
  NULL = NULL
  Here = Here
  Servers = {s1, s2, s3}
  Adaptors = {a1, a2, a3, a4}
  Interfaces = {i1, i2}
  Paths = {p1, p2}
  Objects = {t1}
  Methods = {m1, m2}
  Names = {n1, n2}
  Rivals <- MCRivals
  ServerOf <- MCServerOf
  InterfaceName <- MCInterfaceName
  Vtbl <- MCVtbl
  NameOf <- MCNameOf
SPECIFICATION ServiceSpec
INVARIANTS
  TablesRight
  NoDanglingAdaptor
  ObjectTreeExact
  DeadServerOnlyByLeftovers
  NamesRight
  ServedByName
PROPERTIES
  PathChangedByOwner
  OwnerSteady
SYMMETRY RivalsAlike
CHECK_DEADLOCK FALSE
