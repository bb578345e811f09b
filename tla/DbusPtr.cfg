CONSTANTS
  Connection = Connection
  m1 = m1
  m2 = m2
  v1 = v1
  v2 = v2
  u1 = u1
  u2 = u2
  u3 = u3
  Messages = {m1, m2}
  Variables = {v1, v2}
  Users = {u1, u2, u3}
  MaxGets = 2
  NULL = NULL
  None = None
SPECIFICATION Spec
INVARIANTS
  CountsKept
  MessagesCounted
  ExamplesServe
CHECK_DEADLOCK FALSE
