CONSTANTS
  Connection = Connection
  m1 = m1
  v1 = v1
  u1 = u1
  u2 = u2
  Messages = {m1}
  Variables = {v1}
  Users = {u1, u2}
  MaxGets = 1
  NULL = NULL
  None = None
SPECIFICATION Spec
PROPERTY KeptForOthers
CHECK_DEADLOCK FALSE
