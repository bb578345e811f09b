CONSTANTS
  i0 = i0
  i1 = i1
  s0 = s0
  s0NUL = s0NUL
  latin1 = latin1
  b0 = b0
  b1 = b1
  BasicTypes = {"i", "s", "b"}
  BasicValues <- MCBasicValues
  CStr <- MCCStr
  NotUtf8 = {latin1}
  Wide = {"b"}
  Type <- MCType
  MessageTypes <- MCMessageTypes
  MaxLength = 2
SPECIFICATION Spec
INVARIANTS
  ArgumentsArrive
  AbortHasCause
CHECK_DEADLOCK FALSE
