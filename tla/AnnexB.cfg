CONSTANTS
  Byte = {0, 1, 9}
  MaxSize = 7
SPECIFICATION Spec
INVARIANTS
  TypeOK
  SpansInBuffer
  NoStartCodeInside
  SplitsLikeReference
CHECK_DEADLOCK FALSE
