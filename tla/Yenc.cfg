SPECIFICATION Spec
CONSTANTS
  NULL = NULL
  Byte <- MCByte
  MaxPayload = 4
  LineLength = {1, 2}
INVARIANTS
  TypeOK
  DecodesPayload
  IntactAccepted
  DamageDetected
CHECK_DEADLOCK FALSE
