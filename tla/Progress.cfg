SPECIFICATION AllSpec
CONSTANTS
  MaxThreads = 3
  NONE = NONE
  DEQ = DEQ
  EMPTY = EMPTY
  OK = OK
  a = a
  b = b
  c = c
PROPERTIES LockSound TicketLockSound CallsEnd
