CONSTANTS
  empty = empty
  one = one
  other = other
  big = big
  none = none
  Pushers = {p1, p2, p3}
  Removers = {r1, r2}
  Payloads = {empty}
  PayloadLen <- MCPayloadLen
  NoPayload = none
  Cap = 4
  Hdr = 1
  HeadMod = 32
  LenMod = 16
  MaxReserved = 7
  MaxHead = 7
SPECIFICATION NestedSpec
PROPERTIES PushReturns PopReturns NestedCallHangs
CONSTRAINT NoFault
CHECK_DEADLOCK FALSE
