CONSTANTS
  empty = empty
  one = one
  other = other
  big = big
  none = none
  Pushers = {p1}
  Removers = {r1}
  Payloads = {empty, one}
  PayloadLen <- MCPayloadLen
  NoPayload = none
  Cap = 3
  Hdr = 1
  HeadMod = 16
  LenMod = 16
  MaxReserved = 5
  MaxHead = 9
SPECIFICATION Spec
INVARIANTS StoredInBuffer
